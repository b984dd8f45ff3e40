------------------------------- MODULE Profiles -------------------------------
(***************************************************************************)
(* The profiles of the household (features/profiles/data/                  *)
(* profile_service.dart over services/profiles.rs) and what the event-     *)
(* driven invalidator does to them.                                        *)
(*                                                                         *)
(* A handler computes the next list, awaits the core, and assigns the list *)
(* it computed; every save makes the core announce ProfileChanged, and a   *)
(* playlist sync BulkDataRefresh, upon which the provider is built again   *)
(* from the rows.  Of a profile its id and role are kept: an update of its *)
(* name, rating or quota writes the role it was read with.  Left out:      *)
(* PINs other than who has one, and removeProfile, which no screen calls.  *)
(***************************************************************************)
EXTENDS Naturals, SequencesExt

CONSTANTS
    People,     \* ids a profile may have
    Guarded,    \* those whose profile is created with a PIN
    Handlers,   \* bound: handlers that wait at the same time
    MaxEdits    \* bound: handlers that begin

ASSUME ProfilesAssumption == "default" \in People \ Guarded /\ MaxEdits \in Nat

VARIABLES
    stored,     \* db_profiles, in the order of its rows
    shown,      \* ProfileState: [list, active]
    work,       \* of each of Handlers, what it waits for
    announced,  \* an event the invalidator holds back, 50 ms
    build,      \* the provider's build: [at, list, behind]
    edits,      \* handlers that began
    picked,     \* history: the profile the user switched to last
    rolledBack  \* history: a switch has assigned a list that was old

profileVars == <<stored, shown, work, announced, build, edits, picked, rolledBack>>

Roles == {"admin", "viewer"}
AllProfiles == [id : People, role : Roles]
Default == [id |-> "default", role |-> "admin"]

Rest == [do |-> "nothing", todo |-> <<>>, next |-> [list |-> <<>>, active |-> "none"]]
NoBuild == [at |-> "no", list |-> <<>>, behind |-> {}]

Has(list, id) == \E n \in DOMAIN list : list[n].id = id
Find(list, id) == SelectSeq(list, LAMBDA p : p.id = id)[1]
Active(s) == IF Has(s.list, s.active) THEN Find(s.list, s.active) ELSE s.list[1]

\* INSERT ... ON CONFLICT (id) DO UPDATE: a row that is there keeps its place.
WithProfile(list, p) ==
    IF Has(list, p.id)
    THEN [n \in DOMAIN list |-> IF list[n].id = p.id THEN p ELSE list[n]]
    ELSE Append(list, p)

\* A handler starts to wait: it will save todo, one after the other, and
\* then assign next.
Waits(h, do, todo, next) ==
    /\ work[h] = Rest /\ edits < MaxEdits
    /\ work' = [work EXCEPT ![h] = [do |-> do, todo |-> todo, next |-> next]]
    /\ edits' = edits + 1

-----------------------------------------------------------------------------
\* The id is the time in milliseconds: nobody has had it before.
AddProfile(h, id) ==
    /\ shown.list # <<>> /\ ~Has(shown.list, id) /\ ~Has(stored, id)
    /\ \A g \in Handlers : ~Has(work[g].next.list, id)
    /\ LET p == <<[id |-> id, role |-> "viewer"]>>
       IN  Waits(h, "add", p, [Rest.next EXCEPT !.list = p])
    /\ UNCHANGED <<stored, shown, announced, build, picked, rolledBack>>

\* updateProfile replaces the profile in the list as it is now.
Updates(h, p) ==
    /\ Waits(h, "update", <<p>>, [shown EXCEPT !.list = WithProfile(@, p)])
    /\ UNCHANGED <<stored, shown, announced, build, picked, rolledBack>>

UpdateProfile(h, p) == p \in Range(shown.list) /\ Updates(h, p)

Admins == {p \in Range(shown.list) : p.role = "admin"}

\* Only an admin changes roles, and the last admin stays one.
UpdateProfileRole(h, p, role) ==
    /\ p \in Range(shown.list) /\ p.role # role
    /\ Active(shown).role = "admin"
    /\ p.role = "admin" => Cardinality(Admins) > 1
    /\ Updates(h, [p EXCEPT !.role = role])

\* Mutant: the profile is inserted at its new place but not removed from its old.
ReorderCopies(h, i, j) ==
    /\ {i, j} \subseteq DOMAIN shown.list /\ i # j
    /\ LET list == InsertAt(shown.list, j, shown.list[i])
       IN  Waits(h, "reorder", list, [shown EXCEPT !.list = list])
    /\ UNCHANGED <<stored, shown, announced, build, picked, rolledBack>>

\* reorderProfiles saves every profile again, which moves no row.
ReorderProfiles(h, i, j) ==
    /\ {i, j} \subseteq DOMAIN shown.list /\ i # j
    /\ LET list == InsertAt(RemoveAt(shown.list, i), j, shown.list[i])
       IN  Waits(h, "reorder", list, [shown EXCEPT !.list = list])
    /\ UNCHANGED <<stored, shown, announced, build, picked, rolledBack>>

\* A profile without a PIN is switched to at once; otherwise the PIN is verified
\* while the list may change.
SwitchProfile(h, id) ==
    /\ Has(shown.list, id) /\ work[h] = Rest /\ edits < MaxEdits
    /\ LET next == [shown EXCEPT !.active = id]
       IN  IF id \in Guarded
           THEN Waits(h, "switch", <<>>, next) /\ UNCHANGED <<shown, picked>>
           ELSE /\ shown' = next /\ picked' = id
                /\ edits' = edits + 1 /\ UNCHANGED work
    /\ UNCHANGED <<stored, announced, build, rolledBack>>

-----------------------------------------------------------------------------
(* Answers of the core.                                                    *)

\* Mutant: a save announces nothing.
SavesSilently(h) ==
    /\ work[h].todo # <<>>
    /\ stored' = WithProfile(stored, Head(work[h].todo))
    /\ work' = [work EXCEPT ![h].todo = Tail(@)]
    /\ UNCHANGED <<shown, announced, build, edits, picked, rolledBack>>

Saves(h) ==
    /\ work[h].todo # <<>>
    /\ stored' = WithProfile(stored, Head(work[h].todo))
    /\ announced' = TRUE
    /\ work' = [work EXCEPT ![h].todo = Tail(@)]
    /\ UNCHANGED <<shown, build, edits, picked, rolledBack>>

\* All is saved: the list computed before is assigned.  Only addProfile appends
\* to the list of now, and all but reorderProfiles keep the active profile of now.
Returned(h) ==
    /\ work[h] # Rest /\ work[h].do # "switch" /\ work[h].todo = <<>>
    /\ LET next == work[h].next IN
        shown' = CASE work[h].do = "add" -> [shown EXCEPT !.list = @ \o next.list]
                   [] work[h].do = "update" -> [shown EXCEPT !.list = next.list]
                   [] work[h].do = "reorder" -> next
    /\ work' = [work EXCEPT ![h] = Rest]
    /\ build' = [build EXCEPT !.behind = @ \ {h}]
    /\ UNCHANGED <<stored, announced, edits, picked, rolledBack>>

\* The PIN is right, or wrong.
Verified(h) ==
    /\ work[h].do = "switch"
    /\ \/ UNCHANGED <<shown, picked, rolledBack>>
       \/ /\ shown' = work[h].next
          /\ picked' = work[h].next.active
          /\ rolledBack' = (rolledBack \/ shown.list # work[h].next.list)
    /\ work' = [work EXCEPT ![h] = Rest]
    /\ UNCHANGED <<stored, announced, build, edits>>

-----------------------------------------------------------------------------
(* The invalidator and the provider's build.                               *)

\* The timer of the events held back, or a bulk event, which clears them.
InvalidateSelf ==
    /\ announced' = FALSE
    /\ build' = [NoBuild EXCEPT !.at = "asked"]
    /\ UNCHANGED <<stored, shown, work, edits, picked, rolledBack>>

DebounceEnds == announced /\ InvalidateSelf
BulkRefresh == build = NoBuild /\ InvalidateSelf

\* build reads the rows; an empty table gets the default profile.
Reads ==
    /\ build.at = "asked"
    /\ stored' = IF stored = <<>> THEN <<Default>> ELSE stored
    /\ announced' = (announced \/ stored = <<>>)
    /\ build' = [at |-> "read", list |-> stored',
                  behind |-> {h \in Handlers : work[h].do # "switch"
                                             /\ work[h] # Rest /\ work[h].todo = <<>>}]
    /\ UNCHANGED <<shown, work, edits, picked, rolledBack>>

\* Answers arrive in the order in which the core gave them: the handlers whose
\* rows were saved when it read return before.  The first profile becomes active.
Built ==
    /\ build.at = "read" /\ build.behind = {}
    /\ shown' = [list |-> build.list, active |-> build.list[1].id]
    /\ build' = NoBuild
    /\ UNCHANGED <<stored, work, announced, edits, picked, rolledBack>>

\* The application starts on an empty database and builds the provider.
ProfilesInit ==
    /\ stored = <<>> /\ shown = [list |-> <<>>, active |-> "default"]
    /\ work = [h \in Handlers |-> Rest]
    /\ announced = FALSE /\ build = [NoBuild EXCEPT !.at = "asked"] /\ edits = 0
    /\ picked = "default" /\ rolledBack = FALSE

ProfilesNext ==
    \/ \E h \in Handlers :
        \/ \E id \in People : AddProfile(h, id) \/ SwitchProfile(h, id)
        \/ \E p \in AllProfiles : UpdateProfile(h, p)
        \/ \E p \in AllProfiles, role \in Roles : UpdateProfileRole(h, p, role)
        \/ \E i, j \in 1..Cardinality(People) : ReorderProfiles(h, i, j)
        \/ Saves(h) \/ Returned(h) \/ Verified(h)
    \/ DebounceEnds \/ BulkRefresh \/ Reads \/ Built

ProfilesSpec == ProfilesInit /\ [][ProfilesNext]_profileVars

-----------------------------------------------------------------------------
\* Types; no profile is twice in the table or on the screen.
ProfilesTypeOK ==
    /\ {stored, shown.list, build.list} \subseteq Seq(AllProfiles)
    /\ \A list \in {stored, shown.list} : \A m, n \in DOMAIN list :
          list[m].id = list[n].id => m = n
    /\ {shown.active, picked} \subseteq People
    /\ {announced, rolledBack} \subseteq BOOLEAN

Settled ==
    /\ \A h \in Handlers : work[h] = Rest
    /\ ~announced /\ build = NoBuild

\* Updates that overlap undo each other on the screen, but never for good: once
\* all is answered and announced, the screen shows the rows of the database,
\* unless a switch that waited for its PIN put an older list back, which no
\* event corrects (switchProfile).
ScreenShowsRows == Settled /\ ~rolledBack => Range(shown.list) = Range(stored)

\* profile_service.dart sets the first profile "as 'active' in state, but the
\* router will verify if explicit selection happened": the active profile is
\* the one the user switched to last.
PickedStaysActive == shown.active = picked

=============================================================================
