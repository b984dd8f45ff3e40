----------------------------- MODULE Viewer_proofs -----------------------------
(***************************************************************************)
(* Proofs about what the viewer has on screen: the profiles (Profiles),    *)
(* for any household, handlers that overlap and number of edits; and the   *)
(* player (PlayerSession), for any streams, presses, errors and stalls.    *)
(***************************************************************************)
EXTENDS Profiles, PlayerSession, TLAPS

-----------------------------------------------------------------------------
(* The profiles: no id twice.                                               *)

Doing == {"nothing", "add", "update", "reorder", "switch"}
Screens == [list : Seq(AllProfiles), active : People \cup {"none"}]
Handling == [do : Doing, todo : Seq(AllProfiles), next : Screens]
Builds == [at : {"no", "asked", "read"}, list : Seq(AllProfiles), behind : SUBSET Handlers]

HandlersTyped ==
    /\ work \in [Handlers -> Handling]
    /\ \A h \in Handlers :
        /\ work[h].do \in {"update", "reorder", "switch"} => work[h].next.active \in People
        /\ work[h].do = "nothing" => work[h] = Rest

ProfilesTyped ==
    /\ stored \in Seq(AllProfiles) /\ shown \in Screens /\ shown.active \in People
    /\ HandlersTyped /\ build \in Builds
    /\ build.at = "read" => build.list # <<>>
    /\ announced \in BOOLEAN /\ rolledBack \in BOOLEAN /\ picked \in People

Ids(list) == {list[n].id : n \in DOMAIN list}
OncePerId(list) == \A m, n \in DOMAIN list : list[m].id = list[n].id => m = n

\* A list that may come to the screen: each id once, and all of them rows.
Fits(list) == OncePerId(list) /\ Ids(list) \subseteq Ids(stored)

Changes(h) == work[h].do \in {"update", "reorder", "switch"}

\* A profile that is being added is on no list that may come to the screen
\* before addProfile returns, the one read after its row was saved excepted:
\* that one waits for addProfile.
Added(h, p) ==
    /\ work[h].next.list = <<p>>
    /\ \/ work[h].todo = <<p>> /\ p.id \notin Ids(stored)
       \/ work[h].todo = <<>> /\ p.id \in Ids(stored)
    /\ p.id \notin Ids(shown.list)
    /\ \A g \in Handlers : Changes(g) => p.id \notin Ids(work[g].next.list)
    /\ h \notin build.behind => p.id \notin Ids(build.list)

OnceInv ==
    /\ OncePerId(stored) /\ Fits(shown.list) /\ Fits(build.list)
    /\ \A h \in Handlers : Changes(h) =>
           Fits(work[h].next.list) /\ Ids(work[h].todo) \subseteq Ids(stored)
    /\ \A h \in Handlers : work[h].do = "add" =>
           stored # <<>> /\ \E p \in AllProfiles : Added(h, p)
    /\ \A g, h \in Handlers :
           work[g].do = "add" /\ work[h].do = "add" /\ g # h =>
               Ids(work[g].next.list) \cap Ids(work[h].next.list) = {}

-----------------------------------------------------------------------------
(* The profiles: the screen follows the rows.                               *)

\* Its rows are saved and it has not returned.
Saved(h) == work[h] # Rest /\ work[h].do # "switch" /\ work[h].todo = <<>>

\* A change of the rows is announced, or will be read, or has been read by a
\* build that waits for the handlers that would overwrite it, or is shown.
Follows ==
    \/ rolledBack \/ announced \/ build.at = "asked"
    \/ /\ build.at = "read" /\ build.list = stored
       /\ \A h \in Handlers : Saved(h) => h \in build.behind
    \/ /\ build = NoBuild /\ shown.list = stored
       /\ \A h \in Handlers : ~Saved(h)

-----------------------------------------------------------------------------
(* Lists of profiles.                                                       *)

LEMMA ListWithProfile ==
  ASSUME NEW list \in Seq(AllProfiles), NEW p \in AllProfiles
  PROVE  /\ WithProfile(list, p) \in Seq(AllProfiles)
         /\ Ids(WithProfile(list, p)) = Ids(list) \cup {p.id}
         /\ OncePerId(list) => OncePerId(WithProfile(list, p))
         /\ WithProfile(list, p) # <<>>
  <1>1. CASE Has(list, p.id)
    <2> DEFINE new == [n \in DOMAIN list |-> IF list[n].id = p.id THEN p ELSE list[n]]
    <2>1. WithProfile(list, p) = new
      BY <1>1 DEF WithProfile
    <2>2. DOMAIN list = 1..Len(list) /\ Len(list) \in Nat
      OBVIOUS
    <2>3. \A n \in DOMAIN list : list[n] \in AllProfiles
      OBVIOUS
    <2>4. DOMAIN new = DOMAIN list /\ \A n \in DOMAIN list : new[n].id = list[n].id
      OBVIOUS
    <2>5. new \in Seq(AllProfiles)
      <3>1. \A n \in 1..Len(list) : new[n] \in AllProfiles
        BY <2>2, <2>3
      <3>2. new = [n \in 1..Len(list) |-> new[n]]
        BY <2>2
      <3> HIDE DEF new
      <3>3. QED
        BY <2>2, <3>1, <3>2
    <2>6. PICK n \in DOMAIN list : list[n].id = p.id
      BY <1>1 DEF Has
    <2> HIDE DEF new
    <2>7. Ids(new) = Ids(list) \cup {p.id}
      BY <2>4, <2>6 DEF Ids
    <2>8. new # <<>>
      BY <2>4, <2>6
    <2>9. OncePerId(list) => OncePerId(new)
      BY <2>4 DEF OncePerId
    <2>10. QED
      BY <2>1, <2>5, <2>7, <2>8, <2>9
  <1>2. CASE ~Has(list, p.id)
    <2> DEFINE new == Append(list, p)
    <2>1. WithProfile(list, p) = new
      BY <1>2 DEF WithProfile
    <2>2. new \in Seq(AllProfiles) /\ new # <<>>
      OBVIOUS
    <2>3. /\ DOMAIN new = DOMAIN list \cup {Len(list) + 1}
          /\ Len(list) + 1 \notin DOMAIN list
          /\ \A n \in DOMAIN list : new[n] = list[n]
          /\ new[Len(list) + 1] = p
      OBVIOUS
    <2> HIDE DEF new
    <2>4. Ids(new) = Ids(list) \cup {p.id}
      BY <2>3 DEF Ids
    <2>5. OncePerId(list) => OncePerId(new)
      BY <1>2, <2>3 DEF OncePerId, Has
    <2>6. QED
      BY <2>1, <2>2, <2>4, <2>5
  <1>3. QED
    BY <1>1, <1>2

LEMMA ListJoined ==
  ASSUME NEW list \in Seq(AllProfiles), NEW p \in AllProfiles
  PROVE  /\ list \o <<p>> \in Seq(AllProfiles)
         /\ Ids(list \o <<p>>) = Ids(list) \cup {p.id}
         /\ OncePerId(list) /\ p.id \notin Ids(list) => OncePerId(list \o <<p>>)
  <1> DEFINE new == list \o <<p>>
  <1>1. new \in Seq(AllProfiles)
    OBVIOUS
  <1>2. /\ DOMAIN new = DOMAIN list \cup {Len(list) + 1}
        /\ Len(list) + 1 \notin DOMAIN list
        /\ \A n \in DOMAIN list : new[n] = list[n]
        /\ new[Len(list) + 1] = p
    OBVIOUS
  <1> HIDE DEF new
  <1>3. Ids(new) = Ids(list) \cup {p.id}
    BY <1>2 DEF Ids
  <1>4. OncePerId(list) /\ p.id \notin Ids(list) => OncePerId(new)
    BY <1>2 DEF OncePerId, Ids
  <1>5. QED
    BY <1>1, <1>3, <1>4 DEF new

\* Where the element at place k of a list comes from once the one at i is at j.
From(i, j, k) == IF k = j THEN i ELSE
                 LET m == IF k < j THEN k ELSE k - 1 IN IF m < i THEN m ELSE m + 1

LEMMA ListMoved ==
  ASSUME NEW list \in Seq(AllProfiles), NEW i \in DOMAIN list, NEW j \in DOMAIN list
  PROVE  LET new == InsertAt(RemoveAt(list, i), j, list[i])
         IN  /\ new \in Seq(AllProfiles) /\ new # <<>>
             /\ Ids(new) \subseteq Ids(list)
             /\ OncePerId(list) => OncePerId(new)
  <1> DEFINE less == RemoveAt(list, i)
             new == InsertAt(less, j, list[i])
             n == Len(list)
  <1>1. n \in Nat /\ i \in 1..n /\ j \in 1..n /\ list[i] \in AllProfiles
    OBVIOUS
  <1>2. /\ less \in Seq(AllProfiles) /\ Len(less) = n - 1
        /\ \A k \in 1..(n - 1) : less[k] = IF k < i THEN list[k] ELSE list[k + 1]
    <2> DEFINE front == SubSeq(list, 1, i - 1)
               back == SubSeq(list, i + 1, n)
    <2>1. /\ front \in Seq(AllProfiles) /\ Len(front) = i - 1
          /\ \A k \in 1..(i - 1) : front[k] = list[k]
      BY <1>1
    <2>2. /\ back \in Seq(AllProfiles) /\ Len(back) = n - i
          /\ \A k \in 1..(n - i) : back[k] = list[i + k]
      BY <1>1
    <2>3. less = front \o back
      BY DEF RemoveAt
    <2> HIDE DEF less, front, back
    <2>4. QED
      BY <1>1, <2>1, <2>2, <2>3
  <1> HIDE DEF less
  <1>3. /\ new \in Seq(AllProfiles) /\ Len(new) = n
        /\ \A k \in 1..n :
              new[k] = IF k < j THEN less[k] ELSE IF k = j THEN list[i] ELSE less[k - 1]
    <2> DEFINE front == SubSeq(less, 1, j - 1)
               back == SubSeq(less, j, Len(less))
    <2>1. /\ front \in Seq(AllProfiles) /\ Len(front) = j - 1
          /\ \A k \in 1..(j - 1) : front[k] = less[k]
      BY <1>1, <1>2
    <2>2. /\ back \in Seq(AllProfiles) /\ Len(back) = n - j
          /\ \A k \in 1..(n - j) : back[k] = less[j + k - 1]
      BY <1>1, <1>2
    <2>3. new = front \o <<list[i]>> \o back
      BY DEF InsertAt
    <2> HIDE DEF new, front, back
    <2> DEFINE half == front \o <<list[i]>>
    <2>4. /\ half \in Seq(AllProfiles) /\ Len(half) = j
          /\ \A k \in 1..j : half[k] = IF k < j THEN less[k] ELSE list[i]
      BY <1>1, <2>1
    <2>5. new = half \o back
      BY <2>3
    <2> HIDE DEF half
    <2>6. QED
      BY <1>1, <2>2, <2>4, <2>5
  <1> HIDE DEF new
  <1>4. \A k \in 1..n : From(i, j, k) \in 1..n /\ new[k] = list[From(i, j, k)]
    BY <1>1, <1>2, <1>3 DEF From
  <1>5. \A k, m \in 1..n : From(i, j, k) = From(i, j, m) => k = m
    BY <1>1 DEF From
  <1>6. DOMAIN new = 1..n /\ DOMAIN list = 1..n
    BY <1>3
  <1>7. new # <<>>
    BY <1>1, <1>3
  <1>8. Ids(new) \subseteq Ids(list)
    BY <1>4, <1>6 DEF Ids
  <1>9. OncePerId(list) => OncePerId(new)
    BY <1>4, <1>5, <1>6 DEF OncePerId
  <1>10. QED
    BY <1>3, <1>7, <1>8, <1>9 DEF new, less

-----------------------------------------------------------------------------
(* Types.                                                                   *)

LEMMA RestTyped ==
  /\ Rest \in Handling /\ Rest.do = "nothing" /\ Rest.todo = <<>>
  /\ NoBuild \in Builds /\ NoBuild.at = "no" /\ NoBuild.list = <<>> /\ NoBuild.behind = {}
  BY DEF Rest, Handling, Doing, Screens, NoBuild, Builds

LEMMA NoIds == Ids(<<>>) = {}
  BY DEF Ids

LEMMA ProfilesInitTyped == ProfilesInit => ProfilesTyped
  <1> SUFFICES ASSUME ProfilesInit PROVE ProfilesTyped
    OBVIOUS
  <1>1. "default" \in People
    BY ProfilesAssumption
  <1>2. shown \in Screens /\ shown.active = "default"
    BY <1>1 DEF ProfilesInit, Screens
  <1>3. build \in Builds /\ build.at = "asked"
    <2>1. build = [at |-> "asked", list |-> <<>>, behind |-> {}]
      BY DEF ProfilesInit, NoBuild
    <2>2. QED
      BY <2>1 DEF Builds
  <1>4. work \in [Handlers -> Handling] /\ \A h \in Handlers : work[h] = Rest
    BY RestTyped DEF ProfilesInit
  <1>5. stored = <<>> /\ announced = FALSE /\ rolledBack = FALSE /\ picked = "default"
    BY DEF ProfilesInit
  <1>6. stored \in Seq(AllProfiles)
    BY <1>5
  <1>7. QED
    BY <1>1, <1>2, <1>3, <1>4, <1>5, <1>6, RestTyped DEF ProfilesTyped, HandlersTyped

\* A handler begins to wait.
LEMMA WaitsTyped ==
  ASSUME ProfilesTyped, NEW h \in Handlers, NEW do \in Doing \ {"nothing"},
         NEW todo \in Seq(AllProfiles), NEW next \in Screens,
         do # "add" => next.active \in People,
         Waits(h, do, todo, next)
  PROVE  /\ work[h] = Rest
         /\ work'[h].do = do /\ work'[h].todo = todo /\ work'[h].next = next
         /\ work'[h] # Rest
         /\ \A g \in Handlers \ {h} : work'[g] = work[g]
         /\ HandlersTyped'
  <1> DEFINE w == [do |-> do, todo |-> todo, next |-> next]
  <1>1. work[h] = Rest /\ work' = [work EXCEPT ![h] = w]
    BY DEF Waits
  <1>2. w \in Handling /\ w.do = do /\ w.todo = todo /\ w.next = next
    BY DEF Handling
  <1> HIDE DEF w
  <1>3. w # Rest
    BY <1>2, RestTyped
  <1>4. work'[h] = w /\ \A g \in Handlers \ {h} : work'[g] = work[g]
    BY <1>1 DEF ProfilesTyped, HandlersTyped
  <1>5. work' \in [Handlers -> Handling]
    BY <1>1, <1>2 DEF ProfilesTyped, HandlersTyped
  <1>6. \A g \in Handlers :
           /\ work'[g].do \in {"update", "reorder", "switch"} => work'[g].next.active \in People
           /\ work'[g].do = "nothing" => work'[g] = Rest
    <2>1. ASSUME NEW g \in Handlers
          PROVE  /\ work'[g].do \in {"update", "reorder", "switch"} =>
                        work'[g].next.active \in People
                 /\ work'[g].do = "nothing" => work'[g] = Rest
      <3>1. CASE g = h
        BY <1>2, <1>4, <3>1
      <3>2. CASE g # h
        BY <1>4, <3>2 DEF ProfilesTyped, HandlersTyped
      <3>3. QED
        BY <3>1, <3>2
    <2>2. QED
      BY <2>1
  <1>7. QED
    BY <1>1, <1>2, <1>3, <1>4, <1>5, <1>6 DEF HandlersTyped

\* What the handlers that change the list will assign and save.
Change(h, do, todo, list) ==
    \E next \in Screens :
        /\ next.list = list /\ next.active \in People /\ todo \in Seq(AllProfiles)
        /\ Waits(h, do, todo, next)
        /\ UNCHANGED <<stored, shown, announced, build, picked, rolledBack>>

LEMMA ListIsOnScreen ==
  ASSUME ProfilesTyped, NEW list \in Seq(AllProfiles)
  PROVE  LET next == [shown EXCEPT !.list = list] IN
         next \in Screens /\ next.list = list /\ next.active \in People
  BY DEF ProfilesTyped, Screens

LEMMA UpdatesChange ==
  ASSUME ProfilesTyped, NEW h \in Handlers, NEW p \in AllProfiles, Updates(h, p)
  PROVE  Change(h, "update", <<p>>, WithProfile(shown.list, p))
  <1> DEFINE list == WithProfile(shown.list, p)
  <1>1. shown.list \in Seq(AllProfiles)
    BY DEF ProfilesTyped, Screens
  <1>2. list \in Seq(AllProfiles) /\ <<p>> \in Seq(AllProfiles)
    BY <1>1, ListWithProfile
  <1>3. Waits(h, "update", <<p>>, [shown EXCEPT !.list = list])
        /\ UNCHANGED <<stored, shown, announced, build, picked, rolledBack>>
    BY DEF Updates
  <1> HIDE DEF list
  <1>4. QED
    BY <1>2, <1>3, ListIsOnScreen DEF Change, list

LEMMA ReorderChanges ==
  ASSUME ProfilesTyped, NEW h \in Handlers, NEW i, NEW j, ReorderProfiles(h, i, j)
  PROVE  LET list == InsertAt(RemoveAt(shown.list, i), j, shown.list[i])
         IN  i \in DOMAIN shown.list /\ j \in DOMAIN shown.list
             /\ Change(h, "reorder", list, list)
  <1> DEFINE list == InsertAt(RemoveAt(shown.list, i), j, shown.list[i])
  <1>1. shown.list \in Seq(AllProfiles)
    BY DEF ProfilesTyped, Screens
  <1>2. i \in DOMAIN shown.list /\ j \in DOMAIN shown.list
        /\ Waits(h, "reorder", list, [shown EXCEPT !.list = list])
        /\ UNCHANGED <<stored, shown, announced, build, picked, rolledBack>>
    BY DEF ReorderProfiles
  <1>3. list \in Seq(AllProfiles)
    BY <1>1, <1>2, ListMoved
  <1> HIDE DEF list
  <1>4. Change(h, "reorder", list, list)
    BY <1>2, <1>3, ListIsOnScreen DEF Change
  <1>5. QED
    BY <1>2, <1>4 DEF list

\* A handler goes on waiting, or rests.
LEMMA HandlerTyped ==
  ASSUME ProfilesTyped, NEW h \in Handlers, NEW w \in Handling,
         work' = [work EXCEPT ![h] = w],
         w = Rest \/ (w.do = work[h].do /\ w.next = work[h].next /\ w.do # "nothing")
  PROVE  /\ work'[h] = w /\ \A g \in Handlers \ {h} : work'[g] = work[g]
         /\ HandlersTyped'
  <1>1. work'[h] = w /\ \A g \in Handlers \ {h} : work'[g] = work[g]
    BY DEF ProfilesTyped, HandlersTyped
  <1>2. work' \in [Handlers -> Handling]
    BY DEF ProfilesTyped, HandlersTyped
  <1>3. ASSUME NEW g \in Handlers
        PROVE  /\ work'[g].do \in {"update", "reorder", "switch"} =>
                      work'[g].next.active \in People
               /\ work'[g].do = "nothing" => work'[g] = Rest
    <2>1. CASE g = h
      BY <1>1, <2>1, RestTyped DEF ProfilesTyped, HandlersTyped
    <2>2. CASE g # h
      BY <1>1, <2>2 DEF ProfilesTyped, HandlersTyped
    <2>3. QED
      BY <2>1, <2>2
  <1>4. QED
    BY <1>1, <1>2, <1>3 DEF HandlersTyped

\* One save: the row written, and what the handler has left to save.
LEMMA SavesParts ==
  ASSUME ProfilesTyped, NEW h \in Handlers, Saves(h)
  PROVE  /\ work[h].do # "nothing" /\ work[h].todo # <<>>
         /\ Head(work[h].todo) \in AllProfiles
         /\ Ids(work[h].todo) = {Head(work[h].todo).id} \cup Ids(Tail(work[h].todo))
         /\ stored' = WithProfile(stored, Head(work[h].todo))
         /\ stored' \in Seq(AllProfiles)
         /\ work'[h].do = work[h].do /\ work'[h].next = work[h].next
         /\ work'[h].todo = Tail(work[h].todo)
         /\ \A g \in Handlers \ {h} : work'[g] = work[g]
         /\ HandlersTyped'
  <1> DEFINE todo == work[h].todo
             w == [work[h] EXCEPT !.todo = Tail(todo)]
  <1>1. work[h] \in Handling /\ todo \in Seq(AllProfiles)
    BY DEF ProfilesTyped, HandlersTyped, Handling
  <1>2. todo # <<>> /\ stored' = WithProfile(stored, Head(todo))
        /\ work' = [work EXCEPT ![h] = w]
    BY DEF Saves, ProfilesTyped, HandlersTyped
  <1>3. Head(todo) \in AllProfiles /\ Tail(todo) \in Seq(AllProfiles)
    BY <1>1, <1>2
  <1>4. Ids(todo) = {Head(todo).id} \cup Ids(Tail(todo))
    <2> HIDE DEF todo
    <2>1. /\ Head(todo) = todo[1] /\ 1 \in DOMAIN todo
          /\ \A n \in DOMAIN Tail(todo) : n + 1 \in DOMAIN todo /\ Tail(todo)[n] = todo[n + 1]
          /\ \A n \in DOMAIN todo : n = 1 \/ (n - 1 \in DOMAIN Tail(todo) /\ n = (n - 1) + 1)
      BY <1>1, <1>2
    <2>2. QED
      BY <2>1 DEF Ids
  <1>5. work[h].do # "nothing"
    BY <1>2, RestTyped DEF ProfilesTyped, HandlersTyped
  <1>6. w \in Handling /\ w.do = work[h].do /\ w.next = work[h].next /\ w.todo = Tail(todo)
    BY <1>1, <1>3 DEF Handling
  <1>7. stored' \in Seq(AllProfiles)
    BY <1>2, <1>3, ListWithProfile DEF ProfilesTyped
  <1> HIDE DEF w
  <1>8. /\ work'[h] = w /\ \A g \in Handlers \ {h} : work'[g] = work[g]
        /\ HandlersTyped'
    BY <1>2, <1>5, <1>6, HandlerTyped
  <1>9. QED
    BY <1>2, <1>3, <1>4, <1>5, <1>6, <1>7, <1>8

LEMMA RestsTyped ==
  ASSUME ProfilesTyped, NEW h \in Handlers, work' = [work EXCEPT ![h] = Rest]
  PROVE  /\ work'[h] = Rest /\ \A g \in Handlers \ {h} : work'[g] = work[g]
         /\ HandlersTyped'
  BY HandlerTyped, RestTyped

LEMMA ProfilesTypedStep ==
  ProfilesTyped /\ [ProfilesNext]_profileVars => ProfilesTyped'
  <1> SUFFICES ASSUME ProfilesTyped, [ProfilesNext]_profileVars PROVE ProfilesTyped'
    OBVIOUS
  <1>1. ASSUME NEW h \in Handlers, NEW id \in People, AddProfile(h, id) PROVE ProfilesTyped'
    <2> DEFINE p == [id |-> id, role |-> "viewer"]
               next == [Rest.next EXCEPT !.list = <<p>>]
    <2>1. p \in AllProfiles
      BY DEF AllProfiles, Roles
    <2>2. <<p>> \in Seq(AllProfiles)
      BY <2>1
    <2>3. Waits(h, "add", <<p>>, next)
          /\ UNCHANGED <<stored, shown, announced, build, picked, rolledBack>>
      BY <1>1 DEF AddProfile
    <2> HIDE DEF p
    <2>4. next \in Screens
      BY <2>2 DEF Rest, Screens
    <2> HIDE DEF next
    <2>5. QED
      BY <2>2, <2>3, <2>4, WaitsTyped DEF Doing, ProfilesTyped
  <1>2. ASSUME NEW h \in Handlers, NEW id \in People, SwitchProfile(h, id) PROVE ProfilesTyped'
    <2> DEFINE next == [shown EXCEPT !.active = id]
    <2>1. next \in Screens /\ next.active = id
      BY DEF ProfilesTyped, Screens
    <2>2. /\ \/ Waits(h, "switch", <<>>, next) /\ UNCHANGED <<shown, picked>>
             \/ shown' = next /\ picked' = id /\ UNCHANGED work
          /\ UNCHANGED <<stored, announced, build, rolledBack>>
      BY <1>2 DEF SwitchProfile
    <2> HIDE DEF next
    <2>3. CASE Waits(h, "switch", <<>>, next) /\ UNCHANGED <<shown, picked>>
      <3>1. <<>> \in Seq(AllProfiles)
        OBVIOUS
      <3>2. QED
        BY <2>1, <2>2, <2>3, <3>1, WaitsTyped DEF Doing, ProfilesTyped
    <2>4. CASE shown' = next /\ picked' = id /\ UNCHANGED work
      BY <2>1, <2>2, <2>4 DEF ProfilesTyped, HandlersTyped
    <2>5. QED
      BY <2>2, <2>3, <2>4
  <1>3. ASSUME NEW h \in Handlers, NEW do \in {"update", "reorder"}, NEW todo, NEW list,
               Change(h, do, todo, list)
        PROVE  ProfilesTyped'
    BY <1>3, WaitsTyped DEF Change, Doing, ProfilesTyped
  <1>4. ASSUME NEW h \in Handlers, NEW p \in AllProfiles, UpdateProfile(h, p)
        PROVE  ProfilesTyped'
    BY <1>3, <1>4, UpdatesChange DEF UpdateProfile
  <1>5. ASSUME NEW h \in Handlers, NEW p \in AllProfiles, NEW role \in Roles,
               UpdateProfileRole(h, p, role)
        PROVE  ProfilesTyped'
    <2>1. [p EXCEPT !.role = role] \in AllProfiles
      BY DEF AllProfiles
    <2>2. QED
      BY <1>3, <1>5, <2>1, UpdatesChange DEF UpdateProfileRole
  <1>6. ASSUME NEW h \in Handlers, NEW i, NEW j, ReorderProfiles(h, i, j)
        PROVE  ProfilesTyped'
    BY <1>3, <1>6, ReorderChanges
  <1>7. ASSUME NEW h \in Handlers, Saves(h) PROVE ProfilesTyped'
    BY <1>7, SavesParts DEF Saves, ProfilesTyped
  <1>8. ASSUME NEW h \in Handlers, Returned(h) PROVE ProfilesTyped'
    <2> DEFINE next == work[h].next
    <2>1. /\ next \in Screens /\ next.list \in Seq(AllProfiles)
          /\ work[h].do \in {"update", "reorder"} => next.active \in People
          /\ shown.list \in Seq(AllProfiles)
      BY DEF ProfilesTyped, HandlersTyped, Handling, Screens
    <2>2. /\ work[h].do \in {"add", "update", "reorder"}
          /\ shown' = CASE work[h].do = "add" -> [shown EXCEPT !.list = @ \o next.list]
                        [] work[h].do = "update" -> [shown EXCEPT !.list = next.list]
                        [] work[h].do = "reorder" -> next
          /\ work' = [work EXCEPT ![h] = Rest]
          /\ build' = [build EXCEPT !.behind = build.behind \ {h}]
          /\ UNCHANGED <<stored, announced, picked, rolledBack>>
      BY <1>8 DEF Returned, ProfilesTyped, HandlersTyped, Handling, Doing, Builds
    <2>3. shown.list \o next.list \in Seq(AllProfiles)
      BY <2>1
    <2>4. build' \in Builds /\ build'.at = build.at /\ build'.list = build.list
      BY <2>2 DEF ProfilesTyped, Builds
    <2> HIDE DEF next
    <2>5. shown' \in Screens /\ shown'.active \in People
      <3>1. CASE work[h].do = "add"
        BY <2>2, <2>3, <3>1, ListIsOnScreen
      <3>2. CASE work[h].do = "update"
        BY <2>1, <2>2, <3>2, ListIsOnScreen
      <3>3. CASE work[h].do = "reorder"
        BY <2>1, <2>2, <3>3
      <3>4. QED
        BY <2>2, <3>1, <3>2, <3>3
    <2>6. QED
      BY <2>2, <2>4, <2>5, RestsTyped DEF ProfilesTyped
  <1>9. ASSUME NEW h \in Handlers, Verified(h) PROVE ProfilesTyped'
    <2>1. work[h].next \in Screens /\ work[h].next.active \in People
      BY <1>9 DEF Verified, ProfilesTyped, HandlersTyped, Handling
    <2>2. QED
      BY <1>9, <2>1, RestsTyped DEF Verified, ProfilesTyped
  <1>10. ASSUME InvalidateSelf PROVE ProfilesTyped'
    <2>1. build' = [at |-> "asked", list |-> <<>>, behind |-> {}]
      BY <1>10 DEF InvalidateSelf, NoBuild
    <2>2. build' \in Builds /\ build'.at = "asked"
      BY <2>1 DEF Builds
    <2>3. QED
      BY <1>10, <2>2 DEF InvalidateSelf, ProfilesTyped, HandlersTyped
  <1>11. CASE Reads
    <2>1. stored' \in Seq(AllProfiles)
      <3>1. Default \in AllProfiles
        BY ProfilesAssumption DEF Default, AllProfiles, Roles
      <3>2. <<Default>> \in Seq(AllProfiles)
        BY <3>1
      <3>3. QED
        BY <1>11, <3>2 DEF Reads, ProfilesTyped, HandlersTyped
    <2>2. build' \in Builds /\ build'.list # <<>>
      BY <1>11, <2>1 DEF Reads, Builds
    <2>3. QED
      BY <1>11, <2>1, <2>2 DEF Reads, ProfilesTyped, HandlersTyped
  <1>12. CASE UNCHANGED profileVars
    BY <1>12 DEF profileVars, ProfilesTyped, HandlersTyped
  <1>13. CASE Built
    <2>1. build.list \in Seq(AllProfiles) /\ build.list[1] \in AllProfiles
      BY <1>13 DEF Built, ProfilesTyped, Builds
    <2>2. shown' \in Screens /\ shown'.active \in People
      BY <1>13, <2>1 DEF Built, Screens, AllProfiles
    <2>3. QED
      BY <1>13, <2>2, RestTyped DEF Built, ProfilesTyped, HandlersTyped
  <1>14. QED
    BY <1>1, <1>2, <1>4, <1>5, <1>6, <1>7, <1>8, <1>9, <1>10, <1>11, <1>12, <1>13
    DEF ProfilesNext, DebounceEnds, BulkRefresh

-----------------------------------------------------------------------------
(* No id twice.                                                             *)

LEMMA OnceInit == ProfilesInit => OnceInv
  <1> SUFFICES ASSUME ProfilesInit PROVE OnceInv
    OBVIOUS
  <1>1. stored = <<>> /\ shown.list = <<>> /\ build.list = <<>>
        /\ \A h \in Handlers : work[h] = Rest
    BY DEF ProfilesInit, NoBuild
  <1>2. OncePerId(<<>>) /\ Ids(<<>>) = {}
    BY DEF OncePerId, Ids
  <1>3. \A h \in Handlers : work[h].do = "nothing"
    BY <1>1, RestTyped
  <1>4. QED
    BY <1>1, <1>2, <1>3 DEF OnceInv, Fits, Changes

\* The lists that may come to the screen, and the rows, do not lose what they
\* hold; a profile that is being added goes on as it was.
LEMMA OnceKept ==
  ASSUME OnceInv,
         OncePerId(stored'), Ids(stored) \subseteq Ids(stored'), stored # <<>> => stored' # <<>>,
         Fits(shown.list)', Fits(build.list)',
         NEW h \in Handlers, \A g \in Handlers \ {h} : work'[g] = work[g],
         Changes(h)' => Fits(work[h].next.list)' /\ Ids(work'[h].todo) \subseteq Ids(stored'),
         work'[h].do = "add" =>
             /\ stored' # <<>> /\ \E p \in AllProfiles : Added(h, p)'
             /\ \A g \in Handlers \ {h} : work[g].do = "add" =>
                    Ids(work[g].next.list) \cap Ids(work'[h].next.list) = {},
         \A g \in Handlers \ {h} : \A p \in AllProfiles :
             work[g].do = "add" /\ Added(g, p) =>
                 /\ p.id \in Ids(stored') => p.id \in Ids(stored)
                 /\ p.id \notin Ids(shown'.list)
                 /\ Changes(h)' => p.id \notin Ids(work'[h].next.list)
                 /\ g \notin build'.behind => p.id \notin Ids(build'.list)
  PROVE  OnceInv'
  <1>1. ASSUME NEW g \in Handlers \ {h}, Changes(g)'
        PROVE  Fits(work[g].next.list)' /\ Ids(work'[g].todo) \subseteq Ids(stored')
    BY <1>1 DEF OnceInv, Fits, Changes
  <1>2. ASSUME NEW g \in Handlers \ {h}, NEW p \in AllProfiles, work[g].do = "add", Added(g, p)
        PROVE  Added(g, p)'
    <2>1. work'[g].next.list = <<p>>
          /\ \/ work'[g].todo = <<p>> /\ p.id \notin Ids(stored')
             \/ work'[g].todo = <<>> /\ p.id \in Ids(stored')
      BY <1>2 DEF Added
    <2>2. \A f \in Handlers : Changes(f)' => p.id \notin Ids(work'[f].next.list)
      BY <1>2 DEF Added, Changes
    <2>3. QED
      BY <1>2, <2>1, <2>2 DEF Added
  <1>3. \A g \in Handlers : Changes(g)' =>
           Fits(work[g].next.list)' /\ Ids(work'[g].todo) \subseteq Ids(stored')
    BY <1>1
  <1>4. \A g \in Handlers : work'[g].do = "add" =>
           stored' # <<>> /\ \E p \in AllProfiles : Added(g, p)'
    BY <1>2 DEF OnceInv
  <1>5. ASSUME NEW f \in Handlers, NEW g \in Handlers,
               work'[f].do = "add", work'[g].do = "add", f # g
        PROVE  Ids(work'[f].next.list) \cap Ids(work'[g].next.list) = {}
    <2>1. CASE f # h /\ g # h
      BY <1>5, <2>1 DEF OnceInv
    <2>2. CASE f = h
      BY <1>5, <2>2
    <2>3. CASE g = h
      BY <1>5, <2>3
    <2>4. QED
      BY <2>1, <2>2, <2>3
  <1>6. QED
    BY <1>3, <1>4, <1>5 DEF OnceInv

\* A handler begins that will assign a list of what is on the screen.
LEMMA ChangeKeepsOnce ==
  ASSUME ProfilesTyped, OnceInv, NEW h \in Handlers,
         NEW do \in {"update", "reorder", "switch"}, NEW todo, NEW list,
         work'[h].do = do, work'[h].todo = todo, work'[h].next.list = list,
         \A g \in Handlers \ {h} : work'[g] = work[g],
         UNCHANGED <<stored, shown, build>>,
         OncePerId(list), Ids(list) \subseteq Ids(shown.list), Ids(todo) \subseteq Ids(shown.list)
  PROVE  OnceInv'
  <1>1. Changes(h)' => Fits(work[h].next.list)' /\ Ids(work'[h].todo) \subseteq Ids(stored')
    BY DEF OnceInv, Fits
  <1>2. \A g \in Handlers \ {h} : \A p \in AllProfiles :
             work[g].do = "add" /\ Added(g, p) =>
                 /\ p.id \notin Ids(shown'.list)
                 /\ Changes(h)' => p.id \notin Ids(work'[h].next.list)
                 /\ g \notin build'.behind => p.id \notin Ids(build'.list)
    BY DEF Added
  <1>3. OncePerId(stored') /\ Fits(shown.list)' /\ Fits(build.list)'
    BY DEF OnceInv, Fits
  <1>4. QED
    BY <1>1, <1>2, <1>3, OnceKept

LEMMA SameLists ==
  ASSUME OnceInv, UNCHANGED <<stored, work, build>>, shown'.list = shown.list
  PROVE  OnceInv'
  <1>1. \A h \in Handlers, p \in AllProfiles : Added(h, p) => Added(h, p)'
    BY DEF Added, Changes
  <1>2. QED
    BY <1>1 DEF OnceInv, Fits, Changes

LEMMA OnceStep ==
  ProfilesTyped /\ ProfilesTyped' /\ OnceInv /\ [ProfilesNext]_profileVars => OnceInv'
  <1> SUFFICES ASSUME ProfilesTyped, ProfilesTyped', OnceInv, [ProfilesNext]_profileVars
               PROVE  OnceInv'
    OBVIOUS
  <1>0. /\ shown.list \in Seq(AllProfiles) /\ OncePerId(shown.list)
        /\ Ids(shown.list) \subseteq Ids(stored)
    BY DEF ProfilesTyped, Screens, OnceInv, Fits
  <1>1. ASSUME NEW h \in Handlers, NEW id \in People, AddProfile(h, id) PROVE OnceInv'
    <2> DEFINE p == [id |-> id, role |-> "viewer"]
               next == [Rest.next EXCEPT !.list = <<p>>]
    <2>1. p \in AllProfiles /\ p.id = id
      BY DEF AllProfiles, Roles
    <2>2. <<p>> \in Seq(AllProfiles)
      BY <2>1
    <2>3. /\ shown.list # <<>> /\ id \notin Ids(shown.list) /\ id \notin Ids(stored)
          /\ \A g \in Handlers : id \notin Ids(work[g].next.list)
          /\ Waits(h, "add", <<p>>, next) /\ UNCHANGED <<stored, shown, build>>
      BY <1>1 DEF AddProfile, Has, Ids
    <2> HIDE DEF p
    <2>4. next \in Screens /\ next.list = <<p>>
      BY <2>2 DEF Rest, Screens
    <2> HIDE DEF next
    <2>5. /\ work'[h].do = "add" /\ work'[h].todo = <<p>> /\ work'[h].next.list = <<p>>
          /\ \A g \in Handlers \ {h} : work'[g] = work[g]
      BY <2>2, <2>3, <2>4, WaitsTyped DEF Doing
    <2>6. stored # <<>>
      <3>1. 1 \in DOMAIN shown.list
        BY <1>0, <2>3
      <3>2. Ids(shown.list) # {}
        BY <3>1 DEF Ids
      <3>3. QED
        BY <1>0, <3>2, NoIds
    <2>7. Added(h, p)'
      <3>1. \A g \in Handlers : Changes(g)' => p.id \notin Ids(work'[g].next.list)
        BY <2>1, <2>3, <2>5 DEF OnceInv, Fits, Changes
      <3>2. p.id \notin Ids(build'.list)
        BY <2>1, <2>3 DEF OnceInv, Fits
      <3>3. QED
        BY <2>1, <2>3, <2>5, <3>1, <3>2 DEF Added
    <2>8. OncePerId(stored') /\ Fits(shown.list)' /\ Fits(build.list)'
      BY <2>3 DEF OnceInv, Fits
    <2>9. \A g \in Handlers \ {h} : Ids(work[g].next.list) \cap Ids(work'[h].next.list) = {}
      BY <2>1, <2>3, <2>5 DEF Ids
    <2>10. \A g \in Handlers \ {h} : \A q \in AllProfiles :
               work[g].do = "add" /\ Added(g, q) =>
                   /\ q.id \notin Ids(shown'.list)
                   /\ g \notin build'.behind => q.id \notin Ids(build'.list)
      BY <2>3 DEF Added
    <2>11. QED
      BY <2>1, <2>3, <2>5, <2>6, <2>7, <2>8, <2>9, <2>10, OnceKept DEF Changes
  <1>2. ASSUME NEW h \in Handlers, NEW id \in People, SwitchProfile(h, id) PROVE OnceInv'
    <2> DEFINE next == [shown EXCEPT !.active = id]
    <2>1. next \in Screens /\ next.active = id /\ next.list = shown.list
      BY DEF ProfilesTyped, Screens
    <2>2. /\ \/ Waits(h, "switch", <<>>, next) /\ UNCHANGED <<shown, picked>>
             \/ shown' = next /\ picked' = id /\ UNCHANGED work
          /\ UNCHANGED <<stored, announced, build, rolledBack>>
      BY <1>2 DEF SwitchProfile
    <2> HIDE DEF next
    <2>3. CASE Waits(h, "switch", <<>>, next) /\ UNCHANGED <<shown, picked>>
      <3>1. <<>> \in Seq(AllProfiles)
        OBVIOUS
      <3>2. /\ work'[h].do = "switch" /\ work'[h].todo = <<>> /\ work'[h].next.list = shown.list
            /\ \A g \in Handlers \ {h} : work'[g] = work[g]
        BY <2>1, <2>3, <3>1, WaitsTyped DEF Doing
      <3>3. QED
        BY <1>0, <2>2, <2>3, <3>2, NoIds, ChangeKeepsOnce
    <2>4. CASE shown' = next /\ picked' = id /\ UNCHANGED work
      BY <2>1, <2>2, <2>4, SameLists
    <2>5. QED
      BY <2>2, <2>3, <2>4
  <1>3. ASSUME NEW h \in Handlers, NEW do \in {"update", "reorder"}, NEW todo, NEW list,
               Change(h, do, todo, list), OncePerId(list),
               Ids(list) \subseteq Ids(shown.list), Ids(todo) \subseteq Ids(shown.list)
        PROVE  OnceInv'
    <2>1. /\ work'[h].do = do /\ work'[h].todo = todo /\ work'[h].next.list = list
          /\ \A g \in Handlers \ {h} : work'[g] = work[g]
          /\ UNCHANGED <<stored, shown, build>>
      BY <1>3, WaitsTyped DEF Change, Doing
    <2>2. do \in {"update", "reorder", "switch"}
      OBVIOUS
    <2>3. QED
      BY <1>3, <2>1, <2>2, ChangeKeepsOnce
  <1>4. ASSUME NEW h \in Handlers, NEW p \in AllProfiles, p.id \in Ids(shown.list), Updates(h, p)
        PROVE  OnceInv'
    <2> DEFINE list == WithProfile(shown.list, p)
    <2>1. Change(h, "update", <<p>>, list)
      BY <1>4, UpdatesChange
    <2>2. OncePerId(list) /\ Ids(list) = Ids(shown.list)
      <3>1. OncePerId(list) /\ Ids(list) = Ids(shown.list) \cup {p.id}
        BY <1>0, ListWithProfile
      <3> HIDE DEF list
      <3>2. QED
        BY <1>4, <3>1
    <2> HIDE DEF list
    <2>3. Ids(<<p>>) = {p.id}
      BY DEF Ids
    <2>4. QED
      BY <1>3, <1>4, <2>1, <2>2, <2>3
  <1>5. ASSUME NEW h \in Handlers, NEW p \in AllProfiles, UpdateProfile(h, p)
        PROVE  OnceInv'
    <2>1. p.id \in Ids(shown.list)
      BY <1>5 DEF UpdateProfile, Range, Ids
    <2>2. QED
      BY <1>4, <1>5, <2>1 DEF UpdateProfile
  <1>6. ASSUME NEW h \in Handlers, NEW p \in AllProfiles, NEW role \in Roles,
               UpdateProfileRole(h, p, role)
        PROVE  OnceInv'
    <2>1. [p EXCEPT !.role = role] \in AllProfiles /\ [p EXCEPT !.role = role].id = p.id
      BY DEF AllProfiles
    <2>2. p.id \in Ids(shown.list)
      BY <1>6 DEF UpdateProfileRole, Range, Ids
    <2>3. QED
      BY <1>4, <1>6, <2>1, <2>2 DEF UpdateProfileRole
  <1>7. ASSUME NEW h \in Handlers, NEW i, NEW j, ReorderProfiles(h, i, j)
        PROVE  OnceInv'
    <2> DEFINE list == InsertAt(RemoveAt(shown.list, i), j, shown.list[i])
    <2>1. /\ i \in DOMAIN shown.list /\ j \in DOMAIN shown.list
          /\ Change(h, "reorder", list, list)
      BY <1>7, ReorderChanges
    <2>2. OncePerId(list) /\ Ids(list) \subseteq Ids(shown.list)
      BY <1>0, <2>1, ListMoved
    <2> HIDE DEF list
    <2>3. QED
      BY <1>3, <2>1, <2>2
  <1>8. ASSUME NEW h \in Handlers, Saves(h) PROVE OnceInv'
    <2> DEFINE p == Head(work[h].todo)
    <2>1. /\ work[h].do # "nothing" /\ p \in AllProfiles
          /\ Ids(work[h].todo) = {p.id} \cup Ids(Tail(work[h].todo))
          /\ stored' = WithProfile(stored, p)
          /\ work'[h].do = work[h].do /\ work'[h].next = work[h].next
          /\ work'[h].todo = Tail(work[h].todo) /\ work[h].todo # <<>>
          /\ \A g \in Handlers \ {h} : work'[g] = work[g]
          /\ UNCHANGED <<shown, build>>
      BY <1>8, SavesParts DEF Saves
    <2>2. OncePerId(stored') /\ Ids(stored') = Ids(stored) \cup {p.id} /\ stored' # <<>>
      BY <2>1, ListWithProfile DEF OnceInv, ProfilesTyped
    <2>3. Fits(shown.list)' /\ Fits(build.list)'
      BY <2>1, <2>2 DEF OnceInv, Fits
    <2>4. CASE work[h].do = "add"
      <3>1. PICK q \in AllProfiles : Added(h, q)
        BY <2>4 DEF OnceInv
      <3>2. work[h].todo = <<q>>
        BY <2>1, <3>1 DEF Added
      <3>3. p = q /\ Tail(work[h].todo) = <<>>
        BY <3>2
      <3>4. \A g \in Handlers \ {h} : work[g].do = "add" =>
               Ids(work[g].next.list) \cap Ids(work'[h].next.list) = {}
        BY <2>1, <2>4 DEF OnceInv
      <3> HIDE DEF p
      <3>5. Added(h, q)'
        <4>1. \A g \in Handlers : Changes(g)' => Changes(g) /\ work'[g].next = work[g].next
          BY <2>1 DEF Changes
        <4>2. \A g \in Handlers : Changes(g)' => q.id \notin Ids(work'[g].next.list)
          BY <3>1, <4>1 DEF Added
        <4>3. QED
          BY <2>1, <2>2, <3>1, <3>3, <4>2 DEF Added
      <3>6. \A g \in Handlers \ {h} : \A r \in AllProfiles :
               work[g].do = "add" /\ Added(g, r) =>
                   /\ r.id \in Ids(stored') => r.id \in Ids(stored)
                   /\ r.id \notin Ids(shown'.list)
                   /\ g \notin build'.behind => r.id \notin Ids(build'.list)
        <4>1. ASSUME NEW g \in Handlers \ {h}, NEW r \in AllProfiles,
                     work[g].do = "add", Added(g, r)
              PROVE  r.id # q.id
          <5>1. work[g].next.list = <<r>> /\ work'[h].next.list = <<q>>
            BY <2>1, <3>1, <4>1 DEF Added
          <5>2. r.id \in Ids(<<r>>) /\ q.id \in Ids(<<q>>)
            BY DEF Ids
          <5>3. QED
            BY <3>4, <4>1, <5>1, <5>2
        <4>2. QED
          BY <2>1, <2>2, <3>3, <4>1 DEF Added
      <3>7. QED
        BY <2>1, <2>2, <2>3, <2>4, <3>4, <3>5, <3>6, OnceKept DEF Changes
    <2>5. CASE Changes(h)
      <3> HIDE DEF p
      <3>1. Ids(stored') = Ids(stored)
        BY <2>1, <2>2, <2>5 DEF OnceInv
      <3>2. Fits(work[h].next.list)' /\ Ids(work'[h].todo) \subseteq Ids(stored')
        BY <2>1, <2>5, <3>1 DEF OnceInv, Fits
      <3>3. \A g \in Handlers \ {h} : \A q \in AllProfiles :
               work[g].do = "add" /\ Added(g, q) =>
                   /\ q.id \notin Ids(shown'.list)
                   /\ Changes(h)' => q.id \notin Ids(work'[h].next.list)
                   /\ g \notin build'.behind => q.id \notin Ids(build'.list)
        BY <2>1, <2>5 DEF Added
      <3>4. work'[h].do # "add"
        BY <2>1, <2>5 DEF Changes
      <3>5. QED
        BY <2>1, <2>2, <2>3, <3>1, <3>2, <3>3, <3>4, OnceKept
    <2>6. QED
      BY <2>1, <2>4, <2>5 DEF Changes, ProfilesTyped, HandlersTyped, Handling, Doing
  <1>9. ASSUME NEW h \in Handlers,
               work'[h] = Rest, \A g \in Handlers \ {h} : work'[g] = work[g],
               UNCHANGED stored,
               build'.list = build.list, build.behind \ {h} \subseteq build'.behind,
               Fits(shown'.list),
               \A g \in Handlers \ {h} : \A p \in AllProfiles :
                   work[g].do = "add" /\ Added(g, p) => p.id \notin Ids(shown'.list)
        PROVE  OnceInv'
    <2>1. OncePerId(stored') /\ Fits(shown.list)' /\ Fits(build.list)'
      BY <1>9 DEF OnceInv, Fits
    <2>2. work'[h].do = "nothing"
      BY <1>9, RestTyped
    <2>3. \A g \in Handlers \ {h} : \A p \in AllProfiles :
              work[g].do = "add" /\ Added(g, p) /\ g \notin build'.behind =>
                  p.id \notin Ids(build'.list)
      BY <1>9 DEF Added
    <2>4. QED
      BY <1>9, <2>1, <2>2, <2>3, OnceKept DEF Changes
  <1>10. ASSUME NEW h \in Handlers, Returned(h) PROVE OnceInv'
    <2> DEFINE next == work[h].next
    <2>1. /\ work[h].do \in {"add", "update", "reorder"} /\ work[h].todo = <<>>
          /\ shown' = CASE work[h].do = "add" -> [shown EXCEPT !.list = @ \o next.list]
                        [] work[h].do = "update" -> [shown EXCEPT !.list = next.list]
                        [] work[h].do = "reorder" -> next
          /\ work' = [work EXCEPT ![h] = Rest]
          /\ build' = [build EXCEPT !.behind = build.behind \ {h}]
          /\ UNCHANGED stored
      BY <1>10 DEF Returned, ProfilesTyped, HandlersTyped, Handling, Doing, Builds
    <2>2. build'.list = build.list /\ build'.behind = build.behind \ {h}
      BY <2>1 DEF ProfilesTyped, Builds
    <2>3. work'[h] = Rest /\ \A g \in Handlers \ {h} : work'[g] = work[g]
      BY <2>1, RestsTyped
    <2> HIDE DEF next
    <2>4. CASE work[h].do = "add"
      <3>1. PICK p \in AllProfiles : Added(h, p)
        BY <2>4 DEF OnceInv
      <3>2. /\ next.list = <<p>> /\ p.id \in Ids(stored) /\ p.id \notin Ids(shown.list)
        BY <2>1, <3>1 DEF Added, next
      <3>3. shown'.list = shown.list \o <<p>>
        BY <2>1, <2>4, <3>2 DEF ProfilesTyped, Screens
      <3>4. Fits(shown'.list)
        BY <1>0, <3>2, <3>3, ListJoined DEF Fits
      <3>5. ASSUME NEW g \in Handlers \ {h}, NEW r \in AllProfiles,
                   work[g].do = "add", Added(g, r)
            PROVE  r.id \notin Ids(shown'.list)
        <4>1. work[g].next.list = <<r>> /\ r.id \notin Ids(shown.list)
          BY <3>5 DEF Added
        <4>2. r.id \in Ids(<<r>>) /\ p.id \in Ids(<<p>>)
          BY DEF Ids
        <4>3. Ids(work[g].next.list) \cap Ids(next.list) = {}
          BY <2>4, <3>5 DEF OnceInv, next
        <4>4. Ids(shown'.list) = Ids(shown.list) \cup {p.id}
          BY <1>0, <3>3, ListJoined
        <4>5. QED
          BY <3>2, <4>1, <4>2, <4>3, <4>4
      <3>6. QED
        BY <1>9, <2>1, <2>2, <2>3, <3>4, <3>5
    <2>5. CASE work[h].do \in {"update", "reorder"}
      <3>1. shown'.list = next.list
        BY <2>1, <2>5 DEF ProfilesTyped, Screens
      <3>2. Changes(h)
        BY <2>5 DEF Changes
      <3>3. Fits(shown'.list)
        BY <3>1, <3>2 DEF OnceInv, next
      <3>4. \A g \in Handlers \ {h} : \A p \in AllProfiles :
                work[g].do = "add" /\ Added(g, p) => p.id \notin Ids(shown'.list)
        BY <3>1, <3>2 DEF Added, next
      <3>5. QED
        BY <1>9, <2>1, <2>2, <2>3, <3>3, <3>4
    <2>6. QED
      BY <2>1, <2>4, <2>5
  <1>11. ASSUME NEW h \in Handlers, Verified(h) PROVE OnceInv'
    <2>1. /\ shown' = shown \/ shown' = work[h].next
          /\ UNCHANGED <<stored, build>> /\ work' = [work EXCEPT ![h] = Rest]
      BY <1>11 DEF Verified
    <2>2. work'[h] = Rest /\ \A g \in Handlers \ {h} : work'[g] = work[g]
      BY <2>1, RestsTyped
    <2>3. Changes(h)
      BY <1>11 DEF Verified, Changes
    <2>4. Fits(shown'.list)
      BY <2>1, <2>3 DEF OnceInv
    <2>5. \A g \in Handlers \ {h} : \A p \in AllProfiles :
              work[g].do = "add" /\ Added(g, p) => p.id \notin Ids(shown'.list)
      BY <2>1, <2>3 DEF Added
    <2>6. QED
      BY <1>9, <2>1, <2>2, <2>4, <2>5
  <1>12. ASSUME InvalidateSelf PROVE OnceInv'
    <2>1. build'.list = <<>> /\ build'.behind = {} /\ UNCHANGED <<stored, shown, work>>
      BY <1>12, RestTyped DEF InvalidateSelf, NoBuild
    <2>2. OncePerId(<<>>)
      BY DEF OncePerId
    <2>3. Fits(build.list)'
      BY <2>1, <2>2, NoIds DEF Fits
    <2>4. \A h \in Handlers, p \in AllProfiles : Added(h, p) => Added(h, p)'
      BY <2>1, NoIds DEF Added, Changes
    <2>5. QED
      BY <2>1, <2>3, <2>4 DEF OnceInv, Fits, Changes
  <1>13. CASE Reads
    <2>1. /\ build'.list = stored' /\ UNCHANGED <<shown, work>>
          /\ build'.behind = {h \in Handlers : Saved(h)}
          /\ stored' = IF stored = <<>> THEN <<Default>> ELSE stored
      BY <1>13 DEF Reads, Saved
    <2>2. OncePerId(<<Default>>)
      BY DEF OncePerId
    <2>3. OncePerId(stored') /\ Ids(stored) \subseteq Ids(stored')
      BY <2>1, <2>2, NoIds DEF OnceInv
    <2>4. Fits(shown.list)' /\ Fits(build.list)'
      BY <2>1, <2>3 DEF OnceInv, Fits
    <2>5. ASSUME NEW h \in Handlers, NEW p \in AllProfiles, work[h].do = "add",
                 Added(h, p)
          PROVE  Added(h, p)'
      <3>1. stored' = stored
        BY <2>1, <2>5 DEF OnceInv
      <3>2. h \notin build'.behind => p.id \notin Ids(build'.list)
        BY <2>1, <2>5, <3>1, RestTyped DEF Saved, Added
      <3>3. QED
        BY <2>1, <2>5, <3>1, <3>2 DEF Added, Changes
    <2>6. \A h \in Handlers : work'[h].do = "add" =>
             stored' # <<>> /\ \E p \in AllProfiles : Added(h, p)'
      BY <2>1, <2>5 DEF OnceInv
    <2>7. \A h \in Handlers : Changes(h)' =>
             Fits(work[h].next.list)' /\ Ids(work'[h].todo) \subseteq Ids(stored')
      BY <2>1, <2>3 DEF OnceInv, Fits, Changes
    <2>8. QED
      BY <2>1, <2>3, <2>4, <2>6, <2>7 DEF OnceInv
  <1>14. CASE Built
    <2>1. /\ shown'.list = build.list /\ build.behind = {}
          /\ build'.list = <<>> /\ UNCHANGED <<stored, work>>
      BY <1>14, RestTyped DEF Built
    <2>2. OncePerId(<<>>)
      BY DEF OncePerId
    <2>3. Fits(shown.list)' /\ Fits(build.list)'
      BY <2>1, <2>2, NoIds DEF OnceInv, Fits
    <2>4. \A h \in Handlers, p \in AllProfiles : Added(h, p) => Added(h, p)'
      BY <2>1, NoIds DEF Added, Changes
    <2>5. QED
      BY <2>1, <2>3, <2>4 DEF OnceInv, Fits, Changes
  <1>15. CASE UNCHANGED profileVars
    BY <1>15, SameLists DEF profileVars
  <1>16. QED
    BY <1>1, <1>2, <1>5, <1>6, <1>7, <1>8, <1>10, <1>11, <1>12, <1>13, <1>14, <1>15
    DEF ProfilesNext, DebounceEnds, BulkRefresh

-----------------------------------------------------------------------------
(* The screen follows the rows.                                             *)

LEMMA FollowsInit == ProfilesInit => Follows
  BY DEF ProfilesInit, Follows, NoBuild

LEMMA FollowsStep ==
  ProfilesTyped /\ Follows /\ [ProfilesNext]_profileVars => Follows'
  <1> SUFFICES ASSUME ProfilesTyped, Follows, [ProfilesNext]_profileVars,
                      ~rolledBack', ~announced', build'.at # "asked"
               PROVE  Follows'
    BY DEF Follows
  <1>0. /\ shown.list \in Seq(AllProfiles) /\ shown \in Screens
    BY DEF ProfilesTyped, Screens
  <1>1. ASSUME NEW h \in Handlers, work'[h].todo # <<>> \/ work'[h].do = "switch",
               \A g \in Handlers \ {h} : work'[g] = work[g],
               shown'.list = shown.list, UNCHANGED <<stored, announced, build, rolledBack>>
        PROVE  Follows'
    <2>1. \A g \in Handlers : Saved(g)' => Saved(g)
      BY <1>1 DEF Saved
    <2>2. QED
      BY <1>1, <2>1 DEF Follows
  <1>2. ASSUME NEW h \in Handlers, NEW id \in People, AddProfile(h, id) PROVE Follows'
    <2> DEFINE p == [id |-> id, role |-> "viewer"]
               next == [Rest.next EXCEPT !.list = <<p>>]
    <2>1. p \in AllProfiles
      BY DEF AllProfiles, Roles
    <2>2. <<p>> \in Seq(AllProfiles) /\ <<p>> # <<>>
      BY <2>1
    <2>3. Waits(h, "add", <<p>>, next)
          /\ UNCHANGED <<stored, shown, announced, build, picked, rolledBack>>
      BY <1>2 DEF AddProfile
    <2> HIDE DEF p
    <2>4. next \in Screens
      BY <2>2 DEF Rest, Screens
    <2> HIDE DEF next
    <2>5. work'[h].todo = <<p>> /\ \A g \in Handlers \ {h} : work'[g] = work[g]
      BY <2>2, <2>3, <2>4, WaitsTyped DEF Doing
    <2>6. QED
      BY <1>1, <2>2, <2>3, <2>5
  <1>3. ASSUME NEW h \in Handlers, NEW id \in People, SwitchProfile(h, id) PROVE Follows'
    <2> DEFINE next == [shown EXCEPT !.active = id]
    <2>1. next \in Screens /\ next.active = id /\ next.list = shown.list
      BY <1>0 DEF Screens
    <2>2. /\ \/ Waits(h, "switch", <<>>, next) /\ UNCHANGED <<shown, picked>>
             \/ shown' = next /\ picked' = id /\ UNCHANGED work
          /\ UNCHANGED <<stored, announced, build, rolledBack>>
      BY <1>3 DEF SwitchProfile
    <2> HIDE DEF next
    <2>3. CASE Waits(h, "switch", <<>>, next) /\ UNCHANGED <<shown, picked>>
      <3>1. <<>> \in Seq(AllProfiles)
        OBVIOUS
      <3>2. work'[h].do = "switch" /\ \A g \in Handlers \ {h} : work'[g] = work[g]
        BY <2>1, <2>3, <3>1, WaitsTyped DEF Doing
      <3>3. QED
        BY <1>1, <2>2, <2>3, <3>2
    <2>4. CASE shown' = next /\ picked' = id /\ UNCHANGED work
      BY <2>1, <2>2, <2>4 DEF Follows, Saved
    <2>5. QED
      BY <2>2, <2>3, <2>4
  <1>4. ASSUME NEW h \in Handlers, NEW do \in {"update", "reorder"}, NEW todo, NEW list,
               Change(h, do, todo, list), todo # <<>>
        PROVE  Follows'
    <2>1. /\ work'[h].todo = todo /\ \A g \in Handlers \ {h} : work'[g] = work[g]
          /\ UNCHANGED <<stored, shown, announced, build, rolledBack>>
      BY <1>4, WaitsTyped DEF Change, Doing
    <2>2. QED
      BY <1>1, <1>4, <2>1
  <1>5. ASSUME NEW h \in Handlers, NEW p \in AllProfiles, Updates(h, p) PROVE Follows'
    <2>1. Change(h, "update", <<p>>, WithProfile(shown.list, p)) /\ <<p>> # <<>>
      BY <1>5, UpdatesChange
    <2>2. QED
      BY <1>4, <2>1
  <1>6. ASSUME NEW h \in Handlers, NEW p \in AllProfiles, NEW role \in Roles,
               UpdateProfileRole(h, p, role)
        PROVE  Follows'
    <2>1. [p EXCEPT !.role = role] \in AllProfiles
      BY DEF AllProfiles
    <2>2. QED
      BY <1>5, <1>6, <2>1 DEF UpdateProfileRole
  <1>7. ASSUME NEW h \in Handlers, NEW i, NEW j, ReorderProfiles(h, i, j) PROVE Follows'
    <2> DEFINE list == InsertAt(RemoveAt(shown.list, i), j, shown.list[i])
    <2>1. /\ i \in DOMAIN shown.list /\ j \in DOMAIN shown.list
          /\ Change(h, "reorder", list, list)
      BY <1>7, ReorderChanges
    <2>2. list # <<>>
      BY <1>0, <2>1, ListMoved
    <2> HIDE DEF list
    <2>3. QED
      BY <1>4, <2>1, <2>2
  <1>8. ASSUME NEW h \in Handlers, Saves(h) PROVE Follows'
    BY <1>8 DEF Saves
  <1>9. ASSUME NEW h \in Handlers, Returned(h) PROVE Follows'
    <2>1. /\ Saved(h) /\ work' = [work EXCEPT ![h] = Rest]
          /\ build' = [build EXCEPT !.behind = build.behind \ {h}]
          /\ UNCHANGED <<stored, announced, rolledBack>>
      BY <1>9 DEF Returned, Saved, ProfilesTyped, Builds
    <2>2. work'[h] = Rest /\ \A g \in Handlers \ {h} : work'[g] = work[g]
      BY <2>1, RestsTyped
    <2>3. /\ build'.at = build.at /\ build'.list = build.list
          /\ build'.behind = build.behind \ {h}
      BY <2>1 DEF ProfilesTyped, Builds
    <2>4. /\ build.at = "read" /\ build.list = stored
          /\ \A g \in Handlers : Saved(g) => g \in build.behind
      BY <2>1, <2>3 DEF Follows
    <2>5. \A g \in Handlers : Saved(g)' => g \in build'.behind
      BY <2>2, <2>3, <2>4 DEF Saved
    <2>6. QED
      BY <2>1, <2>3, <2>4, <2>5 DEF Follows
  <1>10. ASSUME NEW h \in Handlers, Verified(h) PROVE Follows'
    <2>1. /\ work' = [work EXCEPT ![h] = Rest] /\ UNCHANGED <<stored, announced, build>>
          /\ ~rolledBack /\ shown'.list = shown.list
      BY <1>10 DEF Verified, ProfilesTyped, HandlersTyped
    <2>2. work'[h] = Rest /\ \A g \in Handlers \ {h} : work'[g] = work[g]
      BY <2>1, RestsTyped
    <2>3. \A g \in Handlers : Saved(g)' => Saved(g)
      BY <2>2 DEF Saved
    <2>4. QED
      BY <2>1, <2>3 DEF Follows
  <1>11. ASSUME InvalidateSelf PROVE Follows'
    BY <1>11 DEF InvalidateSelf, NoBuild
  <1>12. CASE Reads
    BY <1>12 DEF Reads, Follows, Saved
  <1>13. CASE Built
    <2>1. /\ shown'.list = build.list /\ build.behind = {} /\ build' = NoBuild
          /\ build.at = "read" /\ UNCHANGED <<stored, work, announced, rolledBack>>
      BY <1>13 DEF Built
    <2>2. build.list = stored /\ \A h \in Handlers : ~Saved(h)
      BY <2>1, RestTyped DEF Follows
    <2>3. QED
      BY <2>1, <2>2 DEF Follows, Saved
  <1>14. CASE UNCHANGED profileVars
    BY <1>14 DEF profileVars, Follows, Saved
  <1>15. QED
    BY <1>2, <1>3, <1>5, <1>6, <1>7, <1>8, <1>9, <1>10, <1>11, <1>12, <1>13, <1>14
    DEF ProfilesNext, DebounceEnds, BulkRefresh, UpdateProfile

\* Types hold, and no profile comes twice to the table or to the screen,
\* whatever handlers, builds and saves overlap.
THEOREM NoProfileTwice == ProfilesSpec => []ProfilesTypeOK
  <1>1. ProfilesTyped /\ OnceInv => ProfilesTypeOK
    BY DEF ProfilesTyped, Screens, Builds, OnceInv, Fits, OncePerId, ProfilesTypeOK
  <1>2. QED
    BY <1>1, ProfilesInitTyped, ProfilesTypedStep, OnceInit, OnceStep, PTL DEF ProfilesSpec

\* Once all is answered and announced the screen shows the rows, unless a switch
\* put an older list back, whatever handlers, builds and saves overlapped.
THEOREM ScreenFollowsRows == ProfilesSpec => []ScreenShowsRows
  <1>1. Follows => ScreenShowsRows
    <2> SUFFICES ASSUME Follows, Settled, ~rolledBack PROVE shown.list = stored
      BY DEF ScreenShowsRows
    <2>1. QED
      BY RestTyped DEF Follows, Settled
  <1>2. QED
    BY <1>1, ProfilesInitTyped, ProfilesTypedStep, FollowsInit, FollowsStep, PTL
    DEF ProfilesSpec

-----------------------------------------------------------------------------
(* The player: types.                                                       *)

Retries == 0..MaxRetries
Streams == Urls \cup {NoUrl}
Medias == [url : Streams, proxied : BOOLEAN]
Stages == {"free", "resolve", "stop", "stopped", "tier", "open", "opened", "proxy"}
CallType == [at : Stages, media : Medias, isPlay : BOOLEAN, ofSession : BOOLEAN]
SvcType == [lastUrl : Streams, lastIsLive : BOOLEAN, status : Statuses,
            retryCount : Retries, retryTimer : BOOLEAN, debounce : BOOLEAN,
            audioCheck : Streams, proxyActive : BOOLEAN, proxyTried : SUBSET Urls]
Told == [op : {"stop", "open"}, by : Calls, media : Medias]
EngineType == [queue : Seq(Told), media : Medias, playing : BOOLEAN, paused : BOOLEAN]

PlayerTyped ==
    /\ svc \in SvcType /\ engine \in EngineType /\ call \in [Calls -> CallType]
    /\ session \in {"free", "pending", "superseded"}
    /\ requested \in Streams /\ overlapped \in BOOLEAN

-----------------------------------------------------------------------------
(* The player: one call at a time.                                          *)

\* Nothing is under way: the native player has what was asked for last, and a
\* retry or a proxy would open the same.
AtRest ==
    /\ \A c \in Calls : call[c] = FreeCall
    /\ engine.queue = <<>> /\ session = "free"
    /\ svc.lastUrl = requested /\ engine.media.url = requested

\* The only call under way serves the last request: where it waits, what it has
\* told the native player, and what the service takes to be playing.
Serves(c) ==
    LET w == call[c] IN
    /\ session = IF w.ofSession THEN "pending" ELSE "free"
    /\ w.media.url = requested
    /\ w.at \in {"resolve", "stopped", "tier", "opened", "proxy"} => engine.queue = <<>>
    /\ w.at \in {"tier", "open", "opened", "proxy"} => svc.lastUrl = requested
    /\ w.at = "proxy" => ~w.ofSession
    /\ w.at \in {"stop", "stopped"} =>
           svc.lastUrl = NoUrl /\ (w.isPlay \/ requested = NoUrl)
    /\ \/ w.at = "resolve" /\ w.ofSession /\ svc.lastUrl = engine.media.url
       \/ w.at = "stop" /\ engine.queue = <<[op |-> "stop", by |-> c, media |-> NoMedia]>>
       \/ w.at = "stopped" /\ engine.media = NoMedia
       \/ w.at = "tier"
       \/ w.at = "open" /\ engine.queue = <<[op |-> "open", by |-> c, media |-> w.media]>>
       \/ w.at \in {"opened", "proxy"} /\ engine.media.url = requested

Alone(c) == \A d \in Calls \ {c} : call[d] = FreeCall

OneServes == overlapped \/ AtRest \/ \E c \in Calls : Alone(c) /\ Serves(c)

LEMMA RetriesBound ==
  /\ 0 \in Retries
  /\ \A n \in Retries : n < MaxRetries => n + 1 \in Retries
  BY PlayerAssumption DEF Retries

LEMMA ServiceTypes ==
  ASSUME NEW s \in SvcType
  PROVE  /\ Stopping(s) \in SvcType /\ Stopping(s).lastUrl = NoUrl
         /\ \A u \in Streams : Beginning(s, u) \in SvcType /\ Beginning(s, u).lastUrl = u
         /\ Failing(s) \in SvcType /\ Failing(s).lastUrl = s.lastUrl
         /\ Playing(s) \in SvcType /\ Playing(s).lastUrl = s.lastUrl
         /\ NotPlaying(s) \in SvcType /\ NotPlaying(s).lastUrl = s.lastUrl
  <1>1. NoUrl \in Streams /\ {} \subseteq Urls
    BY DEF Streams
  <1>2. Stopping(s) \in SvcType /\ Stopping(s).lastUrl = NoUrl
    BY <1>1, RetriesBound DEF Stopping, SvcType
  <1>3. ASSUME NEW u \in Streams
        PROVE  Beginning(s, u) \in SvcType /\ Beginning(s, u).lastUrl = u
    <2> DEFINE begun(live) ==
                 [s EXCEPT !.lastUrl = u, !.lastIsLive = live, !.retryCount = 0,
                           !.status = "buffering", !.audioCheck = NoUrl,
                           !.proxyActive = FALSE, !.proxyTried = {}]
    <2>1. \A live \in BOOLEAN : begun(live) \in SvcType /\ begun(live).lastUrl = u
      BY <1>1, RetriesBound DEF SvcType, Statuses
    <2>2. Beginning(s, u) = begun(u \in Live)
      BY DEF Beginning
    <2>3. CASE u \in Live
      <3>1. Beginning(s, u) = begun(TRUE)
        BY <2>2, <2>3
      <3> HIDE DEF begun
      <3>2. QED
        BY <2>1, <3>1
    <2>4. CASE u \notin Live
      <3>1. (u \in Live) = FALSE
        BY <2>4
      <3>2. Beginning(s, u) = begun(FALSE)
        BY <2>2, <3>1
      <3> HIDE DEF begun
      <3>3. QED
        BY <2>1, <3>2
    <2>5. QED
      BY <2>3, <2>4
  <1>4. Failing(s) \in SvcType /\ Failing(s).lastUrl = s.lastUrl
    <2>1. CASE CanRetry(s)
      <3>1. s.retryCount + 1 \in Retries
        BY <2>1, RetriesBound DEF CanRetry, SvcType
      <3>2. Failing(s) = [s EXCEPT !.retryCount = s.retryCount + 1,
                                   !.status = "buffering", !.retryTimer = TRUE]
        BY <2>1 DEF Failing
      <3> DEFINE n == s.retryCount + 1
      <3> HIDE DEF n
      <3>3. n \in Retries /\ Failing(s) = [s EXCEPT !.retryCount = n, !.status = "buffering",
                                                    !.retryTimer = TRUE]
        BY <3>1, <3>2 DEF n
      <3>4. QED
        BY <3>3 DEF SvcType, Statuses
    <2>2. CASE ~CanRetry(s)
      BY <2>2 DEF Failing, SvcType, Statuses
    <2>3. QED
      BY <2>1, <2>2
  <1>5. Playing(s) \in SvcType /\ Playing(s).lastUrl = s.lastUrl
    BY RetriesBound DEF Playing, SvcType, Statuses
  <1>6. NotPlaying(s) \in SvcType /\ NotPlaying(s).lastUrl = s.lastUrl
    BY DEF NotPlaying, SvcType, Statuses
  <1>7. QED
    BY <1>2, <1>3, <1>4, <1>5, <1>6

LEMMA WaitingTypes ==
  /\ FreeCall \in CallType /\ NoMedia \in Medias
  /\ \A at \in Stages, m \in Medias, isPlay, ofSession \in BOOLEAN :
         Waiting(at, m, isPlay, ofSession) \in CallType
  /\ \A u \in Streams, p \in BOOLEAN : Media(u, p) \in Medias
  BY DEF FreeCall, NoMedia, Media, Medias, Waiting, CallType, Stages, Streams

LEMMA PlayerInitTyped == PlayerInit => PlayerTyped
  <1> SUFFICES ASSUME PlayerInit PROVE PlayerTyped
    OBVIOUS
  <1>1. svc \in SvcType
    BY RetriesBound DEF PlayerInit, SvcType, Streams, Statuses
  <1>2. engine \in EngineType
    BY WaitingTypes DEF PlayerInit, EngineType
  <1>3. QED
    BY <1>1, <1>2, WaitingTypes DEF PlayerInit, PlayerTyped, Streams

LEMMA TellsTyped ==
  ASSUME PlayerTyped, NEW op \in {"stop", "open"}, NEW c \in Calls, NEW m \in Medias,
         Tells(op, c, m)
  PROVE  engine' \in EngineType
  <1> DEFINE told == [op |-> op, by |-> c, media |-> m]
  <1>1. told \in Told
    BY DEF Told
  <1>2. engine' = [engine EXCEPT !.queue = Append(engine.queue, told)]
    BY DEF Tells, PlayerTyped, EngineType
  <1>3. Append(engine.queue, told) \in Seq(Told)
    BY <1>1 DEF PlayerTyped, EngineType
  <1> HIDE DEF told
  <1>4. QED
    BY <1>2, <1>3 DEF PlayerTyped, EngineType

LEMMA OpensTyped ==
  ASSUME PlayerTyped, NEW c \in Calls, NEW m \in Medias, NEW live,
         NEW isPlay \in BOOLEAN, NEW ofSession \in BOOLEAN,
         Opens(c, m, live, isPlay, ofSession)
  PROVE  engine' \in EngineType /\ call' \in [Calls -> CallType]
  <1> DEFINE w == Waiting(IF live THEN "tier" ELSE "open", m, isPlay, ofSession)
  <1>1. w \in CallType
    BY WaitingTypes DEF Stages
  <1>2. call' = [call EXCEPT ![c] = w]
    BY DEF Opens
  <1> HIDE DEF w
  <1>3. call' \in [Calls -> CallType]
    BY <1>1, <1>2 DEF PlayerTyped
  <1>4. engine' \in EngineType
    BY TellsTyped DEF Opens, PlayerTyped
  <1>5. QED
    BY <1>3, <1>4

LEMMA ReturnsTyped ==
  ASSUME PlayerTyped, NEW c \in Calls, Returns(c)
  PROVE  call' \in [Calls -> CallType] /\ session' \in {"free", "pending", "superseded"}
  BY WaitingTypes DEF Returns, PlayerTyped

LEMMA PlaysTyped ==
  ASSUME PlayerTyped, NEW c \in Calls, NEW u \in Streams, NEW ofSession \in BOOLEAN,
         Plays(c, u, ofSession)
  PROVE  /\ svc' \in SvcType /\ engine' \in EngineType /\ call' \in [Calls -> CallType]
         /\ session' \in {"free", "pending", "superseded"}
  <1> DEFINE s == [svc EXCEPT !.retryTimer = FALSE, !.debounce = FALSE]
             w == Waiting("stop", Media(u, FALSE), TRUE, ofSession)
  <1>1. s \in SvcType
    BY DEF PlayerTyped, SvcType
  <1>2. w \in CallType /\ Media(u, FALSE) \in Medias
    BY WaitingTypes DEF Stages
  <1>3. \/ svc' = s /\ call' = [call EXCEPT ![c] = FreeCall] /\ session' \in {"free", session}
           /\ UNCHANGED engine
        \/ svc' = Stopping(s) /\ call' = [call EXCEPT ![c] = w] /\ Tells("stop", c, NoMedia)
           /\ UNCHANGED session
        \/ svc' = Beginning(s, u) /\ Opens(c, Media(u, FALSE), u \in Live, TRUE, ofSession)
           /\ UNCHANGED session
    BY DEF Plays
  <1> HIDE DEF s, w
  <1>4. svc' \in SvcType
    BY <1>1, <1>3, ServiceTypes
  <1>5. engine' \in EngineType
    BY <1>2, <1>3, WaitingTypes, TellsTyped, OpensTyped DEF PlayerTyped
  <1>6. call' \in [Calls -> CallType]
    BY <1>2, <1>3, WaitingTypes, OpensTyped DEF PlayerTyped
  <1>7. session' \in {"free", "pending", "superseded"}
    BY <1>3 DEF PlayerTyped
  <1>8. QED
    BY <1>4, <1>5, <1>6, <1>7

LEMMA PlayerTypedStep == PlayerTyped /\ [PlayerNext]_playerVars => PlayerTyped'
  <1> SUFFICES ASSUME PlayerTyped, [PlayerNext]_playerVars PROVE PlayerTyped'
    OBVIOUS
  <1> USE DEF PlayerTyped
  <1>1. ASSUME NEW c \in Calls, NEW u \in Urls, StartPlayback(c, u) PROVE PlayerTyped'
    <2>1. Waiting("resolve", Media(u, FALSE), TRUE, TRUE) \in CallType
      BY WaitingTypes DEF Stages, Streams
    <2>2. QED
      BY <1>1, <2>1 DEF StartPlayback, Pressed, Begins, Streams
  <1>2. ASSUME NEW c \in Calls, NEW u \in Urls, Zap(c, u) PROVE PlayerTyped'
    <2>1. u \in Streams /\ Plays(c, u, FALSE)
      BY <1>2 DEF Zap, Streams
    <2>2. QED
      BY <1>2, <2>1, PlaysTyped DEF Zap, Pressed, Begins
  <1>3. ASSUME NEW c \in Calls, Stop(c) PROVE PlayerTyped'
    <2>1. Waiting("stop", NoMedia, FALSE, FALSE) \in CallType
      BY WaitingTypes DEF Stages
    <2>2. QED
      BY <1>3, <2>1, ServiceTypes, WaitingTypes, TellsTyped
      DEF Stop, Pressed, Begins, Streams
  <1>4. CASE PauseOrResume
    <2>1. engine' \in EngineType
      BY <1>4 DEF PauseOrResume, EngineType
    <2>2. QED
      BY <1>4, <2>1, ServiceTypes DEF PauseOrResume
  <1>5. ASSUME NEW c \in Calls, Resolved(c) PROVE PlayerTyped'
    <2>1. call[c].media.url \in Streams
      BY DEF CallType, Medias
    <2>2. QED
      BY <1>5, <2>1, PlaysTyped, ReturnsTyped DEF Resolved
  <1>6. ASSUME NEW c \in Calls, Stopped(c) PROVE PlayerTyped'
    <2> DEFINE idle == [svc EXCEPT !.status = "idle"]
    <2>1. idle \in SvcType
      BY DEF SvcType, Statuses
    <2>2. /\ call[c].media \in Medias /\ call[c].media.url \in Streams
          /\ call[c].ofSession \in BOOLEAN
      BY DEF CallType, Medias
    <2>3. /\ \/ svc' = idle /\ Returns(c) /\ UNCHANGED engine
             \/ /\ svc' = Beginning(idle, call[c].media.url) /\ UNCHANGED session
                /\ Opens(c, call[c].media, call[c].media.url \in Live, TRUE, call[c].ofSession)
          /\ UNCHANGED <<requested, overlapped>>
      BY <1>6 DEF Stopped
    <2> HIDE DEF idle
    <2>4. svc' \in SvcType
      <3>1. Beginning(idle, call[c].media.url) \in SvcType
        BY <2>1, <2>2, ServiceTypes
      <3>2. QED
        BY <2>1, <2>3, <3>1
    <2>5. QED
      BY <2>2, <2>3, <2>4, OpensTyped, ReturnsTyped
  <1>7. ASSUME NEW c \in Calls, NEW at \in Stages, Moves(c, at)
        PROVE  call' \in [Calls -> CallType]
    <2>1. [call[c] EXCEPT !.at = at] \in CallType
      BY DEF CallType
    <2>2. QED
      BY <1>7, <2>1 DEF Moves
  <1>8. ASSUME NEW c \in Calls, TierLoaded(c) PROVE PlayerTyped'
    <2>1. call[c].media \in Medias
      BY DEF CallType
    <2>2. QED
      BY <1>7, <1>8, <2>1, TellsTyped DEF TierLoaded, Stages
  <1>9. ASSUME NEW c \in Calls, Opened(c) PROVE PlayerTyped'
    <2>1. call[c].media.url \in Streams
      BY DEF CallType, Medias
    <2>2. svc' \in SvcType
      BY <1>9, <2>1 DEF Opened, SvcType
    <2>3. QED
      BY <1>9, <2>2, ReturnsTyped DEF Opened
  <1>10. ASSUME NEW c \in Calls, Proxied(c) PROVE PlayerTyped'
    <2>1. [svc EXCEPT !.proxyActive = TRUE] \in SvcType
      BY DEF SvcType
    <2>2. Media(call[c].media.url, TRUE) \in Medias
      BY WaitingTypes DEF CallType, Medias
    <2>3. QED
      BY <1>10, <2>1, <2>2, OpensTyped, ReturnsTyped DEF Proxied
  <1>11. ASSUME NEW c \in Calls, RetryTimer(c) PROVE PlayerTyped'
    <2>1. svc' \in SvcType
      BY <1>11 DEF RetryTimer, SvcType
    <2>2. Media(svc.lastUrl, FALSE) \in Medias
      BY WaitingTypes DEF SvcType
    <2>3. QED
      BY <1>11, <2>1, <2>2, OpensTyped DEF RetryTimer, Begins
  <1>12. ASSUME NEW c \in Calls, AudioCheck(c) PROVE PlayerTyped'
    <2>1. svc.audioCheck \in Streams /\ (svc.audioCheck # NoUrl => svc.audioCheck \in Urls)
      BY DEF SvcType, Streams
    <2>2. svc' \in SvcType
      <3>1. NoUrl \in Streams /\ svc.proxyTried \in SUBSET Urls
        BY DEF SvcType, Streams
      <3>2. [svc EXCEPT !.audioCheck = NoUrl] \in SvcType
        BY <3>1 DEF SvcType
      <3>3. ASSUME svc.audioCheck \in Urls
            PROVE  [svc EXCEPT !.audioCheck = NoUrl,
                               !.proxyTried = @ \cup {svc.audioCheck}] \in SvcType
        BY <3>1, <3>3 DEF SvcType
      <3>4. QED
        BY <1>12, <2>1, <3>2, <3>3 DEF AudioCheck
    <2>3. Waiting("proxy", Media(svc.audioCheck, FALSE), FALSE, FALSE) \in CallType
      BY <2>1, WaitingTypes DEF Stages
    <2>4. QED
      BY <1>12, <2>2, <2>3 DEF AudioCheck, Begins
  <1>13. CASE BufferingDebounce
    BY <1>13 DEF BufferingDebounce, SvcType, Statuses
  <1>14. CASE Engine
    <2>1. /\ Head(engine.queue) \in Told /\ Tail(engine.queue) \in Seq(Told)
      BY <1>14 DEF Engine, EngineType
    <2>2. Head(engine.queue).by \in Calls /\ Head(engine.queue).media \in Medias
      BY <2>1 DEF Told
    <2>3. engine' \in EngineType
      BY <1>14, <2>1, <2>2 DEF Engine, EngineType
    <2>4. call' \in [Calls -> CallType]
      BY <1>7, <1>14, <2>2 DEF Engine, Stages
    <2>5. QED
      BY <1>14, <2>3, <2>4, ServiceTypes DEF Engine
  <1>15. CASE Starts
    <2>1. engine' \in EngineType
      BY <1>15 DEF Starts, EngineType
    <2>2. QED
      BY <1>15, <2>1, ServiceTypes DEF Starts
  <1>16. CASE Troubled
    <2>1. [svc EXCEPT !.retryCount = 0, !.status = "buffering", !.retryTimer = TRUE] \in SvcType
      BY RetriesBound DEF SvcType, Statuses
    <2>2. [svc EXCEPT !.debounce = TRUE] \in SvcType
      BY DEF SvcType
    <2>3. QED
      BY <1>16, <2>1, <2>2, ServiceTypes DEF Troubled
  <1>17. CASE BufferingEnds
    BY <1>17 DEF BufferingEnds, SvcType, Statuses
  <1>18. CASE UNCHANGED playerVars
    BY <1>18 DEF playerVars
  <1>19. QED
    BY <1>1, <1>2, <1>3, <1>4, <1>5, <1>6, <1>8, <1>9, <1>10, <1>11, <1>12, <1>13, <1>14,
       <1>15, <1>16, <1>17, <1>18 DEF PlayerNext

LEMMA RestInit == PlayerInit => AtRest
  BY DEF PlayerInit, AtRest, NoMedia, Media

\* A call that is under way is the only one.
LEMMA UnderWay ==
  ASSUME PlayerTyped, OneServes, ~overlapped, NEW c \in Calls, call[c].at # "free"
  PROVE  Alone(c) /\ Serves(c)
  <1>1. FreeCall.at = "free"
    BY DEF FreeCall, Waiting
  <1>2. QED
    BY <1>1 DEF OneServes, AtRest, Alone

\* A call that begins without overlapping another one begins at rest.
LEMMA FromRest ==
  ASSUME OneServes, NEW c \in Calls, Begins(c), ~overlapped'
  PROVE  AtRest /\ Alone(c)
  <1>1. FreeCall.at = "free"
    BY DEF FreeCall, Waiting
  <1>2. \A d \in Calls : call[d] = FreeCall
    BY DEF Begins
  <1>3. \A d \in Calls : ~Serves(d)
    BY <1>1, <1>2 DEF Serves
  <1>4. QED
    BY <1>2, <1>3 DEF OneServes, Begins, Alone

LEMMA ToldQueue ==
  ASSUME PlayerTyped, engine.queue = <<>>, NEW op, NEW c, NEW m, Tells(op, c, m)
  PROVE  /\ engine'.queue = <<[op |-> op, by |-> c, media |-> m]>>
         /\ engine'.media = engine.media
  <1> DEFINE told == [op |-> op, by |-> c, media |-> m]
  <1>1. engine' = [engine EXCEPT !.queue = Append(engine.queue, told)]
    BY DEF Tells, PlayerTyped, EngineType
  <1>2. Append(engine.queue, told) = <<told>>
    OBVIOUS
  <1> HIDE DEF told
  <1>3. engine'.queue = <<told>> /\ engine'.media = engine.media
    BY <1>1, <1>2 DEF PlayerTyped, EngineType
  <1>4. QED
    BY <1>3 DEF told

LEMMA WaitingFields ==
  ASSUME NEW at, NEW m, NEW isPlay, NEW ofSession
  PROVE  LET w == Waiting(at, m, isPlay, ofSession) IN
         w.at = at /\ w.media = m /\ w.isPlay = isPlay /\ w.ofSession = ofSession
  BY DEF Waiting

LEMMA MediaFields ==
  /\ \A u, p : Media(u, p).url = u
  /\ NoMedia.url = NoUrl
  BY DEF Media, NoMedia

\* An opening of what was asked for last serves it.
LEMMA OpensServes ==
  ASSUME PlayerTyped, NEW c \in Calls, Alone(c), engine.queue = <<>>,
         NEW m, NEW live, NEW isPlay, NEW ofSession \in BOOLEAN,
         Opens(c, m, live, isPlay, ofSession),
         session' = IF ofSession THEN "pending" ELSE "free",
         m.url = requested', svc'.lastUrl = requested'
  PROVE  Alone(c)' /\ Serves(c)'
  <1> DEFINE w == Waiting(IF live THEN "tier" ELSE "open", m, isPlay, ofSession)
  <1>1. call' = [call EXCEPT ![c] = w]
    BY DEF Opens
  <1>2. /\ w.at = IF live THEN "tier" ELSE "open"
        /\ w.media = m /\ w.ofSession = ofSession
    BY WaitingFields
  <1> HIDE DEF w
  <1>3. call'[c] = w /\ Alone(c)'
    BY <1>1 DEF Alone, PlayerTyped
  <1>4. CASE live
    BY <1>2, <1>3, <1>4 DEF Serves, Opens
  <1>5. CASE ~live
    <2>1. engine'.queue = <<[op |-> "open", by |-> c, media |-> m]>>
      BY <1>5, ToldQueue DEF Opens
    <2>2. w.at = "open"
      BY <1>2, <1>5
    <2>3. QED
      BY <1>2, <1>3, <2>1, <2>2 DEF Serves
  <1>6. QED
    BY <1>3, <1>4, <1>5

\* play() of what was asked for last, begun at rest or after it was resolved.
LEMMA PlaysServes ==
  ASSUME PlayerTyped, NEW c \in Calls, Alone(c), engine.queue = <<>>,
         NEW u \in Streams, NEW ofSession \in BOOLEAN, Plays(c, u, ofSession),
         session = IF ofSession THEN "pending" ELSE "free",
         svc.lastUrl = engine.media.url, requested' = u
  PROVE  AtRest' \/ (Alone(c)' /\ Serves(c)')
  <1> DEFINE s == [svc EXCEPT !.retryTimer = FALSE, !.debounce = FALSE]
             w == Waiting("stop", Media(u, FALSE), TRUE, ofSession)
  <1>1. s \in SvcType /\ s.lastUrl = svc.lastUrl
    BY DEF PlayerTyped, SvcType
  <1>2. \/ /\ u = s.lastUrl /\ svc' = s /\ call' = [call EXCEPT ![c] = FreeCall]
           /\ session' = (IF ofSession THEN "free" ELSE session) /\ UNCHANGED engine
        \/ svc' = Stopping(s) /\ call' = [call EXCEPT ![c] = w] /\ Tells("stop", c, NoMedia)
           /\ UNCHANGED session
        \/ svc' = Beginning(s, u) /\ Opens(c, Media(u, FALSE), u \in Live, TRUE, ofSession)
           /\ UNCHANGED session
    BY DEF Plays
  <1>3. w.at = "stop" /\ w.media.url = u /\ w.isPlay /\ w.ofSession = ofSession
    BY MediaFields DEF Waiting
  <1> HIDE DEF s, w
  <1>4. CASE /\ u = s.lastUrl /\ svc' = s /\ call' = [call EXCEPT ![c] = FreeCall]
             /\ session' = (IF ofSession THEN "free" ELSE session) /\ UNCHANGED engine
    <2>1. \A d \in Calls : call'[d] = FreeCall
      BY <1>4 DEF Alone, PlayerTyped
    <2>2. session' = "free"
      BY <1>4
    <2>3. QED
      BY <1>1, <1>4, <2>1, <2>2 DEF AtRest
  <1>5. CASE svc' = Stopping(s) /\ call' = [call EXCEPT ![c] = w] /\ Tells("stop", c, NoMedia)
             /\ UNCHANGED session
    <2>1. call'[c] = w /\ Alone(c)'
      BY <1>5 DEF Alone, PlayerTyped
    <2>2. svc'.lastUrl = NoUrl
      BY <1>1, <1>5, ServiceTypes
    <2>3. engine'.queue = <<[op |-> "stop", by |-> c, media |-> NoMedia]>>
      BY <1>5, ToldQueue
    <2>4. QED
      BY <1>3, <1>5, <2>1, <2>2, <2>3 DEF Serves
  <1>6. CASE svc' = Beginning(s, u) /\ Opens(c, Media(u, FALSE), u \in Live, TRUE, ofSession)
             /\ UNCHANGED session
    <2>1. svc'.lastUrl = u
      BY <1>1, <1>6, ServiceTypes
    <2>2. QED
      BY <1>6, <2>1, OpensServes, MediaFields
  <1>7. QED
    BY <1>2, <1>4, <1>5, <1>6

\* The last call that is under way returns, having done what was asked for.
LEMMA ReturnsToRest ==
  ASSUME PlayerTyped, NEW c \in Calls, Alone(c), Returns(c),
         session = IF call[c].ofSession THEN "pending" ELSE "free",
         engine'.queue = <<>>, svc'.lastUrl = requested', engine'.media.url = requested'
  PROVE  AtRest'
  <1>1. \A d \in Calls : call'[d] = FreeCall
    BY DEF Alone, Returns, PlayerTyped
  <1>2. session' = "free"
    BY DEF Returns
  <1>3. QED
    BY <1>1, <1>2 DEF AtRest

\* What neither calls nor the native player do leaves the last request served.
LEMMA ServesAsBefore ==
  ASSUME PlayerTyped, PlayerTyped', OneServes, ~overlapped,
         UNCHANGED <<call, session, requested, overlapped>>,
         svc'.lastUrl = svc.lastUrl,
         engine'.queue = engine.queue, engine'.media = engine.media
  PROVE  OneServes'
  <1>1. CASE AtRest
    BY <1>1 DEF AtRest, OneServes
  <1>2. ASSUME NEW c \in Calls, Alone(c), Serves(c)
        PROVE  Alone(c)' /\ Serves(c)'
    BY <1>2 DEF Alone, Serves
  <1>3. QED
    BY <1>1, <1>2 DEF OneServes

LEMMA OneServesStep ==
  PlayerTyped /\ PlayerTyped' /\ OneServes /\ [PlayerNext]_playerVars => OneServes'
  <1> SUFFICES ASSUME PlayerTyped, PlayerTyped', OneServes, [PlayerNext]_playerVars,
                      ~overlapped'
               PROVE  OneServes'
    BY DEF OneServes
  <1>0. ASSUME NEW c \in Calls, AtRest' \/ (Alone(c)' /\ Serves(c)') PROVE OneServes'
    BY <1>0 DEF OneServes
  <1>1. ASSUME NEW c \in Calls, NEW u \in Urls, StartPlayback(c, u) PROVE OneServes'
    <2> DEFINE w == Waiting("resolve", Media(u, FALSE), TRUE, TRUE)
    <2>1. AtRest /\ Alone(c)
      BY <1>1, FromRest DEF StartPlayback, Pressed
    <2>2. call' = [call EXCEPT ![c] = w] /\ session' = "pending" /\ requested' = u
          /\ UNCHANGED <<svc, engine>>
      BY <1>1, <2>1 DEF StartPlayback, Pressed, AtRest
    <2>3. w.at = "resolve" /\ w.media.url = u /\ w.ofSession = TRUE
      BY MediaFields DEF Waiting
    <2> HIDE DEF w
    <2>4. call'[c] = w /\ Alone(c)'
      BY <2>1, <2>2 DEF Alone, PlayerTyped
    <2>5. Serves(c)'
      BY <2>1, <2>2, <2>3, <2>4 DEF Serves, AtRest
    <2>6. QED
      BY <1>0, <2>4, <2>5
  <1>2. ASSUME NEW c \in Calls, NEW u \in Urls, Zap(c, u) PROVE OneServes'
    <2>1. AtRest /\ Alone(c)
      BY <1>2, FromRest DEF Zap, Pressed
    <2>2. Plays(c, u, FALSE) /\ requested' = u /\ u \in Streams
      BY <1>2 DEF Zap, Pressed, Streams
    <2>3. QED
      BY <1>0, <2>1, <2>2, PlaysServes DEF AtRest
  <1>3. ASSUME NEW c \in Calls, Stop(c) PROVE OneServes'
    <2> DEFINE w == Waiting("stop", NoMedia, FALSE, FALSE)
    <2>1. AtRest /\ Alone(c)
      BY <1>3, FromRest DEF Stop, Pressed
    <2>2. /\ call' = [call EXCEPT ![c] = w] /\ session' = "free" /\ requested' = NoUrl
          /\ svc' = Stopping(svc) /\ Tells("stop", c, NoMedia)
      BY <1>3, <2>1 DEF Stop, Pressed, AtRest
    <2>3. w.at = "stop" /\ w.media.url = NoUrl /\ w.ofSession = FALSE
      BY MediaFields DEF Waiting
    <2> HIDE DEF w
    <2>4. call'[c] = w /\ Alone(c)'
      BY <2>1, <2>2 DEF Alone, PlayerTyped
    <2>5. svc'.lastUrl = NoUrl
      BY <2>2, ServiceTypes DEF PlayerTyped
    <2>6. engine'.queue = <<[op |-> "stop", by |-> c, media |-> NoMedia]>>
      BY <2>1, <2>2, ToldQueue DEF AtRest
    <2>7. Serves(c)'
      BY <2>2, <2>3, <2>4, <2>5, <2>6 DEF Serves
    <2>8. QED
      BY <1>0, <2>4, <2>7
  <1>4. ASSUME NEW c \in Calls, Resolved(c) PROVE OneServes'
    <2>1. call[c].at = "resolve" /\ ~overlapped
      BY <1>4 DEF Resolved
    <2>2. Alone(c) /\ Serves(c)
      BY <2>1, UnderWay
    <2>3. /\ session = "pending" /\ call[c].media.url = requested
          /\ engine.queue = <<>> /\ svc.lastUrl = engine.media.url
      BY <2>1, <2>2 DEF Serves
    <2>4. Plays(c, requested, TRUE) /\ requested' = requested
      BY <1>4, <2>3 DEF Resolved
    <2>5. QED
      BY <1>0, <2>2, <2>3, <2>4, PlaysServes DEF PlayerTyped
  <1>5. ASSUME NEW c \in Calls, Stopped(c) PROVE OneServes'
    <2>1. call[c].at = "stopped" /\ ~overlapped
      BY <1>5 DEF Stopped
    <2>2. Alone(c) /\ Serves(c)
      BY <2>1, UnderWay
    <2>3. /\ session = (IF call[c].ofSession THEN "pending" ELSE "free")
          /\ call[c].media.url = requested /\ engine.queue = <<>>
          /\ svc.lastUrl = NoUrl /\ (call[c].isPlay \/ requested = NoUrl)
          /\ engine.media = NoMedia
      BY <2>1, <2>2 DEF Serves
    <2> DEFINE idle == [svc EXCEPT !.status = "idle"]
    <2>4. idle \in SvcType /\ idle.lastUrl = NoUrl
      BY <2>3 DEF PlayerTyped, SvcType, Statuses
    <2>5. /\ \/ ~call[c].isPlay /\ svc' = idle /\ Returns(c) /\ UNCHANGED engine
             \/ /\ svc' = Beginning(idle, call[c].media.url) /\ UNCHANGED session
                /\ Opens(c, call[c].media, call[c].media.url \in Live, TRUE, call[c].ofSession)
          /\ UNCHANGED requested
      BY <1>5 DEF Stopped
    <2> HIDE DEF idle
    <2>6. CASE ~call[c].isPlay /\ svc' = idle /\ Returns(c) /\ UNCHANGED engine
      <3>1. engine'.media.url = requested' /\ svc'.lastUrl = requested'
        BY <2>3, <2>4, <2>5, <2>6, MediaFields
      <3>2. QED
        BY <1>0, <2>2, <2>3, <2>6, <3>1, ReturnsToRest
    <2>7. CASE /\ svc' = Beginning(idle, call[c].media.url) /\ UNCHANGED session
               /\ Opens(c, call[c].media, call[c].media.url \in Live, TRUE, call[c].ofSession)
      <3>1. requested \in Streams /\ call[c].ofSession \in BOOLEAN
        BY DEF PlayerTyped, CallType
      <3>2. svc'.lastUrl = requested
        BY <2>3, <2>4, <2>7, <3>1, ServiceTypes
      <3>3. session' = IF call[c].ofSession THEN "pending" ELSE "free"
        BY <2>3, <2>7
      <3>4. QED
        BY <1>0, <2>2, <2>3, <2>5, <2>7, <3>1, <3>2, <3>3, OpensServes
    <2>8. QED
      BY <2>5, <2>6, <2>7
  <1>6. ASSUME NEW c \in Calls, TierLoaded(c) PROVE OneServes'
    <2>1. call[c].at = "tier" /\ ~overlapped
      BY <1>6 DEF TierLoaded
    <2>2. Alone(c) /\ Serves(c)
      BY <2>1, UnderWay
    <2> DEFINE w == [call[c] EXCEPT !.at = "open"]
    <2>3. call' = [call EXCEPT ![c] = w]
      BY <1>6 DEF TierLoaded, Moves, PlayerTyped
    <2>4. w.at = "open" /\ w.media = call[c].media /\ w.ofSession = call[c].ofSession
      BY DEF PlayerTyped, CallType
    <2> HIDE DEF w
    <2>5. call'[c] = w /\ Alone(c)'
      BY <2>2, <2>3 DEF Alone, PlayerTyped
    <2>6. engine'.queue = <<[op |-> "open", by |-> c, media |-> call[c].media]>>
      BY <1>6, <2>1, <2>2, ToldQueue DEF TierLoaded, Serves
    <2>7. Serves(c)'
      BY <1>6, <2>1, <2>2, <2>4, <2>5, <2>6 DEF TierLoaded, Serves
    <2>8. QED
      BY <1>0, <2>5, <2>7
  <1>7. ASSUME NEW c \in Calls, Opened(c) PROVE OneServes'
    <2>1. call[c].at = "opened" /\ ~overlapped
      BY <1>7 DEF Opened
    <2>2. Alone(c) /\ Serves(c)
      BY <2>1, UnderWay
    <2>3. /\ session = (IF call[c].ofSession THEN "pending" ELSE "free")
          /\ engine.queue = <<>> /\ svc.lastUrl = requested /\ engine.media.url = requested
      BY <2>1, <2>2 DEF Serves
    <2>4. svc'.lastUrl = svc.lastUrl
      BY <1>7 DEF Opened, PlayerTyped, SvcType
    <2>5. QED
      BY <1>0, <1>7, <2>2, <2>3, <2>4, ReturnsToRest DEF Opened
  <1>8. ASSUME NEW c \in Calls, Proxied(c) PROVE OneServes'
    <2>1. call[c].at = "proxy" /\ ~overlapped
      BY <1>8 DEF Proxied
    <2>2. Alone(c) /\ Serves(c)
      BY <2>1, UnderWay
    <2>3. /\ session = (IF call[c].ofSession THEN "pending" ELSE "free")
          /\ engine.queue = <<>> /\ svc.lastUrl = requested
          /\ engine.media.url = requested /\ call[c].media.url = requested
      BY <2>1, <2>2 DEF Serves
    <2>4. CASE Returns(c) /\ UNCHANGED <<svc, engine>>
      BY <1>0, <1>8, <2>2, <2>3, <2>4, ReturnsToRest DEF Proxied
    <2>5. CASE /\ svc' = [svc EXCEPT !.proxyActive = TRUE] /\ UNCHANGED session
               /\ Opens(c, Media(call[c].media.url, TRUE), svc.lastIsLive, FALSE, FALSE)
      <3>1. svc'.lastUrl = svc.lastUrl
        BY <2>5 DEF PlayerTyped, SvcType
      <3>2. session = "free"
        BY <2>1, <2>2 DEF Serves
      <3> DEFINE m == Media(call[c].media.url, TRUE)
      <3>3. m.url = requested
        BY <2>3, MediaFields
      <3> HIDE DEF m
      <3>4. /\ Opens(c, m, svc.lastIsLive, FALSE, FALSE)
            /\ session' = (IF FALSE THEN "pending" ELSE "free")
            /\ requested' = requested /\ FALSE \in BOOLEAN
        BY <1>8, <2>5, <3>2 DEF Proxied, m
      <3>5. QED
        BY <1>0, <2>2, <2>3, <3>1, <3>3, <3>4, OpensServes
    <2>6. QED
      BY <1>8, <2>4, <2>5 DEF Proxied
  <1>9. ASSUME NEW c \in Calls, RetryTimer(c) PROVE OneServes'
    <2>1. AtRest /\ Alone(c)
      BY <1>9, FromRest DEF RetryTimer
    <2>2. svc'.lastUrl = svc.lastUrl
      BY <1>9 DEF RetryTimer, PlayerTyped, SvcType
    <2>3. CASE UNCHANGED <<call, engine>>
      BY <1>9, <2>1, <2>2, <2>3 DEF RetryTimer, AtRest, OneServes
    <2>4. CASE Opens(c, Media(svc.lastUrl, FALSE), TRUE, FALSE, FALSE)
      BY <1>0, <1>9, <2>1, <2>2, <2>4, OpensServes, MediaFields DEF RetryTimer, AtRest
    <2>5. QED
      BY <1>9, <2>3, <2>4 DEF RetryTimer
  <1>10. ASSUME NEW c \in Calls, AudioCheck(c) PROVE OneServes'
    <2> DEFINE w == Waiting("proxy", Media(svc.audioCheck, FALSE), FALSE, FALSE)
    <2>1. AtRest /\ Alone(c)
      BY <1>10, FromRest DEF AudioCheck
    <2>2. svc'.lastUrl = svc.lastUrl /\ UNCHANGED <<engine, session, requested>>
      BY <1>10 DEF AudioCheck, PlayerTyped, SvcType
    <2>3. CASE UNCHANGED call
      BY <2>1, <2>2, <2>3 DEF AtRest, OneServes
    <2>4. CASE svc.lastUrl = svc.audioCheck /\ call' = [call EXCEPT ![c] = w]
      <3>1. w.at = "proxy" /\ w.media.url = svc.audioCheck /\ w.ofSession = FALSE
        BY MediaFields DEF Waiting
      <3> HIDE DEF w
      <3>2. call'[c] = w /\ Alone(c)'
        BY <2>1, <2>4 DEF Alone, PlayerTyped
      <3>3. Serves(c)'
        BY <2>1, <2>2, <2>4, <3>1, <3>2 DEF Serves, AtRest
      <3>4. QED
        BY <1>0, <3>2, <3>3
    <2>5. QED
      BY <1>10, <2>3, <2>4 DEF AudioCheck
  <1>11. CASE Engine
    <2> DEFINE head == Head(engine.queue)
               c == head.by
               next == IF head.op = "stop" THEN "stopped" ELSE "opened"
    <2>1. engine.queue # <<>> /\ ~overlapped
      BY <1>11 DEF Engine
    <2>2. PICK d \in Calls : Alone(d) /\ Serves(d)
      BY <2>1 DEF OneServes, AtRest
    <2>3. \/ /\ call[d].at = "stop"
             /\ engine.queue = <<[op |-> "stop", by |-> d, media |-> NoMedia]>>
          \/ /\ call[d].at = "open"
             /\ engine.queue = <<[op |-> "open", by |-> d, media |-> call[d].media]>>
      BY <2>1, <2>2 DEF Serves
    <2>4. /\ c = d /\ Tail(engine.queue) = <<>>
          /\ \/ call[d].at = "stop" /\ next = "stopped" /\ head.media = NoMedia
             \/ call[d].at = "open" /\ next = "opened" /\ head.media = call[d].media
      <3>1. \A e : Head(<<e>>) = e /\ Tail(<<e>>) = <<>>
        OBVIOUS
      <3>2. CASE /\ call[d].at = "stop"
                 /\ engine.queue = <<[op |-> "stop", by |-> d, media |-> NoMedia]>>
        <4>1. head = [op |-> "stop", by |-> d, media |-> NoMedia] /\ Tail(engine.queue) = <<>>
          BY <3>1, <3>2
        <4> HIDE DEF head
        <4>2. QED
          BY <3>2, <4>1
      <3>3. CASE /\ call[d].at = "open"
                 /\ engine.queue = <<[op |-> "open", by |-> d, media |-> call[d].media]>>
        <4>1. /\ head = [op |-> "open", by |-> d, media |-> call[d].media]
              /\ Tail(engine.queue) = <<>>
          BY <3>1, <3>3
        <4> HIDE DEF head
        <4>2. QED
          BY <3>3, <4>1
      <3>4. QED
        BY <2>3, <3>2, <3>3
    <2>5. /\ call' = [call EXCEPT ![c] = [call[c] EXCEPT !.at = next]]
          /\ engine'.queue = Tail(engine.queue) /\ engine'.media = head.media
          /\ UNCHANGED <<session, requested, overlapped>>
          /\ svc' = IF engine.playing THEN NotPlaying(svc) ELSE svc
      BY <1>11 DEF Engine, Moves, PlayerTyped
    <2>6. svc'.lastUrl = svc.lastUrl
      BY <2>5, ServiceTypes DEF PlayerTyped
    <2> HIDE DEF head, c, next
    <2> DEFINE w == [call[d] EXCEPT !.at = next]
    <2>7. w.at = next /\ w.media = call[d].media /\ w.ofSession = call[d].ofSession
          /\ w.isPlay = call[d].isPlay
      BY DEF PlayerTyped, CallType
    <2>8. call' = [call EXCEPT ![d] = w]
      BY <2>4, <2>5
    <2> HIDE DEF w
    <2>9. call'[d] = w /\ Alone(d)'
      BY <2>2, <2>8 DEF Alone, PlayerTyped
    <2>10. Serves(d)'
      <3>1. CASE call[d].at = "stop" /\ next = "stopped" /\ head.media = NoMedia
        BY <2>2, <2>4, <2>5, <2>6, <2>7, <2>9, <3>1 DEF Serves
      <3>2. CASE call[d].at = "open" /\ next = "opened" /\ head.media = call[d].media
        BY <2>2, <2>4, <2>5, <2>6, <2>7, <2>9, <3>2 DEF Serves
      <3>3. QED
        BY <2>4, <3>1, <3>2
    <2>11. QED
      BY <1>0, <2>9, <2>10
  <1>12. ASSUME ~overlapped,
                UNCHANGED <<call, session, requested, overlapped>>,
                svc'.lastUrl = svc.lastUrl,
                engine'.queue = engine.queue, engine'.media = engine.media
         PROVE  OneServes'
    BY <1>12, ServesAsBefore
  <1>13. CASE PauseOrResume
    <2>1. engine'.queue = engine.queue /\ engine'.media = engine.media
      BY <1>13 DEF PauseOrResume, PlayerTyped, EngineType
    <2>2. svc'.lastUrl = svc.lastUrl
      BY <1>13, ServiceTypes DEF PauseOrResume, PlayerTyped
    <2>3. QED
      BY <1>12, <1>13, <2>1, <2>2 DEF PauseOrResume
  <1>14. CASE BufferingDebounce \/ BufferingEnds
    <2>1. svc'.lastUrl = svc.lastUrl
      BY <1>14 DEF BufferingDebounce, BufferingEnds, PlayerTyped, SvcType
    <2>2. QED
      BY <1>12, <1>14, <2>1 DEF BufferingDebounce, BufferingEnds
  <1>15. CASE Starts
    <2>1. engine'.queue = engine.queue /\ engine'.media = engine.media
      BY <1>15 DEF Starts, PlayerTyped, EngineType
    <2>2. svc'.lastUrl = svc.lastUrl
      BY <1>15, ServiceTypes DEF Starts, PlayerTyped
    <2>3. QED
      BY <1>12, <1>15, <2>1, <2>2 DEF Starts
  <1>16. CASE Troubled
    <2>1. /\ [svc EXCEPT !.debounce = TRUE].lastUrl = svc.lastUrl
          /\ [svc EXCEPT !.retryCount = 0, !.status = "buffering",
                         !.retryTimer = TRUE].lastUrl = svc.lastUrl
      BY DEF PlayerTyped, SvcType
    <2>2. svc'.lastUrl = svc.lastUrl
      BY <1>16, <2>1, ServiceTypes DEF Troubled, PlayerTyped
    <2>3. QED
      BY <1>12, <1>16, <2>2 DEF Troubled
  <1>17. CASE UNCHANGED playerVars
    BY <1>12, <1>17 DEF playerVars
  <1>18. QED
    BY <1>1, <1>2, <1>3, <1>4, <1>5, <1>6, <1>7, <1>8, <1>9, <1>10, <1>11, <1>13, <1>14,
       <1>15, <1>16, <1>17 DEF PlayerNext

\* Types hold for any streams, number of calls, presses and troubles.
THEOREM PlayerTypes == PlayerSpec => []PlayerTypeOK
  <1>1. PlayerTyped => PlayerTypeOK
    <2> SUFFICES ASSUME PlayerTyped PROVE PlayerTypeOK
      OBVIOUS
    <2>1. /\ svc.lastUrl \in Urls \cup {NoUrl} /\ svc.audioCheck \in Urls \cup {NoUrl}
          /\ svc.status \in Statuses /\ svc.retryCount \in 0..MaxRetries
          /\ {svc.lastIsLive, svc.retryTimer, svc.debounce, svc.proxyActive} \subseteq BOOLEAN
          /\ svc.proxyTried \subseteq Urls
      BY DEF PlayerTyped, SvcType, Streams, Retries
    <2>2. engine.media.url \in Urls \cup {NoUrl}
      BY DEF PlayerTyped, EngineType, Medias, Streams
    <2>3. \A n \in DOMAIN engine.queue : engine.queue[n].by \in Calls
      <3>1. engine.queue \in Seq(Told)
        BY DEF PlayerTyped, EngineType
      <3>2. \A n \in DOMAIN engine.queue : engine.queue[n] \in Told
        BY <3>1
      <3>3. QED
        BY <3>2 DEF Told
    <2>4. QED
      BY <2>1, <2>2, <2>3 DEF PlayerTyped, PlayerTypeOK, Streams
  <1>2. QED
    BY <1>1, PlayerInitTyped, PlayerTypedStep, PTL DEF PlayerSpec

\* Once all has settled the native player has what was asked for last, unless
\* two calls overlapped: for any streams, presses, errors, stalls and retries.
THEOREM LastRequestPlays == PlayerSpec => []RequestedPlays
  <1>1. PlayerInit => OneServes
    BY RestInit DEF OneServes
  <1>2. PlayerTyped /\ OneServes => RequestedPlays
    <2> SUFFICES ASSUME OneServes, Quiet, ~overlapped PROVE engine.media.url = requested
      BY DEF RequestedPlays
    <2>1. FreeCall.at = "free"
      BY DEF FreeCall, Waiting
    <2>2. \A c \in Calls : ~Serves(c)
      BY <2>1 DEF Quiet, Serves
    <2>3. QED
      BY <2>2 DEF OneServes, AtRest
  <1>3. QED
    BY <1>1, <1>2, PlayerInitTyped, PlayerTypedStep, OneServesStep, PTL DEF PlayerSpec

=============================================================================
