-------------------------- MODULE RecurringExpansion --------------------------
(***************************************************************************)
(* Recurring recordings: every 30 s DvrService (features/dvr/data/         *)
(* dvr_service.dart) sends its list to the core, which expands the         *)
(* recurring ones over the week ahead (algorithms/dvr/scheduling.rs), and  *)
(* adds a recording for each instance that comes back.                     *)
(*                                                                         *)
(* Times are hours of UTC.  Dart's copy of the list is the rows (their     *)
(* divergence is DvrRecorder's matter), and an expansion has added all     *)
(* before the next tick.                                                   *)
(***************************************************************************)
EXTENDS Integers, FiniteSets

CONSTANTS
    Recurring,     \* recordings the user may schedule: [show, start, end, days]
    Day,           \* hours of a day
    Week,          \* days of a week, and days the expansion looks ahead
    Zone,          \* hours the device's clock is ahead of UTC
    MaxHour,       \* bound on the clock
    MaxRemovals    \* bound: recordings the user deletes

ASSUME ExpansionAssumption ==
    /\ {Day, Week} \subseteq Nat \ {0} /\ Zone \in Int /\ {MaxHour, MaxRemovals} \subseteq Nat
    /\ Recurring \subseteq [show : STRING, start : Nat, end : Nat, days : SUBSET (0..Week - 1)]
    /\ \A r \in Recurring : r.start < r.end
    /\ \A q, r \in Recurring : q.show = r.show => q = r

VARIABLES
    hour,       \* the time
    recurring,  \* recurring recordings in the list
    singles,    \* the others: [show, start, end, copy]
    coming,     \* instances an expansion has still to add
    asOf,       \* history: the hour of the last expansion, -1 if the list changed since
    removals    \* recordings deleted so far

expansionVars == <<hour, recurring, singles, coming, asOf, removals>>

-----------------------------------------------------------------------------
(* expand_recurring_recordings.                                            *)

At(day, time) == day * Day + (time % Day)

\* Mutant: an end past midnight is not moved to the next day.
EndSameDay(r, day) == At(day, r.end)

InstanceEnd(r, day) ==
    LET end == At(day, r.end) IN IF end <= At(day, r.start) THEN end + Day ELSE end

\* Mutant: the recurring recording's own start is looked for.
StoredAtOwnStart(r, day) == \E s \in singles : s.show = r.show /\ s.start = r.start

AlreadyStored(r, day) == \E s \in singles : s.show = r.show /\ s.start = At(day, r.start)

Instances ==
    LET today == hour \div Day
        days(r) == {day \in today..today + Week - 1 :
                        /\ day % Week \in r.days
                        /\ InstanceEnd(r, day) >= hour
                        /\ ~AlreadyStored(r, day)}
    IN  UNION {{[show |-> r.show, start |-> At(day, r.start), end |-> InstanceEnd(r, day)]
                    : day \in days(r)} : r \in recurring}

-----------------------------------------------------------------------------
ScheduleRecurring(r) ==
    /\ r \notin recurring
    /\ recurring' = recurring \cup {r}
    /\ asOf' = -1
    /\ UNCHANGED <<hour, singles, coming, removals>>

Delete ==
    /\ removals < MaxRemovals
    /\ removals' = removals + 1
    /\ \/ \E r \in recurring : recurring' = recurring \ {r} /\ UNCHANGED singles
       \/ \E s \in singles : singles' = singles \ {s} /\ UNCHANGED recurring
    /\ asOf' = -1
    /\ UNCHANGED <<hour, coming>>

\* The timer's tick: the answer is computed from the list sent.
Expand ==
    /\ coming = {} /\ asOf # hour
    /\ coming' = Instances
    /\ asOf' = hour
    /\ UNCHANGED <<hour, recurring, singles, removals>>

\* DateTime.parse takes the core's UTC for local time, so that _addRecording
\* stores it Zone hours early.
AddInstance(i) ==
    /\ i \in coming
    /\ LET start == i.start - Zone
           same == {s \in singles : s.show = i.show /\ s.start = start}
       IN  singles' = singles \cup {[show |-> i.show, start |-> start, end |-> i.end - Zone,
                                     copy |-> Cardinality(same)]}
    /\ coming' = coming \ {i}
    /\ UNCHANGED <<hour, recurring, asOf, removals>>

TimePasses ==
    /\ coming = {} /\ hour < MaxHour
    /\ hour' = hour + 1
    /\ UNCHANGED <<recurring, singles, coming, asOf, removals>>

\* The application ends in the middle of an expansion and starts again.
Restart ==
    /\ coming # {}
    /\ coming' = {} /\ asOf' = -1
    /\ UNCHANGED <<hour, recurring, singles, removals>>

ExpansionInit ==
    /\ hour = 0 /\ recurring = {} /\ singles = {}
    /\ coming = {} /\ asOf = -1 /\ removals = 0

ExpansionNext ==
    \/ \E r \in Recurring : ScheduleRecurring(r)
    \/ Delete \/ Expand \/ TimePasses \/ Restart
    \/ \E i \in coming : AddInstance(i)

ExpansionSpec == ExpansionInit /\ [][ExpansionNext]_expansionVars

-----------------------------------------------------------------------------
\* "Instances ... that already exist as non-recurring recordings are skipped"
\* (scheduling.rs): whatever expansions, deletions and restarts come after one
\* another, no broadcast is scheduled twice.
OncePerSlot == \A s \in singles : s.copy = 0

\* An expansion misses nothing: the broadcasts that begin in the week from
\* today on and are not over, each the recurring recording moved by whole days,
\* are scheduled from their start to their end, past midnight too.
WeekIsScheduled ==
    coming = {} /\ asOf = hour =>
        \A r \in recurring, k \in -MaxHour..MaxHour + Week :
            LET start == r.start + k * Day
                day == start \div Day
            IN  /\ day \in hour \div Day..hour \div Day + Week - 1
                /\ day % Week \in r.days
                /\ r.end + k * Day >= hour
                => \E s \in singles : /\ s.show = r.show
                                      /\ s.start = start /\ s.end = r.end + k * Day

=============================================================================
