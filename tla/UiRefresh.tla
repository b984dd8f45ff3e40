------------------------------- MODULE UiRefresh -------------------------------
(***************************************************************************)
(* From a committed change to a repainted screen on the native platforms:  *)
(* the core of ChangeEvents, its event stream, and the Dart isolate that   *)
(* turns events into refreshes (event_bus_provider.dart,                   *)
(* event_driven_invalidator.dart) and keeps what the screens show.         *)
(*                                                                         *)
(* A provider is refreshed in one of two ways.  Most are invalidated:      *)
(* Riverpod drops a load under way and starts over.  The VOD and EPG       *)
(* notifiers are asked to fetch again: each call runs to its end and the   *)
(* last answer to arrive is kept, whichever call it answers.               *)
(***************************************************************************)
EXTENDS ChangeEvents, FiniteSets

CONSTANTS
    OnBulk,     \* the domains _invalidateAllDataProviders refreshes
    Refetched   \* the domains refreshed by a fetch rather than invalidation

ASSUME UiAssumption == OnBulk \subseteq Domains /\ Refetched \subseteq Domains

VARIABLES
    pending,  \* pendingEvents; the 50 ms timer is armed while it is not empty
    shown,    \* what the UI holds of each domain, against the database
    load,     \* the load under way of an invalidated provider
    fetch     \* how many fetches under way are yet to read, hold fresh or old rows

uiVars == <<pending, shown, load, fetch>>
vars == <<eventVars, uiVars>>

Invalidated == Domains \ Refetched
NoFetch == [asked |-> 0, fresh |-> 0, old |-> 0]

UiTypeOK ==
    /\ TypeOK
    /\ pending \subseteq Domains
    /\ shown \in [Domains -> {"fresh", "old"}]
    /\ load \in [Invalidated -> {"none", "invalid", "fresh", "old"}]
    /\ fetch \in [Refetched -> [asked : Nat, fresh : Nat, old : Nat]]

UiInit ==
    /\ Init
    /\ pending = {}
    /\ shown = [d \in Domains |-> "fresh"]
    /\ load = [d \in Invalidated |-> "none"]
    /\ fetch = [d \in Refetched |-> NoFetch]

-----------------------------------------------------------------------------
\* A commit of the domains D makes old whatever was read of them before.
GrowOld(D) ==
    /\ shown' = [d \in Domains |-> IF d \in D THEN "old" ELSE shown[d]]
    /\ load' = [d \in Invalidated |->
                  IF d \in D /\ load[d] = "fresh" THEN "old" ELSE load[d]]
    /\ fetch' = [d \in Refetched |->
                  IF d \in D THEN [fetch[d] EXCEPT !.old = @ + fetch[d].fresh, !.fresh = 0]
                             ELSE fetch[d]]
    /\ UNCHANGED pending

CoreCommit(t) ==
    \/ \E d \in Domains : Write(t, d) /\ GrowOld({d})
    \/ SyncCommit(t) /\ GrowOld(SyncDomains)

CoreQuiet(t) ==
    /\ \/ SyncBegin(t)
       \/ SyncRollback(t)
       \/ BatchBegin(t)
       \/ BatchEnd(t)
       \/ EmitDropped(t)
       \/ EmitAllowed(t)
       \/ EmitSend(t)
    /\ UNCHANGED uiVars

-----------------------------------------------------------------------------
\* Mutant: a load under way is thought to be good enough.
RefreshUnlessLoading(D) ==
    /\ load' = [d \in Invalidated |->
                  IF d \in D /\ load[d] = "none" THEN "invalid" ELSE load[d]]
    /\ fetch' = [d \in Refetched |->
                  IF d \in D THEN [fetch[d] EXCEPT !.asked = @ + 1] ELSE fetch[d]]

\* _handleEvent for every domain of D: invalidate, or start one more fetch.
Refresh(D) ==
    /\ load' = [d \in Invalidated |-> IF d \in D THEN "invalid" ELSE load[d]]
    /\ fetch' = [d \in Refetched |->
                  IF d \in D THEN [fetch[d] EXCEPT !.asked = @ + 1] ELSE fetch[d]]

TakeEvent ==
    /\ out # << >>
    /\ out' = Tail(out)
    /\ UNCHANGED <<batching, pc, toEmit, inBatch, unannounced, commits, shown>>

\* An ordinary event is held back and the timer starts anew.
EventArrives ==
    /\ TakeEvent
    /\ Head(out) # BulkDataRefresh
    /\ pending' = pending \cup {Head(out)}
    /\ UNCHANGED <<load, fetch>>

\* Mutant: the bulk event is held back like any other.
BulkHeldBack ==
    /\ TakeEvent
    /\ Head(out) = BulkDataRefresh
    /\ pending' = pending \cup {BulkDataRefresh}
    /\ UNCHANGED <<load, fetch>>

\* Mutant: the bulk event only cancels the timer.
BulkOnlyCancels ==
    /\ TakeEvent
    /\ Head(out) = BulkDataRefresh
    /\ pending' = {}
    /\ UNCHANGED <<load, fetch>>

\* A bulk event cancels the timer, forgets what was held back and refreshes now.
BulkArrives ==
    /\ TakeEvent
    /\ Head(out) = BulkDataRefresh
    /\ pending' = {}
    /\ Refresh(OnBulk)

\* _processPendingEvents: equal events were held back once.
TimerFires ==
    /\ pending # {}
    /\ Refresh(pending)
    /\ pending' = {}
    /\ UNCHANGED <<eventVars, shown>>

\* The query of an invalidated provider reads the database ...
LoadReads(d) ==
    /\ load[d] = "invalid"
    /\ load' = [load EXCEPT ![d] = "fresh"]
    /\ UNCHANGED <<eventVars, pending, shown, fetch>>

\* ... and its answer reaches the provider.
LoadEnds(d) ==
    /\ load[d] \in {"fresh", "old"}
    /\ shown' = [shown EXCEPT ![d] = load[d]]
    /\ load' = [load EXCEPT ![d] = "none"]
    /\ UNCHANGED <<eventVars, pending, fetch>>

FetchReads(d) ==
    /\ fetch[d].asked > 0
    /\ fetch' = [fetch EXCEPT ![d].asked = @ - 1, ![d].fresh = @ + 1]
    /\ UNCHANGED <<eventVars, pending, shown, load>>

\* Answers of concurrent calls arrive in any order.
FetchEnds(d) ==
    \E age \in {"fresh", "old"} :
        /\ fetch[d][age] > 0
        /\ fetch' = [fetch EXCEPT ![d][age] = @ - 1]
        /\ shown' = [shown EXCEPT ![d] = age]
        /\ UNCHANGED <<eventVars, pending, load>>

Isolate ==
    \/ EventArrives
    \/ BulkArrives
    \/ TimerFires

UiNext ==
    \/ \E t \in Threads : CoreCommit(t) \/ CoreQuiet(t)
    \/ Isolate
    \/ \E d \in Invalidated : LoadReads(d) \/ LoadEnds(d)
    \/ \E d \in Refetched : FetchReads(d) \/ FetchEnds(d)

\* Threads and the event loop run; queries are answered.  The last commit is
\* followed by silence, so the timer is not restarted for ever.
UiFairness ==
    /\ \A t \in Threads :
          WF_vars((SyncCommit(t) /\ GrowOld(SyncDomains)) \/ (pc[t] # "idle" /\ CoreQuiet(t)))
    /\ WF_vars(EventArrives \/ BulkArrives)
    /\ WF_vars(TimerFires)
    /\ \A d \in Invalidated : WF_vars(LoadReads(d)) /\ WF_vars(LoadEnds(d))
    /\ \A d \in Refetched : WF_vars(FetchReads(d)) /\ WF_vars(FetchEnds(d))

UiSpec == UiInit /\ [][UiNext]_vars
FairUiSpec == UiSpec /\ UiFairness

-----------------------------------------------------------------------------
\* Word of a change of d is on its way to the provider of d.
NoticeUnderWay(d) ==
    \/ \E t \in Threads : WillCover(t, d)
    \/ \E i \in 1..Len(out) : d \in Covers(out[i])
    \/ d \in pending

\* An invalidated provider that shows, or is about to show, old rows has a
\* reload or a notice coming: debouncing, deduplication, the bulk event that
\* throws held-back events away and the batch flag together lose nothing
\* (event_driven_invalidator.dart, services/mod.rs).
StaleHasNotice ==
    \A d \in Invalidated :
        shown[d] = "old" /\ load[d] \in {"none", "old"} => NoticeUnderWay(d)

\* The same for the domains that are fetched again (VodNotifier).
StaleFetchHasNotice ==
    \A d \in Refetched :
        shown[d] = "old" =>
            NoticeUnderWay(d) \/ fetch[d].asked > 0 \/ fetch[d].fresh > 0

\* What is on screen catches up with the database once changes stop coming.
EventuallyFresh ==
    \A d \in Invalidated : shown[d] = "old" ~> shown[d] = "fresh"
=============================================================================
