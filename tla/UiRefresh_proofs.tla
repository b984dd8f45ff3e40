---------------------------- MODULE UiRefresh_proofs ----------------------------
(***************************************************************************)
(* Proof that a provider that shows old rows has a reload or a notice      *)
(* coming, for any number of threads and any domains, provided the bulk    *)
(* refresh invalidates every provider that is refreshed by invalidation.   *)
(***************************************************************************)
EXTENDS UiRefresh, ChangeEvents_proofs

BulkReachesAll == Invalidated \subseteq OnBulk

\* A load that has become old was read while, or before, the screen became old.
OldLoadOldScreen ==
    \A d \in Invalidated : load[d] = "old" => shown[d] = "old"

\* Types of the whole composition, which need no assumption on the bulk event.
UiTyped ==
    /\ UiTypeOK
    /\ ThreadShape
    /\ FlagHasHolder

UiInv ==
    /\ UiTyped
    /\ OldLoadOldScreen
    /\ StaleHasNotice

LEMMA InvIsShaped == UiTyped => Shaped
  BY DEF UiTyped, UiTypeOK, Shaped

LEMMA InitUiInv == UiInit => UiInv
  <1> SUFFICES ASSUME UiInit PROVE UiInv
    OBVIOUS
  <1>1. Shaped /\ FlagHasHolder
    BY InitShaped, InitFlagHasHolder DEF UiInit
  <1>2. fetch \in [Refetched -> [asked : Nat, fresh : Nat, old : Nat]]
    BY DEF UiInit, NoFetch
  <1>3. Invalidated \subseteq Domains
    BY DEF Invalidated
  <1>4. QED
    BY <1>1, <1>2, <1>3
    DEF UiInit, UiInv, UiTyped, UiTypeOK, Shaped, OldLoadOldScreen, StaleHasNotice

-----------------------------------------------------------------------------
\* The core's steps in this composition are steps of ChangeEvents.
LEMMA CoreSteps ==
  ASSUME NEW t \in Threads, CoreCommit(t) \/ CoreQuiet(t)
  PROVE  (Begin(t) \/ Advance(t)) /\ UNCHANGED pending
  <1>1. CASE CoreCommit(t)
    BY <1>1 DEF CoreCommit, GrowOld, Begin, Advance
  <1>2. CASE CoreQuiet(t)
    BY <1>2 DEF CoreQuiet, uiVars, Begin, Advance
  <1>3. QED
    BY <1>1, <1>2

LEMMA OutOnlyGrows ==
  ASSUME NEW t \in Threads, Begin(t) \/ Advance(t)
  PROVE  \/ out' = out
         \/ EmitSend(t) /\ out' = Append(out, Head(toEmit[t]))
  BY DEF Begin, Advance, Write, SyncBegin, SyncCommit, SyncRollback, BatchBegin,
         BatchEnd, EmitDropped, EmitAllowed, EmitSend

\* A notice under way stays under way while the core moves: it passes from the
\* thread that owes it, or from the holder of the flag, to the stream.
LEMMA CoreKeepsNotice ==
  ASSUME Shaped, FlagHasHolder, NEW t \in Threads, Begin(t) \/ Advance(t),
         UNCHANGED pending, NEW d \in Domains, NoticeUnderWay(d)
  PROVE  NoticeUnderWay(d)'
  <1>1. CASE d \in pending
    BY <1>1 DEF NoticeUnderWay
  <1>2. out \in Seq(Events) /\ toEmit[t] \in Seq(Events)
    BY DEF Shaped, TypeOK
  <1>3. ASSUME NEW i \in 1..Len(out), d \in Covers(out[i]) PROVE NoticeUnderWay(d)'
    <2>1. i \in 1..Len(out') /\ out'[i] = out[i]
      <3>1. \E e : out' = out \/ out' = Append(out, e)
        BY OutOnlyGrows
      <3>2. QED
        BY <1>2, <3>1
    <2>2. QED
      BY <1>3, <2>1 DEF NoticeUnderWay
  <1>4. ASSUME NEW u \in Threads, WillCover(u, d) PROVE NoticeUnderWay(d)'
    <2>1. CASE u # t
      BY <1>4, <2>1, OnlyOneMoves, OthersKeepCovering DEF NoticeUnderWay
    <2>2. CASE EmitSend(t) /\ d \in Covers(Head(toEmit[t]))
      <3>1. Len(out) + 1 \in 1..Len(out') /\ out'[Len(out) + 1] = Head(toEmit[t])
        BY <1>2, <2>2 DEF EmitSend
      <3>2. QED
        BY <2>2, <3>1 DEF NoticeUnderWay
    <2>3. CASE u = t /\ ~(EmitSend(t) /\ d \in Covers(Head(toEmit[t])))
      BY <1>4, <2>3, MoverKeepsCovering DEF NoticeUnderWay
    <2>4. QED
      BY <2>1, <2>2, <2>3
  <1>5. QED
    BY <1>1, <1>3, <1>4 DEF NoticeUnderWay

\* Taking an event off the stream moves the notice to pending, unless the event
\* is the bulk one.
LEMMA EventKeepsNotice ==
  ASSUME Shaped, EventArrives, NEW d \in Domains, NoticeUnderWay(d)
  PROVE  NoticeUnderWay(d)'
  <1>1. out \in Seq(Events) /\ out # << >> /\ out' = Tail(out)
    BY DEF EventArrives, TakeEvent, Shaped, TypeOK
  <1>2. CASE d \in pending
    BY <1>2 DEF EventArrives, NoticeUnderWay
  <1>3. ASSUME NEW u \in Threads, WillCover(u, d) PROVE NoticeUnderWay(d)'
    BY <1>3 DEF EventArrives, TakeEvent, WillCover, NoticeUnderWay
  <1>4. ASSUME NEW i \in 1..Len(out), d \in Covers(out[i]) PROVE NoticeUnderWay(d)'
    <2>1. CASE i = 1
      BY <1>1, <1>4, <2>1, TailKeeps DEF EventArrives, Covers, NoticeUnderWay
    <2>2. CASE i # 1
      <3>1. i - 1 \in 1..Len(out') /\ out'[i - 1] = out[i]
        BY <1>1, <2>2, TailKeeps
      <3>2. QED
        BY <1>4, <3>1 DEF NoticeUnderWay
    <2>3. QED
      BY <2>1, <2>2
  <1>5. QED
    BY <1>2, <1>3, <1>4 DEF NoticeUnderWay

-----------------------------------------------------------------------------
\* The core's part of the invariant: taking an event off the stream, or a step
\* of the isolate, leaves the threads as they were.
LEMMA CorePart ==
  ASSUME UiTyped, UiNext
  PROVE  Shaped' /\ FlagHasHolder'
  <1> Shaped /\ FlagHasHolder
    BY InvIsShaped DEF UiTyped
  <1>1. ASSUME NEW t \in Threads, CoreCommit(t) \/ CoreQuiet(t)
        PROVE  Shaped' /\ FlagHasHolder'
    BY <1>1, CoreSteps, NextShaped, NextFlagHasHolder DEF Next
  <1>2. CASE TakeEvent
    <2>1. out' \in Seq(Events)
      BY <1>2, TailKeeps DEF TakeEvent, Shaped, TypeOK
    <2>2. QED
      BY <1>2, <2>1 DEF TakeEvent, Shaped, TypeOK, ThreadShape, FlagHasHolder
  <1>3. CASE UNCHANGED eventVars
    BY <1>3, NextShaped, NextFlagHasHolder
  <1>4. QED
    BY <1>1, <1>2, <1>3
    DEF UiNext, Isolate, EventArrives, BulkArrives, TimerFires,
        LoadReads, LoadEnds, FetchReads, FetchEnds

\* The isolate's part: what it holds keeps its type.
LEMMA UiTypesKept ==
  ASSUME UiTyped, UiNext
  PROVE  UiTypeOK'
  <1>1. TypeOK'
    BY CorePart DEF Shaped
  <1>2. UiTypeOK
    BY DEF UiTyped
  <1>3. ASSUME NEW D, GrowOld(D) PROVE UiTypeOK'
    <2>1. \A d \in Refetched :
             [fetch[d] EXCEPT !.old = @ + fetch[d].fresh, !.fresh = 0]
               \in [asked : Nat, fresh : Nat, old : Nat]
      <3> SUFFICES ASSUME NEW d \in Refetched
                   PROVE  [fetch[d] EXCEPT !.old = @ + fetch[d].fresh, !.fresh = 0]
                            \in [asked : Nat, fresh : Nat, old : Nat]
        OBVIOUS
      <3>1. fetch[d] \in [asked : Nat, fresh : Nat, old : Nat]
        BY <1>2 DEF UiTypeOK
      <3>2. fetch[d].old + fetch[d].fresh \in Nat
        BY <3>1
      <3>3. QED
        BY <3>1, <3>2
    <2> fetch' \in [Refetched -> [asked : Nat, fresh : Nat, old : Nat]]
      BY <1>2, <1>3, <2>1 DEF UiTypeOK, GrowOld
    <2>2. QED
      BY <1>1, <1>2, <1>3 DEF UiTypeOK, GrowOld
  <1>4. ASSUME NEW D, Refresh(D), pending' \subseteq Domains, UNCHANGED shown
        PROVE  UiTypeOK'
    <2>1. fetch' \in [Refetched -> [asked : Nat, fresh : Nat, old : Nat]]
      BY <1>2, <1>4 DEF UiTypeOK, Refresh
    <2>2. QED
      BY <1>1, <1>2, <1>4, <2>1 DEF UiTypeOK, Refresh
  <1>5. ASSUME NEW t \in Threads, CoreCommit(t) PROVE UiTypeOK'
    BY <1>3, <1>5 DEF CoreCommit
  <1>6. ASSUME NEW t \in Threads, CoreQuiet(t) PROVE UiTypeOK'
    BY <1>1, <1>2, <1>6 DEF CoreQuiet, uiVars, UiTypeOK
  <1>7. CASE EventArrives
    <2>1. Head(out) \in Events
      BY <1>2, <1>7, TailKeeps DEF EventArrives, TakeEvent, UiTypeOK, TypeOK
    <2>2. QED
      BY <1>1, <1>2, <1>7, <2>1 DEF EventArrives, TakeEvent, UiTypeOK, Events
  <1>8. CASE BulkArrives
    BY <1>4, <1>8 DEF BulkArrives, TakeEvent
  <1>9. CASE TimerFires
    BY <1>4, <1>9 DEF TimerFires
  <1>10. ASSUME NEW d \in Invalidated, LoadReads(d) \/ LoadEnds(d) PROVE UiTypeOK'
    BY <1>1, <1>2, <1>10 DEF LoadReads, LoadEnds, UiTypeOK
  <1>11. ASSUME NEW d \in Refetched, FetchReads(d) \/ FetchEnds(d) PROVE UiTypeOK'
    <2>1. fetch' \in [Refetched -> [asked : Nat, fresh : Nat, old : Nat]]
      BY <1>2, <1>11 DEF FetchReads, FetchEnds, UiTypeOK
    <2>2. QED
      BY <1>1, <1>2, <1>11, <2>1 DEF FetchReads, FetchEnds, UiTypeOK
  <1>12. QED
    BY <1>5, <1>6, <1>7, <1>8, <1>9, <1>10, <1>11 DEF UiNext, Isolate

-----------------------------------------------------------------------------
\* What is on screen and what is loaded of an invalidated domain d before and
\* after: nothing happened, or it is not old without a reload any more.
Quiet(d) == UNCHANGED <<shown[d], load[d]>>
Cured(d) == ~(shown'[d] = "old" /\ load'[d] \in {"none", "old"})

LEMMA CommitGivesNotice ==
  ASSUME UiInv, NEW t \in Threads, CoreCommit(t), NEW d \in Invalidated
  PROVE  Quiet(d) \/ WillCover(t, d)'
  <1> Shaped /\ d \in Domains
    BY InvIsShaped DEF UiInv, Invalidated
  <1>1. ASSUME NEW D, GrowOld(D), d \notin D PROVE Quiet(d)
    BY <1>1 DEF GrowOld, Quiet, UiInv, UiTyped, UiTypeOK
  <1>2. ASSUME NEW e \in Domains, Write(t, e), GrowOld({e}) PROVE Quiet(d) \/ WillCover(t, d)'
    <2>1. CASE d = e
      BY <1>2, <2>1, WriterCovers
    <2>2. CASE d # e
      BY <1>1, <1>2, <2>2
    <2>3. QED
      BY <2>1, <2>2
  <1>3. ASSUME SyncCommit(t), GrowOld(SyncDomains) PROVE Quiet(d) \/ WillCover(t, d)'
    <2>1. CASE d \in SyncDomains
      BY <1>3, <2>1, SyncCovers
    <2>2. CASE d \notin SyncDomains
      BY <1>1, <1>3, <2>2
    <2>3. QED
      BY <2>1, <2>2
  <1>4. QED
    BY <1>2, <1>3 DEF CoreCommit

LEMMA OldLoadKept ==
  ASSUME UiInv, UiNext
  PROVE  OldLoadOldScreen'
  <1> UiTypeOK /\ OldLoadOldScreen
    BY DEF UiInv, UiTyped
  <1>1. ASSUME NEW D, GrowOld(D) PROVE OldLoadOldScreen'
    BY <1>1 DEF GrowOld, OldLoadOldScreen, UiTypeOK, Invalidated
  <1>2. ASSUME NEW D, Refresh(D), UNCHANGED shown PROVE OldLoadOldScreen'
    BY <1>2 DEF Refresh, OldLoadOldScreen, UiTypeOK
  <1>3. ASSUME UNCHANGED <<shown, load>> PROVE OldLoadOldScreen'
    BY <1>3 DEF OldLoadOldScreen
  <1>4. ASSUME NEW t \in Threads, CoreCommit(t) \/ CoreQuiet(t) PROVE OldLoadOldScreen'
    BY <1>1, <1>3, <1>4 DEF CoreCommit, CoreQuiet, uiVars
  <1>5. CASE Isolate
    BY <1>2, <1>3, <1>5 DEF Isolate, EventArrives, BulkArrives, TimerFires, TakeEvent
  <1>6. ASSUME NEW d \in Invalidated, LoadReads(d) \/ LoadEnds(d) PROVE OldLoadOldScreen'
    BY <1>6 DEF LoadReads, LoadEnds, OldLoadOldScreen, UiTypeOK, Invalidated
  <1>7. ASSUME NEW d \in Refetched, FetchReads(d) \/ FetchEnds(d) PROVE OldLoadOldScreen'
    BY <1>7 DEF FetchReads, FetchEnds, OldLoadOldScreen, UiTypeOK, Invalidated
  <1>8. QED
    BY <1>4, <1>5, <1>6, <1>7 DEF UiNext

\* Every step leaves an invalidated domain cured, or a notice of it under way.
LEMMA StaleKept ==
  ASSUME UiInv, UiNext, BulkReachesAll, NEW d \in Invalidated
  PROVE  Cured(d) \/ NoticeUnderWay(d)'
  <1> Shaped /\ FlagHasHolder /\ UiTypeOK /\ d \in Domains
    BY InvIsShaped DEF UiInv, UiTyped, Invalidated
  <1>1. ASSUME Quiet(d), NoticeUnderWay(d) => NoticeUnderWay(d)'
        PROVE  Cured(d) \/ NoticeUnderWay(d)'
    BY <1>1 DEF Quiet, Cured, UiInv, StaleHasNotice
  <1>2. ASSUME NEW t \in Threads, CoreCommit(t) \/ CoreQuiet(t)
        PROVE  Cured(d) \/ NoticeUnderWay(d)'
    <2>1. NoticeUnderWay(d) => NoticeUnderWay(d)'
      BY <1>2, CoreSteps, CoreKeepsNotice
    <2>2. Quiet(d) \/ WillCover(t, d)'
      BY <1>2, CommitGivesNotice DEF CoreQuiet, uiVars, Quiet
    <2>3. QED
      BY <1>1, <2>1, <2>2 DEF NoticeUnderWay
  <1>3. CASE EventArrives
    BY <1>1, <1>3, EventKeepsNotice DEF EventArrives, TakeEvent, Quiet
  <1>4. CASE BulkArrives
    BY <1>4 DEF BulkArrives, Refresh, BulkReachesAll, Cured
  <1>5. CASE TimerFires
    <2>1. CASE d \in pending
      BY <1>5, <2>1 DEF TimerFires, Refresh, Cured
    <2>2. CASE d \notin pending
      <3>1. Quiet(d)
        BY <1>5, <2>2 DEF TimerFires, Refresh, Quiet, UiTypeOK
      <3>2. NoticeUnderWay(d) => NoticeUnderWay(d)'
        BY <1>5, <2>2 DEF TimerFires, eventVars, NoticeUnderWay, WillCover
      <3>3. QED
        BY <1>1, <3>1, <3>2
    <2>3. QED
      BY <2>1, <2>2
  <1>6. ASSUME UNCHANGED <<eventVars, pending>>
        PROVE  NoticeUnderWay(d) => NoticeUnderWay(d)'
    BY <1>6 DEF eventVars, NoticeUnderWay, WillCover
  <1>7. ASSUME NEW e \in Invalidated, LoadReads(e) \/ LoadEnds(e)
        PROVE  Cured(d) \/ NoticeUnderWay(d)'
    <2>1. CASE e # d
      <3>1. Quiet(d)
        BY <1>7, <2>1 DEF LoadReads, LoadEnds, Quiet, UiTypeOK
      <3>2. QED
        BY <1>1, <1>6, <1>7, <3>1 DEF LoadReads, LoadEnds
    <2>2. CASE e = d /\ LoadReads(d)
      BY <2>2 DEF LoadReads, Cured, UiTypeOK
    <2>3. CASE e = d /\ LoadEnds(d) /\ load[d] = "fresh"
      BY <2>3 DEF LoadEnds, Cured, UiTypeOK
    <2>4. CASE e = d /\ LoadEnds(d) /\ load[d] = "old"
      <3>1. NoticeUnderWay(d)
        BY <2>4 DEF UiInv, UiTyped, OldLoadOldScreen, StaleHasNotice
      <3>2. QED
        BY <1>6, <2>4, <3>1 DEF LoadEnds
    <2>5. QED
      BY <1>7, <2>1, <2>2, <2>3, <2>4 DEF LoadEnds
  <1>8. ASSUME NEW e \in Refetched, FetchReads(e) \/ FetchEnds(e)
        PROVE  Cured(d) \/ NoticeUnderWay(d)'
    <2>1. Quiet(d)
      BY <1>8 DEF FetchReads, FetchEnds, Quiet, UiTypeOK, Invalidated
    <2>2. QED
      BY <1>1, <1>6, <1>8, <2>1 DEF FetchReads, FetchEnds
  <1>9. QED
    BY <1>2, <1>3, <1>4, <1>5, <1>7, <1>8 DEF UiNext, Isolate

LEMMA NextUiTyped == UiTyped /\ [UiNext]_vars => UiTyped'
  <1> SUFFICES ASSUME UiTyped, [UiNext]_vars PROVE UiTyped'
    OBVIOUS
  <1>1. CASE UiNext
    BY <1>1, CorePart, UiTypesKept DEF UiTyped, Shaped
  <1>2. CASE UNCHANGED vars
    BY <1>2
    DEF vars, eventVars, uiVars, UiTyped, UiTypeOK, TypeOK, ThreadShape, FlagHasHolder
  <1>3. QED
    BY <1>1, <1>2

\* The composition of core and isolate is well typed: a provider holds fresh or
\* old rows, and a notifier counts the fetches it has under way (event_bus_provider.dart
\* and event_driven_invalidator.dart on top of services/mod.rs).
THEOREM UiTypeCorrect == UiSpec => []UiTypeOK
  <1>1. UiInit => UiTyped
    BY InitUiInv DEF UiInv
  <1>2. UiTyped => UiTypeOK
    BY DEF UiTyped
  <1>3. QED
    BY <1>1, <1>2, NextUiTyped, PTL DEF UiSpec

LEMMA NextUiInv == BulkReachesAll /\ UiInv /\ [UiNext]_vars => UiInv'
  <1> SUFFICES ASSUME BulkReachesAll, UiInv, [UiNext]_vars PROVE UiInv'
    OBVIOUS
  <1>1. CASE UiNext
    <2>1. StaleHasNotice'
      BY <1>1, StaleKept DEF Cured, StaleHasNotice
    <2>2. QED
      BY <1>1, <2>1, NextUiTyped, OldLoadKept DEF UiInv
  <1>2. CASE UNCHANGED vars
    BY <1>2
    DEF vars, eventVars, uiVars, UiInv, UiTyped, UiTypeOK, TypeOK, ThreadShape, FlagHasHolder,
        OldLoadOldScreen, StaleHasNotice, NoticeUnderWay, WillCover
  <1>3. QED
    BY <1>1, <1>2

\* Debouncing, deduplication, the bulk event that throws held-back events away
\* and the core's batches lose no notice together: an invalidated provider that
\* shows old rows has a reload or a notice coming, if the bulk refresh reaches
\* it (event_driven_invalidator.dart, services/mod.rs).
THEOREM NoScreenForgotten ==
  ASSUME BulkReachesAll
  PROVE  UiSpec => []StaleHasNotice
  <1>1. UiInv /\ [UiNext]_vars => UiInv'
    BY NextUiInv
  <1>2. UiInv => StaleHasNotice
    BY DEF UiInv, UiTyped
  <1>3. QED
    BY <1>1, <1>2, InitUiInv, PTL DEF UiSpec
=============================================================================
