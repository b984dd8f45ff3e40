-------------------------- MODULE ChangeEvents_proofs --------------------------
(***************************************************************************)
(* Proofs about the event stream of the core, for any number of threads,   *)
(* any domains and any list of sync events.                                *)
(***************************************************************************)
EXTENDS ChangeEvents, TLAPS

\* Where each kind of thread state can occur.
ThreadShape ==
    \A t \in Threads :
        /\ inBatch[t] => pc[t] \in {"emit", "send"}
        /\ pc[t] = "send" => toEmit[t] # << >>
        /\ pc[t] \in {"idle", "tx", "committed"} => toEmit[t] = << >>

Shaped == TypeOK /\ ThreadShape

LEMMA SyncDomainsAreDomains == SyncDomains \subseteq Domains
  BY EventsAssumption DEF SyncDomains

LEMMA SyncEventsAreEvents == SyncEvents \in Seq(Events)
  BY EventsAssumption DEF Events

\* Taking the head off a queue of events leaves the others in it.
LEMMA TailKeeps ==
  ASSUME NEW q \in Seq(Events), q # << >>
  PROVE  /\ Head(q) \in Events
         /\ Head(q) = q[1]
         /\ Tail(q) \in Seq(Events)
         /\ \A i \in 1..Len(q) : i # 1 => i - 1 \in 1..Len(Tail(q)) /\ Tail(q)[i - 1] = q[i]
  OBVIOUS

LEMMA InitShaped == Init => Shaped
  <1> SUFFICES ASSUME Init PROVE Shaped
    OBVIOUS
  <1>1. << >> \in Seq(Events)
    OBVIOUS
  <1>2. toEmit \in [Threads -> Seq(Events)]
    BY <1>1 DEF Init
  <1>3. commits \in 0..MaxCommits
    BY EventsAssumption DEF Init
  <1>4. QED
    BY <1>1, <1>2, <1>3 DEF Init, Shaped, TypeOK, ThreadShape

LEMMA NextShaped == Shaped /\ [Next]_eventVars => Shaped'
  <1> SUFFICES ASSUME Shaped, [Next]_eventVars PROVE Shaped'
    OBVIOUS
  <1>1. ASSUME NEW t \in Threads, NEW d \in Domains, Write(t, d) PROVE Shaped'
    <2>1. <<d>> \in Seq(Events) /\ <<d>> # << >>
      BY DEF Events
    <2>2. QED
      BY <1>1, <2>1, EventsAssumption DEF Shaped, TypeOK, ThreadShape, Write, Commit
  <1>2. ASSUME NEW t \in Threads, SyncBegin(t) PROVE Shaped'
    BY <1>2 DEF Shaped, TypeOK, ThreadShape, SyncBegin
  <1>3. ASSUME NEW t \in Threads, SyncCommit(t) PROVE Shaped'
    BY <1>3, EventsAssumption, SyncDomainsAreDomains
    DEF Shaped, TypeOK, ThreadShape, SyncCommit, Commit
  <1>4. ASSUME NEW t \in Threads, SyncRollback(t) PROVE Shaped'
    BY <1>4 DEF Shaped, TypeOK, ThreadShape, SyncRollback
  <1>5. ASSUME NEW t \in Threads, BatchBegin(t) PROVE Shaped'
    BY <1>5, SyncEventsAreEvents DEF Shaped, TypeOK, ThreadShape, BatchBegin
  <1>6. ASSUME NEW t \in Threads, BatchEnd(t) PROVE Shaped'
    <2>1. <<BulkDataRefresh>> \in Seq(Events) /\ <<BulkDataRefresh>> # << >>
      BY DEF Events
    <2>2. QED
      BY <1>6, <2>1 DEF Shaped, TypeOK, ThreadShape, BatchEnd
  <1>7. ASSUME NEW t \in Threads, EmitDropped(t) PROVE Shaped'
    <2>1. Tail(toEmit[t]) \in Seq(Events)
      BY <1>7, TailKeeps DEF EmitDropped, Shaped, TypeOK
    <2>2. QED
      BY <1>7, <2>1 DEF Shaped, TypeOK, ThreadShape, EmitDropped, AfterEvent
  <1>8. ASSUME NEW t \in Threads, EmitAllowed(t) PROVE Shaped'
    BY <1>8 DEF Shaped, TypeOK, ThreadShape, EmitAllowed
  <1>9. ASSUME NEW t \in Threads, EmitSend(t) PROVE Shaped'
    <2>1. Tail(toEmit[t]) \in Seq(Events) /\ Head(toEmit[t]) \in Events
      BY <1>9, TailKeeps DEF EmitSend, Shaped, TypeOK, ThreadShape
    <2>2. Append(out, Head(toEmit[t])) \in Seq(Events)
      BY <2>1 DEF Shaped, TypeOK
    <2>3. QED
      BY <1>9, <2>1, <2>2 DEF Shaped, TypeOK, ThreadShape, EmitSend, AfterEvent
  <1>10. CASE UNCHANGED eventVars
    BY <1>10 DEF Shaped, TypeOK, ThreadShape, eventVars
  <1>11. QED
    BY <1>1, <1>2, <1>3, <1>4, <1>5, <1>6, <1>7, <1>8, <1>9, <1>10 DEF Next, Begin, Advance

\* Every variable keeps its type (the state of ServiceContext and its callers).
THEOREM TypeCorrect == Spec => []TypeOK
  <1>1. Shaped => TypeOK
    BY DEF Shaped
  <1>2. QED
    BY <1>1, InitShaped, NextShaped, PTL DEF Spec

-----------------------------------------------------------------------------
LEMMA InitFlagHasHolder == Init => FlagHasHolder
  BY DEF Init, FlagHasHolder

LEMMA NextFlagHasHolder == Shaped /\ FlagHasHolder /\ [Next]_eventVars => FlagHasHolder'
  <1> SUFFICES ASSUME Shaped, FlagHasHolder, [Next]_eventVars PROVE FlagHasHolder'
    OBVIOUS
  <1>1. ASSUME NEW t \in Threads, BatchBegin(t) PROVE FlagHasHolder'
    BY <1>1 DEF Shaped, TypeOK, FlagHasHolder, BatchBegin
  <1>2. ASSUME NEW t \in Threads, BatchEnd(t) PROVE FlagHasHolder'
    BY <1>2 DEF FlagHasHolder, BatchEnd
  <1>3. ASSUME UNCHANGED <<batching, inBatch>> PROVE FlagHasHolder'
    BY <1>3 DEF FlagHasHolder
  <1>4. ASSUME NEW t \in Threads, NEW d \in Domains, Write(t, d) PROVE FlagHasHolder'
    BY <1>3, <1>4 DEF Write
  <1>5. ASSUME NEW t \in Threads,
               SyncBegin(t) \/ SyncCommit(t) \/ SyncRollback(t)
                 \/ EmitDropped(t) \/ EmitAllowed(t) \/ EmitSend(t)
        PROVE  FlagHasHolder'
    BY <1>3, <1>5
    DEF SyncBegin, SyncCommit, SyncRollback, EmitDropped, EmitAllowed, EmitSend
  <1>6. CASE UNCHANGED eventVars
    BY <1>3, <1>6 DEF eventVars
  <1>7. QED
    BY <1>1, <1>2, <1>4, <1>5, <1>6 DEF Next, Begin, Advance

\* The flag is set only while some thread is inside batch_events, so the event
\* stream is never silenced for good (BatchGuard, emit).
THEOREM FlagIsHeld == Spec => []FlagHasHolder
  BY InitFlagHasHolder, NextFlagHasHolder, InitShaped, NextShaped, PTL DEF Spec

\* What thread u is bound to announce it stays bound to, in a step of others.
LEMMA OthersKeepCovering ==
  ASSUME NEW u \in Threads, NEW d \in Domains, WillCover(u, d),
         inBatch'[u] = inBatch[u], toEmit'[u] = toEmit[u], pc'[u] = pc[u]
  PROVE  WillCover(u, d)'
  BY DEF WillCover

\* A step of thread t leaves the others as they were.
LEMMA OnlyOneMoves ==
  ASSUME Shaped, NEW t \in Threads, Begin(t) \/ Advance(t)
  PROVE  \A u \in Threads \ {t} :
           inBatch'[u] = inBatch[u] /\ toEmit'[u] = toEmit[u] /\ pc'[u] = pc[u]
  <1>1. ASSUME NEW d \in Domains, Write(t, d)
        PROVE  \A u \in Threads \ {t} :
                 inBatch'[u] = inBatch[u] /\ toEmit'[u] = toEmit[u] /\ pc'[u] = pc[u]
    BY <1>1 DEF Write, Shaped, TypeOK
  <1>2. CASE SyncBegin(t) \/ SyncCommit(t) \/ SyncRollback(t) \/ BatchBegin(t) \/ BatchEnd(t)
    BY <1>2 DEF SyncBegin, SyncCommit, SyncRollback, BatchBegin, BatchEnd, Shaped, TypeOK
  <1>3. CASE EmitDropped(t) \/ EmitAllowed(t) \/ EmitSend(t)
    BY <1>3 DEF EmitDropped, EmitAllowed, EmitSend, AfterEvent, Shaped, TypeOK
  <1>4. QED
    BY <1>1, <1>2, <1>3 DEF Begin, Advance

\* The thread that moves announces d now, stays bound to announce it, or drops
\* its event because another holds the flag, and with it the duty.
LEMMA MoverKeepsCovering ==
  ASSUME Shaped, FlagHasHolder, NEW t \in Threads, Begin(t) \/ Advance(t),
         NEW d \in Domains, WillCover(t, d),
         ~(EmitSend(t) /\ d \in Covers(Head(toEmit[t])))
  PROVE  \E u \in Threads : WillCover(u, d)'
  <1>1. ASSUME NEW e \in Domains, Write(t, e) PROVE FALSE
    BY <1>1 DEF Write, WillCover, Shaped, TypeOK, ThreadShape
  <1>2. CASE SyncBegin(t) \/ SyncCommit(t) \/ SyncRollback(t)
    BY <1>2 DEF SyncBegin, SyncCommit, SyncRollback, WillCover, Shaped, TypeOK, ThreadShape
  <1>3. CASE BatchBegin(t)
    BY <1>3 DEF BatchBegin, WillCover, Shaped, TypeOK
  <1>4. CASE BatchEnd(t)
    <2>1. toEmit'[t] = <<BulkDataRefresh>>
      BY <1>4 DEF BatchEnd, Shaped, TypeOK
    <2>2. 1 \in 1..Len(toEmit'[t]) /\ d \in Covers(toEmit'[t][1])
      BY <2>1 DEF Covers
    <2>3. QED
      BY <2>2 DEF WillCover
  <1>5. CASE EmitDropped(t)
    <2>1. PICK u \in Threads : inBatch[u]
      BY <1>5 DEF EmitDropped, FlagHasHolder
    <2>2. inBatch'[u]
      BY <1>5, <2>1 DEF EmitDropped
    <2>3. QED
      BY <2>2 DEF WillCover
  <1>6. CASE EmitAllowed(t)
    BY <1>6 DEF EmitAllowed, WillCover, Shaped, TypeOK
  <1>7. CASE EmitSend(t)
    <2>1. toEmit[t] \in Seq(Events) /\ toEmit[t] # << >> /\ toEmit'[t] = Tail(toEmit[t])
      BY <1>7 DEF EmitSend, AfterEvent, Shaped, TypeOK, ThreadShape
    <2>2. d \notin Covers(toEmit[t][1])
      BY <1>7, <2>1, TailKeeps DEF EmitSend
    <2>3. CASE inBatch[t]
      BY <1>7, <2>3 DEF EmitSend, WillCover
    <2>4. CASE ~inBatch[t]
      <3>1. PICK i \in 1..Len(toEmit[t]) : d \in Covers(toEmit[t][i])
        BY <1>7, <2>4 DEF WillCover, EmitSend
      <3>2. i - 1 \in 1..Len(toEmit'[t]) /\ d \in Covers(toEmit'[t][i - 1])
        BY <2>1, <2>2, <3>1, TailKeeps
      <3>3. QED
        BY <3>2 DEF WillCover
    <2>5. QED
      BY <2>3, <2>4
  <1>8. QED
    BY <1>1, <1>2, <1>3, <1>4, <1>5, <1>6, <1>7 DEF Begin, Advance

\* A thread that commits a domain is then bound to announce it.
LEMMA WriterCovers ==
  ASSUME Shaped, NEW t \in Threads, NEW d \in Domains, Write(t, d)
  PROVE  WillCover(t, d)'
  <1>1. toEmit'[t] = <<d>>
    BY DEF Write, Shaped, TypeOK
  <1>2. d \in Covers(d)
    BY EventsAssumption DEF Covers
  <1>3. 1 \in 1..Len(toEmit'[t]) /\ d \in Covers(toEmit'[t][1])
    BY <1>1, <1>2
  <1>4. QED
    BY <1>3 DEF WillCover

LEMMA SyncCovers ==
  ASSUME Shaped, NEW t \in Threads, SyncCommit(t), NEW d \in SyncDomains
  PROVE  WillCover(t, d)'
  BY DEF SyncCommit, WillCover, Shaped, TypeOK

LEMMA NewChangeIsCovered ==
  ASSUME Shaped, NEW t \in Threads, Begin(t) \/ Advance(t),
         NEW d \in Domains, d \notin unannounced, d \in unannounced'
  PROVE  WillCover(t, d)'
  <1>1. ASSUME NEW e \in Domains, Write(t, e) PROVE WillCover(t, d)'
    <2>1. d = e
      BY <1>1 DEF Write, Commit
    <2>2. QED
      BY <1>1, <2>1, WriterCovers
  <1>2. CASE SyncCommit(t)
    <2>1. d \in SyncDomains
      BY <1>2 DEF SyncCommit, Commit
    <2>2. QED
      BY <1>2, <2>1, SyncCovers
  <1>3. CASE EmitSend(t)
    BY <1>3 DEF EmitSend
  <1>4. CASE SyncBegin(t) \/ SyncRollback(t) \/ BatchBegin(t) \/ BatchEnd(t)
               \/ EmitDropped(t) \/ EmitAllowed(t)
    BY <1>4 DEF SyncBegin, SyncRollback, BatchBegin, BatchEnd, EmitDropped, EmitAllowed
  <1>5. QED
    BY <1>1, <1>2, <1>3, <1>4 DEF Begin, Advance

\* However many batches overlap, clear each other's flag and swallow each
\* other's BulkDataRefresh, no committed change is forgotten (emit, batch_events).
THEOREM NothingForgotten == Spec => []NoChangeForgotten
  <1>1. Init => NoChangeForgotten
    BY DEF Init, NoChangeForgotten
  <1>2. Shaped /\ FlagHasHolder /\ NoChangeForgotten /\ [Next]_eventVars
          => NoChangeForgotten'
    <2> SUFFICES ASSUME Shaped, FlagHasHolder, NoChangeForgotten, [Next]_eventVars,
                        NEW d \in unannounced'
                 PROVE  \E u \in Threads : WillCover(u, d)'
      BY DEF NoChangeForgotten
    <2> d \in Domains
      BY NextShaped DEF Shaped, TypeOK
    <2>1. CASE UNCHANGED eventVars
      BY <2>1 DEF eventVars, NoChangeForgotten, WillCover
    <2>2. ASSUME NEW t \in Threads, Begin(t) \/ Advance(t)
          PROVE  \E u \in Threads : WillCover(u, d)'
      <3>1. CASE d \notin unannounced
        BY <2>2, <3>1, NewChangeIsCovered
      <3>2. CASE d \in unannounced
        <4>1. PICK v \in Threads : WillCover(v, d)
          BY <3>2 DEF NoChangeForgotten
        <4>2. CASE v = t
          <5>1. ~(EmitSend(t) /\ d \in Covers(Head(toEmit[t])))
            BY DEF EmitSend
          <5>2. QED
            BY <2>2, <4>1, <4>2, <5>1, MoverKeepsCovering
        <4>3. CASE v # t
          BY <2>2, <4>1, <4>3, OnlyOneMoves, OthersKeepCovering
        <4>4. QED
          BY <4>2, <4>3
      <3>3. QED
        BY <3>1, <3>2
    <2>3. QED
      BY <2>1, <2>2 DEF Next
  <1>3. QED
    BY <1>1, <1>2, FlagIsHeld, InitShaped, NextShaped, PTL DEF Spec

-----------------------------------------------------------------------------
\* The safety half of the refinement: every step of the core is a step of the
\* promised feed (a commit makes domains dirty, a callback cleans what its event
\* covers) or leaves the feed alone.
THEOREM RefinesFeed == Spec => Feed!Safety
  <1>1. Init => Feed!Init
    BY DEF Init, Feed!Init
  <1>2. Shaped /\ [Next]_eventVars => [Feed!Next]_<<unannounced, out>>
    <2> SUFFICES ASSUME Shaped, [Next]_eventVars
                 PROVE  [Feed!Next]_<<unannounced, out>>
      OBVIOUS
    <2>1. ASSUME NEW t \in Threads, NEW d \in Domains, Write(t, d) PROVE Feed!Change
      BY <2>1 DEF Write, Commit, Feed!Change
    <2>2. ASSUME NEW t \in Threads, SyncCommit(t) PROVE Feed!Change
      BY <2>2, SyncDomainsAreDomains DEF SyncCommit, Commit, Feed!Change
    <2>3. ASSUME NEW t \in Threads, EmitSend(t) PROVE Feed!Announce
      <3>1. Head(toEmit[t]) \in Events
        BY <2>3, TailKeeps DEF EmitSend, Shaped, TypeOK, ThreadShape
      <3>2. QED
        BY <2>3, <3>1 DEF EmitSend, Events, Covers, Feed!Announce, Feed!Covered
    <2>4. ASSUME NEW t \in Threads,
                 SyncBegin(t) \/ SyncRollback(t) \/ BatchBegin(t) \/ BatchEnd(t)
                   \/ EmitDropped(t) \/ EmitAllowed(t)
          PROVE  UNCHANGED <<unannounced, out>>
      BY <2>4
      DEF SyncBegin, SyncRollback, BatchBegin, BatchEnd, EmitDropped, EmitAllowed
    <2>5. CASE UNCHANGED eventVars
      BY <2>5 DEF eventVars
    <2>6. QED
      BY <2>1, <2>2, <2>3, <2>4, <2>5 DEF Next, Begin, Advance, Feed!Next
  <1>3. QED
    BY <1>1, <1>2, InitShaped, NextShaped, PTL DEF Spec, Feed!Safety
=============================================================================
