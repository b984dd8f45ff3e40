------------------------------ MODULE Dvr_proofs ------------------------------
(***************************************************************************)
(* Proofs about scheduled recordings, for any recordings, slots, presses   *)
(* and bounds: the types; that a recording being captured is not scheduled *)
(* any more; that the list in memory differs from the database only while  *)
(* something on its way will reload it.  And about recurring ones, for any *)
(* recordings, days and weeks, on a device whose clock is UTC: that no     *)
(* broadcast is scheduled twice and that an expansion misses none.         *)
(***************************************************************************)
EXTENDS DvrRecorder, RecurringExpansion, FiniteSetTheorems, TLAPS

-----------------------------------------------------------------------------
(* Types of scheduled recordings                                           *)

\* Which handlers wait after Place: new ones in slots of their own, the ended
\* one's slot free, the others as they were.
LEMMA Placed ==
  ASSUME NEW new, NEW ended, ended \subseteq Slots, Place(new, ended)
  PROVE  \E at \in SUBSET Slots :
            /\ jobs' = [s \in Slots |-> jobs'[s]]
            /\ \A s \in at : jobs'[s] \in new /\ s \in (Slots \ Busy) \cup ended
            /\ \A s \in Slots \ at : jobs'[s] = IF s \in ended THEN Free ELSE jobs[s]
            /\ \A s, t \in at : jobs'[s] = jobs'[t] => s = t
  <1>1. PICK f \in [new -> (Slots \ Busy) \cup ended] :
           jobs' = [s \in Slots |->
                      IF \E j \in new : f[j] = s THEN CHOOSE j \in new : f[j] = s
                      ELSE IF s \in ended THEN Free ELSE jobs[s]]
    BY DEF Place
  <1> DEFINE at == {s \in Slots : \E j \in new : f[j] = s}
  <1>2. ASSUME NEW s \in at PROVE jobs'[s] \in new /\ f[jobs'[s]] = s
    BY <1>1
  <1>3. \A s \in Slots \ at : jobs'[s] = IF s \in ended THEN Free ELSE jobs[s]
    BY <1>1
  <1>4. jobs' = [s \in Slots |-> jobs'[s]]
    BY <1>1
  <1>5. \A s \in at : jobs'[s] \in new /\ s \in (Slots \ Busy) \cup ended
    BY <1>2
  <1>6. \A s, t \in at : jobs'[s] = jobs'[t] => s = t
    BY <1>2
  <1> HIDE DEF at
  <1>7. at \in SUBSET Slots
    BY DEF at
  <1>8. QED
    BY <1>3, <1>4, <1>5, <1>6, <1>7

\* Placing handlers keeps the type of the waiting ones.
LEMMA PlacedTyped ==
  ASSUME jobs \in [Slots -> Job \cup {Free}], NEW new, NEW ended, ended \subseteq Slots,
         Place(new, ended), new \subseteq Job
  PROVE  jobs' \in [Slots -> Job \cup {Free}]
  <1>1. PICK at \in SUBSET Slots :
            /\ jobs' = [s \in Slots |-> jobs'[s]]
            /\ \A s \in at : jobs'[s] \in new
            /\ \A s \in Slots \ at : jobs'[s] = IF s \in ended THEN Free ELSE jobs[s]
    BY Placed
  <1>2. \A s \in Slots : jobs'[s] \in Job \cup {Free}
    BY <1>1
  <1>3. QED
    BY <1>1, <1>2

\* Setting one status in a list gives a list.
LEMMA ListsTyped ==
  /\ Nothing \in Lists /\ NotLoading \in [at : {"no", "asked", "read"}, list : Lists]
  /\ \A l \in Lists, r \in Recs, c \in Status : [l EXCEPT ![r] = c] \in Lists
  BY DEF Nothing, NotLoading, Lists, Status

\* The handlers of each kind are handlers.
LEMMA WritesTyped ==
  ASSUME mem \in Lists, NEW r \in Recs, NEW c \in Status,
         NEW kind \in {"start", "fail", "complete", "stop", "remove", "policy"}
  PROVE  Writes(kind, r, c) \subseteq Job
  BY ListsTyped DEF Writes, Job

LEMMA AskingTyped ==
  ASSUME mem \in Lists, NEW r \in Recs \cup {"any"}
  PROVE  /\ Adding(r) \in Job
         /\ [do |-> "book", rec |-> r, list |-> mem, at |-> "done"] \in Job
  BY ListsTyped DEF Adding, Job

LEMMA CheckingTyped == mem \in Lists => Checking \subseteq Job
  BY DEF Checking, Job

\* Stopping, starting and failing keep the counts of downloads natural.
LEMMA CapturesTyped ==
  ASSUME captures \in [Recs -> Downloads], NEW r \in Recs
  PROVE  /\ StopCapture(r) => captures' \in [Recs -> Downloads]
         /\ StartCapture(r) => captures' \in [Recs -> Downloads]
  BY DEF Downloads, StopCapture, StartCapture

LEMMA DownloadsTyped ==
  ASSUME NEW c \in Downloads
  PROVE  /\ [c EXCEPT !.held = 0] \in Downloads
         /\ c.stray > 0 => [c EXCEPT !.held = 0, !.stray = @ + c.held - 1] \in Downloads
         /\ c.cancelled > 0 => [c EXCEPT !.held = 0, !.stray = @ + c.held, !.cancelled = @ - 1]
                                  \in Downloads
         /\ c.bygone > 0 => [c EXCEPT !.held = 0, !.cancelled = @ + c.held, !.bygone = @ - 1]
                               \in Downloads
         /\ c.dropped > 0 => [c EXCEPT !.held = 0, !.cancelled = @ + c.held, !.dropped = @ - 1]
                                \in Downloads
  <1>1. c.stray > 0 => c.stray + c.held - 1 \in Nat
    BY DEF Downloads
  <1>2. c.stray + c.held \in Nat /\ c.cancelled + c.held \in Nat
    BY DEF Downloads
  <1>3. /\ c.cancelled > 0 => c.cancelled - 1 \in Nat
        /\ c.bygone > 0 => c.bygone - 1 \in Nat
        /\ c.dropped > 0 => c.dropped - 1 \in Nat
    BY DEF Downloads
  <1>4. \A n \in Nat : /\ [c EXCEPT !.held = 0] \in Downloads
                       /\ [c EXCEPT !.held = 0, !.stray = n] \in Downloads
    BY DEF Downloads
  <1>5. \A n, m \in Nat : [c EXCEPT !.held = 0, !.stray = n, !.cancelled = m] \in Downloads
    BY DEF Downloads
  <1>6. \A n, m \in Nat : [c EXCEPT !.held = 0, !.cancelled = n, !.bygone = m] \in Downloads
    BY DEF Downloads
  <1>7. \A n, m \in Nat : [c EXCEPT !.held = 0, !.cancelled = n, !.dropped = m] \in Downloads
    BY DEF Downloads
  <1>8. QED
    BY <1>1, <1>2, <1>3, <1>4, <1>5, <1>6, <1>7

LEMMA TypeInit == Init => TypeOK
  <1>1. NoDownload \in Downloads
    BY DEF Downloads, NoDownload
  <1>2. Init => 0 \in 0..MaxEvents /\ FALSE \in BOOLEAN
    BY RecorderAssumption
  <1>3. QED
    BY <1>1, <1>2, ListsTyped DEF Init, TypeOK

LEMMA TypeStep == TypeOK /\ [Next]_vars => TypeOK'
  <1> SUFFICES ASSUME TypeOK, [Next]_vars
               PROVE  TypeOK'
    OBVIOUS
  <1> USE DEF TypeOK
  <1>1. ASSUME NEW r \in Recs, Schedule(r) PROVE TypeOK'
    <2>1. {[do |-> "book", rec |-> r, list |-> mem, at |-> "done"]} \subseteq Job
      BY AskingTyped
    <2>2. jobs' \in [Slots -> Job \cup {Free}]
      BY <1>1, <2>1, PlacedTyped DEF Schedule, Begin
    <2>3. QED
      BY <1>1, <2>2 DEF Schedule, notices
  <1>2. ASSUME NEW r \in Recs, ForceSchedule(r) PROVE TypeOK'
    <2>1. {Adding(r)} \subseteq Job
      BY AskingTyped
    <2>2. jobs' \in [Slots -> Job \cup {Free}]
      BY <1>2, <2>1, PlacedTyped DEF ForceSchedule, Begin
    <2>3. QED
      BY <1>2, <2>2 DEF ForceSchedule, notices
  <1>3. ASSUME NEW r \in Recs, StopRecording(r) PROVE TypeOK'
    <2>1. Writes("stop", r, "completed") \subseteq Job
      BY WritesTyped DEF Status
    <2>2. jobs' \in [Slots -> Job \cup {Free}]
      BY <1>3, <2>1, PlacedTyped DEF StopRecording, Begin
    <2>3. QED
      BY <1>3, <2>2, CapturesTyped DEF StopRecording, notices
  <1>4. ASSUME NEW r \in Recs, RemoveRecording(r) PROVE TypeOK'
    <2>1. Writes("remove", r, "none") \subseteq Job
      BY WritesTyped DEF Status
    <2>2. jobs' \in [Slots -> Job \cup {Free}]
      BY <1>4, <2>1, PlacedTyped DEF RemoveRecording, Begin
    <2>3. QED
      BY <1>4, <2>2, CapturesTyped DEF RemoveRecording, notices
  <1>5. ASSUME NEW r \in Recs, UpdateAutoDeletePolicy(r) PROVE TypeOK'
    <2>1. Writes("policy", r, mem[r]) \subseteq Job
      BY WritesTyped DEF Lists
    <2>2. jobs' \in [Slots -> Job \cup {Free}]
      BY <1>5, <2>1, PlacedTyped DEF UpdateAutoDeletePolicy, Begin
    <2>3. QED
      BY <1>5, <2>2 DEF UpdateAutoDeletePolicy, notices
  <1>6. ASSUME NEW r \in Recs, WindowBegins(r) PROVE TypeOK'
    BY <1>6 DEF WindowBegins, notices
  <1>7. ASSUME NEW r \in Recs, CaptureEnds(r) PROVE TypeOK'
    <2>1. Writes("complete", r, "completed") \subseteq Job
      BY WritesTyped DEF Status
    <2>2. jobs' \in [Slots -> Job \cup {Free}]
      BY <1>7, <2>1, PlacedTyped DEF CaptureEnds
    <2>3. captures' \in [Recs -> Downloads]
      BY <1>7 DEF CaptureEnds, Downloads
    <2>4. QED
      BY <1>7, <2>2, <2>3 DEF CaptureEnds, notices
  <1>8. ASSUME NEW r \in Recs, CaptureFails(r) PROVE TypeOK'
    <2>1. Writes("fail", r, "failed") \cup Writes("complete", r, "completed") \subseteq Job
      BY WritesTyped DEF Status
    <2>2. jobs' \in [Slots -> Job \cup {Free}]
      BY <1>8, <2>1, PlacedTyped DEF CaptureFails
    <2>3. captures' \in [Recs -> Downloads]
      <3>1. captures[r] \in Downloads
        OBVIOUS
      <3>2. PICK now \in Downloads : captures' = [captures EXCEPT ![r] = now]
        BY <1>8, <3>1, DownloadsTyped DEF CaptureFails
      <3>3. QED
        BY <3>2
    <2>4. QED
      BY <1>8, <2>2, <2>3 DEF CaptureFails, notices
  <1>9. ASSUME NEW s \in Slots, DbWrites(s) PROVE TypeOK'
    <2> DEFINE j == jobs[s]
    <2>1. j \in Job /\ j.at = "sent"
      BY <1>9 DEF DbWrites
    <2>2. jobs' \in [Slots -> Job \cup {Free}]
      <3>1. [j EXCEPT !.at = "done"] \in Job
        BY <2>1 DEF Job
      <3>2. QED
        BY <1>9, <3>1 DEF DbWrites
    <2>3. db' \in Lists
      <3>1. j.rec \in Recs => j.list[j.rec] \in Status
        BY <2>1 DEF Job, Lists
      <3>2. QED
        BY <1>9, <3>1 DEF DbWrites, Lists, Status
    <2>4. events' \in 0..MaxEvents
      BY <1>9, RecorderAssumption DEF DbWrites
    <2>5. QED
      BY <1>9, <2>2, <2>3, <2>4 DEF DbWrites
  <1>10. ASSUME NEW s \in Slots, BookReply(s) PROVE TypeOK'
    <2>1. jobs[s].rec \in Recs \cup {"any"}
      BY <1>10 DEF BookReply, Job
    <2>2. {Adding(jobs[s].rec)} \subseteq Job /\ {} \subseteq Job
      BY <2>1, AskingTyped
    <2>3. Place({Adding(jobs[s].rec)}, {s}) \/ Place({}, {s})
      BY <1>10 DEF BookReply
    <2>4. jobs' \in [Slots -> Job \cup {Free}]
      BY <2>2, <2>3, PlacedTyped
    <2>5. QED
      BY <1>10, <2>4 DEF BookReply, notices
  <1>11. ASSUME NEW s \in Slots, CheckReply(s) PROVE TypeOK'
    <2>1. ASSUME NEW r \in due PROVE Writes("start", r, "recording") \subseteq Job
      BY WritesTyped DEF Status
    <2> DEFINE new == UNION {Writes("start", r, "recording") :
                               r \in {q \in due : jobs[s].list[q] = "scheduled"}}
    <2>2. new \subseteq Job
      BY <2>1
    <2>3. Place(new, {s})
      BY <1>11 DEF CheckReply
    <2> HIDE DEF new
    <2>4. jobs' \in [Slots -> Job \cup {Free}]
      BY <2>2, <2>3, PlacedTyped
    <2>5. QED
      BY <1>11, <2>4 DEF CheckReply, notices
  <1>12. ASSUME NEW s \in Slots, WriteReply(s) PROVE TypeOK'
    <2>1. jobs[s] \in Job
      BY <1>12 DEF WriteReply
    <2>2. mem' \in Lists
      BY <1>12, <2>1, ListsTyped DEF WriteReply, Job, Lists, Status
    <2>3. captures' \in [Recs -> Downloads]
      BY <1>12, RecorderAssumption, CapturesTyped DEF WriteReply
    <2>4. jobs' \in [Slots -> Job \cup {Free}]
      BY <1>12, PlacedTyped DEF WriteReply
    <2>5. QED
      BY <1>12, <2>2, <2>3, <2>4 DEF WriteReply, notices
  <1>13. CASE Tick
    <2>1. jobs' \in [Slots -> Job \cup {Free}]
      BY <1>13, CheckingTyped, PlacedTyped DEF Tick, Begin
    <2>2. QED
      BY <1>13, <2>1 DEF Tick, notices
  <1>14. CASE EventArrives
    <2>1. jobs' \in [Slots -> Job \cup {Free}]
      BY <1>14, CheckingTyped, PlacedTyped DEF EventArrives
    <2>2. events' \in 0..MaxEvents
      BY <1>14, RecorderAssumption DEF EventArrives
    <2>3. QED
      BY <1>14, <2>1, <2>2 DEF EventArrives
  <1>15. CASE Invalidate
    <2>1. captures' \in [Recs -> Downloads]
      BY <1>15 DEF Invalidate, Downloads
    <2>2. loading' \in [at : {"no", "asked", "read"}, list : Lists]
      BY <1>15, ListsTyped DEF Invalidate, NotLoading
    <2>3. QED
      BY <1>15, <2>1, <2>2 DEF Invalidate
  <1>16. CASE LoadReads
    BY <1>16 DEF LoadReads
  <1>17. CASE LoadEnds
    BY <1>17, ListsTyped DEF LoadEnds
  <1>18. CASE UNCHANGED vars
    BY <1>18 DEF vars
  <1>19. QED
    BY <1>1, <1>2, <1>3, <1>4, <1>5, <1>6, <1>7, <1>8, <1>9, <1>10, <1>11, <1>12, <1>13, <1>14,
       <1>15, <1>16, <1>17, <1>18 DEF Next, Reply

\* Recordings, handlers, downloads and the rebuild keep their types, and events
\* stay within their bound.
THEOREM RecordingsTyped == Spec => []TypeOK
  BY TypeInit, TypeStep, PTL DEF Spec

-----------------------------------------------------------------------------
(* A recording being captured is not scheduled                             *)

\* Handlers that change the status of a recording in the list.
Changes == {"start", "fail", "complete", "stop", "remove"}

Asks(j, r) == j.do \in {"book", "add"} /\ j.rec = r

\* The user has not asked for r, or its row is not written yet.
Fresh(r) ==
    \/ r \notin booked
    \/ \E s \in Slots : Asks(jobs[s], r) /\ (jobs[s].do = "book" \/ jobs[s].at = "sent")

JobsShaped ==
    \A s \in Slots :
        LET j == jobs[s] IN
        /\ j.do \in {"book", "check"} => j.at = "done"
        /\ j.do \in {"book", "add"} => j.rec \in booked
        /\ j.do \in Changes => j.rec \in Recs /\ j.list[j.rec] # "scheduled"
        /\ j.do # "policy"

\* A recording is added by one handler, once.
AskedOnce ==
    \A r \in Recs : \A s, t \in Slots : Asks(jobs[s], r) /\ Asks(jobs[t], r) => s = t

\* Until its row is written, no list knows the recording and nothing captures it.
FreshUntouched ==
    \A r \in Recs : Fresh(r) =>
        /\ db[r] = "none" /\ mem[r] = "none" /\ loading.list[r] = "none"
        /\ Running(r) = 0
        /\ \A s \in Slots :
              /\ jobs[s].do # "nothing" => jobs[s].list[r] = "none"
              /\ jobs[s].do \in Changes => jobs[s].rec # r

\* A handler whose write is done left a status that no other write turned back.
WrittenNotScheduled ==
    \A s \in Slots :
        jobs[s].do \in Changes /\ jobs[s].at = "done" => db[jobs[s].rec] # "scheduled"

CaptureInv ==
    /\ TypeOK
    /\ JobsShaped
    /\ AskedOnce
    /\ FreshUntouched
    /\ WrittenNotScheduled
    /\ CaptureNotScheduled

\* What a handler that begins, other than one that adds, has computed.
Computed(j) ==
    /\ j \in Job
    /\ \A q \in Recs : mem[q] = "none" => j.list[q] = "none"
    /\ \/ j.do = "check" /\ j.at = "done"
       \/ /\ j.do \in Changes /\ j.at = "sent"
          /\ j.rec \in Recs /\ mem[j.rec] # "none" /\ j.list[j.rec] # "scheduled"

\* The handlers that change a status, and the looks for due recordings, compute
\* their list from memory.
LEMMA WritesComputed ==
  ASSUME TypeOK, NEW r \in Recs, NEW kind \in Changes, NEW c \in Status \ {"scheduled"}
  PROVE  \A j \in Writes(kind, r, c) : Computed(j)
  <1>1. Writes(kind, r, c) \subseteq Job
    BY WritesTyped DEF Changes, TypeOK
  <1>2. QED
    BY <1>1 DEF Writes, Computed, TypeOK, Lists

LEMMA CheckingComputed ==
  TypeOK => \A j \in Checking : Computed(j)
  BY CheckingTyped DEF Checking, Computed, TypeOK

\* Recordings that get no new handler that adds them are as fresh as before.
LEMMA FreshFromBefore ==
  ASSUME NEW r, booked \subseteq booked',
         \A s \in Slots : jobs'[s].do \in {"book", "add"} /\ jobs'[s].rec = r => jobs'[s] = jobs[s],
         Fresh(r)'
  PROVE  Fresh(r)
  BY DEF Fresh, Asks

\* Handlers that compute from memory may begin, and one may end.
LEMMA ComputingKeeps ==
  ASSUME CaptureInv, TypeOK', NEW new, NEW ended, ended \subseteq Slots, Place(new, ended),
         \A j \in new : Computed(j),
         UNCHANGED <<db, mem, booked, loading>>,
         \A r \in Recs : Running(r)' > 0 => Running(r) > 0,
         \A r \in Recs : Running(r) = 0 => Running(r)' = 0
  PROVE  CaptureInv'
  <1> USE DEF CaptureInv
  <1>1. PICK at \in SUBSET Slots :
            /\ \A s \in at : jobs'[s] \in new
            /\ \A s \in Slots \ at : jobs'[s] = IF s \in ended THEN Free ELSE jobs[s]
    BY Placed
  <1>2. \A s \in Slots : Computed(jobs'[s]) \/ jobs'[s] = Free \/ jobs'[s] = jobs[s]
    BY <1>1
  <1>3. \A j : Computed(j) => j.do \notin {"book", "add", "policy", "nothing"}
    BY DEF Computed, Changes
  <1>4. Free.do = "nothing"
    BY DEF Free
  <1>5. \A s \in Slots : jobs'[s].do \in {"book", "add"} => jobs'[s] = jobs[s]
    BY <1>2, <1>3, <1>4
  <1>6. JobsShaped'
    BY <1>2, <1>3, <1>4 DEF JobsShaped, Computed, Changes
  <1>7. AskedOnce'
    BY <1>5 DEF AskedOnce, Asks
  <1>8. \A r \in Recs : Fresh(r)' => Fresh(r)
    BY <1>5, FreshFromBefore
  <1>9. FreshUntouched'
    BY <1>2, <1>4, <1>8 DEF FreshUntouched, Computed, Changes
  <1>10. WrittenNotScheduled'
    BY <1>2, <1>4 DEF WrittenNotScheduled, Computed, Changes
  <1>11. CaptureNotScheduled'
    BY DEF CaptureNotScheduled
  <1>12. QED
    BY <1>6, <1>7, <1>9, <1>10, <1>11

\* A recording that was never asked for is asked for by one new handler.
LEMMA AskingKeeps ==
  ASSUME CaptureInv, TypeOK', NEW r \in Recs, NEW j \in Job, j.rec = r,
         \/ j.do = "book" /\ j.at = "done" /\ j.list = mem
         \/ j.do = "add" /\ j.at = "sent" /\ j.list = Nothing,
         Place({j}, {}), r \notin booked, booked' = booked \cup {r},
         UNCHANGED <<db, mem, captures, loading>>
  PROVE  CaptureInv'
  <1> USE DEF CaptureInv
  <1>1. PICK at \in SUBSET Slots :
            /\ \A s \in at : jobs'[s] \in {j}
            /\ \A s \in Slots \ at : jobs'[s] = IF s \in {} THEN Free ELSE jobs[s]
            /\ \A s, t \in at : jobs'[s] = jobs'[t] => s = t
    BY Placed
  <1>2. \A s \in at : jobs'[s] = j
    BY <1>1
  <1>3. \A s \in Slots \ at : jobs'[s] = jobs[s]
    BY <1>1
  <1>4. \A s \in Slots : ~Asks(jobs[s], r)
    BY DEF JobsShaped, Asks
  <1>5. \A s, t \in at : s = t
    BY <1>1, <1>2
  <1>6. Fresh(r)
    BY DEF Fresh
  <1>7. \A q \in Recs : Fresh(q)' => Fresh(q)
    BY <1>2, <1>3, <1>6 DEF Fresh, Asks
  <1>8. j.do \notin Changes
    BY DEF Changes
  <1>9. JobsShaped'
    BY <1>2, <1>3, <1>8 DEF JobsShaped
  <1>10. AskedOnce'
    BY <1>2, <1>3, <1>4, <1>5 DEF AskedOnce, Asks
  <1>11. \A q \in Recs : Fresh(q) => j.list[q] = "none"
    BY DEF FreshUntouched, Nothing
  <1>12. FreshUntouched'
    BY <1>2, <1>3, <1>7, <1>8, <1>11 DEF FreshUntouched, Running
  <1>13. WrittenNotScheduled'
    BY <1>2, <1>3, <1>8 DEF WrittenNotScheduled
  <1>14. CaptureNotScheduled'
    BY DEF CaptureNotScheduled, Running
  <1>15. QED
    BY <1>9, <1>10, <1>12, <1>13, <1>14

LEMMA CaptureInit == Init => CaptureInv
  <1> SUFFICES ASSUME Init PROVE CaptureInv
    OBVIOUS
  <1>1. \A s \in Slots : jobs[s].do = "nothing"
    BY DEF Init, Free
  <1>2. \A r \in Recs : /\ Running(r) = 0 /\ db[r] = "none"
                       /\ mem[r] = "none" /\ loading.list[r] = "none"
    BY DEF Init, Running, NoDownload, Nothing, NotLoading
  <1>3. QED
    BY <1>1, <1>2, TypeInit DEF CaptureInv, JobsShaped, AskedOnce, FreshUntouched,
       WrittenNotScheduled, CaptureNotScheduled, Asks, Changes

\* What the user's presses, timers and ends of downloads do to the downloads of
\* a recording: none is begun.
LEMMA NoneBegun ==
  ASSUME TypeOK, NEW q \in Recs, StopCapture(q) \/ UNCHANGED captures
  PROVE  \A r \in Recs : Running(r)' <= Running(r)
  BY DEF TypeOK, Downloads, StopCapture, Running

\* Downloads that fail or end leave no more of them running.
NoMore(now, c) == now.held + now.stray + now.bygone <= c.held + c.stray + c.bygone

LEMMA NoneBegunByFailure ==
  ASSUME NEW c \in Downloads
  PROVE  /\ NoMore([c EXCEPT !.held = 0], c)
         /\ c.stray > 0 => NoMore([c EXCEPT !.held = 0, !.stray = @ + c.held - 1], c)
         /\ NoMore([c EXCEPT !.held = 0, !.stray = @ + c.held, !.cancelled = @ - 1], c)
         /\ NoMore([c EXCEPT !.held = 0, !.cancelled = @ + c.held, !.bygone = @ - 1], c)
         /\ NoMore([c EXCEPT !.held = 0, !.cancelled = @ + c.held, !.dropped = @ - 1], c)
  <1>0. c.held \in Nat /\ c.stray \in Nat /\ c.bygone \in Nat
    BY DEF Downloads
  <1>1. NoMore([c EXCEPT !.held = 0], c)
    BY <1>0 DEF Downloads, NoMore
  <1>2. \A n \in Nat : n <= c.stray + c.held => NoMore([c EXCEPT !.held = 0, !.stray = n], c)
    BY <1>0 DEF Downloads, NoMore
  <1>3. \A m : NoMore([c EXCEPT !.held = 0, !.stray = @ + c.held, !.cancelled = m], c)
    BY <1>0 DEF Downloads, NoMore
  <1>4. \A n : \A m \in Int : m <= c.bygone =>
          NoMore([c EXCEPT !.held = 0, !.cancelled = n, !.bygone = m], c)
    BY <1>0 DEF Downloads, NoMore
  <1>5. \A n, m : NoMore([c EXCEPT !.held = 0, !.cancelled = n, !.dropped = m], c)
    BY <1>0 DEF Downloads, NoMore
  <1>6. c.stray > 0 => c.stray + c.held - 1 \in Nat /\ c.stray + c.held - 1 <= c.stray + c.held
    BY <1>0
  <1>7. c.bygone - 1 \in Int /\ c.bygone - 1 <= c.bygone
    BY <1>0
  <1>8. QED
    BY <1>1, <1>2, <1>3, <1>4, <1>5, <1>6, <1>7

LEMMA NoneBegunAtEnd ==
  ASSUME TypeOK, NEW q \in Recs, CaptureEnds(q) \/ CaptureFails(q)
  PROVE  \A r \in Recs : Running(r)' <= Running(r)
  <1> USE DEF TypeOK
  <1>1. captures[q] \in Downloads
    OBVIOUS
  <1>2. \A r \in Recs : Running(r) \in Nat
    BY DEF Running, Downloads
  <1>3. CASE CaptureEnds(q)
    BY <1>1, <1>2, <1>3 DEF CaptureEnds, Running, Downloads
  <1>4. CASE CaptureFails(q)
    <2>1. PICK now : captures' = [captures EXCEPT ![q] = now] /\ NoMore(now, captures[q])
      BY <1>1, <1>4, NoneBegunByFailure DEF CaptureFails
    <2>2. QED
      BY <1>2, <2>1 DEF Running, NoMore
  <1>5. QED
    BY <1>3, <1>4

\* The core writes the row of a handler: an added recording was untouched, and
\* no other handler writes "scheduled".
LEMMA DbWritesKeeps ==
  ASSUME CaptureInv, TypeOK', NEW s \in Slots, DbWrites(s)
  PROVE  CaptureInv'
  <1> USE DEF CaptureInv
  <1> DEFINE j == jobs[s]
             c == IF j.do = "add" THEN "scheduled" ELSE j.list[j.rec]
  <1>1. /\ j \in Job /\ j.at = "sent"
        /\ db' = [db EXCEPT ![j.rec] = c]
        /\ jobs' = [jobs EXCEPT ![s].at = "done"]
        /\ UNCHANGED <<mem, booked, due, captures, loading>>
    BY DEF DbWrites, TypeOK
  <1>2. jobs'[s] \in Job /\ jobs'[s].do = j.do /\ jobs'[s].rec = j.rec
        /\ jobs'[s].list = j.list /\ jobs'[s].at = "done"
    BY <1>1 DEF TypeOK, Job
  <1>3. \A t \in Slots \ {s} : jobs'[t] = jobs[t]
    BY <1>1 DEF TypeOK
  <1>4. j.do = "add" \/ j.do \in Changes
    BY <1>1 DEF JobsShaped, Job, Changes
  <1>5. \A q \in Recs : Fresh(q)' => Fresh(q)
    BY <1>1, <1>2, <1>3 DEF Fresh, Asks
  <1>6. JobsShaped'
    BY <1>1, <1>2, <1>3 DEF JobsShaped
  <1>7. AskedOnce'
    BY <1>2, <1>3 DEF AskedOnce, Asks
  <1>8. \A q \in Recs : q # j.rec => db'[q] = db[q]
    BY <1>1 DEF TypeOK, Lists
  <1>9. CASE j.do = "add"
    <2>1. j.rec \in Recs => Fresh(j.rec)
      BY <1>1, <1>9 DEF Fresh, Asks
    <2>2. j.rec \in booked
      BY <1>9 DEF JobsShaped
    <2>3. j.rec \in Recs => ~Fresh(j.rec)'
      BY <1>1, <1>2, <1>3, <1>9, <2>2 DEF Fresh, Asks, AskedOnce
    <2>4. FreshUntouched'
      BY <1>1, <1>2, <1>3, <1>5, <1>8, <2>3 DEF FreshUntouched, Running
    <2>5. \A t \in Slots : jobs'[t].do \in Changes => jobs'[t] = jobs[t]
      BY <1>2, <1>3, <1>9 DEF Changes
    <2>6. \A t \in Slots : jobs[t].do \in Changes => jobs[t].rec # j.rec
      BY <2>1 DEF FreshUntouched, JobsShaped
    <2>7. WrittenNotScheduled'
      BY <1>8, <2>5, <2>6 DEF WrittenNotScheduled, JobsShaped
    <2>8. j.rec \in Recs => Running(j.rec) = 0
      BY <2>1 DEF FreshUntouched
    <2>9. CaptureNotScheduled'
      BY <1>1, <1>8, <2>8 DEF CaptureNotScheduled, Running
    <2>10. QED
      BY <1>6, <1>7, <2>4, <2>7, <2>9
  <1>10. CASE j.do \in Changes
    <2>1. j.rec \in Recs /\ c # "scheduled" /\ ~Fresh(j.rec)
      BY <1>10 DEF JobsShaped, Changes, FreshUntouched
    <2>2. db'[j.rec] # "scheduled"
      BY <1>1, <2>1 DEF TypeOK, Lists
    <2>3. FreshUntouched'
      BY <1>1, <1>2, <1>3, <1>5, <1>8, <2>1 DEF FreshUntouched, Running
    <2>4. WrittenNotScheduled'
      BY <1>2, <1>3, <1>6, <1>8, <2>2 DEF WrittenNotScheduled, JobsShaped
    <2>5. CaptureNotScheduled'
      BY <1>1, <1>8, <2>2 DEF CaptureNotScheduled, Running
    <2>6. QED
      BY <1>6, <1>7, <2>3, <2>4, <2>5
  <1>11. QED
    BY <1>4, <1>9, <1>10

\* The handler that asked for conflicts becomes the one that adds, or ends.
LEMMA BookReplyKeeps ==
  ASSUME CaptureInv, TypeOK', NEW s \in Slots, BookReply(s)
  PROVE  CaptureInv'
  <1> USE DEF CaptureInv
  <1> DEFINE j == jobs[s]
             r == jobs[s].rec
             new == {Adding(r)}
  <1>1. /\ j \in Job /\ j.do = "book" /\ r \in booked
        /\ Place({}, {s}) \/ Place(new, {s})
        /\ UNCHANGED <<db, mem, booked, due, captures, loading>>
    BY DEF BookReply, TypeOK, JobsShaped, notices, Free
  <1>2. CASE Place({}, {s})
    BY <1>1, <1>2, ComputingKeeps DEF Running
  <1>3. CASE Place(new, {s})
    <2>1. PICK at \in SUBSET Slots :
              /\ \A t \in at : jobs'[t] \in new
              /\ \A t \in Slots \ at : jobs'[t] = IF t \in {s} THEN Free ELSE jobs[t]
              /\ \A t, u \in at : jobs'[t] = jobs'[u] => t = u
      BY <1>3, Placed
    <2>2. \A t \in at : jobs'[t] = Adding(r)
      BY <2>1
    <2>3. \A t \in Slots \ at : jobs'[t] = Free \/ (jobs'[t] = jobs[t] /\ t # s)
      BY <2>1
    <2>4. \A t, u \in at : t = u
      BY <2>1, <2>2
    <2>5. r \in Recs /\ Fresh(r)
      BY <1>1 DEF TypeOK, Fresh, Asks
    <2>6. /\ Adding(r).do = "add" /\ Adding(r).rec = r /\ Adding(r).at = "sent"
          /\ Adding(r).list = Nothing /\ Free.do = "nothing" /\ "add" \notin Changes
          /\ "nothing" \notin Changes
      BY DEF Adding, Free, Changes
    <2>7. \A t \in Slots \ at : ~Asks(jobs'[t], r)
      BY <1>1, <2>3, <2>5, <2>6 DEF AskedOnce, Asks
    <2>8. \A q \in Recs : Fresh(q)' => Fresh(q)
      BY <1>1, <2>2, <2>3, <2>5, <2>6 DEF Fresh, Asks
    <2>9. JobsShaped'
      BY <1>1, <2>2, <2>3, <2>6 DEF JobsShaped
    <2>10. AskedOnce'
      BY <2>2, <2>3, <2>4, <2>6, <2>7 DEF AskedOnce, Asks
    <2>11. FreshUntouched'
      BY <1>1, <2>2, <2>3, <2>6, <2>8 DEF FreshUntouched, Running, Nothing
    <2>12. WrittenNotScheduled'
      BY <1>1, <2>2, <2>3, <2>6 DEF WrittenNotScheduled
    <2>13. CaptureNotScheduled'
      BY <1>1 DEF CaptureNotScheduled, Running
    <2>14. QED
      BY <2>9, <2>10, <2>11, <2>12, <2>13
  <1>4. QED
    BY <1>1, <1>2, <1>3

\* A handler whose write is done assigns its list and may start the capture.
LEMMA WriteReplyKeeps ==
  ASSUME CaptureInv, TypeOK', NEW s \in Slots, WriteReply(s)
  PROVE  CaptureInv'
  <1> USE DEF CaptureInv
  <1> DEFINE j == jobs[s]
  <1>1. /\ j \in Job /\ j.at = "done" /\ j.do \notin {"book", "check"}
        /\ mem' = IF j.do = "add" THEN [mem EXCEPT ![j.rec] = "scheduled"] ELSE j.list
        /\ Place({}, {s})
        /\ UNCHANGED <<db, booked, due, loading>>
    BY DEF WriteReply, TypeOK, notices
  <1>2. \A t \in Slots : jobs'[t] = Free \/ jobs'[t] = jobs[t]
    BY <1>1, Placed
  <1>3. Free.do = "nothing" /\ "nothing" \notin Changes
    BY DEF Free, Changes
  <1>4. \A q \in Recs : Fresh(q)' => Fresh(q)
    BY <1>1, <1>2, <1>3 DEF Fresh, Asks
  <1>5. JobsShaped' /\ AskedOnce' /\ WrittenNotScheduled'
    BY <1>1, <1>2, <1>3 DEF JobsShaped, AskedOnce, WrittenNotScheduled, Asks
  <1>6. \A q \in Recs : /\ Running(q)' > 0 => Running(q) > 0 \/ (j.do = "start" /\ q = j.rec)
                        /\ Running(q) = 0 /\ ~(j.do = "start" /\ q = j.rec) => Running(q)' = 0
    BY DEF WriteReply, StartCapture, TypeOK, Running
  <1>7. j.do = "start" => j.rec \in Recs /\ ~Fresh(j.rec) /\ db[j.rec] # "scheduled"
    BY <1>1 DEF JobsShaped, FreshUntouched, WrittenNotScheduled, Changes
  <1>8. ASSUME NEW q \in Recs, Fresh(q)
        PROVE  mem'[q] = "none" \/ ~Fresh(q)'
    <2>1. CASE j.do = "add"
      <3>1. q = j.rec => ~Fresh(q)'
        BY <1>1, <1>2, <1>3, <2>1 DEF JobsShaped, AskedOnce, Fresh, Asks
      <3>2. q # j.rec => mem'[q] = "none"
        BY <1>1, <1>8, <2>1 DEF FreshUntouched, TypeOK, Lists
      <3>3. QED
        BY <3>1, <3>2
    <2>2. CASE j.do # "add"
      BY <1>1, <1>8, <2>2 DEF FreshUntouched, Job
    <2>3. QED
      BY <2>1, <2>2
  <1>9. FreshUntouched'
    BY <1>1, <1>2, <1>3, <1>4, <1>6, <1>7, <1>8 DEF FreshUntouched
  <1>10. CaptureNotScheduled'
    BY <1>1, <1>6, <1>7 DEF CaptureNotScheduled
  <1>11. QED
    BY <1>5, <1>9, <1>10

\* Every step but an edit of a policy keeps it.
LEMMA CaptureStep ==
  "policy" \notin Presses /\ CaptureInv /\ [Next]_vars => CaptureInv'
  <1> SUFFICES ASSUME "policy" \notin Presses, CaptureInv, [Next]_vars
               PROVE  CaptureInv'
    OBVIOUS
  <1> USE DEF CaptureInv
  <1>0. TypeOK'
    BY TypeStep
  <1>1. \A r \in Recs : Running(r) \in Nat
    BY DEF TypeOK, Downloads, Running
  <1>2. ASSUME NEW r \in Recs, Schedule(r) PROVE CaptureInv'
    <2> DEFINE j == [do |-> "book", rec |-> r, list |-> mem, at |-> "done"]
    <2>1. j \in Job /\ j.do = "book" /\ j.at = "done" /\ j.list = mem /\ j.rec = r
      BY AskingTyped DEF TypeOK
    <2>2. /\ r \notin booked /\ booked' = booked \cup {r} /\ Place({j}, {})
          /\ UNCHANGED <<db, mem, captures, loading>>
      BY <1>2 DEF Schedule, Begin, notices
    <2> HIDE DEF j
    <2>3. QED
      BY <1>0, <2>1, <2>2, AskingKeeps
  <1>3. ASSUME NEW r \in Recs, ForceSchedule(r) PROVE CaptureInv'
    <2>1. Adding(r) \in Job
      BY AskingTyped DEF TypeOK
    <2>2. /\ Adding(r).do = "add" /\ Adding(r).at = "sent" /\ Adding(r).list = Nothing
          /\ Adding(r).rec = r
      BY DEF Adding
    <2>3. /\ r \notin booked /\ booked' = booked \cup {r} /\ Place({Adding(r)}, {})
          /\ UNCHANGED <<db, mem, captures, loading>>
      BY <1>3 DEF ForceSchedule, Begin, notices
    <2>4. QED
      BY <1>0, <2>1, <2>2, <2>3, AskingKeeps
  <1>4. ASSUME NEW r \in Recs, StopRecording(r) PROVE CaptureInv'
    <2>1. \A j \in Writes("stop", r, "completed") : Computed(j)
      BY WritesComputed DEF Changes, Status
    <2>2. \A q \in Recs : Running(q)' <= Running(q)
      BY <1>4, NoneBegun DEF StopRecording
    <2>3. \A q \in Recs : Running(q)' \in Nat
      BY <1>0 DEF TypeOK, Downloads, Running
    <2>4. Place(Writes("stop", r, "completed"), {}) /\ UNCHANGED <<db, mem, booked, loading>>
      BY <1>4 DEF StopRecording, Begin, notices
    <2>5. QED
      BY <1>0, <1>1, <2>1, <2>2, <2>3, <2>4, ComputingKeeps
  <1>5. ASSUME NEW r \in Recs, RemoveRecording(r) PROVE CaptureInv'
    <2>1. \A j \in Writes("remove", r, "none") : Computed(j)
      BY WritesComputed DEF Changes, Status
    <2>2. \A q \in Recs : Running(q)' <= Running(q)
      BY <1>5, NoneBegun DEF RemoveRecording
    <2>3. \A q \in Recs : Running(q)' \in Nat
      BY <1>0 DEF TypeOK, Downloads, Running
    <2>4. Place(Writes("remove", r, "none"), {}) /\ UNCHANGED <<db, mem, booked, loading>>
      BY <1>5 DEF RemoveRecording, Begin, notices
    <2>5. QED
      BY <1>0, <1>1, <2>1, <2>2, <2>3, <2>4, ComputingKeeps
  <1>6. ASSUME NEW r \in Recs, UpdateAutoDeletePolicy(r) PROVE CaptureInv'
    BY <1>6 DEF UpdateAutoDeletePolicy
  <1>7. ASSUME NEW r \in Recs, CaptureEnds(r) PROVE CaptureInv'
    <2>1. \A j \in Writes("complete", r, "completed") : Computed(j)
      BY WritesComputed DEF Changes, Status
    <2>2. \A q \in Recs : Running(q)' <= Running(q)
      BY <1>7, NoneBegunAtEnd
    <2>3. \A q \in Recs : Running(q)' \in Nat
      BY <1>0 DEF TypeOK, Downloads, Running
    <2>4. Place(Writes("complete", r, "completed"), {}) /\ UNCHANGED <<db, mem, booked, loading>>
      BY <1>7 DEF CaptureEnds, notices
    <2>5. QED
      BY <1>0, <1>1, <2>1, <2>2, <2>3, <2>4, ComputingKeeps
  <1>8. ASSUME NEW r \in Recs, CaptureFails(r) PROVE CaptureInv'
    <2> DEFINE new == Writes("fail", r, "failed") \cup Writes("complete", r, "completed")
    <2>1. \A j \in new : Computed(j)
      BY WritesComputed DEF Changes, Status
    <2>2. \A q \in Recs : Running(q)' <= Running(q)
      BY <1>8, NoneBegunAtEnd
    <2>3. \A q \in Recs : Running(q)' \in Nat
      BY <1>0 DEF TypeOK, Downloads, Running
    <2>4. Place(new, {}) /\ UNCHANGED <<db, mem, booked, loading>>
      BY <1>8 DEF CaptureFails, notices
    <2> HIDE DEF new
    <2>5. QED
      BY <1>0, <1>1, <2>1, <2>2, <2>3, <2>4, ComputingKeeps
  <1>9. ASSUME NEW s \in Slots, CheckReply(s) PROVE CaptureInv'
    <2> DEFINE new == UNION {Writes("start", r, "recording") :
                               r \in {q \in due : jobs[s].list[q] = "scheduled"}}
    <2>1. \A r \in due : \A j \in Writes("start", r, "recording") : Computed(j)
      BY WritesComputed DEF Changes, Status, TypeOK
    <2>2. \A j \in new : Computed(j)
      BY <2>1
    <2>3. Place(new, {s}) /\ UNCHANGED <<db, mem, booked, captures, loading>>
      BY <1>9 DEF CheckReply, notices
    <2> HIDE DEF new
    <2>4. QED
      BY <1>0, <1>1, <2>2, <2>3, ComputingKeeps DEF Running
  <1>10. CASE Tick
    <2>1. Place(Checking, {}) /\ UNCHANGED <<db, mem, booked, captures, loading>>
      BY <1>10 DEF Tick, Begin, notices
    <2>2. QED
      BY <1>0, <2>1, CheckingComputed, ComputingKeeps DEF Running
  <1>11. CASE EventArrives
    <2>1. CASE Place(Checking, {})
      BY <1>0, <1>11, <2>1, CheckingComputed, ComputingKeeps DEF EventArrives, Running
    <2>2. CASE UNCHANGED jobs
      BY <1>0, <1>11, <2>2 DEF EventArrives, JobsShaped, AskedOnce, FreshUntouched, Fresh,
         WrittenNotScheduled, CaptureNotScheduled, Running
    <2>3. QED
      BY <1>11, <2>1, <2>2 DEF EventArrives
  <1>12. ASSUME NEW s \in Slots, BookReply(s) PROVE CaptureInv'
    BY <1>0, <1>12, BookReplyKeeps
  <1>13. ASSUME NEW s \in Slots, WriteReply(s) PROVE CaptureInv'
    BY <1>0, <1>13, WriteReplyKeeps
  <1>14. ASSUME NEW s \in Slots, DbWrites(s) PROVE CaptureInv'
    BY <1>0, <1>14, DbWritesKeeps
  <1>15. ASSUME NEW r \in Recs, WindowBegins(r) PROVE CaptureInv'
    BY <1>0, <1>15 DEF WindowBegins, notices, JobsShaped, AskedOnce, FreshUntouched, Fresh,
       WrittenNotScheduled, CaptureNotScheduled, Running
  <1>16. CASE Invalidate
    <2>1. \A r \in Recs : Running(r)' <= Running(r)
      BY <1>16 DEF Invalidate, TypeOK, Downloads, Running
    <2>2. \A r \in Recs : Running(r)' \in Nat
      BY <1>0 DEF TypeOK, Downloads, Running
    <2>3. UNCHANGED <<db, mem, booked, due, jobs>> /\ \A r \in Recs : loading'.list[r] = "none"
      BY <1>16 DEF Invalidate, NotLoading, Nothing
    <2>4. \A r \in Recs : (Running(r)' > 0 => Running(r) > 0) /\ (Running(r) = 0 => Running(r)' = 0)
      BY <1>1, <2>1, <2>2
    <2>5. \A r \in Recs : Fresh(r)' <=> Fresh(r)
      BY <2>3 DEF Fresh
    <2>6. FreshUntouched'
      BY <2>3, <2>4, <2>5 DEF FreshUntouched
    <2>7. QED
      BY <1>0, <2>3, <2>4, <2>6 DEF JobsShaped, AskedOnce, WrittenNotScheduled, CaptureNotScheduled
  <1>17. CASE LoadReads
    BY <1>0, <1>17 DEF LoadReads, JobsShaped, AskedOnce, FreshUntouched, Fresh,
       WrittenNotScheduled, CaptureNotScheduled, Running
  <1>18. CASE LoadEnds
    BY <1>0, <1>18 DEF LoadEnds, NotLoading, Nothing, JobsShaped, AskedOnce, FreshUntouched, Fresh,
       WrittenNotScheduled, CaptureNotScheduled, Running
  <1>19. CASE UNCHANGED vars
    BY <1>0, <1>19 DEF vars, JobsShaped, AskedOnce, FreshUntouched, Fresh,
       WrittenNotScheduled, CaptureNotScheduled, Running
  <1>20. QED
    BY <1>2, <1>3, <1>4, <1>5, <1>6, <1>7, <1>8, <1>9, <1>10, <1>11, <1>12, <1>13, <1>14,
       <1>15, <1>16, <1>17, <1>18, <1>19 DEF Next, Reply

\* While nobody edits an auto-delete policy, no tick can start a recording that
\* is being captured again, however handlers overlap, whatever rebuilds happen
\* and however late the core answers.  (An edit writes the record as memory had
\* it, so it may write "scheduled" back.)
THEOREM CaptureNeverScheduled ==
  ASSUME "policy" \notin Presses
  PROVE  Spec => []CaptureNotScheduled
  <1>1. Init => CaptureInv
    BY CaptureInit
  <1>2. CaptureInv /\ [Next]_vars => CaptureInv'
    BY CaptureStep
  <1>3. CaptureInv => CaptureNotScheduled
    BY DEF CaptureInv
  <1>4. QED
    BY <1>1, <1>2, <1>3, PTL DEF Spec

-----------------------------------------------------------------------------
(* Memory catches up with the database                                     *)

\* A handler waits with its write done only while the event of that write is on
\* its way or the invalidator's timer runs.
AnswersAnnounced ==
    \A s \in Slots :
        jobs[s].do \notin {"nothing", "book", "check"} /\ jobs[s].at = "done" => events > 0 \/ debounce

ReadOrReloaded == loading.at = "read" => loading.list = db \/ events > 0 \/ debounce
StaleIsReloaded == mem # db => events > 0 \/ debounce \/ loading.at # "no"

ReloadInv == TypeOK /\ AnswersAnnounced /\ ReadOrReloaded /\ StaleIsReloaded

LEMMA ReloadInit == Init => ReloadInv
  BY TypeInit DEF Init, Free, NotLoading, ReloadInv, AnswersAnnounced, ReadOrReloaded,
     StaleIsReloaded

\* Handlers that begin have not written yet.
LEMMA BeginningKeeps ==
  ASSUME ReloadInv, TypeOK', NEW new, NEW ended, ended \subseteq Slots, Place(new, ended),
         \A j \in new : j.do \in {"book", "check"} \/ j.at = "sent",
         events' > 0 \/ debounce' <=> events > 0 \/ debounce,
         UNCHANGED <<db, mem, loading>>
  PROVE  ReloadInv'
  <1> USE DEF ReloadInv
  <1>1. \A s \in Slots : jobs'[s] \in new \/ jobs'[s] = Free \/ jobs'[s] = jobs[s]
    BY Placed
  <1>2. AnswersAnnounced'
    BY <1>1 DEF AnswersAnnounced, Free
  <1>3. QED
    BY <1>2 DEF ReadOrReloaded, StaleIsReloaded

\* Every step keeps the reload on its way.
LEMMA ReloadStep == PromptAnswers /\ ReloadInv /\ [Next]_vars => ReloadInv'
  <1> SUFFICES ASSUME PromptAnswers, ReloadInv, [Next]_vars
               PROVE  ReloadInv'
    OBVIOUS
  <1> USE DEF ReloadInv
  <1>0. TypeOK'
    BY TypeStep
  <1>1. \A kind, r, c : \A j \in Writes(kind, r, c) : j.at = "sent"
    BY DEF Writes
  <1>2. ASSUME NEW r \in Recs,
               Schedule(r) \/ ForceSchedule(r) \/ StopRecording(r) \/ RemoveRecording(r)
                 \/ UpdateAutoDeletePolicy(r) \/ CaptureEnds(r) \/ CaptureFails(r)
        PROVE  ReloadInv'
    <2>1. UNCHANGED <<db, mem, loading, events, debounce>>
      BY <1>2 DEF Schedule, ForceSchedule, StopRecording, RemoveRecording, UpdateAutoDeletePolicy,
         CaptureEnds, CaptureFails, notices
    <2>2. PICK new : Place(new, {}) /\ \A j \in new : j.do \in {"book", "check"} \/ j.at = "sent"
      <3>1. CASE Schedule(r) \/ ForceSchedule(r)
        BY <3>1 DEF Schedule, ForceSchedule, Begin, Adding
      <3>2. CASE StopRecording(r) \/ RemoveRecording(r) \/ UpdateAutoDeletePolicy(r)
        BY <1>1, <3>2 DEF StopRecording, RemoveRecording, UpdateAutoDeletePolicy, Begin
      <3>3. CASE CaptureEnds(r)
        BY <1>1, <3>3 DEF CaptureEnds
      <3>4. CASE CaptureFails(r)
        <4>1. \A j \in Writes("fail", r, "failed") \cup Writes("complete", r, "completed") :
                 j.at = "sent"
          BY <1>1
        <4>2. QED
          BY <3>4, <4>1 DEF CaptureFails
      <3>5. QED
        BY <1>2, <3>1, <3>2, <3>3, <3>4
    <2>3. QED
      BY <1>0, <2>1, <2>2, BeginningKeeps
  <1>3. ASSUME NEW r \in Recs, WindowBegins(r) PROVE ReloadInv'
    BY <1>0, <1>3 DEF WindowBegins, notices, AnswersAnnounced, ReadOrReloaded, StaleIsReloaded
  <1>4. ASSUME NEW s \in Slots, DbWrites(s) PROVE ReloadInv'
    <2>1. events' > 0
      BY <1>4 DEF DbWrites, TypeOK
    <2>2. QED
      BY <1>0, <2>1 DEF AnswersAnnounced, ReadOrReloaded, StaleIsReloaded
  <1>5. ASSUME NEW s \in Slots, BookReply(s) PROVE ReloadInv'
    <2>1. PICK new : Place(new, {s}) /\ \A j \in new : j.at = "sent"
      BY <1>5 DEF BookReply, Adding
    <2>2. UNCHANGED <<db, mem, loading, events, debounce>>
      BY <1>5 DEF BookReply, notices
    <2>3. QED
      BY <1>0, <2>1, <2>2, BeginningKeeps
  <1>6. ASSUME NEW s \in Slots, CheckReply(s) PROVE ReloadInv'
    <2> DEFINE new == UNION {Writes("start", r, "recording") :
                               r \in {q \in due : jobs[s].list[q] = "scheduled"}}
    <2>1. \A j \in new : j.at = "sent"
      BY <1>1
    <2>2. Place(new, {s}) /\ UNCHANGED <<db, mem, loading, events, debounce>>
      BY <1>6 DEF CheckReply, notices
    <2> HIDE DEF new
    <2>3. QED
      BY <1>0, <2>1, <2>2, BeginningKeeps
  <1>7. ASSUME NEW s \in Slots, WriteReply(s) PROVE ReloadInv'
    <2>1. /\ jobs[s].do \notin {"nothing", "book", "check"} /\ jobs[s].at = "done"
          /\ Place({}, {s}) /\ UNCHANGED <<db, events, debounce, loading>>
      BY <1>7 DEF WriteReply, TypeOK, Job, notices
    <2>2. events' > 0 \/ debounce'
      BY <2>1 DEF AnswersAnnounced
    <2>3. QED
      BY <1>0, <2>2 DEF AnswersAnnounced, ReadOrReloaded, StaleIsReloaded
  <1>8. CASE Tick
    <2>1. \A j \in Checking : j.do = "check"
      BY DEF Checking
    <2>2. Place(Checking, {}) /\ UNCHANGED <<db, mem, loading, events, debounce>>
      BY <1>8 DEF Tick, Begin, notices
    <2>3. QED
      BY <1>0, <2>1, <2>2, BeginningKeeps
  <1>9. CASE EventArrives
    BY <1>0, <1>9 DEF EventArrives, AnswersAnnounced, ReadOrReloaded, StaleIsReloaded
  <1>10. CASE Invalidate
    <2>1. \A s \in Slots : jobs'[s].do = "nothing"
      BY <1>10 DEF Invalidate, Busy, Free
    <2>2. loading'.at = "asked"
      BY <1>10 DEF Invalidate, NotLoading
    <2>3. QED
      BY <1>0, <2>1, <2>2 DEF AnswersAnnounced, ReadOrReloaded, StaleIsReloaded
  <1>11. CASE LoadReads
    BY <1>0, <1>11 DEF LoadReads, AnswersAnnounced, ReadOrReloaded, StaleIsReloaded
  <1>12. CASE LoadEnds
    BY <1>0, <1>12 DEF LoadEnds, NotLoading, AnswersAnnounced, ReadOrReloaded, StaleIsReloaded
  <1>13. CASE UNCHANGED vars
    BY <1>0, <1>13 DEF vars, AnswersAnnounced, ReadOrReloaded, StaleIsReloaded
  <1>14. QED
    BY <1>2, <1>3, <1>4, <1>5, <1>6, <1>7, <1>8, <1>9, <1>10, <1>11, <1>12, <1>13 DEF Next, Reply

\* When the core answers within the debounce, a list that handlers overwrote with
\* what they had computed earlier is always about to be replaced by the rows.
THEOREM MemoryAlwaysCatchesUp ==
  ASSUME PromptAnswers
  PROVE  Spec => []MemoryCatchesUp
  <1>1. Init => ReloadInv
    BY ReloadInit
  <1>2. ReloadInv /\ [Next]_vars => ReloadInv'
    BY ReloadStep
  <1>3. ReloadInv => MemoryCatchesUp
    BY DEF ReloadInv, StaleIsReloaded, MemoryCatchesUp
  <1>4. QED
    BY <1>1, <1>2, <1>3, PTL DEF Spec

-----------------------------------------------------------------------------
(* Recurring recordings: none twice                                        *)

Slot(i) == <<i.show, i.start>>

\* What an expansion has still to add is not in the list, one per broadcast.
ComingIsNew ==
    /\ \A i \in coming, s \in singles : Slot(i) # Slot(s)
    /\ \A i, j \in coming : Slot(i) = Slot(j) => i = j

NoSecondCopy ==
    /\ recurring \subseteq Recurring
    /\ \A i \in coming : i.start \in Int /\ i.end \in Int
    /\ ComingIsNew
    /\ OncePerSlot

LEMMA NoSecondCopyInit == ExpansionInit => NoSecondCopy
  BY DEF ExpansionInit, NoSecondCopy, ComingIsNew, OncePerSlot

\* Two instances of the same show at the same time are the same: a show has one
\* recurring recording, and the start tells the day.
LEMMA InstancesDiffer ==
  ASSUME recurring \subseteq Recurring, hour \in Int
  PROVE  /\ \A i \in Instances : i.start \in Int /\ i.end \in Int
         /\ \A i \in Instances, s \in singles : Slot(i) # Slot(s)
         /\ \A i, j \in Instances : Slot(i) = Slot(j) => i = j
  <1> DEFINE today == hour \div Day
             make(r, day) == [show |-> r.show, start |-> At(day, r.start), end |-> InstanceEnd(r, day)]
  <1>0. Day \in Nat \ {0} /\ today \in Int
    BY ExpansionAssumption
  <1>1. ASSUME NEW i \in Instances
        PROVE  \E r \in recurring, day \in today..today + Week - 1 :
                  i = make(r, day) /\ ~AlreadyStored(r, day)
    BY DEF Instances
  <1>2. ASSUME NEW r \in recurring, NEW day \in Int
        PROVE  At(day, r.start) \in Int /\ InstanceEnd(r, day) \in Int
    <2>1. r.start \in Nat /\ r.end \in Nat
      BY ExpansionAssumption
    <2>2. \A time \in Nat : At(day, time) \in Int
      BY <1>0 DEF At
    <2>3. QED
      BY <1>0, <2>1, <2>2 DEF InstanceEnd
  <1>3. \A i \in Instances : i.start \in Int /\ i.end \in Int
    BY <1>0, <1>1, <1>2, ExpansionAssumption
  <1>4. \A i \in Instances, s \in singles : Slot(i) # Slot(s)
    BY <1>1 DEF Slot, AlreadyStored
  <1>5. ASSUME NEW i \in Instances, NEW j \in Instances, Slot(i) = Slot(j)
        PROVE  i = j
    <2>1. PICK r \in recurring, d \in today..today + Week - 1 : i = make(r, d)
      BY <1>1
    <2>2. PICK q \in recurring, e \in today..today + Week - 1 : j = make(q, e)
      BY <1>1
    <2>3. q = r
      BY <1>5, <2>1, <2>2, ExpansionAssumption DEF Slot
    <2>4. d * Day = e * Day
      <3>1. At(d, r.start) = At(e, r.start)
        BY <1>5, <2>1, <2>2, <2>3 DEF Slot
      <3>2. r.start % Day \in Int
        BY <1>0, ExpansionAssumption
      <3>3. d \in Int /\ e \in Int /\ d * Day \in Int /\ e * Day \in Int
        BY <1>0, ExpansionAssumption
      <3>4. \A x, y, z \in Int : x + z = y + z => x = y
        OBVIOUS
      <3>5. d * Day + (r.start % Day) = e * Day + (r.start % Day)
        BY <3>1 DEF At
      <3>6. QED
        BY <3>2, <3>3, <3>4, <3>5
    <2>5. InstanceEnd(r, d) = InstanceEnd(r, e) /\ At(d, r.start) = At(e, r.start)
      BY <2>4 DEF InstanceEnd, At
    <2>6. QED
      BY <2>1, <2>2, <2>3, <2>5
  <1>6. QED
    BY <1>3, <1>4, <1>5

HourTyped == hour \in Int

LEMMA HourStep == HourTyped /\ [ExpansionNext]_expansionVars => HourTyped'
  BY DEF HourTyped, ExpansionNext, ScheduleRecurring, Delete, Expand, AddInstance, TimePasses,
         Restart, expansionVars

LEMMA NoSecondCopyStep ==
  Zone = 0 /\ HourTyped /\ NoSecondCopy /\ [ExpansionNext]_expansionVars => NoSecondCopy'
  <1> SUFFICES ASSUME Zone = 0, HourTyped, NoSecondCopy, [ExpansionNext]_expansionVars
               PROVE  NoSecondCopy'
    OBVIOUS
  <1>1. ASSUME NEW r \in Recurring, ScheduleRecurring(r) PROVE NoSecondCopy'
    BY <1>1 DEF ScheduleRecurring, NoSecondCopy, ComingIsNew, OncePerSlot
  <1>2. CASE Delete
    <2>1. recurring' \subseteq recurring /\ singles' \subseteq singles /\ UNCHANGED coming
      BY <1>2 DEF Delete
    <2>2. QED
      BY <2>1 DEF NoSecondCopy, ComingIsNew, OncePerSlot
  <1>3. CASE Expand
    BY <1>3, InstancesDiffer DEF Expand, HourTyped, NoSecondCopy, ComingIsNew, OncePerSlot
  <1>4. ASSUME NEW i \in coming, AddInstance(i) PROVE NoSecondCopy'
    <2> DEFINE same == {s \in singles : s.show = i.show /\ s.start = i.start - Zone}
               new == [show |-> i.show, start |-> i.start - Zone, end |-> i.end - Zone,
                       copy |-> Cardinality(same)]
    <2>1. i.start - Zone = i.start
      BY DEF NoSecondCopy
    <2>2. same = {}
      BY <2>1 DEF NoSecondCopy, ComingIsNew, Slot
    <2>3. new.copy = 0 /\ Slot(new) = Slot(i)
      BY <2>1, <2>2, FS_EmptySet DEF Slot
    <2>4. /\ singles' = singles \cup {new} /\ coming' = coming \ {i}
          /\ UNCHANGED recurring
      BY <1>4 DEF AddInstance
    <2> HIDE DEF new
    <2>5. QED
      BY <2>3, <2>4 DEF NoSecondCopy, ComingIsNew, OncePerSlot
  <1>5. CASE TimePasses
    BY <1>5 DEF TimePasses, NoSecondCopy, ComingIsNew, OncePerSlot
  <1>6. CASE Restart
    BY <1>6 DEF Restart, NoSecondCopy, ComingIsNew, OncePerSlot
  <1>7. CASE UNCHANGED expansionVars
    BY <1>7 DEF expansionVars, NoSecondCopy, ComingIsNew, OncePerSlot
  <1>8. QED
    BY <1>1, <1>2, <1>3, <1>4, <1>5, <1>6, <1>7 DEF ExpansionNext

\* On a device whose clock is UTC no broadcast is ever scheduled twice, whatever
\* expansions, deletions and restarts follow one another.
THEOREM InstancesOnceInUtc == ExpansionSpec => [](Zone = 0 => OncePerSlot)
  <1> DEFINE Good == Zone = 0 => NoSecondCopy
  <1>1. ExpansionInit => HourTyped /\ Good
    BY NoSecondCopyInit DEF ExpansionInit, HourTyped
  <1>2. HourTyped /\ Good /\ [ExpansionNext]_expansionVars => HourTyped' /\ Good'
    BY HourStep, NoSecondCopyStep
  <1>3. Good => (Zone = 0 => OncePerSlot)
    BY DEF NoSecondCopy
  <1>4. QED
    BY <1>1, <1>2, <1>3, PTL DEF ExpansionSpec

-----------------------------------------------------------------------------
(* Recurring recordings: none missing                                      *)

\* The quotient and the remainder by any length of a day.
LEMMA DivMod ==
  ASSUME NEW d \in Nat \ {0}, NEW x \in Int
  PROVE  /\ x \div d \in Int /\ x % d \in Int
         /\ x = (x \div d) * d + (x % d)
         /\ 0 <= x % d /\ x % d < d
  OBVIOUS

\* A multiple of d closer to zero than d is zero.
LEMMA FewerThanADay ==
  ASSUME NEW d \in Nat \ {0}, NEW m \in Int, m * d < d, -d < m * d
  PROVE  m = 0
  <1>1. CASE m >= 1
    <2>1. m * d >= d
      BY <1>1
    <2>2. QED
      BY <2>1
  <1>2. CASE m <= -1
    <2>1. m * d <= -d
      BY <1>2
    <2>2. QED
      BY <2>1
  <1>3. QED
    BY <1>1, <1>2

\* A quotient is told by what it leaves.
LEMMA Quotient ==
  ASSUME NEW d \in Nat \ {0}, NEW x \in Int, NEW q \in Int, q * d <= x, x < q * d + d
  PROVE  x \div d = q
  <1> DEFINE p == x \div d
  <1>1. p \in Int /\ p * d <= x /\ x < p * d + d
    BY DivMod
  <1> HIDE DEF p
  <1>2. (p - q) * d = p * d - q * d
    BY <1>1
  <1>3. p - q = 0
    BY <1>1, <1>2, FewerThanADay
  <1>4. QED
    BY <1>1, <1>3 DEF p

\* The time of day, on the day a moment falls on, is that moment.
LEMMA AtItsDay ==
  ASSUME NEW s \in Nat, NEW k \in Int
  PROVE  /\ (s + k * Day) \div Day = (s \div Day) + k
         /\ At((s \div Day) + k, s) = s + k * Day
  <1> DEFINE q == s \div Day
             x == s + k * Day
  <1>0. Day \in Nat \ {0} /\ Day \in Int
    BY ExpansionAssumption
  <1>1. /\ q \in Int /\ s % Day \in Int /\ s = q * Day + (s % Day)
        /\ 0 <= s % Day /\ s % Day < Day
    BY <1>0, DivMod
  <1>2. (q + k) * Day = q * Day + k * Day
    BY <1>0, <1>1
  <1>3. k * Day \in Int /\ q * Day \in Int
    BY <1>0, <1>1
  <1>4. At(q + k, s) = x
    BY <1>1, <1>2, <1>3 DEF At
  <1>5. x \in Int /\ q + k \in Int /\ (q + k) * Day <= x /\ x < (q + k) * Day + Day
    BY <1>0, <1>1, <1>2, <1>3
  <1> HIDE DEF q, x
  <1>6. x \div Day = q + k
    BY <1>0, <1>5, Quotient
  <1>7. QED
    BY <1>4, <1>6 DEF q, x

\* Two moments less than a day apart fall on one day or on the next.
LEMMA OneMidnight ==
  ASSUME NEW d \in Nat \ {0}, NEW p \in Int, NEW q \in Int, NEW a \in 0..d - 1, NEW b \in 0..d - 1,
         NEW s \in Int, NEW e \in Int, s = p * d + a, e = q * d + b, s < e, e - s <= d
  PROVE  \/ q * d - p * d = 0 /\ a < b
         \/ q * d - p * d = d /\ b <= a
  <1> DEFINE x == p * d
             y == q * d
  <1>1. x \in Int /\ y \in Int /\ (q - p) * d = y - x /\ (q - p - 1) * d = y - x - d
    OBVIOUS
  <1>2. s = x + a /\ e = y + b
    OBVIOUS
  <1> HIDE DEF x, y
  <1>3. y - x = (e - s) + a - b
    BY <1>1, <1>2
  <1>4. -d < y - x /\ y - x < d + d
    BY <1>3
  <1>5. CASE y - x <= 0
    <2>1. (q - p) * d < d /\ -d < (q - p) * d
      BY <1>1, <1>4, <1>5
    <2>2. q - p = 0
      BY <2>1, FewerThanADay
    <2>3. y - x = 0
      BY <1>1, <2>2
    <2>4. QED
      BY <1>3, <2>3 DEF x, y
  <1>6. CASE y - x > 0
    <2>1. (q - p - 1) * d < d /\ -d < (q - p - 1) * d
      BY <1>1, <1>4, <1>6
    <2>2. q - p - 1 = 0
      BY <2>1, FewerThanADay
    <2>3. y - x = d
      BY <1>1, <2>2
    <2>4. QED
      BY <1>3, <2>3 DEF x, y
  <1>7. QED
    BY <1>1, <1>5, <1>6

\* An instance lasts as long as its recurring recording, midnight or not.
LEMMA InstanceLength ==
  ASSUME NEW r \in Recurring, r.end - r.start <= Day, NEW day \in Int
  PROVE  /\ At(day, r.start) \in Int
         /\ InstanceEnd(r, day) = At(day, r.start) + (r.end - r.start)
  <1> DEFINE s == r.start
             e == r.end
             p == s \div Day
             q == e \div Day
             a == s % Day
             b == e % Day
             x == day * Day
  <1>0. Day \in Nat \ {0} /\ s \in Nat /\ e \in Nat /\ s < e /\ e - s <= Day /\ x \in Int
    BY ExpansionAssumption
  <1>1. \A t \in Int : /\ t \div Day \in Int /\ t % Day \in 0..Day - 1
                      /\ t = (t \div Day) * Day + (t % Day)
    <2> TAKE t \in Int
    <2>1. /\ t \div Day \in Int /\ t % Day \in Int /\ t = (t \div Day) * Day + (t % Day)
          /\ 0 <= t % Day /\ t % Day < Day
      BY <1>0, DivMod
    <2>2. QED
      BY <1>0, <2>1
  <1>2. /\ p \in Int /\ a \in 0..Day - 1 /\ s = p * Day + a
        /\ q \in Int /\ b \in 0..Day - 1 /\ e = q * Day + b
    <2>1. s \in Int /\ e \in Int
      BY <1>0
    <2>2. QED
      BY <1>1, <2>1
  <1>3. /\ At(day, s) = x + a
        /\ InstanceEnd(r, day) = IF x + b <= x + a THEN x + b + Day ELSE x + b
    BY DEF At, InstanceEnd
  <1> HIDE DEF s, e, p, q, a, b, x
  <1>4. p * Day \in Int /\ q * Day \in Int
    BY <1>0, <1>2
  <1>5. \/ q * Day - p * Day = 0 /\ a < b
        \/ q * Day - p * Day = Day /\ b <= a
    BY <1>0, <1>2, OneMidnight
  <1>6. At(day, s) \in Int /\ InstanceEnd(r, day) = At(day, s) + (e - s)
    BY <1>0, <1>2, <1>3, <1>4, <1>5
  <1>7. QED
    BY <1>6 DEF s, e

\* What the invariant is made of.
Typed(i) == i.start \in Int /\ i.end \in Int

\* What is scheduled for a show lasts as long as its recurring recording.
AsLong ==
    \A i \in singles \cup coming :
        /\ Typed(i)
        /\ \E r \in Recurring : r.show = i.show /\ i.end = i.start + (r.end - r.start)

\* The broadcasts the week needs of r, each the recording moved by whole days.
Needed(r, k) ==
    LET day == (r.start + k * Day) \div Day
    IN  /\ day \in hour \div Day..hour \div Day + Week - 1
        /\ day % Week \in r.days
        /\ r.end + k * Day >= hour

Covered(r, k, set) ==
    \E i \in set : i.show = r.show /\ i.start = r.start + k * Day /\ i.end = r.end + k * Day

\* What the last expansion found missing is on its way or there.
WeekOnItsWay ==
    asOf = hour => \A r \in recurring, k \in Int : Needed(r, k) => Covered(r, k, singles \cup coming)

WeekInv ==
    /\ hour \in Nat /\ asOf \in Int /\ asOf <= hour
    /\ recurring \subseteq Recurring
    /\ AsLong
    /\ WeekOnItsWay

\* The core gives every instance an end within a day of its start.
WithinADay == \A r \in Recurring : r.end - r.start <= Day

LEMMA WeekInit == ExpansionInit => WeekInv
  BY DEF ExpansionInit, WeekInv, AsLong, WeekOnItsWay

\* An expansion finds every broadcast that is missing, and only such as last as
\* long as their recurring recording.
LEMMA ExpansionCovers ==
  ASSUME WithinADay, WeekInv
  PROVE  /\ \A i \in Instances :
               /\ Typed(i)
               /\ \E r \in Recurring : r.show = i.show /\ i.end = i.start + (r.end - r.start)
         /\ \A r \in recurring, k \in Int : Needed(r, k) => Covered(r, k, singles \cup Instances)
  <1> DEFINE today == hour \div Day
             make(r, day) == [show |-> r.show, start |-> At(day, r.start), end |-> InstanceEnd(r, day)]
  <1> USE DEF WeekInv
  <1>0. Day \in Nat \ {0} /\ today \in Int /\ Week \in Nat
    BY ExpansionAssumption
  <1>1. \A r \in Recurring : r.start \in Nat /\ r.end \in Nat
    BY ExpansionAssumption
  <1>2. ASSUME NEW i \in Instances
        PROVE  /\ Typed(i)
               /\ \E r \in Recurring : r.show = i.show /\ i.end = i.start + (r.end - r.start)
    <2>1. PICK r \in recurring, day \in today..today + Week - 1 : i = make(r, day)
      BY DEF Instances
    <2>2. r \in Recurring /\ day \in Int /\ r.end - r.start <= Day
      BY <1>0 DEF WithinADay
    <2>3. At(day, r.start) \in Int /\ InstanceEnd(r, day) = At(day, r.start) + (r.end - r.start)
      BY <2>2, InstanceLength
    <2>4. i.show = r.show /\ i.start = At(day, r.start) /\ i.end = InstanceEnd(r, day)
      BY <2>1
    <2>5. QED
      BY <1>1, <2>2, <2>3, <2>4 DEF Typed
  <1>3. ASSUME NEW r \in recurring, NEW k \in Int, Needed(r, k)
        PROVE  Covered(r, k, singles \cup Instances)
    <2> DEFINE day == (r.start \div Day) + k
    <2>1. r \in Recurring /\ r.start \in Nat /\ r.end \in Nat /\ r.end - r.start <= Day
      BY <1>1 DEF WithinADay
    <2>2. (r.start + k * Day) \div Day = day /\ At(day, r.start) = r.start + k * Day
      BY <2>1, AtItsDay
    <2>3. day \in today..today + Week - 1 /\ day % Week \in r.days /\ r.end + k * Day >= hour
      BY <1>3, <2>2 DEF Needed
    <2> HIDE DEF day
    <2>4. day \in Int /\ k * Day \in Int
      BY <1>0, <2>3
    <2>5. InstanceEnd(r, day) = r.end + k * Day
      <3>1. InstanceEnd(r, day) = At(day, r.start) + (r.end - r.start)
        BY <2>1, <2>4, InstanceLength
      <3>2. QED
        BY <2>1, <2>2, <2>4, <3>1
    <2>6. CASE AlreadyStored(r, day)
      <3>1. PICK s \in singles : s.show = r.show /\ s.start = r.start + k * Day
        BY <2>2, <2>6 DEF AlreadyStored
      <3>2. PICK q \in Recurring : q.show = s.show /\ s.end = s.start + (q.end - q.start)
        BY DEF AsLong
      <3>3. q = r
        BY <2>1, <3>1, <3>2, ExpansionAssumption
      <3>4. s.end = r.end + k * Day
        BY <2>1, <2>4, <3>1, <3>2, <3>3
      <3>5. QED
        BY <3>1, <3>4 DEF Covered
    <2>7. CASE ~AlreadyStored(r, day)
      <3>1. make(r, day) \in Instances
        BY <2>3, <2>5, <2>7 DEF Instances
      <3>2. make(r, day).show = r.show /\ make(r, day).start = At(day, r.start)
            /\ make(r, day).end = InstanceEnd(r, day)
        OBVIOUS
      <3>3. QED
        BY <2>2, <2>5, <3>1, <3>2 DEF Covered
    <2>8. QED
      BY <2>6, <2>7
  <1>4. QED
    BY <1>2, <1>3

\* Every step keeps the week on its way; the last expansion of the hour covers it.
LEMMA WeekStep == Zone = 0 /\ WithinADay /\ WeekInv /\ [ExpansionNext]_expansionVars => WeekInv'
  <1> SUFFICES ASSUME Zone = 0, WithinADay, WeekInv, [ExpansionNext]_expansionVars
               PROVE  WeekInv'
    OBVIOUS
  <1> USE DEF WeekInv
  <1>1. ASSUME NEW r \in Recurring, ScheduleRecurring(r) PROVE WeekInv'
    BY <1>1 DEF ScheduleRecurring, AsLong, Typed, WeekOnItsWay
  <1>2. CASE Delete
    BY <1>2 DEF Delete, AsLong, Typed, WeekOnItsWay
  <1>3. CASE Expand
    <2>1. /\ coming' = Instances /\ asOf' = hour
          /\ UNCHANGED <<hour, recurring, singles>>
      BY <1>3 DEF Expand
    <2>2. AsLong'
      BY <2>1, ExpansionCovers DEF AsLong, Typed
    <2>3. WeekOnItsWay'
      BY <2>1, ExpansionCovers DEF WeekOnItsWay, Needed
    <2>4. QED
      BY <2>1, <2>2, <2>3
  <1>4. ASSUME NEW i \in coming, AddInstance(i) PROVE WeekInv'
    <2> DEFINE new == [show |-> i.show, start |-> i.start - Zone, end |-> i.end - Zone,
                       copy |-> Cardinality({s \in singles : s.show = i.show
                                                             /\ s.start = i.start - Zone})]
    <2>1. Typed(i)
      BY DEF AsLong
    <2>2. new.show = i.show /\ new.start = i.start /\ new.end = i.end
      BY <2>1 DEF Typed
    <2>3. /\ singles' = singles \cup {new} /\ coming' = coming \ {i}
          /\ UNCHANGED <<hour, recurring, asOf>>
      BY <1>4 DEF AddInstance
    <2> HIDE DEF new
    <2>4. AsLong'
      BY <2>1, <2>2, <2>3 DEF AsLong, Typed
    <2>5. \A r, k : Covered(r, k, singles \cup coming) => Covered(r, k, singles \cup coming)'
      BY <2>2, <2>3 DEF Covered
    <2>6. WeekOnItsWay'
      BY <2>3, <2>5 DEF WeekOnItsWay, Needed
    <2>7. QED
      BY <2>3, <2>4, <2>6
  <1>5. CASE TimePasses
    BY <1>5 DEF TimePasses, AsLong, Typed, WeekOnItsWay
  <1>6. CASE Restart
    BY <1>6 DEF Restart, AsLong, Typed, WeekOnItsWay
  <1>7. CASE UNCHANGED expansionVars
    BY <1>7 DEF expansionVars, AsLong, Typed, WeekOnItsWay, Needed, Covered
  <1>8. QED
    BY <1>1, <1>2, <1>3, <1>4, <1>5, <1>6, <1>7 DEF ExpansionNext

LEMMA WeekCovered == WeekInv => WeekIsScheduled
  BY ExpansionAssumption DEF WeekInv, WeekOnItsWay, WeekIsScheduled, Needed, Covered

\* On a device whose clock is UTC, when recordings last at most a day, an
\* expansion leaves no broadcast of the week unscheduled, and schedules each from
\* its start to its end.
THEOREM WeekScheduledInUtc ==
  ASSUME Zone = 0, WithinADay
  PROVE  ExpansionSpec => []WeekIsScheduled
  <1>1. WeekInv /\ [ExpansionNext]_expansionVars => WeekInv'
    BY WeekStep
  <1>2. QED
    BY <1>1, WeekInit, WeekCovered, PTL DEF ExpansionSpec

=============================================================================
