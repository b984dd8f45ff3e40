-------------------------- MODULE TransferQueue_proofs --------------------------
(***************************************************************************)
(* Proofs about the transfer queue, for any number of tasks, invocations   *)
(* of _processQueue, presses and restarts: one loop runs at a time, nothing *)
(* claims a transfer that has not happened, no task is lost, and a queued   *)
(* task has somebody who gets to it.                                        *)
(***************************************************************************)
EXTENDS TransferQueue, TLAPS

USE DEF session, loaded, NoTasks

Place == [at : RunnerPlaces, task : Tasks \cup {0}]

\* _processing is set whenever an invocation is past its first line: without
\* it a second invocation could enter while the first one awaits.
GuardIsSet == \A r \in Runners : run[r].at # "idle" => processing

OneLoop ==
    /\ run \in [Runners -> Place]
    /\ GuardIsSet
    /\ AtMostOneTransfer

LEMMA InitOneLoop == Init => OneLoop
  BY DEF Init, OneLoop, Place, RunnerPlaces, Idle, GuardIsSet, AtMostOneTransfer

LEMMA LoopUntouched == OneLoop /\ UNCHANGED loop => OneLoop'
  BY DEF OneLoop, loop, GuardIsSet, AtMostOneTransfer

\* _processQueue called without await: it enters only if nobody is inside.
LEMMA KickOneLoop == OneLoop /\ Kick => OneLoop'
  <1> SUFFICES ASSUME OneLoop, Kick PROVE OneLoop'
    OBVIOUS
  <1>1. CASE processing
    BY <1>1, LoopUntouched DEF Kick
  <1>2. CASE ~processing
    <2>1. \A r \in Runners : run[r].at = "idle"
      BY <1>2 DEF OneLoop, GuardIsSet
    <2>2. PICK r \in Runners : run' = [run EXCEPT ![r] = [at |-> "scan", task |-> 0]]
      BY <1>2 DEF Kick
    <2>3. processing'
      BY <1>2 DEF Kick
    <2>4. QED
      BY <2>1, <2>2, <2>3
      DEF OneLoop, Place, RunnerPlaces, GuardIsSet, AtMostOneTransfer
  <1>3. QED
    BY <1>1, <1>2

\* The invocation that is inside moves on, and the guard stays set.
LEMMA MoveOneLoop ==
  ASSUME OneLoop, NEW r \in Runners, run[r].at # "idle",
         NEW place \in Place, run' = [run EXCEPT ![r] = place], UNCHANGED processing
  PROVE  OneLoop'
  BY DEF OneLoop, GuardIsSet, AtMostOneTransfer

LEMMA GotoOneLoop ==
  ASSUME OneLoop, NEW r \in Runners, run[r].at # "idle",
         NEW at \in RunnerPlaces, Goto(r, at), UNCHANGED processing
  PROVE  OneLoop'
  <1>1. [run[r] EXCEPT !.at = at] \in Place
    BY DEF OneLoop, Place
  <1>2. run' = [run EXCEPT ![r] = [run[r] EXCEPT !.at = at]]
    BY DEF Goto
  <1>3. QED
    BY <1>1, <1>2, MoveOneLoop

\* The invocation that is inside leaves: it was the only one.
LEMMA EscapeOneLoop ==
  ASSUME OneLoop, NEW r \in Runners, run[r].at # "idle", Escape(r)
  PROVE  OneLoop'
  <1>1. \A s \in Runners : s # r => run[s].at = "idle"
    BY DEF OneLoop, AtMostOneTransfer
  <1>2. \A s \in Runners : run'[s].at = "idle"
    BY <1>1 DEF Escape, Idle, OneLoop
  <1>3. run' \in [Runners -> Place]
    BY DEF Escape, Idle, OneLoop, Place, RunnerPlaces
  <1>4. QED
    BY <1>2, <1>3 DEF OneLoop, GuardIsSet, AtMostOneTransfer

LEMMA SetStatusOneLoop ==
  ASSUME OneLoop, NEW r \in Runners, run[r].at # "idle",
         NEW status, NEW place \in RunnerPlaces, NEW others,
         SetStatus(r, status, place, others), UNCHANGED processing
  PROVE  OneLoop'
  <1>1. Goto(r, "scan") \/ Goto(r, place)
    BY DEF SetStatus
  <1>2. QED
    BY <1>1, GotoOneLoop DEF RunnerPlaces

LEMMA LoopOneLoop ==
  ASSUME OneLoop, NEW r \in Runners, Loop(r)
  PROVE  OneLoop'
  <1>1. ASSUME NEW t \in Tasks, Pick(r, t) PROVE OneLoop'
    <2>1. [at |-> "mark", task |-> t] \in Place
      BY DEF Place, RunnerPlaces
    <2>2. QED
      BY <1>1, <2>1, MoveOneLoop DEF Pick
  <1>2. CASE Leave(r)
    BY <1>2, EscapeOneLoop DEF Leave
  <1>3. CASE Fails(r)
    BY <1>3, SetStatusOneLoop DEF Fails, RunnerPlaces
  <1>4. CASE Connect(r)
    BY <1>4, GotoOneLoop DEF Connect, RunnerPlaces
  <1>5. CASE Lookup(r)
    BY <1>5, GotoOneLoop DEF Lookup, RunnerPlaces
  <1>5a. CASE SkippedOnWeb(r)
    BY <1>5a, SetStatusOneLoop DEF SkippedOnWeb, RunnerPlaces
  <1>6. CASE Progress(r)
    BY <1>6, LoopUntouched DEF Progress
  <1>7. CASE TransferEnds(r)
    BY <1>7, GotoOneLoop DEF TransferEnds, RunnerPlaces
  <1>8. CASE Stamp(r)
    BY <1>8, GotoOneLoop DEF Stamp, RunnerPlaces
  <1>9. CASE Complete(r)
    BY <1>9, SetStatusOneLoop DEF Complete, RunnerPlaces
  <1>10. ASSUME NEW c \in calls, Resumes(r, c) PROVE OneLoop'
    <2>1. CASE run[r].at = "mark" /\ Goto(r, "connect") /\ UNCHANGED processing
      BY <2>1, GotoOneLoop DEF RunnerPlaces
    <2>2. CASE run[r].at = "stamp" /\ UNCHANGED processing
                 /\ SetStatus(r, "completed", "complete", calls \ {c})
      BY <2>2, SetStatusOneLoop DEF RunnerPlaces
    <2>3. CASE run[r].at \in {"complete", "fail"} /\ Goto(r, "scan") /\ UNCHANGED processing
      BY <2>3, GotoOneLoop DEF RunnerPlaces
    <2>4. CASE run[r].at = "complete" /\ UNCHANGED processing
                 /\ SetStatus(r, "failed", "fail", calls \ {c})
      BY <2>4, SetStatusOneLoop DEF RunnerPlaces
    <2>5. CASE run[r].at \in {"mark", "fail"} /\ Escape(r)
      BY <2>5, EscapeOneLoop
    <2>6. QED
      BY <1>10, <2>1, <2>2, <2>3, <2>4, <2>5 DEF Resumes
  <1>11. QED
    BY <1>1, <1>2, <1>3, <1>4, <1>5, <1>5a, <1>6, <1>7, <1>8, <1>9, <1>10 DEF Loop

LEMMA NextOneLoop == OneLoop /\ [Next]_vars => OneLoop'
  <1> SUFFICES ASSUME OneLoop, [Next]_vars PROVE OneLoop'
    OBVIOUS
  <1>0. CASE ReadRows
    BY <1>0, LoopUntouched DEF ReadRows
  <1>1. CASE Load
    BY <1>1, KickOneLoop DEF Load
  <1>2. CASE Restart
    BY <1>2 DEF Restart, OneLoop, Place, RunnerPlaces, Idle, GuardIsSet, AtMostOneTransfer
  <1>3. CASE Queue
    BY <1>3, LoopUntouched DEF Queue
  <1>4. ASSUME NEW t \in Tasks, Pause(t) \/ Resume(t) \/ Cancel(t) \/ LoseRecording(t)
        PROVE  OneLoop'
    BY <1>4, LoopUntouched DEF Pause, Resume, Cancel, LoseRecording
  <1>5. ASSUME NEW c \in calls, DbRuns(c) PROVE OneLoop'
    BY <1>5, LoopUntouched DEF DbRuns
  <1>6. ASSUME NEW c \in calls, Reply(c) PROVE OneLoop'
    <2>1. UNCHANGED loop \/ Kick
      BY <1>6 DEF Reply, Queued, Paused, Resumed, Cancelled
    <2>2. QED
      BY <2>1, LoopUntouched, KickOneLoop
  <1>7. ASSUME NEW r \in Runners, Loop(r) PROVE OneLoop'
    BY <1>7, LoopOneLoop
  <1>8. CASE UNCHANGED vars
    BY <1>8, LoopUntouched DEF vars
  <1>9. QED
    BY <1>0, <1>1, <1>2, <1>3, <1>4, <1>5, <1>6, <1>7, <1>8 DEF Next

\* Whatever is queued, resumed, cancelled or answered late, and however often
\* the app is restarted, _processQueue is never inside its loop twice
\* ("Processes one transfer at a time").
THEOREM OneTransferAtATime == Spec => []AtMostOneTransfer
  <1>1. OneLoop => AtMostOneTransfer
    BY DEF OneLoop
  <1>2. QED
    BY <1>1, InitOneLoop, NextOneLoop, PTL DEF Spec

-----------------------------------------------------------------------------
(* Type correctness.  The loop uses its task wherever it is but at "scan". *)

InHand == \A r \in Runners : run[r].at \notin {"idle", "scan"} => run[r].task \in Tasks

Typed == TypeOK /\ InHand

LoopTyped == processing \in BOOLEAN /\ run \in [Runners -> Place] /\ InHand

Handlers == Runners \cup {"queue", "pause", "resume", "cancel"}
Saved == {"queued", "active", "paused", "completed", "failed"}

LEMMA AllIdleTyped ==
  ASSUME run' = [r \in Runners |-> Idle], processing' = FALSE PROVE LoopTyped'
  <1>1. Idle \in Place
    BY DEF Idle, Place, RunnerPlaces
  <1>2. \A r \in Runners : run'[r].at = "idle"
    BY DEF Idle
  <1>3. QED
    BY <1>1, <1>2 DEF LoopTyped, InHand

LEMMA TypedInit == Init => Typed
  <1> SUFFICES ASSUME Init PROVE Typed
    OBVIOUS
  <1>1. Idle \in Place
    BY DEF Idle, Place, RunnerPlaces
  <1>2. run \in [Runners -> Place] /\ \A r \in Runners : run[r].at = "idle"
    BY <1>1 DEF Init, Idle
  <1>3. created \in 0..NTasks /\ presses \in 0..MaxPresses /\ restarts \in 0..MaxRestarts
    BY QueueAssumption DEF Init
  <1>4. QED
    BY <1>2, <1>3 DEF Init, Typed, TypeOK, InHand, MemStatus, RowStatus, Place

LEMMA SentTyped ==
  ASSUME NEW who \in Handlers, NEW op \in {"save", "delete", "stamp"},
         NEW t \in Tasks, NEW status \in Saved \cup {"none"}
  PROVE  Sent(who, op, t, status) \in Call
  BY DEF Sent, Call, RowOf, RowStatus, Handlers, Saved

LEMMA KickTyped == Typed /\ Kick => LoopTyped'
  <1> SUFFICES ASSUME Typed, Kick PROVE LoopTyped'
    OBVIOUS
  <1>1. CASE UNCHANGED loop
    BY <1>1 DEF Typed, TypeOK, InHand, loop, LoopTyped, Place
  <1>2. CASE Kick /\ ~processing
    <2>1. PICK r \in Runners : run' = [run EXCEPT ![r] = [at |-> "scan", task |-> 0]]
      BY <1>2 DEF Kick
    <2>2. [at |-> "scan", task |-> 0] \in Place
      BY DEF Place, RunnerPlaces
    <2>3. run' \in [Runners -> Place] /\ run'[r].at = "scan"
      BY <2>1, <2>2 DEF Typed, TypeOK, Place
    <2>4. QED
      BY <1>2, <2>1, <2>3 DEF Kick, Typed, TypeOK, InHand, LoopTyped
  <1>3. QED
    BY <1>1, <1>2 DEF Kick

LEMMA GotoTyped ==
  ASSUME Typed, NEW r \in Runners, NEW at \in RunnerPlaces, Goto(r, at),
         at = "scan" \/ run[r].task \in Tasks, UNCHANGED processing
  PROVE  LoopTyped'
  BY DEF Typed, TypeOK, InHand, Goto, LoopTyped, Place

LEMMA EscapeTyped ==
  ASSUME Typed, NEW r \in Runners, Escape(r)
  PROVE  LoopTyped'
  BY DEF Typed, TypeOK, InHand, Escape, Idle, LoopTyped, Place, RunnerPlaces

LEMMA SetStatusTyped ==
  ASSUME Typed, NEW r \in Runners, run[r].at \notin {"idle", "scan"},
         NEW status \in {"completed", "failed"}, NEW place \in {"complete", "fail"},
         NEW others \in SUBSET Call, SetStatus(r, status, place, others), UNCHANGED processing
  PROVE  LoopTyped' /\ mem' \in [Tasks -> MemStatus] /\ calls' \in SUBSET Call
  <1>1. run[r].task \in Tasks
    BY DEF Typed, InHand
  <1>2. Goto(r, "scan") \/ Goto(r, place)
    BY DEF SetStatus
  <1>3. LoopTyped'
    BY <1>1, <1>2, GotoTyped DEF RunnerPlaces
  <1>4. Sent(r, "save", run[r].task, status) \in Call
    BY <1>1, SentTyped DEF Handlers, Saved
  <1>5. QED
    BY <1>3, <1>4 DEF SetStatus, Typed, TypeOK, MemStatus

LEMMA StaleCopyTyped ==
  ASSUME Typed, NEW t PROVE StaleCopy(t) \in [Tasks -> MemStatus]
  BY DEF Typed, TypeOK, StaleCopy, MemStatus

LEMMA LoopStepTyped ==
  ASSUME Typed, NEW r \in Runners, Loop(r)
  PROVE  Typed'
  <1> USE DEF Typed
  <1>1. ASSUME NEW t \in Tasks, Pick(r, t) PROVE Typed'
    <2>1. Sent(r, "save", t, "active") \in Call
      BY SentTyped DEF Handlers, Saved
    <2>2. QED
      BY <1>1, <2>1 DEF Pick, Send, TypeOK, InHand, db, history, MemStatus, RunnerPlaces
  <1>2. CASE Leave(r)
    BY <1>2, EscapeTyped DEF Leave, LoopTyped, Place, TypeOK, state, db, history
  <1>3. CASE Fails(r)
    <2>1. calls \in SUBSET Call
      BY DEF TypeOK
    <2>2. QED
      BY <1>3, <2>1, SetStatusTyped DEF Fails, LoopTyped, Place, TypeOK, db, history
  <1>4. CASE Connect(r)
    <2>1. run[r].task \in Tasks
      BY <1>4 DEF Connect, InHand
    <2>2. QED
      BY <1>4, <2>1, GotoTyped
      DEF Connect, LoopTyped, Place, RunnerPlaces, TypeOK, state, db, history
  <1>5. CASE Lookup(r)
    <2>1. run[r].task \in Tasks
      BY <1>5 DEF Lookup, InHand
    <2>2. LoopTyped'
      BY <1>5, <2>1, GotoTyped DEF Lookup, RunnerPlaces
    <2>3. mem' \in [Tasks -> MemStatus]
      BY <1>5, StaleCopyTyped DEF Lookup, TypeOK
    <2>4. QED
      BY <1>5, <2>2, <2>3 DEF Lookup, LoopTyped, Place, TypeOK, db, history
  <1>5a. CASE SkippedOnWeb(r)
    <2>1. calls \in SUBSET Call
      BY DEF TypeOK
    <2>2. QED
      BY <1>5a, <2>1, SetStatusTyped DEF SkippedOnWeb, LoopTyped, Place, TypeOK, db, history
  <1>6. CASE Progress(r)
    BY <1>6, StaleCopyTyped DEF Progress, TypeOK, InHand, db, loop, history
  <1>7. CASE TransferEnds(r)
    <2>1. run[r].task \in Tasks
      BY <1>7 DEF TransferEnds, InHand
    <2>2. QED
      BY <1>7, <2>1, GotoTyped
      DEF TransferEnds, LoopTyped, Place, RunnerPlaces, TypeOK, state, db
  <1>8. CASE Stamp(r)
    <2>1. run[r].task \in Tasks
      BY <1>8 DEF Stamp, InHand
    <2>2. Sent(r, "stamp", run[r].task, "none") \in Call
      BY <2>1, SentTyped DEF Handlers
    <2>3. QED
      BY <1>8, <2>1, <2>2, GotoTyped
      DEF Stamp, Send, LoopTyped, Place, RunnerPlaces, TypeOK, state, db, history
  <1>9. CASE Complete(r)
    <2>1. calls \in SUBSET Call
      BY DEF TypeOK
    <2>2. QED
      BY <1>9, <2>1, SetStatusTyped DEF Complete, LoopTyped, Place, TypeOK, db, history
  <1>10. ASSUME NEW c \in calls, Resumes(r, c) PROVE Typed'
    <2>1. calls \ {c} \in SUBSET Call
      BY DEF TypeOK
    <2>2. run[r].at \notin {"idle", "scan"} => run[r].task \in Tasks
      BY DEF InHand
    <2>3. /\ LoopTyped'
          /\ mem' \in [Tasks -> MemStatus]
          /\ calls' \in SUBSET Call
      <3>1. CASE run[r].at = "mark" /\ Goto(r, "connect")
                   /\ calls' = calls \ {c} /\ UNCHANGED <<mem, processing>>
        BY <2>1, <2>2, <3>1, GotoTyped DEF RunnerPlaces, TypeOK
      <3>2. CASE run[r].at \in {"stamp", "complete"} /\ UNCHANGED processing
                   /\ \E status \in {"completed", "failed"}, place \in {"complete", "fail"} :
                         SetStatus(r, status, place, calls \ {c})
        BY <2>1, <3>2, SetStatusTyped
      <3>3. CASE run[r].at \in {"complete", "fail"} /\ Goto(r, "scan")
                   /\ calls' = calls \ {c} /\ UNCHANGED <<mem, processing>>
        BY <2>1, <3>3, GotoTyped DEF RunnerPlaces, TypeOK
      <3>4. CASE Escape(r) /\ calls' = calls \ {c} /\ UNCHANGED mem
        BY <2>1, <3>4, EscapeTyped DEF TypeOK
      <3>5. QED
        BY <1>10, <3>1, <3>2, <3>3, <3>4 DEF Resumes
    <2>4. QED
      BY <1>10, <2>3 DEF Resumes, LoopTyped, Place, TypeOK, db, history
  <1>11. QED
    BY <1>1, <1>2, <1>3, <1>4, <1>5, <1>5a, <1>6, <1>7, <1>8, <1>9, <1>10 DEF Loop

LEMMA TypedStep == Typed /\ [Next]_vars => Typed'
  <1> SUFFICES ASSUME Typed, [Next]_vars PROVE Typed'
    OBVIOUS
  <1> USE DEF Typed
  <1>0. CASE ReadRows
    BY <1>0 DEF ReadRows, FromRow, TypeOK, InHand, MemStatus, RowStatus, db, loop, history
  <1>1. CASE Load
    BY <1>1, KickTyped DEF Load, LoopTyped, Place, TypeOK, MemStatus, db, history
  <1>2. CASE Restart
    <2>1. LoopTyped'
      BY <1>2, AllIdleTyped DEF Restart
    <2>2. restarts' \in 0..MaxRestarts
      BY <1>2, QueueAssumption DEF Restart, TypeOK
    <2>3. QED
      BY <1>2, <2>1, <2>2 DEF Restart, TypeOK, LoopTyped, Place, MemStatus, db
  <1>3. CASE Queue
    <2>1. created + 1 \in Tasks
      BY <1>3, QueueAssumption DEF Queue, TypeOK, Tasks
    <2>2. Sent("queue", "save", created + 1, "queued") \in Call
      BY <2>1, SentTyped DEF Handlers, Saved
    <2>3. QED
      BY <1>3, <2>1, <2>2, QueueAssumption
      DEF Queue, Send, TypeOK, InHand, Tasks, state, db, loop
  <1>4. ASSUME NEW t \in Tasks, Pause(t) \/ Resume(t) \/ Cancel(t) PROVE Typed'
    <2>1. /\ Sent("pause", "save", t, "paused") \in Call
          /\ Sent("resume", "save", t, "queued") \in Call
          /\ Sent("cancel", "delete", t, "none") \in Call
      BY SentTyped DEF Handlers, Saved
    <2>2. presses' \in 0..MaxPresses /\ UNCHANGED <<created, moved, restarts>>
      BY <1>4, QueueAssumption DEF Pause, Resume, Cancel, Press, TypeOK
    <2>3. calls' \in SUBSET Call
      BY <1>4, <2>1 DEF Pause, Resume, Cancel, Send, TypeOK
    <2>4. mem' \in [Tasks -> MemStatus] /\ UNCHANGED <<db, loop, session>>
      BY <1>4 DEF Pause, Resume, Cancel, TypeOK, MemStatus, state
    <2>5. QED
      BY <2>2, <2>3, <2>4 DEF TypeOK, InHand, db, loop
  <1>5. ASSUME NEW t \in Tasks, LoseRecording(t) PROVE Typed'
    BY <1>5 DEF LoseRecording, TypeOK, InHand, RowStatus, state, loop, history
  <1>6. ASSUME NEW c \in calls, DbRuns(c) PROVE Typed'
    <2>1. c \in Call
      BY DEF TypeOK
    <2>2. row' \in [Tasks -> RowStatus] /\ recording' \in [Tasks -> BOOLEAN]
      BY <1>6, <2>1 DEF DbRuns, RunSave, RunDelete, RunStamp, TypeOK, Call, RowStatus
    <2>3. calls' \in SUBSET Call
      <3>1. [c EXCEPT !.at = "ok"] \in Call /\ [c EXCEPT !.at = "error"] \in Call
        BY <2>1 DEF Call
      <3>2. Answer(c, "ok") \/ Answer(c, "error")
        BY <1>6 DEF DbRuns, RunSave, RunDelete, RunStamp
      <3>3. QED
        BY <3>1, <3>2 DEF Answer, TypeOK
    <2>4. QED
      BY <1>6, <2>2, <2>3 DEF DbRuns, TypeOK, InHand, state, loop, history
  <1>7. ASSUME NEW c \in calls, Reply(c) PROVE Typed'
    <2>1. c \in Call
      BY DEF TypeOK
    <2>2. UNCHANGED loop \/ Kick
      BY <1>7 DEF Reply, Queued, Paused, Resumed, Cancelled
    <2>3. LoopTyped'
      BY <2>2, KickTyped DEF TypeOK, InHand, LoopTyped, Place, loop
    <2>4. mem' \in [Tasks -> MemStatus]
      BY <1>7, <2>1 DEF Reply, Queued, Paused, Resumed, Cancelled, TypeOK, MemStatus, state, Call
    <2>5. QED
      BY <1>7, <2>3, <2>4
      DEF Reply, Queued, Paused, Resumed, Cancelled, TypeOK, LoopTyped, Place, state, db, history
  <1>8. ASSUME NEW r \in Runners, Loop(r) PROVE Typed'
    BY <1>8, LoopStepTyped
  <1>9. CASE UNCHANGED vars
    BY <1>9 DEF vars, state, db, loop, history, TypeOK, InHand
  <1>10. QED
    BY <1>0, <1>1, <1>2, <1>3, <1>4, <1>5, <1>6, <1>7, <1>8, <1>9 DEF Next

\* Type correctness: no handler meets a status, a row or a call it does not
\* know, and every loop past its first test holds a task that exists.
THEOREM TypeCorrect == Spec => []TypeOK
  <1>1. Typed => TypeOK
    BY DEF Typed
  <1>2. QED
    BY <1>1, TypedInit, TypedStep, PTL DEF Spec

-----------------------------------------------------------------------------
(* What claims a transfer: a status, a row, one read from it, a call that   *)
(* writes such a row, and a loop that is past the transfer of its task.     *)

PastTransfer == {"moved", "stamp", "complete"}

LoopHonest == \A r \in Runners : run[r].at \in PastTransfer => run[r].task \in moved
CallsHonest == \A c \in calls : c.row = "completed" => c.task \in moved

Claims == \A t \in Tasks : "completed" \in {mem[t], rows[t], row[t]} => t \in moved

Honest == Claims /\ LoopHonest /\ CallsHonest

LEMMA HonestInit == Init => Honest
  BY DEF Init, Honest, Claims, LoopHonest, CallsHonest, Idle, PastTransfer

\* What a loop does with its task when it sets a status.
LEMMA SetStatusHonest ==
  ASSUME Typed, Honest, NEW r \in Runners, run[r].at \notin {"idle", "scan"},
         NEW status \in {"completed", "failed"}, NEW place \in {"complete", "fail"},
         NEW others \in SUBSET calls, SetStatus(r, status, place, others),
         status = "completed" \/ place = "complete" => run[r].task \in moved,
         UNCHANGED <<row, rows, moved>>
  PROVE  Honest'
  <1>1. run[r].task \in Tasks
    BY DEF Typed, InHand
  <1>2. Goto(r, "scan") \/ Goto(r, place)
    BY DEF SetStatus
  <1>3. LoopHonest'
    BY <1>1, <1>2 DEF Honest, LoopHonest, Goto, PastTransfer, Typed, TypeOK
  <1>4. CASE mem[run[r].task] = "absent"
    BY <1>3, <1>4 DEF SetStatus, Honest, CallsHonest, Claims
  <1>5. CASE mem[run[r].task] # "absent"
    <2>1. mem' = [mem EXCEPT ![run[r].task] = status]
      BY <1>5 DEF SetStatus
    <2>2. Claims'
      BY <1>1, <2>1 DEF Honest, Claims, Typed, TypeOK
    <2>3. calls' = others \cup {Sent(r, "save", run[r].task, status)}
      BY <1>5 DEF SetStatus
    <2>4. CallsHonest'
      BY <2>3 DEF Honest, CallsHonest, Sent, RowOf
    <2>5. QED
      BY <1>3, <2>2, <2>4 DEF Honest
  <1>6. QED
    BY <1>4, <1>5

LEMMA GotoHonest ==
  ASSUME Typed, Honest, NEW r \in Runners, NEW at \in RunnerPlaces, Goto(r, at),
         at \in PastTransfer => run[r].task \in moved',
         moved \subseteq moved'
  PROVE  LoopHonest'
  BY DEF Typed, TypeOK, Honest, LoopHonest, Goto

LEMMA LoopStepHonest ==
  ASSUME ~web, Typed, Honest, NEW r \in Runners, Loop(r)
  PROVE  Honest'
  <1>0. Typed /\ Honest /\ calls \in SUBSET calls
    OBVIOUS
  <1>1. ASSUME NEW t \in Tasks, Pick(r, t) PROVE Honest'
    <2>1. LoopHonest'
      BY <1>1 DEF Pick, Typed, TypeOK, Honest, LoopHonest, PastTransfer, history
    <2>2. Claims'
      BY <1>1 DEF Pick, Typed, TypeOK, Honest, Claims, db, history
    <2>3. CallsHonest'
      BY <1>1 DEF Pick, Send, Sent, RowOf, Honest, CallsHonest, history
    <2>4. QED
      BY <2>1, <2>2, <2>3 DEF Honest
  <1>2. CASE Leave(r)
    BY <1>2 DEF Leave, Escape, Idle, Typed, TypeOK, Honest, LoopHonest, CallsHonest,
                Claims, PastTransfer, state, db, history
  <1>3. CASE Fails(r)
    BY <1>0, <1>3, SetStatusHonest DEF Fails, db, history
  <1>4. CASE Connect(r)
    <2>1. LoopHonest'
      BY <1>4, GotoHonest DEF Connect, RunnerPlaces, PastTransfer, history
    <2>2. QED
      BY <1>4, <2>1
      DEF Connect, Honest, CallsHonest, Claims, state, db, history
  <1>5. ASSUME Lookup(r) \/ Progress(r) PROVE Honest'
    <2>1. mem' = mem \/ mem' = StaleCopy(run[r].task)
      BY <1>5 DEF Lookup, Progress
    <2>2. Claims'
      BY <1>5, <2>1
      DEF Lookup, Progress, StaleCopy, Typed, TypeOK, Honest, Claims, db, history
    <2>3. LoopHonest'
      <3>1. CASE Lookup(r)
        BY <3>1, GotoHonest DEF Lookup, RunnerPlaces, PastTransfer, history
      <3>2. CASE Progress(r)
        BY <3>2 DEF Progress, Honest, LoopHonest, loop, history
      <3>3. QED
        BY <1>5, <3>1, <3>2
    <2>4. QED
      BY <1>5, <2>2, <2>3 DEF Lookup, Progress, Honest, CallsHonest, history
  <1>6. CASE TransferEnds(r)
    <2>1. LoopHonest'
      BY <1>6, GotoHonest DEF TransferEnds, RunnerPlaces
    <2>2. QED
      BY <1>6, <2>1
      DEF TransferEnds, Honest, CallsHonest, Claims, state, db
  <1>7. CASE Stamp(r)
    <2>1. LoopHonest'
      BY <1>7, GotoHonest
      DEF Stamp, RunnerPlaces, PastTransfer, history, Honest, LoopHonest
    <2>2. CallsHonest'
      BY <1>7 DEF Stamp, Send, Sent, RowOf, Honest, CallsHonest, history
    <2>3. QED
      BY <1>7, <2>1, <2>2 DEF Stamp, Honest, Claims, state, db, history
  <1>8. CASE Complete(r)
    <2>1. run[r].task \in moved
      BY <1>8 DEF Complete, Honest, LoopHonest, PastTransfer
    <2>2. QED
      BY <1>0, <1>8, <2>1, SetStatusHonest DEF Complete, db, history
  <1>9. ASSUME NEW c \in calls, Resumes(r, c) PROVE Honest'
    <2>0. UNCHANGED <<row, rows, moved>> /\ calls \ {c} \in SUBSET calls
      BY <1>9 DEF Resumes, db, history
    <2>1. CASE run[r].at \in {"mark", "complete", "fail"} /\ calls' = calls \ {c} /\ UNCHANGED mem
                 /\ (Goto(r, "connect") \/ Goto(r, "scan") \/ Escape(r))
      <3>1. LoopHonest'
        <4>1. CASE Escape(r)
          BY <4>1, <2>0 DEF Escape, Idle, Typed, TypeOK, Honest, LoopHonest, PastTransfer
        <4>2. CASE Goto(r, "connect") \/ Goto(r, "scan")
          BY <4>2, <2>0, GotoHonest DEF RunnerPlaces, PastTransfer
        <4>3. QED
          BY <2>1, <4>1, <4>2
      <3>2. QED
        BY <2>0, <2>1, <3>1 DEF Honest, CallsHonest, Claims
    <2>2. CASE run[r].at = "stamp" /\ SetStatus(r, "completed", "complete", calls \ {c})
      <3>1. run[r].task \in moved
        BY <2>2 DEF Honest, LoopHonest, PastTransfer
      <3>2. QED
        BY <2>0, <2>2, <3>1, SetStatusHonest
    <2>3. CASE run[r].at = "complete" /\ SetStatus(r, "failed", "fail", calls \ {c})
      BY <2>0, <2>3, SetStatusHonest
    <2>4. QED
      BY <1>9, <2>1, <2>2, <2>3 DEF Resumes
  <1>10. QED
    BY <1>1, <1>2, <1>3, <1>4, <1>5, <1>6, <1>7, <1>8, <1>9 DEF Loop, SkippedOnWeb

LEMMA HonestStep == ~web /\ Typed /\ Honest /\ [Next]_vars => Honest'
  <1> SUFFICES ASSUME ~web, Typed, Honest, [Next]_vars PROVE Honest'
    OBVIOUS
  <1>1. ASSUME Kick
        PROVE  \A r \in Runners :
                  \/ run'[r].at = run[r].at /\ run'[r].task = run[r].task
                  \/ run'[r].at = "scan"
    BY <1>1 DEF Kick, loop, Typed, TypeOK
  <1>0. CASE ReadRows
    BY <1>0 DEF ReadRows, FromRow, Typed, TypeOK, RowStatus, Honest, Claims, LoopHonest,
                CallsHonest, db, loop, history
  <1>2. CASE Load
    BY <1>1, <1>2 DEF Load, Typed, TypeOK, Honest, Claims, LoopHonest,
                      CallsHonest, PastTransfer, db, history
  <1>3. CASE Restart
    BY <1>3 DEF Restart, Idle, Honest, Claims, LoopHonest, CallsHonest,
                PastTransfer, db
  <1>4. CASE Queue
    BY <1>4 DEF Queue, Send, Sent, RowOf, Honest, Claims, LoopHonest, CallsHonest,
                state, db, loop
  <1>5. ASSUME NEW t \in Tasks, Pause(t) \/ Resume(t) \/ Cancel(t) PROVE Honest'
    <2>1. Claims'
      BY <1>5 DEF Pause, Resume, Cancel, Press, Typed, TypeOK, Honest, Claims, state, db
    <2>2. CallsHonest'
      BY <1>5 DEF Pause, Resume, Cancel, Press, Send, Sent, RowOf, Honest, CallsHonest
    <2>3. LoopHonest'
      BY <1>5 DEF Pause, Resume, Cancel, Press, Honest, LoopHonest, loop
    <2>4. QED
      BY <2>1, <2>2, <2>3 DEF Honest
  <1>6. ASSUME NEW t \in Tasks, LoseRecording(t) PROVE Honest'
    BY <1>6 DEF LoseRecording, Typed, TypeOK, Honest, Claims, LoopHonest,
                CallsHonest, state, loop, history
  <1>7. ASSUME NEW c \in calls, DbRuns(c) PROVE Honest'
    <2>1. c \in Call
      BY DEF Typed, TypeOK
    <2>2. Claims'
      BY <1>7, <2>1 DEF DbRuns, RunSave, RunDelete, RunStamp, Typed, TypeOK, Honest,
                        Claims, CallsHonest, state, history
    <2>3. CallsHonest'
      <3>1. Answer(c, "ok") \/ Answer(c, "error")
        BY <1>7 DEF DbRuns, RunSave, RunDelete, RunStamp
      <3>2. /\ [c EXCEPT !.at = "ok"].row = c.row /\ [c EXCEPT !.at = "ok"].task = c.task
            /\ [c EXCEPT !.at = "error"].row = c.row /\ [c EXCEPT !.at = "error"].task = c.task
        BY <2>1 DEF Call
      <3>3. QED
        BY <1>7, <3>1, <3>2 DEF DbRuns, Answer, Honest, CallsHonest, history
    <2>4. LoopHonest'
      BY <1>7 DEF DbRuns, Honest, LoopHonest, loop, history
    <2>5. QED
      BY <2>2, <2>3, <2>4 DEF Honest
  <1>8. ASSUME NEW c \in calls, Reply(c) PROVE Honest'
    <2>1. UNCHANGED <<row, rows, moved>> /\ calls' = calls \ {c}
      BY <1>8 DEF Reply, Queued, Paused, Resumed, Cancelled, state, db, history
    <2>2. Claims'
      BY <1>8, <2>1 DEF Reply, Queued, Paused, Resumed, Cancelled, Typed, TypeOK, Honest,
                        Claims, state
    <2>3. UNCHANGED loop \/ Kick
      BY <1>8 DEF Reply, Queued, Paused, Resumed, Cancelled
    <2>4. LoopHonest'
      BY <1>1, <2>1, <2>3 DEF Honest, LoopHonest, PastTransfer, loop
    <2>5. QED
      BY <2>1, <2>2, <2>4 DEF Honest, CallsHonest
  <1>9. ASSUME NEW r \in Runners, Loop(r) PROVE Honest'
    BY <1>9, LoopStepHonest
  <1>10. CASE UNCHANGED vars
    BY <1>10 DEF vars, state, db, loop, history, Honest, Claims, LoopHonest,
                 CallsHonest
  <1>11. QED
    BY <1>0, <1>2, <1>3, <1>4, <1>5, <1>6, <1>7, <1>8, <1>9, <1>10 DEF Next

LEMMA WebStays == [Next]_vars => UNCHANGED web
  <1> USE DEF state, vars
  <1>1. ASSUME NEW t \in Tasks, Pause(t) \/ Resume(t) \/ Cancel(t) \/ LoseRecording(t)
        PROVE  UNCHANGED web
    BY <1>1 DEF Pause, Resume, Cancel, LoseRecording
  <1>2. ASSUME NEW c \in calls, DbRuns(c) \/ Reply(c) PROVE UNCHANGED web
    BY <1>2 DEF DbRuns, Reply, Queued, Paused, Resumed, Cancelled
  <1>3. ASSUME NEW r \in Runners, Loop(r) PROVE UNCHANGED web
    BY <1>3 DEF Loop, Pick, Leave, Fails, Connect, SkippedOnWeb, Lookup, Progress, TransferEnds,
                Stamp, Complete, Resumes
  <1>4. ReadRows \/ Load \/ Restart \/ Queue => UNCHANGED web
    BY DEF ReadRows, Load, Restart, Queue
  <1>5. QED
    BY <1>1, <1>2, <1>3, <1>4 DEF Next

\* Outside a browser, whatever crashes, is cancelled or answers late, nothing
\* in memory or in the database claims a transfer that has not happened.
THEOREM NothingClaimed == Spec => []CompletedMeansMoved
  <1> DEFINE HonestOffWeb == ~web => Honest
  <1>1. Init => HonestOffWeb
    BY HonestInit
  <1>2. Typed /\ HonestOffWeb /\ [Next]_vars => HonestOffWeb'
    BY HonestStep, WebStays
  <1>3. HonestOffWeb => CompletedMeansMoved
    BY DEF Honest, Claims, CompletedMeansMoved
  <1>4. QED
    BY <1>1, <1>2, <1>3, TypedInit, TypedStep, PTL DEF Spec

-----------------------------------------------------------------------------
(* What keeps a task: its row, or the call that is about to write it.      *)

\* Tasks that have not been queued yet are nowhere.
LaterTasksAbsent ==
    /\ \A t \in Tasks : t > created => mem[t] = "absent" /\ row[t] = "none"
    /\ \A c \in calls : c.task <= created
    /\ \A r \in Runners : run[r].task <= created

\* Until the rows are the state, a task can only be queued.
NothingUnloaded ==
    ~loaded => /\ \A c \in calls : c.by = "queue"
               /\ \A t \in Tasks : mem[t] = "absent"
               /\ \A r \in Runners : run[r].at = "idle"

CallShape(c) ==
    /\ c.op = "delete" <=> c.by = "cancel"
    /\ c.op = "save" => c.row # "none"
    /\ c.at = "error" => c.task \in MayLose

\* Nobody cancels a task while the answer to its queueing is on the way.
QueuingShape(c) ==
    c.by = "queue" =>
        /\ c.op = "save" /\ ~Outstanding("cancel", c.task)
        /\ c.at = "ok" /\ c.task \notin MayLose => row[c.task] # "none"
        /\ \A d \in calls : d.by = "queue" /\ d.task = c.task => d = c

RecordingsStay == \A t \in Tasks \ MayLose : recording[t]

\* What build has read from the rows is still there when it becomes the state.
RowsStillThere ==
    \A t \in Tasks : rows[t] # "absent" =>
        /\ phase = "read" /\ t <= created
        /\ t \notin MayLose => row[t] # "none"

Kept ==
    /\ LaterTasksAbsent /\ NothingUnloaded /\ RecordingsStay /\ RowsStillThere
    /\ \A c \in calls : CallShape(c) /\ QueuingShape(c)
    /\ TaskSurvives

LEMMA KeptInit == Init => Kept
  BY QueueAssumption DEF Init, Kept, LaterTasksAbsent, NothingUnloaded, RowsStillThere, RecordingsStay, TaskSurvives, Idle

\* A step that shows the same tasks, touches no row, and whose new calls are
\* saves or stamps of a shown or known task by somebody else than queue or cancel.
Harmless ==
    /\ UNCHANGED <<row, recording, session, created>>
    /\ \A t \in Tasks : mem'[t] = "absent" <=> mem[t] = "absent"
    /\ \A c \in calls' \ calls :
          /\ c.by \notin {"queue", "cancel"} /\ c.op \in {"save", "stamp"} /\ c.at = "sent"
          /\ c.op = "save" => c.row # "none"
          /\ c.task <= created
    /\ \A c \in calls \ calls' : c.by # "cancel"
    /\ \A r \in Runners : run'[r].task <= created
    /\ loaded

LEMMA HarmlessKeeps == Typed /\ Kept /\ Harmless => Kept'
  <1> SUFFICES ASSUME Typed, Kept, Harmless PROVE Kept'
    OBVIOUS
  <1>1. LaterTasksAbsent' /\ NothingUnloaded' /\ RowsStillThere' /\ RecordingsStay'
    BY DEF Kept, Harmless, LaterTasksAbsent, NothingUnloaded, RowsStillThere, RecordingsStay, Typed, TypeOK
  <1>2. \A t : Outstanding("cancel", t)' <=> Outstanding("cancel", t)
    BY DEF Harmless, Outstanding
  <1>3. TaskSurvives'
    BY <1>2 DEF Kept, Harmless, TaskSurvives
  <1>4. ASSUME NEW c \in calls' PROVE CallShape(c)'
    BY DEF Kept, Harmless, CallShape
  <1>5. ASSUME NEW c \in calls' PROVE QueuingShape(c)'
    <2>1. CASE c \in calls
      <3>1. c.task \in Tasks
        BY <2>1 DEF Typed, TypeOK, Call
      <3>2. QED
        BY <1>2, <2>1, <3>1 DEF Kept, Harmless, QueuingShape
    <2>2. CASE c \notin calls
      BY <2>2 DEF Harmless, QueuingShape
    <2>3. QED
      BY <2>1, <2>2
  <1>6. QED
    BY <1>1, <1>3, <1>4, <1>5 DEF Kept

LEMMA SetStatusHarmless ==
  ASSUME Typed, Kept, NEW r \in Runners, run[r].at \notin {"idle", "scan"},
         NEW status \in {"completed", "failed"}, NEW place \in {"complete", "fail"},
         NEW others \in SUBSET calls, \A c \in calls \ others : c.by = r,
         SetStatus(r, status, place, others), UNCHANGED <<row, recording, session, created>>
  PROVE  Harmless
  <1>1. run[r].task \in Tasks /\ r \notin {"queue", "cancel"}
    BY QueueAssumption DEF Typed, InHand
  <1>2. \A s \in Runners : run'[s].task = run[s].task
    BY DEF SetStatus, Goto, Typed, TypeOK
  <1>3. \A t \in Tasks : mem'[t] = "absent" <=> mem[t] = "absent"
    BY <1>1 DEF SetStatus, Typed, TypeOK
  <1>4. loaded
    BY DEF Kept, NothingUnloaded
  <1>5. \A c \in calls' \ calls : c = Sent(r, "save", run[r].task, status)
    BY DEF SetStatus
  <1>6. /\ Sent(r, "save", run[r].task, status).by = r
        /\ Sent(r, "save", run[r].task, status).op = "save"
        /\ Sent(r, "save", run[r].task, status).at = "sent"
        /\ Sent(r, "save", run[r].task, status).row # "none"
        /\ Sent(r, "save", run[r].task, status).task = run[r].task
    BY DEF Sent, RowOf
  <1>7. \A c \in calls \ calls' : c.by = r
    BY DEF SetStatus
  <1>8. run[r].task <= created
    BY DEF Kept, LaterTasksAbsent
  <1>9. QED
    BY <1>1, <1>2, <1>3, <1>4, <1>5, <1>6, <1>7, <1>8 DEF Harmless, Kept, LaterTasksAbsent

LEMMA LoopHarmless ==
  ASSUME Typed, Kept, NEW r \in Runners, Loop(r)
  PROVE  Harmless
  <1>0. r \notin {"queue", "pause", "resume", "cancel"} /\ calls \in SUBSET calls /\ 0 <= created
    BY QueueAssumption DEF Typed, TypeOK
  <1>a. run[r].at # "idle"
    BY QueueAssumption DEF Loop, Pick, Leave, Fails, Connect, SkippedOnWeb, Lookup, Progress, TransferEnds,
       Stamp, Complete, Resumes
  <1>b. loaded
    BY <1>a DEF Kept, NothingUnloaded
  <1>1. ASSUME NEW t \in Tasks, Pick(r, t) PROVE Harmless
    <2>1. t <= created
      BY <1>1 DEF Pick, Kept, LaterTasksAbsent, Typed, TypeOK, Tasks
    <2>2. \A s \in Runners : run'[s].task <= created
      BY <1>1, <2>1 DEF Pick, Kept, LaterTasksAbsent, Typed, TypeOK
    <2>3. \A u \in Tasks : mem'[u] = "absent" <=> mem[u] = "absent"
      BY <1>1 DEF Pick, Typed, TypeOK
    <2>4. QED
      BY <1>0, <1>b, <1>1, <2>1, <2>2, <2>3 DEF Pick, Send, Sent, RowOf, Harmless, db, history
  <1>2. CASE Leave(r)
    BY <1>0, <1>b, <1>2 DEF Leave, Escape, Idle, Harmless, Kept, LaterTasksAbsent, NothingUnloaded,
                      Typed, TypeOK, state, db, history
  <1>3. CASE Fails(r)
    BY <1>0, <1>3, SetStatusHarmless DEF Fails, db, history
  <1>3a. CASE SkippedOnWeb(r)
    BY <1>0, <1>3a, SetStatusHarmless DEF SkippedOnWeb, db, history
  <1>4. ASSUME Connect(r) \/ Lookup(r) \/ Progress(r) \/ TransferEnds(r) PROVE Harmless
    <2>1. \A s \in Runners : run'[s].task = run[s].task
      BY <1>4 DEF Connect, Lookup, Progress, TransferEnds, Goto, Typed, TypeOK, loop
    <2>2. \A t \in Tasks : mem'[t] = "absent" <=> mem[t] = "absent"
      BY <1>4 DEF Connect, Lookup, Progress, TransferEnds, StaleCopy, Typed, TypeOK, state
    <2>3. UNCHANGED <<row, recording, session, created, calls>>
      BY <1>4 DEF Connect, Lookup, Progress, TransferEnds, state, db, history
    <2>4. QED
      BY <1>b, <2>1, <2>2, <2>3 DEF Harmless, Kept, LaterTasksAbsent
  <1>5. CASE Stamp(r)
    <2>1. \A s \in Runners : run'[s].task = run[s].task
      BY <1>5 DEF Stamp, Goto, Typed, TypeOK
    <2>2. run[r].task \in Tasks /\ run[r].task <= created
      BY <1>5 DEF Stamp, Typed, InHand, Kept, LaterTasksAbsent
    <2>3. QED
      BY <1>0, <1>b, <1>5, <2>1, <2>2 DEF Stamp, Send, Sent, Harmless, Kept, LaterTasksAbsent,
                                    NothingUnloaded, state, db, history
  <1>6. CASE Complete(r)
    BY <1>0, <1>6, SetStatusHarmless DEF Complete, db, history
  <1>7. ASSUME NEW c \in calls, Resumes(r, c) PROVE Harmless
    <2>0. /\ UNCHANGED <<row, recording, session, created>> /\ calls \ {c} \in SUBSET calls
          /\ \A d \in calls \ (calls \ {c}) : d.by = r
      BY <1>7 DEF Resumes, db, history
    <2>1. CASE /\ calls' = calls \ {c} /\ UNCHANGED mem
               /\ Goto(r, "connect") \/ Goto(r, "scan") \/ Escape(r)
      <3>1. \A s \in Runners : run'[s].task <= created
        BY <1>0, <2>1 DEF Goto, Escape, Idle, Kept, LaterTasksAbsent, Typed, TypeOK
      <3>2. QED
        BY <1>0, <1>b, <2>0, <2>1, <3>1 DEF Harmless, Kept
    <2>2. CASE run[r].at \in {"stamp", "complete"} /\
                 \E status \in {"completed", "failed"}, place \in {"complete", "fail"} :
                     SetStatus(r, status, place, calls \ {c})
      BY <2>0, <2>2, SetStatusHarmless
    <2>3. QED
      BY <1>7, <2>1, <2>2 DEF Resumes
  <1>8. QED
    BY <1>1, <1>2, <1>3, <1>3a, <1>4, <1>5, <1>6, <1>7 DEF Loop

\* Only the place of a loop changes, and it holds task 0.
LEMMA KickKeepsTasks ==
  ASSUME Typed, Kept, Kick \/ UNCHANGED loop
  PROVE  \A r \in Runners : run'[r].task <= created
  <1>1. CASE UNCHANGED loop
    BY <1>1 DEF loop, Kept, LaterTasksAbsent
  <1>2. CASE Kick /\ ~processing
    <2>1. PICK r \in Runners : run' = [run EXCEPT ![r] = [at |-> "scan", task |-> 0]]
      BY <1>2 DEF Kick, loop
    <2>2. 0 <= created
      BY QueueAssumption DEF Typed, TypeOK
    <2>3. QED
      BY <2>1, <2>2 DEF Kept, LaterTasksAbsent, Typed, TypeOK
  <1>3. QED
    BY <1>1, <1>2 DEF Kick

LEMMA PressKept ==
  ASSUME Typed, Kept, NEW t \in Tasks, Pause(t) \/ Resume(t) \/ Cancel(t)
  PROVE  Kept'
  <1>1. mem[t] # "absent" /\ UNCHANGED <<row, recording, session, created, run>>
    BY DEF Pause, Resume, Cancel, Press, db, loop, state
  <1>2. loaded
    BY <1>1 DEF Kept, NothingUnloaded
  <1>3. t <= created
    BY <1>1 DEF Kept, LaterTasksAbsent, Typed, TypeOK, Tasks
  <1>4. \A u \in Tasks : mem'[u] = "absent" <=> mem[u] = "absent"
    BY DEF Pause, Resume, Cancel, Typed, TypeOK, state
  <1>5. ASSUME Pause(t) \/ Resume(t) PROVE Kept'
    <2>1. Harmless
      BY <1>1, <1>2, <1>3, <1>4, <1>5
      DEF Harmless, Pause, Resume, Send, Sent, RowOf, Kept, LaterTasksAbsent
    <2>2. QED
      BY <2>1, HarmlessKeeps
  <1>6. CASE Cancel(t)
    <2> DEFINE n == Sent("cancel", "delete", t, "none")
    <2>1. /\ n.by = "cancel" /\ n.op = "delete" /\ n.task = t /\ n.at = "sent"
          /\ calls' = calls \cup {n} /\ UNCHANGED mem
      BY <1>6 DEF Cancel, Send, Sent, state
    <2> HIDE DEF n
    <2>2. LaterTasksAbsent' /\ NothingUnloaded' /\ RowsStillThere' /\ RecordingsStay'
      BY <1>1, <1>2, <1>3, <2>1 DEF Kept, LaterTasksAbsent, NothingUnloaded, RowsStillThere, RecordingsStay
    <2>3. TaskSurvives'
      BY <1>1, <2>1 DEF Kept, TaskSurvives, Outstanding
    <2>4. ASSUME NEW c \in calls' PROVE CallShape(c)' /\ QueuingShape(c)'
      <3>1. CASE c = n
        BY <2>1, <3>1 DEF CallShape, QueuingShape
      <3>2. CASE c \in calls
        <4>1. CallShape(c)'
          BY <3>2 DEF Kept, CallShape
        <4>2. c.by = "queue" => c.task # t
          BY <1>6, <3>2 DEF Cancel, Press, Outstanding
        <4>3. QED
          BY <1>1, <2>1, <3>2, <4>1, <4>2 DEF Kept, QueuingShape, Outstanding
      <3>3. QED
        BY <2>1, <3>1, <3>2
    <2>5. QED
      BY <2>2, <2>3, <2>4 DEF Kept
  <1>7. QED
    BY <1>5, <1>6

LEMMA QueueKept == Typed /\ Kept /\ Queue => Kept'
  <1> SUFFICES ASSUME Typed, Kept, Queue PROVE Kept'
    OBVIOUS
  <1> DEFINE n == Sent("queue", "save", created', "queued")
  <1>1. /\ n.by = "queue" /\ n.op = "save" /\ n.task = created' /\ n.at = "sent" /\ n.row # "none"
        /\ calls' = calls \cup {n} /\ created' = created + 1 /\ created \in Nat
        /\ UNCHANGED <<mem, row, recording, session, run>>
    BY QueueAssumption DEF Queue, Send, Sent, RowOf, state, db, loop, Typed, TypeOK
  <1>2. created' \in Tasks /\ mem[created'] = "absent" /\ \A c \in calls : c.task # created'
    <2>1. created' \in Tasks
      BY <1>1, QueueAssumption DEF Queue, Tasks, Typed, TypeOK
    <2>2. \A c \in calls : c.task \in Nat /\ c.task <= created
      BY DEF Kept, LaterTasksAbsent, Typed, TypeOK, Call, Tasks
    <2>3. QED
      BY <1>1, <2>1, <2>2 DEF Kept, LaterTasksAbsent
  <1> HIDE DEF n
  <1>3. LaterTasksAbsent'
    <2>1. \A t \in Tasks : t > created' => t > created
      BY <1>1 DEF Tasks
    <2>2. \A c \in calls : c.task <= created'
      BY <1>1 DEF Kept, LaterTasksAbsent, Typed, TypeOK, Call, Tasks
    <2>3. \A r \in Runners : run[r].task <= created'
      BY <1>1 DEF Kept, LaterTasksAbsent, Typed, TypeOK, Tasks
    <2>4. created' <= created'
      BY <1>1
    <2>5. QED
      BY <1>1, <2>1, <2>2, <2>3, <2>4 DEF Kept, LaterTasksAbsent
  <1>4. NothingUnloaded' /\ RowsStillThere' /\ RecordingsStay' /\ TaskSurvives'
    <2>1. \A t \in Tasks : t <= created => t <= created'
      BY <1>1 DEF Tasks
    <2>2. QED
      BY <1>1, <2>1 DEF Kept, NothingUnloaded, RowsStillThere, RecordingsStay, TaskSurvives, Outstanding
  <1>5. ASSUME NEW c \in calls' PROVE CallShape(c)' /\ QueuingShape(c)'
    <2>1. CASE c = n
      BY <1>1, <1>2, <2>1 DEF CallShape, QueuingShape, Outstanding
    <2>2. CASE c \in calls
      BY <1>1, <1>2, <2>2 DEF Kept, CallShape, QueuingShape, Outstanding
    <2>3. QED
      BY <1>1, <2>1, <2>2
  <1>6. QED
    BY <1>3, <1>4, <1>5 DEF Kept

\* A call that the core has run keeps who sent it, and for which task.
LEMMA DbRunsKept ==
  ASSUME Typed, Kept, NEW c \in calls, DbRuns(c)
  PROVE  Kept'
  <1>1. c \in Call /\ c.task \in Tasks
    BY DEF Typed, TypeOK, Call
  <1>2. UNCHANGED <<mem, session, created, run>> /\ c.at = "sent"
    BY DEF DbRuns, state, loop, history
  <1>3. PICK how \in {"ok", "error"} :
            /\ calls' = (calls \ {c}) \cup {[c EXCEPT !.at = how]}
            /\ \/ c.op = "save" /\ how = "ok" /\ row'[c.task] = c.row
               \/ c.op = "save" /\ how = "error" /\ ~recording[c.task] /\ row' = row
               \/ c.op = "delete" /\ how = "ok"
               \/ c.op = "stamp" /\ how = "ok" /\ row' = row
    BY <1>1 DEF DbRuns, RunSave, RunDelete, RunStamp, Answer, Typed, TypeOK
  <1> DEFINE n == [c EXCEPT !.at = how]
  <1>4. n.by = c.by /\ n.op = c.op /\ n.task = c.task /\ n.row = c.row /\ n.at = how
    BY <1>1 DEF Call
  <1>5. /\ \A t \in Tasks : t # c.task => row'[t] = row[t] /\ recording'[t] = recording[t]
        /\ recording[c.task] => recording'[c.task]
    BY <1>1 DEF DbRuns, RunSave, RunDelete, RunStamp, Typed, TypeOK
  <1>6. /\ how = "error" => c.task \in MayLose
        /\ c.op = "delete" => how = "ok"
        /\ c.op = "save" /\ how = "ok" => row'[c.task] = c.row
        /\ c.op = "save" /\ how = "error" => row'[c.task] = row[c.task]
        /\ c.op = "stamp" => row'[c.task] = row[c.task]
    BY <1>1, <1>3 DEF Kept, RecordingsStay
  <1> HIDE DEF n
  <1>7. LaterTasksAbsent'
    <2>1. c.task <= created /\ ~(c.task > created)
      BY <1>1, QueueAssumption DEF Kept, LaterTasksAbsent, Typed, TypeOK, Tasks
    <2>2. QED
      BY <1>1, <1>2, <1>3, <1>4, <1>5, <2>1 DEF Kept, LaterTasksAbsent, n
  <1>8. NothingUnloaded' /\ RowsStillThere' /\ RecordingsStay'
    <2>1. NothingUnloaded' /\ RecordingsStay'
      BY <1>1, <1>2, <1>3, <1>4, <1>5 DEF Kept, NothingUnloaded, RecordingsStay, n
    <2>2. ~loaded => c.op = "save" /\ c.row # "none"
      BY DEF Kept, NothingUnloaded, CallShape, QueuingShape
    <2>3. ~loaded /\ row[c.task] # "none" => row'[c.task] # "none"
      BY <1>3, <1>6, <2>2
    <2>4. RowsStillThere'
      BY <1>1, <1>2, <1>5, <2>3 DEF Kept, RowsStillThere
    <2>5. QED
      BY <2>1, <2>4
  <1>9. \A who, t : Outstanding(who, t)' <=> Outstanding(who, t)
    BY <1>3, <1>4 DEF Outstanding, n
  <1>10. TaskSurvives'
    <2>1. CASE c.op = "delete"
      <3>1. Outstanding("cancel", c.task)
        BY <2>1 DEF Kept, CallShape, Outstanding
      <3>2. QED
        BY <1>2, <1>5, <1>9, <3>1 DEF Kept, TaskSurvives
    <2>2. CASE c.op # "delete"
      <3>1. row[c.task] # "none" => row'[c.task] # "none"
        BY <1>1, <1>3, <1>6, <2>2 DEF Kept, CallShape, Call
      <3>2. QED
        BY <1>2, <1>5, <1>9, <3>1 DEF Kept, TaskSurvives
    <2>3. QED
      BY <2>1, <2>2
  <1>11. ASSUME NEW d \in calls' PROVE CallShape(d)'
    <2>1. CASE d = n
      BY <1>4, <1>6, <2>1 DEF Kept, CallShape
    <2>2. CASE d \in calls
      BY <2>2 DEF Kept, CallShape
    <2>3. QED
      BY <1>3, <2>1, <2>2 DEF n
  <1>12. ASSUME NEW d \in calls' PROVE QueuingShape(d)'
    <2> SUFFICES ASSUME d.by = "queue" PROVE QueuingShape(d)'
      BY DEF QueuingShape
    <2>1. CASE d = n
      <3>1. c.by = "queue" /\ QueuingShape(c) /\ CallShape(c)
        BY <1>4, <2>1 DEF Kept
      <3>2. \A e \in calls' : e.by = "queue" /\ e.task = c.task => e = n
        BY <1>3, <3>1 DEF QueuingShape, n
      <3>3. how = "ok" => row'[c.task] # "none"
        BY <1>6, <3>1 DEF QueuingShape, CallShape
      <3>4. QED
        BY <1>2, <1>4, <1>9, <2>1, <3>1, <3>2, <3>3 DEF QueuingShape
    <2>2. CASE d \in calls /\ d # c
      <3>1. QueuingShape(d) /\ d.task \in Tasks
        BY <2>2 DEF Kept, Typed, TypeOK, Call
      <3>2. \A e \in calls' : e.by = "queue" /\ e.task = d.task => e = d
        BY <1>3, <1>4, <2>2, <3>1 DEF QueuingShape, n
      <3>3. c.task = d.task => c.op # "delete"
        BY <3>1 DEF QueuingShape, Outstanding, Kept, CallShape
      <3>4. row[d.task] # "none" => row'[d.task] # "none"
        BY <1>1, <1>3, <1>5, <1>6, <3>1, <3>3 DEF Kept, CallShape, Call
      <3>5. QED
        BY <1>2, <1>9, <3>1, <3>2, <3>4 DEF QueuingShape
    <2>3. QED
      BY <1>3, <2>1, <2>2 DEF n
  <1>13. QED
    BY <1>7, <1>8, <1>10, <1>11, <1>12 DEF Kept

LEMMA ReplyKept ==
  ASSUME Typed, Kept, NEW c \in calls, Reply(c)
  PROVE  Kept'
  <1>1. c \in Call /\ c.task \in Tasks /\ c.at \in {"ok", "error"}
    BY DEF Typed, TypeOK, Call, Reply
  <1>2. UNCHANGED <<row, recording, session, created>> /\ calls' = calls \ {c}
    BY DEF Reply, Queued, Paused, Resumed, Cancelled, state, db, history
  <1>3. ~loaded => c.by = "queue"
    BY DEF Kept, NothingUnloaded
  <1>4. Kick \/ UNCHANGED loop
    BY DEF Reply, Queued, Paused, Resumed, Cancelled
  <1>5. \A r \in Runners : run'[r].task <= created
    BY <1>4, KickKeepsTasks
  <1>6. ASSUME Paused(c) \/ Resumed(c) PROVE Kept'
    <2>1. UNCHANGED mem /\ c.by # "cancel"
      BY <1>6 DEF Paused, Resumed, state
    <2>2. loaded
      BY <1>3, <1>6, QueueAssumption DEF Paused, Resumed
    <2>3. Harmless
      BY <1>2, <1>5, <2>1, <2>2 DEF Harmless
    <2>4. QED
      BY <2>3, HarmlessKeeps
  <1>7. ASSUME Queued(c) \/ Cancelled(c) PROVE Kept'
    <2>1. c.by \in {"queue", "cancel"} /\ \A t \in Tasks : t # c.task => mem'[t] = mem[t]
      BY <1>1, <1>7 DEF Queued, Cancelled, Typed, TypeOK
    <2>2. LaterTasksAbsent'
      <3>1. ~(c.task > created)
        BY <1>1, QueueAssumption DEF Kept, LaterTasksAbsent, Typed, TypeOK, Tasks
      <3>2. QED
        BY <1>2, <1>5, <2>1, <3>1 DEF Kept, LaterTasksAbsent
    <2>3. NothingUnloaded' /\ RowsStillThere' /\ RecordingsStay'
      <3>1. ~loaded => mem' = mem
        BY <1>3, <1>7 DEF Queued, Cancelled
      <3>2. ~loaded => UNCHANGED run
        BY <1>3, <1>7 DEF Queued, Cancelled, loop
      <3>3. QED
        BY <1>2, <3>1, <3>2 DEF Kept, NothingUnloaded, RowsStillThere, RecordingsStay
    <2>4. \A t : t # c.task => (Outstanding("cancel", t)' <=> Outstanding("cancel", t))
      BY <1>2 DEF Outstanding
    <2>5. TaskSurvives'
      <3>1. CASE mem'[c.task] = "absent"
        BY <1>2, <2>1, <2>4, <3>1 DEF Kept, TaskSurvives
      <3>2. CASE mem'[c.task] # "absent"
        <4>1. c.by = "queue"
          BY <1>1, <1>7, <3>2 DEF Queued, Cancelled, Typed, TypeOK
        <4>2. c.task \notin MayLose => row[c.task] # "none"
          BY <1>1, <4>1 DEF Kept, CallShape, QueuingShape
        <4>3. QED
          BY <1>2, <2>1, <2>4, <4>2 DEF Kept, TaskSurvives
      <3>3. QED
        BY <3>1, <3>2
    <2>6. ASSUME NEW d \in calls' PROVE CallShape(d)' /\ QueuingShape(d)'
      <3>1. d \in calls /\ d # c /\ CallShape(d) /\ QueuingShape(d) /\ d.task \in Tasks
        BY <1>2, <2>6 DEF Kept, Typed, TypeOK, Call
      <3>2. CallShape(d)'
        BY <3>1 DEF CallShape
      <3>3. d.by = "queue" => d.task # c.task
        BY <2>1, <3>1 DEF QueuingShape, Outstanding
      <3>4. QED
        BY <1>2, <2>1, <2>4, <3>1, <3>2, <3>3 DEF QueuingShape
    <2>7. QED
      BY <2>2, <2>3, <2>5, <2>6 DEF Kept
  <1>8. QED
    BY <1>6, <1>7 DEF Reply

LEMMA KeptStep == Typed /\ Kept /\ [Next]_vars => Kept'
  <1> SUFFICES ASSUME Typed, Kept, [Next]_vars PROVE Kept'
    OBVIOUS
  <1>0. CASE ReadRows
    <2>1. UNCHANGED <<mem, row, recording, created, calls, run>> /\ ~loaded /\ ~loaded'
      BY <1>0 DEF ReadRows, db, loop, history
    <2>2. \A t \in Tasks : rows'[t] # "absent" => row[t] # "none" /\ phase' = "read" /\ t <= created
      BY <1>0, QueueAssumption
      DEF ReadRows, FromRow, Kept, LaterTasksAbsent, Typed, TypeOK, Tasks
    <2>3. QED
      BY <2>1, <2>2 DEF Kept, LaterTasksAbsent, NothingUnloaded, RowsStillThere, RecordingsStay,
                        TaskSurvives, CallShape, QueuingShape, Outstanding
  <1>1. CASE Load
    <2>1. calls' = calls /\ UNCHANGED <<row, recording, created>> /\ loaded'
      BY <1>1 DEF Load, db, history
    <2>2. mem' = rows /\ \A t \in Tasks : rows'[t] = "absent"
      BY <1>1 DEF Load
    <2>3. \A r \in Runners : run'[r].task <= created
      BY <1>1, KickKeepsTasks DEF Load
    <2>4. \A t \in Tasks : ~(t > created /\ t <= created)
      BY QueueAssumption DEF Typed, TypeOK, Tasks
    <2>5. QED
      BY <2>1, <2>2, <2>3, <2>4 DEF CallShape, QueuingShape, Outstanding, Kept, LaterTasksAbsent, NothingUnloaded, RowsStillThere, RecordingsStay, TaskSurvives
  <1>2. CASE Restart
    <2>1. 0 <= created
      BY QueueAssumption DEF Typed, TypeOK
    <2>2. QED
      BY <1>2, <2>1
      DEF Restart, Idle, Kept, LaterTasksAbsent, NothingUnloaded, RowsStillThere, RecordingsStay, TaskSurvives, db
  <1>3. CASE Queue
    BY <1>3, QueueKept
  <1>4. ASSUME NEW t \in Tasks, Pause(t) \/ Resume(t) \/ Cancel(t) PROVE Kept'
    BY <1>4, PressKept
  <1>5. ASSUME NEW t \in Tasks, LoseRecording(t) PROVE Kept'
    <2>1. /\ UNCHANGED <<mem, session, run, calls, created>> /\ t \in MayLose
          /\ row'[t] = "none"
          /\ \A u \in Tasks : u # t => row'[u] = row[u] /\ recording'[u] = recording[u]
      BY <1>5 DEF LoseRecording, state, loop, history, Typed, TypeOK
    <2>2. LaterTasksAbsent' /\ NothingUnloaded' /\ RowsStillThere' /\ RecordingsStay' /\ TaskSurvives'
      BY <2>1 DEF Kept, LaterTasksAbsent, NothingUnloaded, RowsStillThere, RecordingsStay, TaskSurvives, Outstanding
    <2>3. ASSUME NEW c \in calls' PROVE CallShape(c)' /\ QueuingShape(c)'
      <3>1. c \in calls /\ c.task \in Tasks
        BY <2>1 DEF Typed, TypeOK, Call
      <3>2. QED
        BY <2>1, <3>1 DEF Kept, CallShape, QueuingShape, Outstanding
    <2>4. QED
      BY <2>2, <2>3 DEF Kept
  <1>6. ASSUME NEW c \in calls, DbRuns(c) PROVE Kept'
    BY <1>6, DbRunsKept
  <1>7. ASSUME NEW c \in calls, Reply(c) PROVE Kept'
    BY <1>7, ReplyKept
  <1>8. ASSUME NEW r \in Runners, Loop(r) PROVE Kept'
    BY <1>8, LoopHarmless, HarmlessKeeps
  <1>9. CASE UNCHANGED vars
    BY <1>9 DEF vars, state, db, loop, history, Kept, LaterTasksAbsent, NothingUnloaded,
                RowsStillThere, RecordingsStay, TaskSurvives, CallShape, QueuingShape, Outstanding
  <1>10. QED
    BY <1>0, <1>1, <1>2, <1>3, <1>4, <1>5, <1>6, <1>7, <1>8, <1>9 DEF Next

\* A task the user sees survives a restart at any moment, unless it is being
\* cancelled or its recording was deleted.
THEOREM NoTaskLost == Spec => []TaskSurvives
  <1>1. Kept => TaskSurvives
    BY DEF Kept
  <1>2. QED
    BY <1>1, TypedInit, TypedStep, KeptInit, KeptStep, PTL DEF Spec

-----------------------------------------------------------------------------
(* A queued task has somebody who gets to it, while no recording is deleted: *)
(* the loop then leaves only when nothing is queued.                         *)

LEMMA KickStarts == Typed /\ Kick => processing'
  BY DEF Kick, loop, Typed, TypeOK

LEMMA LoopAttends ==
  ASSUME MayLose = {}, Typed, Kept, OneLoop, QueuedHasLoop, NEW r \in Runners, Loop(r)
  PROVE  QueuedHasLoop'
  <1>1. CASE Leave(r)
    BY <1>1 DEF Leave, QueuedHasLoop, state
  <1>2. CASE ~Leave(r)
    <2>1. run[r].at # "idle"
      BY <1>2 DEF Loop, Pick, Fails, Connect, SkippedOnWeb, Lookup, Progress, TransferEnds, Stamp,
                  Complete, Resumes
    <2>2. processing
      BY <2>1 DEF OneLoop, GuardIsSet
    <2>3. ASSUME NEW c \in calls, Resumes(r, c) PROVE UNCHANGED processing
      BY <2>3 DEF Resumes, Kept, CallShape
    <2>4. processing' = processing
      BY <1>2, <2>3
      DEF Loop, Pick, Fails, Connect, SkippedOnWeb, Lookup, Progress, TransferEnds, Stamp,
          Complete, loop
    <2>5. QED
      BY <2>2, <2>4 DEF QueuedHasLoop
  <1>3. QED
    BY <1>1, <1>2

LEMMA AttendedStep ==
  MayLose = {} /\ Typed /\ Kept /\ OneLoop /\ QueuedHasLoop /\ [Next]_vars => QueuedHasLoop'
  <1> SUFFICES ASSUME MayLose = {}, Typed, Kept, OneLoop, QueuedHasLoop, [Next]_vars
               PROVE  QueuedHasLoop'
    OBVIOUS
  <1>0. CASE ReadRows
    BY <1>0 DEF ReadRows, QueuedHasLoop, Outstanding, loop
  <1>1. CASE Load
    BY <1>1, KickStarts DEF Load, QueuedHasLoop
  <1>2. CASE Restart
    BY <1>2 DEF Restart, QueuedHasLoop
  <1>3. CASE Queue
    BY <1>3 DEF Queue, Send, QueuedHasLoop, Outstanding, state, loop
  <1>4. ASSUME NEW t \in Tasks, Pause(t) \/ Cancel(t) PROVE QueuedHasLoop'
    <2>1. UNCHANGED processing /\ calls \subseteq calls'
      BY <1>4 DEF Pause, Cancel, Send, loop
    <2>2. \A u \in Tasks : mem'[u] = "queued" => mem[u] = "queued"
      BY <1>4 DEF Pause, Cancel, state, Typed, TypeOK
    <2>3. QED
      BY <2>1, <2>2 DEF QueuedHasLoop, Outstanding
  <1>5. ASSUME NEW t \in Tasks, Resume(t) PROVE QueuedHasLoop'
    <2>1. /\ UNCHANGED processing /\ calls \subseteq calls'
          /\ \A u \in Tasks : u # t => mem'[u] = mem[u]
      BY <1>5 DEF Resume, Send, loop, Typed, TypeOK
    <2>2. Outstanding("resume", t)'
      <3>1. /\ Sent("resume", "save", t, "queued") \in calls'
            /\ Sent("resume", "save", t, "queued").by = "resume"
            /\ Sent("resume", "save", t, "queued").task = t
        BY <1>5 DEF Resume, Send, Sent
      <3>2. QED
        BY <3>1 DEF Outstanding
    <2>3. QED
      BY <2>1, <2>2 DEF QueuedHasLoop, Outstanding
  <1>6. ASSUME NEW t \in Tasks, LoseRecording(t) PROVE QueuedHasLoop'
    BY <1>6 DEF LoseRecording
  <1>7. ASSUME NEW c \in calls, DbRuns(c) PROVE QueuedHasLoop'
    <2>1. UNCHANGED <<mem, processing>> /\ c \in Call
      BY <1>7 DEF DbRuns, state, loop, Typed, TypeOK
    <2>2. PICK how \in {"ok", "error"} : calls' = (calls \ {c}) \cup {[c EXCEPT !.at = how]}
      BY <1>7 DEF DbRuns, RunSave, RunDelete, RunStamp, Answer
    <2> DEFINE n == [c EXCEPT !.at = how]
    <2>3. n.by = c.by /\ n.task = c.task /\ calls' = (calls \ {c}) \cup {n}
      BY <2>1, <2>2 DEF Call
    <2> HIDE DEF n
    <2>4. \A t \in Tasks : Outstanding("resume", t) => Outstanding("resume", t)'
      BY <2>3 DEF Outstanding
    <2>5. QED
      BY <2>1, <2>4 DEF QueuedHasLoop
  <1>8. ASSUME NEW c \in calls, Reply(c) PROVE QueuedHasLoop'
    <2>1. c.at = "ok"
      BY <1>8 DEF Kept, CallShape, Reply, Typed, TypeOK, Call
    <2>2. CASE Resumed(c) \/ (Queued(c) /\ loaded)
      BY <2>1, <2>2, KickStarts DEF Queued, Resumed, QueuedHasLoop
    <2>2a. CASE Queued(c) /\ ~loaded
      <3>1. UNCHANGED <<mem, processing>> /\ c.by # "resume" /\ calls' = calls \ {c}
        BY <2>2a DEF Queued, loop
      <3>2. QED
        BY <3>1 DEF QueuedHasLoop, Outstanding
    <2>3. CASE Paused(c) \/ Cancelled(c)
      <3>1. UNCHANGED processing /\ c.by # "resume" /\ calls' = calls \ {c}
        BY <2>3 DEF Paused, Cancelled, loop
      <3>2. \A u \in Tasks : mem'[u] = "queued" => mem[u] = "queued"
        BY <2>3 DEF Paused, Cancelled, state, Typed, TypeOK
      <3>3. QED
        BY <3>1, <3>2 DEF QueuedHasLoop, Outstanding
    <2>4. QED
      BY <1>8, <2>2, <2>2a, <2>3 DEF Reply
  <1>9. ASSUME NEW r \in Runners, Loop(r) PROVE QueuedHasLoop'
    BY <1>9, LoopAttends
  <1>10. CASE UNCHANGED vars
    BY <1>10 DEF vars, state, loop, QueuedHasLoop, Outstanding
  <1>11. QED
    BY <1>0, <1>1, <1>2, <1>3, <1>4, <1>5, <1>6, <1>7, <1>8, <1>9, <1>10 DEF Next

\* While recordings stay, a queued task is never left behind: the loop is
\* running, or the call that will start it is on its way.
THEOREM QueuedIsAttended == Spec => [](MayLose = {} => QueuedHasLoop)
  <1> DEFINE Attended == MayLose = {} => QueuedHasLoop
  <1>1. Init => Attended
    BY DEF Init, QueuedHasLoop
  <1>2. Typed /\ Kept /\ OneLoop /\ Attended /\ [Next]_vars => Attended'
    BY AttendedStep
  <1>3. QED
    BY <1>1, <1>2, TypedInit, TypedStep, KeptInit, KeptStep, InitOneLoop, NextOneLoop, PTL DEF Spec
=============================================================================
