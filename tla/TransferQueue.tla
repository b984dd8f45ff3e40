----------------------------- MODULE TransferQueue -----------------------------
(***************************************************************************)
(* The upload and download queue of the DVR                                *)
(* (features/dvr/data/transfer_service.dart) over its table in the Rust    *)
(* core (db_transfer_tasks, services/dvr.rs).                              *)
(*                                                                         *)
(* TransferService lives in the one Dart isolate: the code between two     *)
(* awaits is one step.  A database call is a future: it is sent, runs at   *)
(* some moment on a worker thread of the core, in no order with respect to *)
(* other calls, and its answer resumes the handler that awaits it.  Saving *)
(* a task is an upsert whose foreign keys demand the recording and the     *)
(* storage backend; deleting either of them deletes its tasks.             *)
(***************************************************************************)
EXTENDS Naturals, FiniteSets

CONSTANTS
    NTasks,       \* bound: tasks the user queues in all
    Downloads,    \* which of them are downloads, the others are uploads
    Runners,      \* invocations of _processQueue
    MayLose,      \* tasks whose recording may be deleted meanwhile
    MaxPresses,   \* bound: how often the user pauses, resumes or cancels
    MaxRestarts   \* bound: how often the app is killed and started again

Tasks == 1..NTasks  \* numbered by createdAt

ASSUME QueueAssumption ==
    /\ NTasks \in Nat
    /\ MaxPresses \in Nat
    /\ MaxRestarts \in Nat
    /\ Downloads \subseteq Tasks
    /\ MayLose \subseteq Tasks
    /\ Runners \cap {"queue", "pause", "resume", "cancel"} = {}

VARIABLES
    mem,         \* state.tasks: the status of each task in memory
    phase,       \* build: started, has read the rows, or is done (see loaded)
    rows,        \* the statuses build has read and not yet made the state
    web,         \* kIsWeb: the app runs in a browser
    row,         \* db_transfer_tasks: the status column of each task
    recording,   \* db_recordings: whether the task's recording is there
    processing,  \* _processing
    run,         \* where each _processQueue invocation is, and at which task
    calls,       \* database calls sent and not yet answered
    created,     \* how many tasks have been created
    moved,       \* history: tasks whose file has been transferred
    presses,
    restarts

\* state.value is not null.
loaded == phase = "up"

session == <<phase, rows, web>>
state == <<mem, session>>
db == <<row, recording>>
loop == <<processing, run>>
history == <<created, moved, presses, restarts>>
vars == <<state, db, loop, calls, history>>

MemStatus == {"absent", "queued", "active", "paused", "completed", "failed"}
RowStatus == {"none", "pending", "in_progress", "completed", "failed"}

\* What an invocation is doing; from "mark" on it awaits or uses one task.
RunnerPlaces == {"idle", "scan", "mark", "connect", "lookup", "moving", "moved",
                 "stamp", "complete", "fail"}
Transferring == {"connect", "lookup", "moving", "moved", "stamp"}

Call == [by : Runners \cup {"queue", "pause", "resume", "cancel"},
         op : {"save", "delete", "stamp"},
         task : Tasks,
         row : RowStatus,
         at : {"sent", "ok", "error"}]

TypeOK ==
    /\ mem \in [Tasks -> MemStatus]
    /\ phase \in {"starting", "read", "up"}
    /\ rows \in [Tasks -> MemStatus]
    /\ web \in BOOLEAN
    /\ row \in [Tasks -> RowStatus]
    /\ recording \in [Tasks -> BOOLEAN]
    /\ processing \in BOOLEAN
    /\ run \in [Runners -> [at : RunnerPlaces, task : Tasks \cup {0}]]
    /\ calls \subseteq Call
    /\ created \in 0..NTasks
    /\ moved \subseteq Tasks
    /\ presses \in 0..MaxPresses
    /\ restarts \in 0..MaxRestarts

Idle == [at |-> "idle", task |-> 0]
NoTasks == [t \in Tasks |-> "absent"]

Init ==
    /\ mem = NoTasks
    /\ phase = "starting"
    /\ rows = NoTasks
    /\ web \in BOOLEAN
    /\ row = [t \in Tasks |-> "none"]
    /\ recording = [t \in Tasks |-> TRUE]
    /\ processing = FALSE
    /\ run = [r \in Runners |-> Idle]
    /\ calls = {}
    /\ created = 0
    /\ moved = {}
    /\ presses = 0
    /\ restarts = 0

-----------------------------------------------------------------------------
\* The string a status is stored as (_transferStatusToRust, TransferStatus).
RowOf(status) ==
    CASE status \in {"queued", "paused"} -> "pending"
      [] status = "active" -> "in_progress"
      [] OTHER -> status

\* Mutant: the stored string is taken as the status.
FromRowUnread(r) == IF r = "none" THEN "absent" ELSE r

\* The status a stored string is read as: "in_progress" is not among the
\* strings _transferStatusFromRust knows, and falls to its default.
FromRow(r) ==
    CASE r = "none" -> "absent"
      [] r \in {"pending", "in_progress"} -> "queued"
      [] OTHER -> r

Sent(who, op, t, status) ==
    [by |-> who, op |-> op, task |-> t, row |-> RowOf(status), at |-> "sent"]
Send(who, op, t, status) == calls' = calls \cup {Sent(who, op, t, status)}

Outstanding(who, t) == \E c \in calls : c.by = who /\ c.task = t

\* Mutant: without the test of _processing.
KickAnyway ==
    \E r \in Runners :
        /\ run[r] = Idle
        /\ run' = [run EXCEPT ![r] = [at |-> "scan", task |-> 0]]
        /\ processing' = TRUE

\* _processQueue called without await: it returns at once if one is running.
Kick ==
    IF processing
    THEN UNCHANGED loop
    ELSE \E r \in Runners :
            /\ run[r] = Idle
            /\ run' = [run EXCEPT ![r] = [at |-> "scan", task |-> 0]]
            /\ processing' = TRUE

-----------------------------------------------------------------------------
\* build awaits the rows of the tasks ...
ReadRows ==
    /\ phase = "starting"
    /\ phase' = "read"
    /\ rows' = [t \in Tasks |-> FromRow(row[t])]
    /\ UNCHANGED <<mem, web, db, loop, history, calls>>

\* ... then those of the backends; what it has read becomes the state, and
\* queued transfers are resumed.
Load ==
    /\ phase = "read"
    /\ phase' = "up"
    /\ mem' = rows
    /\ rows' = NoTasks
    /\ Kick
    /\ UNCHANGED <<web, db, history, calls>>

\* The process dies: memory and unsent work are gone, the database stays.
Restart ==
    /\ restarts < MaxRestarts
    /\ restarts' = restarts + 1
    /\ phase' = "starting"
    /\ mem' = NoTasks
    /\ rows' = NoTasks
    /\ processing' = FALSE
    /\ run' = [r \in Runners |-> Idle]
    /\ calls' = {}
    /\ UNCHANGED <<web, db, created, moved, presses>>

\* Mutant: the state is changed before the row is saved.
QueueStateFirst ==
    /\ created < NTasks
    /\ created' = created + 1
    /\ Send("queue", "save", created', "queued")
    /\ mem' = [mem EXCEPT ![created'] = IF loaded THEN "queued" ELSE @]
    /\ UNCHANGED <<db, loop, session, moved, presses, restarts>>

\* queueUpload, queueDownload: the row is saved first, the state follows.
\* Nothing keeps the user from queueing while the rows are still being read.
Queue ==
    /\ created < NTasks
    /\ created' = created + 1
    /\ Send("queue", "save", created', "queued")
    /\ UNCHANGED <<state, db, loop, moved, presses, restarts>>

\* Mutant: nobody calls _processQueue.
QueuedQuietly(c) ==
    /\ c.by = "queue"
    /\ calls' = calls \ {c}
    /\ mem' = IF c.at = "ok" /\ loaded THEN [mem EXCEPT ![c.task] = "queued"] ELSE mem
    /\ UNCHANGED <<db, history, loop, session>>

\* _addTask and _processQueue do nothing while state.value is null.  A task
\* that build has read from its row is there twice then, under one id: every
\* change of its status changes both entries, so they are one here.
Queued(c) ==
    /\ c.by = "queue"
    /\ calls' = calls \ {c}
    /\ IF c.at = "ok" /\ loaded
       THEN mem' = [mem EXCEPT ![c.task] = "queued"] /\ Kick
       ELSE UNCHANGED <<loop, mem>>
    /\ UNCHANGED <<db, history, session>>

\* The buttons of transfer_list.dart offer Pause for an active task, Resume
\* for a paused one and Cancel for one that is not done.  A task build has read
\* from its row is shown before the answer to its saving is handled: that
\* answer is in the event queue already, ahead of any press.
Press(t) ==
    /\ ~Outstanding("queue", t)
    /\ presses < MaxPresses
    /\ presses' = presses + 1
    /\ UNCHANGED <<created, moved, restarts>>

Pause(t) ==
    /\ mem[t] = "active"
    /\ Press(t)
    /\ ~Outstanding("pause", t)
    /\ mem' = [mem EXCEPT ![t] = "paused"]
    /\ Send("pause", "save", t, "paused")
    /\ UNCHANGED <<db, loop, session>>

Resume(t) ==
    /\ mem[t] = "paused"
    /\ Press(t)
    /\ ~Outstanding("resume", t)
    /\ mem' = [mem EXCEPT ![t] = "queued"]
    /\ Send("resume", "save", t, "queued")
    /\ UNCHANGED <<db, loop, session>>

Cancel(t) ==
    /\ mem[t] \in {"queued", "active", "paused"}
    /\ Press(t)
    /\ ~Outstanding("cancel", t)
    /\ Send("cancel", "delete", t, "none")
    /\ UNCHANGED <<state, db, loop>>

Paused(c) ==
    /\ c.by = "pause"
    /\ calls' = calls \ {c}
    /\ UNCHANGED <<state, db, loop, history>>

Resumed(c) ==
    /\ c.by = "resume"
    /\ calls' = calls \ {c}
    /\ IF c.at = "ok" THEN Kick ELSE UNCHANGED loop
    /\ UNCHANGED <<state, db, history>>

Cancelled(c) ==
    /\ c.by = "cancel"
    /\ calls' = calls \ {c}
    /\ mem' = [mem EXCEPT ![c.task] = "absent"]
    /\ UNCHANGED <<db, history, loop, session>>

-----------------------------------------------------------------------------
\* A worker thread of the core runs a call.
Answer(c, how) == calls' = (calls \ {c}) \cup {[c EXCEPT !.at = how]}

RunSave(c) ==
    /\ c.op = "save"
    /\ IF recording[c.task]
       THEN row' = [row EXCEPT ![c.task] = c.row] /\ Answer(c, "ok")
       ELSE UNCHANGED row /\ Answer(c, "error")  \* FOREIGN KEY constraint failed
    /\ UNCHANGED recording

RunDelete(c) ==
    /\ c.op = "delete"
    /\ row' = [row EXCEPT ![c.task] = "none"]
    /\ Answer(c, "ok")
    /\ UNCHANGED recording

\* updateRecording with the remote path: an upsert of the whole recording.
RunStamp(c) ==
    /\ c.op = "stamp"
    /\ recording' = [recording EXCEPT ![c.task] = TRUE]
    /\ Answer(c, "ok")
    /\ UNCHANGED row

DbRuns(c) ==
    /\ c.at = "sent"
    /\ RunSave(c) \/ RunDelete(c) \/ RunStamp(c)
    /\ UNCHANGED <<state, loop, history>>

\* removeRecording elsewhere in the app; its tasks go by ON DELETE CASCADE.
LoseRecording(t) ==
    /\ t \in MayLose
    /\ recording[t]
    /\ recording' = [recording EXCEPT ![t] = FALSE]
    /\ row' = [row EXCEPT ![t] = "none"]
    /\ UNCHANGED <<state, loop, history, calls>>

-----------------------------------------------------------------------------
Goto(r, place) == run' = [run EXCEPT ![r].at = place]

\* Mutant: without the finally.
EscapeStillProcessing(r) ==
    /\ run' = [run EXCEPT ![r] = Idle]
    /\ UNCHANGED processing

\* An exception no handler of the loop catches: finally resets _processing.
Escape(r) ==
    /\ run' = [run EXCEPT ![r] = Idle]
    /\ processing' = FALSE

\* _updateTaskStatus and _failTask as the loop calls them: a task that is no
\* longer in the list is neither changed nor saved.
SetStatus(r, status, place, others) ==
    LET t == run[r].task
    IN  IF mem[t] = "absent"
        THEN Goto(r, "scan") /\ calls' = others /\ UNCHANGED mem
        ELSE /\ mem' = [mem EXCEPT ![t] = status]
             /\ calls' = others \cup {Sent(r, "save", t, status)}
             /\ Goto(r, place)

\* Pick the oldest queued task and mark it active ...
Pick(r, t) ==
    /\ run[r].at = "scan"
    /\ mem[t] = "queued"
    /\ \A u \in Tasks : mem[u] = "queued" => t <= u
    /\ mem' = [mem EXCEPT ![t] = "active"]
    /\ Send(r, "save", t, "active")
    /\ run' = [run EXCEPT ![r] = [at |-> "mark", task |-> t]]
    /\ UNCHANGED <<db, history, session, processing>>

\* ... or leave the loop.
Leave(r) ==
    /\ run[r].at = "scan"
    /\ \A t \in Tasks : mem[t] # "queued"
    /\ Escape(r)
    /\ UNCHANGED <<state, db, history, calls>>

\* The catch block of _executeTransfer: any step of the transfer may throw.
Fails(r) ==
    /\ run[r].at \in {"connect", "lookup", "moving", "moved"}
    /\ SetStatus(r, "failed", "fail", calls)
    /\ UNCHANGED <<db, history, session, processing>>

Connect(r) ==
    /\ run[r].at = "connect"
    /\ Goto(r, "lookup")
    /\ UNCHANGED <<state, db, history, processing, calls>>

\* _updateTask(task.copyWith(...)): the copy was taken before the task was
\* marked active, so its status is "queued".
StaleCopy(t) == IF mem[t] = "absent" THEN mem ELSE [mem EXCEPT ![t] = "queued"]

\* _executeUpload and _executeDownload return at once in a browser, and the
\* loop goes on as if the transfer had succeeded.
SkippedOnWeb(r) ==
    /\ run[r].at = "lookup"
    /\ web
    /\ SetStatus(r, "completed", "complete", calls)
    /\ UNCHANGED <<db, history, session, processing>>

\* The recording's file is found and its size noted; a download needs none.
Lookup(r) ==
    /\ run[r].at = "lookup"
    /\ ~web
    /\ IF run[r].task \in Downloads
       THEN UNCHANGED mem
       ELSE recording[run[r].task] /\ mem' = StaleCopy(run[r].task)
    /\ Goto(r, "moving")
    /\ UNCHANGED <<db, history, session, processing, calls>>

Progress(r) ==
    /\ run[r].at = "moving"
    /\ mem' = StaleCopy(run[r].task)
    /\ UNCHANGED <<db, loop, history, session, calls>>

TransferEnds(r) ==
    /\ run[r].at = "moving"
    /\ moved' = moved \cup {run[r].task}
    /\ Goto(r, "moved")
    /\ UNCHANGED <<state, db, processing, calls, created, presses, restarts>>

\* After an upload the recordings are read again and, if this one is there,
\* it is saved with its remote path.
Stamp(r) ==
    /\ run[r].at = "moved"
    /\ run[r].task \notin Downloads
    /\ recording[run[r].task]
    /\ Send(r, "stamp", run[r].task, "none")
    /\ Goto(r, "stamp")
    /\ UNCHANGED <<state, db, history, processing>>

\* Mutant: the transfer is not awaited.
CompleteUnawaited(r) ==
    /\ run[r].at = "moving"
    /\ SetStatus(r, "completed", "complete", calls)
    /\ UNCHANGED <<db, history, session, processing>>

Complete(r) ==
    /\ run[r].at = "moved"
    /\ run[r].task \in Downloads \/ ~recording[run[r].task]
    /\ SetStatus(r, "completed", "complete", calls)
    /\ UNCHANGED <<db, history, session, processing>>

\* The loop resumes with the answer to the call it awaits.
Resumes(r, c) ==
    LET rest == calls \ {c}
    IN  /\ c.by = r
        /\ \/ /\ c.at = "ok" /\ run[r].at = "mark"
              /\ Goto(r, "connect") /\ calls' = rest
              /\ UNCHANGED <<mem, processing>>
           \/ /\ c.at = "ok" /\ run[r].at = "stamp"
              /\ SetStatus(r, "completed", "complete", rest)
              /\ UNCHANGED processing
           \/ /\ c.at = "ok" /\ run[r].at \in {"complete", "fail"}
              /\ Goto(r, "scan") /\ calls' = rest
              /\ UNCHANGED <<mem, processing>>
           \/ /\ c.at = "error" /\ run[r].at = "complete"  \* still inside the try
              /\ SetStatus(r, "failed", "fail", rest)
              /\ UNCHANGED processing
           \/ /\ c.at = "error" /\ run[r].at \in {"mark", "fail"}
              /\ Escape(r) /\ calls' = rest
              /\ UNCHANGED mem
        /\ UNCHANGED <<db, history, session>>

Loop(r) ==
    \/ \E t \in Tasks : Pick(r, t)
    \/ Leave(r)
    \/ Fails(r)
    \/ Connect(r)
    \/ SkippedOnWeb(r)
    \/ Lookup(r)
    \/ Progress(r)
    \/ TransferEnds(r)
    \/ Stamp(r)
    \/ Complete(r)
    \/ \E c \in calls : Resumes(r, c)

Reply(c) ==
    /\ c.at # "sent"
    /\ Queued(c) \/ Paused(c) \/ Resumed(c) \/ Cancelled(c)

Next ==
    \/ ReadRows
    \/ Load
    \/ Restart
    \/ Queue
    \/ \E t \in Tasks : Pause(t) \/ Resume(t) \/ Cancel(t) \/ LoseRecording(t)
    \/ \E c \in calls : DbRuns(c) \/ Reply(c)
    \/ \E r \in Runners : Loop(r)

\* Calls are answered, handlers resume, transfers end one way or the other
\* and a killed app is started again.  Nobody has to press a button.
Fairness ==
    /\ WF_vars(ReadRows \/ Load)
    /\ WF_vars(\E c \in calls : DbRuns(c))
    /\ WF_vars(\E c \in calls : Reply(c))
    /\ \A r \in Runners :
          /\ WF_vars(Loop(r) /\ ~Progress(r))
          /\ WF_vars(\E c \in calls : Resumes(r, c))

Spec == Init /\ [][Next]_vars
FairSpec == Spec /\ Fairness

-----------------------------------------------------------------------------
\* "Processes one transfer at a time": queueing, resuming and starting up all
\* call _processQueue without awaiting it, and never two loops transfer.
AtMostOneTransfer ==
    \A r, s \in Runners : run[r].at # "idle" /\ run[s].at # "idle" => r = s

\* Outside a browser no status, in memory or in the database, claims a transfer
\* that has not happened, whatever crashed, was cancelled or answered late.  In
\* a browser every one of them does (SkippedOnWeb).
CompletedMeansMoved ==
    ~web => \A t \in Tasks : "completed" \in {mem[t], row[t]} => t \in moved

\* A task the user sees and has not asked to cancel is in the database, unless
\* its recording was deleted: it survives an app restart ("Persists tasks to
\* DB so they survive app restarts").
TaskSurvives ==
    \A t \in Tasks :
        mem[t] # "absent" /\ t \notin MayLose
            => row[t] # "none" \/ Outstanding("cancel", t)

\* A queued task has somebody who will get to it: the loop, or the call whose
\* answer starts the loop.
QueuedHasLoop ==
    \A t \in Tasks :
        mem[t] = "queued" => processing \/ Outstanding("resume", t)

\* While the app runs, a paused task stays paused until the user resumes or
\* cancels it or the transfer breaks ("Pauses an active or queued transfer").
PausedStaysPaused ==
    [][\A t \in Tasks :
          mem[t] = "paused" /\ mem'[t] # "paused" /\ loaded' =>
              \/ mem'[t] \in {"absent", "failed"}
              \/ \E c \in calls' \ calls : c.by = "resume" /\ c.task = t]_vars

\* The row of an interrupted transfer is not lost on the way: a queued task
\* is in the end transferred or failed, or the user has paused or removed it.
QueuedIsServed ==
    \A t \in Tasks :
        mem[t] = "queued" ~> mem[t] \in {"completed", "failed", "paused", "absent"}
=============================================================================
