------------------------------ MODULE DvrRecorder ------------------------------
(***************************************************************************)
(* Scheduled recordings (features/dvr/data/dvr_service.dart,               *)
(* dvr_capture_helper.dart, recording_engine.dart) together with the       *)
(* RecordingChanged events that every write of a recording makes the Rust  *)
(* core send back (services/dvr.rs), and with what the event-driven        *)
(* invalidator does to dvrServiceProvider when they arrive.                *)
(*                                                                         *)
(* Handlers run in one Dart isolate and are cut into steps by their        *)
(* awaits.  Most compute the whole next list of recordings, await a        *)
(* database call, and then assign the list they computed before.           *)
(***************************************************************************)
EXTENDS Naturals, FiniteSets

CONSTANTS
    Recs,           \* recordings the user may schedule
    Streamed,       \* recordings that have a stream URL to capture
    Clash,          \* pairs on the same channel at overlapping times
    Slots,          \* bound: handlers that can be waiting at once
    MaxBegun,       \* bound: a tick or a press is taken while fewer wait
    MaxEvents,      \* bound: events on their way
    Presses,        \* what the user does besides scheduling
    PromptAnswers   \* database answers arrive within the 50 ms debounce

ASSUME RecorderAssumption ==
    /\ Streamed \subseteq Recs
    /\ \A p \in Clash : p \in Recs \X Recs /\ <<p[2], p[1]>> \in Clash
    /\ MaxBegun \in Nat
    /\ MaxEvents \in Nat
    /\ Presses \subseteq {"force", "stop", "remove", "policy"}
    /\ PromptAnswers \in BOOLEAN

VARIABLES
    db,        \* db_recordings: status of each recording
    mem,       \* state.value.recordings
    booked,    \* recordings the user has asked for (an id is never used again)
    due,       \* recordings whose time window has begun
    jobs,      \* handlers waiting for an answer of the core
    captures,  \* downloads of each recording, by what can still reach them
    events,    \* RecordingChanged events on their way to the isolate
    debounce,  \* the invalidator holds a RecordingChanged back
    loading,   \* the provider's rebuild: not under way, asked, or rows read
    cut        \* history: recordings whose capture an invalidation cancelled

vars == <<db, mem, booked, due, jobs, captures, events, debounce, loading, cut>>
notices == <<events, debounce, loading, cut>>

Status == {"none", "scheduled", "recording", "completed", "failed"}
Lists == [Recs -> Status]
Free == [do |-> "nothing"]

\* "book" and "check" ask the core to compute; the others write a recording.
Job == [do : {"book", "check", "add", "start", "fail", "complete", "stop", "remove", "policy"},
        rec : Recs \cup {"any"}, list : Lists, at : {"sent", "done"}]

\* A download is held by the engine's token, has lost it to a second download
\* of the same recording (stray), belongs to the engine of an earlier build
\* (bygone), or is cancelled and its error not yet delivered.
Downloads == [held : Nat, stray : Nat, bygone : Nat, cancelled : Nat, dropped : Nat]
NoDownload == [held |-> 0, stray |-> 0, bygone |-> 0, cancelled |-> 0, dropped |-> 0]

TypeOK ==
    /\ db \in Lists
    /\ mem \in Lists
    /\ booked \subseteq Recs
    /\ due \subseteq Recs
    /\ jobs \in [Slots -> Job \cup {Free}]
    /\ captures \in [Recs -> Downloads]
    /\ events \in 0..MaxEvents
    /\ debounce \in BOOLEAN
    /\ loading \in [at : {"no", "asked", "read"}, list : Lists]
    /\ cut \subseteq Recs

Nothing == [r \in Recs |-> "none"]
NotLoading == [at |-> "no", list |-> Nothing]

Init ==
    /\ db = Nothing
    /\ mem = Nothing
    /\ booked = {}
    /\ due = {}
    /\ jobs = [s \in Slots |-> Free]
    /\ captures = [r \in Recs |-> NoDownload]
    /\ events = 0
    /\ debounce = FALSE
    /\ loading = NotLoading
    /\ cut = {}

-----------------------------------------------------------------------------
Busy == {s \in Slots : jobs[s] # Free}

\* The handlers of the set new start to wait, the one at slot s (if any) ends.
Place(new, ended) ==
    \E f \in [new -> (Slots \ Busy) \cup ended] :
        /\ \A i, j \in new : f[i] = f[j] => i = j
        /\ jobs' = [s \in Slots |->
                      IF \E j \in new : f[j] = s THEN CHOOSE j \in new : f[j] = s
                      ELSE IF s \in ended THEN Free ELSE jobs[s]]

Begin(new) ==
    /\ Cardinality(Busy) < MaxBegun
    /\ Place(new, {})

\* A handler that writes r: it computes the whole next list from what is in
\* memory now, and returns at once if r is not there.
Writes(kind, r, status) ==
    IF mem[r] = "none" THEN {}
    ELSE {[do |-> kind, rec |-> r, list |-> [mem EXCEPT ![r] = status], at |-> "sent"]}

Adding(r) == [do |-> "add", rec |-> r, list |-> Nothing, at |-> "sent"]

\* Mutant: "empty" is taken to be one or none.
CheckingSeveral ==
    IF Cardinality({r \in Recs : mem[r] # "none"}) <= 1 THEN {}
    ELSE {[do |-> "check", rec |-> "any", list |-> mem, at |-> "done"]}

Checking ==
    IF mem = Nothing THEN {}
    ELSE {[do |-> "check", rec |-> "any", list |-> mem, at |-> "done"]}

\* Mutant: the engine does not look whether it holds a token.
StopCaptureUnchecked(r) ==
    captures' = [captures EXCEPT ![r].held = @ - 1,
                                 ![r].cancelled = @ + 1]

\* engine.stopCapture: cancels the download whose token the engine holds.
StopCapture(r) ==
    captures' = [captures EXCEPT ![r].held = 0,
                                 ![r].cancelled = @ + captures[r].held]

\* engine.startCapture: the token of an earlier download is overwritten.
StartCapture(r) ==
    captures' = [captures EXCEPT ![r].held = 1,
                                 ![r].stray = @ + captures[r].held]

-----------------------------------------------------------------------------
\* scheduleRecording asks for conflicts with the scheduled recordings it knows.
Schedule(r) ==
    /\ r \notin booked
    /\ booked' = booked \cup {r}
    /\ Begin({[do |-> "book", rec |-> r, list |-> mem, at |-> "done"]})
    /\ UNCHANGED <<db, mem, due, captures, notices>>

\* forceScheduleRecording does not ask.
ForceSchedule(r) ==
    /\ "force" \in Presses
    /\ r \notin booked
    /\ booked' = booked \cup {r}
    /\ Begin({Adding(r)})
    /\ UNCHANGED <<db, mem, due, captures, notices>>

\* The Stop button shows while the recording is being made (recording_card.dart).
StopRecording(r) ==
    /\ "stop" \in Presses
    /\ mem[r] = "recording"
    /\ Begin(Writes("stop", r, "completed"))
    /\ StopCapture(r)
    /\ UNCHANGED <<db, mem, booked, due, notices>>

RemoveRecording(r) ==
    /\ "remove" \in Presses
    /\ mem[r] # "none"
    /\ Begin(Writes("remove", r, "none"))
    /\ StopCapture(r)
    /\ UNCHANGED <<db, mem, booked, due, notices>>

\* updateAutoDeletePolicy writes the recording as memory has it.
UpdateAutoDeletePolicy(r) ==
    /\ "policy" \in Presses
    /\ mem[r] # "none"
    /\ Begin(Writes("policy", r, mem[r]))
    /\ UNCHANGED <<db, mem, booked, due, captures, notices>>

WindowBegins(r) ==
    /\ r \notin due
    /\ due' = due \cup {r}
    /\ UNCHANGED <<db, mem, booked, jobs, captures, notices>>

\* _checkScheduledRecordings, from the 30 s timer; a disposed provider has none.
Tick ==
    /\ loading.at = "no"
    /\ Checking # {}
    /\ Begin(Checking)
    /\ UNCHANGED <<db, mem, booked, due, captures, notices>>

-----------------------------------------------------------------------------
\* Mutant: INSERT OR IGNORE, without the update of an upsert.
DbInsertsOnly(s) ==
    LET j == jobs[s] IN
    /\ j # Free /\ j.at = "sent"
    /\ events < MaxEvents
    /\ events' = events + 1
    /\ db' = CASE j.do = "remove" -> [db EXCEPT ![j.rec] = "none"]
               [] j.do = "add" /\ db[j.rec] = "none" -> [db EXCEPT ![j.rec] = "scheduled"]
               [] OTHER -> db
    /\ jobs' = [jobs EXCEPT ![s].at = "done"]
    /\ UNCHANGED <<mem, booked, due, captures, debounce, loading, cut>>

\* The core writes the row and emits RecordingChanged (save_recording upserts).
DbWrites(s) ==
    LET j == jobs[s] IN
    /\ j # Free /\ j.at = "sent"
    /\ events < MaxEvents
    /\ events' = events + 1
    /\ db' = [db EXCEPT ![j.rec] = IF j.do = "add" THEN "scheduled" ELSE j.list[j.rec]]
    /\ jobs' = [jobs EXCEPT ![s].at = "done"]
    /\ UNCHANGED <<mem, booked, due, captures, debounce, loading, cut>>

\* No conflict in the answer: the recording is added; otherwise nothing happens.
BookReply(s) ==
    LET j == jobs[s] IN
    /\ j # Free /\ j.do = "book"
    /\ IF \E q \in Recs : <<j.rec, q>> \in Clash /\ j.list[q] = "scheduled"
       THEN Place({}, {s})
       ELSE Place({Adding(j.rec)}, {s})
    /\ UNCHANGED <<db, mem, booked, due, captures, notices>>

\* Each recording that was scheduled when asked, and is due, is started.
CheckReply(s) ==
    LET j == jobs[s] IN
    /\ j # Free /\ j.do = "check"
    /\ Place(UNION {Writes("start", r, "recording") :
                      r \in {q \in due : j.list[q] = "scheduled"}}, {s})
    /\ UNCHANGED <<db, mem, booked, due, captures, notices>>

\* A write is answered: the list computed before the call becomes the state.
\* Only _addRecording reads the list anew; startRecording then captures, if
\* there is a stream.
WriteReply(s) ==
    LET j == jobs[s] IN
    /\ j # Free /\ j.at = "done" /\ j.do \notin {"book", "check"}
    /\ mem' = IF j.do = "add" THEN [mem EXCEPT ![j.rec] = "scheduled"] ELSE j.list
    /\ IF j.do = "start" /\ j.rec \in Streamed THEN StartCapture(j.rec) ELSE UNCHANGED captures
    /\ Place({}, {s})
    /\ UNCHANGED <<db, booked, due, notices>>

-----------------------------------------------------------------------------
\* The stream ends; the token kept under the recording's id goes, whoever's it is.
CaptureEnds(r) ==
    /\ \/ /\ captures[r].held = 1
          /\ captures' = [captures EXCEPT ![r].held = 0]
       \/ /\ captures[r].stray > 0
          /\ captures' = [captures EXCEPT ![r].held = 0,
                                          ![r].stray = @ - 1 + captures[r].held]
       \/ /\ captures[r].bygone > 0
          /\ captures' = [captures EXCEPT ![r].bygone = @ - 1]
    /\ Place(Writes("complete", r, "completed"), {})
    /\ UNCHANGED <<db, mem, booked, due, notices>>

\* A download fails or was cancelled.  One of the present engine takes the token
\* under the id with it; for one of an earlier engine, failRecording finds that
\* token and cancels the download it stands for.
\* onError is followed by onDone: the recording is failed and then completed.
CaptureFails(r) ==
    LET c == captures[r]
        Left(now) == captures' = [captures EXCEPT ![r] = now]
    IN
    /\ \/ c.held > 0 /\ Left([c EXCEPT !.held = 0])
       \/ c.stray > 0 /\ Left([c EXCEPT !.held = 0, !.stray = @ + c.held - 1])
       \/ c.cancelled > 0 /\ Left([c EXCEPT !.held = 0, !.stray = @ + c.held,
                                            !.cancelled = @ - 1])
       \/ c.bygone > 0 /\ Left([c EXCEPT !.held = 0, !.cancelled = @ + c.held,
                                         !.bygone = @ - 1])
       \/ c.dropped > 0 /\ Left([c EXCEPT !.held = 0, !.cancelled = @ + c.held,
                                          !.dropped = @ - 1])
    /\ Place(Writes("fail", r, "failed") \cup Writes("complete", r, "completed"), {})
    /\ UNCHANGED <<db, mem, booked, due, notices>>

-----------------------------------------------------------------------------
\* Mutant: the invalidator ignores the event, as it does SettingsUpdated.
EventArrivesUnheeded ==
    /\ events > 0
    /\ events' = events - 1
    /\ IF loading.at = "no" /\ Busy # Slots THEN Place(Checking, {}) ELSE UNCHANGED jobs
    /\ UNCHANGED <<db, mem, booked, due, captures, debounce, loading, cut>>

\* The service's own listener looks for recordings to start, unless the
\* provider is being rebuilt; the invalidator starts its timer.  With all
\* slots taken (a bound) the look is lost, as one whose call fails would be.
EventArrives ==
    /\ events > 0
    /\ events' = events - 1
    /\ debounce' = TRUE
    /\ IF loading.at = "no" /\ Busy # Slots THEN Place(Checking, {}) ELSE UNCHANGED jobs
    /\ UNCHANGED <<db, mem, booked, due, captures, loading, cut>>

\* ref.invalidate(dvrServiceProvider): onDispose stops the timer and every
\* capture, and build runs again with a new engine.
Invalidate ==
    /\ debounce
    /\ PromptAnswers => Busy = {}
    /\ debounce' = FALSE
    /\ loading' = [NotLoading EXCEPT !.at = "asked"]
    /\ captures' = [r \in Recs |->
         [held |-> 0, stray |-> 0, bygone |-> captures[r].bygone + captures[r].stray,
          cancelled |-> 0,
          dropped |-> captures[r].dropped + captures[r].cancelled + captures[r].held]]
    /\ cut' = cut \cup {r \in Recs : captures[r].held > 0}
    /\ UNCHANGED <<db, mem, booked, due, jobs, events>>

LoadReads ==
    /\ loading.at = "asked"
    /\ loading' = [at |-> "read", list |-> db]
    /\ UNCHANGED <<db, mem, booked, due, jobs, captures, events, debounce, cut>>

LoadEnds ==
    /\ loading.at = "read"
    /\ mem' = loading.list
    /\ loading' = NotLoading
    /\ UNCHANGED <<db, booked, due, jobs, captures, events, debounce, cut>>

Reply(s) == BookReply(s) \/ CheckReply(s) \/ WriteReply(s)

Next ==
    \/ \E r \in Recs : \/ Schedule(r)
                       \/ ForceSchedule(r)
                       \/ StopRecording(r)
                       \/ RemoveRecording(r)
                       \/ UpdateAutoDeletePolicy(r)
                       \/ WindowBegins(r)
                       \/ CaptureEnds(r)
                       \/ CaptureFails(r)
    \/ \E s \in Slots : DbWrites(s) \/ Reply(s)
    \/ Tick
    \/ EventArrives
    \/ Invalidate
    \/ LoadReads
    \/ LoadEnds

\* Calls are answered, timers fire and the isolate takes its events.  Nothing
\* makes a download end or the user act.
Fairness ==
    /\ \A s \in Slots : WF_vars(DbWrites(s)) /\ WF_vars(Reply(s))
    /\ \A r \in Recs : WF_vars(captures[r].cancelled + captures[r].dropped > 0 /\ CaptureFails(r))
    /\ SF_vars(Tick)
    /\ WF_vars(EventArrives)
    /\ SF_vars(Invalidate)
    /\ WF_vars(LoadReads)
    /\ WF_vars(LoadEnds)
    /\ <>[][\A r \in Recs : ~UpdateAutoDeletePolicy(r)]_vars

Spec == Init /\ [][Next]_vars
FairSpec == Spec /\ Fairness

-----------------------------------------------------------------------------
Running(r) == captures[r].held + captures[r].stray + captures[r].bygone

\* A recording being captured is not scheduled any more, so the next tick does
\* not start it again, whatever stale lists handlers wrote back in between
\* (_updateStatus, startRecording).
CaptureNotScheduled ==
    \A r \in Recs : Running(r) > 0 => db[r] # "scheduled"

\* The list on screen differs from the database only while a handler, an event
\* or a rebuild is on its way: the lists handlers assign after their awaits may
\* lose each other's changes, but not for good (RecordingChanged, build).
MemoryCatchesUp ==
    mem # db => Busy # {} \/ events > 0 \/ debounce \/ loading.at # "no"

\* A recording whose window has begun does not stay scheduled
\* (_checkScheduledRecordings: "if any scheduled recordings should start").
DueIsStarted ==
    \A r \in Recs : db[r] = "scheduled" /\ r \in due ~> db[r] # "scheduled"

\* A capture is stopped by the user or by its own end (recording_engine.dart:
\* stopAll is for "app shutdown"), never because its recording changed.
NoCaptureCut == cut = {}
=============================================================================
