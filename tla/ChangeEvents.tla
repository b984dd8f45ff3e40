----------------------------- MODULE ChangeEvents -----------------------------
(***************************************************************************)
(* How the Rust core announces changes (crispy-core/src/services/mod.rs).  *)
(* Every call that reaches the core runs on its own thread.  It commits a  *)
(* change of one data domain (channels, VOD, recordings, ...) and emits a  *)
(* DataChangeEvent naming the domain.  A playlist sync commits channels    *)
(* and VOD in one transaction and wraps its events in batch_events, which  *)
(* sets one process-wide flag, drops every event emitted while the flag is *)
(* set, by whatever thread, and emits BulkDataRefresh once it is cleared.  *)
(*                                                                         *)
(* The two mutexes (flag, callback) are taken one after the other, never   *)
(* together, so reading the flag and calling back are two steps.           *)
(***************************************************************************)
EXTENDS Naturals, Sequences

CONSTANTS
    Threads,          \* the threads that call into ServiceContext
    Domains,          \* kinds of data an event can name
    SyncEvents,       \* the domains save_sync_data emits, in order
    BulkDataRefresh,  \* the event that stands for all domains
    MaxCommits        \* bound: how many transactions are committed in all

ASSUME EventsAssumption ==
    /\ BulkDataRefresh \notin Domains
    /\ SyncEvents \in Seq(Domains)
    /\ MaxCommits \in Nat

Events == Domains \cup {BulkDataRefresh}
SyncDomains == {SyncEvents[i] : i \in 1..Len(SyncEvents)}

\* The domains an event tells a subscriber to read again.
Covers(e) == IF e = BulkDataRefresh THEN Domains ELSE {e}

VARIABLES
    batching,     \* the flag shared by all clones of ServiceContext
    pc,           \* where each thread is
    toEmit,       \* the events each thread has still to emit, in order
    inBatch,      \* the thread runs the closure of batch_events
    out,          \* events handed to the registered callback, in order
    unannounced,  \* history: domains committed since an event covering them
    commits       \* transactions committed so far

eventVars == <<batching, pc, toEmit, inBatch, out, unannounced, commits>>

TypeOK ==
    /\ batching \in BOOLEAN
    /\ pc \in [Threads -> {"idle", "tx", "committed", "emit", "send"}]
    /\ toEmit \in [Threads -> Seq(Events)]
    /\ inBatch \in [Threads -> BOOLEAN]
    /\ out \in Seq(Events)
    /\ unannounced \subseteq Domains
    /\ commits \in 0..MaxCommits

Init ==
    /\ batching = FALSE
    /\ pc = [t \in Threads |-> "idle"]
    /\ toEmit = [t \in Threads |-> << >>]
    /\ inBatch = [t \in Threads |-> FALSE]
    /\ out = << >>
    /\ unannounced = {}
    /\ commits = 0

-----------------------------------------------------------------------------
Commit(D) ==
    /\ commits < MaxCommits
    /\ commits' = commits + 1
    /\ unannounced' = unannounced \cup D

\* A single-domain write such as set_setting: the statement commits, then emit.
Write(t, d) ==
    /\ pc[t] = "idle"
    /\ Commit({d})
    /\ pc' = [pc EXCEPT ![t] = "emit"]
    /\ toEmit' = [toEmit EXCEPT ![t] = <<d>>]
    /\ UNCHANGED <<batching, inBatch, out>>

\* save_sync_data takes sync_mutex, which a thread holds exactly while at "tx".
SyncBegin(t) ==
    /\ pc[t] = "idle"
    /\ \A u \in Threads : pc[u] # "tx"
    /\ pc' = [pc EXCEPT ![t] = "tx"]
    /\ UNCHANGED <<batching, toEmit, inBatch, out, unannounced, commits>>

SyncCommit(t) ==
    /\ pc[t] = "tx"
    /\ Commit(SyncDomains)
    /\ pc' = [pc EXCEPT ![t] = "committed"]
    /\ UNCHANGED <<batching, toEmit, inBatch, out>>

\* Any of the `?` in the transaction: it rolls back and nothing is emitted.
SyncRollback(t) ==
    /\ pc[t] = "tx"
    /\ pc' = [pc EXCEPT ![t] = "idle"]
    /\ UNCHANGED <<batching, toEmit, inBatch, out, unannounced, commits>>

\* Mutant: the closure emits its domains as one event.
BatchBeginLumped(t) ==
    /\ pc[t] = "committed"
    /\ batching' = TRUE
    /\ inBatch' = [inBatch EXCEPT ![t] = TRUE]
    /\ toEmit' = [toEmit EXCEPT ![t] = <<SyncEvents>>]
    /\ pc' = [pc EXCEPT ![t] = "emit"]
    /\ UNCHANGED <<out, unannounced, commits>>

\* batch_events sets the flag and calls the closure, which emits SyncEvents.
BatchBegin(t) ==
    /\ pc[t] = "committed"
    /\ batching' = TRUE
    /\ inBatch' = [inBatch EXCEPT ![t] = TRUE]
    /\ toEmit' = [toEmit EXCEPT ![t] = SyncEvents]
    /\ pc' = [pc EXCEPT ![t] = "emit"]
    /\ UNCHANGED <<out, unannounced, commits>>

\* Mutant: without a guard that clears the flag.
BatchEndKeepsFlag(t) ==
    /\ pc[t] = "emit"
    /\ inBatch[t]
    /\ toEmit[t] = << >>
    /\ inBatch' = [inBatch EXCEPT ![t] = FALSE]
    /\ toEmit' = [toEmit EXCEPT ![t] = <<BulkDataRefresh>>]
    /\ UNCHANGED <<batching, pc, out, unannounced, commits>>

\* Mutant: nothing is emitted once the flag is cleared.
BatchEndSilent(t) ==
    /\ pc[t] = "emit"
    /\ inBatch[t]
    /\ toEmit[t] = << >>
    /\ batching' = FALSE
    /\ inBatch' = [inBatch EXCEPT ![t] = FALSE]
    /\ pc' = [pc EXCEPT ![t] = "idle"]
    /\ UNCHANGED <<toEmit, out, unannounced, commits>>

\* The closure has returned: the guard clears the flag, whoever else is still
\* in a batch, and BulkDataRefresh goes through emit like any other event.
BatchEnd(t) ==
    /\ pc[t] = "emit"
    /\ inBatch[t]
    /\ toEmit[t] = << >>
    /\ batching' = FALSE
    /\ inBatch' = [inBatch EXCEPT ![t] = FALSE]
    /\ toEmit' = [toEmit EXCEPT ![t] = <<BulkDataRefresh>>]
    /\ UNCHANGED <<pc, out, unannounced, commits>>

\* Where a thread goes after an event was sent or dropped.
AfterEvent(t) ==
    /\ toEmit' = [toEmit EXCEPT ![t] = Tail(toEmit[t])]
    /\ pc' = [pc EXCEPT ![t] =
                IF inBatch[t] \/ Tail(toEmit[t]) # << >> THEN "emit" ELSE "idle"]

\* emit reads the flag; a set flag drops the event, even a BulkDataRefresh.
EmitDropped(t) ==
    /\ pc[t] = "emit"
    /\ toEmit[t] # << >>
    /\ batching
    /\ AfterEvent(t)
    /\ UNCHANGED <<batching, inBatch, out, unannounced, commits>>

EmitAllowed(t) ==
    /\ pc[t] = "emit"
    /\ toEmit[t] # << >>
    /\ ~batching
    /\ pc' = [pc EXCEPT ![t] = "send"]
    /\ UNCHANGED <<batching, toEmit, inBatch, out, unannounced, commits>>

\* The callback runs, even if a batch has begun since the flag was read.
EmitSend(t) ==
    /\ pc[t] = "send"
    /\ out' = Append(out, Head(toEmit[t]))
    /\ unannounced' = unannounced \ Covers(Head(toEmit[t]))
    /\ AfterEvent(t)
    /\ UNCHANGED <<batching, inBatch, commits>>

\* The steps a thread takes once its call has begun.
Advance(t) ==
    \/ SyncCommit(t)
    \/ SyncRollback(t)
    \/ BatchBegin(t)
    \/ BatchEnd(t)
    \/ EmitDropped(t)
    \/ EmitAllowed(t)
    \/ EmitSend(t)

Begin(t) ==
    \/ \E d \in Domains : Write(t, d)
    \/ SyncBegin(t)

Next == \E t \in Threads : Begin(t) \/ Advance(t)

\* A thread the operating system runs finishes the call it is in.
Fairness == \A t \in Threads : WF_eventVars(Advance(t))

Spec == Init /\ [][Next]_eventVars
FairSpec == Spec /\ Fairness

-----------------------------------------------------------------------------
\* A thread that is bound to emit, or to answer for, an event covering d.
WillCover(t, d) ==
    \/ inBatch[t]
    \/ \E i \in 1..Len(toEmit[t]) : d \in Covers(toEmit[t][i])
    \/ pc[t] = "committed" /\ d \in SyncDomains

\* A committed change nobody has heard of is still somebody's business: as
\* batches overlap, clear each other's flag and swallow each other's
\* BulkDataRefresh, no change is forgotten (emit, batch_events).
NoChangeForgotten ==
    \A d \in unannounced : \E t \in Threads : WillCover(t, d)

\* The flag cannot be left set by a batch that is over, which would silence
\* the event stream for good (BatchGuard).
FlagHasHolder == batching => \E t \in Threads : inBatch[t]

-----------------------------------------------------------------------------
Feed == INSTANCE ChangeFeed WITH dirty <- unannounced, feed <- out

\* The core's event stream implements the promise made to its subscribers
\* (services/mod.rs emit and batch_events against events.rs's contract).
ImplementsFeed == Feed!Spec
=============================================================================
