------------------------------- MODULE WsBridge -------------------------------
(***************************************************************************)
(* One web client and its handler in crispy-server: ws_backend.dart on one *)
(* side, ws_handler and spawn_command_processor of main.rs on the other.   *)
(*                                                                         *)
(* The handler subscribes to the broadcast channel of change events, a     *)
(* ring that overwrites what a slow reader has not read, and passes        *)
(* commands through bounded queues to one sequential processor.  A cut     *)
(* connection loses what is in flight either way; the client notices,      *)
(* fails its requests and reconnects with a bounded number of attempts.    *)
(* The user interface answers an event by asking for that domain again     *)
(* (UiRefresh); a reply carries the length of the log it has read, which   *)
(* is 0 if the command failed: nobody asks again for what it did not get.  *)
(* Heartbeats are left out: they keep a proxy from closing the connection. *)
(***************************************************************************)
EXTENDS Naturals, Sequences, FiniteSetsExt, Functions

CONSTANTS
    Domains,     \* what change events tell apart: domains of the data
    Ids,         \* request ids the client may use at one time
    Asks,        \* the domain each of them reads
    RingCap,     \* events the broadcast channel keeps (256 in main)
    QueueCap,    \* commands and replies either queue holds (32)
    MaxTries,    \* attempts of one reconnection (10)
    MaxEvents,   \* bound: how many changes are committed
    MaxCuts      \* bound: how often the connection drops

ASSUME WsAssumption ==
    /\ "none" \notin Ids /\ Asks \in [Ids -> Domains]
    /\ RingCap \in Nat \ {0} /\ QueueCap \in Nat \ {0}
    /\ MaxTries \in Nat \ {0} /\ MaxEvents \in Nat /\ MaxCuts \in Nat

VARIABLES
    link,      \* the client: down, up, gaveUp, off
    wire,      \* is the connection really there?
    log,       \* the change events sent to the broadcast: their domains
    handler,   \* ws_handler: [on, cursor], cursor the events it has read
    toServer,  \* in flight: request ids
    queue,     \* command_rx
    running,   \* the reply of the command being processed
    outbound,  \* outbound_rx
    toClient,  \* in flight: replies, events and errors without an id
    pending,   \* _pending of the client
    lost,      \* history: requests whose reply bears no id
    reload,    \* domains the interface has been told to ask for again
    seen,      \* of each domain, the log length its newest reply had read
    missed,    \* history: domains whose last read on this connection came to
               \* nothing, and that the interface has not been told of since
    tries,
    cuts

wsVars == <<link, wire, log, handler, toServer, queue, running, outbound,
            toClient, pending, lost, reload, seen, missed, tries, cuts>>

Message(kind, id, ver, of) == [kind |-> kind, id |-> id, ver |-> ver, of |-> of]
NoReply == Message("none", "none", 0, {})
Reply(i) == Message("reply", i, Len(log), {})
Failure(i) == Message("reply", i, 0, {})          \* {"id": ..., "error": ...}
NoIdError == Message("error", "none", 0, {})      \* {"error": ...}, no id
Notice(D) == Message("event", "none", 0, D)       \* BulkDataRefresh: all D

ServerIdle == [on |-> FALSE, cursor |-> 0]

\* The requests that are somewhere between _send and _onMessage.
Unread == Range(toServer) \cup Range(queue)
Replies == {m \in Range(outbound) \cup Range(toClient) \cup {running} : m.kind = "reply"}
Underway == Unread \cup {m.id : m \in Replies}

-----------------------------------------------------------------------------
\* No connection, nothing asked for.
Resting(l) ==
    /\ link = l /\ wire = FALSE
    /\ log = <<>> /\ handler = ServerIdle
    /\ toServer = <<>> /\ queue = <<>> /\ running = NoReply
    /\ outbound = <<>> /\ toClient = <<>>
    /\ pending = {} /\ lost = {} /\ missed = {} /\ reload = {}
    /\ seen = [d \in Domains |-> 0]
    /\ tries = 0 /\ cuts = 0

WsInit == Resting("down")

\* The event callback of main: any client's command has changed the data.
Emit ==
    /\ Len(log) < MaxEvents
    /\ \E d \in Domains : log' = Append(log, d)
    /\ UNCHANGED <<link, wire, handler, toServer, queue, running, outbound,
                   toClient, pending, lost, reload, seen, missed, tries, cuts>>

-----------------------------------------------------------------------------
(* The client.                                                             *)

\* Mutant: nothing is announced after a reconnection.
AnnouncedOnlyFirst == IF cuts = 0 THEN Domains ELSE {}

\* init, or an attempt of _reconnect that succeeds: the interface is told to
\* load everything.
Announced == Domains

Connect ==
    /\ link = "down"
    /\ link' = "up" /\ wire' = TRUE
    /\ reload' = reload \cup Announced
    /\ tries' = 0
    /\ UNCHANGED <<log, handler, toServer, queue, running, outbound,
                   toClient, pending, lost, missed, seen, cuts>>

AttemptFails ==
    /\ link = "down"
    /\ tries' = tries + 1
    /\ link' = IF tries' = MaxTries THEN "gaveUp" ELSE "down"
    /\ UNCHANGED <<wire, log, handler, toServer, queue, running, outbound,
                   toClient, pending, lost, reload, seen, missed, cuts>>

\* _send: on a connection that is gone but not yet seen to be, the message is
\* lost and the request waits for onDone.
Send(i) ==
    /\ link = "up"
    /\ i \notin pending \cup Underway
    /\ pending' = pending \cup {i}
    /\ toServer' = IF wire THEN Append(toServer, i) ELSE toServer
    /\ reload' = reload \ {Asks[i]}
    /\ UNCHANGED <<link, wire, log, handler, queue, running, outbound,
                   toClient, lost, seen, missed, tries, cuts>>

\* _send without a channel throws: the reload fails.
SendThrows ==
    /\ link # "up" /\ reload # {}
    /\ reload' = {}
    /\ UNCHANGED <<link, wire, log, handler, toServer, queue, running,
                   outbound, toClient, pending, lost, seen, missed, tries, cuts>>

\* _onMessage: data, or an error that completes the request and is all the
\* interface gets, which leaves seen as it is.
OnMessage ==
    /\ link = "up" /\ toClient # <<>>
    /\ toClient' = Tail(toClient)
    /\ LET m == Head(toClient) IN
        \/ /\ m.kind = "reply"
           /\ pending' = pending \ {m.id}
           /\ seen' = [seen EXCEPT ![Asks[m.id]] = Max({@, m.ver})]
           /\ UNCHANGED <<reload, missed>>
        \/ /\ m.kind = "event"
           /\ reload' = reload \cup m.of /\ missed' = missed \ m.of
           /\ UNCHANGED <<pending, seen>>
        \/ /\ m.kind = "error"
           /\ UNCHANGED <<pending, seen, reload, missed>>
    /\ UNCHANGED <<link, wire, log, handler, toServer, queue, running,
                   outbound, lost, tries, cuts>>

\* Mutant: only requests the server has not read are failed.
FailedUnread == pending \cap Unread

\* onDone and the beginning of _reconnect fail every request.
Failed == pending

OnDone ==
    /\ link = "up" /\ ~wire
    /\ link' = "down" /\ tries' = 0
    /\ pending' = pending \ Failed /\ lost' = {} /\ missed' = {}
    /\ UNCHANGED <<wire, log, handler, toServer, queue, running, outbound,
                   toClient, reload, seen, cuts>>

Dispose ==
    /\ link # "off"
    /\ link' = "off" /\ wire' = FALSE
    /\ handler' = ServerIdle
    /\ toServer' = <<>> /\ queue' = <<>> /\ running' = NoReply
    /\ outbound' = <<>> /\ toClient' = <<>>
    /\ pending' = pending \ Failed /\ lost' = {} /\ missed' = {}
    /\ UNCHANGED <<log, reload, seen, tries, cuts>>

-----------------------------------------------------------------------------
(* The network and the server.                                             *)

\* Both directions are lost; the handler leaves its loop and aborts the
\* processor, and nothing it had queued reaches a later connection.
Cut ==
    /\ wire /\ cuts < MaxCuts
    /\ cuts' = cuts + 1 /\ wire' = FALSE
    /\ handler' = ServerIdle
    /\ toServer' = <<>> /\ queue' = <<>> /\ running' = NoReply
    /\ outbound' = <<>> /\ toClient' = <<>>
    /\ UNCHANGED <<link, log, pending, lost, reload, seen, missed, tries>>

\* The beginning of ws_handler, after the client already sees the connection.
Subscribe ==
    /\ wire /\ ~handler.on
    /\ handler' = [on |-> TRUE, cursor |-> Len(log)]
    /\ UNCHANGED <<link, wire, log, toServer, queue, running, outbound,
                   toClient, pending, lost, reload, seen, missed, tries, cuts>>

\* Mutant: a queue is taken for full one element too late.
HasRoomTooLate(q) == Len(q) <= QueueCap

HasRoom(q) == Len(q) < QueueCap

\* A command is queued, or refused with an error that names no request.
ReadCommand ==
    /\ handler.on /\ toServer # <<>>
    /\ toServer' = Tail(toServer)
    /\ IF HasRoom(queue)
       THEN /\ queue' = Append(queue, Head(toServer))
            /\ UNCHANGED <<toClient, lost, missed>>
       ELSE /\ toClient' = Append(toClient, NoIdError)
            /\ lost' = lost \cup {Head(toServer)}
            /\ missed' = missed \cup {Asks[Head(toServer)]}
            /\ UNCHANGED queue
    /\ UNCHANGED <<link, wire, log, handler, running, outbound, pending,
                   reload, seen, tries, cuts>>

\* The processor takes a command and executes it in a blocking task: it is
\* answered with data or with an error; the answer to a task that panicked
\* names no request either.
Execute ==
    /\ running = NoReply /\ queue # <<>>
    /\ queue' = Tail(queue)
    /\ LET i == Head(queue) IN
        \/ running' = Reply(i) /\ UNCHANGED <<missed, lost>>
        \/ running' = Failure(i) /\ missed' = missed \cup {Asks[i]} /\ UNCHANGED lost
        \/ running' = NoIdError /\ missed' = missed \cup {Asks[i]} /\ lost' = lost \cup {i}
    /\ UNCHANGED <<link, wire, log, handler, toServer, outbound, toClient,
                   pending, reload, seen, tries, cuts>>

Respond ==
    /\ running # NoReply /\ HasRoom(outbound)
    /\ outbound' = Append(outbound, running)
    /\ running' = NoReply
    /\ UNCHANGED <<link, wire, log, handler, toServer, queue, toClient,
                   pending, lost, reload, seen, missed, tries, cuts>>

Forward ==
    /\ outbound # <<>>
    /\ toClient' = Append(toClient, Head(outbound))
    /\ outbound' = Tail(outbound)
    /\ UNCHANGED <<link, wire, log, handler, toServer, queue, running,
                   pending, lost, reload, seen, missed, tries, cuts>>

\* Mutant: a lag is passed over in silence.
AfterLagSilent == toClient

\* A reader that was overtaken skips to the oldest event the ring still has,
\* and pushes BulkDataRefresh for those it missed.
AfterLag == Append(toClient, Notice(Domains))

Push ==
    /\ handler.on /\ handler.cursor < Len(log)
    /\ IF Len(log) - handler.cursor > RingCap
       THEN /\ handler' = [handler EXCEPT !.cursor = Len(log) - RingCap]
            /\ toClient' = AfterLag
       ELSE /\ handler' = [handler EXCEPT !.cursor = @ + 1]
            /\ toClient' = Append(toClient, Notice({log[handler.cursor + 1]}))
    /\ UNCHANGED <<link, wire, log, toServer, queue, running, outbound,
                   pending, lost, reload, seen, missed, tries, cuts>>

-----------------------------------------------------------------------------
WsNext ==
    \/ Emit \/ Connect \/ AttemptFails \/ SendThrows \/ OnMessage \/ OnDone
    \/ Dispose \/ Cut
    \/ Subscribe \/ ReadCommand \/ Execute \/ Respond \/ Forward \/ Push
    \/ \E i \in Ids : Send(i)

WsSpec == WsInit /\ [][WsNext]_wsVars

\* The event loop of the client and the tasks of the server keep running: each
\* step that stays possible is taken, and a told interface asks again.
WsFairness ==
    /\ WF_wsVars(Connect \/ AttemptFails)
    /\ WF_wsVars(OnMessage) /\ WF_wsVars(OnDone)
    /\ WF_wsVars(Subscribe) /\ WF_wsVars(ReadCommand) /\ WF_wsVars(Execute)
    /\ WF_wsVars(Respond) /\ WF_wsVars(Forward) /\ WF_wsVars(Push)
    /\ \A i \in Ids : WF_wsVars(Asks[i] \in reload /\ Send(i))

-----------------------------------------------------------------------------
\* Types; no queue holds more than its capacity.
WsTypeOK ==
    /\ link \in {"down", "up", "gaveUp", "off"} /\ wire \in BOOLEAN
    /\ log \in Seq(Domains)
    /\ handler.on \in BOOLEAN /\ handler.cursor \in 0..Len(log)
    /\ toServer \in Seq(Ids) /\ queue \in Seq(Ids)
    /\ Len(queue) <= QueueCap /\ Len(outbound) <= QueueCap
    /\ pending \subseteq Ids /\ lost \subseteq Ids
    /\ reload \subseteq Domains /\ missed \subseteq Domains
    /\ \A d \in Domains : seen[d] \in 0..Len(log)
    /\ tries \in 0..MaxTries /\ cuts \in 0..MaxCuts

\* Every request the client waits for is on its way there or back, or the
\* connection is gone and onDone will fail it, or its reply bears no id and
\* nobody will ever complete it; without a channel nobody waits.
RequestsAccounted ==
    /\ link # "up" => pending = {}
    /\ link = "up" /\ wire => pending = Underway \cup lost

\* A change that the client has not read is on its way to it: the connection
\* is about to be found broken, the interface is about to ask, a push is due or
\* in flight, a request will still read it, or a reply that has is coming.  The
\* one way to lose it: the read that was to bring it failed or was refused, and
\* the interface reads that domain again only when the next notice comes.
ChangesOnTheWay ==
    link = "up" /\ wire => \A n \in 1..Len(log) :
        LET d == log[n] IN
        \/ seen[d] >= n
        \/ d \in reload \cup missed
        \/ handler.on /\ handler.cursor < n
        \/ \E m \in Range(toClient) : m.kind = "event" /\ d \in m.of
        \/ \E i \in Unread : Asks[i] = d
        \/ \E m \in Replies : Asks[m.id] = d /\ m.ver >= n

\* Once no more changes are made the client has read them all but those of a
\* domain whose last read failed or was refused, unless it gave up reconnecting,
\* was closed, or (Ids is a bound) has no id left to read some domain with.
CaughtUp == \A n \in 1..Len(log) : seen[log[n]] >= n \/ log[n] \in missed
IdsRunOut == \E d \in Domains : \A i \in Ids : Asks[i] = d => i \in lost
ChangesRead == []<>(CaughtUp \/ link \in {"gaveUp", "off"} \/ IdsRunOut)

=============================================================================
