----------------------------- MODULE PlayerSession -----------------------------
(***************************************************************************)
(* From a press to the native player: PlaybackSessionNotifier, which       *)
(* resolves a stream, and PlayerService, which stops, opens, retries and   *)
(* falls back to an ffmpeg proxy (player_service.dart and its mixins).     *)
(*                                                                         *)
(* Everything runs on one event loop, so a step is what a call does        *)
(* between two awaits: the core's buffer tier, the start of the proxy, and *)
(* the native player, which executes what it is told in order.  Timers and *)
(* the player's events come between any two steps.                         *)
(* No WarmFailoverEngine is modelled: the application constructs none.     *)
(***************************************************************************)
EXTENDS Naturals, Sequences

CONSTANTS
    Urls,        \* streams (normalised)
    Live,        \* those of them that are live channels
    Calls,       \* calls that can be under way together
    MaxRetries,  \* PlayerServiceBase.maxRetries (5)
    MaxPresses,  \* bound: presses of the user
    MaxTrouble   \* bound: errors, stalls and buffering of the native player

ASSUME PlayerAssumption ==
    /\ Live \subseteq Urls /\ "none" \notin Urls
    /\ MaxRetries \in Nat
    /\ MaxPresses \in Nat /\ MaxTrouble \in Nat

VARIABLES
    svc,        \* the fields of PlayerService
    engine,     \* the native player: its queue, its media, is it playing?
    call,       \* of each of Calls, where it waits
    session,    \* PlaybackSessionNotifier: free, pending or superseded
    requested,  \* history: what the user asked for last, none after a stop
    overlapped, \* history: a call began while another was under way
    presses,
    trouble

playerVars == <<svc, engine, call, session, requested, overlapped, presses, trouble>>

NoUrl == "none"
Media(u, proxied) == [url |-> u, proxied |-> proxied]
NoMedia == Media(NoUrl, FALSE)

\* at: free, resolve, stop, stopped, tier, open, opened or proxy; then: the
\* audio check is scheduled, when it is a play; ofSession: _isPending is its.
Waiting(at, m, isPlay, ofSession) ==
    [at |-> at, media |-> m, isPlay |-> isPlay, ofSession |-> ofSession]
FreeCall == Waiting("free", NoMedia, FALSE, FALSE)

Moves(c, at) == call' = [call EXCEPT ![c].at = at]
Returns(c) ==
    /\ call' = [call EXCEPT ![c] = FreeCall]
    /\ session' = IF call[c].ofSession THEN "free" ELSE session

Begins(c) ==
    /\ call[c] = FreeCall
    /\ overlapped' = (overlapped \/ \E d \in Calls : call[d] # FreeCall)
Pressed(c, u) ==
    /\ Begins(c)
    /\ presses < MaxPresses /\ presses' = presses + 1
    /\ requested' = u

-----------------------------------------------------------------------------
(* The synchronous parts of PlayerService.                                 *)

\* Mutant: the URL is kept when the player is stopped.
StoppingKeepsUrl(s) ==
    [s EXCEPT !.retryTimer = FALSE, !.audioCheck = NoUrl, !.proxyActive = FALSE,
              !.retryCount = 0]
\* stop() before it waits for the native player.
Stopping(s) ==
    [s EXCEPT !.retryTimer = FALSE, !.audioCheck = NoUrl, !.proxyActive = FALSE,
              !.retryCount = 0, !.lastUrl = NoUrl]

\* play() once the previous stream is stopped.
Beginning(s, u) ==
    [s EXCEPT !.lastUrl = u, !.lastIsLive = u \in Live, !.retryCount = 0,
              !.status = "buffering", !.audioCheck = NoUrl,
              !.proxyActive = FALSE, !.proxyTried = {}]

\* Mutant: one retry too many.
CanRetryOnceMore(s) == s.lastIsLive /\ s.retryCount <= MaxRetries
CanRetry(s) == s.lastIsLive /\ s.retryCount < MaxRetries

\* _handleError
Failing(s) ==
    IF CanRetry(s)
    THEN [s EXCEPT !.retryCount = @ + 1, !.status = "buffering", !.retryTimer = TRUE]
    ELSE [s EXCEPT !.status = "error"]

\* The listener of playingStream.
Playing(s) == [s EXCEPT !.retryCount = 0, !.debounce = FALSE, !.status = "playing"]
NotPlaying(s) ==
    IF s.status = "buffering" \/ s.retryTimer THEN s ELSE [s EXCEPT !.status = "paused"]

Tells(op, c, m) == engine' = [engine EXCEPT !.queue = Append(@, [op |-> op, by |-> c, media |-> m])]

\* openMedia: a live stream waits for its buffer tier first.
Opens(c, m, live, isPlay, ofSession) ==
    /\ call' = [call EXCEPT ![c] =
                    Waiting(IF live THEN "tier" ELSE "open", m, isPlay, ofSession)]
    /\ IF live THEN UNCHANGED engine ELSE Tells("open", c, m)

\* play(), called by a zap or by the session.
Plays(c, u, ofSession) ==
    LET s == [svc EXCEPT !.retryTimer = FALSE, !.debounce = FALSE] IN
    IF u = s.lastUrl /\ s.lastIsLive = (u \in Live) /\ s.status = "playing"
    THEN /\ svc' = s
         /\ call' = [call EXCEPT ![c] = FreeCall]
         /\ session' = IF ofSession THEN "free" ELSE session
         /\ UNCHANGED engine
    ELSE /\ UNCHANGED session
         /\ IF s.lastUrl \notin {NoUrl, u}
            THEN /\ svc' = Stopping(s)
                 /\ call' = [call EXCEPT ![c] =
                                Waiting("stop", Media(u, FALSE), TRUE, ofSession)]
                 /\ Tells("stop", c, NoMedia)
            ELSE /\ svc' = Beginning(s, u)
                 /\ Opens(c, Media(u, FALSE), u \in Live, TRUE, ofSession)

-----------------------------------------------------------------------------
PlayerInit ==
    /\ svc = [lastUrl |-> NoUrl, lastIsLive |-> FALSE, status |-> "idle",
              retryCount |-> 0, retryTimer |-> FALSE, debounce |-> FALSE,
              audioCheck |-> NoUrl, proxyActive |-> FALSE, proxyTried |-> {}]
    /\ engine = [queue |-> <<>>, media |-> NoMedia, playing |-> FALSE, paused |-> FALSE]
    /\ call = [c \in Calls |-> FreeCall]
    /\ session = "free" /\ requested = NoUrl /\ overlapped = FALSE
    /\ presses = 0 /\ trouble = 0

(* Presses.                                                                *)

\* startPlayback: a second one while the first is pending plays nothing, and
\* its request id makes the first give up.
StartPlayback(c, u) ==
    /\ Pressed(c, u)
    /\ IF session = "free"
       THEN /\ session' = "pending"
            /\ call' = [call EXCEPT ![c] = Waiting("resolve", Media(u, FALSE), TRUE, TRUE)]
       ELSE session' = "superseded" /\ UNCHANGED call
    /\ UNCHANGED <<svc, engine, trouble>>

Zap(c, u) ==
    /\ Pressed(c, u)
    /\ Plays(c, u, FALSE)
    /\ UNCHANGED trouble

\* The stop button, the sleep timer, or stop from the media session.
Stop(c) ==
    /\ Pressed(c, NoUrl)
    /\ svc' = Stopping(svc)
    /\ call' = [call EXCEPT ![c] = Waiting("stop", NoMedia, FALSE, FALSE)]
    /\ Tells("stop", c, NoMedia)
    /\ UNCHANGED <<session, trouble>>

PauseOrResume ==
    /\ presses < MaxPresses /\ engine.queue = <<>> /\ engine.media # NoMedia
    /\ presses' = presses + 1
    /\ engine' = [engine EXCEPT !.paused = ~@, !.playing = FALSE]
    /\ svc' = IF engine.playing THEN NotPlaying(svc) ELSE svc
    /\ UNCHANGED <<call, session, requested, overlapped, trouble>>

-----------------------------------------------------------------------------
(* Calls that go on.                                                       *)

Resolved(c) ==
    /\ call[c].at = "resolve"
    /\ \/ session = "superseded" /\ Returns(c) /\ UNCHANGED <<svc, engine>>
       \/ session = "pending" /\ Plays(c, call[c].media.url, TRUE)
    /\ UNCHANGED <<requested, overlapped, presses, trouble>>

\* stop() resets the state; play() goes on with its stream.
Stopped(c) ==
    /\ call[c].at = "stopped"
    /\ LET idle == [svc EXCEPT !.status = "idle"] IN
        \/ /\ ~call[c].isPlay
           /\ svc' = idle
           /\ Returns(c) /\ UNCHANGED engine
        \/ /\ call[c].isPlay
           /\ svc' = Beginning(idle, call[c].media.url)
           /\ Opens(c, call[c].media, call[c].media.url \in Live, TRUE, call[c].ofSession)
           /\ UNCHANGED session
    /\ UNCHANGED <<requested, overlapped, presses, trouble>>

TierLoaded(c) ==
    /\ call[c].at = "tier"
    /\ Moves(c, "open")
    /\ Tells("open", c, call[c].media)
    /\ UNCHANGED <<svc, session, requested, overlapped, presses, trouble>>

Opened(c) ==
    /\ call[c].at = "opened"
    /\ svc' = IF call[c].isPlay THEN [svc EXCEPT !.audioCheck = call[c].media.url] ELSE svc
    /\ Returns(c)
    /\ UNCHANGED <<engine, requested, overlapped, presses, trouble>>

\* _retryWithProxy after the proxy started, or did not.
Proxied(c) ==
    /\ call[c].at = "proxy"
    /\ \/ Returns(c) /\ UNCHANGED <<svc, engine>>
       \/ /\ svc' = [svc EXCEPT !.proxyActive = TRUE]
          /\ Opens(c, Media(call[c].media.url, TRUE), svc.lastIsLive, FALSE, FALSE)
          /\ UNCHANGED session
    /\ UNCHANGED <<requested, overlapped, presses, trouble>>

-----------------------------------------------------------------------------
(* Timers.                                                                 *)

RetryTimer(c) ==
    /\ svc.retryTimer /\ Begins(c)
    /\ svc' = [svc EXCEPT !.retryTimer = FALSE]
    /\ IF svc.lastUrl = NoUrl THEN UNCHANGED <<call, engine>>
       ELSE Opens(c, Media(svc.lastUrl, FALSE), TRUE, FALSE, FALSE)
    /\ UNCHANGED <<session, requested, presses, trouble>>

\* Three seconds after an opening: no audio track may have been found.
AudioCheck(c) ==
    LET u == svc.audioCheck IN
    /\ u # NoUrl /\ Begins(c)
    /\ \/ /\ svc' = [svc EXCEPT !.audioCheck = NoUrl]
          /\ UNCHANGED call
       \/ /\ ~svc.proxyActive /\ svc.lastUrl = u /\ u \notin svc.proxyTried
          /\ svc' = [svc EXCEPT !.audioCheck = NoUrl, !.proxyTried = @ \cup {u}]
          /\ call' = [call EXCEPT ![c] = Waiting("proxy", Media(u, FALSE), FALSE, FALSE)]
    /\ UNCHANGED <<engine, session, requested, presses, trouble>>

BufferingDebounce ==
    /\ svc.debounce
    /\ svc' = [svc EXCEPT !.debounce = FALSE,
                          !.status = IF @ = "playing" THEN @ ELSE "buffering"]
    /\ UNCHANGED <<engine, call, session, requested, overlapped, presses, trouble>>

-----------------------------------------------------------------------------
(* The native player and its events.                                       *)

\* It executes the head of its queue; playing turns false on the way.
Engine ==
    /\ engine.queue # <<>>
    /\ LET head == Head(engine.queue) IN
        /\ engine' = [queue |-> Tail(engine.queue), media |-> head.media,
                      playing |-> FALSE, paused |-> FALSE]
        /\ Moves(head.by, IF head.op = "stop" THEN "stopped" ELSE "opened")
    /\ svc' = IF engine.playing THEN NotPlaying(svc) ELSE svc
    /\ UNCHANGED <<session, requested, overlapped, presses, trouble>>

Starts ==
    /\ engine.media # NoMedia /\ ~engine.playing /\ ~engine.paused
    /\ engine' = [engine EXCEPT !.playing = TRUE]
    /\ svc' = Playing(svc)
    /\ UNCHANGED <<call, session, requested, overlapped, presses, trouble>>

\* An error, a stall the watchdog sees, or buffering.
Troubled ==
    /\ engine.media # NoMedia /\ trouble < MaxTrouble
    /\ trouble' = trouble + 1
    /\ \/ svc' = Failing(svc)
       \/ /\ svc.lastIsLive /\ svc.status = "playing" /\ svc.lastUrl # NoUrl
          /\ svc' = [svc EXCEPT !.retryCount = 0, !.status = "buffering", !.retryTimer = TRUE]
       \/ ~svc.debounce /\ svc' = [svc EXCEPT !.debounce = TRUE]
    /\ UNCHANGED <<engine, call, session, requested, overlapped, presses>>

BufferingEnds ==
    /\ svc.debounce /\ engine.playing
    /\ svc' = [svc EXCEPT !.debounce = FALSE, !.status = "playing"]
    /\ UNCHANGED <<engine, call, session, requested, overlapped, presses, trouble>>

PlayerNext ==
    \/ \E c \in Calls :
        \/ \E u \in Urls : StartPlayback(c, u) \/ Zap(c, u)
        \/ Stop(c) \/ Resolved(c) \/ Stopped(c) \/ TierLoaded(c) \/ Opened(c)
        \/ Proxied(c) \/ RetryTimer(c) \/ AudioCheck(c)
    \/ PauseOrResume \/ BufferingDebounce \/ Engine \/ Starts \/ Troubled
    \/ BufferingEnds

PlayerSpec == PlayerInit /\ [][PlayerNext]_playerVars

-----------------------------------------------------------------------------
Statuses == {"idle", "buffering", "playing", "paused", "error"}

\* Types; the retries of a live stream stay within their limit.
PlayerTypeOK ==
    /\ svc.lastUrl \in Urls \cup {NoUrl} /\ svc.audioCheck \in Urls \cup {NoUrl}
    /\ svc.status \in Statuses /\ svc.retryCount \in 0..MaxRetries
    /\ {svc.lastIsLive, svc.retryTimer, svc.debounce, svc.proxyActive} \subseteq BOOLEAN
    /\ svc.proxyTried \subseteq Urls
    /\ engine.media.url \in Urls \cup {NoUrl}
    /\ \A n \in DOMAIN engine.queue : engine.queue[n].by \in Calls
    /\ session \in {"free", "pending", "superseded"}
    /\ requested \in Urls \cup {NoUrl}

\* Nothing is under way and no timer will open anything.
Quiet ==
    /\ \A c \in Calls : call[c] = FreeCall
    /\ ~svc.retryTimer /\ svc.audioCheck = NoUrl

\* Once everything has settled the native player has what the user asked for
\* last, or nothing after a stop, whatever errors, stalls and proxy retries came
\* in between, as long as no press or timer began a call while another one
\* was under way: there the code lets an earlier call win.
RequestedPlays == Quiet /\ ~overlapped => engine.media.url = requested

=============================================================================
