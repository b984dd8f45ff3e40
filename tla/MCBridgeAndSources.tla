-------------------------- MODULE MCBridgeAndSources --------------------------
(***************************************************************************)
(* The web bridge and the catalogue of the sources, which share no state,  *)
(* checked in one run: a behaviour is one of either, chosen at the start,  *)
(* while the other rests.  Fairness is that of the bridge: a client that   *)
(* is closed takes no step, so the sources owe it none.                    *)
(***************************************************************************)
EXTENDS WsBridge, SourceSync

VARIABLE part  \* the part that moves

partVars == <<part, wsVars, sourceVars>>

MCInit ==
    /\ SourceInit
    /\ part \in {"bridge", "sources"}
    /\ IF part = "bridge" THEN WsInit ELSE Resting("off")

BridgePart == part = "bridge" /\ WsNext /\ UNCHANGED <<part, sourceVars>>
SourcePart == part = "sources" /\ SourceNext /\ UNCHANGED <<part, wsVars>>

MCNext == BridgePart \/ SourcePart

MCSpec == MCInit /\ [][MCNext]_partVars /\ WsFairness

-----------------------------------------------------------------------------
MCAsks == [i \in {"r1", "r2"} |-> IF i = "r1" THEN "channels" ELSE "history"]
MCSourceType == [s \in {"tv", "list", "films"} |-> IF s = "tv" THEN "xtream" ELSE "m3u"]
MCUrl == [s \in {"tv", "list", "films"} |-> s]
Item(u, k, n) == [url |-> u, kind |-> k, num |-> n]
\* Two playlists have a movie in common; a series and an episode of tv have one
\* number, which in db_movies is one native id.
MCItems == {Item("tv", "movie", 1), Item("tv", "series", 2), Item("tv", "episode", 2),
            Item("list", "live", 3), Item("list", "movie", 3), Item("films", "movie", 3)}
=============================================================================
