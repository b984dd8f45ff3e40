------------------------------ MODULE GuideFetch ------------------------------
(***************************************************************************)
(* The programme guide of an XMLTV address: fetch_and_save_xmltv_epg       *)
(* (services/epg_sync.rs) with its cooldown and its HTTP validators, the   *)
(* tables it fills (services/epg.rs), and how the guide of a channel is    *)
(* looked up afterwards.                                                   *)
(*                                                                         *)
(* The validators and the cooldown are settings kept per address; channel  *)
(* definitions and programmes are rows of a source and go with it.  One    *)
(* channel per source stands for all: MatchIds are the ways to match it.   *)
(***************************************************************************)
EXTENDS Naturals, FiniteSets

CONSTANTS
    GuideSources, \* ids a source may be given
    Fetchers,     \* calls of fetch_and_save_xmltv_epg under way together
    GuideIds,     \* which ids of the channel the guide lists
    MaxVersion    \* bound: how often the provider publishes a new guide

MatchIds == {"tvg", "name", "xtream"}

ASSUME GuideAssumption == GuideIds \subseteq MatchIds /\ MaxVersion \in Nat \ {0}

NoCall == [pc |-> "idle", src |-> "none", tag |-> 0, ver |-> 0]

VARIABLES
    known,       \* sources in db_sources, all with the address as epg_url
    version,     \* the guide the provider serves
    validator,   \* db_settings: the version of the stored ETag, 0 if none
    cooling,     \* db_settings: the address was refreshed within four hours
    bridge,      \* sources whose channel definitions are in db_epg_channels
    guide,       \* version of the programmes of each source, 0 if none
    ids,         \* what the last sync stored of each source's channel
    mapped,      \* epg_channel_id of each source's channel
    fetch        \* where each call is

guideVars == <<known, version, validator, cooling, bridge, guide, ids, mapped, fetch>>

-----------------------------------------------------------------------------
\* Mutant: any channel is taken for the one the guide names.
ResolvedByAnyName(s) ==
    IF "tvg" \in ids[s] \cap GuideIds THEN "tvg"
    ELSE IF s \in bridge THEN "name"
    ELSE IF "xtream" \in ids[s] \cap GuideIds THEN "xtream"
    ELSE "none"

\* Which id resolve_epg_channel_ids settles on, in its order of preference.
ResolvedId(s) ==
    IF "tvg" \in ids[s] \cap GuideIds THEN "tvg"
    ELSE IF "name" \in ids[s] /\ s \in bridge THEN "name"
    ELSE IF "xtream" \in ids[s] \cap GuideIds THEN "xtream"
    ELSE "none"

\* Mutant: only the resolved id is looked up.
LookupByMapping(s) == {mapped[s]}

\* The ids get_epgs_for_channels asks db_epg_entries about.
LookupIds(s) ==
    {mapped[s]} \cup (ids[s] \ IF s \in bridge THEN {} ELSE {"name"})

Shown(s) == \E i \in LookupIds(s) \cap GuideIds : \E p \in GuideSources : guide[p] # 0

-----------------------------------------------------------------------------
Finish(f) == fetch' = [fetch EXCEPT ![f] = NoCall]

\* fetchEpg asks for the address once, for the first source that has it; a call
\* within the cooldown that is not forced returns at once.
FetchBegin(f, s, force) ==
    /\ fetch[f].pc = "idle"
    /\ s \in known
    /\ force \/ ~cooling
    /\ fetch' = [fetch EXCEPT ![f] = [pc |-> "request", src |-> s, tag |-> validator, ver |-> 0]]
    /\ UNCHANGED <<known, version, validator, cooling, bridge, guide, ids, mapped>>

\* All attempts of with_retry failed.
FetchFails(f) ==
    /\ fetch[f].pc = "request"
    /\ Finish(f)
    /\ UNCHANGED <<known, version, validator, cooling, bridge, guide, ids, mapped>>

\* Status 304: the validators sent, read when the call began, are those of the
\* guide on offer.
NotModified(f) ==
    /\ fetch[f].pc = "request"
    /\ fetch[f].tag = version
    /\ cooling' = TRUE
    /\ Finish(f)
    /\ UNCHANGED <<known, version, validator, bridge, guide, ids, mapped>>

\* Status 200: the payload is parsed and its validators are stored first.  If
\* nothing is found in it, nothing else is saved.
Parsed(f) ==
    /\ fetch[f].pc = "request"
    /\ fetch[f].tag # version
    /\ validator' = version
    /\ \/ /\ fetch' = [fetch EXCEPT ![f].pc = "channels", ![f].ver = version]
          /\ UNCHANGED cooling
       \/ cooling' = TRUE /\ Finish(f)
    /\ UNCHANGED <<known, version, bridge, guide, ids, mapped>>

\* save_epg_channels violates the foreign key if the source is gone.
SaveGuideChannels(f) ==
    /\ fetch[f].pc = "channels"
    /\ IF fetch[f].src \in known
       THEN /\ bridge' = bridge \cup {fetch[f].src}
            /\ fetch' = [fetch EXCEPT ![f].pc = "resolve"]
       ELSE Finish(f) /\ UNCHANGED bridge
    /\ UNCHANGED <<known, version, validator, cooling, guide, ids, mapped>>

ResolveChannelIds(f) ==
    /\ fetch[f].pc = "resolve"
    /\ LET s == fetch[f].src
       IN  mapped' = [mapped EXCEPT ![s] =
                        IF s \in known /\ @ = "none" THEN ResolvedId(s) ELSE @]
    /\ fetch' = [fetch EXCEPT ![f].pc = "entries"]
    /\ UNCHANGED <<known, version, validator, cooling, bridge, guide, ids>>

\* Mutant: programmes are stored whether or not their source is there.
SaveEntriesUnchecked(f) ==
    /\ fetch[f].pc = "entries"
    /\ guide' = [guide EXCEPT ![fetch[f].src] = fetch[f].ver]
    /\ cooling' = TRUE
    /\ Finish(f)
    /\ UNCHANGED <<known, version, validator, bridge, ids, mapped>>

\* save_epg_entries is one transaction.
SaveEntries(f) ==
    /\ fetch[f].pc = "entries"
    /\ IF fetch[f].src \in known
       THEN /\ guide' = [guide EXCEPT ![fetch[f].src] = fetch[f].ver]
            /\ cooling' = TRUE
            /\ Finish(f)
       ELSE Finish(f) /\ UNCHANGED <<guide, cooling>>
    /\ UNCHANGED <<known, version, validator, bridge, ids, mapped>>

-----------------------------------------------------------------------------
\* Every identifier of the channel becomes what the provider lists now, and may
\* be lost: tvg_id also when the playlist it is taken from cannot be fetched.
\* epg_channel_id becomes the API's, which is then tvg_id too, or none.
SaveChannelIds(s) ==
    \E I \in SUBSET MatchIds \ {{}}, i \in {"none", "tvg"} :
        /\ i \in I \cup {"none"}
        /\ ids' = [ids EXCEPT ![s] = I]
        /\ mapped' = [mapped EXCEPT ![s] = i]

\* A new row for the source, the channel's row comes with its first sync.
AddGuideSource(s) ==
    /\ s \notin known
    /\ ids[s] = {}
    /\ known' = known \cup {s}
    /\ SaveChannelIds(s)
    /\ UNCHANGED <<version, validator, cooling, bridge, guide, fetch>>

\* The cascade takes channels, channel definitions and programmes, no setting.
DeleteGuideSource(s) ==
    /\ s \in known
    /\ known' = known \ {s}
    /\ bridge' = bridge \ {s}
    /\ guide' = [guide EXCEPT ![s] = 0]
    /\ mapped' = [mapped EXCEPT ![s] = "none"]
    /\ UNCHANGED <<version, validator, cooling, ids, fetch>>

Resync(s) ==
    /\ s \in known
    /\ SaveChannelIds(s)
    /\ UNCHANGED <<known, version, validator, cooling, bridge, guide, fetch>>

\* clear_epg_entries: the Clear button of the guide in the storage settings.
ClearEntries ==
    /\ \E s \in GuideSources : guide[s] # 0
    /\ guide' = [s \in GuideSources |-> 0]
    /\ UNCHANGED <<known, version, validator, cooling, bridge, ids, mapped, fetch>>

CooldownEnds ==
    /\ cooling
    /\ cooling' = FALSE
    /\ UNCHANGED <<known, version, validator, bridge, guide, ids, mapped, fetch>>

Publish ==
    /\ version < MaxVersion
    /\ version' = version + 1
    /\ UNCHANGED <<known, validator, cooling, bridge, guide, ids, mapped, fetch>>

GuideInit ==
    /\ known = {} /\ bridge = {}
    /\ version = 1 /\ validator = 0 /\ cooling = FALSE
    /\ guide = [s \in GuideSources |-> 0]
    /\ ids = [s \in GuideSources |-> {}]
    /\ mapped = [s \in GuideSources |-> "none"]
    /\ fetch = [f \in Fetchers |-> NoCall]

GuideNext ==
    \/ \E f \in Fetchers :
          \/ \E s \in GuideSources, force \in BOOLEAN : FetchBegin(f, s, force)
          \/ FetchFails(f)
          \/ NotModified(f)
          \/ Parsed(f)
          \/ SaveGuideChannels(f)
          \/ ResolveChannelIds(f)
          \/ SaveEntries(f)
    \/ \E s \in GuideSources : AddGuideSource(s) \/ DeleteGuideSource(s) \/ Resync(s)
    \/ ClearEntries
    \/ CooldownEnds
    \/ Publish

GuideSpec == GuideInit /\ [][GuideNext]_guideVars

-----------------------------------------------------------------------------
\* Types; a channel is mapped to an id of its own.
GuideTypeOK ==
    /\ known \subseteq GuideSources /\ bridge \subseteq GuideSources
    /\ version \in 1..MaxVersion /\ validator \in 0..MaxVersion
    /\ cooling \in BOOLEAN
    /\ guide \in [GuideSources -> 0..MaxVersion]
    /\ ids \in [GuideSources -> SUBSET MatchIds]
    /\ \A s \in GuideSources : mapped[s] \in ids[s] \cup {"none"}
    /\ fetch \in [Fetchers -> [pc : {"idle", "request", "channels", "resolve", "entries"},
                              src : GuideSources \cup {"none"},
                              tag : 0..MaxVersion, ver : 0..MaxVersion]]

\* A fetch that outlives its source leaves no programmes, definitions or
\* mapping behind (epg.rs: the foreign keys of what the fetch saves).
NoGuideOfDeletedSource ==
    \A s \in GuideSources \ known : guide[s] = 0 /\ s \notin bridge /\ mapped[s] = "none"

\* A sync of the playlist forgets the mapping a guide fetch has resolved; the
\* guide stays on screen all the same if the sync leaves the channel one of the
\* ids it was found by, whichever the mapping was (resolve_epg_keys_for_channels).
ResyncKeepsGuide ==
    [][\A s \in GuideSources :
          /\ Resync(s) /\ Shown(s)
          /\ ids'[s] \cap LookupIds(s) \cap GuideIds # {}
          => Shown(s)']_guideVars

=============================================================================
