------------------------------ MODULE CloudMerge ------------------------------
(***************************************************************************)
(* merge_backups (core/algorithms/cloud_sync/merge.rs): this device's      *)
(* backup and the cloud's become one.  Two devices held the same, each was *)
(* used, both were exported (core/backup.rs).  What the import makes of    *)
(* the result is CloudSync's matter; here only the result counts.          *)
(*                                                                         *)
(* A section of a backup is a function from keys (ids) to contents.        *)
(***************************************************************************)
EXTENDS Naturals

CONSTANTS
    Household, \* profiles both devices hold to begin with
    Viewers,   \* profile ids, those of the household among them
    Clock,     \* times a device's clock may show, in no order between devices
    MaxUses    \* bound: rows written on either device since they held the same

ASSUME MergeAssumption ==
    Household \subseteq Viewers /\ Clock \subseteq Nat \ {0} /\ MaxUses \in Nat

VARIABLES
    held,  \* the backups: "local" this device's, "cloud" the other's
    uses   \* rows written so far

mergeVars == <<held, uses>>

-----------------------------------------------------------------------------
(* The sections.                                                           *)

\* TLC's first @@ second, which the proof system does not define.
Over(first, second) ==
    [key \in DOMAIN first \cup DOMAIN second |->
        IF key \in DOMAIN first THEN first[key] ELSE second[key]]

Latest(m, n) == IF m > n THEN m ELSE n

\* A JSON object's member, or what unwrap_or makes of a missing one.
Field(entry, key, missing) == IF key \in DOMAIN entry THEN entry[key] ELSE missing

\* Mutant: the older backup is taken for the newer.
LocalIsOlder(local, cloud) == local.exportedAt < cloud.exportedAt

LocalIsNewer(local, cloud) == local.exportedAt > cloud.exportedAt

\* Mutant: the local backup is always preferred.
LocalById(local, cloud, preferLocal) == Over(local, cloud)

MergeById(local, cloud, preferLocal) ==
    IF preferLocal THEN Over(local, cloud) ELSE Over(cloud, local)

MergeMapOfLists(local, cloud) ==
    [key \in DOMAIN local \cup DOMAIN cloud |-> Field(local, key, {}) \cup Field(cloud, key, {})]

SanitiseCloudProfile(pin) == IF pin = "plain" THEN "none" ELSE pin

MergeProfiles(local, cloud) ==
    Over(local, [id \in DOMAIN cloud |-> SanitiseCloudProfile(cloud[id])])

SyncMetaKeys == {"last_sync_time"}

MergeSettings(local, cloud, localIsNewer) ==
    LET merged == MergeById(local, cloud, localIsNewer)
    IN  [key \in (DOMAIN merged \ SyncMetaKeys) \cup (DOMAIN local \cap SyncMetaKeys) |->
            IF key \in SyncMetaKeys THEN local[key] ELSE merged[key]]

\* An exported entry has last_watched and position_ms: the members read here
\* are missing, 0 stands for a time that cannot be parsed.
MergeWatchHistory(local, cloud) ==
    LET time(entry) == Field(entry, "lastWatched", 0)
        place(entry) == Field(entry, "positionMs", 0)
        useLocal(id) == /\ time(cloud[id]) # 0
                        /\ time(local[id]) > time(cloud[id])
        both(id) == Over([positionMs |-> Latest(place(local[id]), place(cloud[id]))],
                         IF useLocal(id) THEN local[id] ELSE cloud[id])
    IN  [id \in DOMAIN local \cup DOMAIN cloud |->
            IF id \notin DOMAIN cloud THEN local[id]
            ELSE IF id \notin DOMAIN local THEN cloud[id] ELSE both(id)]

\* Sources by name and address; the content is the id.
MergeSources(local, cloud) == Over(local, cloud)

MergeBackups(local, cloud, now) ==
    LET newer == LocalIsNewer(local, cloud)
    IN  [exportedAt    |-> now,
         profiles      |-> MergeProfiles(local.profiles, cloud.profiles),
         favorites     |-> MergeMapOfLists(local.favorites, cloud.favorites),
         channelOrders |-> MergeById(local.channelOrders, cloud.channelOrders, TRUE),
         sourceAccess  |-> MergeMapOfLists(local.sourceAccess, cloud.sourceAccess),
         settings      |-> MergeSettings(local.settings, cloud.settings, newer),
         watchHistory  |-> MergeWatchHistory(local.watchHistory, cloud.watchHistory),
         recordings    |-> MergeById(local.recordings, cloud.recordings, newer),
         sources       |-> MergeSources(local.sources, cloud.sources)]

-----------------------------------------------------------------------------
(* The devices are used and export what they hold.                         *)

\* exportedAt is 0 until the device exports.
Common ==
    [exportedAt |-> 0, profiles |-> [p \in Household |-> "none"], favorites |-> <<>>,
     channelOrders |-> <<>>, sourceAccess |-> <<>>, settings |-> <<>>,
     watchHistory |-> <<>>, recordings |-> <<>>, sources |-> <<>>]

Write(d, section, key, content) ==
    /\ held[d].exportedAt = 0 /\ uses < MaxUses
    /\ held' = [held EXCEPT ![d][section] = Over([k \in {key} |-> content], @)]
    /\ uses' = uses + 1

\* A plain PIN is one stored before PINs were hashed.
SaveProfile(d) ==
    \E p \in Viewers, pin \in {"none", "hashed", "plain"} : Write(d, "profiles", p, pin)

AddFavoriteChannel(d, channel) ==
    \E p \in DOMAIN held[d].profiles :
        Write(d, "favorites", p, Field(held[d].favorites, p, {}) \cup {channel})

SetSourceAccess(d, granted) ==
    \E p \in DOMAIN held[d].profiles : Write(d, "sourceAccess", p, granted)

SaveChannelOrder(d, index) ==
    \E p \in DOMAIN held[d].profiles : Write(d, "channelOrders", p, index)

SetSetting(d) ==
    \E key \in {"theme_mode"} \cup SyncMetaKeys, value \in {d, "other"} :
        Write(d, "settings", key, value)

SaveWatchHistory(d) ==
    \E time \in Clock, place \in 1..2 :
        Write(d, "watchHistory", "film", [last_watched |-> time, position_ms |-> place])

SaveRecording(d) ==
    \E status \in {"scheduled", "completed"} : Write(d, "recordings", "news", status)

SaveSource(d) == \E id \in {d, "shared"} : Write(d, "sources", "playlist", id)

\* A profile without grants is left out of them.
ExportBackup(d) ==
    /\ held[d].exportedAt = 0
    /\ \E time \in Clock :
        held' = [held EXCEPT
            ![d].exportedAt = time,
            ![d].sourceAccess = [p \in {q \in DOMAIN @ : @[q] # {}} |-> @[p]]]
    /\ UNCHANGED uses

MergeInit == held = [d \in {"local", "cloud"} |-> Common] /\ uses = 0

MergeNext ==
    \E d \in {"local", "cloud"} :
        \/ SaveProfile(d) \/ SetSetting(d) \/ SaveWatchHistory(d)
        \/ SaveRecording(d) \/ SaveSource(d) \/ ExportBackup(d)
        \/ AddFavoriteChannel(d, "channel")
        \/ \E granted \in {{}, {d}} : SetSourceAccess(d, granted)
        \/ \E index \in 0..1 : SaveChannelOrder(d, index)

MergeSpec == MergeInit /\ [][MergeNext]_mergeVars

-----------------------------------------------------------------------------
Exported == \A d \in DOMAIN held : held[d].exportedAt # 0

\* What the devices agree on by the strategy merge.rs states: a profile, an
\* order, the times of the syncs and a source's id stay each device's own, and
\* of the history (merge_watch_history reads members no export has) only the
\* ids are the same.
Agreed(backup) ==
    [profiles  |-> DOMAIN backup.profiles, favorites  |-> backup.favorites,
     orders    |-> DOMAIN backup.channelOrders, access |-> backup.sourceAccess,
     settings  |-> [key \in DOMAIN backup.settings \ SyncMetaKeys |-> backup.settings[key]],
     history   |-> DOMAIN backup.watchHistory, recordings |-> backup.recordings,
     sources   |-> DOMAIN backup.sources]

\* Whichever of two devices merges, they come to the same: what one has added
\* is lost on neither, and of two contents both keep the newer backup's.
EitherMergesAlike ==
    Exported /\ held["local"].exportedAt # held["cloud"].exportedAt =>
        \A now \in Clock :
            Agreed(MergeBackups(held["local"], held["cloud"], now)) =
            Agreed(MergeBackups(held["cloud"], held["local"], now))

\* A backup as an import reads it: positionMs means nothing to it.
AsRead(backup) ==
    [backup EXCEPT !.watchHistory =
        [id \in DOMAIN @ |-> <<@[id].last_watched, @[id].position_ms>>]]

\* A merge that is repeated changes nothing more: neither when this device,
\* holding the result, finds the cloud as it was (its upload had failed), nor
\* when, with its own data as they were (the import had failed), it finds the
\* result in the cloud.
MergeAgainIsIdle ==
    Exported =>
        \A now \in {t \in Clock : t >= held["local"].exportedAt} :
            LET merged == MergeBackups(held["local"], held["cloud"], now)
            IN  /\ AsRead(MergeBackups(merged, held["cloud"], now)) = AsRead(merged)
                /\ AsRead(MergeBackups(held["local"], merged, now)) = AsRead(merged)

===============================================================================
