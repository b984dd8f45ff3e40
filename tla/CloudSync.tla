------------------------------- MODULE CloudSync -------------------------------
(***************************************************************************)
(* Devices that keep one backup in Google Drive: CloudSyncService decides  *)
(* whether to upload or to download from three times, backup.rs exports    *)
(* and imports, and google_drive_api_client.dart finds the file.           *)
(*                                                                         *)
(* A sync awaits the network between its steps.  An import is one call of  *)
(* the core, in which every row and every setting is a transaction of its  *)
(* own and a failing one is passed over; only an interruption shows.       *)
(* One profile, a favourite channel per source and one resume position     *)
(* stand for all.  The clocks of the devices and of Drive agree.  Nothing  *)
(* sets the time of local changes but a sync (markLocalModified has no     *)
(* caller), and no backup bears a device id that Drive would report.       *)
(***************************************************************************)
EXTENDS Naturals, FiniteSets

CONSTANTS
    Devices,
    Start,       \* the sources each device begins with
    Tolerance,   \* difference of times that counts as none (5 s)
    MaxTime,     \* bound: the clock
    MaxActs,     \* bound: syncs begun, and twice the changes made by the user
    MaxFaults    \* bound: interruptions and failed transfers

CloudSources == UNION {Start[d] : d \in Devices}

ASSUME CloudAssumption ==
    /\ Tolerance \in Nat /\ MaxTime \in Nat \ {0}
    /\ MaxActs \in Nat /\ MaxFaults \in Nat

VARIABLES
    device,     \* the database of each device
    files,      \* the backups in Drive: [id, time, backup]
    op,         \* the sync each device is in
    now, acts, faults,
    half,       \* history: was each device left with half of an import: no, yes, or
                \* asked, when its user had asked for it against the device's times
    conflicted  \* history: devices that were told of a conflict

cloudVars == <<device, files, op, now, acts, faults, half, conflicted>>

\* db_sources, channels stored, favourites, source access, watch history, and
\* the settings local_modified_time and last_sync_time, 0 for never.
Database(S) == [sources |-> S, listed |-> S, favs |-> {}, access |-> {},
                pos |-> 0, mod |-> 0, last |-> 0]
NoOp == [at |-> "idle", forced |-> FALSE, backup |-> Database({}), file |-> 0,
         time |-> 0, against |-> FALSE]

Acts == acts < MaxActs /\ acts' = acts + 1
Edits == acts + 1 < MaxActs /\ acts' = acts + 2

\* What is left of a sync once its data has arrived.
Ends(d) == op' = [op EXCEPT ![d] = [NoOp EXCEPT !.at = "last"]]
Put(d, at) == op' = [op EXCEPT ![d].at = at]

\* The device and the backup are one again.
Whole(d) == half' = [half EXCEPT ![d] = "no"]

-----------------------------------------------------------------------------
\* determine_sync_direction; the device ids always differ.
Direction(v, t) ==
    IF t = 0 THEN IF v.mod = 0 THEN "no_change" ELSE "upload"
    ELSE IF v.mod = 0 THEN "download"
    ELSE IF v.mod <= t + Tolerance /\ t <= v.mod + Tolerance THEN "no_change"
    ELSE IF v.mod > v.last /\ v.mod > t THEN "conflict"
    ELSE IF v.mod > t THEN "upload" ELSE "download"

Times == IF files = {} THEN {0} ELSE {f.time : f \in files}

\* syncNow; the first of the files that Drive lists is the one.  On a conflict the
\* user may keep either side or cancel; to merge changes nothing either, since the
\* merged backup has no storageBackends and import_backup refuses it.
SyncNow(d) ==
    /\ op[d].at = "idle" /\ Acts
    /\ \E t \in Times :
        LET way == Direction(device[d], t) IN
        /\ way # "no_change"
        /\ IF way = "conflict"
           THEN \E answer \in {"upload", "download", "idle"} :
                   op' = [op EXCEPT ![d] = [NoOp EXCEPT !.at = answer, !.forced = TRUE]]
           ELSE op' = [op EXCEPT ![d] = [NoOp EXCEPT !.at = way]]
        /\ conflicted' = IF way = "conflict" THEN conflicted \cup {d} ELSE conflicted
    /\ UNCHANGED <<device, files, now, faults, half>>

\* forceUpload and forceDownload.
ForceSync(d, way) ==
    /\ op[d].at = "idle" /\ Acts
    /\ op' = [op EXCEPT ![d] = [NoOp EXCEPT !.at = way, !.forced = TRUE]]
    /\ UNCHANGED <<device, files, now, faults, half, conflicted>>

-----------------------------------------------------------------------------
(* _uploadBackup                                                           *)

Export(d) ==
    /\ op[d].at = "upload"
    /\ op' = [op EXCEPT ![d].at = "find", ![d].backup = device[d]]
    /\ UNCHANGED <<device, files, now, acts, faults, half, conflicted>>

\* uploadBackup finds the file to update, or finds none and creates one.
FindFile(d) ==
    /\ op[d].at = "find"
    /\ \E i \in IF files = {} THEN {0} ELSE {f.id : f \in files} :
          op' = [op EXCEPT ![d].at = "put", ![d].file = i]
    /\ UNCHANGED <<device, files, now, acts, faults, half, conflicted>>

PutFile(d) ==
    /\ op[d].at = "put"
    /\ LET i == IF op[d].file = 0 THEN Cardinality(files) + 1 ELSE op[d].file
       IN  files' = {f \in files : f.id # i}
                        \cup {[id |-> i, time |-> now, backup |-> op[d].backup]}
    /\ Whole(d)
    /\ Ends(d)
    /\ UNCHANGED <<device, now, acts, faults, conflicted>>

-----------------------------------------------------------------------------
(* _downloadBackup and import_backup                                       *)

\* An import is asked for against the times if the device is ahead of the file.
StartsImport(d, f) ==
    op' = [op EXCEPT ![d].at = "rows", ![d].backup = f.backup,
                     ![d].against = op[d].forced /\ device[d].mod > f.time + Tolerance]

\* Mutant: the times are set before the import.
DownloadTimesFirst(d) ==
    /\ op[d].at = "download"
    /\ \E f \in files : StartsImport(d, f)
    /\ device' = [device EXCEPT ![d].mod = now, ![d].last = now]
    /\ UNCHANGED <<files, now, acts, faults, half, conflicted>>

Download(d) ==
    /\ op[d].at = "download"
    /\ \/ files = {} /\ op' = [op EXCEPT ![d] = NoOp]
       \/ \E f \in files : StartsImport(d, f)
    /\ UNCHANGED <<device, files, now, acts, faults, half, conflicted>>

\* Mutant: the access list is written without asking for its sources.
ImportRowsUnchecked(d) ==
    /\ op[d].at = "rows"
    /\ device' = [device EXCEPT ![d].favs = @ \cup (op[d].backup.favs \cap device[d].listed),
                                ![d].access = op[d].backup.access]
    /\ Put(d, "keys")
    /\ UNCHANGED <<files, now, acts, faults, half, conflicted>>

\* Favourites of channels that are not stored are passed over, and so is the
\* whole access list if one of its sources is missing: sources come last.  The
\* backup of an empty list leaves the list as it is.
ImportRows(d) ==
    /\ op[d].at = "rows"
    /\ LET b == op[d].backup IN
        device' = [device EXCEPT
            ![d].favs = @ \cup (b.favs \cap device[d].listed),
            ![d].access = IF b.access # {} /\ b.access \subseteq device[d].sources
                          THEN b.access ELSE @]
    /\ Put(d, "keys")
    /\ UNCHANGED <<files, now, acts, faults, half, conflicted>>

Restored(own, theirs) == IF theirs = 0 THEN own ELSE theirs

\* The settings come in any order: some may be written before an interruption.
ImportKeys(d) ==
    /\ op[d].at \in {"keys", "keys2"}
    /\ LET b == op[d].backup
           mod  == [device EXCEPT ![d].mod = Restored(@, b.mod)]
           last == [device EXCEPT ![d].last = Restored(@, b.last)]
       IN  \/ op[d].at = "keys" /\ Put(d, "keys2") /\ device' \in {mod, last}
           \/ /\ op[d].at = "keys2" /\ Put(d, "history")
              /\ device' = [mod EXCEPT ![d].last = last[d].last]
    /\ UNCHANGED <<files, now, acts, faults, half, conflicted>>

ImportHistory(d) ==
    /\ op[d].at = "history"
    /\ device' = [device EXCEPT ![d].pos = Restored(@, op[d].backup.pos),
                                ![d].sources = @ \cup op[d].backup.sources]
    /\ Whole(d)
    /\ Ends(d)
    /\ UNCHANGED <<files, now, acts, faults, conflicted>>

-----------------------------------------------------------------------------
\* Mutant: each time is the moment it is written.
SetModifiedLater(d) ==
    /\ op[d].at = "mod"
    /\ device' = [device EXCEPT ![d].mod = now]
    /\ op' = [op EXCEPT ![d] = NoOp]
    /\ UNCHANGED <<files, now, acts, faults, half, conflicted>>

SetLast(d) ==
    /\ op[d].at = "last"
    /\ device' = [device EXCEPT ![d].last = now]
    /\ op' = [op EXCEPT ![d].at = "mod", ![d].time = now]
    /\ UNCHANGED <<files, now, acts, faults, half, conflicted>>

SetModified(d) ==
    /\ op[d].at = "mod"
    /\ device' = [device EXCEPT ![d].mod = op[d].time]
    /\ op' = [op EXCEPT ![d] = NoOp]
    /\ UNCHANGED <<files, now, acts, faults, half, conflicted>>

\* The app is killed, or a transfer throws: the sync ends where it is.
Fault(d) ==
    /\ op[d].at # "idle" /\ faults < MaxFaults
    /\ faults' = faults + 1
    /\ half' = IF op[d].at \notin {"keys", "keys2", "history"} THEN half
               ELSE [half EXCEPT ![d] = IF op[d].against THEN "asked" ELSE "yes"]
    /\ op' = [op EXCEPT ![d] = NoOp]
    /\ UNCHANGED <<device, files, now, acts, conflicted>>

-----------------------------------------------------------------------------
(* The user.                                                               *)

Watch(d) ==
    /\ Edits
    /\ device' = [device EXCEPT ![d].pos = acts']
    /\ UNCHANGED <<files, op, now, faults, half, conflicted>>

Choose(d, s) ==
    /\ Edits
    /\ \/ s \in device[d].listed \ device[d].favs /\ device' = [device EXCEPT ![d].favs = @ \cup {s}]
       \/ s \in device[d].sources \ device[d].access /\ device' = [device EXCEPT ![d].access = @ \cup {s}]
    /\ UNCHANGED <<files, op, now, faults, half, conflicted>>

\* A playlist sync stores the channels of a source (SourceSync).
ListChannels(d, s) ==
    /\ s \in device[d].sources \ device[d].listed
    /\ device' = [device EXCEPT ![d].listed = @ \cup {s}]
    /\ UNCHANGED <<files, op, now, acts, faults, half, conflicted>>

ClockTicks ==
    /\ now < MaxTime
    /\ now' = now + 1
    /\ UNCHANGED <<device, files, op, acts, faults, half, conflicted>>

CloudInit ==
    /\ device = [d \in Devices |-> Database(Start[d])]
    /\ files = {} /\ op = [d \in Devices |-> NoOp]
    /\ now = 1 /\ acts = 0 /\ faults = 0
    /\ half = [d \in Devices |-> "no"] /\ conflicted = {}

CloudNext ==
    \/ \E d \in Devices :
        \/ SyncNow(d) \/ ForceSync(d, "upload") \/ ForceSync(d, "download")
        \/ Export(d) \/ FindFile(d) \/ PutFile(d)
        \/ Download(d) \/ ImportRows(d) \/ ImportKeys(d) \/ ImportHistory(d)
        \/ SetLast(d) \/ SetModified(d) \/ Fault(d) \/ Watch(d)
        \/ \E s \in CloudSources : Choose(d, s) \/ ListChannels(d, s)
    \/ ClockTicks

CloudSpec == CloudInit /\ [][CloudNext]_cloudVars

-----------------------------------------------------------------------------
\* Types; what is stored refers to sources and channels that are.
CloudTypeOK ==
    /\ \A d \in Devices :
        /\ device[d].listed \subseteq device[d].sources
        /\ device[d].favs \subseteq device[d].listed
        /\ device[d].access \subseteq device[d].sources
        /\ device[d].pos \in 0..MaxActs
        /\ {device[d].mod, device[d].last, op[d].time} \subseteq 0..now
    /\ now \in 1..MaxTime /\ acts \in 0..MaxActs /\ faults \in 0..MaxFaults
    /\ half \in [Devices -> {"no", "yes", "asked"}] /\ conflicted \subseteq Devices

\* A device on which an import was interrupted never uploads the mixture on its
\* own account: the times left behind send it to download again, or nowhere.  It
\* may if the user had asked for that import (forceDownload, a conflict settled
\* for the cloud) when the device's time was ahead of the file's: nothing marks
\* the import as begun.  And it may if two first uploads have made two files,
\* and Drive names now one, now the other.
HalfImportNotUploaded ==
    Cardinality(files) = 1 =>
        \A d \in Devices :
            half[d] = "yes" /\ op[d].at \in {"upload", "find", "put"} => op[d].forced

\* As long as nothing is interrupted no sync reports a conflict, whatever two
\* devices do in turn: the time of local changes is that of the last sync.
ConflictOnlyAfterFault == conflicted # {} => faults > 0

=============================================================================
