---------------------------- MODULE CloudSync_proofs ----------------------------
(***************************************************************************)
(* Proofs about the cloud backup, for any number of devices, syncs, changes *)
(* of the user and interruptions, and about the merge of two backups, for  *)
(* any household, clocks and rows written.                                 *)
(***************************************************************************)
EXTENDS CloudSync, CloudMerge, FiniteSetTheorems, TLAPS

Content == [sources : SUBSET CloudSources, listed : SUBSET CloudSources,
            favs : SUBSET CloudSources, access : SUBSET CloudSources,
            pos : 0..MaxActs, mod : Nat, last : Nat]
Places == {"idle", "upload", "find", "put", "download", "rows", "keys", "keys2",
           "history", "last", "mod"}
Operation == [at : Places, forced : BOOLEAN, backup : Content, file : Nat, time : Nat,
              against : BOOLEAN]
File == [id : Nat, time : Nat, backup : Content]

\* What is stored refers to what is stored, and no time lies in the future.
Refers(v) == v.listed \subseteq v.sources /\ v.favs \subseteq v.listed /\ v.access \subseteq v.sources
Past(v) == v.mod <= now /\ v.last <= now

OneDevice(v, o) ==
    /\ v \in Content /\ o \in Operation
    /\ Refers(v) /\ Past(v) /\ Past(o.backup) /\ o.time <= now

Counters ==
    /\ now \in 1..MaxTime /\ acts \in 0..MaxActs /\ faults \in 0..MaxFaults
    /\ half \in [Devices -> {"no", "yes", "asked"}] /\ conflicted \subseteq Devices

CloudTyped ==
    /\ device = [d \in Devices |-> device[d]] /\ op = [d \in Devices |-> op[d]]
    /\ \A d \in Devices : OneDevice(device[d], op[d])
    /\ IsFiniteSet(files) /\ files \subseteq File
    /\ \A f \in files : Past(f.backup)
    /\ Counters

LEMMA TypedImplies == CloudTyped => CloudTypeOK
  <1> SUFFICES ASSUME CloudTyped PROVE CloudTypeOK
    OBVIOUS
  <1>1. ASSUME NEW d \in Devices
        PROVE  /\ Refers(device[d]) /\ device[d].pos \in 0..MaxActs
               /\ {device[d].mod, device[d].last, op[d].time} \subseteq 0..now
    BY DEF CloudTyped, OneDevice, Content, Operation, Past, Counters
  <1>2. QED
    BY <1>1 DEF CloudTyped, Counters, CloudTypeOK, Refers

LEMMA StartIsSource == \A d \in Devices : Start[d] \subseteq CloudSources
  BY DEF CloudSources

LEMMA EmptyDatabase ==
  ASSUME NEW S \in SUBSET CloudSources, now \in Nat
  PROVE  Database(S) \in Content /\ Refers(Database(S)) /\ Past(Database(S))
  BY CloudAssumption DEF Database, Content, Refers, Past

LEMMA NoOpTyped ==
  ASSUME now \in Nat
  PROVE  /\ NoOp \in Operation /\ Past(NoOp.backup) /\ NoOp.time <= now
         /\ NoOp.at = "idle" /\ NoOp.backup = Database({})
  <1>1. Database({}) \in Content /\ Past(Database({}))
    BY EmptyDatabase
  <1>2. QED
    BY <1>1 DEF NoOp, Operation, Places

LEMMA CloudInitTyped == CloudInit => CloudTyped
  <1> SUFFICES ASSUME CloudInit PROVE CloudTyped
    OBVIOUS
  <1>1. now \in Nat /\ Counters
    BY CloudAssumption DEF CloudInit, Counters
  <1>2. ASSUME NEW d \in Devices PROVE OneDevice(device[d], op[d])
    <2>1. device[d] = Database(Start[d]) /\ op[d] = NoOp
      BY DEF CloudInit
    <2>2. QED
      BY <1>1, <2>1, StartIsSource, EmptyDatabase, NoOpTyped DEF OneDevice
  <1>3. IsFiniteSet(files) /\ files = {}
    BY FS_EmptySet DEF CloudInit
  <1>4. QED
    BY <1>1, <1>2, <1>3 DEF CloudInit, CloudTyped

\* A step of one device leaves it, its sync and the counters in order.
LEMMA DeviceStep ==
  ASSUME CloudTyped, NEW d \in Devices, NEW v, NEW o, OneDevice(v, o),
         device' = [device EXCEPT ![d] = v], op' = [op EXCEPT ![d] = o],
         UNCHANGED <<files, now>>, Counters'
  PROVE  CloudTyped'
  <1>1. device' = [e \in Devices |-> device'[e]] /\ op' = [e \in Devices |-> op'[e]]
    BY DEF CloudTyped
  <1>2. ASSUME NEW e \in Devices PROVE OneDevice(device'[e], op'[e])
    BY DEF CloudTyped
  <1>3. \A v1, o1 : OneDevice(v1, o1) => OneDevice(v1, o1)'
    BY DEF OneDevice, Past, Refers
  <1>4. \A f \in files : Past(f.backup) => Past(f.backup)'
    BY DEF Past
  <1>5. QED
    BY <1>1, <1>2, <1>3, <1>4 DEF CloudTyped

\* Only the sync of one device moves on.
LEMMA SyncStep ==
  ASSUME CloudTyped, NEW d \in Devices, NEW o, o \in Operation, Past(o.backup), o.time <= now,
         op' = [op EXCEPT ![d] = o], UNCHANGED <<device, files, now>>, Counters'
  PROVE  CloudTyped'
  <1>1. OneDevice(device[d], o)
    BY DEF CloudTyped, OneDevice
  <1>2. device' = [device EXCEPT ![d] = device[d]]
    BY DEF CloudTyped
  <1>3. QED
    BY <1>1, <1>2, DeviceStep

LEMMA SyncTyped ==
  ASSUME CloudTyped, NEW d \in Devices,
         \/ SyncNow(d) \/ ForceSync(d, "upload") \/ ForceSync(d, "download") \/ Export(d) \/ FindFile(d)
         \/ Download(d) \/ Fault(d)
  PROVE  CloudTyped'
  <1>0. /\ OneDevice(device[d], op[d]) /\ op[d] \in Operation /\ now \in Nat
        /\ Past(op[d].backup) /\ op[d].time <= now
    BY DEF CloudTyped, OneDevice, Counters
  <1>n. NoOp \in Operation /\ Past(NoOp.backup) /\ NoOp.time <= now
    BY <1>0, NoOpTyped
  <1>a. Acts => acts' \in 0..MaxActs
    BY CloudAssumption DEF Acts, CloudTyped, Counters
  <1>p. ASSUME NEW at \in Places, NEW forced \in BOOLEAN
        PROVE  LET o == [NoOp EXCEPT !.at = at, !.forced = forced]
               IN  o \in Operation /\ Past(o.backup) /\ o.time <= now
    BY <1>n DEF Operation
  <1>1. CASE SyncNow(d)
    <2>0. Counters' /\ UNCHANGED <<device, files, now>>
      BY <1>1, <1>a DEF SyncNow, CloudTyped, Counters
    <2>1. PICK t \in Times :
             LET way == Direction(device[d], t) IN
             IF way = "conflict"
             THEN \E answer \in {"upload", "download", "idle"} :
                     op' = [op EXCEPT ![d] = [NoOp EXCEPT !.at = answer, !.forced = TRUE]]
             ELSE way # "no_change" /\ op' = [op EXCEPT ![d] = [NoOp EXCEPT !.at = way]]
      BY <1>1 DEF SyncNow
    <2>2. Direction(device[d], t) \in {"no_change", "upload", "download", "conflict"}
      BY DEF Direction
    <2>3. CASE \E answer \in {"upload", "download", "idle"} :
                  op' = [op EXCEPT ![d] = [NoOp EXCEPT !.at = answer, !.forced = TRUE]]
      <3>1. PICK answer \in {"upload", "download", "idle"} :
                  op' = [op EXCEPT ![d] = [NoOp EXCEPT !.at = answer, !.forced = TRUE]]
        BY <2>3
      <3>2. answer \in Places
        BY DEF Places
      <3>3. QED
        BY <2>0, <3>1, <3>2, <1>p, SyncStep
    <2>4. CASE \E way \in {"upload", "download"} :
                  op' = [op EXCEPT ![d] = [NoOp EXCEPT !.at = way]]
      <3>1. PICK way \in {"upload", "download"} :
                  op' = [op EXCEPT ![d] = [NoOp EXCEPT !.at = way]]
        BY <2>4
      <3> DEFINE o == [NoOp EXCEPT !.at = way]
      <3>2. o \in Operation /\ Past(o.backup) /\ o.time <= now
        BY <1>n DEF Operation, Places
      <3> HIDE DEF o
      <3>3. op' = [op EXCEPT ![d] = o]
        BY <3>1 DEF o
      <3>4. QED
        BY <2>0, <3>2, <3>3, SyncStep
    <2>5. QED
      BY <2>1, <2>2, <2>3, <2>4
  <1>2. ASSUME NEW way \in {"upload", "download"}, ForceSync(d, way) PROVE CloudTyped'
    <2>1. Counters' /\ UNCHANGED <<device, files, now>>
      BY <1>2, <1>a DEF ForceSync, CloudTyped, Counters
    <2>2. way \in Places
      BY DEF Places
    <2>3. QED
      BY <1>2, <1>p, <2>1, <2>2, SyncStep DEF ForceSync
  <1>3. CASE Export(d)
    <2> DEFINE o == [op[d] EXCEPT !.at = "find", !.backup = device[d]]
    <2>1. o \in Operation /\ Past(o.backup) /\ o.time <= now
      BY <1>0 DEF Operation, Places, OneDevice
    <2>2. op' = [op EXCEPT ![d] = o] /\ UNCHANGED <<device, files, now>> /\ Counters'
      BY <1>3 DEF Export, CloudTyped, Counters
    <2>3. QED
      BY <2>1, <2>2, SyncStep
  <1>4. CASE FindFile(d)
    <2>1. PICK i \in IF files = {} THEN {0} ELSE {f.id : f \in files} :
             op' = [op EXCEPT ![d].at = "put", ![d].file = i]
      BY <1>4 DEF FindFile
    <2> DEFINE o == [op[d] EXCEPT !.at = "put", !.file = i]
    <2>2. i \in Nat
      BY DEF CloudTyped, File
    <2>3. o \in Operation /\ Past(o.backup) /\ o.time <= now
      BY <1>0, <2>2 DEF Operation, Places
    <2>4. op' = [op EXCEPT ![d] = o] /\ UNCHANGED <<device, files, now>> /\ Counters'
      BY <1>4, <2>1 DEF FindFile, CloudTyped, Counters
    <2>5. QED
      BY <2>3, <2>4, SyncStep
  <1>5. CASE Download(d)
    <2>1. Counters' /\ UNCHANGED <<device, files, now>>
      BY <1>5 DEF Download, CloudTyped, Counters
    <2>2. CASE op' = [op EXCEPT ![d] = NoOp]
      BY <1>n, <2>1, <2>2, SyncStep
    <2>3. ASSUME NEW f \in files, StartsImport(d, f) PROVE CloudTyped'
      <3> DEFINE ahead == op[d].forced /\ device[d].mod > f.time + Tolerance
                 o == [op[d] EXCEPT !.at = "rows", !.backup = f.backup, !.against = ahead]
      <3>1. f.backup \in Content /\ Past(f.backup)
        BY DEF CloudTyped, File
      <3>a. op[d].forced \in BOOLEAN
        BY <1>0 DEF Operation
      <3>b. ahead \in BOOLEAN
        BY <3>a
      <3>3. op' = [op EXCEPT ![d] = o]
        BY <2>3 DEF StartsImport
      <3> HIDE DEF ahead
      <3>2. o \in Operation /\ Past(o.backup) /\ o.time <= now
        BY <1>0, <3>1, <3>b DEF Operation, Places
      <3>4. QED
        BY <2>1, <3>2, <3>3, SyncStep
    <2>4. QED
      BY <1>5, <2>2, <2>3 DEF Download
  <1>6. CASE Fault(d)
    <2>1. Counters' /\ UNCHANGED <<device, files, now>>
      BY <1>6, CloudAssumption DEF Fault, CloudTyped, Counters
    <2>2. QED
      BY <1>6, <1>n, <2>1, SyncStep DEF Fault
  <1>7. QED
    BY <1>1, <1>2, <1>3, <1>4, <1>5, <1>6

LEMMA PutTyped ==
  ASSUME CloudTyped, NEW d \in Devices, PutFile(d)
  PROVE  CloudTyped'
  <1> DEFINE i == IF op[d].file = 0 THEN Cardinality(files) + 1 ELSE op[d].file
             new == [id |-> i, time |-> now, backup |-> op[d].backup]
             kept == {f \in files : f.id # i}
             o == [NoOp EXCEPT !.at = "last"]
  <1>0. op[d] \in Operation /\ Past(op[d].backup) /\ now \in Nat
    BY DEF CloudTyped, OneDevice, Counters
  <1>1. i \in Nat
    BY <1>0, FS_CardinalityType DEF CloudTyped, Operation
  <1>2. new \in File /\ new.backup = op[d].backup
    BY <1>0, <1>1 DEF File, Operation
  <1>3. IsFiniteSet(kept) /\ kept \subseteq files
    BY FS_Subset DEF CloudTyped
  <1>4. files' = kept \cup {new} /\ UNCHANGED <<device, now>> /\ Counters'
        /\ op' = [op EXCEPT ![d] = o]
    BY DEF PutFile, Ends, Whole, CloudTyped, Counters
  <1> HIDE DEF i, new, kept
  <1>5. IsFiniteSet(files') /\ files' \subseteq File
    BY <1>2, <1>3, <1>4, FS_AddElement DEF CloudTyped
  <1>6. \A f \in files' : Past(f.backup)'
    BY <1>0, <1>2, <1>3, <1>4 DEF CloudTyped, Past
  <1>7. o \in Operation /\ Past(o.backup) /\ o.time <= now
    BY <1>0, NoOpTyped DEF Operation, Places
  <1> HIDE DEF o
  <1>8. \A e \in Devices : OneDevice(device[e], op[e])'
    <2>1. OneDevice(device[d], op[d])'
      BY <1>4, <1>7 DEF CloudTyped, OneDevice, Past, Refers
    <2>2. \A e \in Devices \ {d} : OneDevice(device[e], op[e])'
      BY <1>4 DEF CloudTyped, OneDevice, Past, Refers
    <2>3. QED
      BY <2>1, <2>2
  <1>9. device' = [e \in Devices |-> device'[e]] /\ op' = [e \in Devices |-> op'[e]]
    BY <1>4 DEF CloudTyped
  <1>10. QED
    BY <1>4, <1>5, <1>6, <1>8, <1>9 DEF CloudTyped

\* A backup's setting is written, or there is none and the own one stays.
LEMMA RestoredTyped ==
  ASSUME NEW own, NEW theirs
  PROVE  Restored(own, theirs) \in {own, theirs}
  BY DEF Restored

LEMMA ImportTyped ==
  ASSUME CloudTyped, NEW d \in Devices, ImportRows(d) \/ ImportKeys(d) \/ ImportHistory(d)
  PROVE  CloudTyped'
  <1> DEFINE b == op[d].backup
             v == device[d]
  <1>0. /\ OneDevice(v, op[d]) /\ v \in Content /\ op[d] \in Operation /\ b \in Content
        /\ Refers(v) /\ Past(v) /\ Past(b) /\ op[d].time <= now /\ now \in Nat
    BY DEF CloudTyped, OneDevice, Counters, Operation
  <1>p. ASSUME NEW at \in Places
        PROVE  LET o == [op[d] EXCEPT !.at = at]
               IN  o \in Operation /\ Past(o.backup) /\ o.time <= now
    BY <1>0 DEF Operation
  <1>1. CASE ImportRows(d)
    <2> DEFINE w == [v EXCEPT !.favs = @ \cup (b.favs \cap v.listed),
                              !.access = IF b.access # {} /\ b.access \subseteq v.sources
                                         THEN b.access ELSE @]
               o == [op[d] EXCEPT !.at = "keys"]
    <2>1. device' = [device EXCEPT ![d] = w] /\ op' = [op EXCEPT ![d] = o]
      BY <1>1 DEF ImportRows, Put
    <2>2. w \in Content /\ Refers(w) /\ Past(w)
      BY <1>0 DEF Content, Refers, Past
    <2>3. o \in Operation /\ Past(o.backup) /\ o.time <= now
      BY <1>p DEF Places
    <2>4. UNCHANGED <<files, now>> /\ Counters'
      BY <1>1 DEF ImportRows, CloudTyped, Counters
    <2> HIDE DEF w, o
    <2>5. QED
      BY <2>1, <2>2, <2>3, <2>4, DeviceStep DEF OneDevice
  <1>2. CASE ImportKeys(d)
    <2>0. UNCHANGED <<files, now>> /\ Counters'
      BY <1>2 DEF ImportKeys, CloudTyped, Counters
    <2>1. /\ Restored(v.mod, b.mod) \in Nat /\ Restored(v.mod, b.mod) <= now
          /\ Restored(v.last, b.last) \in Nat /\ Restored(v.last, b.last) <= now
      BY <1>0, RestoredTyped DEF Content, Past
    <2> DEFINE wm == [v EXCEPT !.mod = Restored(@, b.mod)]
               wl == [v EXCEPT !.last = Restored(@, b.last)]
               w == [v EXCEPT !.mod = Restored(@, b.mod), !.last = Restored(@, b.last)]
    <2>2. /\ wm \in Content /\ Refers(wm) /\ Past(wm)
          /\ wl \in Content /\ Refers(wl) /\ Past(wl)
          /\ w \in Content /\ Refers(w) /\ Past(w)
      BY <1>0, <2>1 DEF Content, Refers, Past
    <2>3. PICK at \in {"keys2", "history"}, x \in {wm, wl, w} :
              op' = [op EXCEPT ![d] = [op[d] EXCEPT !.at = at]] /\ device' = [device EXCEPT ![d] = x]
      BY <1>2 DEF ImportKeys, Put, CloudTyped
    <2> HIDE DEF wm, wl, w
    <2>4. at \in Places
      BY DEF Places
    <2> DEFINE o == [op[d] EXCEPT !.at = at]
    <2>5. o \in Operation /\ Past(o.backup) /\ o.time <= now
      BY <1>p, <2>4
    <2> HIDE DEF o
    <2>6. QED
      BY <2>0, <2>2, <2>3, <2>5, DeviceStep DEF OneDevice, o
  <1>3. CASE ImportHistory(d)
    <2> DEFINE w == [v EXCEPT !.pos = Restored(@, b.pos), !.sources = @ \cup b.sources]
               o == [NoOp EXCEPT !.at = "last"]
    <2>1. device' = [device EXCEPT ![d] = w] /\ op' = [op EXCEPT ![d] = o]
      BY <1>3 DEF ImportHistory, Ends
    <2>2. Restored(v.pos, b.pos) \in 0..MaxActs
      BY <1>0, RestoredTyped DEF Content
    <2>3. w \in Content /\ Refers(w) /\ Past(w)
      BY <1>0, <2>2 DEF Content, Refers, Past
    <2>4. o \in Operation /\ Past(o.backup) /\ o.time <= now
      BY <1>0, NoOpTyped DEF Operation, Places
    <2>5. UNCHANGED <<files, now>> /\ Counters'
      BY <1>3 DEF ImportHistory, Whole, CloudTyped, Counters
    <2> HIDE DEF w, o
    <2>6. QED
      BY <2>1, <2>3, <2>4, <2>5, DeviceStep DEF OneDevice
  <1>4. QED
    BY <1>1, <1>2, <1>3

LEMMA OwnTyped ==
  ASSUME CloudTyped, NEW d \in Devices,
         \/ SetLast(d) \/ SetModified(d) \/ Watch(d)
         \/ \E s \in CloudSources : Choose(d, s) \/ ListChannels(d, s)
  PROVE  CloudTyped'
  <1> DEFINE v == device[d]
  <1>0. /\ v \in Content /\ op[d] \in Operation /\ now \in Nat
        /\ Refers(v) /\ Past(v) /\ Past(op[d].backup) /\ op[d].time <= now
    BY DEF CloudTyped, OneDevice, Counters
  <1>a. Edits => acts' \in 0..MaxActs
    BY CloudAssumption DEF Edits, CloudTyped, Counters
  <1>u. op = [op EXCEPT ![d] = op[d]]
    BY DEF CloudTyped
  <1>1. CASE SetLast(d)
    <2> DEFINE w == [v EXCEPT !.last = now]
               o == [op[d] EXCEPT !.at = "mod", !.time = now]
    <2>1. device' = [device EXCEPT ![d] = w] /\ op' = [op EXCEPT ![d] = o]
      BY <1>1 DEF SetLast
    <2>2. w \in Content /\ Refers(w) /\ Past(w)
      BY <1>0 DEF Content, Refers, Past
    <2>a. o \in Operation /\ Past(o.backup) /\ o.time <= now
      <3>1. o \in Operation
        BY <1>0 DEF Operation, Places
      <3>2. o.backup = op[d].backup /\ o.time = now
        BY <1>0 DEF Operation
      <3>3. QED
        BY <1>0, <3>1, <3>2
    <2>3. UNCHANGED <<files, now>> /\ Counters'
      BY <1>1 DEF SetLast, CloudTyped, Counters
    <2> HIDE DEF w, o
    <2>4. QED
      BY <2>1, <2>2, <2>a, <2>3, DeviceStep DEF OneDevice
  <1>2. CASE SetModified(d)
    <2> DEFINE w == [v EXCEPT !.mod = op[d].time]
    <2>1. device' = [device EXCEPT ![d] = w] /\ op' = [op EXCEPT ![d] = NoOp]
      BY <1>2 DEF SetModified
    <2>2. w \in Content /\ Refers(w) /\ Past(w)
      BY <1>0 DEF Content, Operation, Refers, Past
    <2>3. OneDevice(w, NoOp)
      BY <1>0, <2>2, NoOpTyped DEF OneDevice
    <2>4. UNCHANGED <<files, now>> /\ Counters'
      BY <1>2 DEF SetModified, CloudTyped, Counters
    <2>5. QED
      BY <2>1, <2>3, <2>4, DeviceStep
  <1>3. CASE Watch(d)
    <2> DEFINE w == [v EXCEPT !.pos = acts']
    <2>1. device' = [device EXCEPT ![d] = w] /\ op' = [op EXCEPT ![d] = op[d]]
      BY <1>3, <1>u DEF Watch
    <2>2. OneDevice(w, op[d])
      BY <1>0, <1>3, <1>a DEF Watch, OneDevice, Content, Refers, Past
    <2>3. UNCHANGED <<files, now>> /\ Counters'
      BY <1>3, <1>a DEF Watch, CloudTyped, Counters
    <2>4. QED
      BY <2>1, <2>2, <2>3, DeviceStep
  <1>4. ASSUME NEW s \in CloudSources, Choose(d, s) \/ ListChannels(d, s) PROVE CloudTyped'
    <2> DEFINE wf == [v EXCEPT !.favs = @ \cup {s}]
               wa == [v EXCEPT !.access = @ \cup {s}]
               wl == [v EXCEPT !.listed = @ \cup {s}]
    <2>1. \/ s \in v.listed /\ device' = [device EXCEPT ![d] = wf]
          \/ s \in v.sources /\ device' = [device EXCEPT ![d] = wa]
          \/ s \in v.sources /\ device' = [device EXCEPT ![d] = wl]
      BY <1>4 DEF Choose, ListChannels
    <2>2. /\ s \in v.listed => OneDevice(wf, op[d])
          /\ s \in v.sources => OneDevice(wa, op[d]) /\ OneDevice(wl, op[d])
      BY <1>0 DEF OneDevice, Content, Refers, Past
    <2> HIDE DEF wf, wa, wl
    <2>3. UNCHANGED <<files, now>> /\ Counters' /\ op' = [op EXCEPT ![d] = op[d]]
      BY <1>4, <1>a, <1>u DEF Choose, ListChannels, CloudTyped, Counters
    <2>4. QED
      BY <2>1, <2>2, <2>3, DeviceStep
  <1>5. QED
    BY <1>1, <1>2, <1>3, <1>4

LEMMA CloudTypedStep == CloudTyped /\ [CloudNext]_cloudVars => CloudTyped'
  <1> SUFFICES ASSUME CloudTyped, [CloudNext]_cloudVars PROVE CloudTyped'
    OBVIOUS
  <1>1. CASE ClockTicks
    <2>1. Counters' /\ UNCHANGED <<device, files, op>>
      BY <1>1, CloudAssumption DEF ClockTicks, CloudTyped, Counters
    <2>2. \A x \in Nat : x <= now => x <= now'
      BY <1>1 DEF ClockTicks, CloudTyped, Counters
    <2>3. \A b \in Content : Past(b) => Past(b)'
      BY <2>2 DEF Past, Content
    <2>4. \A e \in Devices : OneDevice(device[e], op[e])'
      BY <2>1, <2>2, <2>3 DEF CloudTyped, OneDevice, Refers, Operation
    <2>5. \A f \in files : Past(f.backup)'
      BY <2>3 DEF CloudTyped, File
    <2>6. QED
      BY <2>1, <2>4, <2>5 DEF CloudTyped
  <1>2. CASE UNCHANGED cloudVars
    <2>1. Counters' /\ UNCHANGED <<device, files, op, now>>
      BY <1>2 DEF cloudVars, CloudTyped, Counters
    <2>2. QED
      BY <2>1 DEF CloudTyped, OneDevice, Refers, Past
  <1>3. QED
    BY <1>1, <1>2, SyncTyped, PutTyped, ImportTyped, OwnTyped DEF CloudNext

\* Types; whatever is imported, cut short or chosen, what a device stores refers
\* to sources and channels that it has.
THEOREM CloudTypeCorrect == CloudSpec => []CloudTypeOK
  <1>1. QED
    BY CloudInitTyped, CloudTypedStep, TypedImplies, PTL DEF CloudSpec

-----------------------------------------------------------------------------
(* The time of local changes is that of the last sync: between syncs, in    *)
(* every backup, and, whichever of the two settings an import writes first, *)
(* again at its end.                                                        *)

SameTimes(v) == v.mod = v.last

TimesAgree(v, o) ==
    /\ SameTimes(o.backup)
    /\ o.at = "keys2" => Restored(v.mod, o.backup.mod) = Restored(v.last, o.backup.last)
    /\ o.at = "mod" => v.last = o.time
    /\ o.at \notin {"keys2", "mod"} => SameTimes(v)

NeverApart ==
    faults = 0 =>
        /\ \A d \in Devices : TimesAgree(device[d], op[d])
        /\ \A f \in files : SameTimes(f.backup)
        /\ conflicted = {}

LEMMA NeverApartInit == CloudInit => NeverApart
  <1> SUFFICES ASSUME CloudInit PROVE NeverApart
    OBVIOUS
  <1>1. \A S : SameTimes(Database(S))
    BY DEF SameTimes, Database
  <1>2. SameTimes(NoOp.backup) /\ NoOp.at = "idle"
    BY <1>1 DEF NoOp
  <1>3. QED
    BY <1>1, <1>2 DEF CloudInit, NeverApart, TimesAgree

\* One device's step; nothing is uploaded or told of a conflict meanwhile.
LEMMA AgreeStep ==
  ASSUME CloudTyped, NeverApart, UNCHANGED faults, NEW d \in Devices, NEW v, NEW o,
         device' = [device EXCEPT ![d] = v], op' = [op EXCEPT ![d] = o],
         faults = 0 => TimesAgree(v, o), UNCHANGED <<files, conflicted>>
  PROVE  NeverApart'
  BY DEF CloudTyped, NeverApart

\* Between a device's own steps its times agree, so no sync finds a conflict.
LEMMA NoConflict ==
  ASSUME NEW v \in Content, SameTimes(v), NEW t
  PROVE  Direction(v, t) # "conflict"
  BY DEF Direction, SameTimes, Content

LEMMA SyncAgrees ==
  ASSUME CloudTyped, NeverApart, NEW d \in Devices,
         \/ SyncNow(d) \/ ForceSync(d, "upload") \/ ForceSync(d, "download") \/ Export(d)
         \/ FindFile(d) \/ Download(d) \/ Fault(d)
  PROVE  NeverApart'
  <1> DEFINE v == device[d]
  <1>0. /\ v \in Content /\ op[d] \in Operation /\ device = [device EXCEPT ![d] = v]
        /\ faults \in Nat
    BY DEF CloudTyped, OneDevice, Counters
  <1>n. /\ SameTimes(NoOp.backup) /\ NoOp.at = "idle"
        /\ \A at, forced : LET o == [NoOp EXCEPT !.at = at, !.forced = forced]
                           IN  o.at = at /\ o.backup = NoOp.backup
        /\ \A at : LET o == [NoOp EXCEPT !.at = at] IN o.at = at /\ o.backup = NoOp.backup
    BY DEF SameTimes, Database, NoOp
  <1>1. CASE SyncNow(d)
    <2>1. UNCHANGED <<device, files, faults>>
      BY <1>1 DEF SyncNow
    <2>2. CASE faults = 0
      <3>1. TimesAgree(v, op[d]) /\ op[d].at = "idle"
        BY <1>1, <2>2 DEF NeverApart, SyncNow
      <3>2. SameTimes(v)
        BY <3>1 DEF TimesAgree
      <3>3. \A t : Direction(v, t) # "conflict"
        BY <1>0, <3>2, NoConflict
      <3>4. PICK way \in {"upload", "download"} :
               op' = [op EXCEPT ![d] = [NoOp EXCEPT !.at = way]] /\ UNCHANGED conflicted
        BY <1>1, <3>3 DEF SyncNow, Direction
      <3> DEFINE o == [NoOp EXCEPT !.at = way]
      <3>5. TimesAgree(v, o)
        BY <1>n, <3>2 DEF TimesAgree
      <3> HIDE DEF o
      <3>6. QED
        BY <1>0, <2>1, <3>4, <3>5, AgreeStep DEF o
    <2>3. QED
      BY <2>1, <2>2 DEF NeverApart
  <1>2. ASSUME NEW way \in {"upload", "download"}, ForceSync(d, way) PROVE NeverApart'
    <2> DEFINE o == [NoOp EXCEPT !.at = way, !.forced = TRUE]
    <2>1. op[d].at = "idle" /\ op' = [op EXCEPT ![d] = o]
          /\ UNCHANGED <<device, files, faults, conflicted>>
      BY <1>2 DEF ForceSync
    <2>2. faults = 0 => TimesAgree(v, op[d])
      BY DEF NeverApart
    <2>3. o.at = way /\ o.backup = NoOp.backup
      BY <1>n
    <2> HIDE DEF o
    <2>4. faults = 0 => TimesAgree(v, o)
      BY <1>n, <2>1, <2>2, <2>3 DEF TimesAgree
    <2>5. QED
      BY <1>0, <2>1, <2>4, AgreeStep
  <1>3. CASE Export(d)
    <2> DEFINE o == [op[d] EXCEPT !.at = "find", !.backup = v]
    <2>1. /\ op[d].at = "upload" /\ op' = [op EXCEPT ![d] = o] /\ o.at = "find" /\ o.backup = v
          /\ UNCHANGED <<device, files, faults, conflicted>>
      BY <1>0, <1>3 DEF Export, Operation
    <2> HIDE DEF o
    <2>2. faults = 0 => TimesAgree(v, o)
      BY <2>1 DEF NeverApart, TimesAgree
    <2>3. QED
      BY <1>0, <2>1, <2>2, AgreeStep
  <1>4. CASE FindFile(d)
    <2>1. PICK i : op' = [op EXCEPT ![d].at = "put", ![d].file = i]
      BY <1>4 DEF FindFile
    <2> DEFINE o == [op[d] EXCEPT !.at = "put", !.file = i]
    <2>2. /\ op[d].at = "find" /\ op' = [op EXCEPT ![d] = o] /\ o.at = "put"
          /\ o.backup = op[d].backup /\ UNCHANGED <<device, files, faults, conflicted>>
      BY <1>0, <1>4, <2>1 DEF FindFile, Operation
    <2> HIDE DEF o
    <2>3. faults = 0 => TimesAgree(v, o)
      BY <2>2 DEF NeverApart, TimesAgree
    <2>4. QED
      BY <1>0, <2>2, <2>3, AgreeStep
  <1>5. CASE Download(d)
    <2>1. op[d].at = "download" /\ UNCHANGED <<device, files, faults, conflicted>>
      BY <1>5 DEF Download
    <2>2. faults = 0 => SameTimes(v)
      BY <2>1 DEF NeverApart, TimesAgree
    <2>3. CASE op' = [op EXCEPT ![d] = NoOp]
      <3>1. faults = 0 => TimesAgree(v, NoOp)
        BY <1>n, <2>2 DEF TimesAgree
      <3>2. QED
        BY <1>0, <2>1, <2>3, <3>1, AgreeStep
    <2>4. ASSUME NEW f \in files, StartsImport(d, f) PROVE NeverApart'
      <3> DEFINE ahead == op[d].forced /\ v.mod > f.time + Tolerance
                 o == [op[d] EXCEPT !.at = "rows", !.backup = f.backup, !.against = ahead]
      <3>1. op' = [op EXCEPT ![d] = o] /\ o.at = "rows" /\ o.backup = f.backup
        BY <1>0, <2>4 DEF Operation, StartsImport
      <3> HIDE DEF o
      <3>2. faults = 0 => TimesAgree(v, o)
        BY <2>2, <3>1 DEF NeverApart, TimesAgree
      <3>3. QED
        BY <1>0, <2>1, <3>1, <3>2, AgreeStep
    <2>5. QED
      BY <1>5, <2>3, <2>4 DEF Download
  <1>6. CASE Fault(d)
    BY <1>0, <1>6 DEF Fault, NeverApart
  <1>7. QED
    BY <1>1, <1>2, <1>3, <1>4, <1>5, <1>6

LEMMA PutAgrees ==
  ASSUME CloudTyped, NeverApart, NEW d \in Devices, PutFile(d)
  PROVE  NeverApart'
  <1> DEFINE o == [NoOp EXCEPT !.at = "last"]
  <1>1. /\ op[d].at = "put" /\ op' = [op EXCEPT ![d] = o]
        /\ UNCHANGED <<device, faults, conflicted>>
    BY DEF PutFile, Ends
  <1>2. o.at = "last" /\ SameTimes(o.backup)
    BY DEF NoOp, Database, SameTimes
  <1> HIDE DEF o
  <1>3. ASSUME faults = 0, NEW f \in files' PROVE SameTimes(f.backup)
    <2>1. f \in files \/ f.backup = op[d].backup
      BY <1>3 DEF PutFile
    <2>2. QED
      BY <1>3, <2>1 DEF NeverApart, TimesAgree
  <1>4. faults = 0 => TimesAgree(device[d], o)
    BY <1>1, <1>2 DEF NeverApart, TimesAgree
  <1>5. faults = 0 => \A e \in Devices : TimesAgree(device'[e], op'[e])
    BY <1>1, <1>4 DEF CloudTyped, NeverApart
  <1>6. QED
    BY <1>1, <1>3, <1>5 DEF NeverApart

LEMMA ImportAgrees ==
  ASSUME CloudTyped, NeverApart, NEW d \in Devices,
         ImportRows(d) \/ ImportKeys(d) \/ ImportHistory(d)
  PROVE  NeverApart'
  <1> DEFINE v == device[d]
             b == op[d].backup
  <1>0. v \in Content /\ op[d] \in Operation
    BY DEF CloudTyped, OneDevice
  <1>1. /\ UNCHANGED <<files, faults, conflicted>>
        /\ faults = 0 => TimesAgree(v, op[d])
    BY DEF ImportRows, ImportKeys, ImportHistory, NeverApart
  <1>2. CASE ImportRows(d)
    <2> DEFINE w == [v EXCEPT !.favs = @ \cup (b.favs \cap v.listed),
                              !.access = IF b.access # {} /\ b.access \subseteq v.sources
                                         THEN b.access ELSE @]
               o == [op[d] EXCEPT !.at = "keys"]
    <2>1. /\ op[d].at = "rows" /\ device' = [device EXCEPT ![d] = w] /\ op' = [op EXCEPT ![d] = o]
          /\ w.mod = v.mod /\ w.last = v.last /\ o.at = "keys" /\ o.backup = b
      BY <1>0, <1>2 DEF ImportRows, Put, Content, Operation
    <2> HIDE DEF w, o
    <2>2. faults = 0 => TimesAgree(w, o)
      BY <1>1, <2>1 DEF TimesAgree, SameTimes
    <2>3. QED
      BY <1>1, <2>1, <2>2, AgreeStep
  <1>3. CASE ImportKeys(d)
    <2> DEFINE wm == [v EXCEPT !.mod = Restored(@, b.mod)]
               wl == [v EXCEPT !.last = Restored(@, b.last)]
               w == [v EXCEPT !.mod = Restored(@, b.mod), !.last = Restored(@, b.last)]
               next(at) == [op[d] EXCEPT !.at = at]
    <2>1. /\ wm.mod = Restored(v.mod, b.mod) /\ wm.last = v.last
          /\ wl.mod = v.mod /\ wl.last = Restored(v.last, b.last)
          /\ w.mod = Restored(v.mod, b.mod) /\ w.last = Restored(v.last, b.last)
      BY <1>0 DEF Content
    <2>2. \A at \in Places : next(at).at = at /\ next(at).backup = b
      BY <1>0 DEF Operation
    <2>3. \/ /\ op[d].at = "keys" /\ op' = [op EXCEPT ![d] = next("keys2")]
             /\ device' = [device EXCEPT ![d] = wm] \/ device' = [device EXCEPT ![d] = wl]
          \/ /\ op[d].at = "keys2" /\ op' = [op EXCEPT ![d] = next("history")]
             /\ device' = [device EXCEPT ![d] = w]
      <3>1. CASE op[d].at = "keys"
        BY <1>3, <3>1 DEF ImportKeys, Put
      <3>2. CASE op[d].at = "keys2"
        <4>1. op' = [op EXCEPT ![d] = next("history")]
          BY <1>3, <3>2 DEF ImportKeys, Put
        <4>2. device' = [device EXCEPT ![d] = w]
          BY <1>0, <1>3, <3>2 DEF ImportKeys, CloudTyped, Content
        <4>3. QED
          BY <3>2, <4>1, <4>2
      <3>3. QED
        BY <1>3, <3>1, <3>2 DEF ImportKeys
    <2> HIDE DEF wm, wl, w
    <2>4. CASE op[d].at = "keys"
      <3>1. faults = 0 => TimesAgree(wm, next("keys2")) /\ TimesAgree(wl, next("keys2"))
        BY <1>1, <2>1, <2>2, <2>4 DEF TimesAgree, SameTimes, Restored, Places
      <3> HIDE DEF next
      <3>2. QED
        BY <1>1, <2>3, <2>4, <3>1, AgreeStep
    <2>5. CASE op[d].at = "keys2"
      <3>1. faults = 0 => TimesAgree(w, next("history"))
        BY <1>1, <2>1, <2>2, <2>5 DEF TimesAgree, SameTimes, Places
      <3> HIDE DEF next
      <3>2. QED
        BY <1>1, <2>3, <2>5, <3>1, AgreeStep
    <2>6. QED
      BY <2>3, <2>4, <2>5
  <1>4. CASE ImportHistory(d)
    <2> DEFINE w == [v EXCEPT !.pos = Restored(@, b.pos), !.sources = @ \cup b.sources]
               o == [NoOp EXCEPT !.at = "last"]
    <2>1. /\ op[d].at = "history" /\ device' = [device EXCEPT ![d] = w] /\ op' = [op EXCEPT ![d] = o]
          /\ w.mod = v.mod /\ w.last = v.last
      BY <1>0, <1>4 DEF ImportHistory, Ends, Content
    <2>2. o.at = "last" /\ SameTimes(o.backup)
      BY DEF NoOp, Database, SameTimes
    <2> HIDE DEF w, o
    <2>3. faults = 0 => TimesAgree(w, o)
      BY <1>1, <2>1, <2>2 DEF TimesAgree, SameTimes
    <2>4. QED
      BY <1>1, <2>1, <2>3, AgreeStep
  <1>5. QED
    BY <1>2, <1>3, <1>4

LEMMA OwnAgrees ==
  ASSUME CloudTyped, NeverApart, NEW d \in Devices,
         \/ SetLast(d) \/ SetModified(d) \/ Watch(d)
         \/ \E s \in CloudSources : Choose(d, s) \/ ListChannels(d, s)
  PROVE  NeverApart'
  <1> DEFINE v == device[d]
  <1>0. v \in Content /\ op[d] \in Operation /\ op = [op EXCEPT ![d] = op[d]]
    BY DEF CloudTyped, OneDevice
  <1>1. /\ UNCHANGED <<files, faults, conflicted>>
        /\ faults = 0 => TimesAgree(v, op[d])
    BY DEF SetLast, SetModified, Watch, Choose, ListChannels, NeverApart
  <1>2. CASE SetLast(d)
    <2> DEFINE w == [v EXCEPT !.last = now]
               o == [op[d] EXCEPT !.at = "mod", !.time = now]
    <2>1. /\ op[d].at = "last" /\ device' = [device EXCEPT ![d] = w] /\ op' = [op EXCEPT ![d] = o]
          /\ w.last = now /\ o.at = "mod" /\ o.time = now /\ o.backup = op[d].backup
      <3>1. w.last = now
        BY <1>0 DEF Content
      <3>2. o.at = "mod" /\ o.time = now /\ o.backup = op[d].backup
        BY <1>0 DEF Operation
      <3>3. QED
        BY <1>2, <3>1, <3>2 DEF SetLast
    <2> HIDE DEF w, o
    <2>2. faults = 0 => TimesAgree(w, o)
      BY <1>1, <2>1 DEF TimesAgree
    <2>3. QED
      BY <1>1, <2>1, <2>2, AgreeStep
  <1>3. CASE SetModified(d)
    <2> DEFINE w == [v EXCEPT !.mod = op[d].time]
    <2>1. /\ op[d].at = "mod" /\ device' = [device EXCEPT ![d] = w] /\ op' = [op EXCEPT ![d] = NoOp]
          /\ w.mod = op[d].time /\ w.last = v.last
      BY <1>0, <1>3 DEF SetModified, Content
    <2>2. NoOp.at = "idle" /\ SameTimes(NoOp.backup)
      BY DEF NoOp, Database, SameTimes
    <2> HIDE DEF w
    <2>3. faults = 0 => TimesAgree(w, NoOp)
      BY <1>1, <2>1, <2>2 DEF TimesAgree, SameTimes
    <2>4. QED
      BY <1>1, <2>1, <2>3, AgreeStep
  <1>4. ASSUME \/ Watch(d)
               \/ \E s \in CloudSources : Choose(d, s) \/ ListChannels(d, s)
        PROVE  NeverApart'
    <2>1. PICK w : /\ device' = [device EXCEPT ![d] = w]
                   /\ w.mod = v.mod /\ w.last = v.last
      <3> DEFINE wp == [v EXCEPT !.pos = acts']
                 wf(s) == [v EXCEPT !.favs = @ \cup {s}]
                 wa(s) == [v EXCEPT !.access = @ \cup {s}]
                 wl(s) == [v EXCEPT !.listed = @ \cup {s}]
      <3>1. /\ wp.mod = v.mod /\ wp.last = v.last
            /\ \A s : /\ wf(s).mod = v.mod /\ wf(s).last = v.last
                      /\ wa(s).mod = v.mod /\ wa(s).last = v.last
                      /\ wl(s).mod = v.mod /\ wl(s).last = v.last
        BY <1>0 DEF Content
      <3>2. \/ device' = [device EXCEPT ![d] = wp]
            \/ \E s : \/ device' = [device EXCEPT ![d] = wf(s)]
                      \/ device' = [device EXCEPT ![d] = wa(s)]
                      \/ device' = [device EXCEPT ![d] = wl(s)]
        BY <1>4 DEF Watch, Choose, ListChannels
      <3> HIDE DEF wp, wf, wa, wl
      <3>3. QED
        BY <3>1, <3>2
    <2>2. faults = 0 => TimesAgree(w, op[d])
      BY <1>1, <2>1 DEF TimesAgree, SameTimes
    <2>3. op' = [op EXCEPT ![d] = op[d]]
      BY <1>0, <1>4 DEF Watch, Choose, ListChannels
    <2>4. QED
      BY <1>1, <2>1, <2>2, <2>3, AgreeStep
  <1>5. QED
    BY <1>2, <1>3, <1>4

LEMMA NeverApartStep == CloudTyped /\ NeverApart /\ [CloudNext]_cloudVars => NeverApart'
  <1> SUFFICES ASSUME CloudTyped, NeverApart, [CloudNext]_cloudVars PROVE NeverApart'
    OBVIOUS
  <1>1. CASE ClockTicks
    BY <1>1 DEF ClockTicks, NeverApart
  <1>2. CASE UNCHANGED cloudVars
    BY <1>2 DEF cloudVars, NeverApart
  <1>3. QED
    BY <1>1, <1>2, SyncAgrees, PutAgrees, ImportAgrees, OwnAgrees DEF CloudNext

\* Without an interruption nobody is ever asked to settle a conflict, whatever
\* any number of devices change and sync in turn.
THEOREM OnlyFaultsConflict == CloudSpec => []ConflictOnlyAfterFault
  <1>1. CloudTyped /\ NeverApart => ConflictOnlyAfterFault
    BY DEF CloudTyped, Counters, NeverApart, ConflictOnlyAfterFault
  <1>2. QED
    BY <1>1, CloudInitTyped, CloudTypedStep, NeverApartInit, NeverApartStep, PTL DEF CloudSpec

-----------------------------------------------------------------------------
(* Half of an import is not uploaded.  While Drive has one file, the time of *)
(* local changes a device was left with is not, or not noticeably, after     *)
(* the file's: it is the one that let it download, or one that some device   *)
(* had when it made the file.  Files only get newer, so the next sync        *)
(* downloads again or does nothing.                                          *)

Importing == {"rows", "keys", "keys2", "history"}
Uploading == {"upload", "find", "put"}

OneFile == \A f, g \in files : f = g

\* Device with database v and sync o, beside file f; h: it holds half an import.
HalfSafe(v, o, h, f) ==
    /\ o.at \in Importing => o.backup.mod <= f.time
    /\ \/ h
       \/ o.at \in Importing /\ ~o.against
       \/ o.at = "download" /\ ~o.forced
       => v.mod <= f.time + Tolerance
    /\ h => o.at \notin {"last", "mod"} /\ (o.at \in Uploading => o.forced)

FilesInOrder ==
    /\ \A f, g \in files : f.id = g.id => f = g
    /\ \A f \in files : f.backup.mod <= f.time /\ f.time > 0

HalfInv ==
    /\ FilesInOrder
    /\ \A d \in Devices :
        /\ half[d] = "yes" \/ op[d].at \in Importing => files # {}
        /\ OneFile => \A f \in files : HalfSafe(device[d], op[d], half[d] = "yes", f)

LEMMA HalfInit == CloudInit => HalfInv
  BY DEF CloudInit, NoOp, HalfInv, FilesInOrder, Importing

\* One device's step that leaves the files alone.
LEMMA HalfStep ==
  ASSUME CloudTyped, HalfInv, NEW d \in Devices, NEW v, NEW o,
         device' = [device EXCEPT ![d] = v], op' = [op EXCEPT ![d] = o],
         UNCHANGED files, \A e \in Devices \ {d} : half'[e] = half[e],
         half'[d] = "yes" \/ o.at \in Importing => files # {},
         OneFile => \A f \in files : HalfSafe(v, o, half'[d] = "yes", f)
  PROVE  HalfInv'
  <1>1. device'[d] = v /\ op'[d] = o
    BY DEF CloudTyped
  <1>2. FilesInOrder' /\ (OneFile' <=> OneFile)
    BY DEF HalfInv, FilesInOrder, OneFile
  <1>3. ASSUME NEW e \in Devices
        PROVE  /\ half'[e] = "yes" \/ op'[e].at \in Importing => files' # {}
               /\ OneFile' => \A f \in files' : HalfSafe(device'[e], op'[e], half'[e] = "yes", f)
    <2>1. CASE e = d
      BY <1>1, <1>2, <2>1
    <2>2. CASE e # d
      <3>1. device'[e] = device[e] /\ op'[e] = op[e] /\ half'[e] = half[e]
        BY <2>2 DEF CloudTyped
      <3>2. QED
        BY <1>2, <3>1 DEF HalfInv
    <2>3. QED
      BY <2>1, <2>2
  <1>4. QED
    BY <1>2, <1>3 DEF HalfInv, HalfSafe

\* A sync downloads if the file is newer than the device's changes, and uploads
\* or asks only if it is noticeably older, or if there is none.
LEMMA DirectionByTime ==
  ASSUME NEW v \in Content, NEW t \in Nat
  PROVE  /\ Direction(v, t) = "download" => v.mod <= t
         /\ Direction(v, t) \in {"upload", "conflict"} /\ t > 0 => v.mod > t + Tolerance
         /\ Direction(v, t) \in {"no_change", "upload", "download", "conflict"}
  BY CloudAssumption DEF Direction, Content

LEMMA SyncHalf ==
  ASSUME CloudTyped, HalfInv, NEW d \in Devices,
         \/ SyncNow(d) \/ ForceSync(d, "upload") \/ ForceSync(d, "download") \/ Export(d)
         \/ FindFile(d) \/ Download(d) \/ Fault(d)
  PROVE  HalfInv'
  <1> DEFINE v == device[d]
             h == half[d] = "yes"
  <1>0. /\ v \in Content /\ op[d] \in Operation /\ device = [device EXCEPT ![d] = v]
        /\ files \subseteq File
    BY DEF CloudTyped, OneDevice
  <1>h. /\ h \/ op[d].at \in Importing => files # {}
        /\ OneFile => \A f \in files : HalfSafe(v, op[d], h, f)
    BY DEF HalfInv
  <1>n. /\ NoOp.at = "idle" /\ "idle" \notin Importing \cup Uploading \cup {"download", "last", "mod"}
        /\ \A at, forced : LET o == [NoOp EXCEPT !.at = at, !.forced = forced]
                           IN  o.at = at /\ o.forced = forced
        /\ \A at : LET o == [NoOp EXCEPT !.at = at] IN o.at = at /\ o.forced = FALSE
    BY DEF NoOp, Importing, Uploading
  <1>1. CASE SyncNow(d)
    <2>0. UNCHANGED <<device, files, half>>
      BY <1>1 DEF SyncNow
    <2>1. PICK t \in Times :
             LET way == Direction(v, t) IN
             /\ way # "no_change"
             /\ IF way = "conflict"
                THEN \E answer \in {"upload", "download", "idle"} :
                        op' = [op EXCEPT ![d] = [NoOp EXCEPT !.at = answer, !.forced = TRUE]]
                ELSE op' = [op EXCEPT ![d] = [NoOp EXCEPT !.at = way]]
      BY <1>1 DEF SyncNow
    <2>2. t \in Nat /\ (OneFile => \A f \in files : t = f.time /\ t > 0)
      BY <1>0 DEF Times, OneFile, File, HalfInv, FilesInOrder
    <2>3. CASE Direction(v, t) = "conflict"
      <3>1. PICK answer \in {"upload", "download", "idle"} :
               op' = [op EXCEPT ![d] = [NoOp EXCEPT !.at = answer, !.forced = TRUE]]
        BY <2>1, <2>3
      <3> DEFINE o == [NoOp EXCEPT !.at = answer, !.forced = TRUE]
      <3>2. o.at \in {"upload", "download", "idle"} /\ o.forced = TRUE
        BY <1>n
      <3> HIDE DEF o
      <3>4. OneFile => \A f \in files : HalfSafe(v, o, h, f)
        BY <1>h, <3>2 DEF HalfSafe, Importing
      <3>5. h \/ o.at \in Importing => files # {}
        BY <1>h, <3>2 DEF Importing
      <3>6. QED
        BY <1>0, <2>0, <3>1, <3>4, <3>5, HalfStep DEF o
    <2>4. CASE Direction(v, t) # "conflict"
      <3> DEFINE way == Direction(v, t)
                 o == [NoOp EXCEPT !.at = way]
      <3>1. way \in {"upload", "download"} /\ op' = [op EXCEPT ![d] = o]
        BY <1>0, <2>1, <2>2, <2>4, DirectionByTime
      <3>2. o.at = way /\ o.forced = FALSE
        BY <1>n
      <3>3. /\ way = "upload" /\ t > 0 => v.mod > t + Tolerance
            /\ way = "download" => v.mod <= t + Tolerance
            /\ v.mod \in Nat /\ Tolerance \in Nat
        BY <1>0, <2>2, DirectionByTime, CloudAssumption DEF Content
      <3> HIDE DEF o, way
      <3>4. OneFile => \A f \in files : HalfSafe(v, o, h, f)
        BY <1>h, <2>2, <3>1, <3>2, <3>3 DEF HalfSafe, Importing, Uploading
      <3>5. h \/ o.at \in Importing => files # {}
        BY <1>h, <3>1, <3>2 DEF Importing
      <3>6. QED
        BY <1>0, <2>0, <3>1, <3>4, <3>5, HalfStep
    <2>5. QED
      BY <2>3, <2>4
  <1>2. ASSUME NEW way \in {"upload", "download"}, ForceSync(d, way) PROVE HalfInv'
    <2> DEFINE o == [NoOp EXCEPT !.at = way, !.forced = TRUE]
    <2>1. op' = [op EXCEPT ![d] = o] /\ UNCHANGED <<device, files, half>>
      BY <1>2 DEF ForceSync
    <2>2. o.at = way /\ o.forced = TRUE
      BY <1>n
    <2> HIDE DEF o
    <2>3. o.at \notin Importing /\ (OneFile => \A f \in files : HalfSafe(v, o, h, f))
      BY <1>h, <2>2 DEF HalfSafe, Importing
    <2>4. QED
      BY <1>0, <1>h, <2>1, <2>3, HalfStep
  <1>3. CASE Export(d)
    <2> DEFINE o == [op[d] EXCEPT !.at = "find", !.backup = v]
    <2>1. op[d].at = "upload" /\ op' = [op EXCEPT ![d] = o] /\ UNCHANGED <<device, files, half>>
      BY <1>3 DEF Export
    <2>2. o.at = "find" /\ o.forced = op[d].forced
      BY <1>0 DEF Operation
    <2> HIDE DEF o
    <2>3. OneFile => \A f \in files : HalfSafe(v, o, h, f)
      BY <1>h, <2>1, <2>2 DEF HalfSafe, Importing, Uploading
    <2>4. QED
      BY <1>0, <1>h, <2>1, <2>2, <2>3, HalfStep DEF Importing
  <1>4. CASE FindFile(d)
    <2>1. PICK i : op' = [op EXCEPT ![d].at = "put", ![d].file = i]
      BY <1>4 DEF FindFile
    <2> DEFINE o == [op[d] EXCEPT !.at = "put", !.file = i]
    <2>2. op[d].at = "find" /\ op' = [op EXCEPT ![d] = o] /\ UNCHANGED <<device, files, half>>
      BY <1>4, <2>1 DEF FindFile
    <2>3. o.at = "put" /\ o.forced = op[d].forced
      BY <1>0 DEF Operation
    <2> HIDE DEF o
    <2>4. OneFile => \A f \in files : HalfSafe(v, o, h, f)
      BY <1>h, <2>2, <2>3 DEF HalfSafe, Importing, Uploading
    <2>5. QED
      BY <1>0, <1>h, <2>2, <2>3, <2>4, HalfStep DEF Importing
  <1>i. OneFile => \A f \in files : HalfSafe(v, NoOp, h, f)
    BY <1>h, <1>n DEF HalfSafe
  <1>5. CASE Download(d)
    <2>1. op[d].at = "download" /\ UNCHANGED <<device, files, half>>
      BY <1>5 DEF Download
    <2>2. CASE op' = [op EXCEPT ![d] = NoOp]
      <3>1. half'[d] = "yes" \/ NoOp.at \in Importing => files # {}
        BY <1>h, <1>n, <2>1
      <3>2. OneFile => \A f \in files : HalfSafe(v, NoOp, half'[d] = "yes", f)
        BY <1>i, <2>1
      <3>3. QED
        BY <1>0, <2>1, <2>2, <3>1, <3>2, HalfStep
    <2>3. ASSUME NEW f \in files, StartsImport(d, f) PROVE HalfInv'
      <3> DEFINE ahead == op[d].forced /\ v.mod > f.time + Tolerance
                 o == [op[d] EXCEPT !.at = "rows", !.backup = f.backup, !.against = ahead]
      <3>1. op' = [op EXCEPT ![d] = o]
        BY <2>3 DEF StartsImport
      <3>2. /\ o.at = "rows" /\ o.backup = f.backup
            /\ ~o.against => ~op[d].forced \/ v.mod <= f.time + Tolerance
        <4>1. v.mod \in Nat /\ f.time \in Nat /\ Tolerance \in Nat /\ op[d].forced \in BOOLEAN
          BY <1>0, CloudAssumption DEF Content, File, Operation
        <4>2. ahead \in BOOLEAN /\ (~ahead => ~op[d].forced \/ v.mod <= f.time + Tolerance)
          BY <4>1
        <4> HIDE DEF ahead
        <4>3. o.at = "rows" /\ o.backup = f.backup /\ o.against = ahead
          BY <1>0 DEF Operation
        <4>4. QED
          BY <4>2, <4>3
      <3> HIDE DEF o, ahead
      <3>3. f.backup.mod <= f.time
        BY DEF HalfInv, FilesInOrder
      <3>4. OneFile => \A g \in files : HalfSafe(v, o, h, g)
        BY <1>h, <2>1, <3>2, <3>3 DEF HalfSafe, OneFile, Importing, Uploading
      <3>5. QED
        BY <1>0, <2>1, <3>1, <3>4, HalfStep
    <2>4. QED
      BY <1>5, <2>2, <2>3 DEF Download
  <1>6. CASE Fault(d)
    <2>1. /\ op' = [op EXCEPT ![d] = NoOp] /\ UNCHANGED <<device, files>>
          /\ half' = IF op[d].at \notin {"keys", "keys2", "history"} THEN half
                     ELSE [half EXCEPT ![d] = IF op[d].against THEN "asked" ELSE "yes"]
      BY <1>6 DEF Fault
    <2>a. half \in [Devices -> {"no", "yes", "asked"}]
      BY DEF CloudTyped, Counters
    <2>2. \A e \in Devices \ {d} : half'[e] = half[e]
      BY <2>1, <2>a
    <2>b. half'[d] = "yes" => h \/ (op[d].at \in Importing /\ ~op[d].against)
      BY <2>1, <2>a DEF Importing
    <2>3. OneFile => \A f \in files : HalfSafe(v, NoOp, half'[d] = "yes", f)
      BY <1>h, <1>n, <2>b DEF HalfSafe
    <2>4. half'[d] = "yes" \/ NoOp.at \in Importing => files # {}
      BY <1>h, <1>n, <2>b
    <2>5. QED
      BY <1>0, <2>1, <2>2, <2>3, <2>4, HalfStep
  <1>7. QED
    BY <1>1, <1>2, <1>3, <1>4, <1>5, <1>6

\* The file is replaced by a newer one, or there is a second one.
LEMMA PutHalf ==
  ASSUME CloudTyped, HalfInv, NEW d \in Devices, PutFile(d)
  PROVE  HalfInv'
  <1> DEFINE i == IF op[d].file = 0 THEN Cardinality(files) + 1 ELSE op[d].file
             new == [id |-> i, time |-> now, backup |-> op[d].backup]
             o == [NoOp EXCEPT !.at = "last"]
  <1>0. op[d] \in Operation /\ op[d].backup \in Content /\ Past(op[d].backup) /\ now \in Nat
    BY DEF CloudTyped, OneDevice, Counters, Operation
  <1>1. /\ op' = [op EXCEPT ![d] = o] /\ UNCHANGED device
        /\ half' = [half EXCEPT ![d] = "no"] /\ half \in [Devices -> {"no", "yes", "asked"}]
        /\ files' = {f \in files : f.id # i} \cup {new}
    BY DEF PutFile, Ends, Whole, CloudTyped, Counters
  <1>2. o.at = "last" /\ o.backup = NoOp.backup
    BY DEF NoOp
  <1>3. new.id = i /\ new.time = now /\ new.backup.mod <= now /\ now > 0
    BY <1>0 DEF Past, CloudTyped, Counters
  <1> HIDE DEF i, new, o
  <1>4. FilesInOrder'
    BY <1>1, <1>3 DEF HalfInv, FilesInOrder
  <1>5. files' # {} /\ (OneFile' => files' = {new} /\ OneFile)
    BY <1>1, <1>3 DEF OneFile, HalfInv, FilesInOrder
  <1>6. ASSUME OneFile', NEW e \in Devices
        PROVE  HalfSafe(device'[e], op'[e], half'[e] = "yes", new)
    <2>1. /\ device[e].mod \in Nat /\ op[e].backup.mod \in Nat /\ Tolerance \in Nat
          /\ device[e].mod <= now /\ op[e].backup.mod <= now
      BY CloudAssumption DEF CloudTyped, OneDevice, Past, Operation, Content
    <2>2. half[e] = "yes" => op[e].at \notin {"last", "mod"} /\ (op[e].at \in Uploading => op[e].forced)
      BY <1>5, <1>6 DEF HalfInv, HalfSafe
    <2>3. CASE e = d
      <3>1. half'[e] # "yes" /\ op'[e] = o
        BY <1>1, <2>3 DEF CloudTyped
      <3>2. QED
        BY <1>2, <3>1 DEF HalfSafe, Importing
    <2>4. CASE e # d
      <3>1. op'[e] = op[e] /\ device'[e] = device[e] /\ half'[e] = half[e]
        BY <1>1, <2>4 DEF CloudTyped
      <3>2. device[e].mod <= new.time + Tolerance /\ op[e].backup.mod <= new.time
        BY <1>0, <1>3, <2>1
      <3> DEFINE v == device[e]
                 its == op[e]
                 h == half[e] = "yes"
      <3>a. its.backup.mod <= new.time /\ v.mod <= new.time + Tolerance
        BY <3>2
      <3>3. h => its.at \notin {"last", "mod"} /\ (its.at \in Uploading => its.forced)
        BY <2>2, Zenon
      <3>4. device'[e] = v /\ op'[e] = its /\ (half'[e] = "yes" <=> h)
        BY <3>1
      <3> HIDE DEF v, its, h
      <3>5. HalfSafe(v, its, h, new)
        BY <3>a, <3>3 DEF HalfSafe
      <3>6. QED
        BY <3>4, <3>5
    <2>5. QED
      BY <2>3, <2>4
  <1>7. QED
    BY <1>4, <1>5, <1>6 DEF HalfInv

LEMMA ImportHalf ==
  ASSUME CloudTyped, HalfInv, NEW d \in Devices, ImportRows(d) \/ ImportKeys(d) \/ ImportHistory(d)
  PROVE  HalfInv'
  <1> DEFINE v == device[d]
             h == half[d] = "yes"
             b == op[d].backup
  <1>0. v \in Content /\ op[d] \in Operation /\ op[d].at \in Importing
    BY DEF CloudTyped, OneDevice, ImportRows, ImportKeys, ImportHistory, Importing
  <1>h. /\ files # {}
        /\ OneFile => \A f \in files : HalfSafe(v, op[d], h, f)
    BY <1>0 DEF HalfInv
  <1>1. CASE ImportRows(d) \/ ImportKeys(d)
    <2>1. PICK at \in Importing : op' = [op EXCEPT ![d].at = at]
      BY <1>1 DEF ImportRows, ImportKeys, Put, Importing
    <2> DEFINE o == [op[d] EXCEPT !.at = at]
    <2>2. /\ op' = [op EXCEPT ![d] = o] /\ o.at = at /\ o.backup = b
          /\ o.against = op[d].against
      BY <1>0, <2>1 DEF Operation
    <2>3. PICK w : device' = [device EXCEPT ![d] = w] /\ w.mod \in {v.mod, Restored(v.mod, b.mod)}
      <3> DEFINE wr == [v EXCEPT !.favs = @ \cup (b.favs \cap v.listed),
                                 !.access = IF b.access # {} /\ b.access \subseteq v.sources
                                         THEN b.access ELSE @]
                 wm == [v EXCEPT !.mod = Restored(@, b.mod)]
                 wl == [v EXCEPT !.last = Restored(@, b.last)]
                 wb == [v EXCEPT !.mod = Restored(@, b.mod), !.last = Restored(@, b.last)]
      <3>1. /\ wr.mod = v.mod /\ wm.mod = Restored(v.mod, b.mod)
            /\ wl.mod = v.mod /\ wb.mod = Restored(v.mod, b.mod)
        BY <1>0 DEF Content
      <3>2. \E w \in {wr, wm, wl, wb} : device' = [device EXCEPT ![d] = w]
        BY <1>1 DEF ImportRows, ImportKeys, CloudTyped
      <3> HIDE DEF wr, wm, wl, wb
      <3>3. QED
        BY <3>1, <3>2
    <2>4. UNCHANGED <<files, half>>
      BY <1>1 DEF ImportRows, ImportKeys
    <2> HIDE DEF o
    <2>5. w.mod \in {v.mod, b.mod}
      BY <2>3, RestoredTyped
    <2>a. b.mod \in Nat /\ Tolerance \in Nat /\ \A f \in files : f.time \in Nat
      BY <1>0, CloudAssumption DEF CloudTyped, File, Operation, Content
    <2>6. OneFile => \A f \in files : HalfSafe(w, o, h, f)
      BY <1>0, <1>h, <2>1, <2>2, <2>5, <2>a DEF HalfSafe, Importing, Uploading
    <2>7. QED
      BY <1>h, <2>2, <2>3, <2>4, <2>6, HalfStep
  <1>2. CASE ImportHistory(d)
    <2> DEFINE w == [v EXCEPT !.pos = Restored(@, b.pos), !.sources = @ \cup b.sources]
               o == [NoOp EXCEPT !.at = "last"]
    <2>1. /\ device' = [device EXCEPT ![d] = w] /\ op' = [op EXCEPT ![d] = o]
          /\ half' = [half EXCEPT ![d] = "no"] /\ half \in [Devices -> {"no", "yes", "asked"}]
          /\ UNCHANGED files
      BY <1>2 DEF ImportHistory, Ends, Whole, CloudTyped, Counters
    <2>2. o.at = "last"
      BY DEF NoOp
    <2> HIDE DEF w, o
    <2>3. half'[d] # "yes" /\ \A e \in Devices \ {d} : half'[e] = half[e]
      BY <2>1
    <2>4. \A f \in files : HalfSafe(w, o, half'[d] = "yes", f)
      BY <2>2, <2>3 DEF HalfSafe, Importing
    <2>5. QED
      BY <1>h, <2>1, <2>3, <2>4, HalfStep
  <1>3. QED
    BY <1>1, <1>2

LEMMA OwnHalf ==
  ASSUME CloudTyped, HalfInv, NEW d \in Devices,
         \/ SetLast(d) \/ SetModified(d) \/ Watch(d)
         \/ \E s \in CloudSources : Choose(d, s) \/ ListChannels(d, s)
  PROVE  HalfInv'
  <1> DEFINE v == device[d]
             h == half[d] = "yes"
  <1>0. v \in Content /\ op[d] \in Operation /\ op = [op EXCEPT ![d] = op[d]]
    BY DEF CloudTyped, OneDevice
  <1>1. UNCHANGED <<files, half>>
    BY DEF SetLast, SetModified, Watch, Choose, ListChannels
  <1>h. /\ h \/ op[d].at \in Importing => files # {}
        /\ OneFile => \A f \in files : HalfSafe(v, op[d], h, f)
    BY DEF HalfInv
  <1>2. CASE SetLast(d) \/ SetModified(d)
    <2>1. OneFile => \A f \in files : ~h
      BY <1>2, <1>h DEF SetLast, SetModified, HalfSafe
    <2>2. PICK w, o : /\ device' = [device EXCEPT ![d] = w] /\ op' = [op EXCEPT ![d] = o]
                      /\ o.at \in {"idle", "mod"}
      <3> DEFINE o == [op[d] EXCEPT !.at = "mod", !.time = now]
                 wl == [v EXCEPT !.last = now]
                 wm == [v EXCEPT !.mod = op[d].time]
      <3>1. o.at = "mod" /\ NoOp.at = "idle"
        BY <1>0 DEF Operation, NoOp
      <3>2. \/ device' = [device EXCEPT ![d] = wl] /\ op' = [op EXCEPT ![d] = o]
            \/ device' = [device EXCEPT ![d] = wm] /\ op' = [op EXCEPT ![d] = NoOp]
        BY <1>2 DEF SetLast, SetModified
      <3> HIDE DEF o, wl, wm
      <3>3. QED
        BY <3>1, <3>2
    <2>3. OneFile => \A f \in files : HalfSafe(w, o, h, f)
      BY <2>1, <2>2 DEF HalfSafe, Importing
    <2>4. QED
      BY <1>1, <1>h, <2>2, <2>3, HalfStep DEF Importing
  <1>3. ASSUME \/ Watch(d)
               \/ \E s \in CloudSources : Choose(d, s) \/ ListChannels(d, s)
        PROVE  HalfInv'
    <2>1. PICK w : device' = [device EXCEPT ![d] = w] /\ w.mod = v.mod
      <3> DEFINE wp == [v EXCEPT !.pos = acts']
                 wf(s) == [v EXCEPT !.favs = @ \cup {s}]
                 wa(s) == [v EXCEPT !.access = @ \cup {s}]
                 wl(s) == [v EXCEPT !.listed = @ \cup {s}]
      <3>1. /\ wp.mod = v.mod
            /\ \A s : wf(s).mod = v.mod /\ wa(s).mod = v.mod /\ wl(s).mod = v.mod
        BY <1>0 DEF Content
      <3>2. \/ device' = [device EXCEPT ![d] = wp]
            \/ \E s : \/ device' = [device EXCEPT ![d] = wf(s)]
                      \/ device' = [device EXCEPT ![d] = wa(s)]
                      \/ device' = [device EXCEPT ![d] = wl(s)]
        BY <1>3 DEF Watch, Choose, ListChannels
      <3> HIDE DEF wp, wf, wa, wl
      <3>3. QED
        BY <3>1, <3>2
    <2>2. op' = [op EXCEPT ![d] = op[d]]
      BY <1>0, <1>3 DEF Watch, Choose, ListChannels
    <2>3. OneFile => \A f \in files : HalfSafe(w, op[d], h, f)
      BY <1>h, <2>1 DEF HalfSafe
    <2>4. QED
      BY <1>1, <1>h, <2>1, <2>2, <2>3, HalfStep
  <1>4. QED
    BY <1>2, <1>3

LEMMA HalfInvStep == CloudTyped /\ HalfInv /\ [CloudNext]_cloudVars => HalfInv'
  <1> SUFFICES ASSUME CloudTyped, HalfInv, [CloudNext]_cloudVars PROVE HalfInv'
    OBVIOUS
  <1>1. CASE UNCHANGED <<device, files, op, half>>
    BY <1>1 DEF HalfInv, FilesInOrder, OneFile
  <1>2. CASE ClockTicks \/ UNCHANGED cloudVars
    BY <1>1, <1>2 DEF ClockTicks, cloudVars
  <1>3. QED
    BY <1>2, SyncHalf, PutHalf, ImportHalf, OwnHalf DEF CloudNext

\* While Drive has one file, whatever any number of devices change, sync and cut
\* short, none uploads half an import unless its user forces the upload, or had
\* forced the import on a device whose time was ahead of the file's.
THEOREM HalfNeverUploaded == CloudSpec => []HalfImportNotUploaded
  <1>1. CloudTyped /\ HalfInv => HalfImportNotUploaded
    <2> SUFFICES ASSUME CloudTyped, HalfInv, Cardinality(files) = 1, NEW d \in Devices,
                        half[d] = "yes", op[d].at \in Uploading
                 PROVE  op[d].forced
      BY DEF Uploading, HalfImportNotUploaded
    <2>1. PICK f : files = {f}
      BY FS_CardinalityType, FS_Singleton DEF CloudTyped
    <2>2. OneFile
      BY <2>1 DEF OneFile
    <2>3. HalfSafe(device[d], op[d], half[d] = "yes", f)
      BY <2>1, <2>2 DEF HalfInv
    <2>4. QED
      BY <2>3 DEF HalfSafe
  <1>2. QED
    BY <1>1, CloudInitTyped, CloudTypedStep, HalfInit, HalfInvStep, PTL DEF CloudSpec

-----------------------------------------------------------------------------
(* Merging two backups: whichever device merges, and however often.         *)

Backups == {"local", "cloud"}
Sections == {"exportedAt", "profiles", "favorites", "channelOrders", "sourceAccess",
             "settings", "watchHistory", "recordings", "sources"}
Watched == {"last_watched", "position_ms"}

MergeTyped ==
    /\ held = [d \in Backups |-> held[d]]
    /\ \A d \in Backups :
        /\ DOMAIN held[d] = Sections
        /\ held[d].exportedAt \in Nat
        /\ \A id \in DOMAIN held[d].watchHistory :
               DOMAIN held[d].watchHistory[id] = Watched

LEMMA MergeInitTyped == MergeInit => MergeTyped
  <1>1. DOMAIN Common = Sections /\ Common.exportedAt = 0 /\ Common.watchHistory = <<>>
    BY DEF Common, Sections
  <1>2. DOMAIN <<>> = {}
    OBVIOUS
  <1>3. QED
    BY <1>1, <1>2 DEF MergeInit, MergeTyped, Backups

LEMMA WriteTyped ==
  ASSUME MergeTyped, NEW d \in Backups, NEW section \in Sections \ {"exportedAt"},
         NEW key, NEW content,
         section = "watchHistory" => DOMAIN content = Watched,
         Write(d, section, key, content)
  PROVE  MergeTyped'
  <1> DEFINE written == Over([k \in {key} |-> content], held[d][section])
             b == [held[d] EXCEPT ![section] = written]
  <1>1. held' = [held EXCEPT ![d] = b]
    BY DEF Write
  <1>2. /\ DOMAIN b = Sections /\ b[section] = written
        /\ \A other \in Sections \ {section} : b[other] = held[d][other]
    BY DEF MergeTyped
  <1>3. "exportedAt" \in Sections /\ "watchHistory" \in Sections
    BY DEF Sections
  <1>4. section = "watchHistory" => \A id \in DOMAIN written : DOMAIN written[id] = Watched
    BY DEF Over, MergeTyped
  <1> HIDE DEF written, b
  <1>5. /\ b.exportedAt \in Nat
        /\ \A id \in DOMAIN b.watchHistory : DOMAIN b.watchHistory[id] = Watched
    BY <1>2, <1>3, <1>4 DEF MergeTyped
  <1>6. QED
    BY <1>1, <1>2, <1>5 DEF MergeTyped

LEMMA MergeStepTyped == MergeTyped /\ [MergeNext]_mergeVars => MergeTyped'
  <1> SUFFICES ASSUME MergeTyped, [MergeNext]_mergeVars PROVE MergeTyped'
    OBVIOUS
  <1>0. Sections \ {"exportedAt"} =
          {"profiles", "favorites", "channelOrders", "sourceAccess", "settings",
           "watchHistory", "recordings", "sources"}
    BY DEF Sections
  <1>1. ASSUME NEW d \in Backups, ExportBackup(d) PROVE MergeTyped'
    <2>1. PICK time \in Clock :
             held' = [held EXCEPT
                 ![d].exportedAt = time,
                 ![d].sourceAccess = [p \in {q \in DOMAIN @ : @[q] # {}} |-> @[p]]]
      BY <1>1 DEF ExportBackup
    <2> DEFINE granted == held[d].sourceAccess
               access == [p \in {q \in DOMAIN granted : granted[q] # {}} |-> granted[p]]
               b == [held[d] EXCEPT !.exportedAt = time, !.sourceAccess = access]
    <2>2. held' = [held EXCEPT ![d] = b]
      BY <2>1 DEF MergeTyped
    <2>3. DOMAIN b = Sections /\ b.exportedAt = time /\ b.watchHistory = held[d].watchHistory
      BY DEF MergeTyped, Sections
    <2> HIDE DEF b
    <2>4. time \in Nat
      BY MergeAssumption
    <2>5. QED
      BY <2>2, <2>3, <2>4 DEF MergeTyped
  <1>2. ASSUME NEW d \in Backups, SaveWatchHistory(d) PROVE MergeTyped'
    <2>1. PICK time \in Clock, place \in 1..2 :
             Write(d, "watchHistory", "film", [last_watched |-> time, position_ms |-> place])
      BY <1>2 DEF SaveWatchHistory
    <2>2. DOMAIN [last_watched |-> time, position_ms |-> place] = Watched
      BY DEF Watched
    <2>3. QED
      BY <1>0, <2>1, <2>2, WriteTyped
  <1>3. ASSUME NEW d \in Backups,
               \E section \in Sections \ {"exportedAt", "watchHistory"} : \E key, content :
                  Write(d, section, key, content)
        PROVE  MergeTyped'
    BY <1>3, WriteTyped
  <1>4. ASSUME NEW d \in Backups,
               \/ SaveProfile(d) \/ SetSetting(d) \/ SaveRecording(d) \/ SaveSource(d)
               \/ AddFavoriteChannel(d, "channel")
               \/ \E granted \in {{}, {d}} : SetSourceAccess(d, granted)
               \/ \E index \in 0..1 : SaveChannelOrder(d, index)
        PROVE  \E section \in Sections \ {"exportedAt", "watchHistory"} : \E key, content :
                  Write(d, section, key, content)
    BY <1>4 DEF Sections, SaveProfile, SetSetting, SaveRecording, SaveSource,
       AddFavoriteChannel, SetSourceAccess, SaveChannelOrder
  <1>5. CASE UNCHANGED mergeVars
    BY <1>5 DEF mergeVars, MergeTyped
  <1>6. QED
    BY <1>1, <1>2, <1>3, <1>4, <1>5 DEF MergeNext, Backups

\* What a merge by id has taken from its two sides it does not take again.
LEMMA OverAbsorbs ==
  ASSUME NEW f, NEW g
  PROVE  /\ Over(Over(f, g), f) = Over(f, g)
         /\ Over(Over(f, g), g) = Over(f, g)
         /\ Over(f, Over(f, g)) = Over(f, g)
  BY DEF Over

LEMMA ListsAbsorb ==
  ASSUME NEW f, NEW g
  PROVE  /\ MergeMapOfLists(f, g) = MergeMapOfLists(g, f)
         /\ MergeMapOfLists(MergeMapOfLists(f, g), g) = MergeMapOfLists(f, g)
         /\ MergeMapOfLists(f, MergeMapOfLists(f, g)) = MergeMapOfLists(f, g)
  <1> DEFINE m == MergeMapOfLists(f, g)
  <1>1. /\ DOMAIN m = DOMAIN f \cup DOMAIN g
        /\ \A key \in DOMAIN m : m[key] = Field(f, key, {}) \cup Field(g, key, {})
    BY DEF MergeMapOfLists
  <1>2. \A key \in DOMAIN m : Field(m, key, {}) = Field(f, key, {}) \cup Field(g, key, {})
    BY <1>1 DEF Field
  <1>3. MergeMapOfLists(f, g) = MergeMapOfLists(g, f)
    BY DEF MergeMapOfLists
  <1>4. m = [key \in DOMAIN m |-> Field(f, key, {}) \cup Field(g, key, {})]
    BY DEF MergeMapOfLists
  <1> HIDE DEF m
  <1>5. MergeMapOfLists(m, g) = m /\ MergeMapOfLists(f, m) = m
    <2>1. DOMAIN m \cup DOMAIN g = DOMAIN m /\ DOMAIN f \cup DOMAIN m = DOMAIN m
      BY <1>1
    <2>2. \A key \in DOMAIN m :
             /\ Field(m, key, {}) \cup Field(g, key, {}) = Field(f, key, {}) \cup Field(g, key, {})
             /\ Field(f, key, {}) \cup Field(m, key, {}) = Field(f, key, {}) \cup Field(g, key, {})
      BY <1>2
    <2>3. QED
      BY <1>4, <2>1, <2>2 DEF MergeMapOfLists
  <1>6. QED
    BY <1>3, <1>5 DEF m

LEMMA ProfilesAbsorb ==
  ASSUME NEW f, NEW g
  PROVE  /\ MergeProfiles(MergeProfiles(f, g), g) = MergeProfiles(f, g)
         /\ MergeProfiles(f, MergeProfiles(f, g)) = MergeProfiles(f, g)
  BY DEF MergeProfiles, Over, SanitiseCloudProfile

\* The settings of the newer side stay; those of the sync stay the device's own.
LEMMA SettingsAbsorb ==
  ASSUME NEW f, NEW g
  PROVE  /\ MergeSettings(MergeSettings(f, g, TRUE), g, TRUE) = MergeSettings(f, g, TRUE)
         /\ MergeSettings(MergeSettings(f, g, FALSE), g, FALSE) = MergeSettings(f, g, FALSE)
         /\ MergeSettings(MergeSettings(f, g, FALSE), g, TRUE) = MergeSettings(f, g, FALSE)
         /\ MergeSettings(f, MergeSettings(f, g, TRUE), FALSE) = MergeSettings(f, g, TRUE)
         /\ MergeSettings(f, MergeSettings(f, g, FALSE), FALSE) = MergeSettings(f, g, FALSE)
  BY DEF MergeSettings, MergeById, Over

LEMMA ByIdAbsorbs ==
  ASSUME NEW f, NEW g
  PROVE  /\ MergeById(MergeById(f, g, TRUE), g, TRUE) = MergeById(f, g, TRUE)
         /\ MergeById(MergeById(f, g, FALSE), g, FALSE) = MergeById(f, g, FALSE)
         /\ MergeById(MergeById(f, g, FALSE), g, TRUE) = MergeById(f, g, FALSE)
         /\ MergeById(f, MergeById(f, g, TRUE), FALSE) = MergeById(f, g, TRUE)
         /\ MergeById(f, MergeById(f, g, FALSE), FALSE) = MergeById(f, g, FALSE)
  BY DEF MergeById, Over

\* The side a merge prefers, by what its flag says.
LEMMA Preferred ==
  ASSUME NEW f, NEW g, NEW newer
  PROVE  /\ newer => /\ MergeSettings(f, g, newer) = MergeSettings(f, g, TRUE)
                     /\ MergeById(f, g, newer) = MergeById(f, g, TRUE)
         /\ ~newer => /\ MergeSettings(f, g, newer) = MergeSettings(f, g, FALSE)
                      /\ MergeById(f, g, newer) = MergeById(f, g, FALSE)
  BY DEF MergeSettings, MergeById

\* What an import reads of a history.
ReadHistory(h) == [id \in DOMAIN h |-> <<h[id].last_watched, h[id].position_ms>>]

\* An entry, exported or merged before; one that an import reads as the other.
Entry(e) == DOMAIN e = Watched \/ DOMAIN e = Watched \cup {"positionMs"}
Entries(h) == \A id \in DOMAIN h : Entry(h[id])
ReadsAs(e, w) == e.last_watched = w.last_watched /\ e.position_ms = w.position_ms

\* No entry has the time the merge looks for, so the cloud's is taken.
LEMMA HistoryMerged ==
  ASSUME NEW x, NEW y, Entries(x), Entries(y)
  PROVE  LET m == MergeWatchHistory(x, y) IN
         /\ DOMAIN m = DOMAIN x \cup DOMAIN y
         /\ Entries(m)
         /\ \A id \in DOMAIN y : ReadsAs(m[id], y[id])
         /\ \A id \in DOMAIN x \ DOMAIN y : m[id] = x[id]
  <1> DEFINE m == MergeWatchHistory(x, y)
  <1>1. DOMAIN m = DOMAIN x \cup DOMAIN y
    BY DEF MergeWatchHistory
  <1>2. \A id \in DOMAIN x \ DOMAIN y : m[id] = x[id]
    BY DEF MergeWatchHistory
  <1>3. \A id \in DOMAIN y \ DOMAIN x : m[id] = y[id]
    BY DEF MergeWatchHistory
  <1>4. ASSUME NEW id \in DOMAIN x \cap DOMAIN y
        PROVE  Entry(m[id]) /\ ReadsAs(m[id], y[id])
    <2>1. Field(y[id], "lastWatched", 0) = 0
      BY DEF Field, Watched, Entries, Entry
    <2>2. PICK n : m[id] = Over([positionMs |-> n], y[id])
      BY <2>1 DEF MergeWatchHistory
    <2>3. DOMAIN [positionMs |-> n] = {"positionMs"}
      OBVIOUS
    <2>4. QED
      BY <2>2, <2>3 DEF Over, Watched, Entries, Entry, ReadsAs
  <1> HIDE DEF m
  <1>5. Entries(m) /\ \A id \in DOMAIN y : ReadsAs(m[id], y[id])
    BY <1>1, <1>2, <1>3, <1>4 DEF Entries, ReadsAs
  <1>6. QED
    BY <1>1, <1>2, <1>5 DEF m

LEMMA HistoryAbsorbs ==
  ASSUME NEW f, NEW g,
         \A id \in DOMAIN f : DOMAIN f[id] = Watched,
         \A id \in DOMAIN g : DOMAIN g[id] = Watched
  PROVE  /\ ReadHistory(MergeWatchHistory(MergeWatchHistory(f, g), g))
              = ReadHistory(MergeWatchHistory(f, g))
         /\ ReadHistory(MergeWatchHistory(f, MergeWatchHistory(f, g)))
              = ReadHistory(MergeWatchHistory(f, g))
  <1> DEFINE m == MergeWatchHistory(f, g)
             again == MergeWatchHistory(m, g)
             back == MergeWatchHistory(f, m)
  <1>1. Entries(f) /\ Entries(g)
    BY DEF Entries, Entry
  <1>2. /\ DOMAIN m = DOMAIN f \cup DOMAIN g /\ Entries(m)
        /\ \A id \in DOMAIN g : ReadsAs(m[id], g[id])
    BY <1>1, HistoryMerged
  <1> HIDE DEF m
  <1>3. /\ DOMAIN again = DOMAIN m \cup DOMAIN g
        /\ \A id \in DOMAIN g : ReadsAs(again[id], g[id])
        /\ \A id \in DOMAIN m \ DOMAIN g : again[id] = m[id]
    BY <1>1, <1>2, HistoryMerged
  <1>4. DOMAIN back = DOMAIN f \cup DOMAIN m /\ \A id \in DOMAIN m : ReadsAs(back[id], m[id])
    BY <1>1, <1>2, HistoryMerged
  <1> HIDE DEF again, back
  <1>5. ReadHistory(again) = ReadHistory(m)
    <2>1. DOMAIN again = DOMAIN m /\ \A id \in DOMAIN m : ReadsAs(again[id], m[id])
      BY <1>2, <1>3 DEF ReadsAs
    <2>2. QED
      BY <2>1 DEF ReadHistory, ReadsAs
  <1>6. ReadHistory(back) = ReadHistory(m)
    <2>1. DOMAIN back = DOMAIN m
      BY <1>2, <1>4
    <2>2. QED
      BY <1>4, <2>1 DEF ReadHistory, ReadsAs
  <1>7. QED
    BY <1>5, <1>6 DEF m, again, back

\* m is what the merge of two backups has in its sections.
Merged(m, local, cloud, at) ==
    LET newer == LocalIsNewer(local, cloud)
    IN  /\ m.exportedAt = at
        /\ m.profiles = MergeProfiles(local.profiles, cloud.profiles)
        /\ m.favorites = MergeMapOfLists(local.favorites, cloud.favorites)
        /\ m.channelOrders = MergeById(local.channelOrders, cloud.channelOrders, TRUE)
        /\ m.sourceAccess = MergeMapOfLists(local.sourceAccess, cloud.sourceAccess)
        /\ m.settings = MergeSettings(local.settings, cloud.settings, newer)
        /\ m.watchHistory = MergeWatchHistory(local.watchHistory, cloud.watchHistory)
        /\ m.recordings = MergeById(local.recordings, cloud.recordings, newer)
        /\ m.sources = MergeSources(local.sources, cloud.sources)
        /\ m = [exportedAt |-> m.exportedAt, profiles |-> m.profiles,
                favorites |-> m.favorites, channelOrders |-> m.channelOrders,
                sourceAccess |-> m.sourceAccess, settings |-> m.settings,
                watchHistory |-> m.watchHistory, recordings |-> m.recordings,
                sources |-> m.sources]

LEMMA MergeBackupsMerged ==
  ASSUME NEW local, NEW cloud, NEW at
  PROVE  Merged(MergeBackups(local, cloud, at), local, cloud, at)
  BY DEF MergeBackups, Merged

\* Whichever of two devices merges, they come to the same, for any profiles,
\* contents and clocks: nothing one has added is lost on either.
LEMMA MergesAlike ==
  ASSUME NEW a, NEW b, a.exportedAt \in Nat, b.exportedAt \in Nat,
         a.exportedAt # b.exportedAt,
         NEW m, NEW n, NEW at, Merged(m, a, b, at), Merged(n, b, a, at)
  PROVE  Agreed(m) = Agreed(n)
  <1> DEFINE newer == LocalIsNewer(a, b)
             shared(s) == [key \in DOMAIN s \ SyncMetaKeys |-> s[key]]
  <1>1. newer \in BOOLEAN /\ LocalIsNewer(b, a) = ~newer
    BY DEF LocalIsNewer
  <1>2. DOMAIN m.profiles = DOMAIN n.profiles
    BY DEF Merged, MergeProfiles, Over
  <1>3. m.favorites = n.favorites /\ m.sourceAccess = n.sourceAccess
    BY ListsAbsorb DEF Merged
  <1>4. DOMAIN m.channelOrders = DOMAIN n.channelOrders
    BY DEF Merged, MergeById, Over
  <1>5. shared(m.settings) = shared(n.settings)
    <2>1. ASSUME NEW f, NEW g, NEW first \in BOOLEAN
          PROVE  shared(MergeSettings(f, g, first)) = shared(MergeSettings(g, f, ~first))
      BY DEF MergeSettings, MergeById, Over
    <2>2. /\ m.settings = MergeSettings(a.settings, b.settings, newer)
          /\ n.settings = MergeSettings(b.settings, a.settings, ~newer)
      BY <1>1 DEF Merged
    <2> HIDE DEF shared, newer
    <2>3. QED
      BY <1>1, <2>1, <2>2
  <1>6. DOMAIN m.watchHistory = DOMAIN n.watchHistory
    BY DEF Merged, MergeWatchHistory
  <1>7. m.recordings = n.recordings
    BY <1>1 DEF Merged, MergeById
  <1>8. DOMAIN m.sources = DOMAIN n.sources
    BY DEF Merged, MergeSources, Over
  <1>9. QED
    BY <1>2, <1>3, <1>4, <1>5, <1>6, <1>7, <1>8 DEF Agreed

\* Two merged backups are read alike if their sections are, the history as an
\* import reads it.
LEMMA ReadAlike ==
  ASSUME NEW a1, NEW b1, NEW a2, NEW b2, NEW at, NEW m, NEW n,
         Merged(m, a1, b1, at), Merged(n, a2, b2, at),
         m.profiles = n.profiles, m.favorites = n.favorites,
         m.channelOrders = n.channelOrders, m.sourceAccess = n.sourceAccess,
         m.settings = n.settings, m.recordings = n.recordings, m.sources = n.sources,
         ReadHistory(m.watchHistory) = ReadHistory(n.watchHistory)
  PROVE  AsRead(m) = AsRead(n)
  <1> DEFINE Backup(b, h) ==
                 [exportedAt |-> b.exportedAt, profiles |-> b.profiles,
                  favorites |-> b.favorites, channelOrders |-> b.channelOrders,
                  sourceAccess |-> b.sourceAccess, settings |-> b.settings,
                  watchHistory |-> h, recordings |-> b.recordings, sources |-> b.sources]
  <1>1. /\ m = Backup(m, m.watchHistory) /\ n = Backup(n, n.watchHistory)
        /\ m.exportedAt = n.exportedAt
    BY DEF Merged
  <1>2. ASSUME NEW b, b = Backup(b, b.watchHistory)
        PROVE  AsRead(b) = Backup(b, ReadHistory(b.watchHistory))
    BY <1>2 DEF AsRead, ReadHistory
  <1>3. /\ AsRead(m) = Backup(m, ReadHistory(m.watchHistory))
        /\ AsRead(n) = Backup(n, ReadHistory(n.watchHistory))
    BY <1>1, <1>2
  <1>4. QED
    BY <1>1, <1>3

\* m merges a and b; n merges it again with the cloud's b as it was, or this
\* device's a with it.
LEMMA MergesOnce ==
  ASSUME NEW a, NEW b, a.exportedAt \in Nat, b.exportedAt \in Nat,
         \A id \in DOMAIN a.watchHistory : DOMAIN a.watchHistory[id] = Watched,
         \A id \in DOMAIN b.watchHistory : DOMAIN b.watchHistory[id] = Watched,
         NEW at \in Nat, at >= a.exportedAt,
         NEW m, NEW n, Merged(m, a, b, at),
         Merged(n, m, b, at) \/ Merged(n, a, m, at)
  PROVE  AsRead(n) = AsRead(m)
  <1>1. /\ \/ LocalIsNewer(a, b) /\ LocalIsNewer(m, b)
           \/ ~LocalIsNewer(a, b) /\ LocalIsNewer(m, b)
           \/ ~LocalIsNewer(a, b) /\ ~LocalIsNewer(m, b)
        /\ ~LocalIsNewer(a, m)
    BY DEF LocalIsNewer, Merged
  <1>2. n.profiles = m.profiles
    <2>1. m.profiles = MergeProfiles(a.profiles, b.profiles)
      BY DEF Merged
    <2>2. \/ n.profiles = MergeProfiles(m.profiles, b.profiles)
          \/ n.profiles = MergeProfiles(a.profiles, m.profiles)
      BY DEF Merged
    <2>3. QED
      BY <2>1, <2>2, ProfilesAbsorb
  <1>3. n.favorites = m.favorites
    <2>1. m.favorites = MergeMapOfLists(a.favorites, b.favorites)
      BY DEF Merged
    <2>2. \/ n.favorites = MergeMapOfLists(m.favorites, b.favorites)
          \/ n.favorites = MergeMapOfLists(a.favorites, m.favorites)
      BY DEF Merged
    <2>3. QED
      BY <2>1, <2>2, ListsAbsorb
  <1>4. n.sourceAccess = m.sourceAccess
    <2>1. m.sourceAccess = MergeMapOfLists(a.sourceAccess, b.sourceAccess)
      BY DEF Merged
    <2>2. \/ n.sourceAccess = MergeMapOfLists(m.sourceAccess, b.sourceAccess)
          \/ n.sourceAccess = MergeMapOfLists(a.sourceAccess, m.sourceAccess)
      BY DEF Merged
    <2>3. QED
      BY <2>1, <2>2, ListsAbsorb
  <1>5. n.channelOrders = m.channelOrders
    <2>1. m.channelOrders = Over(a.channelOrders, b.channelOrders)
      BY DEF Merged, MergeById
    <2>2. \/ n.channelOrders = Over(m.channelOrders, b.channelOrders)
          \/ n.channelOrders = Over(a.channelOrders, m.channelOrders)
      BY DEF Merged, MergeById
    <2>3. QED
      BY <2>1, <2>2, OverAbsorbs
  <1>6. n.sources = m.sources
    <2>1. m.sources = Over(a.sources, b.sources)
      BY DEF Merged, MergeSources
    <2>2. \/ n.sources = Over(m.sources, b.sources)
          \/ n.sources = Over(a.sources, m.sources)
      BY DEF Merged, MergeSources
    <2>3. QED
      BY <2>1, <2>2, OverAbsorbs
  <1>7. n.settings = m.settings
    <2>1. /\ m.settings = MergeSettings(a.settings, b.settings, LocalIsNewer(a, b))
          /\ \/ n.settings = MergeSettings(m.settings, b.settings, LocalIsNewer(m, b))
             \/ n.settings = MergeSettings(a.settings, m.settings, LocalIsNewer(a, m))
      BY DEF Merged
    <2>2. CASE LocalIsNewer(a, b) /\ LocalIsNewer(m, b)
      <3>1. m.settings = MergeSettings(a.settings, b.settings, TRUE)
        BY <2>1, <2>2, Preferred
      <3>2. \/ n.settings = MergeSettings(m.settings, b.settings, TRUE)
            \/ n.settings = MergeSettings(a.settings, m.settings, FALSE)
        BY <1>1, <2>1, <2>2, Preferred
      <3>3. QED
        BY <3>1, <3>2, SettingsAbsorb
    <2>3. CASE ~LocalIsNewer(a, b) /\ LocalIsNewer(m, b)
      <3>1. m.settings = MergeSettings(a.settings, b.settings, FALSE)
        BY <2>1, <2>3, Preferred
      <3>2. \/ n.settings = MergeSettings(m.settings, b.settings, TRUE)
            \/ n.settings = MergeSettings(a.settings, m.settings, FALSE)
        BY <1>1, <2>1, <2>3, Preferred
      <3>3. QED
        BY <3>1, <3>2, SettingsAbsorb
    <2>4. CASE ~LocalIsNewer(a, b) /\ ~LocalIsNewer(m, b)
      <3>1. m.settings = MergeSettings(a.settings, b.settings, FALSE)
        BY <2>1, <2>4, Preferred
      <3>2. \/ n.settings = MergeSettings(m.settings, b.settings, FALSE)
            \/ n.settings = MergeSettings(a.settings, m.settings, FALSE)
        BY <1>1, <2>1, <2>4, Preferred
      <3>3. QED
        BY <3>1, <3>2, SettingsAbsorb
    <2>5. QED
      BY <1>1, <2>2, <2>3, <2>4
  <1>8. n.recordings = m.recordings
    <2>1. /\ m.recordings = MergeById(a.recordings, b.recordings, LocalIsNewer(a, b))
          /\ \/ n.recordings = MergeById(m.recordings, b.recordings, LocalIsNewer(m, b))
             \/ n.recordings = MergeById(a.recordings, m.recordings, LocalIsNewer(a, m))
      BY DEF Merged
    <2>2. CASE LocalIsNewer(a, b) /\ LocalIsNewer(m, b)
      <3>1. m.recordings = MergeById(a.recordings, b.recordings, TRUE)
        BY <2>1, <2>2, Preferred
      <3>2. \/ n.recordings = MergeById(m.recordings, b.recordings, TRUE)
            \/ n.recordings = MergeById(a.recordings, m.recordings, FALSE)
        BY <1>1, <2>1, <2>2, Preferred
      <3>3. QED
        BY <3>1, <3>2, ByIdAbsorbs
    <2>3. CASE ~LocalIsNewer(a, b) /\ LocalIsNewer(m, b)
      <3>1. m.recordings = MergeById(a.recordings, b.recordings, FALSE)
        BY <2>1, <2>3, Preferred
      <3>2. \/ n.recordings = MergeById(m.recordings, b.recordings, TRUE)
            \/ n.recordings = MergeById(a.recordings, m.recordings, FALSE)
        BY <1>1, <2>1, <2>3, Preferred
      <3>3. QED
        BY <3>1, <3>2, ByIdAbsorbs
    <2>4. CASE ~LocalIsNewer(a, b) /\ ~LocalIsNewer(m, b)
      <3>1. m.recordings = MergeById(a.recordings, b.recordings, FALSE)
        BY <2>1, <2>4, Preferred
      <3>2. \/ n.recordings = MergeById(m.recordings, b.recordings, FALSE)
            \/ n.recordings = MergeById(a.recordings, m.recordings, FALSE)
        BY <1>1, <2>1, <2>4, Preferred
      <3>3. QED
        BY <3>1, <3>2, ByIdAbsorbs
    <2>5. QED
      BY <1>1, <2>2, <2>3, <2>4
  <1>9. ReadHistory(n.watchHistory) = ReadHistory(m.watchHistory)
    <2>1. m.watchHistory = MergeWatchHistory(a.watchHistory, b.watchHistory)
      BY DEF Merged
    <2>2. \/ n.watchHistory = MergeWatchHistory(m.watchHistory, b.watchHistory)
          \/ n.watchHistory = MergeWatchHistory(a.watchHistory, m.watchHistory)
      BY DEF Merged
    <2>3. QED
      BY <2>1, <2>2, HistoryAbsorbs
  <1>10. QED
    BY <1>2, <1>3, <1>4, <1>5, <1>6, <1>7, <1>8, <1>9, ReadAlike

\* Two devices' exports, merged by either, agree on all that is not each device's
\* own, for any household, clocks and number of rows written.
THEOREM EitherDeviceMergesAlike == MergeSpec => []EitherMergesAlike
  <1>1. MergeTyped => EitherMergesAlike
    BY MergesAlike, MergeBackupsMerged DEF MergeTyped, Backups, EitherMergesAlike
  <1>2. QED
    BY <1>1, MergeInitTyped, MergeStepTyped, PTL DEF MergeSpec

\* A merge repeated after a failed upload or a failed import adds and loses
\* nothing, for any household, clocks and number of rows written.
THEOREM MergingAgainIsIdle == MergeSpec => []MergeAgainIsIdle
  <1>1. ASSUME MergeTyped, Exported,
               NEW at \in {t \in Clock : t >= held["local"].exportedAt}
        PROVE  LET merged == MergeBackups(held["local"], held["cloud"], at)
               IN  /\ AsRead(MergeBackups(merged, held["cloud"], at)) = AsRead(merged)
                   /\ AsRead(MergeBackups(held["local"], merged, at)) = AsRead(merged)
    <2> DEFINE a == held["local"]
               b == held["cloud"]
               m == MergeBackups(a, b, at)
    <2>1. /\ a.exportedAt \in Nat /\ b.exportedAt \in Nat
          /\ at \in Nat /\ at >= a.exportedAt
          /\ \A id \in DOMAIN a.watchHistory : DOMAIN a.watchHistory[id] = Watched
          /\ \A id \in DOMAIN b.watchHistory : DOMAIN b.watchHistory[id] = Watched
      BY <1>1, MergeAssumption DEF MergeTyped, Backups
    <2>2. Merged(m, a, b, at)
      BY MergeBackupsMerged
    <2> HIDE DEF a, b, m
    <2>3. /\ Merged(MergeBackups(m, b, at), m, b, at)
          /\ Merged(MergeBackups(a, m, at), a, m, at)
      BY MergeBackupsMerged
    <2>4. AsRead(MergeBackups(m, b, at)) = AsRead(m)
      BY <2>1, <2>2, <2>3, MergesOnce
    <2>5. AsRead(MergeBackups(a, m, at)) = AsRead(m)
      BY <2>1, <2>2, <2>3, MergesOnce
    <2>6. QED
      BY <2>4, <2>5 DEF a, b, m
  <1>2. MergeTyped => MergeAgainIsIdle
    BY <1>1 DEF MergeAgainIsIdle
  <1>3. QED
    BY <1>2, MergeInitTyped, MergeStepTyped, PTL DEF MergeSpec

=============================================================================
