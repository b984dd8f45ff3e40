# CrispyTivi in TLA+

Models, model checks and proofs of the parts of CrispyTivi (Flutter front end,
Rust core) whose correctness depends on the order in which threads, futures,
timers, events and crashes interleave. Paths are relative to the repository;
`lib/` stands for `app/flutter/lib/`, `core/` for `rust/crates/crispy-core/src/`.

## 1. The system

| Component | State | Operations | Talks to |
|---|---|---|---|
| Change events of the core (`core/services/mod.rs`, `core/events.rs`) | SQLite database, `batching` flag, `sync_mutex`, event callback, all shared by the clones of `ServiceContext` | every write commits and calls `emit`; `save_sync_data` commits channels and VOD in one transaction and emits inside `batch_events` | called on worker threads; the callback feeds a stream to Dart (`crispy-ffi/src/api/lifecycle.rs`) or a broadcast channel (`crispy-server`) |
| Event-driven refresh (`lib/core/data/event_bus_provider.dart`, `event_driven_invalidator.dart`) | held-back events, a 50 ms timer, the providers' values | debounce, deduplicate, dispatch; a bulk event bypasses the timer | reads the core again through the cache service |
| WebSocket bridge (`crispy-server/src/main.rs`, `lib/core/data/ws_backend*.dart`) | pending requests, broadcast channel of 256, two queues of 32, reconnect loop | ask, answer, push, refuse, reconnect, dispose | core and event bus |
| Playlist sync (`core/services/{m3u,xtream,stalker}_sync.rs`, `save_sync_data`) | tables of channels, movies, categories, favourites | fetch list by list, save categories, replace rows in one transaction; add and delete a source | source servers, change events |
| Guide (`core/services/epg_sync.rs`, `epg.rs`) | channel definitions, programmes, ids of channels, validators, cooldown | fetch if modified, save, resolve ids, look up | XMLTV servers, playlist sync |
| Player session (`lib/features/player/data/player_*`, `playback_session_provider.dart`) | fields of `PlayerService`, timers, session | start, zap, stop, pause, retry, proxy | native player, core's buffer tiers |
| Cloud sync (`lib/features/cloud_sync/data/`, `core/backup.rs`) | two times kept as settings, the files in Drive | decide, export, upload, download, import | Google Drive, core |
| Cloud merge (`core/algorithms/cloud_sync/merge.rs`) | none | two backups become one, section by section | called by cloud sync |
| Profiles (`lib/features/profiles/data/profile_service.dart`, `core/services/profiles.rs`) | list and active profile in memory, table `db_profiles` | add, update, change role, reorder, switch | core, invalidator |
| Transfer queue (`lib/features/dvr/data/transfer_service.dart`, table `db_transfer_tasks`) | task list in memory, `_processing`, rows | queue, pause, resume, cancel, process, resume after a restart | core's DVR tables, storage providers |
| Recordings (`lib/features/dvr/data/dvr_service.dart`, `dvr_capture_helper.dart`, `recording_engine.dart`) | list of recordings in memory, table `db_recordings`, cancel tokens, 30 s timer | schedule, check, start, capture, stop, fail, remove, edit policy | core (conflict, due, upsert), invalidator (through `RecordingChanged`), transfer queue (auto-upload) |
| Recurring expansion (`core/algorithms/dvr/scheduling.rs`) | none | instances of the week ahead | called by the recordings every 30 s |
| Watch history (`core/services/history.rs`, `lib/features/player/data/watch_history_service.dart`) | table `db_watch_history`, the tracker's timer | record, resume, continue watching, next episode | player, core |
| Warm failover (`lib/features/player/data/warm_failover_engine.dart`) | idle/warming/ready, standby player | | nobody constructs it |

What makes them hard, and what makes them correct:

- *Change events.* One Boolean stands for "some thread is in a batch": batches
  overlap, end each other and swallow each other's `BulkDataRefresh`. Correct
  means that every committed change is, in the end, covered by an event.
- *Refresh.* Notices are delayed, merged and thrown away while queries are under
  way. Correct means no provider is left with old rows and nothing to correct it.
- *Bridge.* Connections break with messages in flight, a slow client is lapped by
  the broadcast, queues are full, commands panic. Correct means no change is
  missed for ever, and it is known what becomes of every request.
- *Playlist sync.* A sync fetches for minutes while the provider, the user and
  other syncs go on; only its last transaction is serialised. Correct means the
  catalogue is never a mixture, and favourites outlive a refresh.
- *Guide.* Validators say "not modified" of rows that may have gone since; the
  playlist sync erases what the guide fetch resolved. Correct means nothing of a
  deleted source comes back and a refresh does not blank the guide.
- *Player.* Retry timers, stalls, audio checks and the proxy all end in `open`,
  across awaits. Correct means that what plays is what was asked for.
- *Cloud sync.* Two devices decide from times that are part of the data they
  exchange, and an import is many small transactions. Correct means no sync
  spreads a mixture, and no conflict is invented; a merge must not depend on
  which device does it, nor on how often.
- *Profiles.* Handlers assign lists computed before an await, and every save
  causes a rebuild. Correct means the screen agrees with the table.
- *Transfer queue.* Three operations start the loop without awaiting it, calls to
  the core overtake each other, rows disappear by foreign keys, the process dies
  anywhere. Correct means one transfer at a time, no claim of a transfer that did
  not happen, no task lost or forgotten.
- *Recordings.* Handlers compute a list, await, and assign the old list; every
  write comes back as an event that rebuilds the provider and disposes the
  engine. Correct means what is due is started, what runs is not started again,
  the list agrees with the database when things have come to rest, and a weekly
  recording is scheduled once per broadcast, midnight or not.

`PROJECT.json` lists the hazards of the code at their lines, with the properties
that cover them or the reason why none does yet.

## 2. The modules

| Module | Models | Extends |
|---|---|---|
| `ChangeFeed` | what the event stream promises (abstract) | |
| `ChangeEvents` | the core's commit, emit and batch protocol | instantiates `ChangeFeed` |
| `UiRefresh` | stream, invalidator and providers on top of the core | `ChangeEvents` |
| `WsBridge` | a web client and its handler in the server | |
| `SourceSync` | syncs, catalogue, favourites of all sources | |
| `GuideFetch` | guide fetch, its tables, the lookup | |
| `PlayerSession` | presses, player service, native player | |
| `CloudSync` | devices, Drive, interrupted imports | |
| `CloudMerge` | what a merge makes of two backups | |
| `Profiles` | profile handlers, events, rebuild | |
| `TransferQueue` | transfer service, worker threads and tables | |
| `DvrRecorder` | DVR service, engine, events and rebuild | |
| `RecurringExpansion` | weekly recordings and their instances | |
| `ChangeEvents_proofs`, `UiRefresh_proofs`, `TransferQueue_proofs`, `WsBridge_proofs` | theorems about the module of that name | that module (`UiRefresh_proofs`: also `ChangeEvents_proofs`) |
| `Dvr_proofs` | theorems about recordings | `DvrRecorder`, `RecurringExpansion` |
| `Catalogue_proofs` | theorems about channels and guide | `SourceSync`, `GuideFetch` |
| `CloudSync_proofs` | theorems about backups and their merge | `CloudSync`, `CloudMerge` |
| `Viewer_proofs` | theorems about profiles and player | `Profiles`, `PlayerSession` |
| `MC*` | constants for the model checker | the modules they check |

`MCSideBySide` puts seven modules that share no variable into one run and
`MCBridgeAndSources` two more; nothing couples them there (section 3).

Some modules contain operators whose comment begins with "Mutant": each is a
variant of the operator that follows, as a slip in the code would make it. They
are part of no specification; they serve to confirm that each property can fail.

### ChangeEvents

A thread is at `idle`, in the sync transaction (`tx`, holding `sync_mutex`),
between commit and batch (`committed`), about to read the flag (`emit`), or past
that test and about to call back (`send`): the two mutexes are taken one after
the other, so the flag may change in between. `toEmit` is what the thread still
has to emit. `unannounced` is a history variable: the domains committed since
the last event that covers them. The events of one domain are not told apart
(`emit_per_source` sends one per source). `Commit` is the moment the statement
or the transaction commits; a rolled-back transaction changes and announces
nothing. The callback is taken to be registered (section 6).

### UiRefresh

`out` is the stream between core and isolate. `pending` stands for
`pendingEvents` after deduplication, and the timer is armed while it is not
empty. Domains fall in two classes. `Invalidated` providers are refreshed by
`ref.invalidate`: Riverpod drops the load under way and starts over, so `load`
has one value per domain. `Refetched` domains (VOD and EPG notifiers) are asked
to fetch again, each call runs on to its end, and `fetch` counts the calls that
have yet to read and those that hold fresh or old rows. A commit makes old
whatever was read before. `SettingsUpdated`, `SearchHistoryChanged` and unknown
events refresh nothing and are outside the model; `CloudSyncCompleted` is
handled like `BulkDataRefresh`.

### WsBridge

`link` is what the client believes, `wire` what is true: a cut is seen only when
`OnDone` runs, and what is sent before goes nowhere. `log` is the sequence of changes
broadcast; a handler has a cursor into it and skips what the ring no longer holds.
`toServer`, `queue`, `running`, `outbound`, `toClient` are the places of a command and
of its reply; a refusal and a panicking command are answered without an id, and `lost`
remembers whose answer that was. A reply carries the length of the log it has read,
which is 0 if the command failed (`Failure`): the caller gets an exception, and the
interface, which has used up its notice, does not ask again. `missed` records the
domains whose last read came to nothing in one of these ways, until the next notice of
them. Since `ws_handler` subscribes after the upgrade, a change can fall between
connection and subscription; that the client loads everything on connecting
(`Announced`) is what makes up for it. Commands are reads; that another client writes is
`Emit`.

### SourceSync

A sync (`sync[t]`) goes through the requests of its source's type; each brings
what `Brings` allows: an Xtream list that cannot be fetched counts as empty, and
so does the page of an error sent for a playlist, whose status nobody looks at;
pages of Stalker and episodes of a series fail one by one. `SaveCategories` is a
transaction of its own before `SaveSyncData`, which is one step because of
`sync_mutex`: it updates rows by `(source, native id)`, inserts the others, prunes
what was not listed, and favourites go with their channels.

Ids are modelled because favourites hang on them and because they collide
(`RowId`): a channel, a movie of Xtream or Stalker and a series are parsed with a
new id in each call (`no`), an episode with one made of its series' new id, so that only the
upsert keeps a row what it was; a movie of a playlist has an id made of its
address, so the second of two playlists that list it fails on the primary key.
`fetched` is a history variable, all that calls for a source came to save.

### GuideFetch

One XMLTV address that several sources name. A fetch is asked for with the
validator it found, and goes on through definitions (`bridge`), resolution
(`mapped`) and programmes (`guide`) in separate transactions, between which the
source may be deleted, synced again or its guide cleared. The cooldown and
the validator are settings of the address and outlive the rows. A channel can be
matched by its `tvg-id`, its name or its Xtream id; `LookupIds` is what a
screen asks for. A playlist sync overwrites all of them (`SaveChannelIds`), with
whatever the provider lists now or could be asked for, and sets the mapping to
what the provider's API has or to none. A payload in which nothing is found has
its validators stored like any other.

### PlayerSession

`call[c]` is where a Dart call waits: for the core to resolve a stream, for the
stop of the old one, for the buffer tier, for `open`, or for the proxy. `engine`
executes its queue in order and raises errors, stalls and buffering at any time
(`Troubled`). `Stopping`, `Beginning`, `Failing` and `Playing` are what the
service does between two awaits. The timers (`RetryTimer`, `AudioCheck`,
`BufferingDebounce`) begin calls like a press does: a retry opens the last
address again, a check that finds no audio track starts the ffmpeg proxy.
`overlapped` records that a call began while another one was under way.

### CloudSync

`op[d]` is the step a device's sync is in; each awaits the network or the core.
An export and the search for the file are separate, so two first uploads make
two files. The import is split where an interruption shows: rows, keys, history;
the times of the last sync are among the keys. A merge
is refused by the import, because the merged backup has no `storageBackends`;
therefore it changes nothing here. Favourites and grants are restored before the
sources they refer to and dropped by the foreign keys, as in `backup.rs`; an
empty access list is not exported, so its import changes none. `half` is a history
variable: whether a device was left with half of an import, and if so whether its user
had asked for that import against the times (`against`), by `forceDownload` or in the
answer to a conflict.

### CloudMerge

Two devices held the same, each wrote rows, each exported: `held` are the two
backups. A section is a function from ids to contents, and `MergeBackups` is
`merge_backups` member by member, with `Field` for what `unwrap_or` makes of a
missing one. The history is read by members (`lastWatched`, `positionMs`) that
no export has (`last_watched`, `position_ms`); the model keeps both pairs apart.
Order within a section, and rows without an id, are left out.

### Profiles

`work[h]` is a handler that saves one profile after another and then assigns the
list it computed before. Additions may overlap; the id of each is the time in
milliseconds and new. A save announces `ProfileChanged`; 50 ms later the
invalidator starts a rebuild, which reads the rows and takes the first profile
for the active one. Taken from the runtime: answers of the core come back in the order in which
they were asked for, so a rebuild is assigned after the
handlers whose saves it has read (`build.behind`). `rolledBack` records the one
way in which an older list is assigned later: `switchProfile` waits for the PIN
with the list it had.

### TransferQueue

`phase` is how far `build` has come, which awaits the rows of the tasks, then
those of the backends, and makes what it had read (`rows`) the state; tasks may be
queued all the while. `mem` and `row` are the status of each task in memory and in its row; the
conversions between them are `RowOf` and `FromRow`, which keep what the code
does: Rust stores `in_progress`, Dart knows `inprogress`, and the default turns
an interrupted transfer into a queued one. `calls` holds the database calls
under way. They run in any order, an upsert fails if the recording is gone, and
the answer is taken by the handler that awaits it. `run` is the place of each
invocation of `_processQueue`. `StaleCopy` is the effect of
`_updateTask(task.copyWith(...))` on a `task` picked while queued. Any step of a
transfer may fail. `Restart` loses memory and calls and keeps the rows and the
transfers already made. Pause, Resume and Cancel are offered as
`transfer_list.dart` shows them; a press is later than the answer to the
task's own queueing, which is in the event queue when the task first shows
(`Press`). In a browser (`web`) a transfer returns at once and counts as done
(`SkippedOnWeb`). Uploads belong to recordings: `queueLocalUpload`
cannot store its task (section 7).

### DvrRecorder

A handler that waits for the core is a job with the list it computed before it
waited; `WriteReply` assigns that list, as the code does, except for
`_addRecording`, which reads the list anew. `captures` counts the downloads of a
recording by what can still reach them: `held` by the engine's token, `stray`
once a second start has replaced the token, `bygone` when they belong to the
engine of an earlier build, `cancelled` and `dropped` when cancelled and not yet
reported. A failing capture reports `onError` and `onDone`, so it is marked
failed and completed by two handlers at once. `events` counts the
`RecordingChanged` events on their way: each makes the service look for due
recordings and arms the invalidator's timer, whose expiry (`Invalidate`)
disposes the engine and reloads the list. Directory look-ups and file deletion
are part of the step around them.

Taken from outside the repository: Riverpod keeps the notifier instance across
rebuilds (`late` non-final fields and `_schedulerTimer?.cancel()` in `build`
presuppose it), keeps the previous value while it reloads, and delivers equal
events in a row. Permissions are taken as granted; a write of a recording does
not fail; a window, once begun, does not end.

### RecurringExpansion

Time is counted in hours, a day and a week are small. `Instances` is
`expand_recurring_recordings`; `AddInstance` stores one as the service does, and
`Zone` is what a start loses when it is written in UTC and read as local time.
`copy` tells stored instances of one slot apart. A restart in the middle of an
expansion forgets what had still to be added.

## 3. The runs

| Run | Specification | Bounds | Shows |
|---|---|---|---|
| `change_events` | `FairSpec` | 3 threads, 3 domains of which a sync touches 2, 3 commits | `FlagHasHolder`, `NoChangeForgotten`, and `ImplementsFeed`: the core refines `ChangeFeed`, with its liveness |
| `ui_refresh` | `FairUiSpec` | 2 threads, 2 domains (one of each class), 3 commits | `StaleHasNotice`, `EventuallyFresh` |
| `vod_refresh` | `UiSpec` | same | `StaleFetchHasNotice` fails (section 7) |
| `transfer_queue` | `Spec` | 2 tasks (an upload whose recording may be deleted, a download), 2 loops, 3 presses, 1 restart, in a browser or not | `AtMostOneTransfer`, `CompletedMeansMoved`, `TaskSurvives` |
| `transfer_fair` | `FairSpec` | 2 tasks, no deletion, 2 presses, 1 restart | `QueuedHasLoop`, `QueuedIsServed` |
| `paused_stays_paused` | `Spec` | 2 presses | `PausedStaysPaused` fails (section 7) |
| `dvr_recorder` | `MCFairSpec` | 2 clashing recordings, 3 waiting handlers, 1 event, policy edits | `MemoryCatchesUp`, `DueIsStarted` |
| `no_capture_cut` | `Spec` | 1 streamed recording, no presses | `NoCaptureCut` fails (section 7) |
| `side_by_side` | `MCSpec` | seven parts, one moving at a time, see below | the safety properties of the seven parts |
| `bridge_and_sources` | `MCSpec` | two parts, one moving at a time, see below | those of the two parts, the bridge's `ChangesRead` under `WsFairness` |
| `instances_once` | `ExpansionSpec` | `Zone = 1` | `OncePerSlot` fails outside UTC (section 7) |
| `picked_stays_active` | `ProfilesSpec` | the profiles of `side_by_side` | `PickedStaysActive` fails (section 7) |

`side_by_side` and `bridge_and_sources` are no compositions. The modules in them share
no variable, so a behaviour of their conjunction would show nothing that the behaviours
of one do not; `part` chooses at the start which one moves, the others rest in their
initial states (the web client closed), and the run explores the sum of the
state spaces instead of their product (839,000 and 1.2 million distinct states).
The parts, the first two those of `bridge_and_sources`:

| Part | Bounds | Shows |
|---|---|---|
| `SourceSync` | an Xtream source and 2 playlists with a movie in common, 6 items, 2 syncs at a time and in all, 1 change of an offer | `SourceTypeOK` (foreign and primary keys), `RowsAreOneFetch`, `FavouriteKept` |
| `WsBridge` | 2 domains, 2 requests, a ring and queues of 1, 2 attempts, 2 changes, 1 cut | `RequestsAccounted`, `ChangesOnTheWay`, `ChangesRead` |
| `DvrRecorder` | 1 streamed recording, 3 waiting handlers, 2 events; forced scheduling, stop, remove | `TypeOK`, `CaptureNotScheduled` |
| `GuideFetch` | 2 sources, 1 call at a time, 2 versions, a guide that lists the `tvg-id` and the name | `NoGuideOfDeletedSource`, `ResyncKeepsGuide` |
| `PlayerSession` | 2 streams, one of them live, 2 calls, 1 retry, 2 presses, 2 troubles | `PlayerTypeOK` (retries stay within their limit), `RequestedPlays` |
| `CloudSync` | 2 devices, times 1 and 2 with no tolerance, 4 acts (a change by the user counts two), 1 fault | `HalfImportNotUploaded`, `ConflictOnlyAfterFault` |
| `Profiles` | 3 profiles, one with a PIN, 2 waiting handlers, 4 edits | `ProfilesTypeOK` (none twice), `ScreenShowsRows` |
| `RecurringExpansion` | days of 4 hours, weeks of 2 days, a broadcast over midnight and one by day, 8 hours, 2 deletions, `Zone = 0` | `OncePerSlot`, `WeekIsScheduled` |
| `CloudMerge` | a profile both know and a guest, 2 uses in all, 2 export times | `EitherMergesAlike`, `MergeAgainIsIdle` |

Why these bounds. Two overlapping batches and a write falling into both need three
threads and three commits. In `UiRefresh` two threads and three commits give a write
inside a batch, a change during a load and a further change behind it. Two tasks are
needed for a queue to have somebody waiting, two `Runners` for a second loop to exist at
all; a third press allows pause, resume and cancel of one task. Two recordings are the
fewest whose lists can overwrite each other; three slots hold a user's handler, a look
and the start it causes. `MaxBegun` bounds when a tick or a press begins a handler,
`MaxEvents` how many events are under way, and an event that finds all slots taken makes
no look: the look is one whose call failed, which the code only logs. `PromptAnswers`
says that database answers arrive within the 50 ms of the debounce. With `PromptAnswers
= FALSE` `CaptureNotScheduled` still holds (2.4 million states), but `MemoryCatchesUp`
does not: an answer that arrives after the reload it caused assigns the list computed
before it, and nothing corrects that until the next event. The bounds are constants,
each named in its module.

In `SourceSync`, two syncs overlap, of one source or of two; two playlists are the
fewest that can clash, and the Xtream source has a series and an episode of one number,
which share a row. No Stalker source is instantiated: its three requests are steps of
the same actions, and that they fail page by page is what the episodes of Xtream do. Two
profiles being added at once need a third that is there to begin with. A ring of 1 is overrun by
2 changes and a queue of 1 is full with 2 requests; a second cut would only repeat the
first. A retry limit of 1 of the player is reached by 2 troubles, and 2 presses are the
fewest of which one can supersede the other. In `CloudSync` it takes 4 acts and a fault
until a sync reports a conflict; with 3 none ever does. The theorems of section 4 hold
for every tolerance. Two rows written on either device make every pair of sections and
both contents of one id; a third would only repeat them. Eight hours are a whole week.
Symmetry of threads, loops or slots is used in safety runs only; tasks and domains are
not symmetric. The two recordings of `dvr_recorder` are alike, and `MCFairSpec` has the
first of them scheduled first: any other behaviour is the mirror image of one of these.

`CHECK_DEADLOCK FALSE` stands where the system may rest: no task left and no
press to come, or a recording finished and nothing scheduled. In `side_by_side` and
`bridge_and_sources` the bounds of the moving part are used up, or the web client was closed.

Deliberately narrow: `transfer_fair` deletes no recording, because the loop then ends on
an exception and `QueuedHasLoop` is false; the recorder's part of `side_by_side` has no
policy edits, because an edit that overlaps a start writes "scheduled" back and
`CaptureNotScheduled` is false. Both are listed as hazards and in section 7.
`RequestedPlays` speaks only of behaviours in which no press or timer began a call while
another one was under way (`overlapped`): otherwise the code lets the earlier call win.
`CompletedMeansMoved` speaks of devices outside a browser, where the code breaks it
(section 7). `ChangesOnTheWay` and `ChangesRead` except a domain whose last read failed
or was refused (`missed`). `ResyncKeepsGuide` presupposes that the sync leaves the
channel one of the ids its guide was found by; a sync that does not loses the guide.
`HalfImportNotUploaded` presupposes that Drive holds one backup file, and excepts an
upload its user forces and the import its user had asked for against the times: after
that one the code does upload the mixture (section 7). `ScreenShowsRows` excepts a
switch that waited for its PIN (`rolledBack`). `EitherMergesAlike` compares what
`merge.rs` says two devices should agree on (`Agreed`): a profile's fields, an order and
the times of the syncs are each device's own, and of the history, read by members no
export has, only the ids are the same. Export times differ; with equal ones both take
the other's. `GuideFetch` has one call at a time: with two (`Fetchers` of two) the
properties still hold, and the proofs cover any number.

### Fairness

- `ChangeEvents`, `UiRefresh`: a thread finishes the call it is in (the OS runs
  it); the isolate takes its events, fires its timer and gets answers. Nobody
  has to write. The timer needs only weak fairness because commits are bounded:
  an endless burst of events could postpone the 50 ms for ever in the code too.
- `TransferQueue`: calls are answered and the loop moves, a transfer being
  moved ends or fails (progress reports alone are not enough), a killed app is
  started again and `build` gets its answers (`ReadRows`, `Load`). No press is assumed.
- `DvrRecorder`: calls are answered, events taken, loads end. Strong fairness of
  `Tick` and `Invalidate` says that the 30 s timer is not missed for ever because
  of rebuilds that come and go, and that quiet periods of 50 ms recur. The user
  does not edit policies for ever. Windows and captures need not end.
- `WsBridge` (`WsFairness`): each step of the client's event loop and of the
  server's tasks that stays possible is taken, a client that is down goes on
  trying (a timer of `_reconnect`), and the interface asks for what it was told
  to (`UiRefresh` is the model of that), whatever else it asks. Nothing is
  assumed of cuts, of other clients or of a connection succeeding.
- `SourceSync` and the parts of `side_by_side` are checked for safety only.

## 4. What is proved

TLAPS proves the following for every value of the constants that satisfies the
`ASSUME` of the module (domains do not contain the bulk event; `SyncEvents` is a
sequence of domains; bounds are naturals; loop names are not handler names;
capacities are positive; and the like). Each proof goes the same way: an
inductive invariant, one lemma per action or group of actions, the invariant
implies the property.

`ChangeEvents_proofs`
- `TypeCorrect`, `FlagIsHeld`, `NothingForgotten`:
  `TypeOK`, `FlagHasHolder` and `NoChangeForgotten` hold in every reachable
  state. None is inductive by itself. The strengthening `Shaped` adds
  `ThreadShape`, what each place of a thread implies: only a thread at `emit` or
  `send` has events left, a thread in a batch is at one of these, `send` always
  has an event to send. `FlagHasHolder` is needed for `NoChangeForgotten`: an
  event is dropped only if the flag is set, the flag has a holder, and the holder
  owes a `BulkDataRefresh` which covers the domain. The step proof goes thread by
  thread: those that do not move keep covering what they covered
  (`OthersKeepCovering`), and the one that moves either keeps covering it, sends
  it, or leaves it to a holder (`MoverKeepsCovering`).
- `RefinesFeed`: with `dirty <- unannounced` and `feed <- out`, the initial state
  maps to an initial state and every step to `Change`, `Announce` or a stutter.

`UiRefresh_proofs`
- `UiTypeCorrect`: `UiTyped` adds the threads' shape and the flag's holder, which
  the core's steps need.
- `NoScreenForgotten`: if a bulk event refreshes every
  invalidated domain (`BulkReachesAll`), `UiSpec` implies `[]StaleHasNotice`.
  The notice is carried hand over hand: by a thread (`NothingForgotten`'s
  argument), by the stream, by `pending`, by a load. The assumption is not idle:
  `_invalidateAllDataProviders` leaves out `favoriteCategoriesProvider`.

`WsBridge_proofs`
- `BridgeTypeCorrect`, `EveryRequestAccounted`: `BridgeInv` says that a request is
  in one place at a time (`OnePlace`), that nothing is in flight without a
  connection, and that the client waits for exactly what is somewhere or has
  lost its id (`Waited`). Without `OnePlace` a reply taken from one queue might
  leave a twin in another.
- `NoChangeMissed`: `ChangesOnTheWay`. Its strengthening drops the condition on the
  client's belief and adds `AskedBeforeSubscribed`: until the server has subscribed,
  every domain is still to be asked for or its request unread. That is why the gap
  between connection and subscription loses nothing. A request that nobody will answer
  is not on the way: such a domain is in `missed`, the exception in the property, until
  it is announced again.

`Catalogue_proofs`, the channels
- `SourceTypeCorrect`, `CatalogueIsOneFetch`, `FavouritesSurvive`, from one invariant
  (`SourceInv`): rows have an id a call of their source or, for a movie of a playlist,
  its address gives (`RowShape`), two rows of a source differ in their native ids, no
  two rows share an id, and a call under way has a number that no other call and no row
  has. The last is what makes the ids of one call differ from those of all rows, save
  for the movies of playlists, where `IdTaken` lets the transaction fail. `Commits`
  states what a transaction that does not fail leaves; the action property follows,
  because the upsert keeps the id of the row that was there.

`Catalogue_proofs`, the guide
- `GuideTypeCorrect`, `NothingOfDeletedSource`, `GuideSurvivesResync`: a guide is found
  by the ids the channel has, whatever it is mapped to, but the name is looked up only
  as long as the source has no definitions; the last theorem needs to know that a
  channel mapped by name has definitions (`NameNeedsBridge`), and that a sync leaves
  them.

`CloudSync_proofs`
- `CloudTypeCorrect`: databases, backups and files refer to what they hold, and
  no time is ahead of the clock.
- `OnlyFaultsConflict`: as long as nothing was interrupted, the time of local
  changes equals that of the last sync in every file, backup and device,
  whichever of the two an import has already written (`TimesAgree`); a conflict
  needs them to differ.
- `HalfNeverUploaded`: `HalfInv` compares a device that holds half an import with the
  file in Drive (`HalfSafe`): the local changes it was left with are not noticeably
  (more than the tolerance) later than the file, because their time is the one it had
  when it began, or one some device had when it made the file. It began with no later
  one, unless its user had asked for the import against the times, which is the
  exception. Files only get newer, so its next sync downloads again or does nothing. The
  property speaks of the states in which Drive has one file, and the invariant must hold
  on to the others (`FilesInOrder`).
- `EitherDeviceMergesAlike`, `MergingAgainIsIdle`: about `MergeSpec`, from the
  shape of what is exported (`MergeTyped`) and, per kind of section, a lemma that
  merging absorbs what was merged already (`ListsAbsorb`, `ProfilesAbsorb`,
  `SettingsAbsorb`, `ByIdAbsorbs`, `HistoryAbsorbs`).

`TransferQueue_proofs`
- `TypeCorrect`: besides the types, a loop past its scan has a task in hand.
- `OneTransferAtATime`: two loops that are
  not idle are the same, and `processing` is set while any is not idle.
- `NothingClaimed` (`CompletedMeansMoved`, of a device outside a browser): `Honest`
  extends the claim to what is about to make it, a loop past the transfer and a call
  that writes "completed".
- `NoTaskLost` (`TaskSurvives`): `Kept` says what each kind of call may look like
  and that nothing but queueing is under way while the app is not loaded; what `build`
  has read of a row is still true when it becomes the state, because only a cancel
  deletes rows (`RowsStillThere`).
- `QueuedIsAttended` (`QueuedHasLoop`): under the assumption that no recording is deleted
  (`MayLose = {}`), the one under which `transfer_fair` checks it.

`Dvr_proofs`, recordings
- `RecordingsTyped`: `TypeOK` is inductive once `Place` is known to give each
  new handler a slot of its own (`Placed`).
- `CaptureNeverScheduled`: if policies are not edited, `CaptureNotScheduled`,
  whether or not the core is prompt. A handler writes the status it computed
  when it began, so `CaptureInv` follows a recording through every list that might be
  written back: until its row is written nobody knows it and one handler adds it
  (`AskedOnce`, `FreshUntouched`), afterwards no handler that changes a status
  writes "scheduled" (`JobsShaped`, `WrittenNotScheduled`). The hypothesis is
  needed: an edit of a policy writes the record as memory had it (section 7).
- `MemoryAlwaysCatchesUp`: if answers come within the debounce
  (`PromptAnswers`), `MemoryCatchesUp`. A write that is done has its event on its way
  (`AnswersAnnounced`), and a load that has read rows is up to date or will be followed by
  another (`ReadOrReloaded`). Without the hypothesis it is false, as section 3 says.

`Dvr_proofs`, recurring recordings
- `InstancesOnceInUtc`: if `Zone = 0`, `OncePerSlot`; what an expansion has still
  to add is neither stored nor twice in it (`ComingIsNew`). The condition is the
  bug of section 7.
- `WeekScheduledInUtc`: if `Zone = 0` and no recording lasts longer than a day,
  `WeekIsScheduled`. `WeekOnItsWay`: between an expansion and the next one the week's
  broadcasts are stored or being added. The arithmetic is that of one midnight
  (`OneMidnight`): with days of any length, an end whose time of day is not after the
  start's belongs to the next day. The core has no more than the two times of day to
  compute an end from, so a recording longer than a day gets a shorter instance.

`Viewer_proofs`, profiles
- `NoProfileTwice` (`ProfilesTypeOK`): that the screen has no id twice needs more
  than types, because `addProfile` appends to whatever is shown when its answer
  comes. `OnceInv`: a profile being added is on no list that may come to the
  screen before `addProfile` returns, except the one read after its row was
  saved, and that build waits for it (`build.behind`).
- `ScreenFollowsRows` (`ScreenShowsRows`): `Follows` says where the latest change of the
  rows is: announced, about to be read, read by a build that waits for the handlers
  which would overwrite it, or shown. The exception, `rolledBack`, is part of the
  property.

`Viewer_proofs`, the player
- `PlayerTypes` (`PlayerTypeOK`).
- `LastRequestPlays` (`RequestedPlays`): as long as no call overlapped another, either
  nothing is under way and the native player has what was requested (`AtRest`), or one
  call is alone and `Serves` the last request: what it has told the native player, what it
  will tell it, and the address from which a retry would start all name the same stream.

Every invariant and action property that a passing run checks is the conclusion
of one of these theorems. Only model-checked: liveness (`ImplementsFeed`'s leads-to,
`EventuallyFresh`, `QueuedIsServed`, `DueIsStarted`, `ChangesRead`), which needs
fairness and `ENABLED`, both beyond the prover. The disagreements of section 7 are
counterexamples of TLC and need no proof.

## 5. Plan

Done: the modules of section 2 and the proofs of section 4. Open, in this order:

1. Storage backends inside the transfer queue (deletion, default target, "Storage backend
   not found") and the automatic upload that connects `DvrRecorder`
   to `TransferQueue`.
2. The end of a recording's window, in `DvrRecorder`.
3. Watch progress: the tracker across session changes, resuming, the next episode.
4. Two web clients, and `WsBridge` shown to implement `ChangeFeed` while its
   connection holds.
5. Theorems that go beyond the runs' invariants: the safety half of item 4, and
   `UiRefresh`'s screens as a second implementation of a feed.

## 6. Not modelled, and why

- SQL text, prune markers, encryption, WAL checkpoint: one transaction that
  commits or does not.
- Start-up of the native app before Dart subscribes: events of that window go nowhere.
- Warm failover: no code constructs a `WarmFailoverEngine`, so `PlayerService`
  never has one.
- The EPG facade with its memory, table and network levels: no caller in the application.
- Services with no caller (`offline_outbox`, `reconnect_manager`,
  `playback_watchdog`, `crash_recovery`, `circuit_breaker`, `retry_queue`).
- HTTP retry and backoff: its callers see success or failure, which the fetches
  of `SourceSync` and `GuideFetch` have. Migrations run once, before anything.
- Watch history beyond the row (`CloudMerge`) and the player beyond its session
  (seeking, tracks, sleep timer, media session); PIN hashing and rate limits;
  per-channel guides of Xtream and Stalker; media servers.
- Parsers, normalisation, search, sorting (most of the Rust code by volume): text and
  large data, pure, with unit tests beside them.
- Generated bindings, screens and widgets, multi-view, except the conditions under
  which a button is offered.

## 7. Where code and words disagree

Shown by runs:

- `vod_refresh`: two `refreshFromBackend` calls under way are answered in either
  order and the last answer is kept, so the list can stay older than the change
  it was asked to show.
- `paused_stays_paused`: a progress report puts a paused (or active) task back to
  queued, because it installs a copy made when the task was picked.
- `no_capture_cut`: the event that announces the start of a recording rebuilds
  the provider, whose disposal cancels the capture just begun.
- `instances_once`: the start of an instance is written in UTC and read as local
  time, so outside UTC the next look, 30 s later, finds no instance and adds all of them again.
- `picked_stays_active`: every save of a profile and every playlist sync builds
  the provider again, and `build` makes the first profile the active one.

Reached by the same models, without a run of their own:

- One capture per recording: the timer's look and an event's look can both start
  it; the first token is overwritten and that download cannot be stopped.
- A failed capture is also reported as done, so the recording may end as
  completed (`dvr_capture_helper.dart:62-67`).
- Two clashing programmes scheduled in quick succession are both accepted:
  `scheduleRecording` asks about the list it had before the await.
- The error of a capture cancelled by `removeRecording` upserts the row again.
- A policy edit overlapping a start writes "scheduled" back.
- A save sent by the loop before a cancel may run after the delete: the row is
  back and the transfer is queued again at the next start.
- A deleted recording makes the loop's own save fail; tasks behind it wait for
  the next press or start.

- A press of play or a timer that overlaps another call: the earlier one may win,
  and a second `startPlayback` while the first is pending plays neither.
- A request that was refused or whose command panicked waits as long as the
  connection lasts; after ten failed attempts nobody reconnects.
- A read that was refused or failed is not repeated before the next notice of its
  domain, so a change may stay unread as long as nothing else changes there.
- In a browser every transfer is marked completed with nothing moved
  (`transfer_service.dart:302`, 357).
- A task queued while `build` waits for the backends is in the database and not in the
  list: it is neither shown nor served before the next start.
- A list of Xtream that could not be fetched empties that part of the catalogue,
  favourites included; so does an error page sent for a playlist (the status of the
  response is not looked at).
- A movie that two playlists list has one id in both (`parsers/vod.rs:472`): every
  sync of the second playlist fails on the primary key.
- A playlist sync that changes all ids a channel's guide was found by loses that
  guide until the next fetch; Xtream's `tvg_id` goes whenever the playlist it is taken from
  cannot be fetched (`xtream_sync.rs:388`, 453).
- A forced guide refresh answered "not modified" leaves an empty guide empty
  after the entries were cleared; a payload in which nothing was found is stored
  as seen, so the guide stays empty until the provider publishes again.
- An import the user forced, or chose in a conflict, while the device was ahead of the
  file: killed half way, it leaves the device ahead, and the next sync uploads the mixture.
- An access list that was emptied is never restored as empty: the export omits it.
- A download into a fresh device drops favourites and grants (`backup.rs` restores
  them before the sources); the merged backup is refused by the import; two
  first uploads make two files; local changes that were not uploaded are
  overwritten, since `markLocalModified` has no caller.
- Two role changes that overlap may leave no admin; a new order of profiles is lost at
  the next load (`profile_service.dart:356-358`).
- A removed instance of a recurring recording comes back at the next tick.

Read in the code:

- `queueLocalUpload` saves a task whose `recording_id` is null,
  which the core's `TransferTask` does not accept, so it always fails.
  `favoriteCategoriesProvider` is not refreshed by bulk events; the template of a
  recurring recording is expanded into a duplicate of its own first slot, and
  instances are added without a look at conflicts.
- `DataChangeEvent.fromJson` (`data_change_event.dart:14-59`) knows no
  `SourceChanged`, `SourceDeleted`, `WatchlistUpdated`, `StorageBackendChanged`,
  `TransferTaskChanged`, `BookmarkChanged` or `SmartGroupChanged`: they become
  `UnknownEvent` and refresh nothing.
- `merge_watch_history` documents "later lastWatched + max position"
  (`merge.rs:31`), but the entries it gets have `last_watched` and
  `position_ms`: the cloud's entry always wins. "Newer backup" is the time of the
  export, which the local one has just had. `SYNC_META_KEYS` "must never be overwritten by
  remote data" (`merge.rs:10-13`), and a download overwrites them.
- `ServiceContext::with_keyring` ("Use this constructor in production") is called
  by tests only, so credentials are stored as given.
- `pin_version` is not exported, so a restored PIN is hashed a second time.
- Watch progress: the tracker of a new session reads the old stream's last
  position; a history row deleted while it runs comes back; its key has no
  profile (`history.rs`); continue watching drops finished episodes before the next one is
  looked for; `findNextEpisode` compares episode numbers across seasons; the
  counter of automatic advances is not reset by a manual pick, although
  `playback_progress_provider.dart:45-46` says so.
- `get_series_info` and `get_vod_info` are asked with the row id of the series or movie, a new
  UUID, not with the number the provider knows: stripping "series_" or "vod_" from it
  (`xtream_sync.rs:488`, 531) does nothing.
- `setDefaultBackend` writes a list it read earlier: a deleted backend comes back.
- `clear_all` deletes recordings, profiles and settings as well.
