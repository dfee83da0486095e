# Specifications of gphoto2immich

gphoto2immich is a daemon that waits for a camera on USB, downloads what its
card holds that the Immich server does not, uploads it, and joins the JPEG and
the RAF of one photo in a stack. This directory holds TLA+ modules translated
from its source (`src/*.rs`), TLC configurations that check them on small
instances, and proofs checked by TLAPS.

## 1. The system

Two tokio tasks, a bounded channel between them, and a server.

| part | state it keeps | operations | talks to |
|---|---|---|---|
| camera loop, `camera/mod.rs` | `already_synced`, `notified_for`, the shutdown flag it reads | poll, open, run a session, barrier, take the count, back off | libgphoto2, session, pipeline (channel and oneshot), popups |
| session, `camera/session.rs` | list of files, run of failures, snapshot, cutoff | enumerate, filter by cutoff, look up, download, emit | camera, cache, channel |
| asset cache, `immich/cache.rs`, `search.rs` | map name -> (time, id), newest time | load page by page, `find_existing`, `max_taken_at` | server |
| pipeline, `pipeline.rs`, `job.rs` | set of running tasks, shared tracker and counter | receive, spawn, upload with retries, consider a stack, drain | channel, server, tracker, counter |
| pair tracker, `stack_tracker.rs` | map basename -> (JPEG id, RAF id) | `observe` | called by tasks under a mutex |
| requests, `immich/upload.rs`, `stack.rs`, `mod.rs` | none | upload, has-stack, create-stack | server |
| counter and popups, `notifications.rs` | one atomic counter | count, take, show | both tasks |
| process, `main.rs` and the systemd unit | shutdown flag, exit status | start, await both tasks, signals, restart | all |

What is hard in it:

* **Concurrency.** One task per message with no order between them; the two
  halves of a pair race to the tracker; check-then-create on the server.
* **Failure.** Requests are refused, time out while the server still works on
  them, or are served and the answer lost; sessions end half way; the camera
  is pulled at any step.
* **Ordering.** The barrier and the count, sessions one after the other over
  one tracker, the cutoff against the order of the walk.
* **Crash and restart.** The process keeps nothing on disk; a panic or an error
  of the camera task, a kill, or a signal before its handler is set ends it, and
  the next process learns what was done from the server alone.
* **Timeouts and liveness.** Four attempts, 60 s per request, a camera task
  that waits for the pipeline and a pipeline that waits for its tasks.

What makes each part correct:

* pipeline: every accepted message settles; a barrier is answered and `run()`
  returns only when nothing is pending; the count claims nothing untrue;
* tracker: a pair is handed over exactly once whichever half is last, the ids
  in their slots, and the table keeps nothing but unpaired halves;
* stacks: JPEG and RAF of one name, each JPEG once;
* camera loop: popups and syncs once per plug-in cycle, a failed session tried
  again, a new camera tried, a signal obeyed;
* process: it exits with nothing pending, never outlives its camera task, obeys a
  stop wherever that finds it;
* session and cache: after a session without trouble the server has every photo
  of the card that no earlier trouble left behind; no photo passes for another;
  the snapshot misses nothing; every session ends.

The hazards these come from are listed line by line in `PROJECT.json`.

## 2. Modules

| module | models | role |
|---|---|---|
| `StackTracker` | `stack_tracker.rs` | operators: the table is a function from the basenames it holds to entries |
| `SessionBarrier` | what the camera task may rely on | abstract specification: jobs accepted and settled, a barrier answered when none is pending |
| `Pipeline` | `pipeline.rs` with its requests, the channel, the server | detailed specification, implements `SessionBarrier` |
| `MCPipeline` | | values for TLC: photo X as JPEG and RAF, sent twice, and a clip |
| `CameraLoop` | `camera/mod.rs` | the outer loop, with the user and the signal handler |
| `Daemon` | `main.rs`, the systemd unit | the process: `CameraLoop` and `SessionBarrier` composed, with start, exit, signals, crashes and restarts |
| `FileName` | `camera/object_info.rs`, `is_real_asset_name` | operators: what a file's name says of it |
| `ImmichCache` | `immich/cache.rs`, `immich/search.rs` | operators: the scope by make, a page of the search, what the snapshot keeps of it, the lookup, the cutoff |
| `CardSync` | `camera/session.rs` with the cache, the card and the library | sessions of one camera, one after another |
| `MCCardSync` | | values for TLC: two folders, a wrapped numbering, a hidden file, a sound note, two earlier assets of the make, a phone's photo |
| `PipelineProofs`, `PipelineCountProofs`, `PipelinePairProofs`, `PipelineStackProofs`, `CameraLoopProofs`, `DaemonProofs`, `ImmichCacheProofs`, `CardSyncProofs` | | theorems and proofs |

### Pipeline

A *job* is one `Upload` or `KnownAsset` message and the task spawned for it;
`task[j].pc` says where it stands:

    idle -> queued -> posting -> answered -> observing -> checking -> stacking -> done
                         ^----------'            (KnownAsset enters at observing)

and `failed` or `panicked` where the code returns an error or panics (a long error
body may come from a proxy, so it panics the task before, while or after the server
does what was asked). `chan` is
the mpsc channel, `mode` the receive loop, `cam` the camera task reduced to its
use of the channel: messages of a session, a barrier, the count, the next
session, the drop of the sender. A step of a task is what the code does between
two awaits. A POST is two steps, `Serve` on the server and `Receive` or
`FailAttempt` at the client, so that answers can be lost; a request the client
has given up on stays in `late` and may be served at any later time, or never.
`ObserveAsset` is one step because the tracker is locked around it. `sent` and
`created` are history for the properties and guide no step except `MaySend`, which
stands for the card: the walk meets each file once, and where `CardRepeats` is FALSE
one file per name and kind. The code has no such guard.

Taken as given of the server, which is not part of this repository: it keeps
one asset per checksum, and it answers a POST of what it holds with 200 or with
the status "duplicate", of anything else with 201.

Left out: times (backoff and timeout lengths), formatting, logging, the
temporary file.

### SessionBarrier and the refinement

`Promise` in `Pipeline` instantiates `SessionBarrier` with `pending` the queued
and running jobs, `settled` the ended ones and `phase` read off `cam` and
`mode`. `KeepsPromise` is its full specification, fairness included.

### CameraLoop

`loop` is the place in the loop body, `port`, `first`, `alreadySynced` and
`notifiedFor` are the code's variables; `plugged` is the world. Between any two
steps the user may plug a camera in or out and the signal may arrive. A session
is one step with a free outcome, the barrier belongs to `SettleOk` and
`SettleError`. `cycle` is history: what happened since the loop last saw the
camera change; `afterEmpty` says whether the cycle began after a poll that
found no camera. A camera is known by its port, as in the code, and one is
plugged in at a time.

### Daemon

`Daemon` extends `CameraLoop` and instantiates `SessionBarrier` for the pipeline
task, so a step of the camera task is one of `CameraLoop` joined to what it does
to the channel: `Watch` (nothing), `SendJob`, `AskBarrier` (`EndSession` and the
barrier), `Settle` (the ack, then `SettleOk` or `SettleError`). That the pipeline
task is no more than `SessionBarrier` is what `KeepsPromise` shows of `Pipeline`.

`process` is starting, running or how it ended: exited with status 0, failed with
status 1, stopped by a signal it did not handle, killed. `camera` tells whether
the camera task still waits for libgphoto2's context, runs, failed or panicked;
it has returned when `loop` is "exited". When it is gone its sender is dropped
(`DropSender`), the pipeline finishes, and `Return` awaits both. `handler` is the
signal handler, a task of its own that may come late or be refused by the system:
a signal before it ends the process, the first one after it raises the flag, more
of them do nothing. `Restart` is systemd's `Restart=on-failure`: after status 1
or a kill, unless a stop was asked for. A new process starts from the initial
values of everything but the camera that is plugged in. Hands may move at any
step, also while no process runs.

`SessionPanics` may happen at any point of a session; the place known for it is
the search at its start, where `truncate` cuts the error body. Each process may
send one message per member of `Job`.

### ImmichCache and CardSync

`ImmichCache` has no state: a page is the assets of a range of ranks, `Absorb`
adds a page to the snapshot, `FindExisting` and `BeforeCutoff` read it. The
snapshot is a set: the order of assets within one name would matter only if two
of them lay in the window of one photo, and then any may answer in the model.

`CardSync` follows `session::run`: `scoped` is whether `detect_camera_make` found
a make (either may happen in any session), `phase` is listing, loading, walking,
draining (the barrier is asked) or synced (held until unplugged); `folders` and
`files` are the stack and the list of `enumerate_files`; each page of the
snapshot is a step, and so is each file of the walk. A listing may fail and
count as empty, a file may fail, the walk may be given up or broken off by the
shutdown flag, a load may fail, the process may be killed at any step. The
pipeline is reduced to `SessionBarrier`'s promise: an upload settles (`Land`,
`Lose`) before the barrier is answered; one that was given up or cut off may
still land later. A camera in tether mode goes on shooting, so `Shoot` may come at any
step but one: not while the card is listed, which is over in less than the slop, so that
what is shot meanwhile is as good as shot before or after. The daemon does not watch for
shots (the repository's README, 88 and 201): such a photo waits for the next session.
`held`, `trouble`, `seen` and `left` are history: `seen` is the card as this session
listed it, `left` collects what of it was not on the server when a session was killed in
its walk or barrier, or when a camera was unplugged after a session with trouble or
without a make.

What `CardSync` takes as given, each a named assumption on its constants that TLC
evaluates for the instances, or a guard of an action:

* the card (`CardAssumption`, `TreeAssumption`): the walk from the root comes to
  every file. The camera's clock never runs backwards (`Shoot`) and the card is
  not erased;
* the server's times (`DriftAssumption`): Immich rewrites an asset's time from EXIF
  (`cache.rs` 22-25), so it differs from the camera's by one of `Drifts`, none of
  which puts it later by more than the slop, and none of which is larger than the
  window, in either direction (`WindowAssumption`: what `TAKEN_AT_WINDOW` is for);
* the numbering (`NamesAssumption`): a camera comes round to a name only after `Round`,
  which window and drift together do not reach. The assets of its make that were on the
  server before are photos of the same single body, under the same rule. Of devices of
  other makes nothing is assumed: their assets may have any name and any time;
* the library (`LibraryAssumption`): those assets of the make are older than the card's
  photos; those of other makes may be newer;
* the search (`SeniorityAssumption`): ties of its order are broken the same way on
  each page.

No asset is ever deleted from the server in the model. A deletion while the pages are
read could hide an asset from the snapshot, and one between sessions leaves a photo that
the cutoff skips, which the repository's README (188-194) lists as a known limitation;
`CleanSessionLeavesNothing` does not speak of such photos.

## 3. Runs

| run | instance | shows |
|---|---|---|
| `pipeline_sessions` | j1, r1, j2, r2: one photo's JPEG and RAF, twice; capacity 1, one attempt; no repeats in a session | the barrier drains all; the table holds halves; stacks join namesakes; one task per JPEG; one stack per JPEG; each pair handed over once; what ended well is on the server |
| `pipeline_retries` | j1, r1; capacity 2, three attempts | types, with no attempt beyond the last; no upload given up before it (`GivenUpAfterAllAttempts`); the count never exceeds what the server created; and `KeepsPromise`: refinement with liveness |
| `daemon` | two ports, one message per process | popups and syncs once per cycle; nothing pending at exit (`ExitDrains`) or between sessions (`IdleIsDrained`); `StopEnds`; `EndsWithCameraTask`; `PluggedIsTried` |
| `card_sync` | a1, b in one folder, a2 (same name as a1) in the other; on the server an asset of another make, newer and with the name and about the time of a2, and later perhaps one of the make, a round older or without a time; pages of two, drift of 1 or -3, slop 1, window 3, round 7, two failures | a clean session with the make leaves no photo behind that it listed; a photo taken for known is known; the snapshot is complete although the library grows while it is read; what it holds is not downloaded again; types |
| `card_sync_ends` | one photo, a hidden file, a sound note; pages of one | `SessionEnds`: no session stays in the listing, the paging, the walk or the barrier |
| `cutoff_skips` | as `card_sync`, nothing on the server | violated: photos that never arrived are skipped for the cutoff |
| `count_exact` | j1, m; two attempts | violated: a lost answer makes the count fall short |
| `retries_first` | j1, m; two attempts | violated: a panic on an error body skips the retries |
| `pairs_in_session` | j1, r1; one attempt | violated: halves survive their session |
| `announced` | two ports | violated: a session with no popup after a quick replug |
| `unscoped` | as `card_sync` | violated: without a make a phone's photo makes a clean session skip the card |
| `no_restart` | one port | violated: a failed camera task ends the daemon with status 0, for good |

The last seven check what a comment, the unit or the README says; section 5 explains them.

**Why these bounds.** Two files of one basename are what it takes for a race in
the tracker, and a second copy of both for the next session to meet leftovers
of the first or stack again what is stacked. One slot makes the camera task wait on
every send; two let a session's messages and a barrier queue up. Two attempts
are the least with a retry, three the least with a retry that is neither first
nor last. The initial library is any subset of the checksums, so each file is
met both new and known. Two ports are the least for one camera to replace
another, and one message per process is enough for the barrier, the exit and a
panic to find the pipeline busy or idle; cycles, sessions and processes are not
counted. In the four-job run the photos of both sessions have equal contents:
`EveryPairHandedOnce` compares ids, and a different photo of the same name in a
later session could be paired with a leftover half of the first (the hazard on
repeated names, section 6). The four jobs have one basename, so TLC cannot see a stack
across two basenames; that half of `StacksPairNamesakes` rests on its theorem.
`OnePopupPerCycle` and `OneSyncPerCycle` count within a process: a restart begins a new
history, and the camera that is still plugged in is announced and synced once more.

For `CardSync`, three photos are what it takes for a newest one on the server,
one at the same time that is shot after a sync (the case the slop is for) and one
of a repeated name; with another device's asset the library in scope has four
(five without a make), so it spans two full pages and shifts while it is paged, and on a server that names a
next page after the last one an empty third is read. A limit of two failures
separates one failure, the limit, and a run cut by a success. A drift either way
lets two photos of one moment change order on the server. The drift of 1 is the slop, and
that of -3 the window: a photo's own asset then stands on the window's inclusive edge
(where `<` in place of `<=` downloads it again), and the asset of a2, drifted by -3, is
one step outside the window of a1, its namesake. Sessions are not counted: any number
follow one another.

**Fairness.** `Pipeline`: weak fairness of the receive loop, because it is a
tokio task and its steps stay enabled, and of each task, because each await in
it ends: every request has the client's 60 s timeout
(`immich/mod.rs` 41), sleeps are finite and the mutex is never held across an
await. The server and the camera task owe nothing: `FailAttempt` is always
possible while a request is open, and that is what time-outs give. `CameraLoop`:
weak fairness of the loop as a whole; listing and opening are strongly fair,
which says that libgphoto2 does not refuse a camera for ever. `EndSession` under
weak fairness stands on finite cards and timeouts at the server, and on
libgphoto2 calls that return. The user and the signal owe nothing.
`Daemon`: the same for the camera task; weak fairness of the handler's task, of
each step of the pipeline (the liveness half of `KeepsPromise`), of `main`'s start
and return, and of systemd's restart. Kills, signals, hands, messages sent and
panics owe nothing.
`CardSync`: weak fairness of the session's own steps and of the pipeline's
settling, on the same grounds; nothing makes a load fail, a signal arrive, a
kill happen or a late request land, so no session ends by these alone.

## 4. Proofs

All theorems hold for every set of jobs, capacity, attempt limit, card and
server behaviour the module allows; the assumptions are those of `Pipeline`
(`PipelineAssumption`: finite jobs, positive limits), of `StackTracker` and
`CameraLoop` (the value for None is not an id or port), and of `CardSync`
(section 2). `DaemonProofs` needs no other.

* `TypeCorrect` (both specifications).
* `BarrierDrainsAll`. The property says nothing of the channel while the camera
  task waits, so it is not inductive. `BarrierInv` is: `ChannelInv` (each queued
  job is in the channel once, a barrier only in last place) and `LoopInv` (the
  loop drains only for a camera task that waits and with an empty channel).
* `ImplementsBarrier`: `Spec => Promise!Safety`, one lemma per kind of step, over
  `BarrierInv`.
* `CountNeverExceeds`. `CountInv` names the tasks counted: each made an asset of
  its own among `created`, and `stats` is their number; so the count is the
  cardinality of a set that maps injectively into `created`.
* `StacksJoinNamesakes`, `TableKeepsHalves`. `PairInv`: every id in a task, the
  table, a pair or a stack is filed under its own basename and in its slot.
* `IdsAlwaysStored`. `StoredInv`: an id reaches a task, the table, a pair or a stack
  only after the server has its asset, which it does before it answers a POST and
  before the search can return it. This is what lets `CardSync` say that an upload
  that settled well (`Land`) is in the library.
* `OneAlwaysHanded`, where no card holds one basename and kind twice (`~CardRepeats`).
  "Never two": `HandedInv`, who was handed a pair left no half of its own kind behind,
  so its partner cannot complete a second pair in the session; the barrier keeps
  sessions apart. "Never none": `WaitInv`, a half that was observed waits in the table
  until a task of its basename is handed a pair; two halves cannot both wait, because
  the table holds half pairs only. A leftover half of an earlier session does no harm
  to this: it is replaced by the new half of its kind, or completes a pair with the
  other one, and then the new half of its kind waits in its place.
* `PairsAlwaysHanded` says in addition that the pair handed over consists of the two
  halves observed in the session. That needs `SamePhotos`, that a name and kind mean
  one photo in all sessions of the process: without it the leftover half belongs to a
  different photo, which is what `PairsSeenInSession` finds (section 5).
* `NoTwoTasksPerJpeg`, `JpegStackedOnce`, under `OncePerName`: besides `~CardRepeats`,
  photos of different basenames differ in contents, since two names of one content
  are one asset on the server. Over `HandedInv`; `StackingInv` relates the task that
  is about to stack to the stacks made in time.
* `PopupsOncePerCycle`, `SyncedOncePerCycle`. `PopupInv`: what was shown is
  remembered under the port in hand.
* `DaemonTypeCorrect`, `ExitAlwaysDrains`, `IdleAlwaysDrained`,
  `OncePerCycleInProcess`. `StepOfLoop` shows that every step of the process is a
  step of `CameraLoop`, none, or the start of a new process, so `PopupInv` holds in
  the process too. `ExitDrains` is not inductive; `RestInv` is: the pipeline is
  asked for the barrier exactly while the loop ends a session, nothing is pending
  when the loop is outside a session or the pipeline has answered or finished, and
  status 0 comes after the pipeline has finished.
* `GivenUpAlwaysAfterAll`, over `StoredInv`: a task comes to `failed` from its last
  attempt (`HowTasksFail`) or from the check for a stack, when it has an asset.
* `KnownIsItselfAlways`. `LibraryInv`: the snapshot holds dated assets of the library,
  with a make only those of that make, and the library what was there, what others
  brought, and photos of the card at the camera's time plus a drift, one asset per id.
  So an asset that answers for a photo is a photo of the same body, at its camera time
  plus a drift; the window around the photo does not reach a round further
  (`RoundIsFar`), so it is the photo's own. Assets of other makes never come into it: the
  scope by make keeps them out, whatever their names and times. In a session without a
  make nothing does, and the property does not speak of those (`UnscopedIsCorrect`).
* `SnapshotIsCompleteAlways`. The property speaks of the walk only; `LoadInv` says
  what holds while pages are read: whatever stands before the next page is in the
  snapshot. It is kept because an asset that arrives can only move others to a later
  page (`RankGrows`), a page shows all that stand on it (`OnPageOrBefore`), and
  nothing stands after an empty page (`NothingAfterEmptyPage`, by mapping the assets
  before the first that would into their ranks) or after one without a successor
  (`LastPageIsLast`).
* `NothingIsDownloadedTwice`, an action property: what the server held when the loading
  began is in the snapshot (`SnapshotIsComplete`), and a photo's own asset is a match for
  it (`OwnIsMatch`, from `LibraryInv` and `WindowAssumption`), so `Download` is not
  enabled.
* `CleanSessionsLeaveNothing`. A photo is *fresh* when it is neither on the server nor
  in `left`. `NewestInv`: for a fresh photo that the session at work has not listed, or
  has not yet loaded its snapshot for, no asset of the make on the server is newer than
  it by more than the slop, and no late upload is of a photo taken after it; what the
  session has listed was taken no later than a fresh photo it has not; and while a scoped
  session loads and walks, nothing in its snapshot is newer than a fresh photo by more
  than the slop, so the cutoff spares every fresh photo. It is kept because a session that
  ends well leaves none of its listing fresh, any other that came to its walk puts what it
  missed in `left`, and a photo shot meanwhile is the last by a clock that does not run
  backwards (`Shoot`): what the session stores is older than it (`StoreKeepsNewest`).
  `WayInv`: without trouble a fresh photo of the listing is on its way, below a folder
  that waits to be listed, in `files`, or pending; it is not passed over for a match
  either, because a match is its own (`MatchIsOwn`) and it is not on the server.
* `CardSyncTypeCorrect`. `WalkInv` relates phase, files, `seen`, failures and page; `PageInv`
  bounds the page by the size of the library: a page is left only when it had assets.

The invariants were checked by TLC before they were proved.

Every safety invariant and action property of the passing runs has its theorem.
Model-checked only are the liveness properties, since fairness and ENABLED are
outside this prover: the liveness half of `KeepsPromise`, `PluggedIsTried`,
`StopEnds`, `EndsWithCameraTask` and `SessionEnds`.

## 5. Where the code and its texts part

* `CountIsExact`: `UploadOutcome::Duplicate` answers to a retry whose first
  attempt was served are not counted (`pipeline.rs` 104-117).
* `RetriesBeforeGivingUp`: `truncate` in `immich/mod.rs` 93-99 slices at byte
  500 and panics inside a character; `notifications.rs` has a version that does
  not. The barrier survives it: a panicked task counts as joined.
* `PairsSeenInSession`: the tracker belongs to the process and not to the session.
* `EverySessionAnnounced`: `||` at `camera/mod.rs` 64 stops at the first `Some`.
* `UnscopedIsCorrect`: without a make the snapshot holds the assets of every device,
  and the cutoff is taken from the newest of them. A phone's photo newer than the
  card's by more than the slop makes the session skip the whole card, without a
  failure; the comment at `cache.rs` 45 calls this case correct and only slower.
* `RestartsOnFailure`: `main.rs` 53-65 logs an error or a panic of the camera task and
  answers Ok. The status is 0, so the unit's `Restart=on-failure` does not apply to
  the libgphoto2 errors its comment names.
* `SkippedIsUploaded`: the cutoff is the newest asset less an hour and folders are
  walked last in, first out. After a session that broke off once a newer photo
  had arrived, older ones that had not are skipped for good.
  `CleanSessionLeavesNothing` is what remains true: such photos are in `left`.

Checked by nothing here: RAW files of other brands (CR2, NEF) and HEIF are of kind
Other (`object_info.rs` 21-26) and are skipped like a text file, while the README
(11-12) speaks of a tweak that stacking needs for them.

Two comments are out of date and checked by nothing: `notifications.rs` 13-14
and 25-28 (counting at download; `session.rs` 272-274 has it right), and the
head of `camera/mod.rs` (events after the backfill). The README's step 2 reads
the make from a JPEG's EXIF; the code asks the camera's configuration.

## 6. Not modelled, and the plan

The plan's modules and proofs are done. Not done, with the reason:

* `CardSync` as a refinement of `SessionBarrier`. Its reduction of the pipeline to
  `Land`, `Lose` and the drained barrier is argued from `Pipeline` instead
  (`ImplementsBarrier`, `IdsAlwaysStored`). A `Kill` ends the pipeline with its process,
  which `SessionBarrier` does not describe (`Daemon` starts a new one), and a job is a
  file in one session, so the mapping needs a session number that has no bound.
* Cards that repeat a basename and kind (the hazard on `stack_tracker.rs` 65): no
  property says which photos such a card's stacks should join.

Left out for good: a second camera at the same time or a second body of the same
make on the server (the README promises a single body), the values of the
configuration, build and sandboxing descriptions, texts of popups and
logs, multipart encoding, hashing and temporary files (I/O on one file).

## 7. Running

    tlc -workers 2 -config pipeline_sessions.cfg MCPipeline
    tlc -workers 2 -config daemon.cfg Daemon
    tlc -workers 2 -config card_sync.cfg MCCardSync
    tlapm PipelineStackProofs.tla
    tlapm CardSyncProofs.tla
