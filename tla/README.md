# Skeleton Media: a verification project

TLA+ models of the parts of Skeleton Media whose correctness depends on the
order in which several actors do things: processes that share a directory,
threads, requests and timers of one process, devices that post late, crashes and
restarts, answers that get lost. TLC checks the models on small instances; TLAPS
proves every safety and action property that a passing run checks, and both uses of
the abstract queue, for every value of the constants. Liveness stays with TLC.

The models are translated from the code. `PROJECT.json` maps each definition to
the lines it stands for, lists the components, the runs, the mutants (plausible
bugs that make a property fail), the findings, the hazards and the theorems.

## 1. The system

### 1.1 Video understanding (`skeleton_media/video_understanding`)

| component | state it keeps | operations | hard behaviour | modelled |
|---|---|---|---|---|
| Job queue, `queue.py` | one JSON file per job; the directory (pending, processing, done, quarantined) is its state; attempts, lease, worker id | enqueue, claim, heartbeat, complete, fail, recover_expired | several processes under one flock; death between writing the new file and unlinking the old one; clocks read before the lock is held; backoff and attempt limit | yes |
| Worker, `worker.py`, `scripts/video_understanding_worker.py` | `.worker.lock`, the heartbeat thread | run_once, run_forever | two processes with the same worker id; heartbeat against lease; exceptions that end the process; restarts | yes |
| Artifact store, `artifact_store.py`, `manifest.py` | `.staging/` workspaces, one target directory per record and revision | workspace, finalize | no lock: exists, rename, read-back and sealing are separate steps; crash between them; retries meet what they left behind | yes |
| Pipeline, `pipeline.py` | none of its own | process, transcribe_only | three durable places (queue, store, memory) and no transaction; outcomes that differ between retries | yes |
| Memory adapter, `memory_gateway_adapter.py` | none | build_private_mutation | idempotency key and fact id; late validation; the gateway (external) may lose an answer | yes |
| Intake, transcript, vision, local model, router | files in the workspace | bounded subprocesses, pure functions | failures and timeouts only | no |
| Subprocess and Sona supervision | owned processes | run, terminate, ensure_ready | timeouts, process groups | no |
| Live runtime, doctor | none | build, doctor, synthetic round trip | none | no |
| Installer, `runtime_install.py` | release directories, `current` link, unit files, systemd's state | install, rollback | partial failure, stale running worker, crash between steps | partly |

The command line (`scripts/video_understanding.py`) enqueues. The service claims,
executes and reports; while it executes, its second thread renews the lease. The
execution finalizes an artifact and commits a fact that names it to the
MemoryGateway. The installer recovers expired leases while a worker may run.

### 1.2 Home edge (`skeleton_media/home_edge`)

| component | state | operations | hard behaviour | modelled |
|---|---|---|---|---|
| Input broker, `adaptive_remote.py` | what is held, since when | dispatch, release_all, release_expired | a sink that raises in the middle of a release | yes |
| Mode controller and layouts, `adaptive_remote.py` | the active mode | request_mode | none: one field, assigned as a whole | no |
| Display ownership, `media_display_ownership.py` | none | live_decision | two questions, one after the other, each with a partial answer or none | yes |
| Source snapshot, `media_source_snapshot.py` | the artifact, linked once | the remote script, validation, write and verify | the file is edited or replaced while it is read; two runs race for the artifact | partly |
| Media bootstrap, `debian_media_bootstrap.py` | packages, configuration files, boot guards of the box | one script with a rollback | a failure or a kill at any step; what an earlier run left | yes |

### 1.3 Cast (`skeleton_media/cast`) and the web runtime (`ops/skeleton_cast/runtime`)

| component | state | operations | hard behaviour | modelled |
|---|---|---|---|---|
| Player, `player.py` | the mpv process, current.json, last_vod.json, watch history, tv-mode, the marker of a channel change | play, stop, switch_mode, save_current_progress, play_channel (`iptv.py`) | a playback lock taken by some operations only; failure half way through a replacement or behind the unit's start; a save that gives up silently; a video parked in the background | partly |
| Resolver, `resolver.py` | the cooldown mark, the cache of pictures | discover, resolve_page, posters | a mark that expires while it is renewed; temporary files shared by all requests | yes, without parsing |
| Discovery, `media_discovery.py` | ledger, five JSON caches | discover, translations, seasons, details, ratings | negative answers that must not renew themselves; whole-file read-ask-write; a failed read counts as an empty file | yes, without scoring |
| Release monitor, `media_release_monitor.py` | a row per series | set, tick, ack, release | the claim is read in one transaction and written in another | yes |
| Trakt, `trakt_sync.py` | the outbox, a row per title | enqueue_progress, flush | rows deleted after a long request; a transaction that stays open through it | yes |
| Search, `media_search.py` | circuit breakers | search | concurrent provider calls | no |
| IPTV, `iptv.py` | catalogue, preferences | play_channel, refresh | written as a whole under one lock | play_channel |
| Web runtime, `app.py` | history file and its cache, hand-off state and revisions, resolve jobs and their pool, the drag timer | HTTP handlers | overtaking posts, restarts, hand-offs side by side, unlocked whole-file copies through shared temporary files, a timer that fires when it was cancelled | partly |
| Browser UI, Android client | presentation | requests to the web runtime | outside | no |

The web process runs the player, the resolver, discovery, monitor and Trakt as
modules; requests are threads. The player's monitor thread writes the watch
history that the web runtime's requests read through a cache and change; both
note progress in the outbox for Trakt. A job of the web runtime is resolved by
the resolver and found by discovery; the release monitor watches jobs. The
visual saver asks the display probe, which asks the web runtime and adb.

### 1.4 What makes each part correct

- Queue: an accepted job is never lost; it is handed out to one worker at a
  time, unless a lease ran out or a crash tore a move; attempts are counted
  through every path; an ended job stays ended.
- Worker: one process works at a time; a living heartbeat means a live lease;
  executions are bounded; every accepted job is settled in the end.
- Store: an artifact is written once, and what finalize returned for is there
  and has been read back.
- Pipeline: the memory names exactly the artifact the store holds; a job in
  done/ has its own result stored and committed.
- Installer: a receipt says what runs; a failed installation leaves the prior
  release and units in force.
- Player: current.json names what plays; a resume position is of its own video; a
  video parked with a snapshot stands where that says; requests and transitions end.
- Web runtime: a reader sees the history as it was at some moment; a request's
  record is not undone by another request; a hand-off that nobody disturbs pauses
  its source only when the destination has it; a job whose saves succeed is
  resolved; a held button comes up.
- Resolver: a protected site is left alone while blocked; a picture is spoiled by
  no failure alone.
- Discovery: "nothing found" is of a recent discovery; cached rows are kept while
  they can be read.
- Release monitor: an episode is announced once.
- Trakt: what was watched last reaches Trakt or waits for it.
- Home edge: every button that went down can come up again; the saver starts only
  over a display that is clear; a snapshot is one version of the file; a failed
  bootstrap puts back the files and the packages it has been told right of.

## 2. Modules

| module | models | relation |
|---|---|---|
| `JobLedger` | what the queue promises, without files, locks and time | abstract specification |
| `FileQueue` | `queue.py` | implements `JobLedger` (`ImplementsLedger`) |
| `VideoWorker` | `worker.py`, worker script, systemd's restarts | EXTENDS `FileQueue`: its steps are queue operations |
| `ArtifactStore` | `artifact_store.py`, `manifest.py` | EXTENDed by the pipeline |
| `VideoPipeline` | `pipeline.py`, `worker._execute`, memory adapter | composes `JobLedger` and `ArtifactStore` |
| `RuntimeInstall` | `runtime_install.py` with systemd | stands alone |
| `CastPlayer` | `player.py`, `play_channel` | stands alone |
| `EndpointHistory` | history store and cache of `app.py`, the player's writer | in `MCMediaApp` |
| `MediaHandoff` | captures, hand-offs and resumes of `app.py` | in `MCMediaApp` |
| `ResolveJobs` | jobs and pool of `app.py` | in `MCMediaApp` |
| `RemotePointer` | drag and its timer in `app.py` | in `MCMediaApp` |
| `PageResolver` | discover and resolve_page of `resolver.py` | in `MCServices` |
| `PosterCache` | pictures of `resolver.py` | in `MCServices` |
| `MetadataCache` | five JSON caches of `media_discovery.py` | in `MCServices` |
| `Discovery` | discover and its ledger, of `media_discovery.py` | in `MCServices` |
| `ReleaseMonitor` | `media_release_monitor.py` | in `MCServices` |
| `TraktOutbox` | `trakt_sync.py` | in `MCServices` |
| `HomeInput` | the broker of `adaptive_remote.py` | in `MCServices` |
| `DisplayOwnership` | `media_display_ownership.py` | in `MCServices` |
| `SourceSnapshot` | `media_source_snapshot.py` | in `MCServices` |
| `MediaBootstrap` | `debian_media_bootstrap.py` | in `MCServices` |
| `FileQueue_proofs`, `VideoPipeline_proofs`, `RuntimeInstall_proofs`, `CastPlayer_proofs`, `MCMediaApp_proofs`, `MCServices_proofs` | theorems about the module named before | EXTENDS it and TLAPS |
| `QueueLedger_proofs` | that `FileQueue` implements `JobLedger` | EXTENDS `FileQueue_proofs` |
| `VideoWorker_proofs` | theorems about `VideoWorker` | EXTENDS it and `QueueLedger_proofs` |
| `MC...` | instances for TLC | |

`MCMediaApp` and `MCServices` bundle parts that share no state. A behaviour
chooses one part at its start (`focus`) and follows it; the others rest at
their initial state. The state spaces of the parts then add instead of
multiplying, every part is explored completely, and nothing is lost, since no
action of one reads a variable of another.

### FileQueue

Variables `pending`, `processing`, `done`, `quarantined` are the directories (the
`failed` directory is created and never used). A record is reduced to what the
operations read: attempts, the instant it becomes available, the lease and the
worker id; creation times, reasons and payloads decide nothing. `job` is the
record a process got from `claim` and passes to the later calls. `lapsed`,
`accepted`, `deliveries` and `torn` are history that only properties read.

One action is one operation under the lock: `Enqueue`, `Claim` (with the recovery
it starts with), `Heartbeat`, `Complete`, `Fail`, `RecoverExpired`, and
`Rejected` for a report that raises. The lock makes them atomic to other
processes; a crash does not, so each operation that moves a file has a variant
that ends after the write of the new file: `TornClaim`, `TornComplete`,
`TornFail`, `TornRecover`. An unlink follows the synced rename of the new file,
so the other order cannot survive a power loss. `Die` is a crash elsewhere.

Instants are relative to the present and `Tick` lowers them. An operation's
clock is read before it waits for the lock, so an operation takes a `lag` of at
most `MaxLag` ticks, and works with the time `-lag`. `recover_expired` alone reads
it under the lock. Half-written files do not exist: `_write` renames.

### VideoWorker

`pc` follows `run_forever` and `run_once` through recover, claim, execute and,
for `run_once`, report after the heartbeat has stopped. `locked` is
`.worker.lock`; it is a set so that a bug that lets two in can be stated.
`beating` and `beatIn` are the heartbeat thread. `BeatDies` is an error that is
not a `VideoUnderstandingError`; `Killed` is a kill inside any queue operation or
outside. An execution is left open between `TakeJob` and its end.

### ArtifactStore and VideoPipeline

Nothing is locked in the store, so `finalize` is split where another process or
a crash can come in: `Stage`, `FindClear` or `Replay`, `Promote`, `ReadBack`,
`Seal`. Content is the hash of the manifest. `Promote` chooses whether the files
match the manifest (*.part files and late writes make them differ).

The pipeline takes the queue by its promise, `JobLedger`: a worker may lose its
lease without noticing, and a torn move shows as a job that is granted again
although it has ended. `Contents` gives each job the hashes its executions may
come to: the local model may answer, answer otherwise, or be down. `Commit` puts
the fact; `CommitFails` is an answer that is not a success, with or without
effect. A projection cannot fail the job and is left out.

### RuntimeInstall

`step` is the line the installer is at; `install` holds what `install_runtime` keeps in
locals, the prior link target and unit files above all. A unit file is reduced to
the release it was written for. `loaded`, `running`, `enabled` and `upheld` are
systemd's, which is external: it runs what it loaded at the last reload, a start of
an active unit does nothing, it restarts what fails and, after a reboot, starts
what is enabled. `Raise` is any exception (with or without the effect of a command
that timed out), `NotActive` the worker seen inactive, `Falter` a command that fails in the
rollback and is passed over, `BreakOff` an exception in the rollback, which ends it
silently; `Killed` and `Reboot` end the installer anywhere.

### CastPlayer

Three requests, each with its `pc`: `video` (the route /play and stop), `tune`
(`play_channel`) and `switch` (`switch_mode`). The playback `lock` is held by
`play`, `stop` and `save_current_progress` and by nothing else: `switch_mode` and
`play_channel` call these three and otherwise act without it, as in the code.
`mpv` is the process (file, position, paused), `tvMode`, `current`, `lastVod`,
`history` and `marker` are files. `play` is split at each mpv call and each
subprocess (`Enter`, `Load`, `WaitLoaded`, `Seek`, `Name`, `Remember`, and the cold
path `ColdStop`, `Boot`), each with its failure: `BootFails` is one behind the start
of the unit, outside the try, with mpv off or playing the new file; `StopRaises` a
`systemctl stop` that times out; and any save may give up (`SaveProgress`), as it does
when mpv does not answer. `snapshot` is what `suspend_current_vod` returns of the save.
What a command does after its time-out is left out. `Monitor` is the progress
thread, `Restart` the web process starting again (threads and locks gone, mpv and
files kept), `PlayerDies` mpv. A position is 0, in between, or `End`.
`astray` and `still` are history: mpv plays what a play has loaded that ended without
naming it, cut off by a restart or by an exception; nobody but the switch has
touched mpv or the mode since it saw its video.

### The web runtime: EndpointHistory, MediaHandoff, ResolveJobs, RemotePointer

`EndpointHistory`: requests read the history file without a lock through a cache
keyed by the file's signature, in the code's order (signature, look into the
cache, load, signature again, bind); those that change it hold the history lock
from load to save; the player's monitor holds it for its load and its write
separately; another process may replace the file. An item is the number of the
write it is from.

`MediaHandoff`: what each device plays, the desired state with its revision and its
temporary file, the status that the receiver posts, and one post on its way. A
hand-off to the receiver goes through `Revise` (the revision is chosen from two files, of
which either may fail to be read), `WriteDraft`, `ReplaceDesired`, `Hold` when the capture
is paused, `Await`, `Quiet` and `Settle`; one to the TV box through `PlayOnTv` and `Watch`.
A `Resume` from the history writes the desired state and waits for nothing. Several
of these run at once, for no lock keeps them apart. A clip of YouTube (`Clips`) is
acknowledged by revision and mode; another source by its playing as well. Posts may be
late, lost, or without their playback fields. The receiver's page is external
(`Poll`, `Send`). `shown`, `top` and `alone` are history: what the receiver has applied,
the highest revision there was, and that nobody has disturbed a request since it
chose a revision above that. The selected endpoint is left out: nothing in a
hand-off asks for it.

`ResolveJobs`: a job is a file that every request and worker reads as a whole and
writes back as a whole, without a lock, in two steps: the write of a temporary file
that all savers of the job share (`WriteTemp`) and its replacing (`ReplaceFile`), which
publishes what is in it by then or raises because it has gone. A load or save that
raises ends a request (`Raise`), so that a refresh submits nothing, or a worker (`Dies`):
both stand outside the worker's try. The pool is in memory; a restart empties it.
`lost` is history: the jobs that such an end has left without a task.

`RemotePointer`: a pointer request is one step (it holds the pointer lock), the
timer's callback is three: it fires, takes the lock to forget the drag, and
sends the "up" after it has given the lock back. A timer whose callback waits for
the lock cannot be cancelled any more.

### Around the player: PageResolver, PosterCache, MetadataCache, Discovery, ReleaseMonitor, TraktOutbox

`PageResolver`: a request goes through cooldown, curl, browser and mirror, player
targets in a pool and deduplication; the cooldown mark is a file with an expiry
that is read, found expired and unlinked in separate steps. A player's page fetched
by the pool may note a block, too (`PlayerBlocked`).

`PosterCache`: the temporary files of a picture are shared by all requests for it.
A file's content is whole, spoiled, or the name of the worker that truncated it
last; a worker keeps writing to the file it has opened, wherever it was renamed. A
picture that cannot be decoded unlinks the shared file like a failed save (`OpenFails`).

`MetadataCache`: the five caches are one machine with five tests of whether a row
will do and five ways to make a new row. A lookup reads the whole file, asks, and
writes the whole file back through a shared temporary file. Any read may fail, which
the code takes for an empty file. `ever` is history: what the file has told of since
a lookup that could not read it wrote it anew.

`Discovery`: jobs of one work and threads that run discoveries of them, two of one job
included; the ledger's rows and the time. A season that is asked for filters what the
cache vouches for as well as what a search gives. The paid index (`PaidIndex`) is part
of the search and never gives anything: `_brave_budget_reserve` uses `time`, which
`media_discovery.py` does not import, so that it raises before it books or sends
anything, and the callers swallow that. `barren` is history: when a discovery came to
nothing by itself.

`ReleaseMonitor`: one series; `TurnOn`, `TurnOff` and `EnsureAuto` of
`set_for_job` and `ensure_auto_for_job`; a tick reads the row, looks at the
catalogue, probes, and claims the alert in a later transaction; `Ack` and
`ReleaseClaim` are the sender's.

`TraktOutbox`: one row for each title, upserted by `NoteEvent`. The first change of
a flush opens SQLite's write transaction, which then stays open through the
requests for the other rows: `draft` is the table as that transaction sees it, `locker`
who holds it, `outbox` the committed table. `BreakOff` rolls back.

### Home edge: HomeInput, DisplayOwnership, SourceSnapshot, MediaBootstrap

`HomeInput`: calls are one step each, but the sink may raise at any command of a
release, which then ends with what it has done. `held` maps each held key to the time
of its press; a release may take the holds in every order, of which the dictionary's
is one. `DisplayOwnership`: two questions
with every combination of the marks the probe looks for, the display free to
change in between. `SourceSnapshot`: a file of two halves under edits, read between
two `lstat` calls, validated at both ends, linked once. `MediaBootstrap`: the
script's steps with a failing tool at each, its rollback, and kills between any two. A
package is out, half installed (unpacked or half configured), or in, and what
`dpkg-query`, `grep` and the script's own lists say of it may fall short of that. `unseen`
and `unread` are history: the packages a run was told wrong of or found half
installed, and that it could not read its manifest. Versions, and what apt does to
packages that the script does not list, are left out.

## 3. Runs

| run | instance | what it shows |
|---|---|---|
| `queue` | 2 jobs, 2 processes with ids of their own, lease 2, backoff 1, lag 1, 2 attempts | all safety properties of the queue, and that it implements the ledger, through every interleaving of operations and crashes |
| `queue_one_state` | same | finding 1 |
| `worker` | 2 jobs, service and hand-started worker with the same id, lease 5, lag 1, 2 faults | safety and, under fairness, that every job is settled; no deadlock |
| `pipeline` | 2 workers; 2 video jobs on one target, one with two outcomes, and a transcript job, any two of which are accepted | store, memory and queue agree |
| `pipeline_immutable` | 1 worker | finding 2 |
| `pipeline_own_artifact` | 1 worker | finding 3 |
| `install` | 2 releases, 3 installations, 3 faults | receipts stay true, rollbacks restore, the prior worker comes back |
| `install_active` | 2 installations, no fault | finding 4 |
| `player` | 2 videos, 1 live channel, `End` 2, 3 requests, 2 faults | current.json, resume positions and parked videos are right; requests and transitions end |
| `player_parked` | same, no fault | finding 5 |
| `media_app` | history: 2 items, 2 requests, 2 writes; hand-off: 2 requests, 2 sources, one a clip, 2 revisions, 2 moves; jobs: 1 job, 2 askers, 2 pool threads, 2 refreshes; pointer: 3 timers, 4 gestures, 1 outage | reads are current, records kept, undisturbed hand-offs verified, jobs resolved, buttons released |
| `services` | pages: 2 requests, 2 targets, 3 streams, cooldown 2, clock 3; pictures: 2 workers, 2 candidates, 1 crash; metadata: 2 lookups, 2 titles; monitor: 3 occurrences, 2 episodes; buttons: 3 of two devices, 2 fingers, hold 1; discovery: 2 threads, 2 jobs, 1 page, 1 tried, ttl 2, 2 ticks; snapshot: 2 runs, 2 edits; bootstrap: 2 packages, 2 files, 2 guards; outbox: 2 titles, 2 flushes, 2 requests to Trakt, 3 seconds | the safety properties of the ten services |

Bounds and why they are enough. Two jobs are what a recovery loop needs to be cut
short in the middle and what claim needs to choose between; two processes are
what a race needs. Two attempts let a job fail, be retried and be quarantined,
and attempts are capped one above the limit because the code only compares them
with it. A lease of 2 with a lag of 1 is the smallest with a lease that can
expire, be renewed late and be recovered with an old clock; the worker's lease of
5 gives an interval (a third, rounded down) that leaves room for the lags. Instants
older than `MaxLag` are not told apart; every comparison is with an instant that
is at most that old. Two faults let a process die in a move and the next one die
in the repair. In `pipeline`, three jobs with two accepted cover both kinds of
meeting: two jobs for one target, and a video job beside a transcript. Three
installations in `install` are a first one, an upgrade that fails and one that
starts from what the failed one left; three faults are a failure, another in
its rollback, and a worker or machine that dies afterwards. In `player`, three
requests are one of each kind in flight together, or two in a row beside a third; two
faults fail a replacement and then its cold start; two videos tell "its own" from
"another". With four requests the safety properties hold as well (checked once,
too long for a regular run); the proofs cover any number. In `media_app`, two requests and the
monitor are the three kinds of writer; two revisions are a status that is out of
date and one that is not, and two requests are what one may disturb; two
moves are a hand-off beside a resume or another hand-off; a third timer is a fresh one beside two that could not
be cancelled. In `services`, each part has two of whatever may overlap, and every
limit (cooldown, time to live, hold) is small enough to be reached and
passed.

Symmetry: the processes of `queue` (their worker ids are themselves) and the
workers of `pipeline` are interchangeable; neither run checks a liveness property.
In the bundles it costs more than it saves.

All runs but `worker` say CHECK_DEADLOCK FALSE: when all jobs have ended, no
request is left within the bounds and nothing fails, these systems really stop.
`worker` checks deadlock.

Fairness (`worker`): a service that is down is started (systemd `Restart=on-failure`
with a delay of ten seconds, which its start limit does not stop); a step of a
running process that stays possible happens, since every subprocess and request
of an execution is bounded by a timeout; threads are scheduled; time passes. Not
assumed: that anybody runs a worker by hand, that an execution succeeds, that
the installer recovers. Faults are finitely many (`MaxFaults`): with endless
crashes nothing would be settled, and the code does not promise it.

Fairness (`install`): the installer goes on, in the installation and in the rollback
(every command it runs has a timeout), and systemd restarts what it keeps up. That
anybody installs again is not assumed.

Fairness (`player`): each of the three request threads runs (every mpv call and
subprocess in it has a timeout), and time passes, so that an old marker expires.
No request, no progress save and no failure is assumed.

Fairness (`media_app`): the request threads and the pool's threads run, and a timer
that is due fires and its callback goes on. Not assumed: that the phone sends
another gesture, that anybody asks again after a restart, that a load or a save of a
job succeeds.

## 4. Proofs

Every proof is of the specification itself, for all values of the constants that
the named assumptions of the modules allow, and for any number of requests,
faults and steps.

`FileQueue_proofs`, under `ConstantsAssumption`:

- `TypeCorrect`: `TypeOK`;
- `NothingLost`: `NoJobLost`;
- `OnlyCrashesDuplicate`: `DuplicatesAreTorn`;
- `AttemptsNotLost`: `AttemptsCountDeliveries`;
- `FinishedIsFinal`: the action property `FinishedStaysFinished`;
- `OverlapOnlyAfterLapse`: `OverlapNeedsLapse`.

None of the last five is inductive alone. `QueueInv` adds to `TypeOK` that an
accepted job has a place and a placed job was accepted, that a job not in `torn`
is in one place only, that a job outside live files was never delivered or is
ended, and that attempts keep up with deliveries. `OverlapNeedsLapse` needs more:
`FirmUnlessLapsed`, that a process that has a job and has not lapsed holds it
*firmly*: its record is in processing/, names this process, and its lease is
live. Claim and recovery take away only jobs with an expired lease, so they
cannot touch a job that is held firmly; two firm holders would be named by one
record, which distinct worker ids exclude. The assumption `MaxLag < Lease` is what
makes a claim firm when it returns. One lemma per action and conjunct does the
step; the two temporal theorems combine them.

`QueueLedger_proofs`: `QueueImplementsLedger`, that `Spec` implies `ImplementsLedger` if no two
processes bear one worker id. Each step of the queue is one step of the ledger:

| step of `FileQueue` | step of `JobLedger` |
|---|---|
| `Enqueue` | `Submit` |
| `RecoverExpired`, `TornRecover`, `TornClaim` | `Expire` |
| `Claim`, with the recovery it starts with | `Grant` |
| `Complete`, `TornComplete` | `Finish` |
| `Fail`, `TornFail` | `Abandon`, or `GiveBack` for a retry |
| `Die` | `GiveBack`, if the process still held its job |
| `Heartbeat`, `Tick`, `Rejected` | none |

The difficulty is in who holds what. A record in processing/ whose owner is gone
waits already for the ledger, so a recovery may make nothing new wait; a recovery
cut short leaves a job that waits and is still held; and a claim takes a job from
a holder that does not know. The lemmas `ExpireMaps`, `GrantMaps`, `LeaveMaps` and
`StutterMaps` say what the mapped variables must do in a step of each kind; the
others show that the queue's operations do that. The hypothesis is needed: with
one id for two processes, a report would take the other's job. It is not what
makes the workers right, who all bear one id; for them see `WorkersImplementLedger`.

`VideoWorker_proofs`, for all processes and worker ids (equal ones included),
under `ConstantsAssumption` and `TimingAssumption`:

- `WorkersUseTheQueue`: `WSpec` implies `Spec`, so that the theorems above hold of the
  workers (every step is a queue operation or leaves the queue alone);
- `WorkersTypeCorrect`: `WTypeOK`;
- `OneExecutes`: `OneWorkerExecutes`, from `LockInv`: one process holds the lock, one
  that is not down holds it, and only one that executes or reports has a job;
- `BeatingKeepsLease`: `BeatKeepsLease`, from `HeartInv`: the lease of a job with a living
  heartbeat runs ahead of the next beat by `Margin`, the lease less the interval
  less the longest lag. The step needs `LockInv`: only one's own process, the
  command line, the installer and time act while one executes, and no recovery
  touches a lease that is ahead. `TimingAssumption` is what makes the margin
  exceed the delays;
- `WorkersImplementLedger`: `ImplementsLedger`, without any hypothesis on the ids. A
  process takes or ends a job only while it has the single-instance lock, and then
  no other has a job at all (`LockInv`), so the lock does what the ids cannot;
- `ExecutionsAreBounded`: `ExecutionsBounded`. Nothing but `fail` compares attempts with
  the limit; recovery and claim do not. What bounds the executions is `Calm`: without
  faults no lease ever expires, because every record in processing/ is the job of
  the process at work, which beats while it executes and, between its last beat
  and its report, still has `Margin - MaxLag` of its lease. So every attempt is
  one that `fail` has counted.

`VideoPipeline_proofs`:

- `ArtifactsAreWrittenOnce`: the action property `WriteOnce`;
- `FinalizedStaysStored`: `FinalizedIsStored`;
- `MemoryAgreesWithStore`: `MemoryMatchesStore`;
- `DoneIsCommitted`: `DoneMeansCommitted`;
- `PipelineTypeCorrect`: `PTypeOK`;
- `PipelineUsesLedger`: `PSpec` implies `LedgerSpec`: the pipeline moves jobs only in ways
  the ledger offers, which the queue is proved to keep;
- `NoSubmittedJobIsLost`: a submitted job waits, is held, is done or is quarantined, and
  has one holder at most. It is proved of the ledger (`LedgerInvariant`) and holds of
  the pipeline by the theorem before.

The argument: nothing that is at a target is ever changed (`Kept`), so that what an
execution knows once stays true whatever the others do; the rest of `PInv` says
what an execution knows at each of its phases (`Knows`), what the memory and the
done jobs rest on, and that retries find either nothing or their own.

`RuntimeInstall_proofs`:

- `InstallTypeCorrect`: `ITypeOK`;
- `ActiveReceiptLasts`: `ActiveReceiptHolds`, from `ProgressInv`, what link, unit file, loaded
  unit and enablement are at each step;
- `RollbackRestoresPrior`: the action property `RollbackRestores`, from `RestoreInv`, what each
  rollback step has restored while no command failed. It includes that a
  worker unit which existed before exists throughout, so that the rollback's
  first command does stop the new worker.

`CastPlayer_proofs`, under `PlayerAssumption`:

- `PlayerTypeCorrect`: `CTypeOK`;
- `NamedIsLoaded`: `CurrentNamesFile`;
- `ParkedIsSaved`: `ParkedPlaceSaved`;
- `OwnVideoRecorded`: the action property `WatchedIsRecorded`.

`PlayerInv` has three parts beside the type. `LockInv`: the one thread at a step of
play between taking and giving back the lock is the holder. `FileInv`: while
nobody is in play, current.json names what is loaded, unless a play has left its file
behind (`astray`); the one who is in play has mpv loaded with its own file, with what
was there before, or dead. It needs `LockInv`, since a second play would
load another file. `ParkInv`: once a switch has paused what it saw and `still`
holds, mpv stands still (paused, so that time does not move it, and no play is about
to name a file), so that whoever saves again saves the same place; a save that gives
up leaves no snapshot and changes nothing.
`OwnVideoRecorded` follows from `FileInv`: every save needs the lock to be free, or
is the fall-back of the play that has it.

`MCMediaApp_proofs`:

- `HistoryReadsCurrent`: `ReadIsCurrent`, from `ReadInv`: what is bound to a signature in
  the cache was the file's content under that signature, signatures never come
  back, and what a request has loaded between two equal signatures is of that one;
- `RequestsKeepWrites`: the action property `RequestWritesKept`, from `KeepInv`: the
  request that holds the history lock works on a copy in which every other
  request's record is as in the file;
- `HandoffPausesMoved`: `MovedBeforePaused`, from `HandoffInv`: neither receiver, post nor
  status is ahead of the highest revision there was (`RevisionsPast`); the revision that
  an undisturbed request has chosen is above it, and once published it is the desired
  one, with the request's own source, so that whatever tells of it comes from a receiver
  that has applied this source under it (`Tracked`). Any number of other hand-offs and
  resumes may be at work, as long as none writes in between;
- `AppTypeCorrect`: `AppTypeOK`.

`MCServices_proofs`. `OneServiceSteps` shows that a step of the bundle is, for each
service, one of its own or a stutter; each promise then has an invariant over its
own service alone:

- `CooldownKept`: `ProtectedLeftAlone`, from `PageInv`: while the newest block is in force
  the mark is there and says so, so that a request that looks finds it;
- `SpoilingNeedsOverlap`: `SpoiledNeedsOverlap`, and `RecordsAreKept`: `RecordsKept`, from
  `PosterInv` and `MetadataInv`: as long as no two have overlapped, the one that is at the
  file is alone there, and knows what it holds: the whole cache, if its read did not
  fail;
- `NegativesAreFresh`: `NegativeIsFresh`, from `DiscoveryInv`: no negative row is younger than
  the last discovery that came to nothing by itself, so that a row within its time
  to live is of a time when one did;
- `EpisodeAnnouncedOnce`: `AnnouncedOnce`, from `MonitorInv`: unless calls have overlapped,
  the row a tick has read is the row of the table, and the alerts of an
  episode are counted by its claims and acknowledgements;
- `DecisionHolds`: `DecisionIsTrue`, from `DisplayInv`;
- `OneVersion`: `SnapshotIsOneVersion`, from `SnapshotInv`: when the second lstat agrees
  with the first, no edit fell in between, so both halves are of one moment;
- `RollbackIsWhole`: `FailedRunRestores`, from `BootInv`, how much of what a run found it
  still knows at each step: of every package outside `unseen` whether it was there and
  whether the run has noted it, and what the files were;
- `NewestEventSurvives`: `NewestReachesTrakt`, from `OutboxInv`: a row is of the newest event
  of its title; stamps do not fall; what a call takes for sent was taken; and the
  table that the open transaction sees is as safe as the committed one, so that
  it does not matter whether it is committed or broken off.

- `DownStaysHeld`: `DownIsHeld`, which is inductive by itself: whatever part of a release
  the sink has let through, what it has not been sent is still held;
- `ServicesStayTyped`: `ServicesTypeOK`. Several of the types are no matter of form and
  rest on an invariant each: a page that discovery hands out is a candidate because
  a row has a page exactly when it says "ready" (`RowOK` of `DiscoveryInv`; the assumption
  `PageAddresses` keeps the mark for no page apart from the candidates); a request for
  a picture that goes on has a candidate left (`PosterTypes`); a lookup has a file open
  exactly while it writes (`MetadataTypes`); a page's answer is among what its players
  gave (`RequestsOK`); a package that a run has both found and noted as added is one of
  which a look failed; what a capture read is a content the edits can have made
  (`ContentsInv`).

Only model-checked: the six liveness properties (`EventuallySettled`,
`PriorWorkerReturns`, `RequestsEnd`, `TransitionEnds`, `EventuallyResolved`,
`HeldButtonReleased`), for liveness under fairness and ENABLED are out of the
prover's reach. Of the findings' runs nothing is proved: they refute. That
`NoSubmittedJobIsLost` holds was also checked by TLC, on the instance of `pipeline`.

## 5. Findings

1. A claim that dies leaves a record in two states, which `_find` treats as an
   error, although the docs call claim atomic (`queue_one_state`).
2. A crash between promotion and sealing: the retry's replay commits an artifact
   that stays writable (`pipeline_immutable`).
3. A crash behind finalize and a retry with another outcome: the job's own
   artifact blocks it until it is quarantined (`pipeline_own_artifact`).
4. An upgrade does not restart a running worker, and its receipt says ACTIVE for
   the new commit (`install_active`).
5. A channel change between what a mode switch has seen and what it does: the live
   stream is paused and parked behind the kiosk, which the comment at
   `player.py:1747` rules out (`player_parked`).

What the models show besides, against a document or a comment, and without a run of
its own:

- `docs/home_edge/HOME_EDGE_MEDIA_SOURCE_SNAPSHOT.md:40` says that the runner
  "atomically replaces the latest local snapshot"; the code links the artifact
  once, and a run that finds one there is refused.
- `docs/home_edge/HOME_EDGE_DEBIAN_MEDIA_NODE.md:22` says that the rollback "removes only
  packages proven newly added by this operation". A `dpkg-query` or an append that
  fails when the script takes stock (`debian_media_bootstrap.py:574`) makes an installed
  package a missing one; it is then noted as added, and purged. `FailedRunRestores`
  excepts such packages (`unseen`).
- The comment at `iptv.py:299` says that a video "is paused and checkpointed" before mpv is
  reused. When mpv does not answer behind the pause, `save_current_progress` gives
  None and nothing is saved. A mode switch parks the video unsaved in the same
  way: `ParkedPlaceSaved` is stated for one with a snapshot.

And where no document says otherwise:

- A play that raises behind the start of the unit (`player.py:1221-1233`, outside the try)
  leaves the new file playing under the old title's current.json, and the monitor files
  its position under the old title. So does a restart in the middle of a play.
- Two hand-offs, or a hand-off and a resume, may choose the same revision, or publish one
  another's desired state through the shared temporary file. A source may then be
  paused although its place was never taken over: `MovedBeforePaused` is stated for a
  hand-off that nobody disturbs.
- A job can say "resolving" for ever: when a replace publishes another saver's copy, or a
  refresh raises behind its write and submits nothing, or a worker's load or save
  raises. `EventuallyResolved` is stated up to such a loss, and up to a restart.
- A place is not saved when a play or a stop falls between a mode switch's look and
  its save, for `switch_mode` takes no playback lock: `ParkedPlaceSaved` is stated
  for a switch that nobody disturbed.
- A read of a metadata cache that fails empties it: the file is written back with the
  new row alone. Overlapping lookups lose rows, too, and may leave the file half
  written: `RecordsKept` is stated up to the first overlap. The same is true of
  pictures (`SpoiledNeedsOverlap`) and of release ticks, which announce twice when
  they overlap (`AnnouncedOnce`).
- No paid search is ever made: `_brave_budget_reserve` raises a NameError at
  `media_discovery.py:1578`, where `time` is not imported.
- A discovery of a season whose cached pages are all of other seasons records "no
  verified sources" without any search (`media_discovery.py:2539-2552`), and that row
  answers other discoveries of the work until it is too old.
- Packages that a failed apt-get leaves unpacked or half configured are not noted and
  stay, although the run exits 50. Packages that a killed run has installed count as
  found for the next run, and `$DESKTOP_USER` at `debian_media_bootstrap.py:583` is quoted
  so that it stays literal.
- The player's monitor takes the history lock for its read and its write
  separately, so a record that a request makes in between is lost.
- Turning a release watch on again for a job without a full source makes the
  acknowledged episode pending, and it stays so.
- An event for Trakt in the same second as the one before it may be deleted with it
  (`trakt_sync.py:143`); a note made while a flush's transaction is open waits
  eight seconds and is then given up, which `player.py:543-546` passes over; the
  postponement at line 149 is by title and also delays a newer event.

## 6. Not modelled

- Runtime installer: the parts that no rollback touches (virtual environment,
  providers, `runtime.json`) are one step.
- Subprocess and Sona supervision, live runtime, doctor, intake and media analysis:
  pure or subprocess-bound; their outcomes are contents and failures of the
  pipeline.
- Player: volume, subtitles, audio tracks, seeks and other commands that pass from
  the phone to mpv and change no file.
- `media_search.py`: what would be left of it is a failure counter and its threshold,
  and a property would repeat the threshold.
- IPTV's catalogue and preferences: written as a whole under one lock.
- Discovery's scoring and matching, the parsing of pages and the TMDB season
  catalogue: which pages pass is a free choice. The database of paid requests, to which
  the code never comes.
- What an mpv command or a `systemctl` does after the time-out of its caller.
- Web runtime: routes that only pass a call on, and the rendering of pages.
- Home edge: layouts, the mode controller (one field, assigned as a whole), the
  signed transport and tunnel of the snapshot.
- Browser UI and Android client: presentation.
- Unreadable queue files and damaged history files.
