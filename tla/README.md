# Verification of the Cinematography Analyzer

TLA+ models of the analyzer's control plane, the TLC runs that check them on
small instances, and the theorems TLAPS proves about them for every value of
the constants. The reference is the code under `src/src/cine_analyzer/`; paths
below are relative to it unless they start with `docs/` or `tests/`.
`PROJECT.json` maps every definition to the lines it models.

## 1. The system

A client posts a video for analysis. The API (`api/`) inserts one row in
`analyses`, attempt 1 of each stage in `stage_runs`, and either leaves the row
to a *local poll worker* (`worker/runner.py`) or sends an *orchestrate* command
to *Celery* (`worker/dispatch.py`). Either way three stages run in order,
`sampling`, `report`, `aggregate`, each through one function,
`run_leased_stage` (`application/stage_execute.py`): it checks for a cancel,
skips a stage that succeeded, takes a lease (a fresh token and an expiry) on
the newest claimable attempt, does the work, extends the lease once, and
completes or fails the attempt by compare-and-set on the token. A retryable
failure under the cap opens the next attempt. `aggregate` decides the final
state of the analysis.

| Part | State it keeps | Operations | Hard behaviour | What makes it correct |
|---|---|---|---|---|
| State machines (`domain/jobs.py`) | none | the two transition tables | – | terminal states stay |
| Repository (`adapters/persistence/postgres.py`, `tables.py`) | `analyses.state`; `stage_runs` with state, token, expiry; artifacts, videos, shots, critiques | `claim_queued`, `acquire_stage`, `start/heartbeat/complete/fail/cancel_stage`, `insert_retry_attempt`, `set_analysis_state`, `request_cancel` | read-then-write in separate statements, lease expiry, unique indexes | a lease is honored until it expires; one success per stage; attempts are write-once |
| Leased execution (`application/stage_execute.py`) | the frame of a call: captured time, token, error | `run_leased_stage`, `honor_cancel` | eight transactions with anything in between; unread compare-and-set results; stale workers | one worker per stage, retries in order and capped, stale output never wins |
| Aggregation (`application/aggregation.py`) | none | `decide_analysis_outcome`, `persist_report_outcome` | decides on rows others still change | success only over results that exist |
| Local worker (`worker/runner.py`) | the stage it is at | `process_once` | several pollers, death, an error that ends the process | stages in order; a claimed analysis ends |
| Celery dispatch (`worker/dispatch.py`, `schedule.py`, `enqueue.py`, `celery_app.py`) | the broker's queue, unacknowledged tasks | `execute_orchestrate`, `execute_stage_payload`, `_handle_stage_error`, `_enqueue_next` | at-least-once delivery, lost workers, late acknowledgement | commands in order; a running analysis moves on |
| HTTP control plane (`api/`, `application/analyze.py`, `quota.py`) | rows it inserts | create, dedupe, quota, cancel, status, report, artifacts | four-step creation, count-then-insert | one analysis per identity; a row that exists can run |
| Ingest, artifact store, retention (`application/ingest.py`, `adapters/artifacts/filesystem.py`, `application/retention.py`) | files and rows | upload, `put`, `put_replaceable`, purge | file and row written apart, unlink before write | no row without its file |
| Sampling and shots (`application/pipeline.py`, `shots.py`, `sampling.py`, `adapters/media/pyav_extract.py`) | the shot set, the plan, the manifest | detect, merge, plan, decode, store | boundaries at the edges, rounding, frames without a time, cancels in between | shots cover the clip; a sample shows its own shot |
| Measurement and report (`application/report.py`, `spatial*.py`, `lighting_key.py`, `timeline*.py`, `tension.py`, ..., `adapters/vision/`) | the measurements of each shot | chromatic, spatial, motion, audio, timeline, report | validators nothing catches; missing pillars; values that cross a cut | a palette tie is all that is refused; the verdict names what is missing |
| Documents (`application/report.py`, `aggregation.py`) | report and timeline files, their rows, shots, summary, state | unlink, store, record; find, save, settle | two workers at one stage, readers in between | published ids resolve |
| Critic (`application/critic.py`) | stored critiques | `persist_critique_for_job`, `run_critique` | lookup, model call, insert, redelivery | one answer per document, of that document |
| Dashboard (`apps/dashboard/app.py`, `dashboard/`) | one page | poll, report, critique, shot, timeline | answers put together from several reads | a page shows one run |
| Native decoders and models, CLI, logging, settings | external processes, none | – | – | not modelled |

## 2. Modules

```
JobStates        the two state machines
  JobRepository  the statements on one analysis, as functions on rows
    StageExecute          run_leased_stage and honor_cancel, any caller
      LocalWorker         the poll worker's order of calls
      CeleryDispatch      tasks, queue, delivery
    ControlApi            the HTTP requests, and the runs as they see them
  Documents      what the report and aggregate stages leave for readers
    Critique              the critics
      DashboardSession    a page beside pipeline and critics
Ingest           uploads, the artifact store, the videos and artifacts rows;
                 ControlApi extends it
StageLedger      what the attempt rows promise; StageExecute refines it

Ordering         a set in an order, entries of a sequence by their places
Shots            intervals of a clip: from boundaries, merged, looked up
  SamplePlan     the requests for frames
    SamplingStages        detect, merge, plan, decode, store
  TensionTimeline         activities, tension, peaks, windows
Chromatics, SpatialTracks the two other pillars on one shot; these and
                          TensionTimeline extend Ordering
  ReportStages   the whole report of one clip; extends the four above

MCStageExecute, MCLocalWorker, MCCeleryDispatch, MCControlApi,
MCReportStages, MCDashboardSession                     instances for TLC
StageExecute_proofs <- StageLease_proofs
      <- LocalWorker_proofs, <- CeleryDispatch_proofs   the theorems
ReportOperators_proofs <- ReportStages_proofs
ControlApi_proofs, DashboardSession_proofs
```

**JobStates**: `ANALYSIS_TRANSITIONS` and `STAGE_TRANSITIONS` as functions;
a state is terminal when its set is empty.

**JobRepository**: the `WHERE` clauses (`Claimable`, `HoldsRow`, `MayExtend`,
`Cancelable`) and the rows each statement leaves. Attempt n of a stage is the
n-th element of a sequence. Tokens (uuid4) are naturals never issued twice.
The comparisons are the code's: a row can be claimed when `expires < now`
and a lease is active while `expires >= now`.

**StageExecute**: the centre. `analysis` is the analysis row, `runs` the stage
rows, `output` the lease under which each stage's artifacts were last written
(their storage keys hold no attempt number), `clock` the time, `seen` a cancel
request between its read and its write. `pc[w]` and `local[w]` are a worker's
program counter and frame. One action is one transaction:
`Check` (should_cancel), `Look` (list_stage_runs), `Acquire`/`AcquireNone`,
`Refuse` (the failure of the analysis when there is no lease), `StartStage`,
`WriteOutput`, `WorkDone`/`WorkFails`/`WorkCanceled`, `Decide`/`Settle` for
aggregate, `Heartbeat`, `Complete`, `Fail`, `RetryRead`/`RetryInsert`,
`FailJob`, and for a cancel `HonorList`, `HonorCancel`, `HonorFinish`. Callers
appear as `ClaimQueued`, `StartAnalysis`, `Call`, `CallHonor`, `Proceed`,
`FailAnalysis` and `Return`, in any order. The environment cancels, lets time pass,
kills workers (`Crash`), fails a database call or lets the work raise what is no
IngestError (`Raise`), and corrupts the report file (`Unreadable`). The time a caller captures before a claim is kept
(`moment`), because the expiry is counted from it.

**StageLedger**: attempts open one after another, each is closed at most
once, one success per stage. No leases, workers or time.

**LocalWorker** adds `at`, the stage a poller is at, and says which step of
StageExecute it may take. **CeleryDispatch** adds `queue`, `task` and `copies`:
`Receive`, `Ack`, the tasks' steps, `LoseWorker` (the command goes back,
`task_acks_late` with `task_reject_on_worker_lost`), `TaskRaised` and
`TaskError` (the command of a task that raised is acknowledged) and
`Duplicate` (a redelivery by the visibility timeout, or a second POST that saw
the analysis QUEUED).

**Ingest**: `POST /videos`. A request goes through `ReceiveUpload` (the
quarantined file), `Stage` (the staging file and its digest), `Dedupe`,
`Probe`, `Promote` (the rename to the canonical key), `PutProbe` and
`CommitProbe` (the probe output, staged and renamed by `put_bytes`),
`InsertOriginal`, `InsertProbe` and `InsertVideo`. `ephemeral` and `canonical`
are the files, `artifacts` and `videos` the rows. An adapter error or a client
that disconnects ends the request with its clean-up (`UploadFails`), the death
of the process without (`UploadDies`), and the retention command unlinks any
temporary file at any moment (`Purge`). `CommitProbeRaises` is a plain OSError of the
second commit: `put_bytes` aborts on an AdapterError only, so its file stays.

**ControlApi**: `POST /analyses` is `PostAnalysis`, `QuotaKey`, `QuotaCount`,
`Lookup`, `InsertAnalysis`, `RecordConfig`, `EnsureStages`, `Enqueue`, one
action per transaction; a cancel is `CancelRead` and `CancelWrite`, a report
`GetReport` and `ReadReport`; any of them may fail between two steps
(`RequestFails`). `analyses[k]` is the row of identity `k` (a medium and a
configuration) with the existence of its stage rows and summary, `commands`
the orchestrate commands, `reports` the report files. The run of an analysis
is the short sequence a request can observe: `Claim` (or `Discard`; under Celery
`OrchestrateRaises`, a task whose AdapterError is acknowledged and whose command is gone),
`LoadJob`, `RunStages` (the old report unlinked), `WriteReport`,
`SaveSummary`, `Settle`, with `Retake` for retries and takeovers and
`FailRun` and `HonorCancel` for the other ends. `Celery` selects the backend.

**Shots**, **SamplePlan**, **SamplingStages**: one clip with a duration, a
frame rate, the presentation times of its frames in decoding order and the
scenes a detector may find. `Detect` takes any of them; `AddCut` and `Close`
are the loop of `boundaries_to_shot_set`, `Merge` one round of
`merge_short_ranges`, `Plan` is `plan_samples`. `ConsumeFrame` answers the
requests a frame has reached, `EndOfFrames` the rest, `StoreSample` and
`StoreManifest` write them. The validators of the domain records are guards:
what they refuse ends in `pc = "refused"`, because nothing catches it.

**Chromatics**: letterbox, palette and lighting key of one shot. Proportions are
counts; the last one is in the code what repeated subtraction leaves of 1.0, and
`Dust` is the sign of its error, left open where it may have one.
**SpatialTracks**: IoU tracks, the primary subject, framing.
**TensionTimeline**: cut, audio and motion activity on one hop, robust
normalisation, effective weights, peaks, the window a client is served. `isclose` is
the test of `_peaks`, with `CloseInverse` for one over its tolerance. All
three are operators; **ReportStages** applies them shot by shot
(`MeasureChromatic`, `MeasureSpatial`, `MeasureMotion`), then `AnalyzeAudio`,
`BuildTimeline`, `AssembleReport`, the verdict (`Aggregate`) and a client's
read (`GetTimeline`), with `tick_cancel` and the failures in between. What a
frame shows is chosen freely per frame from the constants.

**Documents**: the same stages seen from the store. A worker of the report
stage is at `Measure`, `Unlink`, `Put` or `Record`, for the timeline and then
for the report; one of the aggregate stage at `Find`, `SaveShots`,
`SaveSummary` or `Settle`; each is one file operation or transaction. A document is named
by the number of the run that made it, so that "the same run" can be said of
files, summary, shots and critiques. `Take`, `Overtake`, `Refused`,
`Complete`, `FailTerminal` and `HonorCancel` are `run_leased_stage` around
them; `overrun` records that a live worker has lost its lease.

**Critique**: a critic reads the published report (`ReadReport`), looks for a
critique of it (`LookUp`), asks the model up to twice and stores what comes
(`SaveCritique`); `Redeliver` starts it again. **DashboardSession**: a page
polls the status, which `get_analysis` puts together from the job, the summary
and the runs (`PollJob`, `PollSummary`, `PollRuns`), and then reads report,
critique, shot and timeline; `Unreachable` is a request that failed in all
its attempts.

Operators marked *Deviation* are plausible bugs: each check that a property
can fail replaces one definition by its deviation. No specification uses them.

### What is abstracted

- StageExecute and its callers: one analysis. Rows of different analyses share
  nothing but the claim order. ControlApi has several.
- Ingest and ControlApi: each request is handled once. One API process would
  serialise uploads, since its handler blocks the event loop; the interleavings
  are those of two processes on one store and one database. The output of the probe
  names the temporary file, so that each upload has its own probe file. A clean-up
  whose own unlink fails is not shown. Requests that only read (status,
  critique, timeline, artifacts) are left out.
- ControlApi: one worker at a time per analysis; workers that overlap are
  StageExecute's subject. A worker that outlasts its lease while its successor
  settles can unlink a report that is being read (the `stale_overwrite`
  finding), which this module therefore does not show.
- A transaction is atomic. `FOR UPDATE SKIP LOCKED` skips a locked row; the
  model orders the two transactions instead.
- All processes read one clock. Time is in units of which the lease lasts
  `TTL`.
- Failure codes, progress, timestamps other than the expiry, and metrics are
  left out; so are the optional pillars, whose availability is the free choice
  between SUCCEEDED and PARTIAL in `Outcomes`.
- `honor_cancel`'s two compare-and-sets are one step, and so are a task's read
  of the rows and its send, and `should_cancel` with the call that follows it.
- The list `honor_cancel` cancels has an order in the code, none in the model.
- A worker that dies comes back with an empty frame. A local worker that an
  AdapterError or another error ended is assumed to be started again. Faults are bounded:
  an error that comes back at every attempt, as that of `palette_tie` does, is not
  what `ClaimedSettles` is about.
- `Unreadable` is a fault of one read, not a property of the file.
- SamplingStages and ReportStages: one clip, one worker; the other pipeline modules have the
  interleavings. Numbers are exact: times are whole milliseconds, ratios
  percents or thousandths, an exponential is a table, percentiles are those of the code in
  rationals. Colours are lightness only, and the k-means of OpenCV is an
  external stand-in: one clustering of the pixels. What floating point adds is in the
  model at the two places where it decides something, the last proportion of a palette
  (`Dust`) and the comparison of neighbouring points (`isclose`); elsewhere it is not
  checked.
- Documents: leases are abstracted to the holder of a stage (StageExecute has
  tokens, times and expiry), sampling has succeeded before Init, and the retry
  a stale worker may insert is in StageExecute only. The chromatic and spatial
  documents and the timeline's second row, stored under its content, are
  left out: no reader modelled here uses them. `link_artifact` writes a column nothing reads.
- A lookup of row and file is one step where only the file can change
  (`Find`, `Served`, `ReadReport`): ids stay, which `IdsResolve` checks, and
  ControlApi takes a read apart. Shot ids are the same in every run (uuid5).
- Critics start once a call of aggregate has returned. Critiques are ordered by
  insertion instead of `created_at`. The critic that computes nothing is left
  out, and a local critic whose process dies is not run again by the code; `Redeliver`
  is Celery's.

## 3. Runs

The runs of StageExecute, its callers and Documents have two workers (the hazards are races of a worker with a successor;
a third adds no new pair), `CHECK_DEADLOCK FALSE` (the system stops: the
analysis is terminal and everybody idle, or a bound is reached) and TTL 1, the
shortest lease that can be valid, expiring and expired. Bounds: `MaxTime` on the
clock, `MaxTokens` on leases granted, `MaxCancels` on cancel requests,
`MaxFaults` on faults, `MaxCopies` on duplicated commands, `MaxAttempts` the
code's own cap on attempts.

| Run | Instance | Shows |
|---|---|---|
| `stage_execute` | sampling only, `Overrun`, 2 attempts, 3 tokens, time 3, a cancel | `TypeOK`; `LeaseHonored`; `KeepsLedger`, the refinement of StageLedger: attempts are write-once and a stage succeeds once. Three tokens: a lease, its takeover, and a retry or second takeover |
| `stage_execute_timely` | report and aggregate in any order, no overrun, 2 attempts, 4 tokens, time 2, a cancel, a fault | `WorkExclusive`: one worker per stage. `RetriesInOrder`: earlier attempts ended retryably or canceled, the cap holds. `StaleOutputIsOrphan`: settled artifacts stay. The report is the stage that also rewrites another's output, and the one aggregate may find unreadable. Time 2 is enough for a lease to expire and be taken over; `LeaseState` hides what no later step and none of these properties reads |
| `local_worker` | LocalWorker, a cancel, a fault at time 0, time 2 | `StagesInOrder`; `ClaimedSettles`: a claimed analysis reaches a terminal state |
| `celery_dispatch` | CeleryDispatch, `Overrun`, a copy, a cancel, a fault, 2 attempts, time 2, 4 tokens | `CommandsInOrder`: a command exists only after every earlier stage's success. `SuccessHasResults`: SUCCEEDED or PARTIAL only over a written report and successful stages, whatever a stale worker, a cancel or a retry writes. Time 2 lets a lease of time 0 expire and be taken over; four tokens are one per stage and one for a takeover or a retry. States are compared by `LiveState`, which hides what no later step reads |
| `celery_liveness` | CeleryDispatch, a copy, a cancel, no fault, 6 tokens | `RunningSettles`: RUNNING always ends. `CancelStands`: an accepted cancel is never undone. Six tokens: two attempts of each stage, so no lease is ever refused by the bound |
| `control_api` | three requests over a playable and a corrupt medium and two configurations, Celery, quota 1, two failures or deaths | `ApiTypeOK`; `RowsHaveFiles`; `AnswersAgree`; `NothingLeftBehind`; `AcceptedCanRun` (but for a command that a task which raised has used up); `RunsItsConfig`; `FindsStageRows`; `ReportServed`. Three requests: two that race and one that comes before, between or after; two failures, so that both racers can fail and the third finds what they left |
| `report_stages` | three clips: ten frames a second with a short scene and sound; irregular frame times with one missing and a scene too short to stand; a rate of 30000/1001. Five pictures, three detections, three flows; `CloseInverse` 20 | `TypeOK`; `ShotsCover`, `SamplesInShots`, `OwnFrames`, `LongShotsDecode` (sampling); `RefusedOnlyByTie` (a validator stops a stage only over a palette whose last two counts are one); `TracksFollow`: no person joined with another in a track (`TracksContinuous`) or split over two (`TracksNotSplit`); `MotionInShot`; `TensionFromAvailable`; `PeaksHaveHighest`; `VerdictHonest`; `WindowKeepsEnds`. The values of the timeline are thousandths, of which a relative tolerance of 10^-9 tells all apart: with 1/20 points that are close do occur, and the highest one is then missing from the peaks. Deadlock is checked |
| `dashboard_session` | two stage workers, two critics, one page, a cancel, a fault; the first report is complete and a later one partial | `DocTypeOK`; `StatusAgrees`; `ProgressGrows`; `OneRunShown`; `IdsResolve`; `CritiqueIsOfReport`; `DuplicatesOverlap`. A fault is a crash, a failure, an overtake, a refused late command, a redelivery or a lost request: one of them makes a second run of the report, or a second pair of critics, which is what the properties are about |
| `stale_overwrite` | report only, `Overrun`, 2 attempts | violation, below |
| `redelivery_fails` | CeleryDispatch, a copy, no fault | violation, below |
| `worker_loss` | CeleryDispatch, one lost worker, no other fault | violation, below |
| `palette_tie` | as `report_stages` | violation, below |

`Overrun` says whether work may last longer than the lease that covers it. The
code extends a lease once, after the work, so it may; the timely runs check what holds
when the configured lease is longer than the work.

In `local_worker` the fault comes at time 0 (`CrashBy`), so that the bounded
clock can still expire the lease it leaves behind; four tokens are one for the
lost worker and one per stage, since a failure of any attempt fails a local
analysis.

Symmetry under permutation of the workers, or of the requests, is used in the
runs that check no liveness property. In `control_api` some of the valid media are
known from an earlier upload in one initial state and none in the other.

### Fairness

`LocalSpec`: a worker that can take a step takes one (the poll loop), and time
passes (a lease left behind expires). `CelerySpec`: a task that can step steps,
and a queued command is delivered (the broker). Weak fairness of each worker
is enough and is what an operating system gives. Nothing is assumed of faults,
cancels, copies, or, under Celery, time.

### What the violations show

- **`stale_overwrite`**: artifacts are replaced before any token is compared
  (`application/report.py:240`), so a worker that outlasts its lease replaces
  the artifacts of the attempt that succeeded.
  `docs/operations/quality-and-operations.md:153` says it cannot.
- **`redelivery_fails`**: a second delivery of a running stage's command gets
  no lease and fails the analysis (`stage_execute.py:132`).
  `docs/architecture/system-design.md:212` says tasks are idempotent.
- **`worker_loss`**: a worker lost between the completion of a stage and the
  enqueue of the next leaves the analysis RUNNING for ever: the redelivered
  command is skipped and enqueues nothing (`dispatch.py:200`).
  `docs/product-contract.md:119` says it resumes or reports failure. This run
  keeps fairness and allows no other fault.
- **`palette_tie`**: `_palette` ranks by count and gives the last swatch the remainder of
  1.0 (`opencv_chromatics.py:239`). For the counts 4, 1 and 1 that is 5.6e-17 more than
  the 1/6 before it, and `ChromaticValue` refuses the palette (`domain/chromatics.py:108`).
  The ValueError is no IngestError: `run_leased_stage` does not fail the attempt, a poll worker
  ends, and the colours of one shot cost the whole report.
  `docs/product-contract.md:98` says that a failed pillar leaves the others intact. The
  model leaves the sign of the error open, so that it also refuses ties that the code accepts;
  the one of the run is refused by the code.

### What the models say besides

- `request_cancel` reads without a lock and writes without a condition
  (`postgres.py:331`): FAILED, or SUCCEEDED, can become CANCEL_REQUESTED,
  although `docs/architecture/system-design.md:351` says that terminal states never
  move backward. `StatusAgrees` and `ReportServed` hold in spite of it.
- `create_analysis` commits a QUEUED row first and its configuration and stage
  rows after it (`api/routes.py:158`). A poll worker may claim the row in between and
  read the empty configuration as the default one (`postgres.py:811`). Under
  Celery the command comes last, and `ConfigKept` proves that it cannot happen.
- A worker that outlasts its lease mixes two runs on one page (the
  `overrun` in `StatusAgrees` and `OneRunShown`), but publishes no id without
  a row: `IdsResolve` holds through overtakes, because a row once inserted keeps its id.
- Of two critics that overlap, one that failed may come to lie over the other's
  accepted critique, which is then the one that is served.
- The commit of the probe output may raise a plain OSError (`filesystem.py:152`). The
  request ends, the temporary file of `put_bytes` stays for the clean-up command, and the
  original is stored without a video (`NothingLeftBehind` names the case).
- An orchestrate task that meets an AdapterError is acknowledged (`celery_app.py:44`): the
  analysis stays QUEUED with no command until a client posts it again (`AcceptedCanRun`).
- A maximum that rises above its left neighbour by less than `math.isclose` tells apart
  is skipped, and that neighbour, being lower, is none either: the highest point of a timeline
  may be missing from its peaks when there is another (`timeline.py:216`, `PeaksHaveHighest`).
- In shots shorter than five frames a sample may be lost (`OUTSIDE`): the
  guard band of two frames has no room. `LongShotsDecode` is the bound from which it cannot happen.
- `shot_index_at` gives a boundary to the shot that starts there; its comment
  says the outgoing one.
- After a blend two swatches of a palette may be closer than `delta_e_merge`;
  a plateau that later rises may put its first point among the peaks.
- The analysis is SUCCEEDED before its aggregate stage row is: a reader may
  see the result with that stage still RUNNING.

## 4. Theorems

Proved for any set of workers, any bounds, any TTL and any set `Stages` of the
three stages, from `StagesAssumption` and `BoundsAssumption` alone (LocalWorker and
CeleryDispatch add `Stages = StageName`). `Overrun` may be TRUE in all of them
but the three listed under "Without overrun" and their corollaries. The groups on
sampling, report and verdict are for any clips and configurations, the last one for any
workers, critics, cancels and faults.

**Types** (`StageExecute_proofs`): `TypeOK` is not inductive, because a frame
names a row by stage and attempt. `TypeInv` adds that the row exists whenever
the worker's pc will use it (`TypeInvariance`, `TypeCorrect`).

**Rows** (`StageExecute_proofs`): every step changes the rows in one of three ways
(`RowSteps`): not at all, one row that a statement may rewrite (`Rewrites`), or one PENDING
row appended (`Opens`). `LedgerKept`, the refinement of StageLedger, follows because a
rewrite starts from an attempt that is not terminal, the only one to SUCCEEDED is
`Complete`, past `IndexRefuses`, and an append takes the next number. `NoSkips` says no row is SKIPPED (no code writes it), which
`next_runnable_stage` needs.

**Leases** (`StageLease_proofs`): `LeaseHonored` needs `LeaseInv`: captured
times are not in the future, tokens held or stored have been issued,
two workers that hold different frames hold different tokens, and a holder's
row carries its token while its lease is unexpired. A claim by another worker uses
a time no later than the clock, so a row it may take has expired.

**Results** (`StageLease_proofs`): `ResultInv` remembers, for a worker whose
aggregate verdict is a success, that the report was written and the required
stages succeeded; both facts are stable, so the age of the decision is harmless.

**Cancels** (`StageLease_proofs`): `CancelStandsInvariance`. Each write of the analysis
row is looked at: a claim leaves a CANCEL_REQUESTED row as it is, every compare-and-set but the
one of `honor_cancel` expects RUNNING, and a late `CancelWrite` writes a
state of the same two.

**Without overrun** (`StageLease_proofs`): under the assumption `~Overrun`,
`WorkExclusiveInvariance`, `RetriesInOrderInvariance` and `SettledOutputStands`
(which gives `StaleOutputIsOrphan`) rest on `ExclInv`. Its parts need each other:
the guard of the clock says that no lease expires under a worker that acts on it
(`Timely`), so a claim finds no holder; a busy worker is at the latest attempt of
its stage (`BusyAtLatest`), so an append is only made by the one that is alone there;
and all attempts but the last are over (`RetriesInOrder`), so no earlier one can
be claimed. A stage that has succeeded thus has no busy worker, and nobody
replaces its artifacts. The run `stale_overwrite` shows that the assumption is
needed.

**Callers**: each step of LocalWorker and of CeleryDispatch is a step of
StageExecute or leaves it unchanged (`LocalRunsTheSharedPath`,
`CeleryRunsTheSharedPath`); the theorems about the ledger, the leases, the results, cancels and, without overrun,
exclusive work carry over as corollaries. The side invariants are `AtStage` (a poller inside the pipeline
knows its stage) and `TaskInv` (a worker's frame and its task agree).
`CommandsInOrderInvariance`: `OrderInv` extends `CommandsInOrder` to the stage
a worker is calling and to the moment between a success and the next
enqueue. `StagesInOrderInvariance` is the same for the local pipeline: a worker
at its n-th stage has seen the ones before it succeed (`Through`), and a success
stands whatever the other workers do.

**Control plane** (`ControlApi_proofs`), for any requests, media,
configurations, quota and faults. `ApiTypeCorrect` needs `TypeInv`: a request
past its first step carries a medium, or an identity.
`FilesPrecedeRows` needs `FileInv`, which says at each step of an upload what it
has already stored; stored files only grow (`Grows`), so one upload's step never
undoes what another relies on. `OneVideoPerContent` needs that the answer is a
row of the table, which is never replaced. `UploadsCleanUp` needs it too: the probe output
that a failed commit leaves lies over an original that was stored before. For the creation, `Better` states what any step may do to a row
(`RequestRows`, `WorkerRows`): no state returns to QUEUED, a configuration only becomes
that of the identity, stage rows and summary stay. `QueueInv` says what each
step of a creation has done, and that nothing is queued or claimed before its
row is ready; from it `AcceptedRuns`, whose one exception is a command that a raising task
has used up (`dropped`), `ConfigKept` and `StagesPrecedeRuns`. All three
assume `Celery`: the poll worker needs no command, and may claim a row that is
not ready.
`ReportsServed` needs `ReportInv`: file, then summary, then state, and a run
that is over stays over.

**Sampling** (`ReportStages_proofs`): `ShotsCoverClip` from `ShotInv`: the
intervals are chained, the boundaries left lie between what is covered and
the end of the clip, and joining two neighbours keeps the chain
(`AddRangeChained`, `JoinChained`, `MergeIsJoin`). `SamplesInTheirShots` from
lemmas about the plan: a clamped time stays in its shot (`ClampWithin`), and
every list of times has a member. `FramesAreTheirOwn` adds that all pending
requests lie after the frames already seen. The clip is any record of `Clip`.

**Verdict** (`ReportStages_proofs`): `VerdictsAreHonest` from `VerdictInv`, which
follows the measurements through the pillars: a shot counted as moving has
points of its own in the series (`MotionKnown`), sound and timeline have one
entry for each window of the clip (`SoundKnown`, which needs that the shots cover
it), and what the report calls complete was measured in every shot (`ReportKnown`).

**Operators of the report** (`ReportOperators_proofs`): the model computes with
recursive functions, and the library's induction theorems cannot be used (they take an operator).
So a definition by recursion is shown to have a solution first: `Recursion` on the
numbers up to n, `SubsetRecursion` on the subsets of a finite set, each by taking
the least number for which there is none (`LeastNatural`). From there: sums of sets
of numbers are bounded by their terms (`SumAtLeast`, `SumAtMost`), `InOrder` lists each member
once (`NumbersInOrder`), a quotient is monotone. On these rest what each algorithm
returns: `RegularFrames` (a frame within one frame duration of any instant), `PaletteRanked` (the
blended, merged and cut palette is one the record accepts, unless its last two counts tie), `CombinedBetween` (a weighted
mean lies between its terms), `HighestIsPeak`, `WindowShows`, `GreedyTakes` (each pair taken is
near enough, no two share track or hit, and `NoneLeft`: no good pair is left behind),
`TracksFollowed` (the tracks after all samples).

**Report** (`ReportStages_proofs`), one part of the invariant per stage, each resting on
the ones before it:
- `LongShotsAreDecoded` from `LongInv`: a request keeps two frame durations away
  from both cuts, and a clip whose frames come regularly shows one within the next.
- `ManifestInv`: each request of the plan is pending or has one answer, which
  no validator of the manifest refuses, and whose frames follow their requests.
- `ReportTypes` and `MotionStaysInShot` from `SeriesInv`: a point of the series is the
  middle of two frames of its shot, and two pairs have different middles.
- `StagesPassTheValidators` from `RefusedInv`: each pillar has one value for each
  shot it has passed (`CountKnown`); series and timeline are valid, and so is a palette
  whatever the error of its last proportion, unless its last two counts tie
  (`AheadIsRanked`).
- `WindowsKeepTheirEnds`, `PeaksAreHighest` and `TensionIsOfTheAvailable` from
  `TimelineInv` and `TensionInv`: the timeline is `build_timeline` of what was
  measured, and stays so.
- `TracksFollowOne`: `Followed` is an invariant over the samples
  of a shot. The last box of a track is its latest observation, and every observation
  of a sample has a track of its own.

They are for any clips, pictures, detections, flows, sounds and queries within the named
assumptions, which say what the producers give: a picture is unreadable or a matrix of
lightness values (`PicturesAssumption`), a detection a list of hits with valid boxes
(`DetectionsAssumption`), magnitudes are not negative (`FlowsAssumption`), and so on. The
palette has at most five clusters, the code's own limit.

**Documents and readers** (`DashboardSession_proofs`). Each invariant is a part
that a step may disturb, with one lemma for the steps that move a worker:
- `PublishedIdsResolve` from `PublishedIds`: the timeline's row is there
  before the report's, and every frame's ids are those of the rows. No
  assumption about leases.
- `CritiquesOverlapOnly` and `CritiquesOfTheirReport` from `CriticsKnow`: a
  critic at the model has seen every row there was.
- `ShownProgressGrows`, and the first half of `StatusesAgree`, from
  `Workplaces` (a worker is at a step of its stage, and aggregates a report
  that is there) and `PageBacked` (what a page has read is backed by the
  tables): a stage that has succeeded stays so (`StagesStay`).
- The rest of `StatusesAgree`, and `PagesShowOneRun`, from `OneRun`, an
  implication from `~overrun`: a busy worker holds its stage or the stage is
  canceled (`WorkersAlone`), so nobody writes a file once the report stage has
  succeeded, and whatever a row or a reader names is that report (`Final`).

**Model-checked only**: the two liveness properties, `ClaimedSettles` and
`RunningSettles`, because fairness is out of the prover's reach. Every other property of
the passing runs is a theorem. What the violation runs refute is false under their instance: `StaleOutputIsOrphan`
is proved under `~Overrun` only, `RunningWorkStands` and `ChromaticNeverFails` not at all. `CeleryTypeOK` is proved
and checked by no run.

## 5. Plan

Done: the leased stages and their callers, the control plane, the algorithms of the
report, documents, critics and page, and a proof of every safety property. What
would come next:

1. **A composition** of StageExecute and Documents, with Documents' holder as
   the abstraction of a lease.
2. **The rest of the critic**: the rules of `audit_critique` on claims and
   evidence, as operators.
3. **Quota**: a bound on how far concurrent creations go past the cap.
4. **Floating point**: the exact sign of the palette's last error, and the rounding of
   thousandths.

## 6. Not modelled, and why

Native decoders, colour conversion, clustering, optical flow and person
detection work on pixels and floating-point data, out of TLC's reach; the models
choose their results freely and start where the Python code takes over. The CLI
and its SQLite store run one call after another. The wording of a critique and
of the dashboard, and `audit_critique`'s reading of a text, are choices
between an accepted and a rejected answer. Worker services, logging, metrics
and settings keep no state the pipeline reads back. Of the repository
everything that changes an analysis, its stages or its documents is an action;
readiness probes, the artifact stream, `delete_canonical_blob` and requests
that only read are left out.
