# GradLab: specifications of the durable run

GradLab trains reinforcement-learning policies on preemptible GPU tasks and keeps
everything that matters of a run in object-store buckets.  A *run* is attempted by one
task after another; each task runs a *supervisor* that starts the learner, publishes its
checkpoints, has them evaluated by Modal workers, and ends with a receipt.  This directory
holds TLA+ models of that machinery, the TLC configurations that check them on small
instances, and proofs checked by TLAPS.  Paths below are relative to `src/gradlab/`.

## 1. The system

| Component | State | Operations | Interacts with |
|---|---|---|---|
| Writer lease (`run_authority.py`, `run_supervisor.py`) | `writer-lease.json` in the control bucket; the `Lease` object, `last_lease_renewal`, `lease_misses`, `lease_lost` in a process | acquire, renew, release | supervisors, `reconcile` and `retry` commands, batch evaluator |
| Checkpoint evaluation (`run_supervisor.py`, `supervisor_ledger.py`, `evaluation_attempts.py`, `modal_eval_*.py`) | ledger rows (SQLite, dies with the task); intent, `attempt-N.json`, `dispatch-N.json`, `result.json`, `verified-result.json` per evaluation | ensure, reconcile, settle, submit, poll, expire, cancel, defer, recover | learner, Modal, buckets |
| Completion of a run (`run_supervisor.py`, `run_authority.py`) | `promotion.json`, receipt of each attempt, `terminal.json`, `cancel-request.json` | drain, promote, failure drain, terminal receipts, retry | all of the above |
| Public run index (`run_authority.py:1062`) | `index.json`: checkpoints and promotion | upsert by GET, HEAD, conditional PUT | supervisor, batch evaluator, operator |
| Goal catalog (`goal_catalog_projection.py`, `catalog_jobs.py`) | events, pages, generations, a pointer, acknowledgements | put event, reconcile | receipts, job queue |
| Metric delivery (`metric_store.py`, `supervisor_ledger.py`, `wandb_publisher.py`) | outbox frames, sealed segments, high-water marks | append, claim, publish, seal, recover, archive | learner, W&B, buckets |
| Learner supervision (`run_supervisor.py`, `supervisor_runtime.py`) | learner state documents, deadlines, process group | start, observe, stop, tear down | learner process |
| State archive (`state_archive.py`) | the learner's archive of environment snapshots: entries, blobs, views; curriculum cells; closure | capture, admit, sample, feedback, retain, seal; publish, restore | training engines, supervisor, buckets |
| Early stopping (`early_stop.py`, `training_lifecycle.py`) | detector state, decision, receipt | observe, decide | learner, supervisor |
| Job queue (`job_queue.py`) | jobs, subjects, events, worker row (SQLite), a lock file | enqueue, claim, checkpoint, finish, cancel, retry, recover, flush | every client on the machine |
| Job handlers (`publication_jobs.py`, `manual_evaluation.py`, `catalog_jobs.py`) | state files and external services | advance one step | job queue, Hugging Face, YouTube, Modal |
| Object store (`r2_store.py`) | objects with content etags | GET, HEAD, conditional PUT and DELETE | everything durable |
| Experiment commands (`experiment_cli.py`) | none | launch, retry, cancel, reconcile | dstack, buckets |
| Browser play (`play_application.py`, `playback_worker.py`, `play_web.py`) | in the worker process: phase, active session, candidate, generation, epoch; a queue and a thread per session | select, browse, cancel, stop, commands of the session, polls | web server over a pipe, catalog |
| Training engines, environments, policies, datasets | tensors, emulators | numerics and I/O | learner |

What is hard, and where it bites, is the `hazards` list of `PROJECT.json`.  In short: a
bucket offers only single-object atomicity, and two protocols (lease, index) read a
document and its etag in two calls; a response may be lost after its effect; clocks
differ; a task may die between any two bucket calls and the next one has only the buckets;
Modal calls cannot be listed, so a spawn whose answer is lost must be assumed to have
happened; results arrive late and out of order; an acceptance must stop training and close
admission wherever the iteration happens to be; a drain without deadline must end.

What makes each component correct:

* lease: a process that looks at its lease in time is the only one that writes, and stops
  before its lease ends; one that has been away too long is overtaken, never overtakes;
* evaluation: an attempt is dispatched once, a retry waits for the expiry, a verdict is
  given once and ledger and bucket agree on it;
* completion: the promoted checkpoint is the lowest accepted one, an acceptance stops the
  learner and closes admission for good, receipts say what the evaluations showed, and
  every attempt ends;
* index and catalog: no row or event is lost; metric delivery: each event is journaled and
  delivered, in order; job queue: a queued job has a worker or its client knows; handlers:
  a step that took effect is not done twice;
* browser play: an environment that was opened is closed by exactly one of the threads that
  may have it, and the browser is told what the host does.

## 2. Modules

| Module | What it is |
|---|---|
| `WriterLease` | the lease protocol, one action per bucket call |
| `EvalVerdicts` | abstract: what the buckets of a run promise about evaluations |
| `EvalLifecycle` | supervisor, ledger, buckets, workers, learner, retries of a run |
| `EvalLifecycle_proofs` | its theorems, the refinement of `EvalVerdicts` among them |
| `JobQueue` | the local job queue: store, worker election, `ensure_flusher`, `run_flusher` |
| `JobQueue_proofs` | its theorems |
| `PublicIndex` | `index.json` of a run: concurrent updates by GET, HEAD and conditional PUT |
| `GoalCatalog` | the catalog of a goal: events, the projector's rounds, the row of a run |
| `RunRecords` | composition of the two: the calls that write records, their threads and jobs |
| `RunRecords_proofs` | the theorems of all three |
| `PublicationServices` | YouTube and Hugging Face as the handler uses them (external) |
| `PublicationJob` | the player publication handler on these services, with queue and operator |
| `PublicationJob_proofs` | its theorems |
| `MetricDelivery` | a run's metrics: ledger, journal, W&B, recovery, archive |
| `LeaseAndMetrics_proofs` | the theorems of `WriterLease` and of `MetricDelivery` |
| `LearnerSupervision` | supervisor and learner process, signals, run directory, outcome of an attempt |
| `LearnerSupervision_proofs` | its theorems |
| `ManualEvaluation` | batches of evaluations: handler, W&B, promotion, receipt, beside training |
| `ManualEvaluation_proofs` | its theorems |
| `PlaybackHost` | the worker of browser play: calls of the server, loader, threads of the sessions |
| `PlaybackHost_proofs` | its theorems |
| `MC*` | values of constants for TLC |

### WriterLease

One step is one bucket call, so everything that can happen between GET and HEAD, HEAD and
PUT, or a PUT and its answer does.  An etag is a hash of the content, so the model compares
documents (`lease = local[h]` is `If-Match`).  `AcquireRead`/`AcquireHead`/`AcquirePut` are
`acquire_lease`; `Iterate` is the start of `active_iteration` and `drain_iteration`, which
renews when `LEASE_RENEW_SECONDS` have passed; `RenewPut`, `RenewPutUnanswered` and
`RenewPutFailed` are `renew_lease` succeeding, taking effect without an answer, and failing;
`RenewalFailed` is the counting of misses in `_renew_lease`.  Operators release
(`cmd_reconcile`), supervisors let the lease expire, batch evaluators renew or re-acquire
before their writes (`ManualEvaluationService._lease`).

A process is in phase `working` while it may write.  A supervisor that gave its lease up after
two misses is in phase `closing`: it looks no more but is not done writing, since the receipt of
an early stop is created before `lease_lost` is looked at, and in finalization the loss of the
lease only counts as a failure of an attempt whose receipt is still created (`LastReceipt`).
`Tick` lets time pass whatever a process is at: an iteration, a recovery or the close of W&B
may take any time.  What the protocol then still gives is what the properties say:
`Overdue(h)` names the processes that stayed away from their lease for more than `MaxGap`
(`late` remembers that until the next renewal or acquisition), and all that is promised is
promised of the others.  `MaxGap` is a parameter of the properties alone; no action has it.

### EvalLifecycle

One supervisor process at a time (the lease's job; a supervisor that loses the lease ends
without a receipt, which is `Crash`).  An iteration is a sequence of loops over rows of the
ledger; `stage` is the loop, `todo` its rows, fixed when it is entered as the code's
`SELECT` does, and one step processes one row with all its bucket calls, except where a verdict
follows a look at the result: the look in vain is a step (`LookInVain`, `look` is what it saw),
and what comes of it is another, with the clock, the Modal call and the verdict.  Between two
steps anything else may happen: results, expiries, cancel requests, new checkpoints, a crash.
`Raise` is what an exception does at that point of `run()`; `Fault` bounds how often one is
injected.  An injected failure happens with or without the effect of the call that raised.

| Code | Action |
|---|---|
| `_publish_checkpoints`, `_ensure_eval` | `Publish`, `PublishFails`, `EnsureRaises` |
| `_reconcile_evals_before_submission`, `_observe_result` | `Reconcile` |
| `_settle_closed_eval_admission` | `SettleClosed`, `SettleExpired` |
| `_submit_pending_evals` | `Submit`, `SubmitAmbiguous`, `SubmitRaises` |
| `_poll_evals`, `_mark_expired` | `Poll`, `PollExpired`, `SkipPoll` |
| `_cancel_outstanding_evals` | `Cancel`, `CancelCall` |
| `put_verified_eval_result`, `mark_eval_terminal`, `_close_eval_admission` | `PutVerified`, `MarkTerminal` |
| `active_iteration`, `drain_iteration`, `_drain` | `BeginIteration`, `Advance`, `LeaveLoop`, `EnterDrain` |
| `_failure_drain`, `_defer_unsettled_evals_after_failure` | `FailureDrainEnds`, `FailureDeadline`, `DeferUnsettled` |
| `_create_promotion`, `_validate_no_acceptance_evidence` | `Promote`, `NoPromotion` |
| `create_attempt_terminal`, `create_terminal` | `WriteAttemptTerminal`, `WriteTerminal` |
| `_recover_durable_state`, `cmd_retry` | `Start`, `StartFails`, `StartLearner` |
| `execute_attempt` | `WorkerUploads` |

Abstracted: a checkpoint is its position in the order of steps; contracts, hashes,
credentials and episode statistics are gone, a verdict is chosen freely from `Verdicts`;
`verified-result.json` names the moment it was made, so writing a second one always
conflicts; metric frames, the state archive and W&B appear only as "an iteration raised"
and `DeliveryFails`.  Training-only runs and early-stop receipts are in `LearnerSupervision`.

### JobQueue

A step is one transaction of the SQLite store or one operation on the lock file.  A client
makes one request, calls `ensure_flusher` and starts at most one worker, which has its name;
`cpc` is where the client stands in `ensure_flusher`, `wpc` where the worker stands in
`run_flusher`.

| Code | Action |
|---|---|
| `enqueue`, `retry`, `request_cancel` and the call of `ensure_flusher` after them | `Ask`; `CancelOnly` where the play server cancels without that call |
| `ensure_flusher`, `lock_is_held` | `Check`, `ProbeTakes`, `ProbeFindsHolder`, `ProbeReleases`, `Spawn`, `SpawnFails`, `SeeAcknowledged`, `Acknowledged`, `SeeExit`, `StartTimeout` |
| `run_flusher` up to the loop | `TakeLock`, `Refused`, `Recover`, `Register` |
| its loop, `claim_next`, `checkpoint`, `finish` | `Claim`, `ClaimNothing`, `Checkpoint`, `Finish`, `Sleep`, `IdleOver` |
| its exit under `BEGIN IMMEDIATE` | `LastLook`, `Unlock`, `Commit` |
| a killed process | `ClientDies`, `WorkerDies` |

`flock` has three kinds of holder because a probe really takes the lock: a worker that
starts meanwhile is refused, and a second client takes the probe for a worker.  `txn` is the
write lock the exiting worker keeps while it frees the lock file; every store call waits for
it.  `due` says that `available_at` has passed.  `lapse` is a history variable: it remembers
that since the last worker took the lock a process died, a lock attempt met a probe, or a
client was told `start_failed`; `Attended` and `QueuedIsServed` promise nothing then, because
the code does not either: a client whose probe met another client's probe is told
`already_running` though no worker may follow, until the next request starts one.

Abstracted: handlers are the results in `Reports` and the subject states in `Progress`, a
job has one subject, a store call that raises in the worker ends it (`WorkerDies`).  Left
out: job events and logs, listings, `exclusive_key`, `last_start_error`.

### PublicIndex, GoalCatalog, RunRecords

A record of a run (manifest, attempt receipt, verified evaluation, promotion) is written by
a call of `RunAuthority` on one of several machines.  The call puts a catalog event, then
the record with create-only semantics, a promotion also into the public index; it starts a
thread that reconciles the catalog, waits two seconds for it and leaves a catalog job if that
was not enough.  `RunRecords` composes the two views: `wpc` is where each call stands, each
call `w` has a projector of its name, the queue's worker and the operator's rebuild have one
each.

| Code | Action |
|---|---|
| `_update_public_index` | `StartUpdate`, `IndexGet`, `IndexHead`, `IndexRefuses`, `IndexPut`, `IndexConflict`, `IndexPutUnanswered` |
| `put_event`, `create_manifest` and its siblings | `RecordEvent`, `EventConflict`, `RecordStored`, `RecordConflict`, `UpdateIndex`, `IndexEnds` |
| `_schedule_goal_catalog_projection`, its thread, `enqueue_catalog_projection` | `Schedule`, `Joined`, `Enqueue`, `EnqueueFails` |
| `GoalCatalogProjector.reconcile` | `PointerGet`, `PointerHead`, `List`, `Verify`, `AlreadyProjected`, `Publish`, `PublishConflict`, `PublishUnanswered`, `ReadBackPointer`, `ReadBackGeneration`, `Acknowledge`, `Reconciled`, `ReconcileRaises` |
| `merge_goal_catalog_events` | `Precedes`, `Merge`, `RunRow` |
| `CatalogProjectionJobHandler.advance` in the queue's worker | `WorkerClaims`, `WorkerFinishes` |
| the `rebuild` command | `Rebuild`, `RebuildConflict` |
| publication of a checkpoint's row | `PublishRow` |
| a process that ends, its threads with it | `ProcessEnds` |

Abstracted: a document is a model value and its hash is itself; index and pointer carry a version,
which stands for their etag (both contain a time, so no two versions are equal); pages and
generations are named by their digest and nobody reads them before a pointer names them, so a
generation is the set of events it applies, and writing it is one step with the pointer.  An event
carries the manifest of an attempt: an end that of its own, an evaluation or a promotion that of
the newest attempt when it is built (`OfNewest`), so a record that is written again under a later
attempt is another write with the same document.  A row has one evaluation per checkpoint, the
later event in place of the earlier one (`Merge`).  `lean` are the events a rebuild put: they have
less in them than the event of the call that made the record, so the call, or the rebuild if it
comes second, raises (`AlwaysDiffers`, `MayDiffer`).  One run of one goal; what a row holds
besides its attempt, end, evaluations and promotion is left out.  Also left out: the run-level
manifest and the event of `create_terminal`, a `ValueError` of reconcile that fails a catalog job
for good, the cancellation of such a job, badges and variants.

### PublicationServices, PublicationJob

`advance` runs the phases of `publication_state.json` and saves after each; a step is one
call of a service with the save that follows, and two where a death in between matters
(`SaveSession`, `SaveVideo`, `SaveCommit`).  `file` is the document, `state` the worker's
copy, `pc` the place inside a phase.  `Claim`, `Finish`, `Recover`, `RequestCancel` and
`Retry` are the transactions of the job queue on this one job, `ResolveReads` and
`ResolveWrites` the two halves of `resolve_youtube`.

| Code | Action |
|---|---|
| `_advance_youtube`, `query_resumable`, `upload_chunks` | `OpenSession`, `SaveSession`, `Query`, `QueryUnidentified`, `UseResolved`, `SendChunk`, `ChunkUnanswered`, `SessionRefuses`, `SaveVideo` |
| `validate_processed_video`, thumbnail | `CheckVideo`, `UploadThumbnail` |
| `_advance_huggingface`: repository and commit | `ReadMain`, `CreateRepo`, `ValidateCreated`, `ReadCreated`, `Compare`, `CreateCommit`, `CommitUnanswered`, `RecoverCommit`, `SaveCommit` |
| its tags and verification | `CreateTag`, `TagConflicts`, `SaveTags`, `VerifyRelease` |
| collection and playlist, final audit | `AdvanceContainers`, `Audit` |
| `_checkpoint` and the cancel request | `Checked` |
| a call that raises, with or without its effect | `CallFails` |

The services are external: a session takes chunks in order and expires; a commit names its
parent and is refused when `main` has moved on; somebody else may create, fill or edit the
repository at any time.  Left out: validation of the snapshot, the release builder, evidence
and credentials, featured-dataset jobs, deletion of a repository, duplicate members of
collections and playlists, tags moved by others, the day after which a video still in
processing fails.

### MetricDelivery

One attempt at a time (the lease's job).  `rows` is the table `metric_frames`: an insert of
an event that is there adds no row and burns the number.  An iteration is seal, record the
segment, look at evaluations, publish; the learner appends between any two steps, and the
task dies between any two, which empties the W&B client's buffer and keeps the bucket and
W&B.  The ledger dies with it or outlives it: `run()` takes one up that it finds, resets the rows
that were being published (`reset_interrupted_metric_frames`) and keeps the marks (`Marks`).

| Code | Action |
|---|---|
| `enqueue_event`, `append_metrics` by learner and supervisor | `Learn`, `Repeat`; `PollEvals` for verified results |
| `_seal_metrics` | `SealMetrics`, `SealNothing`, `RecordSegment` |
| `_publish_wandb`, `publish_pending_frames` | `PublishFrame`, `PublishFails`, `Interrupted`; `Upload` is the client's thread |
| `_drain` and its second pass | `Supervise`, `DrainOn`, `Drained`, `DrainedAgain`, `FinishWandb` |
| `archive_metric_journals` | `CopySegment`, `DeleteSegment` |
| the marks a receipt needs | `CreateTerminal` |
| a task that is lost, with or without its ledger | `Die` |
| `_recover_durable_state` | `Recover`; `Journaled` is what it reads, `Inserted` and `Recovered` what comes of it |

`stage` is the supervisor's place, `mode` what its iterations are for.  The journal is a set of
segments; `Entries` are their lines, and `InOrder` puts lines, or row numbers, in the order the
code reads or selects them in.  `secured`, `ahead` and `lost` are history variables: what was ever
sealed; the events that were marked as published in a ledger that outlived its process while they
were still in the client's buffer (`Buffered`), which nothing publishes again; the last step of
W&B, when the ledger that was rebuilt did not agree with it (`Agrees`: it reaches that step and
has, up to there, no event that is missing at W&B).  A segment is at least two publications
(`LimitsAssumption`; 1000 and 250 in the code).  A measurement is not made again by a later
attempt, because its timings differ; two equal samples within an attempt are `Repeat`.  That W&B
drops a step it has passed is external and is what the comment of `wandb_publisher.py` says.  Left
out: frames that stay local, several rows of one evaluation, the failure drain, time limits on the
remote mark, and the offset of manual evaluations (it is in `ManualEvaluation`).

### LearnerSupervision

A supervisor and the process group of its learner, through any number of attempts and of
restarts of a task by dstack.  `pc` is the place in `run()`, `learner.phase` that in
`train.main`, `readyDoc`, `resultDoc` and `decision` are the files of the run directory that
both share.  A document names its attempt and process id, which a container that is started
again may repeat; the model adds `by`, the task it really comes from.  A signal is one step
with its effect, which depends on the phase: before the handler is installed and after it is
restored SIGUSR1 kills.

| Code | Action |
|---|---|
| `train.main`, `graceful_stop_signal_scope`, `TrainingSession` | `LearnerBoots`, `LearnerReady`, `LearnerStops`, `LearnerSaves`, `LearnerWrites`, `LearnerExits`, `LearnerFails` |
| `MetricStopController.evaluate` | `LearnerDecides` |
| `run()` up to its loop, `_archive_pre_spawn_learner_state`, `_start_learner` | `Start` (`KnownStop`, `NeedsLearner`) |
| `_request_finalize_only_stop` | `RequestFinalizeOnly` |
| the loop: `_observe_live_learner_state`, `_observe_cancel_request`, `_observe_result`, `_publish_checkpoints`, `_renew_lease` | `Observe`, `ObserveCancel`, `ObserveAcceptance`, `PublishStep`, `LoseLease`, `IterationRaises`, `LeaveLoop`, `Reaped` |
| the handler of SIGTERM, which asks for a stop in memory only | `Signaled` |
| `_resolve_early_stop_receipt`, `_validate_learner_exit` | `Resolve`, `Validate` |
| `_teardown_learner_group` | `GroupGone`, `GraceExpires`, `TermGraceExpires`, `KillGraceExpires` |
| `_failure_drain`, `_drain` and what follows, `_terminal_outcome`, the receipt | `FailureDrain`, `LeaseLostInDrain`, `Finish`, `DeliveryFails`, `WriteReceipt` |
| the dstack task, `cmd_cancel`, `cmd_retry` | `TaskStarts`, `TaskDies`, `RequestCancel`, `Retry` |

Abstracted: deadlines are not timed, one may pass whenever the wait it limits goes on;
evaluations are the input `Accept`; a drain is one step that publishes the learner's final
checkpoint, or may not when it is a failure drain; checkpoints are "one is public" and "a
final one is public".  A learner may fail, die, hang and leave processes behind that ignore
SIGTERM or even SIGKILL.  A lease lost in a failure drain ends the attempt without a receipt
(`LeaseLostInDrain`), one lost in finalization does not (`DeliveryFails`).  Left out: the
`stop_duration` of dstack after its SIGTERM (the task may die at any step anyway), the moments
between a receipt and the exit of its process.

### ManualEvaluation

A batch is a job of the queue of the machine it was asked on; `worker[q]` is where the
machine's worker stands in `advance_batch`, with what it has read: whether training has ended
(`early`), the offset of W&B numbers, the status of each checkpoint.  A step is one bucket,
Modal or W&B call; machines, training, Modal and the operator interleave.

| Code | Action |
|---|---|
| `claim_next`, `finish`, `recover_running`, `request_cancel`, `retry` | `Claim`, `Finish`, `WorkerDies`, `RequestCancel`, `Retry` |
| `advance_batch` up to the statuses: `_training_terminal`, `_lease`, `_event_seq_offset` | `Begin` |
| `_status`, `_terminal_status` | `Look` (`Pending`, `Show`), `Verify`, `Prepare`, `Submit`, `SubmitFails` |
| `_project_result`, `publish_pending_frames` | `AppendRow`, `Publish`, `PublishFails`, `UploadLost`, `Published`, `Record`, `RemoteLags` |
| `advance_batch` after the statuses | `Conclude`, `Cancel` |
| `_promotion_candidate`, `_finalize_promotion`, `_promote`, `_ensure_promotion_projection` | `Choose`, `Promote`, `Leader` |
| `_manual_terminal` | `WriteReceipt` |
| a call that raises outside of `_project_result` | `Raises` |
| training, its tasks, its promotion, its receipt | `TrainingAccepts`, `TrainingRestarts`, `TrainingEnds` |
| `execute_attempt`; deadlines; the lease's | `WorkerUploads`; `Expire`; `LeaseExpires`, `LeaseLapses` |

The lease is who has it (`WriterLease` has its protocol), W&B is the last number it has and
the checkpoints whose rows it took; a publication gives the next numbers after those that
earlier projections recorded.  `slipped` is a history variable: an upload was lost, the lease
lapsed during an advance, or a batch began while W&B had numbers no projection recorded; then
W&B may have dropped a row that was recorded as projected.  Abstracted: a result is one row
(the code logs a second one for start states); the dispatch record is only what a cancellation
needs, and that may fail anyway, so it is no state; numbers burned by repeated inserts only
leave gaps; a second write of `verified-result.json` always conflicts, as it names its moment.
Left out: eligibility checks and the admission of a batch (each is queued at first, and a queue
has a checkpoint in one batch only, `exclusive_key`), intent and request documents, the order in
which an operator lists checkpoints, the summary of the promotion at W&B.

### PlaybackHost

The process that holds policy and environment for `gradlab play`.  Three kinds of threads
share a `PlaybackHost`: the loop of `_worker_main` answers one call of the web server after
the other (`calls`), the loader resolves a source, builds a session and puts it in place of
the one that plays (`loader`), and each session has a thread of its own (`runner[l]`, the
session that load `l` built).  A section under the host's lock is one action, what comes
between two sections is another.

| Code | Action |
|---|---|
| `_begin_prepare` for `select_source`, `retry_source`, `set_contract_mode`, `start` | `OpenSource` |
| `submit`: `browse_sources`, `cancel_source`, `stop`, commands of the session | `Browse`, `CancelSource`, `Stop`, `Submit` |
| `stop()`, the rest of `browse_sources` | `TakeDown`, `StopsSession`, `ClosesSession`, `JoinsLoader` |
| `poll_response`, the end of `_worker_main` | `PollResponse`, `CloseWorker` |
| `_prepare_worker`, `_progress`, `_set_state` | `Prepared`, `PrepareFails`, `Progress`, `Report` |
| `_activate_candidate` | `Built`, `BuildFails`, `Discard`, `Install`, `StartFails`, `StopsPrevious`, `Replaced`, `Raised` |
| `WebPlaybackRunner._run`, `_drain_commands`, `_step_once` | `RunnerEnds`, `Applies`, `Works`, `HasWorked`, `Breaks` |

`generation` appears only as what it is compared for: `loader.stale` says that it, or
`_stopped`, changed since the loader began.  A command is a number with the place where it
or its answer is (`reply`); what a command asks of a session is left out but for the two
pauses `_begin_prepare` queues itself, since they take room in the queue.  `late` and
`unstarted` are history variables: a loader that was overtaken had the last word on the phase;
the start of a session raised.  A thread that raises outside of the `try` of `_step_once` is
`broken`: it is gone and the session is still the active one.  A command that meets a full queue
is `refused`, and with it the worker ends.  `told` says that the server asked for the end, which
together with these two and a session that was replaced or closed is all that
`CommandsAreAnswered` excepts.  Left out:
the web server with its clients, control and publication leases, the timeouts of its
calls, encoding and capture of frames, the catalog, an exception of `previous.close()`,
commands that are refused before they do anything.

## 3. Runs

| Run | Instance | What it shows |
|---|---|---|
| `writer_lease` | a supervisor, an operator, a batch evaluator, time 0..6, generations to 3, `MaxGap` the largest the TTL allows | a process that writes and has looked at its lease in time owns the lease object and writes before any clock calls it expired, unless a lease was taken over unread; a lease is removed only by the process it names |
| `eval_lifecycle` | 2 checkpoints, 2 evaluation attempts, 2 attempts of the run, 1 fault | ledger and bucket agree, receipts have evidence, an acceptance stops training and admission, retries wait for the expiry, the last attempt's result counts unless it came between the look and the verdict or too late; refinement of `EvalVerdicts` (`KeepsPromises`) |
| `eval_faults` | 1 checkpoint, 3 attempts of the run, 3 faults, fairness | no double spawn; every attempt of the run ends |
| `eval_unreported` | 1 checkpoint, 1 crash | *violated*: an accepted run stays without `terminal.json` (finding 1) |
| `job_queue` | 2 clients and workers, 2 jobs, 1 death, fairness | no job is left unattended, running jobs are those the leader advances, "started" is true, verdicts stand; a queued job is served unless older ones are put off and claimed again for ever, a worker without work exits |
| `run_records` | 7 casts of calls on one run with two attempts, one catalog fault, one lost index answer, one lapse | what is shown is stored, never taken back and complete, a checkpoint evaluated twice shown with its last evaluation; rows and promotion of the index are lost only through the GET/HEAD gap; a call that returned is shown or a job stands for it |
| `publication_job` | 2 chunks, 2 sessions, 2 faults, 2 deaths, 2 retries, 2 commits of others | one video, one release, success means all of it is there |
| `metric_delivery` | 3 events (one of an evaluation), 3 attempts with or without the ledger of the one before, 2 faults | nothing sealed is lost or reordered; an archived attempt has sealed and published all, and W&B has it but for what it had passed before (`ahead`) and what died in the client of a ledger that lived on (`lost`) |
| `learner_supervision` | evaluated run, outcome "failure", 2 attempts, 3 tasks, 1 fault, one process id, fairness | a terminal document is the own learner's, no drain beside a live learner group, an early stop stands, an own training cap was reached; a supervisor ends, except for a learner that hangs where no deadline is |
| `manual_evaluation` | 2 checkpoints, the first with 2 attempts, the second evaluated by training too; casts: a batch of both with a fault, a batch of one with a fault and 2 requests, two batches on one machine, two machines on one checkpoint with a request | a batch that succeeded is backed by verdicts, projections, a promotion and its receipt; no attempt is spawned twice or before the last one expired; what is recorded as projected is at W&B; before training ends nothing goes to W&B, and only a canceled or expired batch promotes or leaves a receipt |
| `manual_liveness` | one attempt each; a batch of both with a fault, two machines on one checkpoint; fairness | once training has ended a batch ends, unless one waits for a number nobody will use (`Overrun`) |
| `playback_host` | 2 loads, 3 commands, a queue of 1, fairness | an open environment has one owner that closes it; loader and commands at rest, the browser is told the truth; commands are answered but in four cases that have a name: session gone, thread broken, a full queue, an end the server asked for |

Bounds.  Lease: one unit is 10 s, so TTL 6 = 60 s; time 6 lets a lease be taken, missed twice,
expire and be taken over, and three generations let each process write once; a process may stay
away for all of that time.  The proofs remove the bounds.  Evaluation: two checkpoints are what
order of steps, promotion and "the other one is unevaluated" need; two attempts are what the code
allows (`max_attempts`); two attempts of the run give one recovery; one fault can fall at every
bucket call, and two on two checkpoints are too many states for a run: `eval_faults` has three
faults and three attempts of the run on one checkpoint.  Queue: two clients give a probe that
meets a worker's start, a probe or an exit, two jobs one that is passed over by retries of the
other; one death is a worker's or a client's, at any step.  The proofs remove the bounds of the
safety properties.  Records: two rounds of each loop (eight in the code) let a round be lost and
the loop be given up; a cast is the smallest set of calls in which one hazard happens (two
attempts without a queue, conflicting receipts, an operator's rebuild over a late evaluation, two
evaluations of one checkpoint, one written again under the next attempt beside a rebuild, a late
evaluation after a promotion, three updates of the index at once); the proofs remove all bounds
and casts.  Publication: two sessions are one more than a correct handler opens, two chunks give a
first and a last one, two commits of others create and fill a repository or edit a release twice.
Metrics: segments of two rows and publications of one make every event cross both limits; three
attempts are what a wrong renumbering of sealed rows needs to become visible, a result and one
burnt number what a wrong place of a result needs, two faults a publication that fails twice or in
two attempts.  The two measured events are symmetric.  The proofs remove the bounds.  Learner:
three tasks give a restart and a retry in one behaviour, and one process id makes every document
of an earlier learner look like the own one; one fault lets everything fail once beside
preemptions, hangs and early stops.  The invariants were checked once with two faults, which put a
failure into a teardown (5.1 million states).  Manual: a batch of two is what the count of rows
needs, two machines on one checkpoint what the create-once records are for; a cast has the batches
asked for together, and the faults and requests they meet, because all of them at once are out of
reach (12.7 million states without any fault).  Play: two loads are a session and the one that
takes its place while the first is still being closed, three commands are one that opens, one that
overtakes the loader and one that meets what it left; with a queue of one (64 in the code) a
single command or pause fills it.  Four commands (446,392 states) were checked once without an
error, and the proofs remove the bounds of the safety properties.

The type invariants of `EvalLifecycle`, `MetricDelivery`, `LearnerSupervision` and `PlaybackHost` are
stated in the modules, were checked and are proved; they are not among the runs' properties, which
are about hazards.  All runs allow termination
(`CHECK_DEADLOCK FALSE`): the system really stops when every process is gone or the
operator retries no more.

Fairness (`FairSpec`).  The supervisor is one thread in a loop that sleeps and goes on: weak
fairness of its steps taken together.  Training is bounded by its step budget: weak fairness
of the learner's exit.  Deadlines pass: weak fairness of `Expire`.  Nothing is assumed of the
workers (a call may never report), of the operator, or of the faults.
In the queue: every process is scheduled (weak fairness of a client's and of a worker's
steps), `available_at` passes (weak fairness of `BecomesDue`); `idle_since` outlives the
rounds of the loop, so the idle limit is reached however often the worker polls in between
(strong fairness of `IdleOver`).  Nothing is assumed of which job is claimed: `claim_next` takes
the oldest that is due, so older jobs that are put off again and again may pass over a younger
one for ever, and `QueuedIsServed` excepts just this.  Nothing is assumed of requests, deaths or
what handlers report.
The supervisor of `LearnerSupervision` is one loop too, its deadlines pass (`Observe`, weakly
fair, as a startup or an exit deadline passes only if the wait goes on), and a learner that does
not hang goes on.  `Wedged` names what no deadline of the supervisor covers: a learner that hangs
while it trains or saves, and `learner.wait()` after the loop was left because of the lease;
only `max_duration` of the task ends these.
In `ManualEvaluation` each worker goes on, an idle one takes up a waiting batch (weak fairness of
`TakeUp`; each machine has one batch in the run of liveness, so what a batch may suffer from
older ones is the exception of `QueuedIsServed` in `JobQueue`), deadlines pass and a lease nobody
renews expires; nothing is assumed of training, Modal and the operator.
In `PlaybackHost` the server keeps polling (`pump` in `play_web.py`; an answer comes and goes with the
session, so strong fairness of `PollResponse`), the loader's waits end, a transition ends one way
or the other (`HasWorked`, `Breaks`), and a thread that is not asked to stop and has not broken
drains its queue in every round of `_run` (strong fairness of `Applies`, since a round in between
makes the thread busy).  No user has to give a command.
The other modules state safety only and no fairness: their loops are bounded by rounds, and
what must happen in the end is the business of the queue that calls them again.

## 4. Findings

1. A task that dies between `create_attempt_terminal` and `create_terminal` leaves an
   accepted run without `terminal.json`; nothing creates it later and `retry` refuses.

Observations, met while modelling, that no run shows by itself:

* `acquire_lease` judges the document read by GET and matches the etag read by a later HEAD.  A
  process that renews or acquires in between loses an unexpired lease, and two processes write
  until its next renewal conflicts, although `tests/test_run_authority.py:412` has a
  foreign lease that is not expired refused and `SPECS.md:53` gives a run one writer.  This is the
  exception in `WriterOwnsLease` (`tookUnread`).
* Nothing bounds the time between two looks at the lease.  An iteration that publishes, recovers or
  archives for longer than the TTL, or `_finish_wandb` before the receipt
  (`run_supervisor.py:2614`, up to 300 s), lets the lease expire while its process goes on; one that
  takes the run over then writes beside it (the exception `Overdue`).  A lease lost in finalization
  only makes the attempt a failed one: its receipt is still created (`:2691`).
* A command that finds the queue of its session full raises outside of the `try` of `submit`
  (`play_application.py:491`): `_worker_main` reports the exception and ends, and with it the session.
  The server (`play_web.py:3369-3377`) waits for a `queue.Full` and means to answer "command queue is
  full".  This and every other command on its way stay without an answer (the exception `Overflowed`
  in `CommandsAreAnswered`).
* Recording or publishing a transition may raise outside of the `try` of `_step_once`
  (`play_web.py:1483-1513`).  The thread of the session is gone then, nobody looks at it, the session
  stays active, and its commands are never answered (`SessionBroke`).
* `_progress` compares the generation under the lock and sets the phase after it: a cancel or browse in
  between is overwritten, and the browser is told "loading" until the next command (`late`).
* A session whose `start` raises has already counted `session_epoch`: frames of the session that
  plays on carry the old one and are not shown, and the environment of the new one is not closed
  (`unstarted`).
* Commands queued at a session that is replaced or closed are never answered, though its thread may
  still apply them; an environment is closed ten seconds after its thread was asked to stop,
  whether the thread is still in it or not.
* A batch may wait for ever in `retry_wait`, its checkpoint `awaiting_projection`
  (`manual_evaluation.py:618`).  The mark a projection waits for is the offset plus the number of
  *all* rows of the batch's ledger.  Let the first of two results be published and its projection
  not be recorded (the remote summary lags, or closing W&B raises), and the second one be recorded
  with mark 2: the next advance starts from offset 2, inserts nothing, publishes nothing, and asks
  W&B for number 4.  One fault is enough; `Overrun` is this exception in
  `BatchEndsUnlessOverrun`, which is violated without it.
* `launch-experiment/SKILL.md:96` defers promotion and receipt of a batch while training holds
  the lease.  A batch that was asked to stop, or whose evaluations all expired, writes both at once
  and without the lease (the exceptions in `WaitsForTraining`).  Training then cannot promote one of
  its own, and an attempt that finds such a promotion ends without a receipt
  (`run_supervisor.py:2213`).
* Two accepted evaluations of one checkpoint, by training and by a batch, make `min()` in
  `_promotion_candidate` compare what cannot be compared: every batch of the run fails (`Twice`).
* A late result of attempt 1, uploaded after attempt 2 was prepared, makes every later advance
  raise: the batch fails, and so does its retry.
* The retry of a batch that was canceled while it ran conflicts with its own receipt, though the
  help of `jobs_cli.py` says that a canceled job can be retried.  A batch canceled between two
  advances ends without its handler: no receipt, and its Modal calls go on.
* An insert that meets its own event burns an AUTOINCREMENT number, and each attempt seals
  what it recovered again.  After two attempts that sealed the same event, the third gives
  later rows other numbers than the steps they have at W&B, and W&B takes an event a second
  time, which the comment at `wandb_publisher.py:305` rules out.  The same renumbering may
  lose a point: a new event gets a number W&B has passed already, is dropped there, and the
  marks compared for the receipt (`run_authority.py:1424`) are still equal.  Results do it without a
  duplicate in the journal: recovery records every verified result after the journal, so one that
  was not yet at W&B may get a number below the last step there.  This is the exception in
  `CompleteIsDelivered` (`ahead`).
* A ledger that outlives its process has rows marked as published that the W&B client had only
  buffered.  `reset_interrupted_metric_frames` (`metric_store.py:354`) resets those in
  `publishing` and not these: nothing publishes them again, and the marks of the receipt agree
  with the points missing at W&B (`lost`, the other exception in `CompleteIsDelivered`).
* That the last drain seals what the last publication may have brought rests on a segment having at
  least twice the rows of a publication: with three rows to two, rows stay unsealed when the drain
  ends, and the marks of the receipt differ.  The code has 1000 (`METRIC_SEGMENT_EVENTS`) and 250
  (`run_supervisor.py:1401`), and nothing compares them.
* `_request_learner_stop` sends SIGUSR1 as soon as there is a process, but the learner installs
  its handler only after imports, validation and set-up, and restores the default one before it
  ends.  A cancel request, an acceptance or the stop of a finalize-only recovery (sent right
  after the spawn) therefore may kill the learner it means to stop cooperatively, and the
  attempt ends in `resumable_failure`.
* Both attempts of an evaluation upload to one create-once `result.json`.  An upload URL
  lives 900 s longer than the attempt, so attempt 1 may report after attempt 2 was
  dispatched; its result is ignored (attempt id) and keeps that of attempt 2 out: the
  checkpoint counts as expired though it was evaluated (an exception in `LastResultCounts`).
* A result uploaded after `_observe_result` looked for it and before the verdict is written is
  lost: the checkpoint counts as expired, or canceled, though the bucket has the verdict of its last
  attempt (the exception `look` in `LastResultCounts`; `run_supervisor.py:1733` and `:1791`, `:1309` and
  `:1326`).
* When an attempt fails after its learner's final checkpoint is public, `cmd_retry` recovers
  `drain-only`: no learner runs, and without an acceptance or an early stop the outcome is
  `training_cap`, even when the learner had been stopped by a signal long before the cap
  (hence `OwnCapIsReached` speaks of the own learner of the attempt).
* A canceled run that has a public checkpoint and no final one cannot have a receipt: a task
  restarted after the cancel request starts no learner, and `TerminalReceipt.validate` refuses
  what it concludes (`Refused`).
* `run()` resolves, and may create, the early-stop receipt (`run_supervisor.py:2541`) before
  it looks at `lease_lost`, and then says that no further state was mutated (`:2611`;
  `LastReceipt` in `WriterLease`).
* A supervisor whose dispatch record fails knows nothing of the attempt it has just spawned:
  in the drain that follows a canceled run settles the evaluation without looking for the
  result of that attempt.
* dstack starts an interrupted task again in the mode it was submitted with; one whose final
  checkpoint is public then trains on in `resume-training` (`EvalLifecycle` restarts through
  `cmd_retry` only, `LearnerSupervision` has both ways).
* An update of the public index whose GET and HEAD meet different versions can take away a
  row or the promotion (`LostOnlyUnread` says that nothing else can); a promotion whose row
  is gone is refused with `ValueError` at every later try.  An internal retry of a PUT whose
  answer was lost sees a conflict though it was applied.
* A rebuild puts the event of an evaluation without the criteria that `create_verified_eval` puts
  in it, so the rebuild of a run whose newest attempt has a verified evaluation on record ends with
  "immutable goal catalog event conflicts with storage" (`RebuildConflict`), and a call that repeats
  after a rebuild raises the same (`EventConflict`).
* Of two evaluations of one checkpoint, training's and a batch's, the row has the later one only,
  though it may have rejected what the other accepted (`RowIsComplete` says `LastEvaluations`).
* The manifest of a new attempt replaces the row of the run in the catalog, with the
  evaluations and the promotion of the attempt before; `RowIsComplete` is about the newest
  attempt.  A projector's read-back fails if another one publishes in between, though its own
  generation was there.
* In a repository it has just created the handler checks the files before it reads the commit
  to build on: a commit in between becomes the parent and is overwritten
  (`NothingOverwritten` names this one step).
* A publication that was canceled while it ran keeps phase `canceled` in its file; its retry
  ends `failed`, though the help of `jobs_cli.py` says that a canceled job can be retried.
* `resolve_youtube` writes the document it read: late, it puts an earlier phase back after
  the job went on (`SucceededIsPublished` says that the services keep what was done).  A wrong
  video named by the operator blocks the job for good.
* `_advance_huggingface` adopts the head of `main` if its manifest is the request's; an edited
  head gets the tags and is refused only by the verification.
* A cancel request seen after the last chunk drops the id of the video; its session stays on
  record, and a query finds it.

## 5. Proofs

`LeaseAndMetrics_proofs` proves of `WriterLease`, for any sets of processes and any values of the
constants that satisfy `RolesAssumption`, `TimeAssumption` and `BudgetAssumption`, the type
invariant, the invariants `WritesBeforeExpiry` and `WriterOwnsLease` and the action properties
`ReleaseRemovesOwn` and `GenerationsIncrease`.

The argument.  `RenewEvery + 4 MaxGap + MaxSkew <= TTL` (`BudgetAssumption`) restricts no action:
it says for which `MaxGap` the exception `Overdue` is wide enough.  A lease is renewed on time, at
most one gap late; each of the next two looks, which miss, may be late again; the finalization
that goes on without a lease is excused another gap; and the clock the expiry is judged by may be
ahead. That alone is not inductive.  The strengthening `IInv` says besides where each process
stands: `Known` (a lease held is the own one and ends at most a TTL from now), `Called` (a call
under way has the clock reading of its last look, and one that is about to take the lease has
judged what it read), `Timed` (a process is overdue, or `Punctual`: the lease held was asked for
no later than the last renewal, and the misses since then took at most a gap each) and `Owned` (as
long as no lease was taken over unread, the document names the process whose lease no clock calls
expired, and ends no sooner than the lease it holds).  A takeover of a document that was read
waits for the expiry on some clock, and a writer that is not overdue is before it on every clock:
so it still owns the document.

`JobQueue_proofs` proves, for every set of clients, every set of jobs (numbers, their order of
age), any number of deaths and whatever handlers report, all safety properties of the run
`job_queue`, and besides `TypeOK`, `CanceledIsAsked` (a job is canceled only if someone asked for
it) and `SubjectsSettled` (subjects end as their jobs do): `Attended`, `RunningIsAdvanced`,
`StartedLed` and `VerdictsStand`.  The assumptions are that handlers report states the store
accepts (`ReportsAssumption`, `ProgressAssumption`) and that `None` names nothing.

The argument.  `Attended` alone says too little of an exiting worker: between its last look
and its exit it is no longer counted as present, so the proof needs that no job can come in
the meantime.  `IInv` adds: `Positions` (a worker that leads holds the lock file, one that
leaves holds the database too, a client that probes holds the lock as a probe, a client
that still owes its job a worker has not started one), `Drained` (while the database is
locked there is nothing unfinished), `Employed` (a worker has a job while it advances one and
only then), `RunningWhere` (a job is running where the leader advances it, or while a new
leader has not recovered yet), `Asked`, `Settled` and `Heartbeats` (the row of the last
worker names one that led).  `OneHolder` and `OneLeader` then give exclusion: two workers in
the loop would both hold the lock file.

`RunRecords_proofs` proves, for any sets of writes, updaters, checkpoints and casts, any number of
rounds, faults and lapses, every property of the run `run_records`: `ShownIsStored`,
`RowIsComplete`, `ReturnedIsShown`, `CatalogGrows`, `LostOnlyUnread`, and besides `RecordsTypeOK`,
`AcknowledgedIsShown` and `PromotionIsBacked`.  It assumes of the constants that writes are
finitely many (`WritesAssumption`), that projectors are the calls, the worker and the operator,
that promotions are updaters that are writes, that a cast's records of the past do not contradict
each other, and that `Absent` and `None` name nothing.

The argument.  The catalog reads its pointer and the pointer's etag in two calls, as the index
does, but it lists the events *after* the etag: `Covers` says that while the etag is still that of
the pointer, all the pointer shows is among what the projector has yet to verify or has found.
With `FoundStored` (what is found is stored and stays so, because records are create-only:
`StoreIsStable`), `EtagsOlder` and `AppliedListed` a switch of the pointer can only add
(`SwitchGrows`).  `ReadShown` and `AckShown` carry this over to the two ways to the
acknowledgements.  The index lists nothing, so only `ReadsOlder` holds of it: an updater's
document is older than the index or equal to it, hence a loss needs an etag of a version that was
not read.  `AllBacked` and `Brings` (a running promotion has its receipt) keep the promotion
backed even in documents that were overwritten.  `Carries` follows one event through the projector
that was started for it (`ThreadsCarry`, `WorkerCarries`): it was put and stored before
(`EventsFirst`, `JobsMade`), so it is listed, found, and in the pointer when the projector
succeeds; that is what `ReturnedIsShown` needs when a call joins its thread and when the worker
removes a job.  `RowIsComplete` holds of any finite set of events: `MergeCompletes` says that
merging the last event into the complete row of the others gives the complete row.  Hence the
function of complete rows solves the recursion of `RunRow`, and no other does: a smallest set on
which another differed (`SmallestOf`) would have a last event.  What is complete speaks of
checkpoints, the last evaluation of each, as the merge replaces one evaluation of a checkpoint by
the next; "last" rests on the assumption that no two records of a kind under one attempt have the
same time (`WritesAssumption`).

`PublicationJob_proofs` proves, for any number of chunks, sessions, commits of others, failed
calls, deaths and retries, the properties of the run `publication_job` and two more:
`PublicationTypeOK`, `PublishedOnce`, `SucceededIsPublished` and `NothingOverwritten`.

The argument.  There are up to three copies of the document: the file, the worker's, and the
one an operator is editing.  `FileOK`, `StateOK` and `EditOK` say that they have one session
and that each *fits*: a session before anything is uploaded, a commit on main once the phase
says so, video and tags there if it succeeded.  An old copy written back therefore still
fits, because no step takes a video, a commit or a tag back (`Kept`, `FitsStays`).  `SentOK`
(only the session of the file has chunks) gives one video.  One release commit needs the
places inside a phase (`PlacedOnMain`): while a worker is on its way to `create_commit` there
is none yet, because each way there looked at main and, when somebody moved it since, the
parent no longer stands.  `WhoCommits` then leaves two steps for `NothingOverwritten`.

`PlaybackHost_proofs` proves, for any number of loads and commands and any limit of the queue, the
type invariant and both safety properties of the run `playback_host`: `SessionsAreOwned` and
`PhaseIsTrue`.  It assumes of the constants that they are numbers
(`HostAssumption`).

The argument.  That an open environment has one owner is not inductive without the places of the
threads: `LoaderPlaced` (the loader has the newest load, and a session to replace only after an
installation), `CallsPlaced` (the loop closes a session only where it took one off), `FreshOK`
(what a loader has not built yet, and every load to come, has no environment), then `OpenIsHeld`
and `HeldOnce`, the two halves of the property.  `StagedOK` is the same for the staged model.
`PhaseOK` adds what a report on its way will say: "loading" is told only by a loader that is at
work or was overtaken, and "active" only with a session, because only a command takes the session
off and makes the loader stale in the same section.  The lemmas that end in *Does* say what an
action does to the fields of the records, those that end in *Keeps* that it keeps the invariant.

`EvalLifecycle_proofs` proves, for any number of checkpoints, starts and faults, every property
of the run `eval_lifecycle` and the safety property of `eval_faults`: `TypeOK`,
`LedgerAgreesWithBucket`, `EachAttemptSpawnedOnce`, `RetryOnlyAfterExpiry`, `FailureIsEvidenced`,
`AcceptanceStopsLearner`, `LastResultCounts` and the refinement `KeepsPromises`.  Of the constants
`CountAssumption` says that they are numbers, that there are one or two attempts as the code's
contract allows, and which verdicts there are.

The argument.  A ledger dies with its task, so what it says can only be right because the next
one is read back from the buckets.  `RecordOK` and `RowOK` say how much of it is: while the
supervisor is neither down nor in its failure drain (`Intact`), a row has the last attempt that
was prepared and the verdict that was verified; in a failure drain it may be behind, never ahead.
`PlaceOK` and `TodoOK` say which rows a loop may still have to do, `BucketOK` how attempts,
dispatches and results of one checkpoint are ordered, `FinalOK` which checkpoint is the learner's
last, `FailureOK` that a drain which ends without promotion or cancellation saw every published
checkpoint rejected.  `LookOK` says that a row that was looked at in vain is the one the
loop is at, and what the look saw: the bucket has that result still, or one that came since.
`AcceptanceCloses` is why an acceptance stops training: no supervisor runs
beside a durable acceptance without having closed admission.
The refinement takes every step to one of five kinds: it is quiet, gives a verdict, spawns,
promotes or writes the terminal receipt (`Quiet`, `Decides`, `Spawns`; the last two are one action
each).  Two branches of `Submit` needed care: the attempt beyond the last, which no row
reaches, and the adoption of an attempt record that is there already, which outside of a failure
drain is never taken because the row would know that attempt.

`LearnerSupervision_proofs` proves, for any number of attempts, tasks and faults, any of the
outcomes and both kinds of run (evaluated or training only), the type invariant and the safety
properties of the run `learner_supervision`: `StateIsOwn`, `GroupIsTornDown`, `EarlyStopStands` and
`OwnCapIsReached`.

The argument.  The run directory outlives tasks, and a document of an earlier learner may look
like the own one.  `PlaceOK` says for each place of `run()` which learner there can be, what
may be left of its group, and why the place was entered.  `LearnerOK` says that
once a task has spawned its learner no result of an earlier one is in the directory, because
`_archive_pre_spawn_learner_state` took it away, and that the learner's decision is the one on disk;
`EndedOK` says the same of the document the supervisor took up.  A terminal document then
has its cause: an outcome of the goal stands for a decision on disk, an external signal for a stop
the supervisor remembers why it asked for (`Asked`).  `EndOK` carries that through the drain
to the receipt, and `Receipts` from receipt to receipt: a later attempt consults the latest prior
receipt, so that an early stop stands is an argument about the greatest attempt below its own.

`ManualEvaluation_proofs` proves, for any machines, batches and checkpoints, any selection and any
number of attempts, the type invariant and every property of the run `manual_evaluation`:
`OneLiveEvaluation`, `ProjectedIsLogged`, `SucceededIsBacked` and the action property
`WaitsForTraining`.  It assumes that selections are nonempty sets of finitely many checkpoints
(`SelectionAssumption`) and that no machine is called "training" or `Free` (`OwnersAssumption`).

The argument.  All four properties are about what a worker read several calls ago.  `WorkersOK`
describes a worker by its place: what its batch, its lease, its attempt, its rows, its statuses and
its choice then are (`PlaceIs`, `AttemptIs`, `LeaseIs`, `RowsAre`, `StatusIs`, `ChoiceIs`).
`ApartOK` is what keeps two machines apart that share no queue: no two workers are
about to spawn the same attempt, because the attempt record is create-once and a worker that finds
it there takes the other way.  The rows rest on the lease: who may publish has it, and unless
something slipped W&B has no number above the worker's own, so nothing is dropped (`CallOK`,
`LogOK`).  `SuccessOK` needs that records only grow (`RecordsGrow`): what backed a batch when it
succeeded still does.  For `WaitsForTraining` it is enough that before training ended no worker is
where it may publish and no projection is recorded.

`LeaseAndMetrics_proofs` proves of `MetricDelivery`, for any finite set of events and results, any
number of attempts and faults and any limits that satisfy `LimitsAssumption`, the type invariant
and both properties of the run `metric_delivery`: `JournalIsKept` and `CompleteIsDelivered`.

The argument.  The journal outlives ledgers, so what a rebuilt ledger has in which order must be
said of the journal.  `JournalOK` says that every attempt sealed a beginning of *one* order of
events: while there is a ledger it is the order of its rows (`LedgerOrder`, and `MarkedOK`: the
own segments are the rows up to the mark), and between a death and the recovery the sealed
beginnings agree with each other (`Agreeing`).  A death that takes the ledger with it turns the
first into the second; one that leaves it changes neither (`Held`).  The recovery turns it back:
the first segments of the journal need not be those of the longest beginning, but a line read
later either was read before or follows all that was.  `CopiesFirst` is why a half-done archive
does not disturb this: the copies are read first, and they are the older segments.  `SealedOnce`
lets a copy and its original count as one.  `CountsOK` bounds, place by place, the rows that are
published and not sealed: an iteration of the drain seals before it publishes and leaves at most
`2 B - 1` of them, the idle time is one more, and the last sealing takes them all because `2 B <=
S`.  `DeliveryOK` follows a published row through the client's buffer to W&B, and says that W&B
has passed no row that it has not but those up to `ahead` and the events in `lost`, the ones a
ledger kept as published when the client died with them.  `Journaled` and `Inserted` are functions
given by cardinalities and quantifiers and not by recursion, so the lemmas about them (what is at
a place, what comes before it) need no induction over data, only a least or a greatest element and
the theorems of the library about finite sets.

Two attempts at this proof failed for a reason in the model, and TLC found the behaviours: a result
that recovery puts at a number W&B has passed (then `Agrees` only compared what the journal had),
and limits of a segment and of a publication that are too close (see the observations).

Only model-checked is liveness: `AttemptsEnd`, `QueuedIsServed`, `WorkersExit`, `SupervisionEnds`,
`BatchEndsUnlessOverrun` and `CommandsAreAnswered` (fairness and `ENABLED` are outside TLAPS).

`SucceededIsTerminal`, the property of `eval_unreported`, does not hold (finding 1).

## 6. Not modelled

See `components` of `PROJECT.json` for each part and its reason.  In general: tensor code,
emulators, serialisation and HTTP plumbing are not state machines TLC can say much about;
external services appear as the choices their answers leave; parsing and validation of
documents are sequential functions with unit tests.  Most of the repository is of this kind
(kernels, environments, policies, browser pages, commands, certification), so the models
cover a small share of its lines however much of its control they cover.

## 7. Plan

1. *(done)* `WriterLease` and its proofs; `EvalLifecycle` refining `EvalVerdicts`.
2. *(done)* `JobQueue` and its proofs; `PublicationJob` as one of its handlers, and its proofs.
3. *(done)* `PublicIndex`, `GoalCatalog`, `RunRecords` and their proofs.
4. *(done)* `MetricDelivery`: outbox, journal, W&B, recovery, archive.
5. *(done)* `LearnerSupervision`: state documents, deadlines, teardown, outcome of an attempt, with
   early-stop receipts and training-only runs.
6. *(done)* The proofs of `EvalLifecycle` and its refinement of `EvalVerdicts`.
7. *(done)* `ManualEvaluation`: batches of evaluations beside training.
8. *(done)* `PlaybackHost`: the worker process of browser play, and its proofs.
9. *(done)* The proofs of `LearnerSupervision` and `ManualEvaluation`.
10. *(done)* The proofs of `MetricDelivery`, with its folds replaced as those of `RunRow` were.
11. *(left)* The state archive; the web server of browser play with its control and publication leases.
