------------------------ MODULE LearnerSupervision ------------------------
(***************************************************************************)
(* How a supervisor (RunSupervisor) starts, watches, stops and tears down  *)
(* its learner, and what the end of the learner makes of the attempt.  The *)
(* two processes share a run directory: the learner writes there that it   *)
(* is ready, that a metric condition stopped it, and how it ended.  The    *)
(* supervisor speaks to it with signals only: SIGUSR1 sets a flag once the *)
(* learner has installed its handler, and kills it before that and after   *)
(* the handler is gone.  dstack runs the task of an attempt again after an *)
(* interruption; an operator retries a run with a new attempt.             *)
(*                                                                         *)
(* Deadlines are not timed: one may pass whenever the wait that it limits  *)
(* goes on.  The verdict of an evaluation is an input (EvalLifecycle).     *)
(***************************************************************************)
EXTENDS Integers, FiniteSets

CONSTANTS
  EvalRequired,  \* the run's checkpoints are evaluated
  Outcomes,      \* outcomes of the configured early-stop conditions
  Pids,          \* process ids a learner may get
  MaxAttempts,   \* bound on attempts of the run
  MaxTasks,      \* bound on supervisor processes of the run
  MaxFaults      \* bound on injected failures

ASSUME SupervisionAssumption ==
  /\ EvalRequired \in BOOLEAN
  /\ Outcomes \subseteq {"success", "neutral", "failure"}
  /\ MaxAttempts \in Nat \ {0} /\ MaxTasks \in Nat \ {0} /\ MaxFaults \in Nat

VARIABLES
  \* in the buckets
  cancelRequest,  \* attempts with a cancel-request.json
  accepted,       \* an accepted verdict is there
  stepPublic,     \* a checkpoint of the run is public
  finalPublic,    \* one of purpose "final" is
  stopReceipt,    \* stopReceipt[a]: outcome in early-stop.json of attempt a
  receipt,        \* receipt[a]: terminal.json of attempt a
  \* dstack
  attempt, mode,  \* the latest attempt and its recovery_mode
  status,         \* of its task
  tasks,          \* supervisor processes so far
  \* the supervisor
  pc,             \* where run() is
  canceled,       \* cancel_requested
  closed,         \* eval_admission_closed
  early,          \* the early-stop receipt the attempt goes by
  lease,          \* lease_lost
  failure,        \* stop_reason of the exception that ended the attempt
  sent,           \* last signal of the teardown
  ended,          \* learner_terminal_document
  \* the learner, and processes of its group that do not end with it
  learner, children,
  \* the run directory
  readyDoc, resultDoc, decision,
  faults          \* failures so far

durable == <<cancelRequest, accepted, stepPublic, finalPublic, stopReceipt, receipt>>
task == <<attempt, mode, status, tasks>>
memory == <<canceled, closed, early, lease, failure, sent, ended>>
group == <<learner, children>>
docs == <<readyDoc, resultDoc>>
disk == <<docs, decision>>
vars == <<durable, task, pc, memory, group, disk, faults>>

None == "none"
Attempts == 1..MaxAttempts
Reasons == Outcomes \cup {"external_signal", "resource_exhaustion", "failed"}

\* learner-ready.json and training-result.json; by is the task whose learner
\* wrote the document, which the document itself cannot tell.
NoDoc == [attempt |-> 0, pid |-> 0, by |-> 0, reason |-> None]

NoReceipt == [state |-> None, reason |-> None, learner |-> None]

\* The learner process: the phase train.main is in, the stop flag, the decision
\* of its metric conditions, the terminal reason, whether its terminal model is
\* in the ledger, whether it makes no progress any more, and its exit code.
NoLearner == [phase |-> None, pid |-> 0, flag |-> FALSE, decided |-> None,
              reason |-> None, saved |-> FALSE, hung |-> FALSE, code |-> None]

Handling == {"setup", "training", "saving", "saved"}
Alive == learner.phase \in {"boot", "written"} \cup Handling
GroupAlive == Alive \/ children # None

Gone(code) == [learner EXCEPT !.phase = "gone", !.hung = FALSE, !.code = code]

Fault == faults < MaxFaults /\ faults' = faults + 1

-----------------------------------------------------------------------------
(* Signals *)

\* request_learner_stop: SIGUSR1.  The handler is installed between "boot" and
\* "setup"; "written" covers the moments before and after it is restored.
AfterStop ==
  CASE learner.phase = "boot" -> {Gone("signal")}
    [] learner.phase \in Handling -> {[learner EXCEPT !.flag = TRUE]}
    [] learner.phase = "written" -> {learner, Gone("signal")}
    [] OTHER -> {learner}

RequestStop == learner' \in AfterStop

\* terminate_learner_group and kill_learner_group.
Terminate ==
  /\ learner' = IF Alive THEN Gone("signal") ELSE learner
  /\ children' = IF children = "plain" THEN None ELSE children

Kill ==
  /\ learner' = IF Alive THEN Gone("signal") ELSE learner
  /\ children' = IF children = "stuck" THEN children ELSE None

-----------------------------------------------------------------------------
(* The learner: train.main, graceful_stop_signal_scope, TrainingSession *)

Runs(phase) == learner.phase = phase /\ ~learner.hung

LearnerUnchanged == UNCHANGED <<durable, task, pc, memory, children, decision>>

Doc(reason) ==
  [attempt |-> attempt, pid |-> learner.pid, by |-> tasks, reason |-> reason]

\* Unlinks what an earlier learner left, then installs the handler.
LearnerBoots ==
  /\ Runs("boot")
  /\ learner' = [learner EXCEPT !.phase = "setup"]
  /\ readyDoc' = NoDoc /\ resultDoc' = NoDoc
  /\ LearnerUnchanged /\ UNCHANGED faults

\* mark_ready
LearnerReady ==
  /\ Runs("setup")
  /\ learner' = [learner EXCEPT !.phase = "training"]
  /\ readyDoc' = Doc("ready")
  /\ LearnerUnchanged /\ UNCHANGED <<resultDoc, faults>>

\* MetricStopController.evaluate: no decision after a stop was requested.
LearnerDecides(o) ==
  /\ Runs("training")
  /\ ~learner.flag
  /\ learner' = [learner EXCEPT !.flag = TRUE, !.decided = o]
  /\ decision' = [decision EXCEPT ![attempt] = o]
  /\ UNCHANGED <<durable, task, pc, memory, children, docs, faults>>

\* TrainingSession.terminal_reason  (The mutant does not name the outcome.)
BuggyTerminalReason ==
  IF learner.decided # None THEN "early_stop"
  ELSE IF learner.flag THEN "external_signal"
  ELSE "resource_exhaustion"
TerminalReason ==
  IF learner.decided # None THEN learner.decided
  ELSE IF learner.flag THEN "external_signal"
  ELSE "resource_exhaustion"

\* A safe boundary after a stop request, or the end of the budget.
LearnerStops ==
  /\ Runs("training")
  /\ learner' = [learner EXCEPT !.phase = "saving", !.reason = TerminalReason]
  /\ LearnerUnchanged /\ UNCHANGED <<docs, faults>>

\* save_bundle and record_checkpoint of the terminal model.
LearnerSaves ==
  /\ Runs("saving")
  /\ learner' = [learner EXCEPT !.phase = "saved", !.saved = TRUE]
  /\ LearnerUnchanged /\ UNCHANGED <<docs, faults>>

\* finalize
LearnerWrites ==
  /\ Runs("saved")
  /\ learner' = [learner EXCEPT !.phase = "written"]
  /\ resultDoc' = Doc(learner.reason)
  /\ LearnerUnchanged /\ UNCHANGED <<readyDoc, faults>>

\* The code of the process: an exception is reported and raised again.
LearnerExits ==
  /\ Runs("written")
  /\ learner' = Gone(IF resultDoc.reason = "failed" THEN "error" ELSE "ok")
  /\ LearnerUnchanged /\ UNCHANGED <<docs, faults>>

\* An exception in the learner: fail(), once there is a session.
LearnerFails ==
  /\ Runs(learner.phase) /\ learner.phase \in Handling \cup {"boot"}
  /\ Fault
  /\ IF learner.phase = "boot"
     THEN learner' = Gone("error") /\ UNCHANGED resultDoc
     ELSE /\ learner' = [learner EXCEPT !.phase = "written", !.reason = "failed"]
          /\ resultDoc' = Doc("failed")
  /\ LearnerUnchanged /\ UNCHANGED <<readyDoc>>

LearnerDies ==
  /\ Alive
  /\ Fault
  /\ learner' = Gone("signal")
  /\ LearnerUnchanged /\ UNCHANGED docs

LearnerHangs ==
  /\ Alive /\ ~learner.hung
  /\ Fault
  /\ learner' = [learner EXCEPT !.hung = TRUE]
  /\ LearnerUnchanged /\ UNCHANGED docs

\* Processes the learner started that will not end with it: SIGTERM ends the
\* plain ones, SIGKILL all but those stuck in the kernel.
ChildrenLinger ==
  /\ Alive /\ children = None
  /\ Fault
  /\ children' \in {"plain", "deaf", "stuck"}
  /\ UNCHANGED <<durable, task, pc, memory, learner, disk>>

LearnerProgress ==
  \/ LearnerBoots \/ LearnerReady \/ LearnerStops
  \/ LearnerSaves \/ LearnerWrites \/ LearnerExits

-----------------------------------------------------------------------------
(* The start of a task *)

Prior(a) == {b \in Attempts : b < a /\ stopReceipt[b] # None}

\* _authoritative_early_stop_receipt of this attempt, else
\* _prior_early_stop_receipt: that of the latest attempt before that has one.
\* (The mutant forgets the earlier attempts.)
BuggyKnownStop == stopReceipt[attempt]
KnownStop ==
  IF stopReceipt[attempt] # None THEN stopReceipt[attempt]
  ELSE IF Prior(attempt) = {} THEN None
  ELSE stopReceipt[CHOOSE b \in Prior(attempt) : \A c \in Prior(attempt) : c <= b]

\* dstack starts a container, for a new attempt or again after an interruption;
\* the run directory may be that of an earlier one.
TaskStarts ==
  /\ status = "queued"
  /\ tasks < MaxTasks
  /\ status' = "running" /\ tasks' = tasks + 1
  /\ pc' = "start"
  /\ \/ UNCHANGED disk
     \/ readyDoc' = NoDoc /\ resultDoc' = NoDoc
        /\ decision' = [a \in Attempts |-> None]
  /\ UNCHANGED <<durable, attempt, mode, memory, group, faults>>

\* _archive_pre_spawn_learner_state.  (The mutant leaves the documents.)
BuggyArchived(doc) == doc
Archived(doc) == NoDoc

\* _start_learner
StartLearner ==
  /\ \E p \in Pids :
       learner' = [NoLearner EXCEPT !.phase = "boot", !.pid = p]
  /\ readyDoc' = Archived(readyDoc) /\ resultDoc' = Archived(resultDoc)
  /\ UNCHANGED <<children, decision>>

\* run() up to its loop: what is durable decides whether a learner starts, and
\* whether it starts only to finalize.
NeedsLearner(provisional) ==
  /\ attempt \notin cancelRequest
  /\ ~(finalPublic /\ (mode = "drain-only" \/ provisional))

Start ==
  LET provisional == (EvalRequired /\ accepted) \/ KnownStop # None IN
  /\ pc = "start"
  /\ early' = KnownStop
  /\ closed' = (EvalRequired /\ accepted)
  /\ canceled' = (attempt \in cancelRequest)
  /\ IF NeedsLearner(provisional)
     THEN StartLearner /\ pc' = IF provisional THEN "finalize" ELSE "watch"
     ELSE pc' = "resolve" /\ UNCHANGED <<group, disk>>
  /\ UNCHANGED <<durable, task, lease, failure, sent, ended, faults>>

SupervisorUnchanged == UNCHANGED <<durable, task, disk, faults>>

\* _request_finalize_only_stop
RequestFinalizeOnly ==
  /\ pc = "finalize"
  /\ RequestStop
  /\ pc' = "watch"
  /\ SupervisorUnchanged /\ UNCHANGED <<memory, children>>

-----------------------------------------------------------------------------
(* The loop of run() *)

\* An exception in run() once the loop began.  Without a learner there is
\* nothing to tear down.
Raise(cause) ==
  /\ failure' = cause
  /\ IF learner.phase = None
     THEN pc' = "failing" /\ UNCHANGED learner
     ELSE pc' = "teardown" /\ RequestStop

\* _parse_learner_state of a document of a learner that was just spawned.
Own(doc) == doc.attempt = attempt /\ doc.pid = learner.pid

\* What _observe_live_learner_state may raise.  The two deadlines are that of the
\* start-up and that of the exit after a result.  (The mutant has
\* none for the start-up.)
BuggyNoStartupTimeout ==
  IF resultDoc # NoDoc
  THEN IF Own(resultDoc) THEN {"teardown_timeout"} ELSE {"invalid_result"}
  ELSE {}
ObservedFailures ==
  IF resultDoc # NoDoc
  THEN IF ~Own(resultDoc) THEN {"invalid_result"}
       ELSE IF resultDoc.reason = "failed" THEN {"learner_failure"}
       ELSE {"teardown_timeout"}
  ELSE IF readyDoc = NoDoc THEN {"startup_timeout"}
  ELSE IF Own(readyDoc) THEN {} ELSE {"invalid_result"}

Observe ==
  /\ pc = "watch" /\ Alive
  /\ \E f \in ObservedFailures : Raise(f)
  /\ ended' = IF resultDoc # NoDoc /\ Own(resultDoc) THEN resultDoc ELSE ended
  /\ SupervisorUnchanged
  /\ UNCHANGED <<canceled, closed, early, lease, sent, children>>

\* _publish_checkpoints while the learner trains.
PublishStep ==
  /\ pc = "watch" /\ lease = "held"
  /\ learner.phase = "training"
  /\ ~stepPublic
  /\ stepPublic' = TRUE
  /\ UNCHANGED <<cancelRequest, accepted, finalPublic, stopReceipt, receipt, task,
                 pc, memory, group, disk, faults>>

\* _observe_cancel_request.  (The mutant stops the learner and forgets why.)
BuggyObserveCancel ==
  /\ pc \in {"watch", "finish"} /\ lease = "held"
  /\ attempt \in cancelRequest /\ ~canceled /\ learner.phase # None /\ ~learner.flag
  /\ RequestStop
  /\ SupervisorUnchanged
  /\ UNCHANGED <<pc, canceled, closed, early, lease, failure, sent, ended, children>>
ObserveCancel ==
  /\ pc \in {"watch", "finish"} /\ lease = "held"
  /\ attempt \in cancelRequest /\ ~canceled
  /\ canceled' = TRUE
  /\ RequestStop
  /\ SupervisorUnchanged
  /\ UNCHANGED <<pc, closed, early, lease, failure, sent, ended, children>>

\* The handler of SIGTERM, which is there from the loop to the end of the failure drain.
Signaled ==
  /\ pc \in {"watch", "wait", "resolve", "validate", "finish", "teardown", "failing"}
  /\ canceled' = TRUE
  /\ RequestStop
  /\ SupervisorUnchanged
  /\ UNCHANGED <<pc, closed, early, lease, failure, sent, ended, children>>

\* _observe_result of an acceptance.
ObserveAcceptance ==
  /\ pc \in {"watch", "finish", "failing"} /\ lease = "held"
  /\ EvalRequired /\ accepted /\ ~closed
  /\ closed' = TRUE
  /\ RequestStop
  /\ SupervisorUnchanged
  /\ UNCHANGED <<pc, canceled, early, lease, failure, sent, ended, children>>

\* An iteration or the drain raises: a bucket that does not answer, a full disk.
IterationRaises ==
  /\ pc \in {"watch", "finish"}
  /\ Fault
  /\ Raise("supervisor_failure")
  /\ UNCHANGED <<durable, task, disk>>
  /\ UNCHANGED <<canceled, closed, early, lease, sent, ended, children>>

\* The last renewal of the lease that may fail has failed.
LoseLease ==
  /\ pc \in {"watch", "finish", "teardown"} /\ lease = "held"
  /\ Fault
  /\ lease' = "lost"
  /\ IF pc = "finish"
     THEN Raise("lease_lost")
     ELSE RequestStop /\ UNCHANGED <<pc, failure>>
  /\ UNCHANGED <<durable, task, disk>>
  /\ UNCHANGED <<canceled, closed, early, sent, ended, children>>

\* The loop ends when the learner has, or when the lease is lost; then
\* learner.wait(), without a deadline.
LeaveLoop ==
  /\ pc = "watch"
  /\ ~Alive \/ lease = "lost"
  /\ pc' = "wait"
  /\ SupervisorUnchanged /\ UNCHANGED <<memory, group>>

Reaped ==
  /\ pc = "wait"
  /\ ~Alive
  /\ pc' = "resolve"
  /\ SupervisorUnchanged /\ UNCHANGED <<memory, group>>

\* _resolve_early_stop_receipt: the decision in the run directory becomes the
\* receipt of the attempt, unless it has one.
Resolved ==
  IF decision[attempt] # None THEN decision[attempt]
  ELSE IF stopReceipt[attempt] # None THEN stopReceipt[attempt]
  ELSE IF early # None THEN early ELSE KnownStop

Conflicting ==
  stopReceipt[attempt] # None /\ decision[attempt] \notin {None, stopReceipt[attempt]}

Resolve ==
  /\ pc = "resolve"
  /\ IF Conflicting
     THEN Raise("supervisor_failure") /\ UNCHANGED <<early, stopReceipt>>
     ELSE /\ early' = Resolved
          /\ stopReceipt' = [stopReceipt EXCEPT ![attempt] =
               IF decision[attempt] # None THEN decision[attempt] ELSE @]
          /\ pc' = IF learner.phase = None THEN "finish" ELSE "validate"
          /\ UNCHANGED <<failure, learner>>
  /\ UNCHANGED <<cancelRequest, accepted, stepPublic, finalPublic, receipt, task, disk,
                 faults, canceled, closed, lease, sent, ended, children>>

\* _validate_learner_exit
ExitFailure ==
  IF resultDoc = NoDoc \/ ~Own(resultDoc) THEN "invalid_result"
  ELSE IF resultDoc.reason = "failed" THEN "learner_failure"
  ELSE IF learner.code # "ok" THEN "exit_contract_mismatch"
  ELSE IF lease = "lost" THEN "lease_lost"
  ELSE None

Validate ==
  /\ pc = "validate"
  /\ ended' = IF resultDoc # NoDoc /\ Own(resultDoc) THEN resultDoc ELSE ended
  /\ IF ExitFailure # None
     THEN Raise(ExitFailure)
     ELSE pc' = "finish" /\ UNCHANGED <<failure, learner>>
  /\ SupervisorUnchanged
  /\ UNCHANGED <<canceled, closed, early, lease, sent, children>>

-----------------------------------------------------------------------------
(* Teardown and the end of the attempt *)

\* _teardown_learner_group: the group gets result_exit_grace_seconds, then
\* SIGTERM, then SIGKILL, each with a grace of its own.
GroupGone ==
  /\ pc = "teardown"
  /\ ~GroupAlive
  /\ pc' = "failing"
  /\ SupervisorUnchanged /\ UNCHANGED <<memory, group>>

GraceExpires ==
  /\ pc = "teardown" /\ sent = None
  /\ GroupAlive
  /\ Terminate
  /\ sent' = "term"
  /\ SupervisorUnchanged
  /\ UNCHANGED <<pc, canceled, closed, early, lease, failure, ended>>

\* (The mutant gives up without SIGKILL.)
BuggyTermGraceExpires ==
  /\ pc = "teardown" /\ sent = "term"
  /\ GroupAlive
  /\ pc' = "failing"
  /\ SupervisorUnchanged /\ UNCHANGED <<memory, group>>
TermGraceExpires ==
  /\ pc = "teardown" /\ sent = "term"
  /\ GroupAlive
  /\ Kill
  /\ sent' = "kill"
  /\ SupervisorUnchanged
  /\ UNCHANGED <<pc, canceled, closed, early, lease, failure, ended>>

\* The group survived: teardown_timeout, unless the learner's own failure is known.
Operational == {"learner_failure", "startup_timeout", "invalid_result",
                "exit_contract_mismatch", "teardown_timeout"}

KillGraceExpires ==
  /\ pc = "teardown" /\ sent = "kill"
  /\ GroupAlive
  /\ failure' = IF failure \in Operational THEN failure ELSE "teardown_timeout"
  /\ pc' = "failing"
  /\ SupervisorUnchanged
  /\ UNCHANGED <<canceled, closed, early, lease, sent, ended, group>>

\* The process ends, and its container with it.
Exit(next) ==
  /\ status' = next
  /\ pc' = "down"
  /\ canceled' = FALSE /\ closed' = FALSE /\ early' = None /\ lease' = "held"
  /\ failure' = None /\ sent' = None /\ ended' = NoDoc
  /\ learner' = NoLearner /\ children' = None
  /\ UNCHANGED <<attempt, mode, tasks>>

PublishedBy(all) == finalPublic' \in {finalPublic \/ learner.saved} \cup
                                     (IF all THEN {} ELSE {finalPublic})

\* _failure_drain may be cut off by its deadline; after a lost lease there is none.
FailureDrain ==
  /\ pc = "failing"
  /\ IF lease = "lost"
     THEN Exit("exited") /\ UNCHANGED finalPublic
     ELSE PublishedBy(FALSE) /\ pc' = "receipt" /\ UNCHANGED <<task, memory, group>>
  /\ stepPublic' = (stepPublic \/ finalPublic')
  /\ UNCHANGED <<cancelRequest, accepted, stopReceipt, receipt, disk, faults>>

\* The failure drain loses the lease after it may have published: no receipt either.
LeaseLostInDrain ==
  /\ pc = "failing" /\ lease = "held"
  /\ Fault
  /\ PublishedBy(FALSE)
  /\ stepPublic' = (stepPublic \/ finalPublic')
  /\ Exit("exited")
  /\ UNCHANGED <<cancelRequest, accepted, stopReceipt, receipt, disk>>

\* The checkpoints are public, the evaluations settled, the metrics delivered.
Finish ==
  /\ pc = "finish"
  /\ PublishedBy(TRUE)
  /\ stepPublic' = (stepPublic \/ finalPublic')
  /\ pc' = "receipt"
  /\ UNCHANGED <<cancelRequest, accepted, stopReceipt, receipt, task, memory, group,
                 disk, faults>>

\* _finish_wandb, _wait_for_remote_delivery or the archive of the journals failed; so does
\* a lease that is lost there: the receipt says so and is written all the same.
DeliveryFails ==
  /\ pc = "receipt" /\ failure = None
  /\ Fault
  /\ failure' = "supervisor_failure"
  /\ UNCHANGED <<durable, task, pc, disk>>
  /\ UNCHANGED <<canceled, closed, early, lease, sent, ended, group>>

\* _terminal_outcome
Outcome(state, reason) ==
  [state |-> state, reason |-> reason, learner |-> ended.reason]

TerminalOutcome ==
  IF failure # None THEN Outcome("resumable_failure", failure)
  ELSE IF canceled THEN Outcome("canceled", "canceled")
  ELSE IF closed THEN Outcome("succeeded", "eval_acceptance")
  ELSE IF early = "success" /\ EvalRequired THEN Outcome("failed", "early_stop_success")
  ELSE IF early = "success" THEN Outcome("succeeded", "early_stop_success")
  ELSE IF early = "neutral" THEN Outcome("stopped", "early_stop_neutral")
  ELSE IF early = "failure" THEN Outcome("failed", "early_stop_failure")
  ELSE Outcome(IF EvalRequired THEN "failed" ELSE "succeeded", "training_cap")

\* TerminalReceipt.validate refuses a canceled receipt of a run that has made
\* progress and has no final checkpoint; the exception leaves run().
Refused ==
  TerminalOutcome.state = "canceled" /\ stepPublic /\ ~finalPublic

WriteReceipt ==
  /\ pc = "receipt"
  /\ receipt' = [receipt EXCEPT ![attempt] = IF Refused THEN @ ELSE TerminalOutcome]
  /\ Exit("exited")
  /\ UNCHANGED <<cancelRequest, accepted, stepPublic, finalPublic, stopReceipt, disk, faults>>

-----------------------------------------------------------------------------
(* dstack and the operator *)

\* The container is lost; dstack queues the task again, or gives it up.
TaskDies ==
  /\ status = "running"
  /\ Fault
  /\ \E next \in {"queued", "exited"} : Exit(next)
  /\ UNCHANGED <<durable, disk>>

RequestCancel ==
  /\ status \in {"queued", "running"}
  /\ cancelRequest' = cancelRequest \cup {attempt}
  /\ UNCHANGED <<accepted, stepPublic, finalPublic, stopReceipt, receipt, task, pc,
                 memory, group, disk, faults>>

\* An evaluation of a public checkpoint is verified as accepted.
Accept ==
  /\ EvalRequired /\ stepPublic
  /\ status = "running"
  /\ ~accepted
  /\ accepted' = TRUE
  /\ UNCHANGED <<cancelRequest, stepPublic, finalPublic, stopReceipt, receipt, task, pc,
                 memory, group, disk, faults>>

\* cmd_retry: an attempt that ended without a receipt gets one; a retryable
\* outcome gets a new attempt, which trains unless a final checkpoint is public.
Sealed ==
  IF receipt[attempt] # NoReceipt THEN receipt[attempt]
  ELSE [state |-> "resumable_failure", reason |-> "supervisor_startup_failure",
        learner |-> None]

Retryable(r) ==
  ~(r.state \in {"succeeded", "stopped"} \/ r.reason = "early_stop_failure")

LearnerFinished == finalPublic

Retry ==
  /\ status = "exited"
  /\ Retryable(Sealed)
  /\ attempt < MaxAttempts
  /\ receipt' = [receipt EXCEPT ![attempt] = Sealed]
  /\ attempt' = attempt + 1
  /\ mode' = IF LearnerFinished THEN "drain-only" ELSE "resume-training"
  /\ status' = "queued"
  /\ UNCHANGED <<cancelRequest, accepted, stepPublic, finalPublic, stopReceipt, tasks,
                 pc, memory, group, disk, faults>>

-----------------------------------------------------------------------------

Init ==
  /\ cancelRequest = {} /\ accepted = FALSE
  /\ stepPublic = FALSE /\ finalPublic = FALSE
  /\ stopReceipt = [a \in Attempts |-> None]
  /\ receipt = [a \in Attempts |-> NoReceipt]
  /\ attempt = 1 /\ mode = "resume-training" /\ status = "queued" /\ tasks = 0
  /\ pc = "down"
  /\ canceled = FALSE /\ closed = FALSE /\ early = None /\ lease = "held"
  /\ failure = None /\ sent = None /\ ended = NoDoc
  /\ learner = NoLearner /\ children = None
  /\ readyDoc = NoDoc /\ resultDoc = NoDoc
  /\ decision = [a \in Attempts |-> None]
  /\ faults = 0

Supervise ==
  \/ Start \/ RequestFinalizeOnly
  \/ ObserveCancel \/ ObserveAcceptance \/ PublishStep
  \/ LeaveLoop \/ Reaped \/ Resolve \/ Validate
  \/ GroupGone \/ GraceExpires \/ TermGraceExpires \/ KillGraceExpires
  \/ FailureDrain \/ Finish \/ WriteReceipt

LearnerFault == LearnerFails \/ LearnerDies \/ LearnerHangs \/ ChildrenLinger

Surroundings ==
  \/ Signaled \/ IterationRaises \/ LoseLease \/ LeaseLostInDrain \/ DeliveryFails
  \/ TaskStarts \/ TaskDies \/ RequestCancel \/ Accept \/ Retry

Next ==
  \/ LearnerProgress \/ (\E o \in Outcomes : LearnerDecides(o)) \/ LearnerFault
  \/ Supervise \/ Observe
  \/ Surroundings

Spec == Init /\ [][Next]_vars

\* The supervisor's loops go round and its deadlines pass; a learner that does
\* not hang makes progress.  Faults, operators and dstack owe nothing.
FairSpec ==
  /\ Spec
  /\ WF_vars(Supervise) /\ WF_vars(Observe)
  /\ WF_vars(LearnerProgress)

-----------------------------------------------------------------------------
(* Properties *)

Docs == [attempt : 0..MaxAttempts, pid : Pids \cup {0}, by : 0..MaxTasks,
         reason : Reasons \cup {None, "ready"}]

Causes == Operational \cup {"supervisor_failure", "lease_lost"}

States == {None, "resumable_failure", "canceled", "succeeded", "failed", "stopped"}

ReceiptReasons ==
  Causes \cup {None, "canceled", "eval_acceptance", "training_cap",
               "supervisor_startup_failure", "early_stop_success",
               "early_stop_neutral", "early_stop_failure"}

Positions == {"down", "start", "finalize", "watch", "wait", "resolve", "validate",
              "finish", "teardown", "failing", "receipt"}

Learners == [phase : {None, "boot", "written", "gone"} \cup Handling,
             pid : Pids \cup {0}, flag : BOOLEAN, decided : Outcomes \cup {None},
             reason : Reasons \cup {None}, saved : BOOLEAN, hung : BOOLEAN,
             code : {None, "ok", "error", "signal"}]

\* The states the definitions above speak of.
TypeOK ==
  /\ cancelRequest \subseteq Attempts
  /\ accepted \in BOOLEAN /\ stepPublic \in BOOLEAN /\ finalPublic \in BOOLEAN
  /\ stopReceipt \in [Attempts -> Outcomes \cup {None}]
  /\ receipt \in [Attempts ->
       [state : States, reason : ReceiptReasons, learner : Reasons \cup {None, "ready"}]]
  /\ attempt \in Attempts /\ mode \in {"resume-training", "drain-only"}
  /\ status \in {"queued", "running", "exited"} /\ tasks \in 0..MaxTasks
  /\ pc \in Positions
  /\ canceled \in BOOLEAN /\ closed \in BOOLEAN
  /\ early \in Outcomes \cup {None} /\ lease \in {"held", "lost"}
  /\ failure \in Causes \cup {None} /\ sent \in {None, "term", "kill"}
  /\ ended \in Docs
  /\ learner \in Learners /\ children \in {None, "plain", "deaf", "stuck"}
  /\ readyDoc \in Docs /\ resultDoc \in Docs
  /\ decision \in [Attempts -> Outcomes \cup {None}]
  /\ faults \in 0..MaxFaults

\* The terminal document a supervisor goes by was written by the learner it
\* spawned, though the run directory may hold one with the same attempt and
\* process id from before a restart of the task.
StateIsOwn == ended # NoDoc => ended.by = tasks

\* The failure drain begins only when the learner's process group is gone or was
\* sent SIGKILL: a learner that hangs or exits in the middle of the escalation
\* does not write on beside the drain.
GroupIsTornDown ==
  pc = "failing" => ~Alive /\ (GroupAlive => sent = "kill")

\* Once an attempt has an early-stop receipt, neither it nor a later attempt of
\* the run ends at the training cap, whichever process died in between.
EarlyStopStands ==
  \A a, b \in Attempts :
    stopReceipt[a] # None /\ a <= b => receipt[b].reason # "training_cap"

\* An attempt whose learner ended by itself reports the training cap only if that
\* learner reached it: a learner that was asked to stop is never taken for one
\* that had finished.
OwnCapIsReached ==
  \A a \in Attempts :
    receipt[a].reason = "training_cap" =>
      receipt[a].learner \in {None, "resource_exhaustion"}

\* The supervisor ends whatever its learner does, but for a learner that hangs
\* while it trains or saves, or after the lease was lost: no deadline of the
\* supervisor covers those.
Wedged ==
  /\ learner.hung
  /\ \/ pc = "watch" /\ learner.phase \in {"training", "saving", "saved"}
     \/ pc = "wait"
SupervisionEnds == pc # "down" ~> pc = "down" \/ Wedged
=============================================================================
