--------------------------- MODULE EvalLifecycle ---------------------------
(***************************************************************************)
(* Checkpoint evaluation of one logical run, from the checkpoint the       *)
(* learner saves to the run's terminal receipt (RunSupervisor): publishing *)
(* checkpoints, dispatching each to a Modal worker, collecting the result  *)
(* the worker leaves in the evaluation bucket, retrying, closing admission *)
(* after an acceptance, draining, promoting, cancellation, failure drain,  *)
(* and recovery of a later attempt of the run from what the buckets hold.  *)
(*                                                                         *)
(* One supervisor runs at a time (module WriterLease).  Its ledger is a    *)
(* SQLite file of its task and dies with it.  One step processes one row   *)
(* of the ledger, or two where a verdict is given for want of a result:    *)
(* the look for the result, and the verdict.  A step with several bucket   *)
(* calls has an outcome for each place where a call may raise or the       *)
(* process may die.                                                        *)
(***************************************************************************)
EXTENDS Integers, FiniteSets

CONSTANTS
  Last,         \* number of checkpoints the learner can save
  MaxAttempts,  \* protocol.max_attempts
  Verdicts,     \* statuses a worker that ran its episodes can report
  MaxStarts,    \* bound on supervisor processes of the run
  MaxFaults     \* bound on injected failures and crashes

ASSUME CountAssumption ==
  /\ Last \in Nat \ {0} /\ MaxStarts \in Nat \ {0} /\ MaxFaults \in Nat
  /\ MaxAttempts \in 1..2
  /\ Verdicts \subseteq {"accepted", "rejected", "failed"}

VARIABLES
  \* in the buckets
  published,  \* rows of the public index
  final,      \* the checkpoint of purpose "final", 0 before there is one
  intents,    \* checkpoints with an evaluation intent
  prepared,   \* prepared[c]: the last attempt-N.json of c
  result,     \* result.json
  verified,   \* status of verified-result.json
  promotion,  \* checkpoint of promotion.json, 0 before
  outcome,    \* state in the terminal receipt of the latest attempt of the run
  terminal,   \* the run's canonical terminal.json exists
  \* around the supervisor
  expired,    \* expired[c]: the last attempt of c whose expires_at has passed
  calls,      \* calls[c][a]: the Modal call of attempt a
  learner,    \* the learner process
  \* in the supervisor
  phase, stage, todo,  \* where run() is, and the rows its present loop has left
  look,       \* the row whose result was looked for in vain, and what was there
  saved,      \* checkpoints in the learner's ledger
  recorded,   \* checkpoints in the supervisor's ledger
  row,        \* row[c]: status and attempt of the evaluation
  closed,     \* eval_admission_closed
  canceled,   \* cancel_requested
  \* bounds
  starts, faults

bucket == <<published, final, intents, prepared, result, verified, promotion,
            outcome, terminal>>
world == <<expired, calls>>
position == <<phase, stage, todo, look>>
ledger == <<saved, recorded, row>>
flags == <<learner, closed, canceled>>
bounds == <<starts, faults>>
vars == <<bucket, world, position, ledger, flags, bounds>>

Checkpoints == 1..Last
Attempts == 1..MaxAttempts

None == "none"
\* EVAL_RESULT_TERMINAL_STATUSES.  (The mutant forgets the canceled ones.)
BuggyResultTerminal == Verdicts \cup {"expired"}
ResultTerminal == Verdicts \cup {"expired", "canceled"}
Settled == ResultTerminal \cup {None, "deferred"}
Unsettled == {"pending", "submitted"}

NoRow == [status |-> None, attempt |-> 0]
NoResult == [attempt |-> 0, verdict |-> None]
NoLook == [row |-> 0, result |-> NoResult]

InStatus(S) == {c \in Checkpoints : row[c].status \in S}
AcceptedRows == InStatus({"accepted"})
Lowest(S) == CHOOSE c \in S : \A d \in S : c <= d

LearnerAlive == learner # "exited"
NextCheckpoint == CHOOSE c \in 1..Last + 1 :
                    /\ \A d \in saved \cup published : d < c
                    /\ c = 1 \/ c - 1 \in saved \cup published

-----------------------------------------------------------------------------
(* Failures *)

Fault == faults < MaxFaults /\ faults' = faults + 1

\* The process is gone, and with it its ledger and its learner; a final
\* checkpoint it did not publish is lost.
ProcessEnds(state) ==
  /\ outcome' = state
  /\ final' = IF final \in published THEN final ELSE 0
  /\ phase' = "down" /\ stage' = "top" /\ todo' = {} /\ look' = NoLook
  /\ saved' = {} /\ recorded' = {} /\ row' = [c \in Checkpoints |-> NoRow]
  /\ learner' = "exited" /\ closed' = FALSE /\ canceled' = FALSE

StopLearner == learner' = IF LearnerAlive THEN "stopping" ELSE "exited"

\* What an exception does: before the supervision loop it fails the start;
\* inside it, the learner is torn down, admission closes and the failure drain
\* begins; inside the failure drain, the attempt ends as it stands.
Raise ==
  IF phase \in {"active", "drain"}
  THEN /\ phase' = "failing" /\ stage' = "top" /\ todo' = {} /\ look' = NoLook
       /\ StopLearner /\ closed' = TRUE
       /\ UNCHANGED <<outcome, final, ledger, canceled>>
  ELSE ProcessEnds("resumable_failure")

-----------------------------------------------------------------------------
(* put_verified_eval_result, mark_eval_terminal and what _observe_result does
   with an acceptance.  The document is create-only and names the moment it
   was made, so a second one for the same evaluation always conflicts. *)

\* (The mutant compares with the attempt of the intent.)
BuggyValid(c) == result[c] # NoResult /\ result[c].attempt = 1
Valid(c) == result[c] # NoResult /\ result[c].attempt = row[c].attempt

\* (The mutant leaves the admission open.)
BuggyMarkTerminal(c, status) ==
  /\ row' = [row EXCEPT ![c].status = status]
  /\ UNCHANGED <<learner, closed>>
MarkTerminal(c, status) ==
  /\ row' = [row EXCEPT ![c].status = status]
  /\ IF status = "accepted"
     THEN closed' = TRUE /\ StopLearner
     ELSE UNCHANGED <<learner, closed>>

RowLeft(c) == todo' = todo \ {c} /\ look' = NoLook

PutVerified(c, status) ==
  \/ /\ verified[c] = None
     /\ verified' = [verified EXCEPT ![c] = status]
     /\ MarkTerminal(c, status)
     /\ RowLeft(c)
     /\ UNCHANGED <<outcome, final, phase, stage, saved, recorded, canceled, faults>>
  \/ /\ verified[c] # None
     /\ Raise
     /\ UNCHANGED <<verified, faults>>
  \/ /\ verified[c] = None /\ Fault
     /\ verified' \in {verified, [verified EXCEPT ![c] = status]}
     /\ Raise

\* _reconcile_verified_eval_result: a row whose verified-result.json exists takes
\* its status from there.  (The mutant takes it from the caller.)
BuggyAdoptVerified(c) ==
  /\ verified[c] # None
  /\ row' = [row EXCEPT ![c].status = "canceled"]
  /\ RowLeft(c)
  /\ UNCHANGED <<verified, outcome, final, phase, stage, saved, recorded, flags, faults>>
AdoptVerified(c) ==
  /\ verified[c] # None
  /\ row' = [row EXCEPT ![c].status = verified[c]]
  /\ RowLeft(c)
  /\ UNCHANGED <<verified, outcome, final, phase, stage, saved, recorded, flags, faults>>

SetRow(c, status, attempt) ==
  /\ row' = [row EXCEPT ![c] = [status |-> status, attempt |-> attempt]]
  /\ RowLeft(c)
  /\ UNCHANGED <<verified, outcome, final, phase, stage, saved, recorded, flags, faults>>

SkipRow(c) ==
  /\ RowLeft(c)
  /\ UNCHANGED <<verified, outcome, final, phase, stage, ledger, flags, faults>>

Visiting(c, where) == stage = where /\ c \in todo /\ look = NoLook

\* _observe_result found no result of the row's attempt.  What follows it in the loop is a
\* step of its own: the worker may upload before it.
Visited(c, where) == stage = where /\ look.row = c

LookInVain(c) ==
  /\ look' = [row |-> c, result |-> result[c]]
  /\ UNCHANGED <<todo, verified, outcome, final, phase, stage, ledger, flags, faults>>

RowStepUnchanged ==
  UNCHANGED <<published, intents, prepared, result, promotion, terminal, expired, starts>>

-----------------------------------------------------------------------------
(* The steps of an iteration *)

\* The publication of one checkpoint raised and was caught; it may have reached
\* the index.  It is tried again in the next iteration.
PublishFails(c) ==
  /\ Visiting(c, "publish")
  /\ Fault
  /\ published' \in {published, published \cup {c}}
  /\ todo' = todo \ {c}
  /\ UNCHANGED <<final, intents, prepared, result, verified, promotion, outcome,
                 terminal, world, phase, stage, look, ledger, flags, starts>>

\* publish_checkpoint, then _ensure_eval while admission is open.
WantsEval == ~closed

Publish(c) ==
  /\ Visiting(c, "publish")
  /\ published' = published \cup {c}
  /\ recorded' = recorded \cup {c}
  /\ intents' = IF WantsEval THEN intents \cup {c} ELSE intents
  /\ row' = IF WantsEval THEN [row EXCEPT ![c].status = "pending"] ELSE row
  /\ todo' = todo \ {c}
  /\ UNCHANGED <<final, prepared, result, verified, promotion, outcome, terminal,
                 world, phase, stage, look, saved, flags, bounds>>

\* _ensure_eval raised after the publication: with or without the intent.
EnsureRaises(c) ==
  /\ Visiting(c, "publish")
  /\ WantsEval
  /\ Fault
  /\ published' = published \cup {c}
  /\ recorded' = recorded \cup {c}
  /\ intents' \in {intents, intents \cup {c}}
  /\ phase' = "failing" /\ stage' = "top" /\ todo' = {} /\ look' = NoLook
  /\ StopLearner /\ closed' = TRUE
  /\ UNCHANGED <<final, prepared, result, verified, promotion, outcome, terminal,
                 world, saved, row, canceled, starts>>

\* _reconcile_evals_before_submission, and the loop of recovery over the rows
\* that have a result.
Reconcile(c) ==
  /\ Visiting(c, "reconcile") \/ Visiting(c, "recover")
  /\ IF Valid(c) THEN PutVerified(c, result[c].verdict) ELSE SkipRow(c)
  /\ UNCHANGED calls /\ RowStepUnchanged

\* _settle_closed_eval_admission: no new attempt once admission has closed.
SettleClosed(c) ==
  /\ Visiting(c, "settle") \/ Visiting(c, "resettle")
  /\ CASE row[c].attempt = 0 -> SetRow(c, "deferred", 0)
       [] row[c].attempt # 0 /\ Valid(c) -> PutVerified(c, result[c].verdict)
       [] OTHER -> LookInVain(c)
  /\ UNCHANGED calls /\ RowStepUnchanged

SettleExpired(c) ==
  /\ Visited(c, "settle") \/ Visited(c, "resettle")
  /\ PutVerified(c, "expired")
  /\ UNCHANGED calls /\ RowStepUnchanged

\* _submit_pending_evals.  An attempt document that is already there is adopted
\* and never spawned again.  Otherwise the document is written first, then the
\* call is spawned.  (The mutant does not write it.)
Adoptable(c, a) == prepared[c] >= a

BuggyPreparedBy(c, a) == prepared
PreparedBy(c, a) == [prepared EXCEPT ![c] = a]

Spawned(c, a) == [calls EXCEPT ![c][a] = IF @ = None THEN "live" ELSE "twice"]

Submit(c) ==
  LET a == row[c].attempt + 1 IN
  /\ Visiting(c, "submit")
  /\ IF a > MaxAttempts \/ Adoptable(c, a)
     THEN UNCHANGED <<prepared, calls>>
     ELSE prepared' = PreparedBy(c, a) /\ calls' = Spawned(c, a)
  /\ IF a > MaxAttempts THEN PutVerified(c, "expired") ELSE SetRow(c, "submitted", a)
  /\ UNCHANGED <<published, intents, result, promotion, terminal, expired, starts>>

\* The spawn raised: whether a call was made is not known, and the row counts
\* as submitted.
SubmitAmbiguous(c) ==
  LET a == row[c].attempt + 1 IN
  /\ Visiting(c, "submit")
  /\ a <= MaxAttempts /\ ~Adoptable(c, a)
  /\ Fault
  /\ prepared' = PreparedBy(c, a)
  /\ calls' \in {calls, Spawned(c, a)}
  /\ row' = [row EXCEPT ![c] = [status |-> "submitted", attempt |-> a]]
  /\ RowLeft(c)
  /\ UNCHANGED <<published, final, intents, result, verified, promotion, outcome,
                 terminal, expired, phase, stage, saved, recorded, flags, starts>>

\* A bucket call around the spawn raised: attempt-N.json, before; dispatch-N.json,
\* after.
SubmitRaises(c) ==
  LET a == row[c].attempt + 1 IN
  /\ Visiting(c, "submit")
  /\ a <= MaxAttempts /\ ~Adoptable(c, a)
  /\ Fault
  /\ \/ UNCHANGED <<prepared, calls>>
     \/ /\ prepared' = PreparedBy(c, a)
        /\ calls' \in {calls, Spawned(c, a)}
  /\ Raise
  /\ UNCHANGED <<published, intents, result, verified, promotion, terminal, expired,
                 starts>>

\* _poll_evals: a result, or an attempt that expired without one.  Its clock is read
\* before the look.
\* (The mutants do not wait for the expiry, and never see it.)
Retriable(c) == ~closed /\ row[c].attempt < MaxAttempts

BuggyAttemptExpired(c) == TRUE
BuggyStrictlyExpired(c) == expired[c] > row[c].attempt
AttemptExpired(c) == expired[c] >= row[c].attempt

Poll(c) ==
  /\ Visiting(c, "poll")
  /\ CASE Valid(c) -> PutVerified(c, result[c].verdict)
       [] ~Valid(c) /\ ~AttemptExpired(c) -> SkipRow(c)
       [] OTHER -> LookInVain(c)
  /\ UNCHANGED calls /\ RowStepUnchanged

\* Modal has been asked for the state of the call.
PollExpired(c) ==
  /\ Visited(c, "poll")
  /\ IF Retriable(c)
     THEN SetRow(c, "pending", row[c].attempt)
     ELSE PutVerified(c, "expired")
  /\ UNCHANGED calls /\ RowStepUnchanged

\* _cancel_outstanding_evals: a result that is there wins; otherwise the Modal
\* call is canceled, if it can be, and the verdict is "canceled".
Cancel(c) ==
  /\ Visiting(c, "cancel")
  /\ IF Valid(c) THEN PutVerified(c, result[c].verdict) ELSE LookInVain(c)
  /\ UNCHANGED calls /\ RowStepUnchanged

CancelCall(c) ==
  /\ Visited(c, "cancel")
  /\ \/ verified[c] # None /\ AdoptVerified(c) /\ UNCHANGED calls
     \/ /\ verified[c] = None /\ PutVerified(c, "canceled")
        /\ calls' \in {calls, [calls EXCEPT ![c] =
             [a \in Attempts |-> IF a = row[c].attempt /\ @[a] = "live"
                                 THEN "gone" ELSE @[a]]]}
  /\ RowStepUnchanged

\* _defer_unsettled_evals_after_failure
DeferUnsettled(c) ==
  /\ Visiting(c, "defer")
  /\ CASE Valid(c) -> PutVerified(c, result[c].verdict)
       [] ~Valid(c) /\ verified[c] # None -> AdoptVerified(c)
       [] OTHER -> SetRow(c, "deferred", row[c].attempt)
  /\ UNCHANGED calls /\ RowStepUnchanged

-----------------------------------------------------------------------------
(* run(): from one loop over the rows to the next *)

Rows(where) ==
  CASE where = "publish" -> saved \ recorded
    [] where \in {"cancel", "defer"} -> InStatus(Unsettled)
    [] where = "reconcile" ->
         InStatus({"submitted"}) \cup {c \in InStatus({"pending"}) : row[c].attempt > 0}
    [] where \in {"settle", "resettle"} ->
         IF closed THEN InStatus({"pending"}) ELSE {}
    [] where = "submit" -> IF closed THEN {} ELSE InStatus({"pending"})
    [] where = "poll" -> InStatus({"submitted"})
    [] OTHER -> {}

\* The loops of an iteration in their order; those without rows are passed over.
Rank == [publish |-> 1, cancel |-> 2, reconcile |-> 3, settle |-> 4, submit |-> 5,
         poll |-> 6, resettle |-> 7, top |-> 8]

Branch ==
  IF stage = "cancel" \/ (stage = "publish" /\ canceled)
  THEN {"cancel", "poll", "resettle", "top"}
  ELSE {"reconcile", "settle", "submit", "poll", "resettle", "top"}

Ahead == {s \in Branch : Rank[s] > Rank[stage] /\ (s = "top" \/ Rows(s) # {})}

NextStage == CHOOSE s \in Ahead : \A t \in Ahead : Rank[s] <= Rank[t]

GoTo(where) == stage' = where /\ todo' = Rows(where) /\ look' = NoLook

StepUnchanged == UNCHANGED <<bucket, world, ledger, flags, bounds>>

Advance ==
  /\ phase \in {"active", "drain", "failing"}
  /\ stage \notin {"top", "defer"} /\ todo = {}
  /\ GoTo(NextStage)
  /\ UNCHANGED phase /\ StepUnchanged

\* An active iteration polls at most every EVAL_POLL_SECONDS.
SkipPoll ==
  /\ phase = "active"
  /\ stage \notin {"top", "poll", "resettle"} /\ todo = {}
  /\ NextStage \in {"poll", "resettle"}
  /\ GoTo("top")
  /\ UNCHANGED phase /\ StepUnchanged

\* all_evals_settled and _all_ready_checkpoints_published.
Converged == saved \subseteq recorded /\ InStatus(Unsettled) = {}

\* active_iteration while the learner lives; drain_iteration until it converges;
\* the failure drain begins once the learner is torn down.
BeginIteration ==
  /\ stage = "top"
  /\ \/ phase = "active" /\ LearnerAlive
     \/ phase \in {"drain", "failing"} /\ ~LearnerAlive /\ ~Converged
  /\ GoTo("publish")
  /\ UNCHANGED phase /\ StepUnchanged

\* A canceled run cancels its evaluations first; then comes _drain.
EnterDrain ==
  /\ phase' = "drain"
  /\ GoTo(IF canceled THEN "cancel" ELSE "top")

\* The learner exited with its final checkpoint, or failed.
LeaveLoop ==
  /\ phase = "active" /\ stage = "top" /\ ~LearnerAlive
  /\ IF final \in saved
     THEN EnterDrain /\ UNCHANGED <<ledger, flags, outcome, final>>
     ELSE Raise
  /\ UNCHANGED <<published, intents, prepared, result, verified, promotion, terminal,
                 world, bounds>>

\* Any other exception of an iteration: a failed learner, a full disk, a bucket
\* that does not answer.
IterationRaises ==
  /\ phase \in {"active", "drain", "failing"} /\ stage = "top"
  /\ Fault
  /\ Raise
  /\ UNCHANGED <<published, intents, prepared, result, verified, promotion, terminal,
                 world, starts>>

\* _failure_drain ends when it converges; at its deadline it defers the rows left.
FailureDrainEnds ==
  /\ phase = "failing"
  /\ \/ stage = "top" /\ ~LearnerAlive /\ Converged
     \/ stage = "defer" /\ todo = {}
  /\ ProcessEnds("resumable_failure")
  /\ UNCHANGED <<published, intents, prepared, result, verified, promotion, terminal,
                 world, bounds>>

FailureDeadline ==
  /\ phase = "failing" /\ stage = "top" /\ ~LearnerAlive /\ ~Converged
  /\ GoTo("defer")
  /\ UNCHANGED phase /\ StepUnchanged

-----------------------------------------------------------------------------
(* The end of a successful drain *)

\* _validate_no_acceptance_evidence: every published checkpoint was evaluated and
\* rejected.  (The mutant is content without an acceptance.)
BuggyAllRejected == AcceptedRows = {}
AllRejected == recorded # {} /\ \A c \in recorded : row[c].status = "rejected"

DrainComplete == phase = "drain" /\ stage = "top" /\ ~LearnerAlive /\ Converged

Close ==
  /\ phase' = "closing"
  /\ UNCHANGED <<stage, todo, look, ledger, flags, outcome, final>>

\* _create_promotion and _publish_promotion: the promotion.json of an earlier
\* attempt stands; otherwise the accepted checkpoint of the lowest step is chosen.
Selected == Lowest(AcceptedRows)

Promote ==
  /\ DrainComplete /\ ~canceled
  /\ promotion # 0 \/ AcceptedRows # {}
  /\ LET choice == IF promotion = 0 THEN Selected ELSE promotion IN
     \/ /\ promotion' = choice
        /\ IF row[choice].status = "accepted" THEN Close ELSE Raise
        /\ UNCHANGED faults
     \/ /\ Fault
        /\ promotion' \in {promotion, choice}
        /\ Raise
  /\ UNCHANGED <<published, intents, prepared, result, verified, terminal, world, starts>>

NoPromotion ==
  /\ DrainComplete
  /\ canceled \/ (promotion = 0 /\ AcceptedRows = {})
  /\ IF canceled \/ AllRejected THEN Close ELSE Raise
  /\ UNCHANGED <<published, intents, prepared, result, verified, promotion, terminal,
                 world, bounds>>

\* create_attempt_terminal with the state _terminal_outcome computes.
AttemptState ==
  CASE canceled -> "canceled"
    [] ~canceled /\ promotion # 0 -> "succeeded"
    [] OTHER -> "failed"

WriteAttemptTerminal ==
  /\ phase = "closing"
  /\ IF AttemptState = "succeeded"
     THEN /\ outcome' = "succeeded"
          /\ phase' = "receipted"
          /\ UNCHANGED <<stage, todo, look, ledger, flags, final>>
     ELSE ProcessEnds(AttemptState)
  /\ UNCHANGED <<published, intents, prepared, result, verified, promotion, terminal,
                 world, bounds>>

\* Delivery was not confirmed, or the journals were not archived.
DeliveryFails ==
  /\ phase = "closing"
  /\ Fault
  /\ ProcessEnds("resumable_failure")
  /\ UNCHANGED <<published, intents, prepared, result, verified, promotion, terminal,
                 world, starts>>

\* create_terminal accepts only the lowest-step accepted checkpoint.
WriteTerminal ==
  /\ phase = "receipted"
  /\ terminal' = (AcceptedRows # {} /\ promotion = Lowest(AcceptedRows))
  /\ ProcessEnds("succeeded")
  /\ UNCHANGED <<published, intents, prepared, result, verified, promotion, world, bounds>>

-----------------------------------------------------------------------------
(* Attempts of the run *)

\* cmd_retry refuses a run that succeeded.  An attempt that left no receipt gets
\* "resumable_failure" from the operator's reconciliation first.
Retryable == ~terminal /\ outcome \in {None, "resumable_failure", "failed", "canceled"}

\* has_accepted_eval
DurablyAccepted == \E c \in Checkpoints : verified[c] = "accepted"

\* _recover_durable_state: rows for the published checkpoints, with the last
\* attempt that was prepared, and a verdict already given.
\* (The mutant creates the evaluations an acceptance left out.)
BuggyEnsured == intents \cup published
Ensured == IF DurablyAccepted THEN intents ELSE intents \cup published

RecoveredRow(c) ==
  IF c \notin published \cap Ensured THEN NoRow
  ELSE [attempt |-> prepared[c],
        status |-> CASE verified[c] # None -> verified[c]
                     [] verified[c] = None /\ prepared[c] > 0 -> "submitted"
                     [] OTHER -> "pending"]

Start ==
  /\ phase = "down" /\ Retryable
  /\ starts < MaxStarts /\ starts' = starts + 1
  /\ outcome' = None
  /\ intents' = Ensured
  /\ recorded' = published
  /\ row' = [c \in Checkpoints |-> RecoveredRow(c)]
  /\ closed' = DurablyAccepted
  /\ phase' = "recovering" /\ stage' = "recover"
  /\ todo' = {c \in published \cap Ensured : verified[c] = None /\ result[c] # NoResult}
  /\ UNCHANGED <<published, final, prepared, result, verified, promotion, terminal,
                 world, look, saved, learner, canceled, faults>>

StartFails ==
  /\ phase = "recovering"
  /\ Fault
  /\ ProcessEnds("resumable_failure")
  /\ UNCHANGED <<published, intents, prepared, result, verified, promotion, terminal,
                 world, starts>>

\* The learner is started unless its final checkpoint is public or the run is
\* canceled; after an acceptance it is started only to finalize.
StartLearner ==
  /\ phase = "recovering" /\ todo = {}
  /\ learner' = CASE canceled \/ final \in published -> "exited"
                  [] ~canceled /\ final \notin published /\ closed -> "stopping"
                  [] OTHER -> "running"
  /\ IF learner' = "exited"
     THEN EnterDrain
     ELSE phase' = "active" /\ GoTo("top")
  /\ UNCHANGED <<bucket, world, ledger, closed, canceled, bounds>>

\* A durable cancel-request.json, or a signal.
RequestCancel ==
  /\ phase \in {"recovering", "active", "drain", "failing", "closing"}
  /\ ~canceled
  /\ canceled' = TRUE
  /\ StopLearner
  /\ UNCHANGED <<bucket, world, position, ledger, closed, bounds>>

\* The task dies.  A receipt that was written stays.
Crash ==
  /\ phase # "down"
  /\ Fault
  /\ ProcessEnds(IF phase = "receipted" THEN "succeeded" ELSE None)
  /\ UNCHANGED <<published, intents, prepared, result, verified, promotion, terminal,
                 world, starts>>

-----------------------------------------------------------------------------
(* The learner, the Modal workers and time *)

SaveCheckpoint ==
  /\ LearnerAlive
  /\ NextCheckpoint < Last
  /\ saved' = saved \cup {NextCheckpoint}
  /\ UNCHANGED <<bucket, world, position, recorded, row, flags, bounds>>

\* The learner ends with a final checkpoint; torn down, it may leave none.
LearnerExit ==
  /\ LearnerAlive
  /\ learner' = "exited"
  /\ \/ final' = NextCheckpoint /\ saved' = saved \cup {NextCheckpoint}
     \/ phase = "failing" /\ UNCHANGED <<final, saved>>
  /\ UNCHANGED <<published, intents, prepared, result, verified, promotion, outcome,
                 terminal, world, position, recorded, row, closed, canceled, bounds>>

\* execute_attempt: the verdict of the episodes, or "expired" when the call
\* started after the attempt's deadline.  The upload is create-only: a later one is
\* refused and changes nothing.  A call that dies, whose upload is refused, or
\* whose URL has expired stays "live" and takes no step.
WorkerUploads(c, a) ==
  /\ calls[c][a] = "live" /\ result[c] = NoResult
  /\ calls' = [calls EXCEPT ![c][a] = "gone"]
  /\ \E v \in Verdicts \cup (IF expired[c] >= a THEN {"expired"} ELSE {}) :
       result' = [result EXCEPT ![c] = [attempt |-> a, verdict |-> v]]
  /\ UNCHANGED <<published, final, intents, prepared, verified, promotion, outcome,
                 terminal, expired, position, ledger, flags, bounds>>

\* expires_at of the last prepared attempt passes.
Expire(c) ==
  /\ expired[c] < prepared[c]
  /\ expired' = [expired EXCEPT ![c] = prepared[c]]
  /\ UNCHANGED <<bucket, calls, position, ledger, flags, bounds>>

-----------------------------------------------------------------------------
Init ==
  /\ published = {} /\ final = 0 /\ intents = {}
  /\ prepared = [c \in Checkpoints |-> 0]
  /\ result = [c \in Checkpoints |-> NoResult]
  /\ verified = [c \in Checkpoints |-> None]
  /\ promotion = 0 /\ outcome = None /\ terminal = FALSE
  /\ expired = [c \in Checkpoints |-> 0]
  /\ calls = [c \in Checkpoints |-> [a \in Attempts |-> None]]
  /\ phase = "down" /\ stage = "top" /\ todo = {} /\ look = NoLook
  /\ saved = {} /\ recorded = {} /\ row = [c \in Checkpoints |-> NoRow]
  /\ learner = "exited" /\ closed = FALSE /\ canceled = FALSE
  /\ starts = 0 /\ faults = 0

RowStep(c) ==
  \/ Publish(c) \/ PublishFails(c) \/ EnsureRaises(c)
  \/ Reconcile(c) \/ SettleClosed(c) \/ SettleExpired(c)
  \/ Submit(c) \/ SubmitAmbiguous(c) \/ SubmitRaises(c)
  \/ Poll(c) \/ PollExpired(c) \/ Cancel(c) \/ CancelCall(c) \/ DeferUnsettled(c)

Supervise ==
  \/ \E c \in Checkpoints : RowStep(c)
  \/ StartLearner \/ BeginIteration \/ Advance \/ SkipPoll \/ LeaveLoop \/ IterationRaises
  \/ FailureDrainEnds \/ FailureDeadline
  \/ Promote \/ NoPromotion \/ WriteAttemptTerminal \/ DeliveryFails \/ WriteTerminal

Next ==
  \/ Supervise
  \/ Start \/ StartFails \/ RequestCancel \/ Crash
  \/ SaveCheckpoint \/ LearnerExit
  \/ \E c \in Checkpoints : Expire(c)
  \/ \E c \in Checkpoints, a \in Attempts : WorkerUploads(c, a)

Spec == Init /\ [][Next]_vars

\* The supervisor's thread keeps running, the learner's training is bounded, and
\* deadlines pass.  Nothing is assumed of the workers or of the operator.
Fairness ==
  /\ WF_vars(Supervise)
  /\ WF_vars(LearnerExit)
  /\ \A c \in Checkpoints : WF_vars(Expire(c))

FairSpec == Spec /\ Fairness

-----------------------------------------------------------------------------
(* Properties *)

Phases == {"down", "recovering", "active", "drain", "failing", "closing", "receipted"}
Stages == {"top", "recover", "publish", "cancel", "reconcile", "settle", "submit",
           "poll", "resettle", "defer"}

Results ==
  [attempt : Attempts, verdict : Verdicts \cup {"expired"}] \cup {NoResult}

TypeOK ==
  /\ published \subseteq Checkpoints /\ final \in 0..Last
  /\ intents \subseteq Checkpoints
  /\ prepared \in [Checkpoints -> 0..MaxAttempts]
  /\ result \in [Checkpoints -> Results]
  /\ verified \in [Checkpoints -> ResultTerminal \cup {None}]
  /\ promotion \in 0..Last
  /\ outcome \in {None, "succeeded", "failed", "canceled", "resumable_failure"}
  /\ terminal \in BOOLEAN
  /\ expired \in [Checkpoints -> 0..MaxAttempts]
  /\ calls \in [Checkpoints -> [Attempts -> {None, "live", "gone", "twice"}]]
  /\ learner \in {"running", "stopping", "exited"}
  /\ phase \in Phases /\ stage \in Stages /\ todo \subseteq Checkpoints
  /\ look \in [row : 0..Last, result : Results]
  /\ saved \subseteq Checkpoints /\ recorded \subseteq Checkpoints
  /\ row \in [Checkpoints -> [status : Settled \cup Unsettled, attempt : 0..MaxAttempts]]
  /\ closed \in BOOLEAN /\ canceled \in BOOLEAN
  /\ starts \in 0..MaxStarts /\ faults \in 0..MaxFaults

Promises ==
  INSTANCE EvalVerdicts WITH
    Measured <- Verdicts, Given <- {"expired", "canceled"}, Undecided <- None,
    dispatched <- [c \in Checkpoints |-> {a \in Attempts : calls[c][a] # None}],
    verdict <- verified, promoted <- promotion

\* The buckets keep what EvalVerdicts promises: verdicts and promotion are final,
\* attempts come in order and none after an acceptance, nothing is accepted after
\* the promotion, and a closed run has every verdict it asked for.
KeepsPromises == Promises!Spec

\* An attempt is spawned at most once, across ambiguous spawns, crashes and
\* recoveries (attempt-N.json before the spawn).
EachAttemptSpawnedOnce ==
  \A c \in Checkpoints, a \in Attempts : calls[c][a] # "twice"

\* A second attempt is spawned only when the first one's deadline has passed.
RetryOnlyAfterExpiry ==
  \A c \in Checkpoints, a \in Attempts :
    calls[c][a] # None => expired[c] >= a - 1

\* A result counts whenever it comes, before a cancelation, after the expiry, at the
\* recovery of a later task: a checkpoint is declared expired or canceled only if the
\* bucket had no verdict of its last attempt when the supervisor looked; one that was
\* uploaded between the look and the verdict comes too late.  (The bucket may have a
\* verdict of the attempt before: both upload to one create-once result.json.  In a
\* failure drain the ledger may not know of the last attempt: the call that recorded it
\* is what failed.)
LastResultCounts ==
  [][\A c \in Checkpoints :
       /\ verified[c] = None /\ verified'[c] \in {"expired", "canceled"}
       /\ result[c].verdict \in Verdicts
       => \/ look.row = c /\ look.result # result[c]
          \/ result[c].attempt < prepared[c] \/ phase = "failing"]_vars

\* What the ledger says of a finished evaluation is what the bucket says.
LedgerAgreesWithBucket ==
  \A c \in Checkpoints :
    row[c].status \in ResultTerminal => verified[c] = row[c].status

\* An attempt that reports "failed" leaves one valid rejection in the bucket for
\* every published checkpoint (_validate_no_acceptance_evidence).
FailureIsEvidenced ==
  outcome = "failed" =>
    published # {} /\ \A c \in published : verified[c] = "rejected"

\* "Valid acceptance must stop training" (SPECS.md): no learner trains on once an
\* acceptance is durable, neither the one at work nor one of a later attempt.
AcceptanceStopsLearner == DurablyAccepted => learner # "running"

\* No drain runs for ever: every attempt of the run comes to its end.
AttemptsEnd == phase # "down" ~> phase = "down"

\* "a successfully drained training-only run must not be retried" (cmd_retry): the
\* receipt "succeeded" of an evaluated attempt never stands without terminal.json.
SucceededIsTerminal == phase = "down" /\ outcome = "succeeded" => terminal
=============================================================================
