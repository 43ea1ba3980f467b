--------------------------- MODULE ManualEvaluation ---------------------------
(***************************************************************************)
(* Batches of evaluations an operator asks for (manual_evaluation.py).     *)
(*                                                                         *)
(* A batch is a job of a local queue.  The queue's worker advances it again *)
(* and again: it dispatches the evaluations while training goes on, and    *)
(* once the run has its receipt it takes the writer lease, publishes the   *)
(* results to the run's W&B history under the numbers that follow those    *)
(* already used, promotes the lowest accepted checkpoint and leaves a      *)
(* receipt.  Each machine has a queue and a worker of its own.             *)
(***************************************************************************)
EXTENDS Integers, SequencesExt

CONSTANTS
  Checkpoints,  \* numbers, in the order of their steps
  Queues,       \* the machines
  Batches,      \* jobs
  Selection,    \* Selection[b]: the checkpoints of b
  Home,         \* Home[b]: its queue
  Evaluated,    \* the checkpoints training evaluates itself
  Casts,        \* bound: the batches asked for together, with the faults and the
                \* cancellations and retries that may happen
  Verdicts,     \* what the episodes of an evaluation can show
  MaxAttempts   \* MaxAttempts[c]: how often the evaluation of c is attempted at most

ASSUME SelectionAssumption ==
  /\ IsFiniteSet(Checkpoints) /\ Checkpoints \subseteq Nat \ {0}
  /\ Selection \in [Batches -> (SUBSET Checkpoints) \ {{}}]
  /\ Home \in [Batches -> Queues]
  /\ Evaluated \subseteq Checkpoints
  /\ Casts \subseteq [batches : SUBSET Batches, faults : Nat, requests : Nat]
  \* a queue admits a checkpoint once (exclusive_key)
  /\ \A cast \in Casts : \A b, d \in cast.batches :
       b # d /\ Home[b] = Home[d] => Selection[b] \cap Selection[d] = {}
  /\ MaxAttempts \in [Checkpoints -> Nat \ {0}]

VARIABLES
  ended,        \* training has its receipt
  auto,         \* checkpoints accepted by the evaluations of training
  promotion,    \* promotion.json: the checkpoint and whose evaluation accepted it
  lease,        \* whose the writer lease is
  prepared,     \* prepared[c]: last attempt-N.json
  expired,      \* expired[c]: last attempt whose expires_at has passed
  calls,        \* calls[c][a]: the Modal call of an attempt
  result,       \* result[c]: result.json, create-only, of one attempt
  verified,     \* verified[c]: verified-result.json
  projection,   \* projection[c]: high-water mark in wandb-projection.json, 0 without one
  receipt,      \* receipt[b]: terminal.json of the batch, as a set of none or one
  wandb,        \* the last number W&B has, counted from the end of training
  points,       \* the checkpoints whose results are in W&B's history
  job, asked,   \* job[b]: its state; asked[b]: cancel_requested
  rows,         \* rows[b]: metric_frames of its ledger, a checkpoint per number
  sent,         \* sent[b]: how many of them are marked published
  worker,       \* worker[q]: where the queue's worker stands in its job
  slipped,      \* history: an upload was lost, or numbers may have been given out twice
  faults,       \* calls that may still fail, workers that may die, leases that may lapse
  requests       \* cancellations and retries that may still come

evaluations == <<prepared, expired, calls, result, verified>>
wandbs == <<wandb, points>>
queue == <<job, asked, requests>>
ledger == <<rows, sent>>
records == <<promotion, projection, receipt>>
vars == <<ended, auto, lease, evaluations, records, wandbs, queue, ledger, worker, slipped, faults>>

None == "none"
Free == "free"

\* A machine takes the lease in its own name.
ASSUME OwnersAssumption == Queues \cap {"training", Free} = {}

Attempts == 1..Max({MaxAttempts[c] : c \in Checkpoints})
NoResult == [attempt |-> 0, verdict |-> None]
Accepted(c, by) == [checkpoint |-> c, by |-> by]
NoPromotion == Accepted(0, None)

Active(b) == job[b] \in {"queued", "running", "retry_wait"}

\* States of an evaluation a batch need not wait for.  (The mutant takes a result
\* that is not at W&B yet for one.)
BuggyFinal == {"accepted", "rejected", "failed", "expired", "awaiting"}
Final == {"accepted", "rejected", "failed", "expired"}

Idle == [batch |-> None, pc |-> "idle", asked |-> FALSE, early |-> FALSE, offset |-> 0,
         attempt |-> 0, statuses |-> [c \in Checkpoints |-> None], choice |-> NoPromotion,
         outcome |-> None]

At(q, place) == worker[q].pc = place
Todo(q) == {c \in Selection[worker[q].batch] : worker[q].statuses[c] = None}
Current(q) == Min(Todo(q))

Goes(q, place) == worker' = [worker EXCEPT ![q].pc = place]
Settles(q, status) ==
  worker' = [worker EXCEPT ![q].pc = "look", ![q].attempt = 0, ![q].statuses[Current(q)] = status]
Returns(q, state) ==
  worker' = [worker EXCEPT ![q] = [Idle EXCEPT !.batch = worker[q].batch, !.pc = "finish",
                                               !.outcome = state]]

Fault == faults > 0 /\ faults' = faults - 1

-----------------------------------------------------------------------------
(* advance_batch: the lease, if training has ended *)

Claim(b) ==
  LET q == Home[b] IN
  /\ At(q, "idle") /\ job[b] \in {"queued", "retry_wait"}
  /\ job' = [job EXCEPT ![b] = "running"]
  /\ worker' = [worker EXCEPT ![q] = [Idle EXCEPT !.batch = b, !.pc = "begin", !.asked = asked[b]]]
  /\ UNCHANGED <<ended, auto, lease, evaluations, records, wandbs, asked, requests, ledger,
                 slipped, faults>>

TakeUp(q) == \E b \in Batches : Home[b] = q /\ Claim(b)

\* The numbers the recorded publications have used.
Used == Max({projection[c] : c \in Checkpoints} \cup {0})

\* (The mutant counts from the end of training.)
BuggyEventSeqOffset == 0
EventSeqOffset == Used

Begin(q) ==
  /\ At(q, "begin")
  /\ \/ /\ ~ended
        /\ worker' = [worker EXCEPT ![q].pc = "look", ![q].early = TRUE]
        /\ UNCHANGED <<lease, slipped>>
     \/ /\ ended /\ lease \in {Free, q}
        /\ lease' = q
        /\ worker' = [worker EXCEPT ![q].pc = "look", ![q].offset = EventSeqOffset]
        /\ slipped' = (slipped \/ wandb > Used)
     \/ /\ ended /\ lease \notin {Free, q}
        /\ Returns(q, "retry_wait")
        /\ UNCHANGED <<lease, slipped>>
  /\ UNCHANGED <<ended, auto, evaluations, records, wandbs, queue, ledger, faults>>

-----------------------------------------------------------------------------
(* _status of the next checkpoint *)

\* A result that belongs to the last attempt; one of another attempt raises.
Verifiable(c) == result[c].attempt = prepared[c]

\* (The mutants retry at once, and never.)
BuggyPending(c) == FALSE
BuggyStillPending(c) == prepared[c] > 0 /\ expired[c] <= prepared[c]
Pending(c) == prepared[c] > 0 /\ expired[c] < prepared[c]

\* _terminal_status: a verdict counts when it is at W&B, where nothing is written
\* while training holds the lease.  (The mutant does not wait for training.)
BuggyShow(q, c) ==
  IF projection[c] # 0 THEN Settles(q, verified[c]) ELSE Goes(q, "append")
Show(q, c) ==
  CASE projection[c] # 0 -> Settles(q, verified[c])
    [] projection[c] = 0 /\ worker[q].early -> Settles(q, "awaiting")
    [] OTHER -> Goes(q, "append")

Look(q) ==
  /\ At(q, "look") /\ Todo(q) # {}
  /\ LET c == Current(q) IN
     CASE verified[c] # None -> Show(q, c)
       [] verified[c] = None /\ result[c] # NoResult /\ Verifiable(c) -> Goes(q, "verify")
       [] verified[c] = None /\ result[c] # NoResult /\ ~Verifiable(c) -> Returns(q, "failed")
       [] verified[c] = None /\ result[c] = NoResult /\ (worker[q].asked \/ Pending(c)) ->
            Settles(q, "unsettled")
       [] verified[c] = None /\ result[c] = NoResult /\ ~worker[q].asked /\ ~Pending(c)
            /\ prepared[c] = MaxAttempts[c] -> Settles(q, "expired")
       [] OTHER -> worker' = [worker EXCEPT ![q].pc = "prepare", ![q].attempt = prepared[c] + 1]
  /\ UNCHANGED <<ended, auto, lease, evaluations, records, wandbs, queue, ledger, slipped, faults>>

\* put_verified_eval_result names the moment: a second one always conflicts.
Verify(q) ==
  /\ At(q, "verify")
  /\ LET c == Current(q) IN
     IF verified[c] = None
     THEN verified' = [verified EXCEPT ![c] = result[c].verdict] /\ Goes(q, "look")
     ELSE UNCHANGED verified /\ Returns(q, "failed")
  /\ UNCHANGED <<ended, auto, lease, prepared, expired, calls, result, records,
                 wandbs, queue, ledger, slipped, faults>>

\* attempt-N.json is create-only: of two machines one goes on and the other fails.
Prepare(q) ==
  /\ At(q, "prepare")
  /\ LET c == Current(q) IN
     IF prepared[c] < worker[q].attempt
     THEN prepared' = [prepared EXCEPT ![c] = worker[q].attempt] /\ Goes(q, "submit")
     ELSE UNCHANGED prepared /\ Returns(q, "failed")
  /\ UNCHANGED <<ended, auto, lease, expired, calls, result, verified, records,
                 wandbs, queue, ledger, slipped, faults>>

Spawned(c, a) == [calls EXCEPT ![c][a] = IF @ = None THEN "live" ELSE "twice"]

\* The call, and the record of its id, which only a cancellation needs.
Submit(q) ==
  /\ At(q, "submit")
  /\ calls' = Spawned(Current(q), worker[q].attempt)
  /\ Settles(q, "unsettled")
  /\ UNCHANGED <<ended, auto, lease, prepared, expired, result, verified, records, wandbs, queue,
                 ledger, slipped, faults>>

\* The spawn raises, and may have happened; or it happened and its record raises.
SubmitFails(q) ==
  /\ At(q, "submit") /\ Fault
  /\ \/ calls' \in {calls, Spawned(Current(q), worker[q].attempt)} /\ Settles(q, "unsettled")
     \/ calls' = Spawned(Current(q), worker[q].attempt) /\ Returns(q, "failed")
  /\ UNCHANGED <<ended, auto, lease, prepared, expired, result, verified, records, wandbs, queue,
                 ledger, slipped>>

-----------------------------------------------------------------------------
(* _project_result.  What it raises is caught: the batch tries again later. *)

Batch(q) == worker[q].batch
Waits(q) == Settles(q, "awaiting")

\* The lease is renewed, or taken again; a row that is there is not inserted again.
AppendRow(q) ==
  /\ At(q, "append")
  /\ \/ /\ lease \in {Free, q}
        /\ lease' = q
        /\ rows' = IF Contains(rows[Batch(q)], Current(q)) THEN rows
                   ELSE [rows EXCEPT ![Batch(q)] = @ \o <<Current(q)>>]
        /\ Goes(q, "publish")
     \/ /\ lease \notin {Free, q}
        /\ Waits(q)
        /\ UNCHANGED <<lease, rows>>
  /\ UNCHANGED <<ended, auto, evaluations, records, wandbs, queue, sent, slipped, faults>>

Unsent(q) == sent[Batch(q)] < Len(rows[Batch(q)])
NextNumber(q) == worker[q].offset + sent[Batch(q)] + 1

\* W&B drops what is logged under a number it has passed.
Arrives(q) ==
  IF NextNumber(q) > wandb
  THEN /\ wandb' = NextNumber(q)
       /\ points' = points \cup {rows[Batch(q)][sent[Batch(q)] + 1]}
  ELSE UNCHANGED wandbs
Marked(q) == sent' = [sent EXCEPT ![Batch(q)] = @ + 1]

Publish(q) ==
  /\ At(q, "publish") /\ Unsent(q)
  /\ Arrives(q) /\ Marked(q)
  /\ UNCHANGED <<ended, auto, lease, evaluations, records, queue, rows, worker, slipped, faults>>

\* Logging raises, or close_wandb does after the frame was logged and marked.
PublishFails(q) ==
  /\ At(q, "publish") /\ Unsent(q) /\ Fault
  /\ \/ UNCHANGED <<wandbs, sent>>
     \/ Arrives(q) /\ Marked(q)
  /\ Waits(q)
  /\ UNCHANGED <<ended, auto, lease, evaluations, records, queue, rows, slipped>>

\* A frame that was marked is not uploaded.
UploadLost(q) ==
  /\ At(q, "publish") /\ Unsent(q) /\ Fault
  /\ Marked(q) /\ slipped' = TRUE
  /\ Waits(q)
  /\ UNCHANGED <<ended, auto, lease, evaluations, records, wandbs, queue, rows>>

Published(q) ==
  /\ At(q, "publish") /\ ~Unsent(q)
  /\ Goes(q, "record")
  /\ UNCHANGED <<ended, auto, lease, evaluations, records, wandbs, queue, ledger, slipped, faults>>

\* The projection is recorded once W&B shows the number of the ledger's last row.
HighWater(q) == worker[q].offset + Len(rows[Batch(q)])

Record(q) ==
  /\ At(q, "record")
  /\ LET c == Current(q) IN
     IF wandb >= HighWater(q) /\ projection[c] = 0
     THEN projection' = [projection EXCEPT ![c] = HighWater(q)] /\ Settles(q, verified[c])
     ELSE UNCHANGED projection /\ Waits(q)
  /\ UNCHANGED <<ended, auto, lease, evaluations, promotion, receipt, wandbs, queue, ledger,
                 slipped, faults>>

\* W&B does not show it yet, or cannot be asked.
RemoteLags(q) ==
  /\ At(q, "record") /\ Fault
  /\ Waits(q)
  /\ UNCHANGED <<ended, auto, lease, evaluations, records, wandbs, queue, ledger, slipped>>

-----------------------------------------------------------------------------
(* What a batch concludes *)

Statuses(q) == worker[q].statuses
Open(q) == {c \in Selection[Batch(q)] : Statuses(q)[c] \notin Final}

Conclude(q) ==
  /\ At(q, "look") /\ Todo(q) = {}
  /\ CASE worker[q].asked -> Goes(q, "cancel")
       [] ~worker[q].asked /\ Open(q) # {} -> Returns(q, "retry_wait")
       [] OTHER -> Goes(q, "choose")
  /\ UNCHANGED <<ended, auto, lease, evaluations, records, wandbs, queue, ledger, slipped, faults>>

\* The calls on record are canceled, or cannot be.
Cancel(q) ==
  /\ At(q, "cancel")
  /\ \E S \in SUBSET {c \in Open(q) : prepared[c] > 0} :
       calls' = [c \in Checkpoints |-> [a \in Attempts |->
                   IF c \in S /\ a = prepared[c] /\ calls[c][a] = "live" THEN "gone"
                   ELSE calls[c][a]]]
  /\ worker' = [worker EXCEPT ![q].pc = "choose",
                  ![q].statuses = [c \in Checkpoints |->
                                     IF c \in Open(q) THEN "canceled" ELSE @[c]]]
  /\ UNCHANGED <<ended, auto, lease, prepared, expired, result, verified, records,
                 wandbs, queue, ledger, slipped, faults>>

\* The accepted evaluations of the run, whoever asked for them.
Candidates ==
  {Accepted(c, "training") : c \in auto}
    \cup {Accepted(c, "batch") : c \in {d \in Checkpoints : verified[d] = "accepted"}}
LowestStep == Min({k.checkpoint : k \in Candidates})

\* _promotion_candidate, _finalize_promotion.  Two acceptances of one checkpoint
\* cannot be compared (TypeError), when min() meets them.
Twice(c) == {Accepted(c, "training"), Accepted(c, "batch")} \subseteq Candidates

Choose(q) ==
  /\ At(q, "choose")
  /\ \/ /\ Candidates = {}
        /\ Goes(q, "receipt")
     \/ /\ \E c \in Checkpoints : Twice(c)
        /\ Returns(q, "failed")
     \/ \E k \in Candidates :
          /\ k.checkpoint = LowestStep /\ ~Twice(LowestStep)
          /\ CASE promotion = NoPromotion ->
                    worker' = [worker EXCEPT ![q].pc = "promote", ![q].choice = k]
               [] promotion = k -> Goes(q, "leader")
               [] OTHER -> Returns(q, "blocked")
  /\ UNCHANGED <<ended, auto, lease, evaluations, records, wandbs, queue, ledger, slipped, faults>>

\* _promote reads again: a promotion by somebody else that came in between.
Promote(q) ==
  /\ At(q, "promote")
  /\ LET k == worker[q].choice IN
     CASE promotion = NoPromotion -> promotion' = k /\ Goes(q, "leader")
       [] promotion = k -> Goes(q, "leader") /\ UNCHANGED promotion
       [] promotion # NoPromotion /\ promotion.checkpoint > k.checkpoint ->
            Returns(q, "failed") /\ UNCHANGED promotion
       [] OTHER -> Returns(q, "blocked") /\ UNCHANGED promotion
  /\ UNCHANGED <<ended, auto, lease, evaluations, projection, receipt, wandbs, queue, ledger,
                 slipped, faults>>

\* _ensure_promotion_projection
Leader(q) ==
  /\ At(q, "leader")
  /\ \/ Goes(q, "receipt") /\ UNCHANGED faults
     \/ Fault /\ Returns(q, "retry_wait")
  /\ UNCHANGED <<ended, auto, lease, evaluations, records, wandbs, queue, ledger, slipped>>

Conclusion(q) ==
  LET S == Selection[Batch(q)] IN
  [state |-> IF worker[q].asked THEN "canceled"
             ELSE IF \E c \in S : Statuses(q)[c] \in {"failed", "expired"} THEN "failed"
             ELSE "succeeded",
   statuses |-> Statuses(q),
   shown |-> {c \in S : verified[c] # None},
   promotion |-> promotion,
   mark |-> Max({projection[c] : c \in S})]

\* _manual_terminal: a receipt that is there must be the same.
WriteReceipt(q) ==
  /\ At(q, "receipt")
  /\ LET b == Batch(q) IN
     IF receipt[b] \subseteq {Conclusion(q)}
     THEN receipt' = [receipt EXCEPT ![b] = {Conclusion(q)}] /\ Returns(q, Conclusion(q).state)
     ELSE UNCHANGED receipt /\ Returns(q, "failed")
  /\ UNCHANGED <<ended, auto, lease, evaluations, promotion, projection, wandbs, queue, ledger,
                 slipped, faults>>

Finish(q) ==
  /\ At(q, "finish")
  /\ job' = [job EXCEPT ![Batch(q)] = worker[q].outcome]
  /\ worker' = [worker EXCEPT ![q] = Idle]
  /\ UNCHANGED <<ended, auto, lease, evaluations, records, wandbs, asked, requests, ledger,
                 slipped, faults>>

\* A bucket call raises outside of _project_result: the job fails.
Raises(q) ==
  /\ worker[q].pc \in {"begin", "look", "verify", "prepare", "choose", "promote",
                        "receipt"}
  /\ Fault
  /\ Returns(q, "failed")
  /\ UNCHANGED <<ended, auto, lease, evaluations, records, wandbs, queue, ledger, slipped>>

\* The worker dies, perhaps between logging a frame and marking it; its successor
\* takes the job up again.
WorkerDies(q) ==
  /\ ~At(q, "idle") /\ Fault
  /\ job' = [job EXCEPT ![Batch(q)] = "queued"]
  /\ worker' = [worker EXCEPT ![q] = Idle]
  /\ UNCHANGED wandbs \/ (At(q, "publish") /\ Unsent(q) /\ Arrives(q))
  /\ UNCHANGED <<ended, auto, lease, evaluations, records, asked, requests, ledger, slipped>>

-----------------------------------------------------------------------------
(* Training, Modal, the operator, time *)

TrainingAccepts(c) ==
  /\ lease = "training" /\ ~ended /\ c \in Evaluated \ auto
  /\ auto' = auto \cup {c}
  /\ UNCHANGED <<ended, lease, evaluations, records, wandbs, queue, ledger, worker, slipped,
                 faults>>

\* A task is preempted and its lease expires; the next one acquires it.
TrainingStops == ~ended /\ lease = "training" /\ lease' = Free
TrainingResumes == ~ended /\ lease = Free /\ lease' = "training"
TrainingRestarts ==
  /\ TrainingStops \/ TrainingResumes
  /\ UNCHANGED <<ended, auto, evaluations, records, wandbs, queue, ledger, worker, slipped,
                 faults>>

\* Training promotes its own; a promotion its ledger does not know raises, and the
\* attempt ends without a receipt that counts (_publish_promotion).
TrainingEnds ==
  /\ lease = "training" /\ ~ended /\ ended' = TRUE
  /\ \/ promotion = NoPromotion /\ auto = {} /\ UNCHANGED promotion
     \/ promotion = NoPromotion /\ auto # {} /\ promotion' = Accepted(Min(auto), "training")
     \/ promotion # NoPromotion /\ promotion.by = "training" /\ UNCHANGED promotion
  /\ UNCHANGED <<auto, lease, evaluations, projection, receipt, wandbs, queue, ledger, worker,
                 slipped, faults>>

\* A verdict, or "expired" by a call that starts too late.
WorkerUploads(c, a) ==
  /\ calls[c][a] = "live" /\ result[c] = NoResult
  /\ calls' = [calls EXCEPT ![c][a] = "gone"]
  /\ \E v \in Verdicts \cup (IF expired[c] >= a THEN {"expired"} ELSE {}) :
       result' = [result EXCEPT ![c] = [attempt |-> a, verdict |-> v]]
  /\ UNCHANGED <<ended, auto, lease, prepared, expired, verified, records, wandbs,
                 queue, ledger, worker, slipped, faults>>

\* (When the result is there, nobody looks at the deadline any more.)
Expire(c) ==
  /\ expired[c] < prepared[c] /\ result[c] = NoResult
  /\ expired' = [expired EXCEPT ![c] = prepared[c]]
  /\ UNCHANGED <<ended, auto, lease, prepared, calls, result, verified, records,
                 wandbs, queue, ledger, worker, slipped, faults>>

\* A lease nobody renews expires.
LeaseExpires ==
  /\ lease # Free
  /\ IF lease = "training" THEN ended ELSE At(lease, "idle")
  /\ lease' = Free
  /\ UNCHANGED <<ended, auto, evaluations, records, wandbs, queue, ledger, worker, slipped,
                 faults>>

\* An advance may take longer than its lease: it is renewed before a publication only.
LeaseLapses(q) ==
  /\ lease = q /\ ~At(q, "idle") /\ Fault
  /\ lease' = Free /\ slipped' = TRUE
  /\ UNCHANGED <<ended, auto, evaluations, records, wandbs, queue, ledger, worker>>

\* A waiting job is canceled there and then, a running one is told at its next advance.
RequestCancel(b) ==
  /\ Active(b) /\ ~asked[b]
  /\ requests > 0 /\ requests' = requests - 1
  /\ asked' = [asked EXCEPT ![b] = TRUE]
  /\ job' = [job EXCEPT ![b] = IF @ = "running" THEN @ ELSE "canceled"]
  /\ UNCHANGED <<ended, auto, lease, evaluations, records, wandbs, ledger, worker,
                 slipped, faults>>

Retry(b) ==
  /\ job[b] \in {"blocked", "failed", "canceled"}
  /\ requests > 0 /\ requests' = requests - 1
  /\ job' = [job EXCEPT ![b] = "queued"] /\ asked' = [asked EXCEPT ![b] = FALSE]
  /\ UNCHANGED <<ended, auto, lease, evaluations, records, wandbs, ledger, worker, slipped,
                 faults>>

-----------------------------------------------------------------------------
Init ==
  /\ ended = FALSE /\ auto = {} /\ promotion = NoPromotion /\ lease = "training"
  /\ prepared = [c \in Checkpoints |-> 0] /\ expired = prepared
  /\ calls = [c \in Checkpoints |-> [a \in Attempts |-> None]]
  /\ result = [c \in Checkpoints |-> NoResult]
  /\ verified = [c \in Checkpoints |-> None]
  /\ projection = [c \in Checkpoints |-> 0]
  /\ receipt = [b \in Batches |-> {}]
  /\ wandb = 0 /\ points = {}
  /\ \E cast \in Casts :
       /\ job = [b \in Batches |-> IF b \in cast.batches THEN "queued" ELSE "absent"]
       /\ faults = cast.faults /\ requests = cast.requests
  /\ asked = [b \in Batches |-> FALSE]
  /\ rows = [b \in Batches |-> <<>>] /\ sent = [b \in Batches |-> 0]
  /\ worker = [q \in Queues |-> Idle]
  /\ slipped = FALSE

\* The steps of a worker in a job that nothing disturbs.
Advance(q) ==
  \/ Begin(q) \/ Look(q) \/ Verify(q) \/ Prepare(q) \/ Submit(q)
  \/ AppendRow(q) \/ Publish(q) \/ Published(q) \/ Record(q)
  \/ Conclude(q) \/ Cancel(q) \/ Choose(q) \/ Promote(q) \/ Leader(q) \/ WriteReceipt(q)
  \/ Finish(q)

Disturbed(q) ==
  \/ SubmitFails(q) \/ PublishFails(q) \/ UploadLost(q) \/ RemoteLags(q) \/ Raises(q) \/ WorkerDies(q)
  \/ LeaseLapses(q)

Next ==
  \/ \E q \in Queues : Advance(q) \/ Disturbed(q)
  \/ \E c \in Checkpoints : TrainingAccepts(c) \/ Expire(c)
  \/ \E c \in Checkpoints, a \in Attempts : WorkerUploads(c, a)
  \/ TrainingRestarts \/ TrainingEnds \/ LeaseExpires
  \/ \E b \in Batches : Claim(b) \/ RequestCancel(b) \/ Retry(b)

Spec == Init /\ [][Next]_vars

\* Workers go on, an idle one takes up a waiting job, though not each of several in
\* turn (claim_next), deadlines pass, and a lease nobody renews expires.  Nothing is
\* assumed of training, Modal, the operator.
Fairness ==
  /\ \A q \in Queues : WF_vars(Advance(q)) /\ WF_vars(TakeUp(q))
  /\ \A c \in Checkpoints : WF_vars(Expire(c))
  /\ WF_vars(LeaseExpires)

FairSpec == Spec /\ Fairness

-----------------------------------------------------------------------------
(* Properties *)

\* A batch that succeeded has a receipt, W&B and the bucket show a verdict of each of
\* its checkpoints, and an accepted one is promoted or a lower one is.
SucceededIsBacked ==
  \A b \in Batches : job[b] = "succeeded" =>
    /\ \E r \in receipt[b] : r.state = "succeeded"
    /\ \A c \in Selection[b] :
         /\ verified[c] \in {"accepted", "rejected"} /\ projection[c] # 0
         /\ verified[c] = "accepted" => promotion.checkpoint \in 1..c

\* While training goes on nothing is written to W&B, and a batch promotes or leaves a
\* receipt only when it was asked to stop or none of its evaluations came back.
WaitsForTraining ==
  [][~ended =>
       /\ UNCHANGED <<wandbs, projection>>
       /\ \/ ended'
          \/ UNCHANGED <<promotion, receipt>>
          \/ \E q \in Queues :
               /\ worker[q].pc \in {"promote", "receipt"}
               /\ \/ worker[q].asked
                  \/ \A c \in Selection[Batch(q)] : Statuses(q)[c] = "expired"]_vars

\* A result that is recorded as projected is in W&B's history, unless the numbers
\* given out may have been used before.
ProjectedIsLogged == \A c \in Checkpoints : projection[c] # 0 => c \in points \/ slipped

\* Two machines do not spawn an attempt twice, nor a second one before the first expired.
OneLiveEvaluation ==
  \A c \in Checkpoints, a \in Attempts :
    /\ calls[c][a] # "twice"
    /\ calls[c][a] = "live" /\ a < prepared[c] => a <= expired[c]

\* A waiting batch has marked everything it logged, but the number it will look for is
\* above the last one W&B has: rows published under an older offset are counted again.
Overrun(b) ==
  /\ job[b] = "retry_wait" /\ sent[b] = Len(rows[b])
  /\ \E c \in Selection[b] : Contains(rows[b], c) /\ projection[c] = 0
  /\ Used + Len(rows[b]) > wandb

\* Once training has ended a batch ends, unless some batch waits for a number that
\* nobody is going to use.
BatchEndsUnlessOverrun ==
  \A b \in Batches : (ended /\ Active(b)) ~> (~Active(b) \/ \E d \in Batches : Overrun(d))

=============================================================================
