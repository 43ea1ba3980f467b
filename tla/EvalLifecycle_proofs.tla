------------------------- MODULE EvalLifecycle_proofs -------------------------
(***************************************************************************)
(* Proofs about EvalLifecycle, for any number of checkpoints, starts and   *)
(* faults: its safety invariants, the action property LastResultCounts and *)
(* that it implements EvalVerdicts.                                        *)
(***************************************************************************)
EXTENDS EvalLifecycle, WellFoundedInduction, TLAPS

USE CountAssumption

(* What is in the buckets, and around the supervisor, hangs together whatever *)
(* process is there: who was evaluated was published with an intent, who was  *)
(* spawned was prepared, the promoted one is accepted.                        *)
KeptOK ==
  \A c \in Checkpoints :
    prepared[c] # 0 \/ verified[c] # None => c \in published \cap intents

AttemptOK ==
  \A c \in Checkpoints :
    /\ \A a \in Attempts : calls[c][a] # None => a <= prepared[c]
    /\ result[c] # NoResult => calls[c][result[c].attempt] # None

PromotionOK ==
  promotion # 0 =>
    /\ verified[promotion] = "accepted"
    /\ \A c \in Checkpoints : verified[c] = None => prepared[c] = 0

BucketType ==
  /\ published \subseteq Checkpoints /\ intents \subseteq Checkpoints
  /\ prepared \in [Checkpoints -> 0..MaxAttempts]
  /\ result \in [Checkpoints -> Results]
  /\ verified \in [Checkpoints -> ResultTerminal \cup {None}]
  /\ promotion \in 0..Last
  /\ expired \in [Checkpoints -> 0..MaxAttempts]
  /\ calls \in [Checkpoints -> [Attempts -> {None, "live", "gone", "twice"}]]

BucketOK ==
  /\ BucketType /\ KeptOK /\ AttemptOK /\ PromotionOK
  /\ EachAttemptSpawnedOnce /\ RetryOnlyAfterExpiry

(* Where the supervisor is, and what it leaves when it is not.                 *)
PlaceOK ==
  /\ phase \in {"down", "closing", "receipted"} => stage = "top"
  /\ stage = "recover" <=> phase = "recovering"
  /\ stage = "defer" => phase = "failing"
  /\ phase = "failing" => closed
  /\ phase \in {"down", "recovering", "drain", "closing", "receipted"} => learner = "exited"
  /\ phase = "down" => saved = {} /\ recorded = {} /\ row = [c \in Checkpoints |-> NoRow]
  /\ phase \notin {"down", "receipted"} => outcome = None
  /\ phase = "receipted" => outcome = "succeeded"
  /\ terminal => phase = "down"

(* A loop over rows has only rows left that it was made for.                   *)
TodoOK ==
  /\ stage # "recover" => todo \subseteq Rows(stage)
  /\ stage = "recover" => \A c \in todo : row[c].status \in Unsettled

(* A row whose result was looked for in vain is still to be dealt with; what was *)
(* there is of another attempt, and stays.                                       *)
LookOK ==
  /\ look \in [row : 0..Last, result : Results]
  /\ look # NoLook =>
       /\ look.row \in todo /\ stage \in {"settle", "resettle", "poll", "cancel"}
       /\ look.result \in {NoResult, result[look.row]}
       /\ look.result = NoResult \/ look.result.attempt # row[look.row].attempt
       /\ stage = "poll" => AttemptExpired(look.row)

FinalOK ==
  /\ Last \in saved \cup published => final = Last
  /\ LearnerAlive => final = 0
  /\ phase \in {"down", "recovering"} => final \in published \cup {0}

(* The ledger knows what is in the buckets.  Where a bucket call failed between *)
(* the bucket and the ledger, the failure drain has begun: only there may an    *)
(* attempt or a verdict be missing from a row.                                  *)
Intact == phase \notin {"down", "failing"}

RecordOK ==
  /\ recorded \subseteq published
  /\ phase # "down" => published \subseteq recorded \cup saved
  /\ \A c \in Checkpoints :
       /\ row[c].status # None => c \in recorded \cap intents
       /\ row[c].status = None => row[c].attempt = 0
       /\ phase # "down" /\ c \notin recorded => prepared[c] = 0 /\ verified[c] = None

RowOK ==
  \A c \in Checkpoints :
    /\ row[c].attempt <= prepared[c]
    /\ row[c].status = "pending" => row[c].attempt < MaxAttempts /\ row[c].attempt <= expired[c]
    /\ Intact =>
         /\ row[c].attempt = prepared[c]
         /\ verified[c] # None => row[c].status = verified[c]
         /\ row[c].status = "deferred" => row[c].attempt = 0

AcceptanceCloses == DurablyAccepted => phase = "down" \/ closed

FailureOK ==
  phase = "closing" /\ ~canceled /\ promotion = 0 =>
    published # {} /\ \A c \in published : verified[c] = "rejected"

IInv ==
  /\ TypeOK /\ BucketOK /\ PlaceOK /\ TodoOK /\ LookOK /\ FinalOK /\ RecordOK /\ RowOK
  /\ AcceptanceCloses /\ FailureOK
  /\ LedgerAgreesWithBucket /\ FailureIsEvidenced /\ AcceptanceStopsLearner

-----------------------------------------------------------------------------
(* The operators *)

LEMMA CountsAre ==
  /\ Last \in Nat /\ Last >= 1 /\ MaxAttempts \in {1, 2} /\ MaxAttempts \in Nat
  /\ MaxStarts \in Nat /\ MaxFaults \in Nat /\ 1 \in Attempts
  /\ Checkpoints \subseteq Nat \ {0} /\ 0 \notin Checkpoints /\ Last \in Checkpoints
BY DEF Checkpoints, Attempts

LEMMA StatusesAre ==
  /\ "expired" \in ResultTerminal /\ "canceled" \in ResultTerminal
  /\ Verdicts \subseteq ResultTerminal /\ None \notin ResultTerminal
  /\ "expired" \notin Verdicts /\ "canceled" \notin Verdicts /\ None \notin Verdicts
  /\ "rejected" \in ResultTerminal => "rejected" \in Verdicts
  /\ "accepted" \in ResultTerminal => "accepted" \in Verdicts
  /\ ResultTerminal \subseteq Settled /\ "deferred" \in Settled /\ None \in Settled
  /\ "deferred" \notin ResultTerminal /\ ResultTerminal \cap Unsettled = {}
  /\ Unsettled = {"pending", "submitted"} /\ Settled \cap Unsettled = {}
  /\ "pending" \notin Settled /\ "submitted" \notin Settled
BY DEF ResultTerminal, Settled, Unsettled, None

LEMMA NoRowIs ==
  /\ NoRow.status = None /\ NoRow.attempt = 0
  /\ NoRow \in [status : Settled \cup Unsettled, attempt : 0..MaxAttempts]
BY CountsAre, StatusesAre DEF NoRow

LEMMA NoResultIs ==
  /\ NoResult.attempt = 0 /\ NoResult.verdict = None /\ NoResult \in Results
  /\ NoResult \notin [attempt : Attempts, verdict : Verdicts \cup {"expired"}]
  /\ \A r \in Results : r # NoResult => r.attempt \in Attempts
BY CountsAre DEF NoResult, Attempts, Results

LEMMA NoLookIs ==
  NoLook.row = 0 /\ NoLook.result = NoResult /\ NoLook \in [row : 0..Last, result : Results]
BY CountsAre, NoResultIs DEF NoLook

\* Between two rows nothing is looked at.
LEMMA NotLooking ==
  ASSUME look' = NoLook
  PROVE  LookOK'
BY NoLookIs DEF LookOK

\* The least of some checkpoints.
LEMMA LowestIs ==
  ASSUME NEW S \in SUBSET Checkpoints, S # {}
  PROVE  Lowest(S) \in S /\ \A d \in S : Lowest(S) <= d
<1> DEFINE Less == {p \in Nat \X Nat : p[1] < p[2]}
<1>1. IsWellFoundedOn(Less, Nat)
  BY NatLessThanWellFounded DEF OpToRel
<1>2. S \subseteq Nat
  BY CountsAre
<1>3. PICK c \in S : \A d \in S : <<d, c>> \notin Less
  BY <1>1, <1>2, WFMin, Zenon
<1>4. ASSUME NEW d \in S
      PROVE  c <= d
  <2>1. c \in Nat /\ d \in Nat
    BY <1>2
  <2>2. d < c => <<d, c>> \in Less
    BY <2>1
  <2> QED
    BY <1>3, <2>1, <2>2
<1> QED
  BY <1>4 DEF Lowest

\* The loops of each stage.
LEMMA RowsAre ==
  /\ Rows("top") = {}
  /\ Rows("publish") = saved \ recorded
  /\ Rows("cancel") = InStatus(Unsettled)
  /\ Rows("defer") = InStatus(Unsettled)
  /\ Rows("reconcile") =
       InStatus({"submitted"}) \cup {c \in InStatus({"pending"}) : row[c].attempt > 0}
  /\ Rows("settle") = IF closed THEN InStatus({"pending"}) ELSE {}
  /\ Rows("resettle") = IF closed THEN InStatus({"pending"}) ELSE {}
  /\ Rows("submit") = IF closed THEN {} ELSE InStatus({"pending"})
  /\ Rows("poll") = InStatus({"submitted"})
BY DEF Rows

\* A run that knows its last loop has one to go to.
LEMMA NextStageIs ==
  ASSUME stage \in Stages \ {"top", "recover", "defer"}
  PROVE  NextStage \in Stages \ {"publish", "recover", "defer"}
<1> DEFINE Ranked == {Rank[s] : s \in Ahead}
           Less == {p \in Nat \X Nat : p[1] < p[2]}
<1>1. Branch \subseteq {"cancel", "reconcile", "settle", "submit", "poll", "resettle", "top"}
  BY DEF Branch
<1>2. \A s \in Stages \ {"recover", "defer"} : Rank[s] \in Nat /\ Rank[s] <= Rank["top"]
  BY DEF Rank, Stages
<1>3. Rank[stage] < Rank["top"]
  BY DEF Rank, Stages
<1>4. "top" \in Ahead
  BY <1>3 DEF Ahead, Branch
<1>5. Ahead \subseteq Branch
  BY DEF Ahead
<1>6. Ranked \subseteq Nat
  BY <1>1, <1>2, <1>5 DEF Stages
<1>7. \E s \in Ahead : \A t \in Ahead : Rank[s] <= Rank[t]
  <2>1. IsWellFoundedOn(Less, Nat)
    BY NatLessThanWellFounded DEF OpToRel
  <2>2. Ranked # {}
    BY <1>4
  <2> HIDE DEF Ranked
  <2>3. PICK r \in Ranked : \A q \in Ranked : <<q, r>> \notin Less
    BY <2>1, <2>2, <1>6, WFMin, Zenon
  <2> USE DEF Ranked
  <2>4. ASSUME NEW q \in Ranked
        PROVE  r <= q
    <3>1. r \in Nat /\ q \in Nat
      BY <1>6
    <3>2. q < r => <<q, r>> \in Less
      BY <3>1
    <3> QED
      BY <2>3, <3>1, <3>2
  <2>5. PICK s \in Ahead : r = Rank[s]
    OBVIOUS
  <2>6. \A t \in Ahead : Rank[t] \in Ranked
    OBVIOUS
  <2> HIDE DEF Ranked
  <2> QED
    BY <2>4, <2>5, <2>6
<1>8. NextStage \in Ahead
  BY <1>7 DEF NextStage
<1> QED
  BY <1>1, <1>5, <1>8 DEF Stages

LEMMA NextCheckpointIs ==
  ASSUME saved \cup published \subseteq Checkpoints, Last \notin saved \cup published
  PROVE  NextCheckpoint \in Checkpoints
<1> DEFINE Above == {c \in Checkpoints : \A d \in saved \cup published : d < c}
           next == Lowest(Above)
<1>1. Last \in Above
  BY CountsAre DEF Checkpoints
<1>2. next \in Above /\ \A c \in Above : next <= c
  <2> HIDE DEF Above
  <2>1. Above \in SUBSET Checkpoints
    BY DEF Above
  <2> QED
    BY <1>1, <2>1, LowestIs
<1> HIDE DEF next
<1>3. next = 1 \/ next - 1 \in saved \cup published
  <2> SUFFICES ASSUME next # 1
               PROVE  next - 1 \in saved \cup published
    OBVIOUS
  <2>1. next - 1 \in Checkpoints /\ next - 1 \notin Above
    BY <1>2 DEF Checkpoints
  <2>2. PICK d \in saved \cup published : ~(d < next - 1)
    BY <2>1
  <2>3. d < next /\ d \in Nat /\ next \in Nat
    BY <1>2, CountsAre
  <2>4. d = next - 1
    BY <2>2, <2>3
  <2> QED
    BY <2>4
<1>4. next \in 1..Last + 1 /\ \A d \in saved \cup published : d < next
  BY <1>2 DEF Checkpoints
<1>5. NextCheckpoint \in 1..Last + 1
      /\ (\A d \in saved \cup published : d < NextCheckpoint)
      /\ (NextCheckpoint = 1 \/ NextCheckpoint - 1 \in saved \cup published)
  BY <1>3, <1>4 DEF NextCheckpoint
<1>6. NextCheckpoint # Last + 1
  <2> SUFFICES ASSUME NextCheckpoint = Last + 1
               PROVE  FALSE
    OBVIOUS
  <2>1. Last + 1 # 1 /\ (Last + 1) - 1 = Last
    BY CountsAre
  <2> QED
    BY <1>5, <2>1
<1> QED
  BY <1>5, <1>6 DEF Checkpoints

-----------------------------------------------------------------------------
(* What a step does to the ledger *)

LedgerRows == [Checkpoints -> [status : Settled \cup Unsettled, attempt : 0..MaxAttempts]]

LEMMA StatusSet ==
  ASSUME row \in LedgerRows, NEW c \in Checkpoints, NEW status \in Settled \cup Unsettled,
         row' = [row EXCEPT ![c].status = status]
  PROVE  /\ row' \in LedgerRows
         /\ row'[c].status = status /\ row'[c].attempt = row[c].attempt
         /\ \A d \in Checkpoints \ {c} : row'[d] = row[d]
<1> DEFINE r == [row[c] EXCEPT !.status = status]
<1>1. /\ r \in [status : Settled \cup Unsettled, attempt : 0..MaxAttempts]
      /\ r.status = status /\ r.attempt = row[c].attempt
  BY DEF LedgerRows
<1> HIDE DEF r
<1>2. row' = [row EXCEPT ![c] = r]
  BY DEF r
<1> QED
  BY <1>1, <1>2 DEF LedgerRows

LEMMA NoRowsAre ==
  ASSUME NEW r, r = [c \in Checkpoints |-> NoRow]
  PROVE  /\ r \in LedgerRows
         /\ \A c \in Checkpoints : r[c].status = None /\ r[c].attempt = 0
BY NoRowIs DEF LedgerRows

LEMMA RowTyped ==
  ASSUME TypeOK
  PROVE  /\ row \in LedgerRows
         /\ \A c \in Checkpoints :
              /\ row[c].status \in Settled \cup Unsettled
              /\ row[c].attempt \in 0..MaxAttempts /\ row[c].attempt \in Nat
BY CountsAre DEF TypeOK, LedgerRows

\* The rows left in a loop, whatever becomes of the row it is at.
LEMMA TodoLeft ==
  ASSUME TypeOK, TodoOK, NEW c \in Checkpoints,
         \A d \in Checkpoints \ {c} : row'[d] = row[d],
         todo' = todo \ {c}, UNCHANGED <<stage, saved>>, recorded' \subseteq recorded \cup {c},
         closed' = closed \/ (closed' = TRUE /\ stage # "submit")
  PROVE  TodoOK'
<1>1. \A S : InStatus(S) \ {c} \subseteq InStatus(S)'
  BY DEF InStatus
<1>2. CASE stage = "recover"
  BY <1>2 DEF TodoOK, TypeOK
<1>3. CASE stage # "recover"
  <2> SUFFICES ASSUME NEW d \in todo, d # c
               PROVE  d \in Rows(stage)'
    BY <1>3 DEF TodoOK
  <2>1. d \in Rows(stage) /\ d \in Checkpoints /\ row'[d] = row[d]
    BY <1>3 DEF TodoOK, TypeOK
  <2> QED
    BY <1>3, <2>1 DEF TypeOK, Stages, Rows, InStatus
<1> QED
  BY <1>2, <1>3

-----------------------------------------------------------------------------
(* What a step does to the buckets *)

LEMMA BucketSame ==
  ASSUME BucketOK,
         UNCHANGED <<published, intents, prepared, result, verified, promotion, expired, calls>>
  PROVE  BucketOK'
BY DEF BucketOK, BucketType, KeptOK, AttemptOK, PromotionOK, EachAttemptSpawnedOnce,
       RetryOnlyAfterExpiry

\* A call may be canceled; none is made.
CallsQuiet ==
  /\ calls' \in [Checkpoints -> [Attempts -> {None, "live", "gone"}]]
  /\ \A c \in Checkpoints, a \in Attempts : calls'[c][a] = None <=> calls[c][a] = None

LEMMA SameCalls ==
  ASSUME BucketOK, UNCHANGED calls
  PROVE  CallsQuiet
BY DEF BucketOK, BucketType, CallsQuiet, EachAttemptSpawnedOnce

LEMMA BucketDecides ==
  ASSUME BucketOK, NEW c \in Checkpoints, NEW status \in ResultTerminal,
         c \in published \cap intents, verified[c] = None,
         verified' \in {verified, [verified EXCEPT ![c] = status]}, CallsQuiet,
         UNCHANGED <<published, intents, prepared, result, promotion, expired>>
  PROVE  BucketOK'
<1>1. /\ verified' \in [Checkpoints -> ResultTerminal \cup {None}]
      /\ verified'[c] \in {None, status}
      /\ \A d \in Checkpoints \ {c} : verified'[d] = verified[d]
  BY DEF BucketOK, BucketType
<1>2. BucketType'
  BY <1>1 DEF BucketOK, BucketType, CallsQuiet
<1>3. KeptOK'
  BY <1>1 DEF BucketOK, KeptOK
<1>4. AttemptOK'
  <2>1. \A d \in Checkpoints : result[d] # NoResult => result[d].attempt \in Attempts
    BY NoResultIs DEF BucketOK, BucketType
  <2> QED
    BY <2>1 DEF BucketOK, AttemptOK, CallsQuiet
<1>5. PromotionOK'
  <2> SUFFICES ASSUME promotion # 0
               PROVE  /\ verified'[promotion] = "accepted"
                      /\ \A d \in Checkpoints : verified'[d] = None => prepared[d] = 0
    BY DEF PromotionOK
  <2>1. /\ promotion \in Checkpoints \ {c} /\ verified[promotion] = "accepted"
        /\ \A d \in Checkpoints : verified[d] = None => prepared[d] = 0
    BY DEF BucketOK, PromotionOK, BucketType, Checkpoints, None
  <2> QED
    BY <1>1, <2>1
<1>6. EachAttemptSpawnedOnce'
  BY DEF EachAttemptSpawnedOnce, CallsQuiet, None
<1>7. RetryOnlyAfterExpiry'
  BY DEF BucketOK, RetryOnlyAfterExpiry, CallsQuiet
<1> QED
  BY <1>2, <1>3, <1>4, <1>5, <1>6, <1>7 DEF BucketOK

\* The next attempt is prepared, and spawned or not.
LEMMA BucketSpawns ==
  ASSUME BucketOK, NEW c \in Checkpoints, NEW a \in Attempts,
         c \in published \cap intents, promotion = 0, prepared[c] < a, a - 1 <= expired[c],
         prepared' = [prepared EXCEPT ![c] = a], calls' \in {calls, Spawned(c, a)},
         UNCHANGED <<published, intents, result, verified, promotion, expired>>
  PROVE  BucketOK'
<1>1. calls[c][a] = None
  BY CountsAre DEF BucketOK, BucketType, AttemptOK, Attempts
<1>2. /\ calls' \in [Checkpoints -> [Attempts -> {None, "live", "gone"}]]
      /\ \A d \in Checkpoints, b \in Attempts :
           calls'[d][b] # calls[d][b] => d = c /\ b = a
      /\ \A d \in Checkpoints, b \in Attempts : calls[d][b] # None => calls'[d][b] # None
  <2> DEFINE one == [calls[c] EXCEPT ![a] = "live"]
  <2>1. calls \in [Checkpoints -> [Attempts -> {None, "live", "gone"}]]
    BY DEF BucketOK, BucketType, EachAttemptSpawnedOnce
  <2>2. calls' = calls \/ calls' = [calls EXCEPT ![c] = one]
    BY <1>1, <2>1 DEF Spawned
  <2>3. /\ one \in [Attempts -> {None, "live", "gone"}]
        /\ one[a] = "live" /\ \A b \in Attempts \ {a} : one[b] = calls[c][b]
    BY <2>1
  <2> HIDE DEF one
  <2> QED
    BY <1>1, <2>1, <2>2, <2>3
<1>3. /\ prepared' \in [Checkpoints -> 0..MaxAttempts] /\ prepared'[c] = a
      /\ \A d \in Checkpoints \ {c} : prepared'[d] = prepared[d]
  BY CountsAre DEF BucketOK, BucketType, Attempts
<1>4. BucketType'
  BY <1>2, <1>3 DEF BucketOK, BucketType
<1>5. KeptOK'
  BY <1>3 DEF BucketOK, KeptOK
<1>6. AttemptOK'
  <2>1. \A d \in Checkpoints : result[d] # NoResult => result[d].attempt \in Attempts
    BY NoResultIs DEF BucketOK, BucketType
  <2>2. ASSUME NEW d \in Checkpoints, NEW b \in Attempts, calls'[d][b] # None
        PROVE  b <= prepared'[d]
    <3>1. CASE calls[d][b] # None
      <4>1. b <= prepared[d] /\ prepared[d] <= prepared'[d]
        BY <1>3, <3>1, CountsAre DEF BucketOK, BucketType, AttemptOK, Attempts
      <4> QED
        BY <4>1, <1>3, CountsAre DEF BucketOK, BucketType, Attempts
    <3>2. CASE calls[d][b] = None
      <4>1. d = c /\ b = a
        BY <1>2, <2>2, <3>2
      <4> QED
        BY <1>3, <4>1, CountsAre DEF Attempts
    <3> QED
      BY <3>1, <3>2
  <2> QED
    BY <1>2, <2>1, <2>2 DEF BucketOK, AttemptOK
<1>7. EachAttemptSpawnedOnce'
  BY <1>2 DEF EachAttemptSpawnedOnce, None
<1>8. RetryOnlyAfterExpiry'
  BY <1>2 DEF BucketOK, RetryOnlyAfterExpiry
<1> QED
  BY <1>4, <1>5, <1>6, <1>7, <1>8 DEF BucketOK, PromotionOK

-----------------------------------------------------------------------------
(* What becomes of the process: it ends, it fails, or it goes on with the next row *)

Outcomes == {None, "succeeded", "failed", "canceled", "resumable_failure"}

LEMMA EndsKeeps ==
  ASSUME IInv, BucketOK', NEW state \in Outcomes, ProcessEnds(state),
         state = "failed" => FailureIsEvidenced',
         terminal' \in BOOLEAN, UNCHANGED <<published, starts>>, faults' \in 0..MaxFaults
  PROVE  IInv'
<1>1. row' \in LedgerRows /\ \A c \in Checkpoints : row'[c].status = None /\ row'[c].attempt = 0
  BY NoRowsAre DEF ProcessEnds
<1>2. final' \in 0..Last /\ final' \in published \cup {0} /\ (Last \in published => final' = Last)
  BY CountsAre DEF IInv, TypeOK, FinalOK, ProcessEnds
<1>3. TypeOK'
  BY <1>1, <1>2, NoLookIs DEF IInv, TypeOK, BucketOK, BucketType, ProcessEnds, Outcomes,
                              LedgerRows, Phases, Stages
<1>4. PlaceOK'
  BY DEF PlaceOK, ProcessEnds
<1>5. TodoOK' /\ FinalOK' /\ LookOK'
  BY <1>2, NotLooking DEF TodoOK, FinalOK, ProcessEnds, LearnerAlive
<1>6. RecordOK' /\ RowOK'
  BY <1>1, <1>3, StatusesAre DEF RecordOK, RowOK, ProcessEnds, Intact, TypeOK, None
<1>7. LedgerAgreesWithBucket'
  BY <1>1, StatusesAre DEF LedgerAgreesWithBucket
<1>8. FailureIsEvidenced'
  BY DEF FailureIsEvidenced, ProcessEnds
<1> QED
  BY <1>3, <1>4, <1>5, <1>6, <1>7, <1>8
  DEF IInv, AcceptanceCloses, FailureOK, AcceptanceStopsLearner, ProcessEnds

\* What failed may have reached the buckets, for a checkpoint the ledger knows.
Reached(known) ==
  \A c \in Checkpoints :
    /\ prepared[c] <= prepared'[c]
    /\ verified[c] # None => verified'[c] = verified[c]
    /\ c \notin known => prepared'[c] = prepared[c] /\ verified'[c] = verified[c]

LEMMA FailingKeeps ==
  ASSUME IInv, BucketOK', phase \in {"active", "drain"}, Reached(recorded'),
         phase' = "failing", stage' = "top", todo' = {}, look' = NoLook, StopLearner,
         closed' = TRUE,
         recorded \subseteq recorded', recorded' \subseteq published',
         published' \subseteq recorded' \cup saved, published' \subseteq published \cup saved,
         intents \subseteq intents',
         UNCHANGED <<outcome, final, saved, row, canceled, terminal, expired, starts>>,
         faults' \in 0..MaxFaults
  PROVE  IInv'
<1>1. TypeOK' /\ LookOK'
  BY NoLookIs, NotLooking
  DEF IInv, TypeOK, BucketOK, BucketType, StopLearner, LearnerAlive, Phases, Stages
<1>2. PlaceOK'
  BY DEF IInv, PlaceOK
<1>3. TodoOK' /\ FinalOK'
  BY DEF IInv, TodoOK, FinalOK, StopLearner, LearnerAlive
<1>4. RecordOK'
  BY DEF IInv, RecordOK, Reached
<1>5. RowOK'
  <2>1. \A c \in Checkpoints :
          row[c].attempt \in Nat /\ prepared[c] \in Nat /\ prepared'[c] \in Nat
    BY <1>1, RowTyped, CountsAre DEF IInv, TypeOK
  <2> QED
    BY <2>1 DEF IInv, RowOK, Reached, Intact
<1>6. LedgerAgreesWithBucket'
  BY StatusesAre DEF IInv, LedgerAgreesWithBucket, Reached
<1> QED
  BY <1>1, <1>2, <1>3, <1>4, <1>5, <1>6
  DEF IInv, PlaceOK, AcceptanceCloses, FailureOK, FailureIsEvidenced, AcceptanceStopsLearner,
      StopLearner, None

LEMMA RaiseKeeps ==
  ASSUME IInv, BucketOK', Raise, Reached(recorded),
         UNCHANGED <<published, intents, terminal, expired, starts>>, faults' \in 0..MaxFaults
  PROVE  IInv'
<1>1. CASE phase \in {"active", "drain"}
  BY <1>1, FailingKeeps DEF Raise, ledger, IInv, RecordOK, PlaceOK
<1>2. CASE phase \notin {"active", "drain"}
  BY <1>2, EndsKeeps DEF Raise, Outcomes, IInv, TypeOK
<1> QED
  BY <1>1, <1>2

\* The row of c is dealt with, and the loop goes on.
RowDone(c) ==
  /\ row' \in LedgerRows
  /\ \A d \in Checkpoints \ {c} :
       row'[d] = row[d] /\ prepared'[d] = prepared[d] /\ verified'[d] = verified[d]
  /\ verified[c] # None => verified'[c] = verified[c]
  /\ row'[c].status # None /\ row'[c].attempt <= prepared'[c]
  /\ row'[c].status = "pending" =>
       row'[c].attempt < MaxAttempts /\ row'[c].attempt <= expired[c]
  /\ Intact =>
       /\ row'[c].attempt = prepared'[c]
       /\ verified'[c] # None => row'[c].status = verified'[c]
       /\ row'[c].status = "deferred" => row'[c].attempt = 0
  /\ row'[c].status \in ResultTerminal => verified'[c] = row'[c].status
  /\ \/ /\ UNCHANGED <<learner, closed>>
        /\ verified'[c] \in {verified[c]} \cup (ResultTerminal \ {"accepted"})
     \/ closed' = TRUE /\ StopLearner /\ stage # "submit"
  /\ RowLeft(c)
  /\ UNCHANGED <<published, intents, promotion, terminal, outcome, final, phase, stage, saved,
                 recorded, canceled, expired, starts>>
  /\ faults' \in 0..MaxFaults

LEMMA RowDoneKeeps ==
  ASSUME IInv, BucketOK', NEW c \in todo, c \in recorded \cap intents, RowDone(c)
  PROVE  IInv'
<1>1. c \in Checkpoints /\ phase \notin {"down", "closing", "receipted"}
  BY RowsAre DEF IInv, TypeOK, PlaceOK, TodoOK
<1>2. TypeOK' /\ LookOK'
  BY NoLookIs, NotLooking
  DEF IInv, TypeOK, BucketOK, BucketType, RowDone, RowLeft, StopLearner, LearnerAlive, LedgerRows
<1>3. PlaceOK'
  BY <1>1 DEF IInv, PlaceOK, RowDone, StopLearner, LearnerAlive
<1>4. TodoOK'
  <2>1. TypeOK /\ TodoOK
    BY DEF IInv
  <2> QED
    BY <1>1, <2>1, TodoLeft DEF RowDone, RowLeft
<1>5. FinalOK'
  BY DEF IInv, FinalOK, RowDone, StopLearner, LearnerAlive
<1>6. RecordOK'
  BY <1>1 DEF IInv, RecordOK, RowDone
<1>7. RowOK'
  BY <1>1 DEF IInv, RowOK, RowDone, Intact
<1>8. AcceptanceCloses' /\ AcceptanceStopsLearner'
  <2>1. CASE closed' = TRUE /\ StopLearner
    BY <2>1 DEF AcceptanceCloses, AcceptanceStopsLearner, StopLearner, LearnerAlive
  <2>2. CASE ~(closed' = TRUE /\ StopLearner)
    <3>1. UNCHANGED <<learner, closed, phase>> /\ \A d \in Checkpoints :
             verified'[d] = "accepted" => verified[d] = "accepted"
      BY <2>2 DEF RowDone
    <3> QED
      BY <3>1 DEF IInv, AcceptanceCloses, AcceptanceStopsLearner, DurablyAccepted
  <2> QED
    BY <2>1, <2>2
<1>9. FailureOK' /\ FailureIsEvidenced'
  <2>1. phase' # "closing" /\ outcome' # "failed"
    BY <1>1 DEF IInv, PlaceOK, RowDone, None
  <2> QED
    BY <2>1 DEF FailureOK, FailureIsEvidenced
<1>10. LedgerAgreesWithBucket'
  BY <1>1 DEF IInv, LedgerAgreesWithBucket, RowDone
<1> QED
  BY <1>2, <1>3, <1>4, <1>5, <1>6, <1>7, <1>8, <1>9, <1>10 DEF IInv

-----------------------------------------------------------------------------
(* The steps of an iteration *)

\* The rows the loops after "publish" visit are unsettled; in order, they have no
\* verdict yet.
LEMMA VisitedIs ==
  ASSUME IInv, NEW c \in todo, stage # "publish"
  PROVE  /\ c \in Checkpoints /\ c \in recorded \cap intents \cap published
         /\ row[c].status \in Unsettled
         /\ Intact => verified[c] = None
         /\ phase \in {"recovering", "active", "drain", "failing"}
         /\ stage \in {"settle", "resettle"} => closed /\ row[c].status = "pending"
         /\ stage = "submit" => ~closed /\ row[c].status = "pending"
         /\ stage = "defer" => phase = "failing"
<1>1. c \in Checkpoints /\ phase \in {"recovering", "active", "drain", "failing"}
  BY RowsAre DEF IInv, TypeOK, PlaceOK, TodoOK, Phases
<1>2. /\ row[c].status \in Unsettled
      /\ stage \in {"settle", "resettle"} => closed /\ row[c].status = "pending"
      /\ stage = "submit" => ~closed /\ row[c].status = "pending"
  BY <1>1, RowsAre DEF IInv, TypeOK, TodoOK, Stages, InStatus, Unsettled
<1>3. c \in recorded \cap intents \cap published
  BY <1>1, <1>2, StatusesAre DEF IInv, RecordOK, None
<1>4. Intact => verified[c] = None
  BY <1>1, <1>2, StatusesAre DEF IInv, RowOK, TypeOK
<1> QED
  BY <1>1, <1>2, <1>3, <1>4 DEF IInv, PlaceOK

\* A verdict is put in the bucket and in the ledger, or the call raises.
LEMMA PutKeeps ==
  ASSUME IInv, NEW c \in todo, NEW status \in ResultTerminal, PutVerified(c, status),
         stage \notin {"publish", "submit"}, CallsQuiet, RowStepUnchanged
  PROVE  IInv'
<1> DEFINE One == [verified EXCEPT ![c] = status]
<1>1. /\ c \in Checkpoints /\ c \in recorded \cap intents \cap published
      /\ row[c].status \in Unsettled /\ (Intact => verified[c] = None)
  BY VisitedIs
<1>2. BucketOK /\ TypeOK /\ row \in LedgerRows
  BY RowTyped DEF IInv
<1>3. verified \in [Checkpoints -> ResultTerminal \cup {None}]
  BY <1>2 DEF TypeOK
<1>4. CASE /\ verified[c] = None
           /\ verified' = One
           /\ MarkTerminal(c, status)
           /\ RowLeft(c)
           /\ UNCHANGED <<outcome, final, phase, stage, saved, recorded, canceled, faults>>
  <2>1. BucketOK'
    BY <1>1, <1>2, <1>4, BucketDecides DEF RowStepUnchanged
  <2>2. /\ row' \in LedgerRows /\ row'[c].status = status /\ row'[c].attempt = row[c].attempt
        /\ \A d \in Checkpoints \ {c} : row'[d] = row[d]
    BY <1>1, <1>2, <1>4, StatusSet, StatusesAre DEF MarkTerminal
  <2>3. verified'[c] = status /\ \A d \in Checkpoints \ {c} : verified'[d] = verified[d]
    BY <1>1, <1>3, <1>4
  <2>4. \/ UNCHANGED <<learner, closed>> /\ status # "accepted"
        \/ closed' = TRUE /\ StopLearner
    BY <1>4 DEF MarkTerminal
  <2>5. status # None /\ status # "pending" /\ status # "deferred"
    BY StatusesAre DEF None, Unsettled
  <2>6. row[c].attempt <= prepared[c] /\ (Intact => row[c].attempt = prepared[c])
    BY <1>1 DEF IInv, RowOK
  <2>7. faults' \in 0..MaxFaults
    BY <1>2, <1>4 DEF TypeOK
  <2> HIDE DEF One
  <2>8. RowDone(c)
    BY <1>4, <2>2, <2>3, <2>4, <2>5, <2>6, <2>7 DEF RowDone, RowStepUnchanged
  <2> QED
    BY <1>1, <2>1, <2>8, RowDoneKeeps
<1>5. CASE verified[c] # None /\ Raise /\ UNCHANGED <<verified, faults>>
  <2>1. Reached(recorded)
    BY <1>2, <1>5, CountsAre DEF Reached, RowStepUnchanged, TypeOK
  <2>2. BucketOK'
    <3>1. \A d \in Checkpoints : result[d] # NoResult => result[d].attempt \in Attempts
      BY <1>2, NoResultIs DEF BucketOK, BucketType
    <3> QED
      BY <1>2, <1>5, <3>1 DEF BucketOK, BucketType, KeptOK, AttemptOK, PromotionOK, CallsQuiet,
         EachAttemptSpawnedOnce, RetryOnlyAfterExpiry, RowStepUnchanged, None
  <2> QED
    BY <1>2, <1>5, <2>1, <2>2, RaiseKeeps DEF RowStepUnchanged, TypeOK
<1>6. CASE verified[c] = None /\ Fault /\ verified' \in {verified, One} /\ Raise
  <2>1. BucketOK'
    BY <1>1, <1>2, <1>6, BucketDecides DEF RowStepUnchanged
  <2>2. Reached(recorded)
    BY <1>1, <1>2, <1>3, <1>6, CountsAre DEF Reached, RowStepUnchanged, TypeOK
  <2>3. faults' \in 0..MaxFaults
    BY <1>2, <1>6, CountsAre DEF TypeOK, Fault
  <2> QED
    BY <1>6, <2>1, <2>2, <2>3, RaiseKeeps DEF RowStepUnchanged
<1> QED
  BY <1>4, <1>5, <1>6 DEF PutVerified

LEMMA SkipKeeps ==
  ASSUME IInv, NEW c \in todo, SkipRow(c), stage # "publish", UNCHANGED calls, RowStepUnchanged
  PROVE  IInv'
<1>1. /\ c \in Checkpoints /\ c \in recorded \cap intents /\ row[c].status \in Unsettled
  BY VisitedIs
<1>2. BucketOK'
  BY BucketSame DEF IInv, SkipRow, RowStepUnchanged
<1>3. row[c].status # None /\ row \in LedgerRows /\ faults' \in 0..MaxFaults
  BY <1>1, RowTyped, StatusesAre DEF IInv, TypeOK, SkipRow, None
<1>4. RowDone(c)
  BY <1>1, <1>3
  DEF IInv, RowDone, SkipRow, RowStepUnchanged, RowOK, LedgerAgreesWithBucket, ledger, flags
<1> QED
  BY <1>1, <1>2, <1>4, RowDoneKeeps

\* A row that has no verdict gets another status or attempt.
LEMMA SetKeeps ==
  ASSUME IInv, BucketOK', NEW c \in todo, stage # "publish",
         NEW status \in {"pending", "submitted", "deferred"}, NEW attempt \in 0..MaxAttempts,
         row' = [row EXCEPT ![c] = [status |-> status, attempt |-> attempt]],
         RowLeft(c),
         UNCHANGED <<published, intents, verified, promotion, terminal, outcome, final, phase,
                     stage, saved, recorded, flags, expired, starts>>,
         faults' \in 0..MaxFaults, prepared' \in {prepared, [prepared EXCEPT ![c] = attempt]},
         attempt <= prepared'[c], Intact => attempt = prepared'[c],
         status = "pending" => attempt < MaxAttempts /\ attempt <= expired[c],
         status = "deferred" /\ Intact => attempt = 0
  PROVE  IInv'
<1>1. c \in Checkpoints /\ c \in recorded \cap intents /\ (Intact => verified[c] = None)
  BY VisitedIs
<1>2. /\ row' \in LedgerRows /\ row'[c].status = status /\ row'[c].attempt = attempt
      /\ \A d \in Checkpoints \ {c} : row'[d] = row[d]
  <2>1. row \in LedgerRows
    BY RowTyped DEF IInv
  <2>2. status \in Settled \cup Unsettled
    BY DEF Settled, Unsettled
  <2> QED
    BY <1>1, <2>1, <2>2 DEF LedgerRows
<1>3. \A d \in Checkpoints \ {c} : prepared'[d] = prepared[d]
  BY DEF IInv, TypeOK
<1>4. status \notin ResultTerminal /\ status # None
  BY StatusesAre DEF None
<1>5. RowDone(c)
  BY <1>1, <1>2, <1>3, <1>4 DEF RowDone, flags
<1> QED
  BY <1>1, <1>5, RowDoneKeeps

LEMMA AdoptKeeps ==
  ASSUME IInv, NEW c \in todo, AdoptVerified(c), stage # "publish", UNCHANGED calls,
         RowStepUnchanged
  PROVE  IInv'
<1>1. c \in Checkpoints /\ c \in recorded \cap intents /\ (Intact => verified[c] = None)
  BY VisitedIs
<1>2. BucketOK'
  BY BucketSame DEF IInv, AdoptVerified, RowStepUnchanged
<1>3. verified[c] \in ResultTerminal
  BY <1>1 DEF IInv, TypeOK, AdoptVerified
<1>4. /\ row' \in LedgerRows /\ row'[c].status = verified[c]
      /\ row'[c].attempt = row[c].attempt
      /\ \A d \in Checkpoints \ {c} : row'[d] = row[d]
  BY <1>1, <1>3, StatusSet, StatusesAre, RowTyped DEF IInv, AdoptVerified
<1>5. verified[c] # None /\ verified[c] \notin Unsettled /\ faults' \in 0..MaxFaults
  BY <1>3, StatusesAre DEF IInv, TypeOK, AdoptVerified
<1>6. RowDone(c)
  BY <1>1, <1>4, <1>5
  DEF IInv, RowDone, AdoptVerified, RowStepUnchanged, RowOK, flags, Unsettled
<1> QED
  BY <1>1, <1>2, <1>6, RowDoneKeeps

\* What a valid result says.
LEMMA ValidIs ==
  ASSUME IInv, NEW c \in Checkpoints, Valid(c)
  PROVE  result[c].verdict \in ResultTerminal
BY StatusesAre DEF IInv, TypeOK, Results, Valid

LEMMA ReconcileKeeps ==
  ASSUME IInv, NEW c \in Checkpoints, Reconcile(c)
  PROVE  IInv'
<1>1. c \in todo /\ stage \notin {"publish", "submit"} /\ CallsQuiet /\ RowStepUnchanged
  BY SameCalls DEF IInv, Reconcile, Visiting
<1>2. CASE Valid(c)
  BY <1>1, <1>2, ValidIs, PutKeeps DEF Reconcile
<1>3. CASE ~Valid(c)
  BY <1>1, <1>3, SkipKeeps DEF Reconcile
<1> QED
  BY <1>2, <1>3

\* The look was in vain: nothing but the look has changed.
LEMMA LookKeeps ==
  ASSUME IInv, NEW c \in todo, look = NoLook, ~Valid(c),
         stage \in {"settle", "resettle", "poll", "cancel"},
         stage = "poll" => AttemptExpired(c), LookInVain(c), UNCHANGED calls, RowStepUnchanged
  PROVE  IInv'
<1>1. UNCHANGED <<published, final, intents, prepared, result, verified, promotion, outcome,
                  terminal, expired, calls, phase, stage, todo, saved, recorded, row, learner,
                  closed, canceled, starts, faults>>
  BY DEF LookInVain, RowStepUnchanged, ledger, flags
<1>2. c \in Checkpoints /\ c \in 0..Last /\ result[c] \in Results
  BY DEF IInv, TypeOK, Checkpoints
<1>3. look' = [row |-> c, result |-> result[c]]
  BY DEF LookInVain
<1>4. BucketOK'
  BY <1>1, BucketSame DEF IInv
<1>5. TypeOK'
  BY <1>1, <1>2, <1>3 DEF IInv, TypeOK
<1>6. TodoOK'
  <2>1. Rows(stage)' = Rows(stage)
    BY <1>1 DEF Rows, InStatus
  <2> QED
    BY <1>1, <2>1 DEF IInv, TodoOK
<1>7. LookOK'
  <2>1. look'.row = c /\ look'.result = result[c]
    BY <1>3
  <2>2. result[c] = NoResult \/ result[c].attempt # row[c].attempt
    BY DEF Valid
  <2>3. look' \in [row : 0..Last, result : Results]
    BY <1>2, <1>3
  <2> QED
    BY <1>1, <2>1, <2>2, <2>3 DEF LookOK, AttemptExpired
<1> QED
  BY <1>1, <1>4, <1>5, <1>6, <1>7
  DEF IInv, PlaceOK, FinalOK, LearnerAlive, RecordOK, RowOK, Intact, LedgerAgreesWithBucket,
      AcceptanceCloses, AcceptanceStopsLearner, DurablyAccepted, FailureOK, FailureIsEvidenced

\* The row that was looked at is one of the loop.
LEMMA LookedIs ==
  ASSUME IInv, NEW c \in Checkpoints, look.row = c
  PROVE  /\ c \in todo /\ stage \in {"settle", "resettle", "poll", "cancel"}
         /\ look.result \in {NoResult, result[c]}
         /\ look.result = NoResult \/ look.result.attempt # row[c].attempt
         /\ stage = "poll" => AttemptExpired(c)
<1>1. look # NoLook
  BY NoLookIs, CountsAre
<1> QED
  BY <1>1 DEF IInv, LookOK

LEMMA SettleKeeps ==
  ASSUME IInv, NEW c \in Checkpoints, SettleClosed(c) \/ SettleExpired(c)
  PROVE  IInv'
<1>1. CallsQuiet /\ RowStepUnchanged /\ UNCHANGED calls
  BY SameCalls DEF IInv, SettleClosed, SettleExpired
<1>2. c \in todo /\ stage \in {"settle", "resettle"}
  BY LookedIs DEF SettleClosed, SettleExpired, Visiting, Visited
<1>3. CASE SettleClosed(c) /\ row[c].attempt = 0
  <2>1. SetRow(c, "deferred", 0)
    BY <1>3 DEF SettleClosed
  <2>2. BucketOK'
    BY <1>1, <2>1, BucketSame DEF IInv, SetRow, RowStepUnchanged
  <2>3. /\ 0 \in 0..MaxAttempts /\ 0 <= prepared'[c] /\ (Intact => 0 = prepared'[c])
        /\ faults' \in 0..MaxFaults
    BY <1>1, <1>3, <2>1, CountsAre DEF IInv, TypeOK, RowOK, SetRow, RowStepUnchanged
  <2> QED
    BY <1>1, <1>2, <2>1, <2>2, <2>3, SetKeeps DEF SetRow, RowStepUnchanged
<1>4. CASE SettleClosed(c) /\ row[c].attempt # 0 /\ Valid(c)
  BY <1>1, <1>2, <1>4, ValidIs, PutKeeps DEF SettleClosed
<1>5. CASE SettleClosed(c) /\ row[c].attempt # 0 /\ ~Valid(c)
  BY <1>1, <1>2, <1>5, LookKeeps DEF SettleClosed, Visiting
<1>6. CASE SettleExpired(c)
  BY <1>1, <1>2, <1>6, PutKeeps, StatusesAre DEF SettleExpired
<1> QED
  BY <1>3, <1>4, <1>5, <1>6

LEMMA PollKeeps ==
  ASSUME IInv, NEW c \in Checkpoints, Poll(c)
  PROVE  IInv'
<1>1. /\ c \in todo /\ stage = "poll" /\ look = NoLook /\ CallsQuiet /\ RowStepUnchanged
      /\ UNCHANGED calls
  BY SameCalls DEF IInv, Poll, Visiting
<1>2. CASE Valid(c)
  BY <1>1, <1>2, ValidIs, PutKeeps DEF Poll
<1>3. CASE ~Valid(c) /\ ~AttemptExpired(c)
  BY <1>1, <1>3, SkipKeeps DEF Poll
<1>4. CASE ~Valid(c) /\ AttemptExpired(c)
  BY <1>1, <1>4, LookKeeps DEF Poll
<1> QED
  BY <1>2, <1>3, <1>4

LEMMA PollExpiredKeeps ==
  ASSUME IInv, NEW c \in Checkpoints, PollExpired(c)
  PROVE  IInv'
<1>1. /\ c \in todo /\ stage = "poll" /\ CallsQuiet /\ RowStepUnchanged
      /\ UNCHANGED calls
  BY SameCalls, LookedIs DEF IInv, PollExpired, Visited
<1>2. CASE Retriable(c)
  <2>1. SetRow(c, "pending", row[c].attempt)
    BY <1>2 DEF PollExpired
  <2>2. BucketOK'
    BY <1>1, <2>1, BucketSame DEF IInv, SetRow, RowStepUnchanged
  <2>3. /\ row[c].attempt \in 0..MaxAttempts /\ row[c].attempt <= prepared'[c]
        /\ (Intact => row[c].attempt = prepared'[c]) /\ faults' \in 0..MaxFaults
    BY <1>1, <2>1, RowTyped DEF IInv, TypeOK, RowOK, SetRow, RowStepUnchanged
  <2>4. row[c].attempt < MaxAttempts /\ row[c].attempt <= expired[c]
    BY <1>1, <1>2, <2>3, LookedIs, CountsAre
    DEF PollExpired, Visited, AttemptExpired, Retriable, IInv, TypeOK
  <2> QED
    BY <1>1, <2>1, <2>2, <2>3, <2>4, SetKeeps DEF SetRow, RowStepUnchanged
<1>3. CASE ~Retriable(c)
  BY <1>1, <1>3, PutKeeps, StatusesAre DEF PollExpired
<1> QED
  BY <1>2, <1>3

\* Canceling a call, or its end, makes none.
LEMMA CanceledCalls ==
  ASSUME IInv, NEW c \in Checkpoints, CancelCall(c)
  PROVE  CallsQuiet
<1> DEFINE Stopped == [a \in Attempts |-> IF a = row[c].attempt /\ calls[c][a] = "live"
                                          THEN "gone" ELSE calls[c][a]]
<1>1. calls' \in {calls, [calls EXCEPT ![c] = Stopped]}
  BY DEF CancelCall
<1>2. calls \in [Checkpoints -> [Attempts -> {None, "live", "gone"}]]
  BY DEF IInv, BucketOK, BucketType, EachAttemptSpawnedOnce
<1>3. /\ Stopped \in [Attempts -> {None, "live", "gone"}]
      /\ \A a \in Attempts : Stopped[a] = None <=> calls[c][a] = None
  BY <1>2 DEF None
<1> HIDE DEF Stopped
<1> QED
  BY <1>1, <1>2, <1>3 DEF CallsQuiet

LEMMA UploadedCalls ==
  ASSUME IInv, NEW c \in Checkpoints, NEW a \in Attempts, WorkerUploads(c, a)
  PROVE  CallsQuiet
<1> DEFINE one == [calls[c] EXCEPT ![a] = "gone"]
<1>1. calls[c][a] = "live" /\ calls' = [calls EXCEPT ![c] = one]
  BY DEF WorkerUploads
<1>2. calls \in [Checkpoints -> [Attempts -> {None, "live", "gone"}]]
  BY DEF IInv, BucketOK, BucketType, EachAttemptSpawnedOnce
<1>3. /\ one \in [Attempts -> {None, "live", "gone"}]
      /\ \A b \in Attempts : one[b] = None <=> calls[c][b] = None
  BY <1>1, <1>2 DEF None
<1> HIDE DEF one
<1> QED
  BY <1>1, <1>2, <1>3 DEF CallsQuiet

LEMMA CancelKeeps ==
  ASSUME IInv, NEW c \in Checkpoints, Cancel(c)
  PROVE  IInv'
<1>1. /\ c \in todo /\ stage = "cancel" /\ look = NoLook /\ CallsQuiet /\ RowStepUnchanged
      /\ UNCHANGED calls
  BY SameCalls DEF IInv, Cancel, Visiting
<1>2. CASE Valid(c)
  BY <1>1, <1>2, ValidIs, PutKeeps DEF Cancel
<1>3. CASE ~Valid(c)
  BY <1>1, <1>3, LookKeeps DEF Cancel
<1> QED
  BY <1>2, <1>3

LEMMA CancelCallKeeps ==
  ASSUME IInv, NEW c \in Checkpoints, CancelCall(c)
  PROVE  IInv'
<1>1. c \in todo /\ stage = "cancel" /\ RowStepUnchanged /\ CallsQuiet
  BY LookedIs, CanceledCalls DEF CancelCall, Visited
<1>2. CASE verified[c] # None
  BY <1>1, <1>2, AdoptKeeps DEF CancelCall
<1>3. CASE verified[c] = None
  BY <1>1, <1>3, PutKeeps, StatusesAre DEF CancelCall
<1> QED
  BY <1>2, <1>3

LEMMA DeferUnsettledKeeps ==
  ASSUME IInv, NEW c \in Checkpoints, DeferUnsettled(c)
  PROVE  IInv'
<1>1. /\ c \in todo /\ stage \notin {"publish", "submit"} /\ CallsQuiet /\ RowStepUnchanged
      /\ UNCHANGED calls
  BY SameCalls DEF IInv, DeferUnsettled, Visiting
<1>2. CASE Valid(c)
  BY <1>1, <1>2, ValidIs, PutKeeps DEF DeferUnsettled
<1>3. CASE ~Valid(c) /\ verified[c] # None
  BY <1>1, <1>3, AdoptKeeps DEF DeferUnsettled
<1>4. CASE ~Valid(c) /\ verified[c] = None
  <2>1. SetRow(c, "deferred", row[c].attempt)
    BY <1>4 DEF DeferUnsettled
  <2>2. BucketOK'
    BY <1>1, <2>1, BucketSame DEF IInv, SetRow, RowStepUnchanged
  <2>3. /\ row[c].attempt \in 0..MaxAttempts /\ row[c].attempt <= prepared'[c]
        /\ faults' \in 0..MaxFaults
    BY <1>1, <2>1, RowTyped DEF IInv, TypeOK, RowOK, SetRow, RowStepUnchanged
  <2>4. ~Intact
    BY VisitedIs, <1>1 DEF DeferUnsettled, Visiting, Intact
  <2> QED
    BY <1>1, <2>1, <2>2, <2>3, <2>4, SetKeeps DEF SetRow, RowStepUnchanged
<1> QED
  BY <1>2, <1>3, <1>4

\* A submission is of an evaluation that has no verdict, in a run that has no
\* acceptance, and of the attempt after all that were prepared.
LEMMA SubmitWhen ==
  ASSUME IInv, NEW c \in Checkpoints, Submit(c) \/ SubmitAmbiguous(c) \/ SubmitRaises(c),
         NEW a, a = row[c].attempt + 1
  PROVE  /\ c \in todo /\ stage = "submit" /\ c \in recorded \cap intents \cap published
         /\ a \in Attempts /\ a \in 0..MaxAttempts /\ prepared[c] < a /\ a - 1 <= expired[c]
         /\ promotion = 0 /\ verified[c] = None /\ ~DurablyAccepted
         /\ ~Adoptable(c, a) /\ ~(a > MaxAttempts)
<1>1. c \in todo /\ stage = "submit"
  BY DEF Submit, SubmitAmbiguous, SubmitRaises, Visiting
<1>2. /\ c \in recorded \cap intents \cap published /\ row[c].status = "pending" /\ ~closed
      /\ phase \in {"recovering", "active", "drain", "failing"}
  BY <1>1, VisitedIs
<1>3. Intact /\ verified[c] = None /\ ~DurablyAccepted
  <2>1. Intact
    BY <1>2 DEF IInv, PlaceOK, Intact
  <2> QED
    BY <1>1, <1>2, <2>1, VisitedIs DEF IInv, AcceptanceCloses
<1>4. /\ row[c].attempt \in Nat /\ row[c].attempt < MaxAttempts
      /\ row[c].attempt = prepared[c] /\ row[c].attempt <= expired[c]
  BY <1>2, <1>3, RowTyped DEF IInv, RowOK
<1>5. a \in Attempts /\ a \in 0..MaxAttempts /\ prepared[c] < a /\ a - 1 <= expired[c]
  BY <1>4, CountsAre DEF Attempts
<1>6. promotion = 0
  BY <1>3 DEF IInv, TypeOK, BucketOK, PromotionOK, DurablyAccepted, Checkpoints
<1>7. ~Adoptable(c, a) /\ ~(a > MaxAttempts)
  BY <1>4, <1>5, CountsAre DEF Adoptable, Attempts
<1> QED
  BY <1>1, <1>2, <1>3, <1>5, <1>6, <1>7

LEMMA SubmitKeeps ==
  ASSUME IInv, NEW c \in Checkpoints, Submit(c) \/ SubmitAmbiguous(c) \/ SubmitRaises(c)
  PROVE  IInv'
<1> DEFINE a == row[c].attempt + 1
<1>1. /\ c \in todo /\ stage = "submit" /\ c \in recorded \cap intents \cap published
      /\ a \in Attempts /\ a \in 0..MaxAttempts /\ prepared[c] < a /\ a - 1 <= expired[c]
      /\ promotion = 0 /\ ~Adoptable(c, a) /\ ~(a > MaxAttempts)
  BY SubmitWhen
<1> HIDE DEF a
<1>2. ASSUME prepared' = PreparedBy(c, a), calls' \in {calls, Spawned(c, a)},
             UNCHANGED <<published, intents, result, verified, promotion, expired>>
      PROVE  BucketOK'
  BY <1>1, <1>2, BucketSpawns DEF IInv, PreparedBy
<1>3. ASSUME prepared' = PreparedBy(c, a)
      PROVE  prepared'[c] = a
  BY <1>3 DEF PreparedBy, IInv, TypeOK
<1>4. CASE Submit(c)
  <2>1. /\ prepared' = PreparedBy(c, a) /\ calls' = Spawned(c, a) /\ SetRow(c, "submitted", a)
        /\ UNCHANGED <<published, intents, result, promotion, terminal, expired, starts>>
    BY <1>1, <1>4 DEF Submit, a
  <2>2. BucketOK' /\ faults' \in 0..MaxFaults
    BY <1>2, <2>1 DEF SetRow, IInv, TypeOK
  <2>3. a <= prepared'[c] /\ a = prepared'[c]
    BY <1>1, <1>3, <2>1, CountsAre DEF Attempts
  <2> QED
    BY <1>1, <2>1, <2>2, <2>3, SetKeeps DEF SetRow, PreparedBy
<1>5. CASE SubmitAmbiguous(c)
  <2>1. /\ prepared' = PreparedBy(c, a) /\ calls' \in {calls, Spawned(c, a)} /\ Fault
        /\ row' = [row EXCEPT ![c] = [status |-> "submitted", attempt |-> a]]
        /\ RowLeft(c)
        /\ UNCHANGED <<published, final, intents, result, verified, promotion, outcome,
                       terminal, expired, phase, stage, saved, recorded, flags, starts>>
    BY <1>5 DEF SubmitAmbiguous, a
  <2>2. BucketOK' /\ faults' \in 0..MaxFaults
    BY <1>2, <2>1, CountsAre DEF Fault, IInv, TypeOK
  <2>3. a <= prepared'[c] /\ a = prepared'[c]
    BY <1>1, <1>3, <2>1, CountsAre DEF Attempts
  <2> QED
    BY <1>1, <2>1, <2>2, <2>3, SetKeeps DEF PreparedBy
<1>6. CASE SubmitRaises(c)
  <2>1. /\ \/ UNCHANGED <<prepared, calls>>
           \/ prepared' = PreparedBy(c, a) /\ calls' \in {calls, Spawned(c, a)}
        /\ Fault /\ Raise
        /\ UNCHANGED <<published, intents, result, verified, promotion, terminal, expired,
                       starts>>
    BY <1>6 DEF SubmitRaises, a
  <2>2. BucketOK'
    BY <1>2, <2>1, BucketSame DEF IInv
  <2>3. faults' \in 0..MaxFaults
    BY <2>1, CountsAre DEF Fault, IInv, TypeOK
  <2>4. Reached(recorded)
    <3>1. \A d \in Checkpoints : prepared[d] \in Nat
      BY CountsAre DEF IInv, TypeOK
    <3>2. \A d \in Checkpoints : prepared'[d] = prepared[d] \/ (d = c /\ prepared'[d] = a)
      BY <2>1 DEF PreparedBy, IInv, TypeOK
    <3>3. a \in Nat
      BY <1>1, CountsAre
    <3> QED
      BY <1>1, <2>1, <3>1, <3>2, <3>3 DEF Reached
  <2> QED
    BY <2>1, <2>2, <2>3, <2>4, RaiseKeeps
<1> QED
  BY <1>4, <1>5, <1>6

LEMMA PublishKeeps ==
  ASSUME IInv, NEW c \in Checkpoints, Publish(c)
  PROVE  IInv'
<1>1. c \in saved /\ c \notin recorded /\ stage = "publish" /\ c \in todo
  BY RowsAre DEF IInv, TodoOK, Publish, Visiting
<1>2. phase \in {"active", "drain", "failing"}
  BY <1>1 DEF IInv, PlaceOK, TypeOK, Phases
<1>3. /\ row[c].status = None /\ row[c].attempt = 0
      /\ prepared[c] = 0 /\ verified[c] = None
  BY <1>1, <1>2 DEF IInv, RecordOK, TypeOK
<1>4. /\ row' \in LedgerRows /\ row'[c].attempt = 0
      /\ \A d \in Checkpoints \ {c} : row'[d] = row[d]
      /\ \/ row'[c].status = "pending" /\ ~closed
         \/ row'[c].status = None /\ closed
  <2>1. row \in LedgerRows /\ closed \in BOOLEAN /\ "pending" \in Settled \cup Unsettled
    BY RowTyped, StatusesAre DEF IInv, TypeOK
  <2>2. CASE closed
    BY <1>3, <2>1, <2>2 DEF Publish, WantsEval
  <2>3. CASE ~closed
    <3>1. row' = [row EXCEPT ![c].status = "pending"]
      BY <2>3 DEF Publish, WantsEval
    <3> QED
      BY <1>3, <2>1, <2>3, <3>1, StatusSet
  <2> QED
    BY <2>1, <2>2, <2>3
<1>5. /\ published' = published \cup {c} /\ recorded' = recorded \cup {c}
      /\ intents' = (IF ~closed THEN intents \cup {c} ELSE intents)
      /\ todo' = todo \ {c}
      /\ UNCHANGED <<final, prepared, result, verified, promotion, outcome, terminal, expired,
                     calls, phase, stage, look, saved, learner, closed, canceled, starts,
                     faults>>
      /\ look = NoLook
  BY DEF Publish, Visiting, WantsEval, world, flags, bounds
<1>6. BucketOK'
  BY <1>5 DEF IInv, BucketOK, BucketType, KeptOK, AttemptOK, PromotionOK,
              EachAttemptSpawnedOnce, RetryOnlyAfterExpiry
<1>7. TypeOK' /\ LookOK'
  BY <1>4, <1>5, NotLooking DEF IInv, TypeOK, LedgerRows
<1>8. PlaceOK'
  BY <1>2, <1>5 DEF IInv, PlaceOK
<1>9. TodoOK'
  BY <1>4, <1>5, TodoLeft DEF IInv
<1>10. FinalOK'
  BY <1>1, <1>2, <1>5 DEF IInv, FinalOK, LearnerAlive
<1>11. RecordOK'
  BY <1>1, <1>2, <1>4, <1>5, StatusesAre DEF IInv, RecordOK, None
<1>12. RowOK'
  <2>1. expired[c] >= 0 /\ 0 < MaxAttempts
    BY CountsAre DEF IInv, TypeOK
  <2> QED
    BY <1>3, <1>4, <1>5, <2>1 DEF IInv, RowOK, Intact, None
<1>13. LedgerAgreesWithBucket'
  BY <1>4, <1>5, StatusesAre DEF IInv, LedgerAgreesWithBucket, Unsettled
<1>14. phase # "closing" /\ outcome # "failed"
  BY <1>2 DEF IInv, PlaceOK, None
<1> QED
  BY <1>5, <1>6, <1>7, <1>8, <1>9, <1>10, <1>11, <1>12, <1>13, <1>14
  DEF IInv, AcceptanceCloses, AcceptanceStopsLearner, DurablyAccepted, FailureOK,
      FailureIsEvidenced

LEMMA PublishFailsKeeps ==
  ASSUME IInv, NEW c \in Checkpoints, PublishFails(c)
  PROVE  IInv'
<1>1. c \in saved /\ c \notin recorded /\ stage = "publish" /\ c \in todo
  BY RowsAre DEF IInv, TodoOK, PublishFails, Visiting
<1>2. phase \in {"active", "drain", "failing"}
  BY <1>1 DEF IInv, PlaceOK, TypeOK, Phases
<1>3. /\ published' \in {published, published \cup {c}} /\ todo' = todo \ {c}
      /\ UNCHANGED <<intents, recorded, row, final, prepared, result, verified, promotion,
                     outcome, terminal, expired, calls, phase, stage, look, saved, learner,
                     closed, canceled, starts>>
      /\ look = NoLook
  BY DEF PublishFails, Visiting, world, flags, ledger
<1>4. BucketOK'
  BY <1>3 DEF IInv, BucketOK, BucketType, KeptOK, AttemptOK, PromotionOK,
              EachAttemptSpawnedOnce, RetryOnlyAfterExpiry
<1>5. faults' \in 0..MaxFaults
  BY CountsAre DEF PublishFails, Fault, IInv, TypeOK
<1>6. TypeOK' /\ LookOK'
  BY <1>3, <1>5, NotLooking DEF IInv, TypeOK
<1>7. PlaceOK' /\ FinalOK' /\ RecordOK' /\ RowOK' /\ LedgerAgreesWithBucket'
  BY <1>1, <1>2, <1>3
  DEF IInv, PlaceOK, FinalOK, LearnerAlive, RecordOK, RowOK, Intact, LedgerAgreesWithBucket
<1>8. TodoOK'
  BY <1>3, TodoLeft DEF IInv
<1>9. phase # "closing" /\ outcome # "failed"
  BY <1>2 DEF IInv, PlaceOK, None
<1> QED
  BY <1>3, <1>4, <1>6, <1>7, <1>8, <1>9
  DEF IInv, AcceptanceCloses, AcceptanceStopsLearner, DurablyAccepted, FailureOK,
      FailureIsEvidenced

LEMMA EnsureRaisesKeeps ==
  ASSUME IInv, NEW c \in Checkpoints, EnsureRaises(c)
  PROVE  IInv'
<1>1. c \in saved /\ c \notin recorded /\ stage = "publish" /\ c \in todo /\ ~closed
  BY RowsAre DEF IInv, TodoOK, EnsureRaises, Visiting, WantsEval
<1>2. phase \in {"active", "drain"}
  BY <1>1 DEF IInv, PlaceOK, TypeOK, Phases
<1>3. /\ published' = published \cup {c} /\ recorded' = recorded \cup {c}
      /\ intents' \in {intents, intents \cup {c}} /\ Fault
      /\ phase' = "failing" /\ stage' = "top" /\ todo' = {} /\ look' = NoLook
      /\ StopLearner /\ closed' = TRUE
      /\ UNCHANGED <<final, prepared, result, verified, promotion, outcome, terminal, expired,
                     calls, saved, row, canceled, starts>>
  BY DEF EnsureRaises, world
<1>4. BucketOK'
  BY <1>3 DEF IInv, BucketOK, BucketType, KeptOK, AttemptOK, PromotionOK,
              EachAttemptSpawnedOnce, RetryOnlyAfterExpiry
<1>5. faults' \in 0..MaxFaults
  BY <1>3, CountsAre DEF Fault, IInv, TypeOK
<1>6. Reached(recorded')
  BY <1>3, CountsAre DEF Reached, IInv, TypeOK
<1>7. recorded' \subseteq published' /\ published' \subseteq recorded' \cup saved
  BY <1>2, <1>3 DEF IInv, RecordOK
<1> QED
  BY <1>1, <1>2, <1>3, <1>4, <1>5, <1>6, <1>7, FailingKeeps

-----------------------------------------------------------------------------
(* From one loop to the next *)

LEMMA MovesKeeps ==
  ASSUME IInv, NEW where \in Stages \ {"recover"}, GoTo(where),
         UNCHANGED <<bucket, world, ledger, closed, canceled, bounds>>,
         phase \in {"recovering", "active", "drain", "failing"},
         phase' \in {"active", "drain", "failing"},
         phase' = "failing" <=> phase = "failing", where = "defer" => phase = "failing",
         learner' \in {"running", "stopping", "exited"},
         phase' = "drain" => learner' = "exited",
         learner' # "exited" => final = 0, DurablyAccepted => learner' # "running"
  PROVE  IInv'
<1>1. /\ UNCHANGED <<published, final, intents, prepared, result, verified, promotion, outcome,
                     terminal, expired, calls, saved, recorded, row, closed, canceled, starts,
                     faults>>
      /\ stage' = where /\ todo' = Rows(where) /\ look' = NoLook
  BY DEF bucket, world, ledger, bounds, GoTo
<1>2. BucketOK'
  BY <1>1, BucketSame DEF IInv
<1>3. Rows(where)' = Rows(where) /\ Rows(where) \subseteq Checkpoints
  <2>1. /\ InStatus({"pending"}) \subseteq Checkpoints
        /\ InStatus({"submitted"}) \subseteq Checkpoints
        /\ InStatus(Unsettled) \subseteq Checkpoints
    BY DEF InStatus
  <2>2. Rows(where)' = Rows(where)
    BY <1>1 DEF Rows, InStatus
  <2> QED
    BY <2>1, <2>2, RowsAre DEF Stages, IInv, TypeOK
<1>4. TypeOK' /\ LookOK'
  BY <1>1, <1>3, NoLookIs, NotLooking DEF IInv, TypeOK, Phases
<1>5. PlaceOK' /\ TodoOK' /\ FinalOK'
  BY <1>1, <1>3 DEF IInv, PlaceOK, TodoOK, FinalOK, LearnerAlive
<1>6. RecordOK' /\ RowOK' /\ LedgerAgreesWithBucket'
  BY <1>1 DEF IInv, RecordOK, RowOK, Intact, LedgerAgreesWithBucket
<1>7. phase' # "closing" /\ outcome # "failed"
  BY DEF IInv, PlaceOK, None
<1> QED
  BY <1>1, <1>2, <1>4, <1>5, <1>6, <1>7
  DEF IInv, AcceptanceCloses, AcceptanceStopsLearner, DurablyAccepted, FailureOK,
      FailureIsEvidenced

LEMMA LoopKeeps ==
  ASSUME IInv, Advance \/ SkipPoll \/ BeginIteration \/ FailureDeadline
  PROVE  IInv'
<1>1. UNCHANGED <<bucket, world, ledger, closed, canceled, bounds, learner, phase>>
  BY DEF Advance, SkipPoll, BeginIteration, FailureDeadline, StepUnchanged, flags
<1>2. phase \in {"active", "drain", "failing"}
  BY DEF Advance, SkipPoll, BeginIteration, FailureDeadline
<1>3. /\ learner \in {"running", "stopping", "exited"}
      /\ phase = "drain" => learner = "exited"
      /\ learner # "exited" => final = 0
      /\ DurablyAccepted => learner # "running"
  BY DEF IInv, TypeOK, PlaceOK, FinalOK, LearnerAlive, AcceptanceStopsLearner
<1>4. \E where \in Stages \ {"recover"} :
        GoTo(where) /\ (where = "defer" => phase = "failing")
  <2>1. CASE Advance
    <3>1. stage \in Stages \ {"top", "recover", "defer"}
      BY <1>2, <2>1 DEF Advance, IInv, TypeOK, PlaceOK
    <3> QED
      BY <2>1, <3>1, NextStageIs DEF Advance
  <2>2. CASE SkipPoll \/ BeginIteration \/ FailureDeadline
    BY <2>2 DEF SkipPoll, BeginIteration, FailureDeadline, Stages
  <2> QED
    BY <2>1, <2>2
<1> QED
  BY <1>1, <1>2, <1>3, <1>4, MovesKeeps

LEMMA StartLearnerKeeps ==
  ASSUME IInv, StartLearner
  PROVE  IInv'
<1>1. /\ phase = "recovering"
      /\ UNCHANGED <<bucket, world, ledger, closed, canceled, bounds>>
      /\ \/ learner' = "exited" /\ EnterDrain
         \/ learner' # "exited" /\ phase' = "active" /\ GoTo("top")
  BY DEF StartLearner
<1>2. /\ learner' \in {"running", "stopping", "exited"}
      /\ learner' # "exited" => final \notin published
      /\ learner' = "running" => ~closed
  BY DEF StartLearner
<1>3. /\ learner' # "exited" => final = 0
      /\ DurablyAccepted => learner' # "running"
  BY <1>1, <1>2 DEF IInv, FinalOK, AcceptanceCloses
<1>4. PICK where \in {"cancel", "top"} :
        GoTo(where) /\ ((phase' = "drain" /\ learner' = "exited") \/ phase' = "active")
  BY <1>1 DEF EnterDrain
<1> QED
  BY <1>1, <1>2, <1>3, <1>4, MovesKeeps DEF Stages

LEMMA LeaveLoopKeeps ==
  ASSUME IInv, LeaveLoop
  PROVE  IInv'
<1>1. /\ phase = "active" /\ stage = "top" /\ learner = "exited"
      /\ UNCHANGED <<published, intents, prepared, result, verified, promotion, terminal,
                     world, bounds>>
  BY DEF LeaveLoop, LearnerAlive
<1>2. CASE final \in saved
  <2>1. UNCHANGED <<bucket, world, ledger, closed, canceled, bounds, learner>>
    BY <1>1, <1>2 DEF LeaveLoop, bucket, flags
  <2>2. PICK where \in {"cancel", "top"} : GoTo(where) /\ phase' = "drain"
    BY <1>2 DEF LeaveLoop, EnterDrain
  <2>3. DurablyAccepted => learner # "running"
    BY <1>1
  <2> QED
    BY <1>1, <2>1, <2>2, <2>3, MovesKeeps DEF Stages
<1>3. CASE final \notin saved
  <2>1. Raise /\ faults' \in 0..MaxFaults
    BY <1>1, <1>3 DEF LeaveLoop, bounds, IInv, TypeOK
  <2>2. BucketOK' /\ Reached(recorded)
    BY <1>1, BucketSame, CountsAre DEF world, Reached, IInv, TypeOK
  <2> QED
    BY <1>1, <2>1, <2>2, RaiseKeeps DEF world, bounds
<1> QED
  BY <1>2, <1>3

LEMMA IterationRaisesKeeps ==
  ASSUME IInv, IterationRaises
  PROVE  IInv'
<1>1. faults' \in 0..MaxFaults
  BY CountsAre DEF IterationRaises, Fault, IInv, TypeOK
<1>2. BucketOK' /\ Reached(recorded)
  BY BucketSame, CountsAre DEF IterationRaises, world, Reached, IInv, TypeOK
<1> QED
  BY <1>1, <1>2, RaiseKeeps DEF IterationRaises, world

\* The ends of the process that leave the buckets as they are.
LEMMA PlainEndKeeps ==
  ASSUME IInv, FailureDrainEnds \/ StartFails \/ DeliveryFails \/ Crash
  PROVE  IInv'
<1>1. /\ UNCHANGED <<published, intents, prepared, result, verified, promotion, terminal, world,
                     starts>>
      /\ Fault \/ UNCHANGED faults
  BY DEF FailureDrainEnds, StartFails, DeliveryFails, Crash, bounds
<1>2. faults' \in 0..MaxFaults /\ terminal' \in BOOLEAN
  BY <1>1, CountsAre DEF Fault, IInv, TypeOK
<1>3. BucketOK'
  BY <1>1, BucketSame DEF world, IInv
<1>4. \E state \in {None, "succeeded", "resumable_failure"} : ProcessEnds(state)
  BY DEF FailureDrainEnds, StartFails, DeliveryFails, Crash
<1> QED
  BY <1>1, <1>2, <1>3, <1>4, EndsKeeps DEF Outcomes, None

-----------------------------------------------------------------------------
(* The end of a successful drain *)

\* The ledger of a drain that converged is complete, and says what the buckets say.
LEMMA DrainedIs ==
  ASSUME IInv, DrainComplete
  PROVE  /\ published \subseteq recorded /\ AcceptedRows \subseteq Checkpoints
         /\ \A c \in Checkpoints : verified[c] = None => prepared[c] = 0
         /\ AcceptedRows = {c \in Checkpoints : verified[c] = "accepted"}
         /\ \A c \in recorded : row[c].status = "rejected" => verified[c] = "rejected"
<1>1. phase = "drain" /\ Intact /\ InStatus(Unsettled) = {} /\ saved \subseteq recorded
  BY DEF DrainComplete, Converged, Intact
<1>2. published \subseteq recorded
  BY <1>1 DEF IInv, RecordOK
<1>3. ASSUME NEW c \in Checkpoints
      PROVE  /\ row[c].status \in ResultTerminal => verified[c] = row[c].status
             /\ verified[c] # None => row[c].status = verified[c]
             /\ row[c].status \notin ResultTerminal => prepared[c] = 0
             /\ row[c].status \in {"accepted", "rejected"} => row[c].status \in ResultTerminal
  <2>1. row[c].status \in Settled
    BY <1>1, RowTyped DEF IInv, InStatus
  <2>2. row[c].status \notin ResultTerminal => row[c].status = None \/ row[c].status = "deferred"
    BY <2>1 DEF Settled
  <2>3. row[c].status \notin ResultTerminal => row[c].attempt = 0
    BY <1>1, <2>2 DEF IInv, RecordOK, RowOK
  <2> QED
    BY <1>1, <2>2, <2>3 DEF IInv, LedgerAgreesWithBucket, RowOK, None
<1>4. \A c \in recorded : c \in Checkpoints
  BY DEF IInv, TypeOK
<1>5. \A c \in Checkpoints : verified[c] = None => row[c].status \notin ResultTerminal
  BY <1>3, StatusesAre
<1>6. AcceptedRows = {c \in Checkpoints : verified[c] = "accepted"}
  BY <1>3 DEF AcceptedRows, InStatus, None
<1> QED
  BY <1>2, <1>3, <1>4, <1>5, <1>6

LEMMA ClosesKeeps ==
  ASSUME IInv, BucketOK', FailureOK', DrainComplete, Close,
         UNCHANGED <<published, intents, prepared, result, verified, terminal, world, starts,
                     faults>>
  PROVE  IInv'
<1>1. /\ phase = "drain" /\ stage = "top" /\ learner = "exited" /\ todo = {}
      /\ phase' = "closing"
      /\ UNCHANGED <<stage, todo, look, saved, recorded, row, learner, closed, canceled, outcome, final,
                     published, intents, prepared, result, verified, terminal, expired, calls,
                     starts, faults>>
  BY RowsAre DEF DrainComplete, Close, LearnerAlive, ledger, flags, world, IInv, TodoOK
<1>2. TypeOK'
  BY <1>1 DEF IInv, TypeOK, BucketOK, BucketType, Phases
<1>3. PlaceOK' /\ TodoOK' /\ LookOK' /\ FinalOK'
  BY <1>1 DEF IInv, PlaceOK, TodoOK, LookOK, FinalOK, LearnerAlive
<1>4. RecordOK' /\ RowOK' /\ LedgerAgreesWithBucket'
  BY <1>1 DEF IInv, RecordOK, RowOK, Intact, LedgerAgreesWithBucket
<1>5. outcome # "failed"
  BY <1>1 DEF IInv, PlaceOK, None
<1> QED
  BY <1>1, <1>2, <1>3, <1>4, <1>5
  DEF IInv, AcceptanceCloses, AcceptanceStopsLearner, DurablyAccepted, FailureIsEvidenced

LEMMA PromoteKeeps ==
  ASSUME IInv, Promote
  PROVE  IInv'
<1> DEFINE choice == IF promotion = 0 THEN Selected ELSE promotion
<1>1. /\ DrainComplete /\ (promotion # 0 \/ AcceptedRows # {})
      /\ UNCHANGED <<published, intents, prepared, result, verified, terminal, world, starts>>
      /\ \/ promotion' = choice /\ UNCHANGED faults /\ (Close \/ Raise)
         \/ promotion' \in {promotion, choice} /\ Fault /\ Raise
  BY DEF Promote
<1>2. choice \in Checkpoints /\ verified[choice] = "accepted"
  <2>1. CASE promotion = 0
    <3>1. Selected \in AcceptedRows
      BY <1>1, <2>1, DrainedIs, LowestIs DEF Selected
    <3> QED
      BY <1>1, <2>1, <3>1, DrainedIs
  <2>2. CASE promotion # 0
    BY <2>2 DEF IInv, BucketOK, BucketType, PromotionOK, Checkpoints
  <2> QED
    BY <2>1, <2>2
<1> HIDE DEF choice
<1>3. BucketOK'
  <2>1. promotion' \in 0..Last /\ promotion' \in {promotion, choice}
    BY <1>1, <1>2 DEF IInv, TypeOK, Checkpoints
  <2>2. PromotionOK'
    BY <1>1, <1>2, <2>1, DrainedIs DEF IInv, BucketOK, PromotionOK, world
  <2> QED
    BY <1>1, <2>1, <2>2 DEF IInv, BucketOK, BucketType, KeptOK, AttemptOK,
                            EachAttemptSpawnedOnce, RetryOnlyAfterExpiry, world
<1>4. CASE promotion' = choice /\ UNCHANGED faults /\ Close
  <2>1. FailureOK'
    BY <1>2, <1>4, CountsAre DEF FailureOK
  <2> QED
    BY <1>1, <1>3, <1>4, <2>1, ClosesKeeps
<1>5. CASE Raise /\ (Fault \/ UNCHANGED faults)
  <2>1. faults' \in 0..MaxFaults
    BY <1>5, CountsAre DEF Fault, IInv, TypeOK
  <2>2. Reached(recorded)
    BY <1>1, CountsAre DEF Reached, IInv, TypeOK
  <2> QED
    BY <1>1, <1>3, <1>5, <2>1, <2>2, RaiseKeeps DEF world
<1> QED
  BY <1>1, <1>4, <1>5

LEMMA NoPromotionKeeps ==
  ASSUME IInv, NoPromotion
  PROVE  IInv'
<1>1. /\ DrainComplete
      /\ UNCHANGED <<published, intents, prepared, result, verified, promotion, terminal, world,
                     starts, faults>>
      /\ ((canceled \/ AllRejected) /\ Close) \/ Raise
  BY DEF NoPromotion, bounds
<1>2. BucketOK'
  BY <1>1, BucketSame DEF world, IInv
<1>3. CASE (canceled \/ AllRejected) /\ Close
  <2>1. AllRejected => published # {} /\ \A c \in published : verified[c] = "rejected"
    <3>1. recorded \subseteq published /\ published \subseteq recorded
      BY <1>1, DrainedIs DEF IInv, RecordOK
    <3> QED
      BY <1>1, <3>1, DrainedIs DEF AllRejected
  <2>2. FailureOK'
    BY <1>1, <1>3, <2>1 DEF FailureOK, Close, flags
  <2> QED
    BY <1>1, <1>2, <1>3, <2>2, ClosesKeeps
<1>4. CASE Raise
  <2>1. Reached(recorded) /\ faults' \in 0..MaxFaults
    BY <1>1, CountsAre DEF Reached, IInv, TypeOK
  <2> QED
    BY <1>1, <1>2, <1>4, <2>1, RaiseKeeps DEF world
<1> QED
  BY <1>1, <1>3, <1>4

LEMMA WriteAttemptTerminalKeeps ==
  ASSUME IInv, WriteAttemptTerminal
  PROVE  IInv'
<1>1. /\ phase = "closing"
      /\ UNCHANGED <<published, intents, prepared, result, verified, promotion, terminal, expired,
                     calls, starts, faults>>
  BY DEF WriteAttemptTerminal, world, bounds
<1>2. BucketOK'
  BY <1>1, BucketSame DEF IInv
<1>3. CASE AttemptState = "succeeded"
  <2>1. /\ outcome' = "succeeded" /\ phase' = "receipted"
        /\ UNCHANGED <<stage, todo, look, saved, recorded, row, learner, closed, canceled,
                       final>>
    BY <1>3 DEF WriteAttemptTerminal, ledger, flags
  <2>2. TypeOK'
    BY <1>1, <2>1 DEF IInv, TypeOK, Phases
  <2>3. PlaceOK' /\ TodoOK' /\ LookOK' /\ FinalOK'
    <3>1. Rows(stage)' = Rows(stage)
      BY <2>1 DEF Rows, InStatus
    <3>2. look = NoLook
      BY <1>1 DEF IInv, PlaceOK, LookOK
    <3> QED
      BY <1>1, <2>1, <3>1, <3>2, NotLooking
      DEF IInv, PlaceOK, TodoOK, FinalOK, LearnerAlive
  <2>4. RecordOK' /\ RowOK' /\ LedgerAgreesWithBucket'
    BY <1>1, <2>1 DEF IInv, RecordOK, RowOK, Intact, LedgerAgreesWithBucket
  <2> QED
    BY <1>1, <1>2, <2>1, <2>2, <2>3, <2>4
    DEF IInv, AcceptanceCloses, AcceptanceStopsLearner, DurablyAccepted, FailureOK,
        FailureIsEvidenced
<1>4. CASE AttemptState # "succeeded"
  <2>1. ProcessEnds(AttemptState) /\ AttemptState \in {"canceled", "failed"}
    BY <1>4 DEF WriteAttemptTerminal, AttemptState
  <2>2. AttemptState = "failed" => ~canceled /\ promotion = 0
    BY DEF AttemptState
  <2>3. AttemptState = "failed" => FailureIsEvidenced'
    BY <1>1, <2>2 DEF IInv, FailureOK, FailureIsEvidenced
  <2>4. AttemptState \in Outcomes /\ terminal' \in BOOLEAN /\ faults' \in 0..MaxFaults
    BY <1>1, <2>1 DEF Outcomes, IInv, TypeOK
  <2> HIDE DEF AttemptState
  <2> QED
    BY <1>1, <1>2, <2>1, <2>3, <2>4, EndsKeeps
<1> QED
  BY <1>3, <1>4

LEMMA WriteTerminalKeeps ==
  ASSUME IInv, WriteTerminal
  PROVE  IInv'
<1>1. /\ UNCHANGED <<published, intents, prepared, result, verified, promotion, expired, calls,
                     starts, faults>>
      /\ terminal' \in BOOLEAN /\ ProcessEnds("succeeded")
  BY DEF WriteTerminal, world, bounds
<1>2. BucketOK' /\ faults' \in 0..MaxFaults
  BY <1>1, BucketSame DEF IInv, TypeOK
<1> QED
  BY <1>1, <1>2, EndsKeeps DEF Outcomes

-----------------------------------------------------------------------------
(* Attempts of the run, the learner, the workers and time *)

LEMMA StartKeeps ==
  ASSUME IInv, Start
  PROVE  IInv'
<1>1. /\ phase = "down" /\ ~terminal /\ starts' \in 0..MaxStarts
      /\ outcome' = None /\ intents' = Ensured /\ recorded' = published
      /\ row' = [c \in Checkpoints |-> RecoveredRow(c)] /\ closed' = DurablyAccepted
      /\ phase' = "recovering" /\ stage' = "recover"
      /\ todo' = {c \in published \cap Ensured : verified[c] = None /\ result[c] # NoResult}
      /\ UNCHANGED <<published, final, prepared, result, verified, promotion, terminal, expired,
                     calls, look, saved, learner, canceled, faults>>
  BY CountsAre DEF Start, Retryable, world, IInv, TypeOK
<1>2. intents \subseteq Ensured /\ Ensured \subseteq Checkpoints
  BY DEF Ensured, IInv, TypeOK
<1>3. BucketOK'
  BY <1>1, <1>2 DEF IInv, BucketOK, BucketType, KeptOK, AttemptOK, PromotionOK,
                    EachAttemptSpawnedOnce, RetryOnlyAfterExpiry
<1>4. ASSUME NEW c \in Checkpoints
      PROVE  /\ RecoveredRow(c).attempt = prepared[c]
             /\ verified[c] # None => RecoveredRow(c).status = verified[c]
             /\ RecoveredRow(c).status # None => c \in published \cap Ensured
             /\ RecoveredRow(c).status = None => prepared[c] = 0
             /\ RecoveredRow(c).status \in ResultTerminal => verified[c] = RecoveredRow(c).status
             /\ RecoveredRow(c).status # "deferred"
             /\ RecoveredRow(c).status = "pending" => prepared[c] = 0
             /\ c \in published \cap Ensured /\ verified[c] = None =>
                  RecoveredRow(c).status \in Unsettled
             /\ RecoveredRow(c) \in [status : Settled \cup Unsettled, attempt : 0..MaxAttempts]
  <2>1. prepared[c] \in 0..MaxAttempts /\ verified[c] \in ResultTerminal \cup {None}
    BY DEF IInv, TypeOK
  <2>2. CASE c \notin published \cap Ensured
    <3>1. prepared[c] = 0 /\ verified[c] = None
      BY <1>2, <2>2 DEF IInv, BucketOK, KeptOK
    <3> QED
      BY <2>2, <3>1, NoRowIs, StatusesAre DEF RecoveredRow, None
  <2>3. CASE c \in published \cap Ensured
    <3> DEFINE status == RecoveredRow(c).status
    <3>1. /\ RecoveredRow(c) = [attempt |-> prepared[c], status |-> status]
          /\ verified[c] # None => status = verified[c]
          /\ verified[c] = None /\ prepared[c] > 0 => status = "submitted"
          /\ verified[c] = None /\ ~(prepared[c] > 0) => status = "pending"
      BY <2>3 DEF RecoveredRow
    <3> HIDE DEF status
    <3>2. status \in Settled \cup Unsettled /\ status # "deferred" /\ status # None
      BY <2>1, <3>1, StatusesAre DEF None
    <3>3. RecoveredRow(c).attempt = prepared[c] /\ RecoveredRow(c).status = status
      BY <3>1
    <3>4. RecoveredRow(c) \in [status : Settled \cup Unsettled, attempt : 0..MaxAttempts]
      BY <2>1, <3>1, <3>2
    <3> HIDE DEF RecoveredRow
    <3> QED
      BY <2>1, <2>3, <3>1, <3>2, <3>3, <3>4, CountsAre, StatusesAre
  <2> QED
    BY <2>2, <2>3
<1>5. row' \in LedgerRows /\ \A c \in Checkpoints : row'[c] = RecoveredRow(c)
  BY <1>1, <1>4 DEF LedgerRows
<1>6. TypeOK'
  BY <1>1, <1>2, <1>5 DEF IInv, TypeOK, LedgerRows, Phases, Stages, DurablyAccepted
<1>7. PlaceOK' /\ FinalOK' /\ LookOK'
  <2>1. look = NoLook
    BY <1>1 DEF IInv, PlaceOK, LookOK
  <2> QED
    BY <1>1, <2>1, NotLooking DEF IInv, PlaceOK, FinalOK, LearnerAlive
<1>8. TodoOK'
  BY <1>1, <1>4, <1>5 DEF TodoOK, IInv, TypeOK
<1>9. RecordOK'
  <2>1. \A c \in Checkpoints : c \notin published => prepared[c] = 0 /\ verified[c] = None
    BY DEF IInv, BucketOK, KeptOK
  <2> QED
    BY <1>1, <1>4, <1>5, <2>1 DEF RecordOK
<1>10. RowOK'
  <2>1. \A c \in Checkpoints : prepared[c] \in Nat /\ expired[c] \in Nat /\ 0 < MaxAttempts
    BY CountsAre DEF IInv, TypeOK
  <2> QED
    BY <1>1, <1>4, <1>5, <2>1 DEF RowOK
<1>11. LedgerAgreesWithBucket'
  BY <1>1, <1>4, <1>5 DEF LedgerAgreesWithBucket
<1>12. learner = "exited"
  BY <1>1 DEF IInv, PlaceOK
<1> QED
  BY <1>1, <1>3, <1>6, <1>7, <1>8, <1>9, <1>10, <1>11, <1>12
  DEF IInv, AcceptanceCloses, AcceptanceStopsLearner, DurablyAccepted, FailureOK,
      FailureIsEvidenced, None

\* A step that only the learner or the flag of cancelation takes part in.
LEMMA LearnerStepKeeps ==
  ASSUME IInv,
         UNCHANGED <<published, intents, prepared, result, verified, promotion, outcome,
                     terminal, world, position, recorded, row, closed, bounds>>,
         learner' \in {"running", "stopping", "exited"}, canceled' \in BOOLEAN,
         saved \subseteq saved', saved' \subseteq Checkpoints, final' \in 0..Last,
         phase = "down" => saved' = saved, canceled => canceled',
         learner = "exited" => learner' = "exited",
         learner' = "running" => learner = "running",
         Last \in saved' \cup published => final' = Last, learner' # "exited" => final' = 0,
         phase \in {"down", "recovering"} => final' = final
  PROVE  IInv'
<1>1. UNCHANGED <<published, intents, prepared, result, verified, promotion, outcome, terminal,
                  expired, calls, phase, stage, todo, look, recorded, row, closed, starts,
                  faults>>
  BY DEF world, position, bounds
<1>2. BucketOK'
  BY <1>1, BucketSame DEF IInv
<1>3. TypeOK'
  BY <1>1 DEF IInv, TypeOK
<1>4. PlaceOK' /\ FinalOK' /\ LookOK'
  BY <1>1 DEF IInv, PlaceOK, FinalOK, LearnerAlive, LookOK, AttemptExpired
<1>5. TodoOK'
  <2>1. stage # "publish" => Rows(stage)' = Rows(stage)
    BY <1>1 DEF Rows, InStatus, IInv, TypeOK, Stages
  <2>2. stage = "publish" => Rows(stage) \subseteq Rows(stage)'
    BY <1>1 DEF Rows
  <2> QED
    BY <1>1, <2>1, <2>2 DEF IInv, TodoOK
<1>6. RecordOK' /\ RowOK' /\ LedgerAgreesWithBucket'
  BY <1>1 DEF IInv, RecordOK, RowOK, Intact, LedgerAgreesWithBucket
<1> QED
  BY <1>1, <1>2, <1>3, <1>4, <1>5, <1>6
  DEF IInv, AcceptanceCloses, AcceptanceStopsLearner, DurablyAccepted, FailureOK,
      FailureIsEvidenced

LEMMA RequestCancelKeeps ==
  ASSUME IInv, RequestCancel
  PROVE  IInv'
<1>1. UNCHANGED <<bucket, world, position, ledger, closed, bounds>>
  BY DEF RequestCancel
<1>2. /\ canceled' = TRUE /\ learner' \in {"stopping", "exited"}
      /\ learner' = "exited" <=> learner = "exited"
  BY DEF RequestCancel, StopLearner, LearnerAlive
<1> QED
  BY <1>1, <1>2, LearnerStepKeeps DEF bucket, ledger, IInv, TypeOK, FinalOK, LearnerAlive

LEMMA LearnerKeeps ==
  ASSUME IInv, SaveCheckpoint \/ LearnerExit
  PROVE  IInv'
<1>1. /\ LearnerAlive /\ final = 0 /\ Last \notin saved \cup published
      /\ saved \cup published \subseteq Checkpoints
      /\ phase \notin {"down", "recovering"}
  BY CountsAre DEF IInv, TypeOK, FinalOK, PlaceOK, LearnerAlive, SaveCheckpoint, LearnerExit
<1>2. NextCheckpoint \in Checkpoints /\ NextCheckpoint \in 0..Last
  BY <1>1, NextCheckpointIs DEF Checkpoints
<1>3. CASE SaveCheckpoint
  <2>1. /\ saved' = saved \cup {NextCheckpoint} /\ NextCheckpoint < Last
        /\ UNCHANGED <<bucket, world, position, recorded, row, learner, closed, canceled, bounds>>
    BY <1>3 DEF SaveCheckpoint, flags
  <2>2. NextCheckpoint # Last
    BY <1>2, <2>1, CountsAre
  <2> QED
    BY <1>1, <1>2, <2>1, <2>2, LearnerStepKeeps DEF bucket, IInv, TypeOK
<1>4. CASE LearnerExit
  <2>1. /\ learner' = "exited"
        /\ \/ final' = NextCheckpoint /\ saved' = saved \cup {NextCheckpoint}
           \/ UNCHANGED <<final, saved>>
        /\ UNCHANGED <<published, intents, prepared, result, verified, promotion, outcome,
                       terminal, world, position, recorded, row, closed, canceled, bounds>>
    BY <1>4 DEF LearnerExit
  <2> QED
    BY <1>1, <1>2, <2>1, LearnerStepKeeps DEF IInv, TypeOK
<1> QED
  BY <1>3, <1>4

\* A step of a worker or of time.
LEMMA AroundKeeps ==
  ASSUME IInv, BucketOK', \A c \in Checkpoints : expired[c] <= expired'[c],
         \A c \in Checkpoints : result[c] = NoResult \/ result'[c] = result[c],
         UNCHANGED <<published, final, intents, prepared, verified, promotion, outcome, terminal,
                     position, ledger, flags, bounds>>
  PROVE  IInv'
<1>1. UNCHANGED <<published, final, intents, prepared, verified, promotion, outcome, terminal,
                  phase, stage, todo, look, saved, recorded, row, learner, closed, canceled,
                  starts, faults>>
  BY DEF position, ledger, flags, bounds
<1>2. TypeOK'
  BY <1>1 DEF IInv, TypeOK, BucketOK, BucketType
<1>3. TodoOK'
  <2>1. Rows(stage)' = Rows(stage)
    BY <1>1 DEF Rows, InStatus
  <2> QED
    BY <1>1, <2>1 DEF IInv, TodoOK
<1>4. RowOK'
  <2>1. \A c \in Checkpoints : expired[c] \in Nat /\ expired'[c] \in Nat /\ row[c].attempt \in Nat
    BY <1>2, RowTyped, CountsAre DEF IInv, TypeOK
  <2> QED
    BY <1>1, <2>1 DEF IInv, RowOK, Intact
<1>5. LookOK'
  <2>1. \A c \in Checkpoints : expired[c] \in Nat /\ expired'[c] \in Nat /\ row[c].attempt \in Nat
    BY <1>2, RowTyped, CountsAre DEF IInv, TypeOK
  <2>2. look # NoLook => look.row \in Checkpoints
    BY DEF IInv, TypeOK, LookOK
  <2>3. LookOK
    BY DEF IInv
  <2>4. stage = "poll" /\ look # NoLook => AttemptExpired(look.row)'
    BY <1>1, <2>1, <2>2, <2>3 DEF LookOK, AttemptExpired
  <2> QED
    BY <1>1, <2>2, <2>3, <2>4 DEF LookOK
<1> QED
  BY <1>1, <1>2, <1>3, <1>4, <1>5
  DEF IInv, PlaceOK, FinalOK, LearnerAlive, RecordOK, LedgerAgreesWithBucket,
      AcceptanceCloses, AcceptanceStopsLearner, DurablyAccepted, FailureOK, FailureIsEvidenced

LEMMA WorkerUploadsKeeps ==
  ASSUME IInv, NEW c \in Checkpoints, NEW a \in Attempts, WorkerUploads(c, a)
  PROVE  IInv'
<1>1. PICK v \in Verdicts \cup {"expired"} :
        result' = [result EXCEPT ![c] = [attempt |-> a, verdict |-> v]]
  BY DEF WorkerUploads
<1>2. /\ calls[c][a] = "live" /\ result[c] = NoResult
      /\ UNCHANGED <<published, final, intents, prepared, verified, promotion, outcome, terminal,
                     expired, position, ledger, flags, bounds>>
  BY DEF WorkerUploads
<1>3. CallsQuiet
  BY UploadedCalls
<1>4. /\ result' \in [Checkpoints -> Results]
      /\ result'[c].attempt = a /\ \A d \in Checkpoints \ {c} : result'[d] = result[d]
  BY <1>1 DEF IInv, TypeOK, Results
<1>5. AttemptOK'
  <2>1. ASSUME NEW d \in Checkpoints, result'[d] # NoResult
        PROVE  calls'[d][result'[d].attempt] # None
    <3>1. CASE d = c
      BY <1>2, <1>3, <1>4, <3>1 DEF CallsQuiet, None
    <3>2. CASE d # c
      <4>1. result'[d] = result[d] /\ result[d].attempt \in Attempts
        BY <1>4, <2>1, <3>2, NoResultIs
      <4> QED
        BY <1>3, <2>1, <4>1 DEF CallsQuiet, IInv, BucketOK, AttemptOK
    <3> QED
      BY <3>1, <3>2
  <2> QED
    BY <1>2, <1>3, <2>1 DEF CallsQuiet, IInv, BucketOK, AttemptOK
<1>6. BucketOK'
  BY <1>2, <1>3, <1>4, <1>5
  DEF IInv, BucketOK, BucketType, KeptOK, PromotionOK, CallsQuiet, EachAttemptSpawnedOnce,
      RetryOnlyAfterExpiry, None
<1> QED
  BY <1>2, <1>4, <1>6, AroundKeeps, CountsAre DEF IInv, TypeOK

LEMMA ExpireKeeps ==
  ASSUME IInv, NEW c \in Checkpoints, Expire(c)
  PROVE  IInv'
<1>1. /\ expired' = [expired EXCEPT ![c] = prepared[c]] /\ expired[c] < prepared[c]
      /\ UNCHANGED <<published, final, intents, prepared, result, verified, promotion, outcome,
                     terminal, calls, position, ledger, flags, bounds>>
  BY DEF Expire, bucket
<1>2. /\ expired' \in [Checkpoints -> 0..MaxAttempts]
      /\ \A d \in Checkpoints :
           expired[d] <= expired'[d] /\ expired[d] \in Nat /\ expired'[d] \in Nat
  BY <1>1, CountsAre DEF IInv, TypeOK
<1>3. RetryOnlyAfterExpiry'
  BY <1>1, <1>2, CountsAre DEF IInv, BucketOK, RetryOnlyAfterExpiry, Attempts
<1>4. BucketOK'
  BY <1>1, <1>2, <1>3
  DEF IInv, BucketOK, BucketType, KeptOK, AttemptOK, PromotionOK, EachAttemptSpawnedOnce
<1> QED
  BY <1>1, <1>2, <1>4, AroundKeeps

-----------------------------------------------------------------------------
(* The invariant *)

LEMMA InitOK == Init => IInv
<1> SUFFICES ASSUME Init PROVE IInv
  OBVIOUS
<1>1. row \in LedgerRows /\ \A c \in Checkpoints : row[c].status = None /\ row[c].attempt = 0
  BY NoRowsAre DEF Init
<1>2. /\ published = {} /\ final = 0 /\ intents = {} /\ promotion = 0 /\ outcome = None
      /\ terminal = FALSE /\ phase = "down" /\ stage = "top" /\ todo = {}
      /\ saved = {} /\ recorded = {} /\ learner = "exited" /\ closed = FALSE
      /\ canceled = FALSE /\ starts = 0 /\ faults = 0 /\ look = NoLook
      /\ row = [c \in Checkpoints |-> NoRow]
  BY DEF Init
<1>3. /\ prepared \in [Checkpoints -> 0..MaxAttempts]
      /\ expired \in [Checkpoints -> 0..MaxAttempts]
      /\ result \in [Checkpoints -> {NoResult}]
      /\ verified \in [Checkpoints -> {None}]
      /\ calls \in [Checkpoints -> [Attempts -> {None}]]
      /\ \A c \in Checkpoints : prepared[c] = 0
  BY CountsAre DEF Init
<1>4. BucketOK
  BY <1>2, <1>3, CountsAre, NoResultIs
  DEF BucketOK, BucketType, KeptOK, AttemptOK, PromotionOK, EachAttemptSpawnedOnce,
      RetryOnlyAfterExpiry, None
<1>5. TypeOK
  <2>1. BucketType /\ 0 \in 0..Last /\ 0 \in 0..MaxStarts /\ 0 \in 0..MaxFaults
    BY <1>4, CountsAre DEF BucketOK
  <2>2. "down" \in Phases /\ "top" \in Stages
    BY DEF Phases, Stages
  <2> QED
    BY <1>1, <1>2, <2>1, <2>2, NoLookIs DEF BucketType, TypeOK, LedgerRows
<1>6. PlaceOK /\ TodoOK /\ LookOK /\ FinalOK
  BY <1>2, NoLookIs DEF PlaceOK, TodoOK, LookOK, FinalOK, LearnerAlive
<1>7. RecordOK /\ RowOK /\ LedgerAgreesWithBucket
  BY <1>1, <1>2, <1>3, StatusesAre DEF RecordOK, RowOK, Intact, LedgerAgreesWithBucket, None
<1> QED
  BY <1>2, <1>4, <1>5, <1>6, <1>7
  DEF IInv, AcceptanceCloses, FailureOK, FailureIsEvidenced, AcceptanceStopsLearner, None

LEMMA StutterOK ==
  ASSUME IInv, UNCHANGED vars
  PROVE  IInv'
<1>1. UNCHANGED <<bucket, world, position, ledger, flags, bounds>>
  BY DEF vars
<1>2. BucketOK'
  BY <1>1, BucketSame DEF bucket, world, IInv
<1> QED
  BY <1>1, <1>2, AroundKeeps, CountsAre DEF bucket, world, IInv, TypeOK

LEMMA StepOK == IInv /\ [Next]_vars => IInv'
<1> SUFFICES ASSUME IInv, [Next]_vars PROVE IInv'
  OBVIOUS
<1>1. ASSUME NEW c \in Checkpoints, RowStep(c)
      PROVE  IInv'
  BY <1>1, PublishKeeps, PublishFailsKeeps, EnsureRaisesKeeps, ReconcileKeeps,
     SettleKeeps, SubmitKeeps, PollKeeps, PollExpiredKeeps, CancelKeeps, CancelCallKeeps,
     DeferUnsettledKeeps DEF RowStep
<1>2. CASE StartLearner \/ BeginIteration \/ Advance \/ SkipPoll \/ LeaveLoop \/ IterationRaises
           \/ FailureDeadline
  BY <1>2, StartLearnerKeeps, LoopKeeps, LeaveLoopKeeps, IterationRaisesKeeps
<1>3. CASE Promote \/ NoPromotion \/ WriteAttemptTerminal \/ WriteTerminal
  BY <1>3, PromoteKeeps, NoPromotionKeeps, WriteAttemptTerminalKeeps, WriteTerminalKeeps
<1>4. CASE FailureDrainEnds \/ DeliveryFails \/ StartFails \/ Crash
  BY <1>4, PlainEndKeeps
<1>5. CASE Start \/ RequestCancel \/ SaveCheckpoint \/ LearnerExit
  BY <1>5, StartKeeps, RequestCancelKeeps, LearnerKeeps
<1>6. ASSUME NEW c \in Checkpoints, Expire(c) \/ \E a \in Attempts : WorkerUploads(c, a)
      PROVE  IInv'
  BY <1>6, ExpireKeeps, WorkerUploadsKeeps
<1>7. CASE UNCHANGED vars
  BY <1>7, StutterOK
<1> QED
  BY <1>1, <1>2, <1>3, <1>4, <1>5, <1>6, <1>7 DEF Next, Supervise

LEMMA Inductive == Spec => []IInv
BY InitOK, StepOK, PTL DEF Spec

-----------------------------------------------------------------------------
(* What follows *)

\* The buckets, the ledger and the supervisor's place keep their shape: what a later
\* attempt of the run recovers from is always what an earlier one may leave.
THEOREM TypeCorrect == Spec => []TypeOK
<1>1. IInv => TypeOK
  BY DEF IInv
<1> QED
  BY <1>1, Inductive, PTL

\* Across ambiguous spawns, crashes and recoveries an attempt is spawned at most once:
\* attempt-N.json is written before the spawn, and one that is there is adopted
\* (_submit_pending_evals).
THEOREM SpawnedOnce == Spec => []EachAttemptSpawnedOnce
<1>1. IInv => EachAttemptSpawnedOnce
  BY DEF IInv, BucketOK
<1> QED
  BY <1>1, Inductive, PTL

\* A second attempt never runs beside a first one that may still be given a result:
\* _poll_evals makes the row pending only after expires_at, and no other step does.
THEOREM RetriesWait == Spec => []RetryOnlyAfterExpiry
<1>1. IInv => RetryOnlyAfterExpiry
  BY DEF IInv, BucketOK
<1> QED
  BY <1>1, Inductive, PTL

\* Wherever a bucket call fails, and whatever a later task recovers, a finished row of
\* the ledger has the status of verified-result.json.
THEOREM LedgerAgrees == Spec => []LedgerAgreesWithBucket
<1>1. IInv => LedgerAgreesWithBucket
  BY DEF IInv
<1> QED
  BY <1>1, Inductive, PTL

\* An attempt that reports "failed" has looked at every published checkpoint: also at
\* those whose publication was retried, or that an earlier attempt published.
THEOREM FailureEvidenced == Spec => []FailureIsEvidenced
<1>1. IInv => FailureIsEvidenced
  BY DEF IInv
<1> QED
  BY <1>1, Inductive, PTL

\* No learner trains on once an acceptance is durable: _observe_result stops the one at
\* work, an exception tears it down, and recovery closes the admission first.
THEOREM AcceptanceStops == Spec => []AcceptanceStopsLearner
<1>1. IInv => AcceptanceStopsLearner
  BY DEF IInv
<1> QED
  BY <1>1, Inductive, PTL

-----------------------------------------------------------------------------
(* What a step does to the verdicts and the calls: nothing, or one verdict is   *)
(* given, or one attempt spawned, or the run is promoted or closed.             *)

Quiet == CallsQuiet /\ UNCHANGED <<verified, promotion, terminal>>

\* The status is the one of the last attempt's result, if that was there at the look.
Reported(c, status) ==
  \/ Valid(c) /\ status = result[c].verdict
  \/ look.row = c /\ status \in {"expired", "canceled"}

Decides(c, status) ==
  /\ c \in todo /\ stage \notin {"publish", "submit"}
  /\ verified[c] = None /\ verified' = [verified EXCEPT ![c] = status]
  /\ Reported(c, status)
  /\ CallsQuiet /\ UNCHANGED <<promotion, terminal>>

Spawns(c, a) ==
  /\ a \in Attempts /\ prepared[c] < a
  /\ verified[c] = None /\ ~DurablyAccepted
  /\ calls' = Spawned(c, a)
  /\ UNCHANGED <<verified, promotion, terminal>>

LEMMA PutDecides ==
  ASSUME IInv, NEW c \in todo, stage \notin {"publish", "submit"}, NEW status,
         PutVerified(c, status),
         Reported(c, status),
         CallsQuiet, UNCHANGED <<promotion, terminal>>
  PROVE  Quiet \/ Decides(c, status)
BY DEF PutVerified, Quiet, Decides

LEMMA RowStepIs ==
  ASSUME IInv, NEW c \in Checkpoints, RowStep(c)
  PROVE  Quiet \/ (\E status \in ResultTerminal : Decides(c, status))
               \/ \E a \in Attempts : Spawns(c, a)
<1>1. UNCHANGED calls => CallsQuiet
  BY SameCalls DEF IInv
<1>2. CASE Publish(c) \/ PublishFails(c) \/ EnsureRaises(c)
  BY <1>1, <1>2 DEF Publish, PublishFails, EnsureRaises, world, Quiet
<1>3. CASE Submit(c) \/ SubmitAmbiguous(c) \/ SubmitRaises(c)
  <2> DEFINE a == row[c].attempt + 1
  <2>1. /\ a \in Attempts /\ prepared[c] < a /\ verified[c] = None /\ ~DurablyAccepted
        /\ ~Adoptable(c, a) /\ ~(a > MaxAttempts)
    BY <1>3, SubmitWhen
  <2>2. /\ UNCHANGED <<verified, promotion, terminal>>
        /\ calls' = calls \/ calls' = Spawned(c, a)
    BY <1>3, <2>1 DEF Submit, SubmitAmbiguous, SubmitRaises, SetRow
  <2> HIDE DEF a
  <2> QED
    BY <1>1, <2>1, <2>2 DEF Quiet, Spawns
<1>4. ASSUME \/ Reconcile(c) \/ SettleClosed(c) \/ SettleExpired(c) \/ Poll(c)
             \/ PollExpired(c) \/ Cancel(c) \/ CancelCall(c) \/ DeferUnsettled(c)
      PROVE  Quiet \/ \E status \in ResultTerminal : Decides(c, status)
  <2>1. /\ c \in todo /\ stage \notin {"publish", "submit"}
        /\ UNCHANGED <<promotion, terminal>>
    BY <1>4, LookedIs
    DEF Reconcile, SettleClosed, SettleExpired, Poll, PollExpired, Cancel, CancelCall,
        DeferUnsettled, Visiting, Visited, RowStepUnchanged
  <2>2. CASE /\ \E status : SetRow(c, status, 0) \/ SetRow(c, status, row[c].attempt)
             /\ UNCHANGED calls
    BY <1>1, <2>1, <2>2 DEF SetRow, Quiet
  <2>3. CASE (SkipRow(c) \/ AdoptVerified(c) \/ LookInVain(c)) /\ UNCHANGED calls
    BY <1>1, <2>1, <2>3 DEF SkipRow, AdoptVerified, LookInVain, Quiet
  <2>4. ASSUME NEW status \in ResultTerminal, PutVerified(c, status), CallsQuiet,
               Reported(c, status)
        PROVE  Quiet \/ \E v \in ResultTerminal : Decides(c, v)
    BY <2>1, <2>4, PutDecides
  <2>5. CASE CancelCall(c) /\ verified[c] = None
    <3>1. PutVerified(c, "canceled") /\ CallsQuiet /\ look.row = c
      BY <2>5, CanceledCalls DEF CancelCall, Visited
    <3> QED
      BY <2>4, <3>1, StatusesAre DEF Reported
  <2>6. CASE ~(CancelCall(c) /\ verified[c] = None)
    <3>1. UNCHANGED calls
      BY <1>4, <2>6
      DEF Reconcile, SettleClosed, SettleExpired, Poll, PollExpired, Cancel, CancelCall,
          DeferUnsettled
    <3>2. \/ \E status : SetRow(c, status, 0) \/ SetRow(c, status, row[c].attempt)
          \/ SkipRow(c) \/ AdoptVerified(c) \/ LookInVain(c)
          \/ Valid(c) /\ PutVerified(c, result[c].verdict)
          \/ look.row = c /\ PutVerified(c, "expired")
      BY <1>4, <2>6
      DEF Reconcile, SettleClosed, SettleExpired, Poll, PollExpired, Cancel, CancelCall,
          DeferUnsettled, Visited
    <3>3. CASE Valid(c) /\ PutVerified(c, result[c].verdict)
      BY <1>1, <2>4, <3>1, <3>3, ValidIs DEF Reported
    <3>4. CASE look.row = c /\ PutVerified(c, "expired")
      BY <1>1, <2>4, <3>1, <3>4, StatusesAre DEF Reported
    <3> QED
      BY <2>2, <2>3, <3>1, <3>2, <3>3, <3>4
  <2> QED
    BY <2>5, <2>6
<1> QED
  BY <1>2, <1>3, <1>4 DEF RowStep

LEMMA StepIs ==
  ASSUME IInv, [Next]_vars
  PROVE  \/ Quiet
         \/ \E c \in Checkpoints, status \in ResultTerminal : Decides(c, status)
         \/ \E c \in Checkpoints, a \in Attempts : Spawns(c, a)
         \/ Promote \/ WriteTerminal
<1>1. UNCHANGED calls => CallsQuiet
  BY SameCalls DEF IInv
<1>2. ASSUME NEW c \in Checkpoints, NEW a \in Attempts, WorkerUploads(c, a)
      PROVE  CallsQuiet
  BY <1>2, UploadedCalls
<1>3. CASE \E c \in Checkpoints : RowStep(c)
  BY <1>3, RowStepIs
<1>4. CASE \/ StartLearner \/ BeginIteration \/ Advance \/ SkipPoll \/ LeaveLoop
           \/ IterationRaises \/ FailureDrainEnds \/ FailureDeadline \/ NoPromotion
           \/ WriteAttemptTerminal \/ DeliveryFails \/ Start \/ StartFails \/ RequestCancel \/ Crash \/ SaveCheckpoint
           \/ LearnerExit \/ \E c \in Checkpoints : Expire(c)
  <2>1. UNCHANGED <<calls, verified, promotion, terminal>>
    BY <1>4 DEF StartLearner, BeginIteration, Advance, SkipPoll, LeaveLoop, IterationRaises,
       FailureDrainEnds, FailureDeadline, NoPromotion, WriteAttemptTerminal, DeliveryFails, Start,
       StartFails, RequestCancel, Crash, SaveCheckpoint, LearnerExit, Expire, StepUnchanged,
       bucket, world
  <2> QED
    BY <1>1, <2>1 DEF Quiet
<1>5. CASE \E c \in Checkpoints, a \in Attempts : WorkerUploads(c, a)
  BY <1>2, <1>5 DEF WorkerUploads, Quiet
<1>6. CASE UNCHANGED vars
  BY <1>1, <1>6 DEF vars, bucket, world, Quiet
<1> QED
  BY <1>3, <1>4, <1>5, <1>6 DEF Next, Supervise

LEMMA DecidedOne ==
  ASSUME IInv, NEW c \in Checkpoints, NEW status \in ResultTerminal, Decides(c, status)
  PROVE  verified'[c] = status /\ \A d \in Checkpoints \ {c} : verified'[d] = verified[d]
BY DEF Decides, IInv, TypeOK

LEMMA ResultIsOfCall ==
  ASSUME IInv, NEW c \in Checkpoints, result[c] # NoResult
  PROVE  /\ result[c].attempt \in Attempts /\ calls[c][result[c].attempt] # None
         /\ result[c].attempt <= prepared[c]
<1>1. result[c].attempt \in Attempts
  BY NoResultIs DEF IInv, TypeOK
<1> QED
  BY <1>1 DEF IInv, BucketOK, AttemptOK

\* A result counts whenever it comes: only one of an attempt before the last, one that
\* was uploaded after _observe_result had looked, or one that a failure drain meets, may
\* lose against "expired" or "canceled".
THEOREM ResultCounts == Spec => LastResultCounts
<1> DEFINE Counts == \A c \in Checkpoints :
                       /\ verified[c] = None /\ verified'[c] \in {"expired", "canceled"}
                       /\ result[c].verdict \in Verdicts
                       => \/ look.row = c /\ look.result # result[c]
                          \/ result[c].attempt < prepared[c] \/ phase = "failing"
<1>1. ASSUME IInv, [Next]_vars
      PROVE  Counts
  <2> SUFFICES ASSUME NEW c \in Checkpoints,
                      verified[c] = None, verified'[c] \in {"expired", "canceled"},
                      result[c].verdict \in Verdicts, phase # "failing",
                      ~(look.row = c /\ look.result # result[c])
               PROVE  result[c].attempt < prepared[c]
    OBVIOUS
  <2>1. verified' # verified
    BY DEF None
  <2>2. PICK d \in Checkpoints, status \in ResultTerminal : Decides(d, status)
    BY <1>1, <2>1, StepIs DEF Quiet, Spawns, Promote, WriteTerminal
  <2>3. d = c /\ status \in {"expired", "canceled"}
    BY <1>1, <2>2, DecidedOne DEF None
  <2>4. c \in todo /\ stage # "publish" /\ result[c] # NoResult
    BY <2>2, <2>3, NoResultIs, StatusesAre DEF Decides
  <2>5. look.row = c
    BY <2>2, <2>3, StatusesAre DEF Decides, Reported
  <2>6. result[c].attempt # row[c].attempt
    BY <1>1, <2>4, <2>5, LookedIs
  <2>7. Intact
    BY <1>1, <2>4, VisitedIs DEF Intact
  <2>8. row[c].attempt = prepared[c]
    BY <1>1, <2>7 DEF IInv, RowOK
  <2>9. result[c].attempt \in Nat /\ prepared[c] \in Nat
    <3>1. result[c].attempt \in Attempts
      BY <1>1, <2>4, ResultIsOfCall
    <3>2. prepared \in [Checkpoints -> 0..MaxAttempts]
      BY <1>1 DEF IInv, TypeOK
    <3> QED
      BY <3>1, <3>2, CountsAre DEF Attempts
  <2> QED
    BY <1>1, <2>4, <2>6, <2>8, <2>9, ResultIsOfCall
<1> QED
  BY <1>1, Inductive, PTL DEF Spec, LastResultCounts

-----------------------------------------------------------------------------
(* EvalLifecycle implements EvalVerdicts: a step of the supervisor, of a worker or *)
(* of a failure is a step of the promises, or changes nothing they speak of.       *)

Dispatched == [c \in Checkpoints |-> {a \in Attempts : calls[c][a] # None}]

LEMMA QuietStutters ==
  ASSUME CallsQuiet
  PROVE  Dispatched' = Dispatched
<1>1. \A c \in Checkpoints : {a \in Attempts : calls'[c][a] # None}
                             = {a \in Attempts : calls[c][a] # None}
  BY DEF CallsQuiet
<1> QED
  BY <1>1 DEF Dispatched

LEMMA InitPromised == Init => Promises!Init
BY DEF Init, Promises!Init, None

LEMMA SpawnPromised ==
  ASSUME IInv, NEW c \in Checkpoints, NEW a \in Attempts, Spawns(c, a)
  PROVE  Promises!Dispatch(c, a)
<1>1. \A b \in Attempts : calls[c][b] # None => b <= prepared[c]
  BY DEF IInv, BucketOK, AttemptOK
<1>2. prepared[c] \in Nat /\ prepared[c] < a /\ \A b \in Attempts : b \in Nat
  BY CountsAre DEF Spawns, IInv, TypeOK, Attempts
<1>3. \A b \in Attempts : calls[c][b] # None => b < a
  BY <1>1, <1>2
<1>4. calls[c][a] = None
  BY <1>2, <1>3
<1>5. calls \in [Checkpoints -> [Attempts -> {None, "live", "gone"}]]
  BY DEF IInv, BucketOK, BucketType, EachAttemptSpawnedOnce
<1>6. /\ \A d \in Checkpoints \ {c} : calls'[d] = calls[d]
      /\ calls'[c] = [calls[c] EXCEPT ![a] = "live"]
  BY <1>4, <1>5 DEF Spawns, Spawned
<1>7. \A b \in Attempts : calls'[c][b] # None <=> calls[c][b] # None \/ b = a
  BY <1>5, <1>6 DEF None
<1>8. Dispatched' = [Dispatched EXCEPT ![c] = @ \cup {a}]
  <2>1. {b \in Attempts : calls'[c][b] # None} = {b \in Attempts : calls[c][b] # None} \cup {a}
    BY <1>7
  <2>2. \A d \in Checkpoints \ {c} :
          {b \in Attempts : calls'[d][b] # None} = {b \in Attempts : calls[d][b] # None}
    BY <1>6
  <2> QED
    BY <2>1, <2>2 DEF Dispatched
<1>9. \A b \in Dispatched[c] : b < a
  BY <1>3 DEF Dispatched
<1> QED
  BY <1>8, <1>9 DEF Promises!Dispatch, Promises!Accepted, Spawns, DurablyAccepted, Dispatched

LEMMA DecidePromised ==
  ASSUME IInv, NEW c \in Checkpoints, NEW status \in ResultTerminal, Decides(c, status)
  PROVE  Promises!Decide(c, status)
<1>1. status \in Verdicts => Valid(c) /\ result[c] # NoResult
  BY StatusesAre DEF Decides, Reported, Valid
<1>2. status \in Verdicts => Dispatched[c] # {}
  BY <1>1, ResultIsOfCall DEF Dispatched
<1>3. status = "accepted" => promotion = 0
  <2>1. prepared[c] # 0 => promotion = 0
    BY DEF Decides, IInv, BucketOK, PromotionOK
  <2>2. ASSUME status = "accepted"
        PROVE  prepared[c] # 0
    <3>1. result[c] # NoResult
      BY <1>1, <2>2, StatusesAre
    <3>2. result[c].attempt >= 1 /\ result[c].attempt <= prepared[c] /\ result[c].attempt \in Nat
      BY <3>1, ResultIsOfCall, CountsAre DEF Attempts
    <3> QED
      BY <3>2
  <2> QED
    BY <2>1, <2>2
<1>4. Dispatched' = Dispatched
  BY QuietStutters DEF Decides
<1> QED
  BY <1>2, <1>3, <1>4 DEF Promises!Decide, Decides, Dispatched

LEMMA PromotePromised ==
  ASSUME IInv, Promote
  PROVE  (\E c \in Checkpoints : Promises!Promote(c)) \/ UNCHANGED Promises!vars
<1>1. /\ DrainComplete /\ (promotion # 0 \/ AcceptedRows # {})
      /\ UNCHANGED <<verified, terminal, calls>>
      /\ promotion' \in {promotion, IF promotion = 0 THEN Selected ELSE promotion}
  BY DEF Promote, world
<1>2. CallsQuiet
  BY <1>1, SameCalls DEF IInv
<1>3. Dispatched' = Dispatched
  BY <1>2, QuietStutters
<1>4. CASE promotion' = promotion
  BY <1>1, <1>3, <1>4 DEF Promises!vars, Dispatched
<1>5. CASE promotion' # promotion
  <2>1. promotion = 0 /\ promotion' = Selected /\ AcceptedRows # {}
    BY <1>1, <1>5
  <2>2. /\ Selected \in AcceptedRows /\ \A d \in AcceptedRows : Selected <= d
        /\ AcceptedRows = {c \in Checkpoints : verified[c] = "accepted"}
    BY <1>1, <2>1, DrainedIs, LowestIs DEF Selected
  <2>3. Promises!Promote(Selected) /\ Selected \in Checkpoints
    BY <1>1, <1>3, <2>1, <2>2 DEF Promises!Promote, Promises!Accepted, Dispatched
  <2> QED
    BY <2>3
<1> QED
  BY <1>4, <1>5

LEMMA ClosePromised ==
  ASSUME IInv, WriteTerminal
  PROVE  Promises!Close \/ UNCHANGED Promises!vars
<1>1. /\ phase = "receipted" /\ UNCHANGED <<verified, promotion, calls>>
      /\ terminal' = (AcceptedRows # {} /\ promotion = Lowest(AcceptedRows))
  BY DEF WriteTerminal, world
<1>2. CallsQuiet
  BY <1>1, SameCalls DEF IInv
<1>3. Dispatched' = Dispatched
  BY <1>2, QuietStutters
<1>4. terminal = FALSE
  BY <1>1 DEF IInv, TypeOK, PlaceOK
<1>5. CASE ~terminal'
  <2>1. terminal' = FALSE
    BY <1>1, <1>5
  <2> QED
    BY <1>1, <1>3, <1>4, <2>1 DEF Promises!vars, Dispatched
<1>6. CASE terminal'
  <2>1. AcceptedRows # {} /\ promotion = Lowest(AcceptedRows) /\ terminal' = TRUE
    BY <1>1, <1>6
  <2>2. AcceptedRows \in SUBSET Checkpoints
    BY DEF AcceptedRows, InStatus
  <2>3. promotion # 0
    BY <2>1, <2>2, LowestIs, CountsAre
  <2>4. ASSUME NEW c \in Checkpoints, verified[c] = None
        PROVE  Dispatched[c] = {}
    <3>1. prepared[c] = 0
      BY <2>3, <2>4 DEF IInv, BucketOK, PromotionOK
    <3>2. \A a \in Attempts : calls[c][a] = None
      BY <3>1, CountsAre DEF IInv, BucketOK, AttemptOK, Attempts
    <3> QED
      BY <3>2 DEF Dispatched
  <2> QED
    BY <1>1, <1>3, <2>1, <2>3, <2>4 DEF Promises!Close, Dispatched
<1> QED
  BY <1>5, <1>6

LEMMA StepPromised == IInv /\ [Next]_vars => [Promises!Next]_Promises!vars
<1> SUFFICES ASSUME IInv, [Next]_vars PROVE Promises!Next \/ UNCHANGED Promises!vars
  OBVIOUS
<1>1. CASE Quiet
  <2>1. Dispatched' = Dispatched
    BY <1>1, QuietStutters DEF Quiet
  <2> QED
    BY <1>1, <2>1 DEF Quiet, Promises!vars, Dispatched
<1>2. ASSUME NEW c \in Checkpoints, NEW status \in ResultTerminal, Decides(c, status)
      PROVE  Promises!Next
  BY <1>2, DecidePromised DEF Promises!Next, ResultTerminal
<1>3. ASSUME NEW c \in Checkpoints, NEW a \in Attempts, Spawns(c, a)
      PROVE  Promises!Next
  BY <1>3, SpawnPromised DEF Promises!Next
<1>4. CASE Promote
  BY <1>4, PromotePromised DEF Promises!Next
<1>5. CASE WriteTerminal
  BY <1>5, ClosePromised DEF Promises!Next
<1> QED
  BY <1>1, <1>2, <1>3, <1>4, <1>5, StepIs

\* Whatever supervisors, workers and failures take part, a reader of the buckets sees
\* the behaviour of EvalVerdicts: attempts in order and none after an acceptance, one
\* verdict each, none accepted after the promotion, the lowest acceptance promoted for
\* good, and the run closed with every verdict it asked for.
THEOREM Implements == Spec => KeepsPromises
<1> QED
  BY InitPromised, StepPromised, Inductive, PTL DEF Spec, KeepsPromises, Promises!Spec
=============================================================================
