---------------------- MODULE LearnerSupervision_proofs ----------------------
(***************************************************************************)
(* Proofs about LearnerSupervision, for any process ids, outcomes and      *)
(* number of attempts, tasks and faults.  The inductive invariant says     *)
(* where the supervisor is, why a stop flag may be set, and what a         *)
(* document in the run directory can be taken for.                         *)
(***************************************************************************)
EXTENDS LearnerSupervision, WellFoundedInduction, TLAPS

USE SupervisionAssumption

\* What a stop flag that no metric condition set stands for.
Asked == canceled \/ closed \/ early # None \/ lease = "lost" \/ failure # None

\* The attempt has its outcome from the end of its learner.
Passed == pc \in {"validate", "finish"} \/ (pc = "receipt" /\ failure = None)

(* Where the supervisor is, and what it leaves when it is not.               *)
PlaceOK ==
  /\ pc = "down" <=> status # "running"
  /\ pc \in {"down", "start"} =>
       /\ learner.phase = None /\ early = None /\ failure = None /\ sent = None
       /\ lease = "held" /\ ~canceled /\ ~closed
  /\ learner.phase = None => children = None /\ ended = NoDoc
  /\ pc \in {"finalize", "watch", "wait", "validate", "teardown"} => learner.phase # None
  /\ pc \in {"resolve", "validate", "finish", "receipt"} => ~Alive
  /\ pc \in {"teardown", "failing"} => failure # None
  /\ sent # None => ~Alive
  /\ pc = "finalize" => closed \/ early # None

(* An attempt that ends well kept its lease, and one that knows of no early   *)
(* stop then has neither a decision nor a receipt of one, of any attempt.     *)
EndOK ==
  /\ learner.phase = None /\ failure = None => lease = "held"
  /\ pc \in {"finish", "receipt"} /\ failure = None =>
       lease = "held" /\ ended.reason # "failed"
  /\ Passed /\ early = None =>
       /\ decision[attempt] = None
       /\ \A a \in Attempts : a <= attempt => stopReceipt[a] = None

(* A terminal reason has its cause: a decision that is on disk, or a stop     *)
(* that this supervisor remembers why it asked for.                           *)
ReasonOK(reason) ==
  /\ reason \in Outcomes => decision[attempt] # None
  /\ reason = "external_signal" => Asked

LearnerOK ==
  learner.phase # None =>
    /\ learner.decided # None => learner.decided = decision[attempt]
    /\ learner.flag /\ learner.decided = None => Asked
    /\ ReasonOK(learner.reason)
    /\ resultDoc # NoDoc => resultDoc.by = tasks /\ ReasonOK(resultDoc.reason)

EndedOK ==
  /\ resultDoc.reason # "ready" /\ ended.reason # "ready"
  /\ ended # NoDoc => ended.by = tasks /\ ReasonOK(ended.reason)

ReceiptOK ==
  /\ status # "exited" => receipt[attempt] = NoReceipt
  /\ \A b \in Attempts : b > attempt => receipt[b] = NoReceipt

Receipts == ReceiptOK /\ EarlyStopStands /\ OwnCapIsReached

IInv ==
  /\ TypeOK /\ PlaceOK /\ EndOK /\ LearnerOK /\ EndedOK
  /\ GroupIsTornDown /\ Receipts

-----------------------------------------------------------------------------
(* The operators *)

LEMMA NamesAre ==
  /\ MaxAttempts \in Nat /\ MaxAttempts >= 1 /\ MaxTasks \in Nat /\ MaxFaults \in Nat
  /\ None \notin Outcomes /\ "external_signal" \notin Outcomes /\ "ready" \notin Outcomes
  /\ "failed" \notin Outcomes /\ "resource_exhaustion" \notin Outcomes
  /\ Outcomes \subseteq Reasons /\ Attempts \subseteq Nat /\ 1 \in Attempts
BY DEF None, Reasons, Attempts

LEMMA NothingIs ==
  /\ NoDoc \in Docs /\ NoDoc.reason = None
  /\ NoLearner \in Learners /\ NoLearner.phase = None
  /\ NoReceipt.reason = None /\ NoReceipt.learner = None
  /\ NoReceipt \in [state : States, reason : ReceiptReasons,
                    learner : Reasons \cup {None, "ready"}]
BY NamesAre DEF NoDoc, Docs, NoLearner, Learners, NoReceipt, States, ReceiptReasons, Handling,
   Reasons, None

LEMMA GoneIs ==
  ASSUME learner \in Learners, NEW code \in {"ok", "error", "signal"}
  PROVE  /\ Gone(code) \in Learners /\ Gone(code).phase = "gone"
         /\ Gone(code).flag = learner.flag /\ Gone(code).decided = learner.decided
         /\ Gone(code).reason = learner.reason
BY DEF Gone, Learners

\* A stop request ends the learner, sets its flag or does nothing.
StopsLearner ==
  /\ learner' \in Learners
  /\ learner'.phase = None <=> learner.phase = None
  /\ Alive' => Alive
  /\ learner'.decided = learner.decided /\ learner'.reason = learner.reason

LEMMA StopIs ==
  ASSUME learner \in Learners, RequestStop
  PROVE  StopsLearner
<1> DEFINE flagged == [learner EXCEPT !.flag = TRUE]
<1>1. learner' \in {Gone("signal"), learner}
      \/ (learner' = flagged /\ learner.phase \in Handling)
  BY DEF RequestStop, AfterStop
<1>2. /\ flagged \in Learners /\ flagged.phase = learner.phase
      /\ flagged.decided = learner.decided /\ flagged.reason = learner.reason
  BY DEF Learners
<1>3. learner' = Gone("signal") => learner.phase # None
  <2>1. None \notin {"boot", "written"} \cup Handling /\ Gone("signal").phase = "gone"
    BY GoneIs DEF None, Handling
  <2> QED
    BY <2>1 DEF RequestStop, AfterStop, Handling, None
<1>4. "gone" \notin {"boot", "written", None} \cup Handling
  BY DEF None, Handling
<1> HIDE DEF flagged
<1> QED
  BY <1>1, <1>2, <1>3, <1>4, GoneIs DEF StopsLearner, Alive

\* Some attempts have a latest one.
LEMMA LatestIs ==
  ASSUME NEW S \in SUBSET Attempts, S # {}
  PROVE  \E b \in S : \A c \in S : c <= b
<1> DEFINE Less == {p \in Nat \X Nat : p[1] < p[2]}
           Above == {n \in Nat : \A b \in S : b <= n}
<1>1. S \subseteq Nat /\ MaxAttempts \in Above
  BY NamesAre DEF Attempts
<1>2. PICK m \in Above : \A n \in Above : <<n, m>> \notin Less
  <2>1. Above \subseteq Nat /\ Above # {}
    BY <1>1
  <2>2. IsWellFoundedOn(Less, Nat)
    BY NatLessThanWellFounded DEF OpToRel
  <2> HIDE DEF Above
  <2> QED
    BY <2>1, <2>2, WFMin, Zenon
<1>3. m \in S
  <2> SUFFICES ASSUME m \notin S
               PROVE  FALSE
    OBVIOUS
  <2>1. PICK b \in S : TRUE
    OBVIOUS
  <2>2. m \in Nat /\ b \in Nat /\ b <= m /\ b # m
    BY <1>1, <2>1
  <2>3. m - 1 \in Nat
    BY <2>2
  <2>4. m - 1 \in Above
    BY <1>1, <2>2, <2>3
  <2>5. <<m - 1, m>> \in Less
    BY <2>2, <2>3
  <2> HIDE DEF Less, Above
  <2> QED
    BY <1>2, <2>4, <2>5
<1> QED
  BY <1>3

\* A stop that is known is the receipt of this attempt or of an earlier one, and
\* there is one unless none of those attempts has a receipt.
LEMMA KnownIs ==
  ASSUME TypeOK
  PROVE  /\ KnownStop \in Outcomes \cup {None}
         /\ KnownStop = None => \A a \in Attempts : a <= attempt => stopReceipt[a] = None
<1> DEFINE S == Prior(attempt)
           latest == CHOOSE b \in S : \A c \in S : c <= b
<1>1. S \in SUBSET Attempts /\ \A b \in S : stopReceipt[b] # None
  BY DEF Prior
<1>2. CASE stopReceipt[attempt] # None
  BY <1>2 DEF KnownStop, TypeOK
<1>3. CASE stopReceipt[attempt] = None /\ S = {}
  <2>1. KnownStop = None
    BY <1>3 DEF KnownStop
  <2>2. \A a \in Attempts : a <= attempt => a < attempt \/ a = attempt
    BY NamesAre DEF TypeOK
  <2> QED
    BY <1>3, <2>1, <2>2 DEF Prior
<1>4. CASE stopReceipt[attempt] = None /\ S # {}
  <2>1. KnownStop = stopReceipt[latest]
    BY <1>4 DEF KnownStop
  <2> HIDE DEF S
  <2>2. latest \in S
    BY <1>1, <1>4, LatestIs
  <2> HIDE DEF latest
  <2> QED
    BY <1>1, <2>1, <2>2 DEF TypeOK
<1> QED
  BY <1>2, <1>3, <1>4

-----------------------------------------------------------------------------
(* What a step keeps *)

LEMMA ReceiptsStay ==
  ASSUME IInv, UNCHANGED <<receipt, stopReceipt, attempt>>,
         status' # "exited" => status # "exited"
  PROVE  Receipts'
BY DEF IInv, Receipts, ReceiptOK, EarlyStopStands, OwnCapIsReached

\* Where the supervisor is while its learner lives.
LEMMA AliveIs ==
  ASSUME IInv, Alive
  PROVE  /\ pc \in {"finalize", "watch", "wait", "teardown"} /\ sent = None
         /\ learner.phase # None /\ status = "running" /\ ~Passed
<1>1. learner.phase # None
  BY DEF Alive, Handling, None
<1>2. pc \in Positions /\ status \in {"queued", "running", "exited"}
  BY DEF IInv, TypeOK
<1> QED
  BY <1>1, <1>2 DEF IInv, PlaceOK, GroupIsTornDown, Passed, Positions

BySelf ==
  /\ UNCHANGED <<durable, task, pc, memory>>
  /\ learner' \in Learners /\ learner'.phase # None
  /\ children' \in {None, "plain", "deaf", "stuck"}
  /\ readyDoc' \in Docs /\ resultDoc' \in Docs /\ resultDoc'.reason # "ready"
  /\ decision' \in [Attempts -> Outcomes \cup {None}]
  /\ decision[attempt] # None => decision'[attempt] # None
  /\ faults' \in 0..MaxFaults

\* A step of the learner can disturb no more than LearnerOK.
LEMMA BySelfKeeps ==
  ASSUME IInv, Alive, BySelf, LearnerOK'
  PROVE  IInv'
<1>1. UNCHANGED <<cancelRequest, accepted, stepPublic, finalPublic, stopReceipt, receipt,
                  attempt, mode, status, tasks, pc, canceled, closed, early, lease,
                  failure, sent, ended>>
  BY DEF BySelf, durable, task, memory
<1>2. TypeOK'
  BY <1>1 DEF IInv, TypeOK, BySelf
<1>3. PlaceOK'
  BY <1>1, AliveIs DEF IInv, PlaceOK, BySelf
<1>4. EndOK'
  BY <1>1, AliveIs DEF IInv, EndOK, BySelf, Passed
<1>5. EndedOK'
  BY <1>1 DEF IInv, EndedOK, ReasonOK, Asked, BySelf
<1>6. GroupIsTornDown'
  BY <1>1, AliveIs DEF GroupIsTornDown
<1>7. Receipts'
  BY <1>1, ReceiptsStay
<1> QED
  BY <1>2, <1>3, <1>4, <1>5, <1>6, <1>7 DEF IInv

-----------------------------------------------------------------------------
(* The learner *)

LEMMA FaultIs ==
  ASSUME TypeOK, Fault
  PROVE  faults' \in 0..MaxFaults
BY DEF TypeOK, Fault

LEMMA DocIs ==
  ASSUME IInv, NEW r \in Reasons \cup {None, "ready"}
  PROVE  Doc(r) \in Docs /\ Doc(r).reason = r /\ Doc(r).by = tasks
<1>1. attempt \in 0..MaxAttempts /\ learner.pid \in Pids \cup {0} /\ tasks \in 0..MaxTasks
  BY NamesAre DEF IInv, TypeOK, Learners, Attempts
<1> QED
  BY <1>1 DEF Doc, Docs

LEMMA BootsKeeps ==
  ASSUME IInv, LearnerBoots
  PROVE  IInv'
<1> DEFINE next == [learner EXCEPT !.phase = "setup"]
<1>1. Alive
  BY DEF LearnerBoots, Runs, Alive
<1>2. /\ next \in Learners /\ next.phase = "setup" /\ next.flag = learner.flag
      /\ next.decided = learner.decided /\ next.reason = learner.reason
  BY DEF IInv, TypeOK, Learners, Handling
<1>3. learner' = next
  BY DEF LearnerBoots
<1> HIDE DEF next
<1>4. BySelf
  BY <1>2, <1>3, NothingIs DEF LearnerBoots, LearnerUnchanged, BySelf, IInv, TypeOK, None
<1>5. LearnerOK'
  BY <1>1, <1>2, <1>3, AliveIs DEF IInv, LearnerOK, LearnerBoots, LearnerUnchanged, ReasonOK,
     Asked, task, memory
<1> QED
  BY <1>1, <1>4, <1>5, BySelfKeeps

LEMMA ReadyKeeps ==
  ASSUME IInv, LearnerReady
  PROVE  IInv'
<1> DEFINE next == [learner EXCEPT !.phase = "training"]
<1>1. Alive
  BY DEF LearnerReady, Runs, Alive, Handling
<1>2. /\ next \in Learners /\ next.phase = "training" /\ next.flag = learner.flag
      /\ next.decided = learner.decided /\ next.reason = learner.reason
  BY DEF IInv, TypeOK, Learners, Handling
<1>3. learner' = next
  BY DEF LearnerReady
<1> HIDE DEF next
<1>4. BySelf
  BY <1>2, <1>3, DocIs DEF LearnerReady, LearnerUnchanged, BySelf, IInv, TypeOK, EndedOK, None
<1>5. LearnerOK'
  BY <1>1, <1>2, <1>3, AliveIs DEF IInv, LearnerOK, LearnerReady, LearnerUnchanged, ReasonOK,
     Asked, task, memory
<1> QED
  BY <1>1, <1>4, <1>5, BySelfKeeps

LEMMA DecidesKeeps ==
  ASSUME IInv, NEW o \in Outcomes, LearnerDecides(o)
  PROVE  IInv'
<1> DEFINE next == [learner EXCEPT !.flag = TRUE, !.decided = o]
<1>1. Alive
  BY DEF LearnerDecides, Runs, Alive, Handling
<1>2. /\ next \in Learners /\ next.phase = learner.phase /\ next.decided = o
      /\ next.reason = learner.reason
  BY DEF IInv, TypeOK, Learners
<1>3. learner' = next
  BY DEF LearnerDecides
<1> HIDE DEF next
<1>4. decision' \in [Attempts -> Outcomes \cup {None}] /\ decision'[attempt] = o /\ o # None
  BY NamesAre DEF LearnerDecides, IInv, TypeOK
<1>5. BySelf
  BY <1>1, <1>2, <1>3, <1>4, AliveIs DEF LearnerDecides, BySelf, IInv, TypeOK, EndedOK, docs
<1>6. LearnerOK'
  BY <1>1, <1>2, <1>3, <1>4, AliveIs DEF IInv, LearnerOK, LearnerDecides, ReasonOK,
     Asked, task, memory, docs
<1> QED
  BY <1>1, <1>5, <1>6, BySelfKeeps

\* The reason the learner takes has its cause.
LEMMA TerminalReasonIs ==
  ASSUME IInv, learner.phase # None
  PROVE  TerminalReason \in Reasons /\ ReasonOK(TerminalReason)
<1>1. CASE learner.decided # None
  <2>1. learner.decided \in Outcomes
    BY <1>1 DEF IInv, TypeOK, Learners
  <2> QED
    BY <1>1, <2>1, NamesAre DEF IInv, LearnerOK, TerminalReason, ReasonOK
<1>2. CASE learner.decided = None /\ learner.flag
  BY <1>2, NamesAre DEF IInv, LearnerOK, TerminalReason, ReasonOK, Reasons
<1>3. CASE learner.decided = None /\ ~learner.flag
  BY <1>3, NamesAre DEF TerminalReason, ReasonOK, Reasons
<1> QED
  BY <1>1, <1>2, <1>3

LEMMA StopsKeeps ==
  ASSUME IInv, LearnerStops
  PROVE  IInv'
<1> DEFINE next == [learner EXCEPT !.phase = "saving", !.reason = TerminalReason]
<1>1. Alive
  BY DEF LearnerStops, Runs, Alive, Handling
<1>2. learner.phase # None
  BY <1>1, AliveIs
<1>3. TerminalReason \in Reasons /\ ReasonOK(TerminalReason)
  BY <1>2, TerminalReasonIs
<1>4. /\ next \in Learners /\ next.phase = "saving" /\ next.flag = learner.flag
      /\ next.decided = learner.decided /\ next.reason = TerminalReason
  BY <1>3 DEF IInv, TypeOK, Learners, Handling
<1>5. learner' = next
  BY DEF LearnerStops
<1> HIDE DEF next
<1>6. BySelf
  BY <1>4, <1>5 DEF LearnerStops, LearnerUnchanged, BySelf, IInv, TypeOK, EndedOK, docs, None
<1>7. LearnerOK'
  BY <1>2, <1>3, <1>4, <1>5 DEF IInv, LearnerOK, LearnerStops, LearnerUnchanged, ReasonOK,
     Asked, task, memory, docs
<1> QED
  BY <1>1, <1>6, <1>7, BySelfKeeps

LEMMA SavesKeeps ==
  ASSUME IInv, LearnerSaves
  PROVE  IInv'
<1> DEFINE next == [learner EXCEPT !.phase = "saved", !.saved = TRUE]
<1>1. Alive
  BY DEF LearnerSaves, Runs, Alive, Handling
<1>2. /\ next \in Learners /\ next.phase = "saved" /\ next.flag = learner.flag
      /\ next.decided = learner.decided /\ next.reason = learner.reason
  BY DEF IInv, TypeOK, Learners, Handling
<1>3. learner' = next
  BY DEF LearnerSaves
<1> HIDE DEF next
<1>4. BySelf
  BY <1>2, <1>3 DEF LearnerSaves, LearnerUnchanged, BySelf, IInv, TypeOK, EndedOK, docs, None
<1>5. LearnerOK'
  BY <1>1, <1>2, <1>3, AliveIs DEF IInv, LearnerOK, LearnerSaves, LearnerUnchanged, ReasonOK,
     Asked, task, memory, docs
<1> QED
  BY <1>1, <1>4, <1>5, BySelfKeeps

LEMMA WritesKeeps ==
  ASSUME IInv, LearnerWrites
  PROVE  IInv'
<1> DEFINE next == [learner EXCEPT !.phase = "written"]
<1>1. Alive
  BY DEF LearnerWrites, Runs, Alive, Handling
<1>2. /\ next \in Learners /\ next.phase = "written" /\ next.flag = learner.flag
      /\ next.decided = learner.decided /\ next.reason = learner.reason
  BY DEF IInv, TypeOK, Learners
<1>3. learner' = next /\ resultDoc' = Doc(learner.reason)
  BY DEF LearnerWrites
<1>4. learner.reason \in Reasons \cup {None}
  BY DEF IInv, TypeOK, Learners
<1>5. /\ Doc(learner.reason) \in Docs /\ Doc(learner.reason).by = tasks
      /\ Doc(learner.reason).reason = learner.reason
  BY <1>4, DocIs
<1>6. learner.reason # "ready"
  BY <1>4, NamesAre DEF Reasons, None
<1> HIDE DEF next
<1>7. BySelf
  BY <1>2, <1>3, <1>5, <1>6 DEF LearnerWrites, LearnerUnchanged, BySelf, IInv, TypeOK, None
<1>8. LearnerOK'
  BY <1>1, <1>2, <1>3, <1>5, AliveIs DEF IInv, LearnerOK, LearnerWrites, LearnerUnchanged,
     ReasonOK, Asked, task, memory
<1> QED
  BY <1>1, <1>7, <1>8, BySelfKeeps

\* The learner is gone and leaves the run directory as it is.
LEMMA GoneKeeps ==
  ASSUME IInv, Alive, NEW code \in {"ok", "error", "signal"}, learner' = Gone(code),
         LearnerUnchanged, UNCHANGED docs, faults' \in 0..MaxFaults
  PROVE  IInv'
<1>1. /\ Gone(code) \in Learners /\ Gone(code).phase = "gone"
      /\ Gone(code).flag = learner.flag /\ Gone(code).decided = learner.decided
      /\ Gone(code).reason = learner.reason
  BY GoneIs DEF IInv, TypeOK
<1>2. BySelf
  BY <1>1 DEF LearnerUnchanged, BySelf, IInv, TypeOK, EndedOK, docs, None
<1>3. LearnerOK'
  BY <1>1, AliveIs DEF IInv, LearnerOK, LearnerUnchanged, ReasonOK, Asked, task, memory, docs
<1> QED
  BY <1>2, <1>3, BySelfKeeps

LEMMA ExitsKeeps ==
  ASSUME IInv, LearnerExits
  PROVE  IInv'
<1> DEFINE code == IF resultDoc.reason = "failed" THEN "error" ELSE "ok"
<1>1. learner' = Gone(code) /\ code \in {"ok", "error", "signal"} /\ Alive
  BY DEF LearnerExits, Runs, Alive
<1>2. LearnerUnchanged /\ UNCHANGED docs /\ faults' \in 0..MaxFaults
  BY DEF LearnerExits, IInv, TypeOK
<1> HIDE DEF code
<1> QED
  BY <1>1, <1>2, GoneKeeps

LEMMA DiesKeeps ==
  ASSUME IInv, LearnerDies
  PROVE  IInv'
<1>1. faults' \in 0..MaxFaults
  BY FaultIs DEF LearnerDies, IInv
<1> QED
  BY <1>1, GoneKeeps DEF LearnerDies

LEMMA FailsKeeps ==
  ASSUME IInv, LearnerFails
  PROVE  IInv'
<1> DEFINE next == [learner EXCEPT !.phase = "written", !.reason = "failed"]
<1>1. Alive /\ faults' \in 0..MaxFaults
  BY FaultIs DEF LearnerFails, Alive, IInv
<1>2. CASE learner.phase = "boot"
  BY <1>1, <1>2, GoneKeeps DEF LearnerFails, docs
<1>3. CASE learner.phase # "boot"
  <2>1. /\ next \in Learners /\ next.phase = "written" /\ next.flag = learner.flag
        /\ next.decided = learner.decided /\ next.reason = "failed"
    BY DEF IInv, TypeOK, Learners, Reasons
  <2>2. learner' = next /\ resultDoc' = Doc("failed")
    BY <1>3 DEF LearnerFails
  <2>3. /\ Doc("failed") \in Docs /\ Doc("failed").by = tasks
        /\ Doc("failed").reason = "failed"
    BY DocIs DEF Reasons
  <2> HIDE DEF next
  <2>4. BySelf
    BY <1>1, <2>1, <2>2, <2>3 DEF LearnerFails, LearnerUnchanged, BySelf, IInv, TypeOK, None
  <2>5. LearnerOK'
    BY <1>1, <2>1, <2>2, <2>3, AliveIs, NamesAre DEF IInv, LearnerOK, LearnerFails,
       LearnerUnchanged, ReasonOK, Asked, task, memory
  <2> QED
    BY <1>1, <2>4, <2>5, BySelfKeeps
<1> QED
  BY <1>2, <1>3

LEMMA HangsKeeps ==
  ASSUME IInv, LearnerHangs
  PROVE  IInv'
<1> DEFINE next == [learner EXCEPT !.hung = TRUE]
<1>1. Alive /\ faults' \in 0..MaxFaults
  BY FaultIs DEF LearnerHangs, IInv
<1>2. /\ next \in Learners /\ next.phase = learner.phase /\ next.flag = learner.flag
      /\ next.decided = learner.decided /\ next.reason = learner.reason
  BY DEF IInv, TypeOK, Learners
<1>3. learner' = next
  BY DEF LearnerHangs
<1> HIDE DEF next
<1>4. BySelf
  BY <1>1, <1>2, <1>3, AliveIs DEF LearnerHangs, LearnerUnchanged, BySelf, IInv, TypeOK,
     EndedOK, docs
<1>5. LearnerOK'
  BY <1>1, <1>2, <1>3, AliveIs DEF IInv, LearnerOK, LearnerHangs, LearnerUnchanged, ReasonOK,
     Asked, task, memory, docs
<1> QED
  BY <1>1, <1>4, <1>5, BySelfKeeps

LEMMA LingerKeeps ==
  ASSUME IInv, ChildrenLinger
  PROVE  IInv'
<1>1. Alive /\ faults' \in 0..MaxFaults
  BY FaultIs DEF ChildrenLinger, IInv
<1>2. BySelf
  BY <1>1, AliveIs DEF ChildrenLinger, BySelf, IInv, TypeOK, EndedOK, docs, disk
<1>3. LearnerOK'
  BY DEF IInv, LearnerOK, ChildrenLinger, ReasonOK, Asked, task, memory, docs, disk
<1> QED
  BY <1>1, <1>2, <1>3, BySelfKeeps

-----------------------------------------------------------------------------
(* The supervisor in its loop *)

LEMMA CausesAre ==
  /\ None \notin Causes /\ Operational \subseteq Causes
  /\ "supervisor_failure" \in Causes /\ "lease_lost" \in Causes
  /\ ObservedFailures \subseteq Operational
  /\ ExitFailure # None => ExitFailure \in Causes
BY DEF None, Causes, Operational, ObservedFailures, ExitFailure

LEMMA RaiseIs ==
  ASSUME TypeOK, NEW cause \in Causes, Raise(cause)
  PROVE  /\ StopsLearner
         /\ failure' = cause /\ failure' # None
         /\ pc' = IF learner.phase = None THEN "failing" ELSE "teardown"
<1>1. CASE learner.phase = None
  BY <1>1, CausesAre DEF Raise, StopsLearner, Alive, TypeOK
<1>2. CASE learner.phase # None
  BY <1>2, CausesAre, StopIs DEF Raise, TypeOK
<1> QED
  BY <1>1, <1>2

\* What the supervisor does to its learner leaves each reason its cause, as long
\* as the supervisor remembers why it asks for a stop.
LEMMA RemembersKeeps ==
  ASSUME IInv, UNCHANGED <<disk, attempt, tasks>>, StopsLearner, Asked => Asked',
         learner'.flag = learner.flag \/ Asked',
         ended' = ended \/ (ended' = resultDoc /\ learner.phase # None)
  PROVE  LearnerOK' /\ EndedOK'
<1>1. UNCHANGED <<readyDoc, resultDoc, decision>>
  BY DEF disk, docs
<1>2. \A r : ReasonOK(r) => ReasonOK(r)'
  BY <1>1 DEF ReasonOK
<1>3. LearnerOK'
  BY <1>1 DEF IInv, LearnerOK, StopsLearner, ReasonOK
<1>4. EndedOK'
  BY <1>1 DEF IInv, LearnerOK, EndedOK, ReasonOK
<1> QED
  BY <1>3, <1>4

LEMMA FinalizeOnlyKeeps ==
  ASSUME IInv, RequestFinalizeOnly
  PROVE  IInv'
<1>1. StopsLearner
  BY StopIs DEF RequestFinalizeOnly, IInv, TypeOK
<1>2. Asked'
  BY DEF RequestFinalizeOnly, Asked, IInv, PlaceOK, memory
<1>3. LearnerOK' /\ EndedOK'
  BY <1>1, <1>2, RemembersKeeps DEF RequestFinalizeOnly, SupervisorUnchanged, task, memory
<1>4. TypeOK'
  BY <1>1 DEF RequestFinalizeOnly, SupervisorUnchanged, durable, task, memory, disk, docs, IInv,
     TypeOK, StopsLearner, Positions
<1>5. PlaceOK'
  BY <1>1 DEF RequestFinalizeOnly, SupervisorUnchanged, task, memory, IInv, PlaceOK, StopsLearner
<1>6. EndOK' /\ GroupIsTornDown'
  BY <1>1 DEF RequestFinalizeOnly, SupervisorUnchanged, durable, task, memory, disk, IInv, EndOK,
     StopsLearner, Passed, GroupIsTornDown
<1>7. Receipts'
  BY ReceiptsStay DEF RequestFinalizeOnly, SupervisorUnchanged, durable, task
<1> QED
  BY <1>3, <1>4, <1>5, <1>6, <1>7 DEF IInv

LEMMA CancelKeeps ==
  ASSUME IInv, ObserveCancel
  PROVE  IInv'
<1>1. StopsLearner
  BY StopIs DEF ObserveCancel, IInv, TypeOK
<1>2. Asked'
  BY DEF ObserveCancel, Asked
<1>3. LearnerOK' /\ EndedOK'
  BY <1>1, <1>2, RemembersKeeps DEF ObserveCancel, SupervisorUnchanged, task
<1>4. TypeOK'
  BY <1>1 DEF ObserveCancel, SupervisorUnchanged, durable, task, disk, docs, IInv,
     TypeOK, StopsLearner
<1>5. PlaceOK'
  BY <1>1 DEF ObserveCancel, SupervisorUnchanged, task, IInv, PlaceOK, StopsLearner
<1>6. EndOK' /\ GroupIsTornDown'
  BY <1>1 DEF ObserveCancel, SupervisorUnchanged, durable, task, disk, IInv, EndOK,
     StopsLearner, Passed, GroupIsTornDown
<1>7. Receipts'
  BY ReceiptsStay DEF ObserveCancel, SupervisorUnchanged, durable, task
<1> QED
  BY <1>3, <1>4, <1>5, <1>6, <1>7 DEF IInv

LEMMA SignaledKeeps ==
  ASSUME IInv, Signaled
  PROVE  IInv'
<1>1. StopsLearner
  BY StopIs DEF Signaled, IInv, TypeOK
<1>2. Asked'
  BY DEF Signaled, Asked
<1>3. LearnerOK' /\ EndedOK'
  BY <1>1, <1>2, RemembersKeeps DEF Signaled, SupervisorUnchanged, task
<1>4. TypeOK'
  BY <1>1 DEF Signaled, SupervisorUnchanged, durable, task, disk, docs, IInv,
     TypeOK, StopsLearner
<1>5. PlaceOK'
  BY <1>1 DEF Signaled, SupervisorUnchanged, task, IInv, PlaceOK, StopsLearner
<1>6. EndOK'
  BY <1>1 DEF Signaled, SupervisorUnchanged, durable, task, disk, IInv, EndOK,
     StopsLearner, Passed
<1>7. GroupIsTornDown'
  BY <1>1 DEF Signaled, IInv, StopsLearner, GroupIsTornDown, GroupAlive
<1>8. Receipts'
  BY ReceiptsStay DEF Signaled, SupervisorUnchanged, durable, task
<1> QED
  BY <1>3, <1>4, <1>5, <1>6, <1>7, <1>8 DEF IInv

LEMMA AcceptanceKeeps ==
  ASSUME IInv, ObserveAcceptance
  PROVE  IInv'
<1>1. StopsLearner
  BY StopIs DEF ObserveAcceptance, IInv, TypeOK
<1>2. Asked'
  BY DEF ObserveAcceptance, Asked
<1>3. LearnerOK' /\ EndedOK'
  BY <1>1, <1>2, RemembersKeeps DEF ObserveAcceptance, SupervisorUnchanged, task
<1>4. TypeOK'
  BY <1>1 DEF ObserveAcceptance, SupervisorUnchanged, durable, task, disk, docs, IInv,
     TypeOK, StopsLearner
<1>5. PlaceOK'
  BY <1>1 DEF ObserveAcceptance, SupervisorUnchanged, task, IInv, PlaceOK, StopsLearner
<1>6. EndOK'
  BY <1>1 DEF ObserveAcceptance, SupervisorUnchanged, durable, task, disk, IInv, EndOK,
     StopsLearner, Passed
<1>7. GroupIsTornDown'
  BY <1>1 DEF ObserveAcceptance, IInv, GroupIsTornDown, StopsLearner, GroupAlive
<1>8. Receipts'
  BY ReceiptsStay DEF ObserveAcceptance, SupervisorUnchanged, durable, task
<1> QED
  BY <1>3, <1>4, <1>5, <1>6, <1>7, <1>8 DEF IInv

LEMMA PublishKeeps ==
  ASSUME IInv, PublishStep
  PROVE  IInv'
<1>1. /\ UNCHANGED <<cancelRequest, accepted, finalPublic, stopReceipt, receipt, attempt, mode,
                     status, tasks, pc, canceled, closed, early, lease, failure, sent, ended,
                     learner, children, readyDoc, resultDoc, decision, faults>>
      /\ stepPublic' \in BOOLEAN
  BY DEF PublishStep, task, memory, group, disk, docs
<1>2. TypeOK'
  BY <1>1 DEF IInv, TypeOK
<1>3. PlaceOK' /\ EndOK' /\ GroupIsTornDown'
  BY <1>1 DEF IInv, PlaceOK, EndOK, Passed, Alive, GroupAlive, GroupIsTornDown
<1>4. LearnerOK' /\ EndedOK'
  BY <1>1 DEF IInv, LearnerOK, EndedOK, ReasonOK, Asked
<1>5. Receipts'
  BY <1>1, ReceiptsStay
<1> QED
  BY <1>2, <1>3, <1>4, <1>5 DEF IInv

\* What an exception in run() leaves of the invariant.
LEMMA RaiseKeeps ==
  ASSUME IInv, NEW cause \in Causes, Raise(cause),
         pc \notin {"down", "start"}, status = "running",
         UNCHANGED <<task, disk, canceled, closed, early, sent, children, receipt, stopReceipt>>,
         ended' = ended \/ (ended' = resultDoc /\ learner.phase # None),
         cancelRequest' \subseteq Attempts,
         accepted' \in BOOLEAN, stepPublic' \in BOOLEAN, finalPublic' \in BOOLEAN,
         lease' \in {"held", "lost"}, faults' \in 0..MaxFaults
  PROVE  IInv'
<1>1. /\ StopsLearner /\ failure' \in Causes /\ failure' # None
      /\ pc' = IF learner.phase = None THEN "failing" ELSE "teardown"
  BY RaiseIs DEF IInv
<1>2. Asked' /\ ~Passed'
  BY <1>1 DEF Asked, Passed
<1>3. LearnerOK' /\ EndedOK'
  BY <1>1, <1>2, RemembersKeeps DEF task
<1>4. ended' \in Docs
  BY DEF IInv, TypeOK
<1>5. TypeOK'
  BY <1>1, <1>4 DEF task, disk, docs, IInv, TypeOK, StopsLearner, Positions
<1>6. PlaceOK'
  BY <1>1 DEF task, IInv, PlaceOK, StopsLearner
<1>7. EndOK'
  BY <1>1, <1>2 DEF IInv, EndOK
<1>8. GroupIsTornDown'
  <2>1. CASE learner.phase # None
    BY <1>1, <2>1 DEF GroupIsTornDown
  <2>2. CASE learner.phase = None
    <3>1. ~Alive /\ children = None
      BY <2>2 DEF Alive, Handling, None, IInv, PlaceOK
    <3> QED
      BY <1>1, <3>1 DEF StopsLearner, GroupIsTornDown, GroupAlive
  <2> QED
    BY <2>1, <2>2
<1>9. Receipts'
  BY ReceiptsStay DEF task
<1> QED
  BY <1>3, <1>5, <1>6, <1>7, <1>8, <1>9 DEF IInv

LEMMA ObserveKeeps ==
  ASSUME IInv, Observe
  PROVE  IInv'
<1>1. PICK f \in ObservedFailures : Raise(f)
  BY DEF Observe
<1>2. f \in Causes
  BY CausesAre
<1>3. learner.phase # None /\ status = "running" /\ pc = "watch"
  BY AliveIs DEF Observe
<1>4. ended' = ended \/ ended' = resultDoc
  BY DEF Observe
<1>5. /\ UNCHANGED <<task, disk, canceled, closed, early, sent, children, receipt, stopReceipt>>
      /\ UNCHANGED <<cancelRequest, accepted, stepPublic, finalPublic, lease, faults>>
  BY DEF Observe, SupervisorUnchanged, durable
<1>6. /\ cancelRequest \subseteq Attempts /\ accepted \in BOOLEAN /\ stepPublic \in BOOLEAN
      /\ finalPublic \in BOOLEAN /\ lease \in {"held", "lost"} /\ faults \in 0..MaxFaults
  BY DEF IInv, TypeOK
<1> QED
  BY <1>1, <1>2, <1>3, <1>4, <1>5, <1>6, RaiseKeeps

LEMMA IterationKeeps ==
  ASSUME IInv, IterationRaises
  PROVE  IInv'
<1>1. faults' \in 0..MaxFaults /\ Raise("supervisor_failure") /\ pc \notin {"down", "start"}
  BY FaultIs DEF IterationRaises, IInv
<1>2. status = "running"
  BY DEF IterationRaises, IInv, PlaceOK
<1>3. /\ UNCHANGED <<task, disk, canceled, closed, early, sent, children, receipt, stopReceipt>>
      /\ UNCHANGED <<cancelRequest, accepted, stepPublic, finalPublic, lease, ended>>
  BY DEF IterationRaises, durable
<1>4. /\ cancelRequest \subseteq Attempts /\ accepted \in BOOLEAN /\ stepPublic \in BOOLEAN
      /\ finalPublic \in BOOLEAN /\ lease \in {"held", "lost"}
  BY DEF IInv, TypeOK
<1> QED
  BY <1>1, <1>2, <1>3, <1>4, CausesAre, RaiseKeeps

LEMMA LoseLeaseKeeps ==
  ASSUME IInv, LoseLease
  PROVE  IInv'
<1>1. faults' \in 0..MaxFaults /\ lease' = "lost" /\ pc \notin {"down", "start"}
  BY FaultIs DEF LoseLease, IInv
<1>2. status = "running"
  BY DEF LoseLease, IInv, PlaceOK
<1>3. /\ UNCHANGED <<task, disk, canceled, closed, early, sent, children, receipt, stopReceipt>>
      /\ UNCHANGED <<cancelRequest, accepted, stepPublic, finalPublic, ended>>
  BY DEF LoseLease, durable
<1>4. /\ cancelRequest \subseteq Attempts /\ accepted \in BOOLEAN /\ stepPublic \in BOOLEAN
      /\ finalPublic \in BOOLEAN
  BY DEF IInv, TypeOK
<1>5. CASE pc # "finish"
  <2>1. StopsLearner /\ Asked' /\ UNCHANGED <<pc, failure>>
    BY <1>1, <1>5, StopIs DEF LoseLease, IInv, TypeOK, Asked
  <2>2. LearnerOK' /\ EndedOK'
    BY <1>3, <2>1, RemembersKeeps DEF task
  <2>3. TypeOK'
    BY <1>1, <1>3, <2>1 DEF task, disk, docs, IInv, TypeOK, StopsLearner
  <2>4. PlaceOK' /\ EndOK' /\ GroupIsTornDown'
    BY <1>3, <1>5, <2>1 DEF LoseLease, task, IInv, PlaceOK, StopsLearner, EndOK, Passed,
       GroupIsTornDown
  <2>5. Receipts'
    BY <1>3, ReceiptsStay DEF task
  <2> QED
    BY <2>2, <2>3, <2>4, <2>5 DEF IInv
<1>6. CASE pc = "finish"
  <2>1. Raise("lease_lost")
    BY <1>6 DEF LoseLease
  <2> QED
    BY <1>1, <1>2, <1>3, <1>4, <2>1, CausesAre, RaiseKeeps
<1> QED
  BY <1>5, <1>6

-----------------------------------------------------------------------------
(* The end of the learner *)

\* A supervisor that only moves on: nothing but its place changes.
LEMMA MovesOnKeeps ==
  ASSUME IInv, SupervisorUnchanged, UNCHANGED <<memory, group>>,
         pc \notin {"down", "start"}, pc' \in {"wait", "resolve", "failing"},
         pc' = "wait" => learner.phase # None,
         pc' = "resolve" => ~Alive,
         pc' = "failing" => failure # None /\ ~GroupAlive
  PROVE  IInv'
<1>1. UNCHANGED <<cancelRequest, accepted, stepPublic, finalPublic, stopReceipt, receipt,
                  attempt, mode, status, tasks, canceled, closed, early, lease, failure, sent,
                  ended, learner, children, readyDoc, resultDoc, decision, faults>>
  BY DEF SupervisorUnchanged, durable, task, memory, group, disk, docs
<1>2. TypeOK'
  BY <1>1 DEF IInv, TypeOK, Positions
<1>3. PlaceOK'
  BY <1>1 DEF IInv, PlaceOK, Alive
<1>4. EndOK'
  BY <1>1 DEF IInv, EndOK, Passed
<1>5. GroupIsTornDown'
  BY <1>1 DEF IInv, GroupIsTornDown, GroupAlive, Alive
<1>6. LearnerOK' /\ EndedOK'
  BY <1>1 DEF IInv, LearnerOK, EndedOK, ReasonOK, Asked
<1>7. Receipts'
  BY <1>1, ReceiptsStay
<1> QED
  BY <1>2, <1>3, <1>4, <1>5, <1>6, <1>7 DEF IInv

LEMMA LeaveLoopKeeps ==
  ASSUME IInv, LeaveLoop
  PROVE  IInv'
<1>1. learner.phase # None
  BY DEF LeaveLoop, IInv, PlaceOK
<1> QED
  BY <1>1, MovesOnKeeps DEF LeaveLoop

LEMMA ReapedKeeps ==
  ASSUME IInv, Reaped
  PROVE  IInv'
BY MovesOnKeeps DEF Reaped

LEMMA GroupGoneKeeps ==
  ASSUME IInv, GroupGone
  PROVE  IInv'
<1>1. failure # None
  BY DEF GroupGone, IInv, PlaceOK
<1> QED
  BY <1>1, MovesOnKeeps DEF GroupGone

LEMMA ResolveKeeps ==
  ASSUME IInv, Resolve
  PROVE  IInv'
<1>1. status = "running" /\ ~Alive /\ pc = "resolve"
  BY DEF Resolve, IInv, PlaceOK
<1>2. /\ UNCHANGED <<cancelRequest, accepted, stepPublic, finalPublic, receipt, faults>>
      /\ UNCHANGED <<task, disk, canceled, closed, lease, sent, ended, children>>
  BY DEF Resolve
<1>3. /\ cancelRequest \subseteq Attempts /\ accepted \in BOOLEAN /\ stepPublic \in BOOLEAN
      /\ finalPublic \in BOOLEAN /\ lease \in {"held", "lost"} /\ faults \in 0..MaxFaults
  BY DEF IInv, TypeOK
<1>4. CASE Conflicting
  <2>1. Raise("supervisor_failure") /\ UNCHANGED <<early, stopReceipt>>
    BY <1>4 DEF Resolve
  <2> QED
    BY <1>1, <1>2, <1>3, <2>1, CausesAre, RaiseKeeps
<1>5. CASE ~Conflicting
  <2> DEFINE own == IF decision[attempt] # None THEN decision[attempt] ELSE stopReceipt[attempt]
  <2>1. /\ early' = Resolved /\ UNCHANGED <<failure, learner>>
        /\ stopReceipt' = [stopReceipt EXCEPT ![attempt] = own]
        /\ pc' = IF learner.phase = None THEN "finish" ELSE "validate"
    BY <1>5 DEF Resolve
  <2>2. attempt \in Attempts /\ decision[attempt] \in Outcomes \cup {None}
        /\ stopReceipt \in [Attempts -> Outcomes \cup {None}]
    BY DEF IInv, TypeOK
  <2>3. /\ stopReceipt' \in [Attempts -> Outcomes \cup {None}]
        /\ \A b \in Attempts \ {attempt} : stopReceipt'[b] = stopReceipt[b]
        /\ decision[attempt] = None => stopReceipt'[attempt] = stopReceipt[attempt]
    BY <2>1, <2>2
  <2>4. Resolved \in Outcomes \cup {None}
    BY <2>2, KnownIs DEF Resolved, IInv, TypeOK
  <2>5. Resolved = None =>
          /\ decision[attempt] = None /\ early = None
          /\ \A a \in Attempts : a <= attempt => stopReceipt[a] = None
    BY KnownIs DEF Resolved, IInv
  <2>6. UNCHANGED <<attempt, mode, status, tasks, readyDoc, resultDoc, decision>>
    BY <1>2 DEF task, disk, docs
  <2>7. TypeOK'
    BY <1>2, <2>1, <2>3, <2>4, <2>6 DEF IInv, TypeOK, Positions
  <2>8. PlaceOK' /\ GroupIsTornDown'
    BY <1>1, <1>2, <2>1, <2>6 DEF IInv, PlaceOK, GroupIsTornDown, Alive
  <2>9. learner.phase = None => ended.reason # "failed"
    BY NothingIs DEF IInv, PlaceOK, None
  <2>10. \A a \in Attempts : early' = None /\ a <= attempt => stopReceipt'[a] = None
    BY <2>1, <2>3, <2>5
  <2>11. EndOK'
    BY <1>2, <2>1, <2>5, <2>6, <2>9, <2>10 DEF IInv, EndOK, Passed
  <2>12. Asked => Asked'
    BY <1>2, <2>1, <2>5 DEF Asked
  <2>13. StopsLearner
    BY <2>1 DEF StopsLearner, IInv, TypeOK, Alive
  <2>14. LearnerOK' /\ EndedOK'
    BY <1>2, <2>1, <2>6, <2>12, <2>13, RemembersKeeps
  <2>15. \A b \in Attempts : b >= attempt => receipt[b] = NoReceipt
    <3>1. \A b \in Attempts : b >= attempt => b = attempt \/ b > attempt
      BY <2>2, NamesAre
    <3> QED
      BY <1>1, <3>1 DEF IInv, Receipts, ReceiptOK
  <2>16. EarlyStopStands'
    <3>1. SUFFICES ASSUME NEW a \in Attempts, NEW b \in Attempts, a <= b,
                          stopReceipt'[a] # None
                   PROVE  receipt[b].reason # "training_cap"
      BY <1>2 DEF EarlyStopStands
    <3>2. CASE a = attempt
      BY <2>15, <3>1, <3>2, NothingIs DEF None
    <3>3. CASE a # attempt
      BY <2>3, <3>1, <3>3 DEF IInv, Receipts, EarlyStopStands
    <3> QED
      BY <3>2, <3>3
  <2>17. Receipts'
    BY <1>2, <2>6, <2>16 DEF IInv, Receipts, ReceiptOK, OwnCapIsReached
  <2> QED
    BY <2>7, <2>8, <2>11, <2>14, <2>17 DEF IInv
<1> QED
  BY <1>4, <1>5

LEMMA ValidateKeeps ==
  ASSUME IInv, Validate
  PROVE  IInv'
<1>1. status = "running" /\ ~Alive /\ pc = "validate" /\ learner.phase # None
  BY DEF Validate, IInv, PlaceOK
<1>2. /\ UNCHANGED <<cancelRequest, accepted, stepPublic, finalPublic, faults>>
      /\ UNCHANGED <<task, disk, canceled, closed, early, sent, children, receipt, stopReceipt>>
      /\ UNCHANGED lease
  BY DEF Validate, SupervisorUnchanged, durable
<1>3. /\ cancelRequest \subseteq Attempts /\ accepted \in BOOLEAN /\ stepPublic \in BOOLEAN
      /\ finalPublic \in BOOLEAN /\ lease \in {"held", "lost"} /\ faults \in 0..MaxFaults
  BY DEF IInv, TypeOK
<1>4. ended' = ended \/ ended' = resultDoc
  BY DEF Validate
<1>5. CASE ExitFailure # None
  <2>1. Raise(ExitFailure)
    BY <1>5 DEF Validate
  <2> QED
    BY <1>1, <1>2, <1>3, <1>4, <1>5, <2>1, CausesAre, RaiseKeeps
<1>6. CASE ExitFailure = None
  <2>1. pc' = "finish" /\ UNCHANGED <<failure, learner>>
    BY <1>6 DEF Validate
  <2>2. /\ resultDoc # NoDoc /\ Own(resultDoc) /\ resultDoc.reason # "failed"
        /\ lease # "lost"
    BY <1>6 DEF ExitFailure, None
  <2>3. ended' = resultDoc
    BY <2>2 DEF Validate
  <2>4. UNCHANGED <<attempt, mode, status, tasks, readyDoc, resultDoc, decision>>
    BY <1>2 DEF task, disk, docs
  <2>5. TypeOK'
    BY <1>2, <2>1, <2>3, <2>4 DEF IInv, TypeOK, Positions
  <2>6. PlaceOK' /\ GroupIsTornDown'
    BY <1>1, <1>2, <2>1, <2>4 DEF IInv, PlaceOK, GroupIsTornDown, Alive
  <2>7. EndOK'
    BY <1>1, <1>2, <1>3, <2>1, <2>2, <2>3, <2>4 DEF IInv, EndOK, Passed
  <2>8. StopsLearner
    BY <2>1 DEF StopsLearner, IInv, TypeOK, Alive
  <2>9. Asked => Asked'
    BY <1>2, <2>1 DEF Asked
  <2>10. LearnerOK' /\ EndedOK'
    BY <1>1, <1>2, <2>1, <2>3, <2>4, <2>8, <2>9, RemembersKeeps
  <2>11. Receipts'
    BY <1>2, <2>4, ReceiptsStay
  <2> QED
    BY <2>5, <2>6, <2>7, <2>10, <2>11 DEF IInv
<1> QED
  BY <1>5, <1>6

-----------------------------------------------------------------------------
(* Teardown *)

SignalsGroup ==
  /\ learner' = IF Alive THEN Gone("signal") ELSE learner
  /\ children' \in {None, children}

LEMMA SignalsIs ==
  ASSUME IInv, SignalsGroup
  PROVE  /\ StopsLearner /\ ~Alive' /\ learner'.flag = learner.flag
         /\ children' \in {None, "plain", "deaf", "stuck"}
<1>1. "gone" \notin {"boot", "written", None} \cup Handling
  BY DEF None, Handling
<1>2. children' \in {None, "plain", "deaf", "stuck"}
  BY DEF SignalsGroup, IInv, TypeOK
<1>3. CASE Alive
  BY <1>1, <1>2, <1>3, GoneIs, AliveIs DEF SignalsGroup, StopsLearner, Alive, IInv, TypeOK
<1>4. CASE ~Alive
  BY <1>2, <1>4 DEF SignalsGroup, StopsLearner, Alive, IInv, TypeOK
<1> QED
  BY <1>3, <1>4

LEMMA SignalsKeeps ==
  ASSUME IInv, SignalsGroup, pc = "teardown", sent' \in {"term", "kill"}, SupervisorUnchanged,
         UNCHANGED <<pc, canceled, closed, early, lease, failure, ended>>
  PROVE  IInv'
<1>1. /\ StopsLearner /\ ~Alive' /\ learner'.flag = learner.flag
      /\ children' \in {None, "plain", "deaf", "stuck"}
  BY SignalsIs
<1>2. UNCHANGED <<cancelRequest, accepted, stepPublic, finalPublic, stopReceipt, receipt,
                  attempt, mode, status, tasks, readyDoc, resultDoc, decision, faults>>
  BY DEF SupervisorUnchanged, durable, task, disk, docs
<1>3. TypeOK'
  BY <1>1, <1>2 DEF IInv, TypeOK, StopsLearner
<1>4. PlaceOK'
  BY <1>1, <1>2 DEF IInv, PlaceOK, StopsLearner
<1>5. EndOK' /\ GroupIsTornDown'
  BY <1>2, <1>1 DEF IInv, PlaceOK, EndOK, Passed, GroupIsTornDown, StopsLearner
<1>6. Asked => Asked'
  BY DEF Asked
<1>7. LearnerOK' /\ EndedOK'
  BY <1>1, <1>2, <1>6, RemembersKeeps DEF SupervisorUnchanged
<1>8. Receipts'
  BY <1>2, ReceiptsStay
<1> QED
  BY <1>3, <1>4, <1>5, <1>7, <1>8 DEF IInv

LEMMA GraceKeeps ==
  ASSUME IInv, GraceExpires
  PROVE  IInv'
<1>1. SignalsGroup
  BY DEF GraceExpires, Terminate, SignalsGroup
<1> QED
  BY <1>1, SignalsKeeps DEF GraceExpires

LEMMA TermGraceKeeps ==
  ASSUME IInv, TermGraceExpires
  PROVE  IInv'
<1>1. SignalsGroup
  BY DEF TermGraceExpires, Kill, SignalsGroup
<1> QED
  BY <1>1, SignalsKeeps DEF TermGraceExpires

LEMMA KillGraceKeeps ==
  ASSUME IInv, KillGraceExpires
  PROVE  IInv'
<1>1. /\ UNCHANGED <<cancelRequest, accepted, stepPublic, finalPublic, stopReceipt, receipt,
                     attempt, mode, status, tasks, readyDoc, resultDoc, decision, faults>>
      /\ UNCHANGED <<canceled, closed, early, lease, sent, ended, learner, children>>
  BY DEF KillGraceExpires, SupervisorUnchanged, durable, task, disk, docs, group
<1>2. failure' \in Causes /\ failure' # None
  BY CausesAre DEF KillGraceExpires, IInv, PlaceOK, TypeOK, Causes, Operational, None
<1>3. pc = "teardown" /\ pc' = "failing" /\ sent = "kill"
  BY DEF KillGraceExpires
<1>4. ~Alive
  BY <1>3, NamesAre DEF IInv, PlaceOK, None
<1>5. TypeOK'
  BY <1>1, <1>2, <1>3 DEF IInv, TypeOK, Positions
<1>6. PlaceOK'
  BY <1>1, <1>2, <1>3, <1>4 DEF IInv, PlaceOK, Alive
<1>7. EndOK' /\ GroupIsTornDown'
  BY <1>1, <1>2, <1>3, <1>4 DEF EndOK, Passed, GroupIsTornDown, Alive
<1>8. LearnerOK' /\ EndedOK'
  BY <1>1, <1>2 DEF IInv, LearnerOK, EndedOK, ReasonOK, Asked
<1>9. Receipts'
  BY <1>1, ReceiptsStay
<1> QED
  BY <1>5, <1>6, <1>7, <1>8, <1>9 DEF IInv

-----------------------------------------------------------------------------
(* The end of the attempt *)

\* The process and its container are gone: what is left is durable.
LEMMA ExitKeeps ==
  ASSUME IInv, status = "running", NEW next \in {"queued", "exited"}, Exit(next),
         UNCHANGED <<cancelRequest, accepted, stopReceipt, disk>>,
         stepPublic' \in BOOLEAN, finalPublic' \in BOOLEAN, faults' \in 0..MaxFaults,
         receipt' \in [Attempts -> [state : States, reason : ReceiptReasons,
                                    learner : Reasons \cup {None, "ready"}]],
         Receipts'
  PROVE  IInv'
<1>1. /\ status' = next /\ pc' = "down"
      /\ canceled' = FALSE /\ closed' = FALSE /\ early' = None /\ lease' = "held"
      /\ failure' = None /\ sent' = None /\ ended' = NoDoc
      /\ learner' = NoLearner /\ children' = None
      /\ UNCHANGED <<attempt, mode, tasks, readyDoc, resultDoc, decision>>
  BY DEF Exit, disk, docs
<1>2. TypeOK'
  BY <1>1, NothingIs DEF IInv, TypeOK, Positions
<1>3. PlaceOK'
  BY <1>1, NothingIs DEF PlaceOK
<1>4. EndOK' /\ GroupIsTornDown'
  BY <1>1 DEF EndOK, Passed, GroupIsTornDown
<1>5. LearnerOK'
  BY <1>1, NothingIs DEF LearnerOK
<1>6. EndedOK'
  BY <1>1, NothingIs DEF IInv, EndedOK, None
<1> QED
  BY <1>2, <1>3, <1>4, <1>5, <1>6 DEF IInv

\* The step to the receipt, from a place where the learner is gone.
LEMMA ToReceiptKeeps ==
  ASSUME IInv, pc \in {"finish", "failing"}, pc' = "receipt",
         UNCHANGED <<cancelRequest, accepted, stopReceipt, receipt, task, memory, group, disk,
                     faults>>,
         stepPublic' \in BOOLEAN, finalPublic' \in BOOLEAN
  PROVE  IInv'
<1>1. UNCHANGED <<cancelRequest, accepted, stopReceipt, receipt,
                  attempt, mode, status, tasks, canceled, closed, early, lease, failure, sent,
                  ended, learner, children, readyDoc, resultDoc, decision, faults>>
  BY DEF task, memory, group, disk, docs
<1>2. ~Alive
  BY DEF IInv, PlaceOK, GroupIsTornDown
<1>3. TypeOK'
  BY <1>1 DEF IInv, TypeOK, Positions
<1>4. PlaceOK'
  BY <1>1, <1>2 DEF IInv, PlaceOK, Alive
<1>5. EndOK'
  BY <1>1 DEF IInv, EndOK, PlaceOK, Passed
<1>6. GroupIsTornDown'
  BY DEF GroupIsTornDown
<1>7. LearnerOK' /\ EndedOK'
  BY <1>1 DEF IInv, LearnerOK, EndedOK, ReasonOK, Asked
<1>8. Receipts'
  BY <1>1, ReceiptsStay
<1> QED
  BY <1>3, <1>4, <1>5, <1>6, <1>7, <1>8 DEF IInv

LEMMA PublishedIs ==
  ASSUME TypeOK, NEW all \in BOOLEAN, PublishedBy(all)
  PROVE  finalPublic' \in BOOLEAN
<1>1. learner.saved \in BOOLEAN /\ finalPublic \in BOOLEAN
  BY DEF TypeOK, Learners
<1> QED
  BY <1>1 DEF PublishedBy

LEMMA FinishKeeps ==
  ASSUME IInv, Finish
  PROVE  IInv'
<1>1. finalPublic' \in BOOLEAN
  BY PublishedIs DEF Finish, IInv
<1>2. stepPublic' \in BOOLEAN
  BY <1>1 DEF Finish, IInv, TypeOK
<1> QED
  BY <1>1, <1>2, ToReceiptKeeps DEF Finish

LEMMA FailureDrainKeeps ==
  ASSUME IInv, FailureDrain
  PROVE  IInv'
<1>1. UNCHANGED <<cancelRequest, accepted, stopReceipt, receipt, disk, faults>>
  BY DEF FailureDrain
<1>2. CASE lease = "lost"
  <2>1. Exit("exited") /\ finalPublic' = finalPublic
    BY <1>2 DEF FailureDrain
  <2>2. stepPublic' \in BOOLEAN /\ finalPublic' \in BOOLEAN
    BY <2>1 DEF FailureDrain, IInv, TypeOK
  <2>3. status = "running"
    BY DEF FailureDrain, IInv, PlaceOK
  <2>4. Receipts'
    BY <1>1, <2>1, <2>3, ReceiptsStay DEF Exit
  <2> QED
    BY <1>1, <2>1, <2>2, <2>3, <2>4, ExitKeeps DEF IInv, TypeOK
<1>3. CASE lease # "lost"
  <2>1. PublishedBy(FALSE) /\ pc' = "receipt" /\ UNCHANGED <<task, memory, group>>
    BY <1>3 DEF FailureDrain
  <2>2. finalPublic' \in BOOLEAN
    BY <2>1, PublishedIs DEF IInv
  <2>3. stepPublic' \in BOOLEAN /\ pc = "failing"
    BY <2>2 DEF FailureDrain, IInv, TypeOK
  <2> QED
    BY <1>1, <2>1, <2>2, <2>3, ToReceiptKeeps
<1> QED
  BY <1>2, <1>3

LEMMA LeaseLostInDrainKeeps ==
  ASSUME IInv, LeaseLostInDrain
  PROVE  IInv'
<1>1. /\ UNCHANGED <<cancelRequest, accepted, stopReceipt, receipt, disk>>
      /\ PublishedBy(FALSE) /\ Exit("exited") /\ faults' \in 0..MaxFaults
  BY FaultIs DEF LeaseLostInDrain, IInv
<1>2. stepPublic' \in BOOLEAN /\ finalPublic' \in BOOLEAN
  BY <1>1, PublishedIs DEF LeaseLostInDrain, IInv, TypeOK
<1>3. status = "running"
  BY DEF LeaseLostInDrain, IInv, PlaceOK
<1>4. Receipts'
  BY <1>1, <1>3, ReceiptsStay DEF Exit
<1> QED
  BY <1>1, <1>2, <1>3, <1>4, ExitKeeps DEF IInv, TypeOK

LEMMA DeliveryKeeps ==
  ASSUME IInv, DeliveryFails
  PROVE  IInv'
<1>1. UNCHANGED <<cancelRequest, accepted, stepPublic, finalPublic, stopReceipt, receipt,
                  attempt, mode, status, tasks, pc, canceled, closed, early, lease, sent,
                  ended, learner, children, readyDoc, resultDoc, decision>>
  BY DEF DeliveryFails, durable, task, group, disk, docs
<1>2. failure' \in Causes /\ failure' # None /\ faults' \in 0..MaxFaults /\ pc = "receipt"
  BY CausesAre, FaultIs DEF DeliveryFails, IInv
<1>3. TypeOK'
  BY <1>1, <1>2 DEF IInv, TypeOK
<1>4. PlaceOK'
  BY <1>1, <1>2 DEF IInv, PlaceOK, Alive
<1>5. EndOK' /\ GroupIsTornDown'
  BY <1>1, <1>2 DEF EndOK, Passed, GroupIsTornDown
<1>6. LearnerOK' /\ EndedOK'
  BY <1>1, <1>2 DEF IInv, LearnerOK, EndedOK, ReasonOK, Asked
<1>7. Receipts'
  BY <1>1, ReceiptsStay
<1> QED
  BY <1>3, <1>4, <1>5, <1>6, <1>7 DEF IInv

\* A receipt of the training cap: nobody asked for a stop, and no early stop is
\* known of this attempt or of an earlier one.
LEMMA OutcomeIs ==
  ASSUME IInv, pc = "receipt"
  PROVE  /\ TerminalOutcome \in [state : States, reason : ReceiptReasons,
                                 learner : Reasons \cup {None, "ready"}]
         /\ TerminalOutcome.reason = "training_cap" =>
              /\ \A a \in Attempts : a <= attempt => stopReceipt[a] = None
              /\ TerminalOutcome.learner \in {None, "resource_exhaustion"}
<1> DEFINE cap == Outcome(IF EvalRequired THEN "failed" ELSE "succeeded", "training_cap")
<1>1. ended.reason \in Reasons \cup {None, "ready"} /\ ended.reason # "ready"
  BY DEF IInv, TypeOK, Docs, EndedOK
<1>2. \A s \in States, r \in ReceiptReasons :
        /\ Outcome(s, r) \in [state : States, reason : ReceiptReasons,
                              learner : Reasons \cup {None, "ready"}]
        /\ Outcome(s, r).reason = r /\ Outcome(s, r).learner = ended.reason
  BY <1>1 DEF Outcome
<1>3. failure \in ReceiptReasons /\ (failure # "training_cap")
  BY DEF IInv, TypeOK, ReceiptReasons, Causes, Operational, None
<1>4. {"resumable_failure", "canceled", "succeeded", "failed", "stopped"} \subseteq States
      /\ {"canceled", "eval_acceptance", "training_cap", "early_stop_success",
          "early_stop_neutral", "early_stop_failure"} \subseteq ReceiptReasons
  BY DEF States, ReceiptReasons
<1>5. CASE failure # None \/ canceled \/ closed \/ early # None
  <2>1. early \in Outcomes \cup {None}
    BY DEF IInv, TypeOK
  <2>2. early # None => early \in {"success", "neutral", "failure"}
    BY <2>1
  <2>3. TerminalOutcome \in
          {Outcome("resumable_failure", failure), Outcome("canceled", "canceled"),
           Outcome("succeeded", "eval_acceptance"), Outcome("failed", "early_stop_success"),
           Outcome("succeeded", "early_stop_success"), Outcome("stopped", "early_stop_neutral"),
           Outcome("failed", "early_stop_failure")}
    BY <1>5, <2>2 DEF TerminalOutcome
  <2> HIDE DEF Outcome
  <2> QED
    BY <1>2, <1>3, <1>4, <2>3
<1>6. CASE failure = None /\ ~canceled /\ ~closed /\ early = None
  <2>1. TerminalOutcome = cap
    BY <1>6 DEF TerminalOutcome, None
  <2>2. lease = "held" /\ ended.reason # "failed" /\ Passed
    BY <1>6 DEF IInv, EndOK, Passed
  <2>3. decision[attempt] = None /\ \A a \in Attempts : a <= attempt => stopReceipt[a] = None
    BY <1>6, <2>2 DEF IInv, EndOK
  <2>4. ~Asked
    BY <1>6, <2>2 DEF Asked
  <2>5. ended.reason \notin Outcomes /\ ended.reason # "external_signal"
    <3>1. CASE ended = NoDoc
      BY <3>1, NothingIs, NamesAre DEF None
    <3>2. CASE ended # NoDoc
      BY <2>3, <2>4, <3>2 DEF IInv, EndedOK, ReasonOK
    <3> QED
      BY <3>1, <3>2
  <2>6. ended.reason \in {None, "resource_exhaustion"}
    BY <1>1, <2>2, <2>5 DEF Reasons
  <2>7. cap \in [state : States, reason : ReceiptReasons,
                 learner : Reasons \cup {None, "ready"}] /\ cap.learner = ended.reason
    BY <1>2, <1>4
  <2> QED
    BY <2>1, <2>3, <2>6, <2>7
<1> QED
  BY <1>5, <1>6

LEMMA WriteReceiptKeeps ==
  ASSUME IInv, WriteReceipt
  PROVE  IInv'
<1> DEFINE written == IF Refused THEN receipt[attempt] ELSE TerminalOutcome
<1>1. /\ pc = "receipt" /\ status = "running" /\ Exit("exited")
      /\ UNCHANGED <<cancelRequest, accepted, stepPublic, finalPublic, stopReceipt, disk, faults>>
      /\ receipt' = [receipt EXCEPT ![attempt] = written]
      /\ attempt' = attempt /\ status' = "exited"
  BY DEF WriteReceipt, IInv, PlaceOK, Exit
<1>2. attempt \in Attempts
      /\ receipt \in [Attempts -> [state : States, reason : ReceiptReasons,
                                   learner : Reasons \cup {None, "ready"}]]
      /\ stepPublic' \in BOOLEAN /\ finalPublic' \in BOOLEAN /\ faults' \in 0..MaxFaults
  BY <1>1 DEF IInv, TypeOK
<1>3. receipt[attempt].reason # "training_cap"
  BY <1>1, NothingIs DEF IInv, Receipts, ReceiptOK, None
<1>4. /\ written \in [state : States, reason : ReceiptReasons,
                      learner : Reasons \cup {None, "ready"}]
      /\ written.reason = "training_cap" =>
           /\ \A a \in Attempts : a <= attempt => stopReceipt[a] = None
           /\ written.learner \in {None, "resource_exhaustion"}
  BY <1>1, <1>2, <1>3, OutcomeIs
<1> HIDE DEF written
<1>5. /\ receipt' \in [Attempts -> [state : States, reason : ReceiptReasons,
                                    learner : Reasons \cup {None, "ready"}]]
      /\ receipt'[attempt] = written
      /\ \A b \in Attempts \ {attempt} : receipt'[b] = receipt[b]
  BY <1>1, <1>2, <1>4
<1>6. ReceiptOK'
  BY <1>1, <1>2, <1>5, NamesAre DEF IInv, Receipts, ReceiptOK
<1>7. EarlyStopStands'
  <2>1. SUFFICES ASSUME NEW a \in Attempts, NEW b \in Attempts, stopReceipt[a] # None, a <= b
                 PROVE  receipt'[b].reason # "training_cap"
    BY <1>1 DEF EarlyStopStands
  <2> QED
    BY <1>4, <1>5, <2>1 DEF IInv, Receipts, EarlyStopStands
<1>8. OwnCapIsReached'
  BY <1>4, <1>5 DEF IInv, Receipts, OwnCapIsReached
<1> QED
  BY <1>1, <1>2, <1>5, <1>6, <1>7, <1>8, ExitKeeps DEF Receipts

LEMMA TaskDiesKeeps ==
  ASSUME IInv, TaskDies
  PROVE  IInv'
<1>1. PICK next \in {"queued", "exited"} : Exit(next)
  BY DEF TaskDies
<1>2. status = "running" /\ faults' \in 0..MaxFaults
  BY FaultIs DEF TaskDies, IInv
<1>3. UNCHANGED <<cancelRequest, accepted, stepPublic, finalPublic, stopReceipt, receipt, disk>>
  BY DEF TaskDies, durable
<1>4. Receipts'
  BY <1>1, <1>2, <1>3, ReceiptsStay DEF Exit
<1> QED
  BY <1>1, <1>2, <1>3, <1>4, ExitKeeps DEF IInv, TypeOK

-----------------------------------------------------------------------------
(* The start of a task, dstack and the operator *)

LEMMA TaskStartsKeeps ==
  ASSUME IInv, TaskStarts
  PROVE  IInv'
<1>1. UNCHANGED <<cancelRequest, accepted, stepPublic, finalPublic, stopReceipt, receipt,
                  attempt, mode, canceled, closed, early, lease, failure, sent, ended,
                  learner, children, faults>>
  BY DEF TaskStarts, durable, memory, group
<1>2. pc = "down" /\ pc' = "start" /\ status' = "running" /\ tasks' \in 0..MaxTasks
  BY NamesAre DEF TaskStarts, IInv, PlaceOK, TypeOK
<1>3. /\ learner.phase = None /\ ended = NoDoc /\ children = None
      /\ early = None /\ failure = None /\ sent = None
      /\ lease = "held" /\ ~canceled /\ ~closed
  BY <1>2 DEF IInv, PlaceOK
<1>4. /\ readyDoc' \in Docs /\ resultDoc' \in Docs /\ resultDoc'.reason # "ready"
      /\ decision' \in [Attempts -> Outcomes \cup {None}]
  BY NothingIs DEF TaskStarts, disk, docs, IInv, TypeOK, EndedOK, None
<1>5. TypeOK'
  BY <1>1, <1>2, <1>4 DEF IInv, TypeOK, Positions
<1>6. PlaceOK'
  BY <1>1, <1>2, <1>3 DEF PlaceOK
<1>7. EndOK' /\ GroupIsTornDown'
  BY <1>1, <1>2, <1>3 DEF EndOK, Passed, GroupIsTornDown
<1>8. LearnerOK' /\ EndedOK'
  BY <1>1, <1>3, <1>4, NothingIs DEF LearnerOK, EndedOK, None
<1>9. Receipts'
  BY <1>1, <1>2, ReceiptsStay DEF TaskStarts
<1> QED
  BY <1>5, <1>6, <1>7, <1>8, <1>9 DEF IInv

LEMMA StartKeeps ==
  ASSUME IInv, Start
  PROVE  IInv'
<1> DEFINE provisional == (EvalRequired /\ accepted) \/ KnownStop # None
<1>1. /\ learner.phase = None /\ ended = NoDoc /\ children = None
      /\ failure = None /\ sent = None /\ lease = "held"
      /\ pc = "start" /\ status = "running"
  BY DEF Start, IInv, PlaceOK
<1>2. /\ UNCHANGED <<cancelRequest, accepted, stepPublic, finalPublic, stopReceipt, receipt,
                     attempt, mode, status, tasks, lease, failure, sent, ended, faults>>
      /\ early' = KnownStop /\ closed' = (EvalRequired /\ accepted)
      /\ canceled' = (attempt \in cancelRequest)
  BY DEF Start, durable, task
<1>3. early' \in Outcomes \cup {None} /\ closed' \in BOOLEAN /\ canceled' \in BOOLEAN
  BY <1>2, KnownIs DEF IInv, TypeOK
<1>4. CASE NeedsLearner(provisional)
  <2>1. StartLearner /\ pc' = IF provisional THEN "finalize" ELSE "watch"
    BY <1>4 DEF Start
  <2>2. PICK p \in Pids : learner' = [NoLearner EXCEPT !.phase = "boot", !.pid = p]
    BY <2>1 DEF StartLearner
  <2>3. /\ learner' \in Learners /\ learner'.phase = "boot"
        /\ learner'.decided = None /\ ~learner'.flag /\ learner'.reason = None
    BY <2>2 DEF NoLearner, Learners, None
  <2>4. readyDoc' = NoDoc /\ resultDoc' = NoDoc /\ UNCHANGED <<children, decision>>
    BY <2>1 DEF StartLearner, Archived
  <2>5. TypeOK'
    BY <1>2, <1>3, <2>1, <2>3, <2>4, NothingIs DEF IInv, TypeOK, Positions
  <2>6. PlaceOK'
    BY <1>1, <1>2, <2>1, <2>3, <2>4 DEF PlaceOK, None
  <2>7. EndOK' /\ GroupIsTornDown'
    BY <1>1, <1>2, <2>1, <2>3 DEF EndOK, Passed, GroupIsTornDown, None
  <2>8. LearnerOK' /\ EndedOK'
    BY <1>1, <1>2, <2>3, <2>4, NothingIs, NamesAre DEF LearnerOK, EndedOK, ReasonOK, None
  <2>9. Receipts'
    BY <1>2, ReceiptsStay
  <2> QED
    BY <2>5, <2>6, <2>7, <2>8, <2>9 DEF IInv
<1>5. CASE ~NeedsLearner(provisional)
  <2>1. pc' = "resolve" /\ UNCHANGED <<learner, children, readyDoc, resultDoc, decision>>
    BY <1>5 DEF Start, group, disk, docs
  <2>2. ~Alive
    BY <1>1 DEF Alive, Handling, None
  <2>3. TypeOK'
    BY <1>2, <1>3, <2>1 DEF IInv, TypeOK, Positions
  <2>4. PlaceOK'
    BY <1>1, <1>2, <2>1, <2>2 DEF PlaceOK, Alive, None
  <2>5. EndOK' /\ GroupIsTornDown'
    BY <1>1, <1>2, <2>1 DEF EndOK, Passed, GroupIsTornDown
  <2>6. LearnerOK' /\ EndedOK'
    BY <1>1, <1>2, <2>1, NothingIs DEF LearnerOK, IInv, EndedOK
  <2>7. Receipts'
    BY <1>2, ReceiptsStay
  <2> QED
    BY <2>3, <2>4, <2>5, <2>6, <2>7 DEF IInv
<1> QED
  BY <1>4, <1>5

\* A request or a verdict that arrives is looked at later.
LEMMA ArrivalKeeps ==
  ASSUME IInv, UNCHANGED <<stepPublic, finalPublic, stopReceipt, receipt, task, pc, memory, group,
                           disk, faults>>,
         cancelRequest' \subseteq Attempts, accepted' \in BOOLEAN
  PROVE  IInv'
<1>1. UNCHANGED <<stepPublic, finalPublic, stopReceipt, receipt, attempt, mode, status, tasks,
                  pc, canceled, closed, early, lease, failure, sent, ended, learner, children,
                  readyDoc, resultDoc, decision, faults>>
  BY DEF task, memory, group, disk, docs
<1>2. TypeOK'
  BY <1>1 DEF IInv, TypeOK
<1>3. PlaceOK' /\ EndOK' /\ GroupIsTornDown'
  BY <1>1 DEF IInv, PlaceOK, EndOK, Passed, Alive, GroupAlive, GroupIsTornDown
<1>4. LearnerOK' /\ EndedOK'
  BY <1>1 DEF IInv, LearnerOK, EndedOK, ReasonOK, Asked
<1>5. Receipts'
  BY <1>1, ReceiptsStay
<1> QED
  BY <1>2, <1>3, <1>4, <1>5 DEF IInv

LEMMA RequestCancelKeeps ==
  ASSUME IInv, RequestCancel
  PROVE  IInv'
BY ArrivalKeeps DEF RequestCancel, IInv, TypeOK

LEMMA AcceptKeeps ==
  ASSUME IInv, Accept
  PROVE  IInv'
BY ArrivalKeeps DEF Accept, IInv, TypeOK

LEMMA RetryKeeps ==
  ASSUME IInv, Retry
  PROVE  IInv'
<1>1. /\ UNCHANGED <<cancelRequest, accepted, stepPublic, finalPublic, stopReceipt, tasks, pc,
                     canceled, closed, early, lease, failure, sent, ended, learner, children,
                     readyDoc, resultDoc, decision, faults>>
      /\ receipt' = [receipt EXCEPT ![attempt] = Sealed]
      /\ attempt' = attempt + 1 /\ attempt < MaxAttempts
      /\ status = "exited" /\ status' = "queued"
      /\ mode' \in {"resume-training", "drain-only"}
  BY DEF Retry, memory, group, disk, docs
<1>2. /\ attempt \in Attempts /\ attempt' \in Attempts
      /\ receipt \in [Attempts -> [state : States, reason : ReceiptReasons,
                                   learner : Reasons \cup {None, "ready"}]]
  BY <1>1, NamesAre DEF IInv, TypeOK, Attempts
<1>3. /\ Sealed \in [state : States, reason : ReceiptReasons,
                     learner : Reasons \cup {None, "ready"}]
      /\ Sealed.reason = "training_cap" => Sealed = receipt[attempt]
  <2>1. CASE receipt[attempt] # NoReceipt
    BY <1>2, <2>1 DEF Sealed
  <2>2. CASE receipt[attempt] = NoReceipt
    BY <2>2, NamesAre DEF Sealed, States, ReceiptReasons
  <2> QED
    BY <2>1, <2>2
<1>4. /\ receipt' \in [Attempts -> [state : States, reason : ReceiptReasons,
                                    learner : Reasons \cup {None, "ready"}]]
      /\ receipt'[attempt] = Sealed
      /\ \A b \in Attempts \ {attempt} : receipt'[b] = receipt[b]
  BY <1>1, <1>2, <1>3
<1>5. pc = "down" /\ learner.phase = None /\ ended = NoDoc /\ failure = None /\ lease = "held"
  BY <1>1 DEF IInv, PlaceOK
<1>6. TypeOK'
  BY <1>1, <1>2, <1>4 DEF IInv, TypeOK
<1>7. PlaceOK'
  BY <1>1, <1>5 DEF IInv, PlaceOK, Alive
<1>8. EndOK' /\ GroupIsTornDown'
  BY <1>1, <1>5 DEF EndOK, Passed, GroupIsTornDown
<1>9. LearnerOK' /\ EndedOK'
  BY <1>1, <1>5, NothingIs DEF LearnerOK, IInv, EndedOK
<1>10. ReceiptOK'
  <2>1. \A b \in Attempts : b >= attempt + 1 => b > attempt /\ b # attempt
    BY <1>2, NamesAre
  <2>2. \A b \in Attempts : b > attempt + 1 => b >= attempt + 1
    BY <1>2, NamesAre
  <2>3. \A b \in Attempts : b >= attempt' => receipt'[b] = NoReceipt
    BY <1>1, <1>4, <2>1 DEF IInv, Receipts, ReceiptOK
  <2>4. attempt' >= attempt'
    BY <1>2, NamesAre
  <2> QED
    BY <1>1, <1>2, <2>2, <2>3, <2>4 DEF ReceiptOK
<1>11. EarlyStopStands'
  <2>1. SUFFICES ASSUME NEW a \in Attempts, NEW b \in Attempts, stopReceipt[a] # None, a <= b
                 PROVE  receipt'[b].reason # "training_cap"
    BY <1>1 DEF EarlyStopStands
  <2> QED
    BY <1>3, <1>4, <2>1 DEF IInv, Receipts, EarlyStopStands
<1>12. OwnCapIsReached'
  BY <1>3, <1>4 DEF IInv, Receipts, OwnCapIsReached
<1> QED
  BY <1>6, <1>7, <1>8, <1>9, <1>10, <1>11, <1>12 DEF IInv, Receipts

-----------------------------------------------------------------------------
(* The invariant *)

LEMMA InitHolds == Init => IInv
<1> SUFFICES ASSUME Init
             PROVE  IInv
  OBVIOUS
<1>1. TypeOK
  <2>1. /\ stopReceipt \in [Attempts -> Outcomes \cup {None}]
        /\ receipt \in [Attempts -> [state : States, reason : ReceiptReasons,
                                     learner : Reasons \cup {None, "ready"}]]
        /\ decision \in [Attempts -> Outcomes \cup {None}]
    BY NothingIs DEF Init
  <2>2. tasks \in 0..MaxTasks /\ faults \in 0..MaxFaults /\ attempt \in Attempts
    BY NamesAre DEF Init
  <2> QED
    BY <2>1, <2>2, NothingIs DEF Init, TypeOK, Positions
<1>2. PlaceOK
  BY NothingIs DEF Init, PlaceOK
<1>3. EndOK /\ GroupIsTornDown
  BY DEF Init, EndOK, Passed, GroupIsTornDown
<1>4. LearnerOK /\ EndedOK
  BY NothingIs DEF Init, LearnerOK, EndedOK, None
<1>5. Receipts
  <2>1. \A a \in Attempts : receipt[a] = NoReceipt
    BY DEF Init
  <2>2. "training_cap" # NoReceipt.reason /\ attempt \in Attempts
    BY NothingIs, NamesAre DEF Init, None
  <2> QED
    BY <2>1, <2>2 DEF Receipts, ReceiptOK, EarlyStopStands, OwnCapIsReached
<1> QED
  BY <1>1, <1>2, <1>3, <1>4, <1>5 DEF IInv

LEMMA StutterKeeps ==
  ASSUME IInv, UNCHANGED vars
  PROVE  IInv'
<1>1. UNCHANGED <<stepPublic, finalPublic, stopReceipt, receipt, task, pc, memory, group,
                  disk, faults>> /\ UNCHANGED <<cancelRequest, accepted>>
  BY DEF vars, durable
<1> QED
  BY <1>1, ArrivalKeeps DEF IInv, TypeOK

LEMMA NextKeeps == IInv /\ [Next]_vars => IInv'
<1> SUFFICES ASSUME IInv, [Next]_vars
             PROVE  IInv'
  OBVIOUS
<1>1. CASE LearnerProgress
  BY <1>1, BootsKeeps, ReadyKeeps, StopsKeeps, SavesKeeps, WritesKeeps, ExitsKeeps
  DEF LearnerProgress
<1>2. CASE \E o \in Outcomes : LearnerDecides(o)
  BY <1>2, DecidesKeeps
<1>3. CASE LearnerFault
  BY <1>3, FailsKeeps, DiesKeeps, HangsKeeps, LingerKeeps DEF LearnerFault
<1>4. CASE Supervise
  <2>1. CASE Start \/ RequestFinalizeOnly \/ ObserveCancel \/ ObserveAcceptance \/ PublishStep
    BY <2>1, StartKeeps, FinalizeOnlyKeeps, CancelKeeps, AcceptanceKeeps, PublishKeeps
  <2>2. CASE LeaveLoop \/ Reaped \/ Resolve \/ Validate
    BY <2>2, LeaveLoopKeeps, ReapedKeeps, ResolveKeeps, ValidateKeeps
  <2>3. CASE GroupGone \/ GraceExpires \/ TermGraceExpires \/ KillGraceExpires
    BY <2>3, GroupGoneKeeps, GraceKeeps, TermGraceKeeps, KillGraceKeeps
  <2>4. CASE FailureDrain \/ Finish \/ WriteReceipt
    BY <2>4, FailureDrainKeeps, FinishKeeps, WriteReceiptKeeps
  <2> QED
    BY <1>4, <2>1, <2>2, <2>3, <2>4 DEF Supervise
<1>5. CASE Observe
  BY <1>5, ObserveKeeps
<1>6. CASE Surroundings
  BY <1>6, SignaledKeeps, IterationKeeps, LoseLeaseKeeps, LeaseLostInDrainKeeps,
     DeliveryKeeps, TaskStartsKeeps, TaskDiesKeeps, RequestCancelKeeps, AcceptKeeps, RetryKeeps
  DEF Surroundings
<1>7. CASE UNCHANGED vars
  BY <1>7, StutterKeeps
<1> QED
  BY <1>1, <1>2, <1>3, <1>4, <1>5, <1>6, <1>7 DEF Next

LEMMA Inductive == Spec => []IInv
BY InitHolds, NextKeeps, PTL DEF Spec

-----------------------------------------------------------------------------
(* The theorems *)

\* The supervisor, its learner, the documents of the run directory and the
\* receipts keep to the values that run_supervisor.py and train.py give them.
THEOREM TypeCorrect == Spec => []TypeOK
<1>1. IInv => TypeOK
  BY DEF IInv
<1> QED
  BY <1>1, Inductive, PTL

\* The terminal document that the supervisor goes by was written by the learner
\* it spawned: what an earlier task of the same attempt left in the run directory
\* was archived before the learner, whatever its process id.
THEOREM StateOwn == Spec => []StateIsOwn
<1>1. IInv => StateIsOwn
  BY DEF IInv, EndedOK, StateIsOwn
<1> QED
  BY <1>1, Inductive, PTL

\* The failure drain begins when the learner has ended and its process group is
\* gone or was sent SIGKILL, in whatever step of the teardown it ended.
THEOREM GroupTornDown == Spec => []GroupIsTornDown
<1>1. IInv => GroupIsTornDown
  BY DEF IInv
<1> QED
  BY <1>1, Inductive, PTL

\* An early-stop receipt stands: no receipt of its attempt or of a later one says
\* training_cap, over any number of attempts, restarts and lost run directories.
THEOREM EarlyStopHolds == Spec => []EarlyStopStands
<1>1. IInv => EarlyStopStands
  BY DEF IInv, Receipts
<1> QED
  BY <1>1, Inductive, PTL

\* A receipt with the training cap is that of a learner that used up its budget,
\* or of an attempt without one: a learner that was asked to stop is not taken
\* for one that had finished.
THEOREM OwnCap == Spec => []OwnCapIsReached
<1>1. IInv => OwnCapIsReached
  BY DEF IInv, Receipts
<1> QED
  BY <1>1, Inductive, PTL
=============================================================================
