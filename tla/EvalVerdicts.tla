---------------------------- MODULE EvalVerdicts ----------------------------
(***************************************************************************)
(* What the evaluation of a run's checkpoints promises to a reader of its  *)
(* buckets, whatever supervisors, workers and failures produced them:      *)
(* attempts are dispatched one after the other and none after an           *)
(* acceptance; a verdict is given once; one checkpoint is promoted, the    *)
(* lowest accepted one for good; the run is closed only when every         *)
(* evaluation that was dispatched has its verdict.                         *)
(***************************************************************************)
EXTENDS Integers

CONSTANTS
  Checkpoints,  \* a set of integers, in the order of their steps
  Attempts,     \* the attempts of an evaluation
  Measured,     \* verdicts that need a worker's result
  Given,        \* verdicts the supervisor gives without one
  Undecided     \* no verdict

VARIABLES
  dispatched,   \* dispatched[c]: attempts of c ever spawned
  verdict,      \* verdict[c]
  promoted,     \* the promoted checkpoint, 0 before
  terminal      \* the run is recorded as a scientific success

vars == <<dispatched, verdict, promoted, terminal>>

Accepted == {c \in Checkpoints : verdict[c] = "accepted"}

Init ==
  /\ dispatched = [c \in Checkpoints |-> {}]
  /\ verdict = [c \in Checkpoints |-> Undecided]
  /\ promoted = 0
  /\ terminal = FALSE

Dispatch(c, a) ==
  /\ Accepted = {}
  /\ verdict[c] = Undecided
  /\ \A b \in dispatched[c] : b < a
  /\ dispatched' = [dispatched EXCEPT ![c] = @ \cup {a}]
  /\ UNCHANGED <<verdict, promoted, terminal>>

Decide(c, v) ==
  /\ verdict[c] = Undecided
  /\ v \in Measured => dispatched[c] # {}
  /\ v = "accepted" => promoted = 0
  /\ verdict' = [verdict EXCEPT ![c] = v]
  /\ UNCHANGED <<dispatched, promoted, terminal>>

Promote(c) ==
  /\ promoted = 0
  /\ c \in Accepted /\ \A d \in Accepted : c <= d
  /\ promoted' = c
  /\ UNCHANGED <<dispatched, verdict, terminal>>

Close ==
  /\ promoted # 0
  /\ \A c \in Checkpoints : dispatched[c] # {} => verdict[c] # Undecided
  /\ terminal' = TRUE
  /\ UNCHANGED <<dispatched, verdict, promoted>>

Next ==
  \/ \E c \in Checkpoints, a \in Attempts : Dispatch(c, a)
  \/ \E c \in Checkpoints, v \in Measured \cup Given : Decide(c, v)
  \/ \E c \in Checkpoints : Promote(c)
  \/ Close

Spec == Init /\ [][Next]_vars
=============================================================================
