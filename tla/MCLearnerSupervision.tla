------------------------ MODULE MCLearnerSupervision ------------------------
(* Constants for the runs of LearnerSupervision. *)
EXTENDS LearnerSupervision

AllOutcomes == {"success", "neutral", "failure"}
====
