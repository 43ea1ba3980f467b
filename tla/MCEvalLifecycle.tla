-------------------------- MODULE MCEvalLifecycle --------------------------
(* Values for model checking EvalLifecycle: what the workers can report. *)
EXTENDS EvalLifecycle

MCAll == {"accepted", "rejected", "failed"}
MCDecisive == {"accepted", "rejected"}
=============================================================================
