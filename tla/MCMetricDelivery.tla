-------------------------- MODULE MCMetricDelivery --------------------------
(* The instance of MetricDelivery for TLC. *)
EXTENDS MetricDelivery

Symmetry == Permutations(Events \ EvalEvents)
=============================================================================
