--------------------------- MODULE MCManualEvaluation ---------------------------
EXTENDS ManualEvaluation

CONSTANTS b1, b2, b3, b4, q1, q2

\* One machine evaluates both checkpoints, one at a time or both, or two machines the same one.
MCSelection == (b1 :> {1, 2}) @@ (b2 :> {1}) @@ (b3 :> {1}) @@ (b4 :> {2})
MCHome == (b1 :> q1) @@ (b2 :> q1) @@ (b3 :> q2) @@ (b4 :> q1)
MCMaxAttempts == <<2, 1>>
MCCasts ==
  {[batches |-> {b1}, faults |-> 1, requests |-> 0],
   [batches |-> {b2}, faults |-> 1, requests |-> 2],
   [batches |-> {b2, b4}, faults |-> 0, requests |-> 0],
   [batches |-> {b2, b3}, faults |-> 0, requests |-> 1]}

\* smaller, for liveness
MCOneAttempt == <<1, 1>>
MCFewCasts ==
  {[batches |-> {b1}, faults |-> 1, requests |-> 0],
   [batches |-> {b2, b3}, faults |-> 0, requests |-> 0]}
=============================================================================
