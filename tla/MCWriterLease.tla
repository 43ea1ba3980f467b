--------------------------- MODULE MCWriterLease ---------------------------
(* Small instances of WriterLease.  One time unit stands for 10 seconds:    *)
(* TTL 6, renewal every unit, one unit between the fastest and the slowest  *)
(* clock; the properties excuse a process that is away from its lease for   *)
(* more than one unit (MaxGap), the tightest budget that the TTL allows.    *)
EXTENDS WriterLease, TLC

CONSTANTS s1, s2, o1, e1

\* The operator's clock runs ahead of the others.
MCSkew3 == [h \in {s1, o1, e1} |-> IF h = o1 THEN 1 ELSE 0]
MCSkew2 == [h \in {s1, s2} |-> IF h = s2 THEN 1 ELSE 0]
=============================================================================
