---------------------------- MODULE MCRunRecords ----------------------------
(* Instances of RunRecords for TLC. *)
EXTENDS RunRecords

Doc(key, document, attempt, phase, at) ==
    [key |-> key, document |-> document, attempt |-> attempt, phase |-> phase, at |-> at,
     checkpoint |-> "c1"]

\* Two attempts of a run: the manifests; two different receipts of the first attempt; an
\* evaluation that was finished before the attempt ended, the same one written again under
\* the second attempt, and a batch's of the same checkpoint; a promotion.
MCWrite ==
    [m1 |-> Doc("manifest1", "m1", 1, 1, 1),
     m2 |-> Doc("manifest2", "m2", 2, 1, 5),
     t1 |-> Doc("terminal1", "t1", 1, 2, 3),
     x1 |-> Doc("terminal1", "x1", 1, 2, 4),
     v1 |-> Doc("verified1", "v1", 1, 3, 2),
     v2 |-> Doc("verified1", "v1", 2, 3, 2),
     b1 |-> Doc("batch1", "b1", 1, 3, 6),
     p1 |-> Doc("promotion", "p", 1, 4, 4)]
MCWriters == DOMAIN MCWrite
MCUpdaters == {"p1", "c1", "c2"}
MCNames == [p1 |-> "c1", c1 |-> "c1", c2 |-> "c2"]
MCPromoters == {"p1"}
MCProjectors == MCWriters \cup {"worker", "operator"}
Cast(before, made, queued) == [past |-> before, calls |-> made, queue |-> queued]
MCCasts == {Cast({}, {"m1", "t1"}, FALSE),
            Cast({"m1"}, {"t1", "x1"}, TRUE),
            Cast({"m1", "t1"}, {"v1", "operator"}, FALSE),
            Cast({"m1", "v1"}, {"b1", "t1"}, FALSE),
            Cast({"m1", "v1", "m2"}, {"v2", "operator"}, FALSE),
            Cast({"m1", "t1", "p1"}, {"v1", "m2"}, FALSE),
            Cast({"m1"}, {"p1", "c1", "c2"}, FALSE)}
=============================================================================
