----------------------- MODULE LeaseAndMetrics_proofs -----------------------
(***************************************************************************)
(* Proofs about WriterLease and about MetricDelivery: that one supervisor  *)
(* writes at a time, and what becomes of the metrics of that supervisor.   *)
(***************************************************************************)
EXTENDS WriterLease, MetricDelivery, FiniteSetTheorems, SequenceTheorems,
        WellFoundedInduction, TLAPS

-----------------------------------------------------------------------------
(* WriterLease: the lease, for every set of processes, TTL, renewal        *)
(* interval and clock skew, however long a process takes; MaxGap, of       *)
(* BudgetAssumption, is the delay that makes a process Overdue.            *)
(*                                                                         *)
(* IInv strengthens the safety properties with three kinds of fact: where  *)
(* a process is in its lease cycle (Timed), what the locals of a call tell *)
(* (Called), and, as long as no acquisition replaced a document it had not *)
(* read, that a lease no clock has seen expire is the one stored (Owned).  *)

Known(h) ==
  /\ local[h] # NoDoc => local[h].holder = h
  /\ local[h].expires <= now + Skew[h] + TTL
  /\ pc[h] \in {"working", "renewing", "closing"} => local[h] # NoDoc

Called(h) ==
  /\ pc[h] \in Busy \cup {"closing"} => checkedAt[h] <= now
  /\ pc[h] \in {"read", "headed", "renewing"} => instant[h] = checkedAt[h] + Skew[h]
  /\ pc[h] \in {"read", "headed"} => local[h].expires <= instant[h]
  /\ pc[h] = "renewing" => local[h].expires <= instant[h] + TTL
  /\ pc[h] = "headed" => ~HeldByOther(h, seen[h])

\* How far the last look at its lease can be from the last renewal of a supervisor
\* that is not overdue.
Punctual(h) ==
  /\ h \in Supervisors /\ pc[h] \in {"working", "renewing", "closing"} =>
       lastRenewal[h] + TTL <= local[h].expires + MaxGap
  /\ h \in Supervisors /\ pc[h] = "working" /\ misses[h] = 0 =>
       checkedAt[h] + 1 <= lastRenewal[h] + RenewEvery
  /\ h \in Supervisors /\ pc[h] = "working" /\ misses[h] = 1 =>
       checkedAt[h] + 1 <= lastRenewal[h] + RenewEvery + MaxGap
  /\ h \in Supervisors /\ pc[h] = "renewing" /\ misses[h] = 0 =>
       checkedAt[h] + 1 <= lastRenewal[h] + RenewEvery + MaxGap
  /\ h \in Supervisors /\ ((pc[h] = "renewing" /\ misses[h] = 1) \/ pc[h] = "closing") =>
       checkedAt[h] + 1 <= lastRenewal[h] + RenewEvery + 2 * MaxGap
  /\ h \notin Supervisors => pc[h] # "closing"
  /\ h \notin Supervisors /\ pc[h] = "working" =>
       checkedAt[h] + TTL <= local[h].expires
Timed(h) == Overdue(h) \/ Punctual(h)

Owned(h) ==
  ~tookUnread /\ local[h].expires > now + MaxSkew =>
    lease.holder = h /\ lease.expires >= local[h].expires

HInv(h) == Known(h) /\ Called(h) /\ Timed(h) /\ Owned(h)

IInv == TypeOK /\ \A h \in Holders : HInv(h)

-----------------------------------------------------------------------------
\* Every variable keeps its type along every behaviour.
LEMMA InitTyped == Init => TypeOK
<1> SUFFICES ASSUME Init PROVE TypeOK
  OBVIOUS
<1>1. now \in Nat /\ lease \in Doc \cup {NoDoc} /\ late \subseteq Holders
      /\ tookUnread \in BOOLEAN
  BY DEF Init
<1>2. pc \in [Holders -> Phases]
  BY DEF Init, Phases, Busy
<1>3. /\ seen \in [Holders -> Doc \cup {NoDoc}]
      /\ etag \in [Holders -> Doc \cup {NoDoc}]
      /\ local \in [Holders -> Doc \cup {NoDoc}]
  BY DEF Init
<1>4. /\ instant \in [Holders -> Nat] /\ lastRenewal \in [Holders -> Nat]
      /\ checkedAt \in [Holders -> Nat] /\ misses \in [Holders -> 0..MaxMisses - 1]
  BY TimeAssumption DEF Init
<1> QED
  BY <1>1, <1>2, <1>3, <1>4 DEF TypeOK

\* The part of TypeOK about the locals of processes.
Locals ==
  /\ pc \in [Holders -> Phases]
  /\ seen \in [Holders -> Doc \cup {NoDoc}]
  /\ etag \in [Holders -> Doc \cup {NoDoc}]
  /\ instant \in [Holders -> Nat]
  /\ local \in [Holders -> Doc \cup {NoDoc}]
  /\ lastRenewal \in [Holders -> Nat]
  /\ misses \in [Holders -> 0..MaxMisses - 1]
  /\ checkedAt \in [Holders -> Nat]
  /\ late \subseteq Holders

\* Ending a call or a process, and a failed acquisition or renewal, keep the
\* locals of every process well typed.
LEMMA EndCallTyped ==
  ASSUME Locals, NEW h \in Holders, EndCall(h)
  PROVE  /\ seen' \in [Holders -> Doc \cup {NoDoc}]
         /\ etag' \in [Holders -> Doc \cup {NoDoc}]
         /\ instant' \in [Holders -> Nat]
  BY DEF EndCall, Locals

LEMMA EndProcessTyped ==
  ASSUME Locals, NEW h \in Holders, NEW p \in Phases, EndProcess(h, p)
  PROVE  Locals'
<1>1. pc' \in [Holders -> Phases] /\ local' \in [Holders -> Doc \cup {NoDoc}]
  BY DEF EndProcess, Locals
<1>2. /\ lastRenewal' \in [Holders -> Nat] /\ checkedAt' \in [Holders -> Nat]
      /\ misses' \in [Holders -> 0..MaxMisses - 1]
  BY TimeAssumption DEF EndProcess, Locals
<1> QED
  BY <1>1, <1>2, EndCallTyped DEF EndProcess, Locals

LEMMA AcquireFailsTyped ==
  ASSUME Locals, NEW h \in Holders, AcquireFails(h)
  PROVE  Locals'
<1>1. CASE h \in Evaluators
  <2>1. pc' \in [Holders -> Phases]
    BY <1>1 DEF AcquireFails, Locals, Phases
  <2> QED
    BY <1>1, <2>1, EndCallTyped DEF AcquireFails, Locals
<1>2. CASE h \notin Evaluators
  BY <1>2, EndProcessTyped DEF AcquireFails, Phases
<1> QED
  BY <1>1, <1>2

LEMMA RenewalFailedTyped ==
  ASSUME Locals, NEW h \in Holders, RenewalFailed(h)
  PROVE  Locals'
<1>1. pc' \in [Holders -> Phases]
  BY DEF RenewalFailed, Locals, Phases, Busy
<1>2. misses' \in [Holders -> 0..MaxMisses - 1]
  BY TimeAssumption DEF RenewalFailed, Locals, GivesUp
<1> QED
  BY <1>1, <1>2, EndCallTyped DEF RenewalFailed, Locals

LEMMA StepTyped ==
  ASSUME TypeOK, NEW h \in Holders, Step(h)
  PROVE  TypeOK'
<1>a. Skew[h] \in Nat /\ Clock(h) \in Nat /\ now \in Nat
  BY TimeAssumption DEF TypeOK, Clock
<1>b. NewLease(h) \in Doc /\ Renewed(h) \in Doc
  BY TimeAssumption DEF NewLease, Renewed, TypeOK, Doc, NoDoc
<1>c. Locals
  BY DEF TypeOK, Locals
<1>d. Locals' /\ lease' \in Doc \cup {NoDoc} /\ UNCHANGED now
      /\ tookUnread' \in BOOLEAN => TypeOK'
  BY DEF TypeOK, Locals
<1>1. CASE AcquireRead(h)
  BY <1>1, <1>a DEF AcquireRead, TypeOK, Phases, Busy
<1>2. CASE AcquireHead(h)
  <2>1. CASE AcquireFails(h)
    BY <1>2, <2>1, <1>c, <1>d, AcquireFailsTyped DEF AcquireHead, TypeOK
  <2>2. CASE ~AcquireFails(h)
    BY <1>2, <2>2 DEF AcquireHead, TypeOK, Phases, Busy
  <2> QED
    BY <2>1, <2>2
<1>3. CASE AcquirePut(h)
  BY <1>3, <1>a, <1>b, <1>c, EndCallTyped DEF AcquirePut, TypeOK, Phases, Busy
<1>4. CASE AcquirePutUnanswered(h)
  BY <1>4, <1>b, <1>c, <1>d, AcquireFailsTyped DEF AcquirePutUnanswered, TypeOK
<1>5. CASE AcquirePutFailed(h)
  BY <1>5, <1>c, <1>d, AcquireFailsTyped DEF AcquirePutFailed, TypeOK
<1>6. CASE Iterate(h)
  BY <1>6, <1>a DEF Iterate, Look, BeginRenewal, TypeOK, Phases, Busy
<1>7. CASE EvaluatorRenew(h)
  BY <1>7, <1>a DEF EvaluatorRenew, BeginRenewal, TypeOK, Phases, Busy
<1>8. CASE RenewPut(h)
  <2>1. misses' \in [Holders -> 0..MaxMisses - 1]
    BY <1>8, TimeAssumption DEF RenewPut, TypeOK
  <2> QED
    BY <1>8, <2>1, <1>b, <1>c, EndCallTyped DEF RenewPut, TypeOK, Phases, Busy
<1>9. CASE RenewPutUnanswered(h)
  BY <1>9, <1>b, <1>c, <1>d, RenewalFailedTyped DEF RenewPutUnanswered, TypeOK
<1>10. CASE RenewPutFailed(h)
  BY <1>10, <1>c, <1>d, RenewalFailedTyped DEF RenewPutFailed, TypeOK
<1>11. CASE Release(h)
  BY <1>11, <1>c, <1>d, EndProcessTyped DEF Release, TypeOK, Phases
<1>12. CASE LastReceipt(h)
  BY <1>12, <1>c, <1>d, EndProcessTyped DEF LastReceipt, TypeOK, Phases
<1>13. CASE FinishWrites(h)
  BY <1>13 DEF FinishWrites, TypeOK, Phases
<1>14. CASE Exit(h)
  BY <1>14, <1>c, <1>d, EndProcessTyped DEF Exit, TypeOK, Phases
<1> QED
  BY <1>1, <1>2, <1>3, <1>4, <1>5, <1>6, <1>7, <1>8, <1>9, <1>10, <1>11, <1>12,
     <1>13, <1>14 DEF Step

\* TypeOK holds in every reachable state.
THEOREM TypeCorrect == Spec => []TypeOK
<1>1. TypeOK /\ [Next]_vars => TypeOK'
  <2> SUFFICES ASSUME TypeOK, [Next]_vars PROVE TypeOK'
    OBVIOUS
  <2>1. CASE Tick
    BY <2>1, TimeAssumption DEF Tick, TypeOK
  <2>2. CASE \E h \in Holders : Step(h)
    BY <2>2, StepTyped
  <2>3. CASE UNCHANGED vars
    BY <2>3 DEF vars, TypeOK
  <2> QED
    BY <2>1, <2>2, <2>3 DEF Next
<1> QED
  BY <1>1, InitTyped, PTL DEF Spec

-----------------------------------------------------------------------------
(* Framing: what a step of one process leaves of another, and of the lease. *)

SameLocals(g) ==
  /\ pc'[g] = pc[g] /\ seen'[g] = seen[g] /\ instant'[g] = instant[g]
  /\ local'[g] = local[g] /\ lastRenewal'[g] = lastRenewal[g]
  /\ misses'[g] = misses[g] /\ checkedAt'[g] = checkedAt[g]
  /\ g \in late' <=> g \in late

\* A step of one process touches no local of another, and takes no time.
LEMMA OthersUntouched ==
  ASSUME TypeOK, NEW h \in Holders, Step(h), NEW g \in Holders \ {h}
  PROVE  SameLocals(g) /\ UNCHANGED now
<1>a. ASSUME EndCall(h)
      PROVE  seen'[g] = seen[g] /\ instant'[g] = instant[g]
  BY <1>a DEF EndCall, TypeOK
<1>b. ASSUME NEW p, EndProcess(h, p)
      PROVE  SameLocals(g)
  BY <1>b, <1>a DEF EndProcess, SameLocals, TypeOK
<1>c. ASSUME AcquireFails(h)
      PROVE  SameLocals(g)
  BY <1>c, <1>b, <1>a DEF AcquireFails, SameLocals, TypeOK
<1>d. ASSUME RenewalFailed(h)
      PROVE  SameLocals(g)
  BY <1>d, <1>a DEF RenewalFailed, SameLocals, TypeOK
<1>1. CASE AcquireRead(h) \/ AcquireHead(h)
  BY <1>1, <1>c DEF AcquireRead, AcquireHead, SameLocals, TypeOK
<1>2. CASE AcquirePut(h) \/ RenewPut(h)
  BY <1>2, <1>a DEF AcquirePut, RenewPut, SameLocals, TypeOK
<1>3. CASE AcquirePutUnanswered(h) \/ AcquirePutFailed(h)
  BY <1>3, <1>c DEF AcquirePutUnanswered, AcquirePutFailed
<1>4. CASE Iterate(h) \/ EvaluatorRenew(h)
  BY <1>4 DEF Iterate, Look, EvaluatorRenew, BeginRenewal, SameLocals, TypeOK
<1>5. CASE RenewPutUnanswered(h) \/ RenewPutFailed(h)
  BY <1>5, <1>d DEF RenewPutUnanswered, RenewPutFailed
<1>6. CASE Release(h) \/ Exit(h) \/ LastReceipt(h)
  BY <1>6, <1>b DEF Release, Exit, LastReceipt
<1>7. CASE FinishWrites(h)
  BY <1>7 DEF FinishWrites, SameLocals, TypeOK
<1> QED
  BY <1>1, <1>2, <1>3, <1>4, <1>5, <1>6, <1>7 DEF Step

Takes(h) ==
  /\ pc[h] = "headed"
  /\ lease' = NewLease(h)
  /\ tookUnread' = (tookUnread \/ lease # seen[h])
Renews(h) ==
  /\ pc[h] = "renewing"
  /\ lease = local[h]
  /\ lease' = Renewed(h)
  /\ tookUnread' = tookUnread
Releases(h) ==
  /\ h \in Operators /\ pc[h] = "working" /\ pc'[h] = "done"
  /\ lease = local[h]
  /\ lease' = NoDoc
  /\ tookUnread' = tookUnread

\* The object changes only by a take-over, by a renewal or by a release.
LEMMA LeaseWrites ==
  ASSUME TypeOK, NEW h \in Holders, Step(h)
  PROVE  (lease' = lease /\ tookUnread' = tookUnread) \/ Takes(h) \/ Renews(h) \/ Releases(h)
<1>1. CASE AcquirePut(h) \/ AcquirePutUnanswered(h)
  BY <1>1 DEF AcquirePut, AcquirePutUnanswered, Takes
<1>2. CASE RenewPut(h) \/ RenewPutUnanswered(h)
  BY <1>2 DEF RenewPut, RenewPutUnanswered, RenewMatches, Renews
<1>3. CASE Release(h)
  BY <1>3 DEF Release, ReleaseMatches, Releases, EndProcess, TypeOK
<1>4. CASE AcquireRead(h) \/ AcquireHead(h) \/ AcquirePutFailed(h) \/ Iterate(h)
           \/ EvaluatorRenew(h)
  BY <1>4 DEF AcquireRead, AcquireHead, AcquirePutFailed, Iterate, EvaluatorRenew
<1>5. CASE RenewPutFailed(h) \/ LastReceipt(h) \/ FinishWrites(h) \/ Exit(h)
  BY <1>5 DEF RenewPutFailed, LastReceipt, FinishWrites, Exit
<1> QED
  BY <1>1, <1>2, <1>3, <1>4, <1>5 DEF Step

\* A write of the lease by one process takes no unexpired lease from another,
\* as long as every document replaced had been read.
LEMMA OthersKeepTheirs ==
  ASSUME IInv, NEW h \in Holders, Step(h), NEW g \in Holders \ {h}
  PROVE  HInv(g)'
<1>a. SameLocals(g) /\ UNCHANGED now
  BY OthersUntouched DEF IInv
<1>b. HInv(g) /\ HInv(h) /\ TypeOK
  BY DEF IInv
<1>c. /\ Skew[h] \in 0..MaxSkew /\ Skew[g] \in 0..MaxSkew
      /\ TTL \in Nat /\ MaxSkew \in Nat /\ now \in Nat
  BY <1>b, TimeAssumption DEF TypeOK
<1>1. Known(g)' /\ Timed(g)'
  BY <1>a, <1>b DEF HInv, Known, Timed, Punctual, Overdue, Away, SameLocals
<1>2. Called(g)'
  BY <1>a, <1>b DEF HInv, Called, SameLocals, HeldByOther
<1>3. Owned(g)'
  <2> SUFFICES ASSUME ~tookUnread', local[g].expires > now + MaxSkew
               PROVE  lease'.holder = g /\ lease'.expires >= local[g].expires
    BY <1>a DEF Owned, SameLocals
  <2>1. CASE lease' = lease /\ tookUnread' = tookUnread
    BY <2>1, <1>b DEF HInv, Owned
  <2>o. ASSUME ~tookUnread
        PROVE  lease.holder = g /\ lease.expires >= local[g].expires
    BY <2>o, <1>b DEF HInv, Owned
  <2>2. CASE Takes(h)
    <3>1. ~tookUnread /\ lease = seen[h]
      BY <2>2 DEF Takes
    <3>2. lease.holder = g /\ lease.expires >= local[g].expires
      BY <3>1, <2>o
    <3>3. lease.expires <= instant[h]
      <4>1. lease \in Doc /\ instant[h] \in Nat
        BY <3>2, <1>b, RolesAssumption DEF TypeOK, Doc, NoDoc
      <4>2. ~HeldByOther(h, lease)
        BY <2>2, <3>1, <1>b DEF Takes, HInv, Called
      <4> QED
        BY <4>1, <4>2, <3>2 DEF HeldByOther, Doc
    <3>4. instant[h] <= now + Skew[h] /\ instant[h] \in Nat
      BY <2>2, <1>b, <1>c DEF Takes, HInv, Called, Busy, TypeOK
    <3>5. lease.expires \in Nat /\ local[g].expires \in Nat
      BY <1>b DEF TypeOK, Doc, NoDoc
    <3> QED
      BY <3>2, <3>3, <3>4, <3>5, <1>c
  <2>3. CASE Renews(h) \/ Releases(h)
    <3>1. lease = local[h] /\ local[h] # NoDoc /\ ~tookUnread
      BY <2>3, <1>b DEF Renews, Releases, HInv, Known
    <3>2. lease.holder = h
      BY <3>1, <1>b DEF HInv, Known
    <3> QED
      BY <3>1, <3>2, <2>o
  <2> QED
    BY <2>1, <2>2, <2>3, <1>b, LeaseWrites
<1> QED
  BY <1>1, <1>2, <1>3 DEF HInv

-----------------------------------------------------------------------------
(* What a step of a process does to its own facts. *)

Arith(h) ==
  /\ now \in Nat /\ Skew[h] \in Nat /\ Skew[h] <= MaxSkew /\ MaxSkew \in Nat
  /\ TTL \in Nat /\ MaxGap \in Nat /\ RenewEvery \in Nat /\ RenewEvery >= 1
  /\ RenewEvery + 4 * MaxGap + MaxSkew <= TTL
  /\ instant[h] \in Nat /\ lastRenewal[h] \in Nat /\ checkedAt[h] \in Nat
  /\ misses[h] \in {0, 1} /\ local[h].expires \in Nat /\ local[h].gen \in Nat
  /\ lease.expires \in Nat

LEMMA Numbers == ASSUME TypeOK, NEW h \in Holders PROVE Arith(h)
<1>1. lease.expires \in Nat /\ local[h].expires \in Nat /\ local[h].gen \in Nat
  BY DEF TypeOK, Doc, NoDoc
<1>2. /\ now \in Nat /\ Skew[h] \in Nat /\ Skew[h] <= MaxSkew /\ MaxSkew \in Nat
      /\ TTL \in Nat /\ MaxGap \in Nat /\ RenewEvery \in Nat /\ RenewEvery >= 1
  BY TimeAssumption DEF TypeOK
<1>3. /\ instant[h] \in Nat /\ lastRenewal[h] \in Nat /\ checkedAt[h] \in Nat
      /\ misses[h] \in {0, 1}
  BY TimeAssumption DEF TypeOK
<1> QED
  BY <1>1, <1>2, <1>3, BudgetAssumption DEF Arith

\* A process that has ended, or whose call failed, has no fact left to keep.
LEMMA EndedKeeps ==
  ASSUME TypeOK, NEW h \in Holders, EndProcess(h, "done"), UNCHANGED now
  PROVE  HInv(h)'
<1>1. pc'[h] = "done" /\ local'[h] = NoDoc
  BY DEF EndProcess, TypeOK
<1>2. local'[h].expires = 0 /\ pc'[h] \notin Busy
  BY <1>1 DEF NoDoc, Busy
<1>3. Punctual(h)'
  BY <1>1 DEF Punctual
<1> QED
  BY <1>1, <1>2, <1>3, Numbers DEF HInv, Known, Called, Timed, Owned, Arith, Busy

LEMMA AcquireFailsKeeps ==
  ASSUME IInv, NEW h \in Holders, AcquireFails(h), UNCHANGED now,
         \/ lease' = lease /\ tookUnread' = tookUnread
         \/ Takes(h)
  PROVE  HInv(h)'
<1> HInv(h) /\ TypeOK /\ Arith(h)
  BY Numbers DEF IInv
<1>1. CASE h \notin Evaluators
  BY <1>1, EndedKeeps DEF AcquireFails
<1>2. CASE h \in Evaluators
  <2>1. pc'[h] = "idle" /\ local' = local /\ h \notin Supervisors
    BY <1>2, RolesAssumption DEF AcquireFails, TypeOK
  <2>2. Known(h)' /\ Called(h)' /\ Timed(h)'
    BY <2>1 DEF HInv, Known, Called, Timed, Punctual, Busy
  <2>3. Owned(h)'
    <3>1. CASE lease' = lease /\ tookUnread' = tookUnread
      BY <2>1, <3>1 DEF HInv, Owned
    <3>2. CASE Takes(h)
      <4>1. lease'.holder = h /\ lease'.expires = instant[h] + TTL
        BY <3>2 DEF Takes, NewLease
      <4> SUFFICES ASSUME ~tookUnread', local[h].expires > now + MaxSkew
                   PROVE  lease'.expires >= local[h].expires
        BY <2>1, <4>1 DEF Owned
      <4>2. local[h].expires <= instant[h]
        BY <3>2 DEF Takes, HInv, Called
      <4> QED
        BY <4>1, <4>2 DEF Arith
    <3> QED
      BY <3>1, <3>2
  <2> QED
    BY <2>2, <2>3 DEF HInv
<1> QED
  BY <1>1, <1>2

LEMMA RenewalFailedKeeps ==
  ASSUME IInv, NEW h \in Holders, pc[h] = "renewing", RenewalFailed(h), UNCHANGED now,
         \/ lease' = lease /\ tookUnread' = tookUnread
         \/ Renews(h)
  PROVE  HInv(h)'
<1> HInv(h) /\ TypeOK /\ Arith(h)
  BY Numbers DEF IInv
<1>1. /\ h \in Supervisors =>
            \/ /\ GivesUp(h) /\ pc'[h] = "closing"
               /\ misses'[h] = misses[h]
            \/ /\ misses[h] = 0 /\ misses'[h] = 1
               /\ pc'[h] = "working"
      /\ h \notin Supervisors => pc'[h] = "idle"
      /\ local' = local /\ checkedAt' = checkedAt /\ lastRenewal' = lastRenewal
      /\ late' = late
  BY TimeAssumption DEF RenewalFailed, GivesUp, TypeOK, Arith
<1>2. Known(h)'
  BY <1>1 DEF HInv, Known
<1>3. Called(h)'
  BY <1>1 DEF HInv, Called, Busy
<1>4. Timed(h)'
  <2> SUFFICES ASSUME ~Overdue(h)' PROVE Punctual(h)'
    BY DEF Timed
  <2>1. Punctual(h)
    BY <1>1 DEF HInv, Timed, Overdue, Away
  <2>2. CASE h \in Supervisors
    BY <1>1, <2>1, <2>2 DEF Punctual, Arith
  <2>3. CASE h \notin Supervisors
    BY <1>1, <2>3 DEF Punctual
  <2> QED
    BY <2>2, <2>3
<1>5. Owned(h)'
  <2>1. CASE lease' = lease /\ tookUnread' = tookUnread
    BY <1>1, <2>1 DEF HInv, Owned
  <2>2. CASE Renews(h)
    <3>1. lease'.holder = h /\ lease'.expires = instant[h] + TTL
      BY <2>2 DEF Renews, Renewed
    <3> QED
      BY <1>1, <3>1 DEF Owned, HInv, Called, Arith
  <2> QED
    BY <2>1, <2>2
<1> QED
  BY <1>2, <1>3, <1>4, <1>5 DEF HInv

LEMMA OwnStepKeeps ==
  ASSUME IInv, NEW h \in Holders, Step(h)
  PROVE  HInv(h)'
<1> HInv(h) /\ TypeOK /\ Arith(h)
  BY Numbers DEF IInv
<1>1. CASE AcquireRead(h)
  <2>1. /\ pc'[h] = "read" /\ instant'[h] = now + Skew[h] /\ checkedAt'[h] = now
        /\ local' = local /\ lease' = lease /\ now' = now /\ tookUnread' = tookUnread
    BY <1>1 DEF AcquireRead, TypeOK, Clock
  <2>2. local[h].expires <= now + Skew[h]
    BY <1>1 DEF AcquireRead, Clock, NoDoc, Arith
  <2>3. Punctual(h)'
    BY <2>1 DEF Punctual
  <2> QED
    BY <2>1, <2>2, <2>3 DEF HInv, Known, Called, Timed, Owned, Busy, Arith
<1>2. CASE AcquireHead(h)
  <2>1. CASE AcquireFails(h)
    BY <1>2, <2>1, AcquireFailsKeeps DEF AcquireHead
  <2>2. CASE ~AcquireFails(h)
    <3>1. /\ pc[h] = "read" /\ pc'[h] = "headed" /\ ~HeldByOther(h, seen[h])
          /\ UNCHANGED <<seen, instant, local, lastRenewal, misses, checkedAt, now,
                         late, lease, tookUnread>>
      BY <1>2, <2>2 DEF AcquireHead, TypeOK
    <3>2. Punctual(h)'
      BY <3>1 DEF Punctual
    <3> QED
      BY <3>1, <3>2 DEF HInv, Known, Called, Timed, Owned, HeldByOther, Busy
  <2> QED
    BY <2>1, <2>2
<1>3. CASE AcquirePut(h)
  <2>1. /\ pc[h] = "headed" /\ pc'[h] = "working" /\ local'[h] = NewLease(h)
        /\ lease' = NewLease(h) /\ lastRenewal'[h] = now
        /\ misses' = misses /\ checkedAt' = checkedAt /\ now' = now
    BY <1>3 DEF AcquirePut, TypeOK
  <2>2. /\ NewLease(h).holder = h /\ NewLease(h).expires = instant[h] + TTL
        /\ NewLease(h) # NoDoc
    BY RolesAssumption DEF NewLease, NoDoc
  <2>3. instant[h] = checkedAt[h] + Skew[h] /\ checkedAt[h] <= now
    BY <2>1 DEF HInv, Called, Busy
  <2>4. Known(h)' /\ Called(h)' /\ Owned(h)'
    BY <2>1, <2>2, <2>3 DEF Known, Called, Owned, Busy, Arith
  <2>5. Timed(h)'
    <3> SUFFICES ASSUME now <= checkedAt[h] + MaxGap PROVE Punctual(h)'
      BY <2>1 DEF Timed, Overdue, Away, Arith
    <3> QED
      BY <2>1, <2>2, <2>3 DEF Punctual, Arith
  <2> QED
    BY <2>4, <2>5 DEF HInv
<1>4. CASE AcquirePutUnanswered(h) \/ AcquirePutFailed(h)
  BY <1>4, AcquireFailsKeeps DEF AcquirePutUnanswered, AcquirePutFailed, Takes
<1>5. CASE Iterate(h) /\ ~RenewalDue(h)
  <2>1. /\ h \in Supervisors /\ pc[h] = "working" /\ pc' = pc /\ checkedAt'[h] = now
        /\ now - lastRenewal[h] < RenewEvery
        /\ late' = IF Away(h) THEN late \cup {h} ELSE late
        /\ UNCHANGED <<instant, local, lastRenewal, misses, now, lease, tookUnread>>
    BY <1>5 DEF Iterate, Look, RenewalDue, TypeOK, Arith
  <2>2. Known(h)' /\ Owned(h)' /\ Called(h)'
    BY <2>1 DEF HInv, Known, Owned, Called, Busy, Arith
  <2>3. Timed(h)'
    <3> SUFFICES ASSUME ~Overdue(h)' PROVE Punctual(h)'
      BY DEF Timed
    <3>1. ~Overdue(h)
      BY <2>1 DEF Overdue
    <3>2. Punctual(h)
      BY <3>1 DEF HInv, Timed
    <3> QED
      BY <2>1, <3>2 DEF Punctual, Arith
  <2> QED
    BY <2>2, <2>3 DEF HInv
<1>6. CASE (Iterate(h) /\ RenewalDue(h)) \/ EvaluatorRenew(h)
  <2>1. /\ pc'[h] = "renewing" /\ checkedAt'[h] = now /\ instant'[h] = now + Skew[h]
        /\ UNCHANGED <<local, lastRenewal, misses, now, lease, tookUnread>>
    BY <1>6 DEF Iterate, Look, EvaluatorRenew, BeginRenewal, TypeOK, Clock
  <2>2. h \in Supervisors => /\ pc[h] = "working"
                             /\ late' = IF Away(h) THEN late \cup {h} ELSE late
    BY <1>6, RolesAssumption DEF Iterate, Look, EvaluatorRenew
  <2>3. local[h] # NoDoc
    <3>1. CASE pc[h] = "working"
      BY <3>1 DEF HInv, Known
    <3>2. CASE EvaluatorRenew(h)
      BY <3>2 DEF EvaluatorRenew, NoDoc, Clock, Arith
    <3> QED
      BY <1>6, <3>1, <3>2 DEF Iterate
  <2>4. Known(h)' /\ Owned(h)' /\ Called(h)'
    BY <2>1, <2>3 DEF HInv, Known, Owned, Called, Busy, Arith
  <2>5. Timed(h)'
    <3> SUFFICES ASSUME ~Overdue(h)' PROVE Punctual(h)'
      BY DEF Timed
    <3>1. CASE h \in Supervisors
      <4>1. ~Overdue(h)
        BY <2>2, <3>1 DEF Overdue
      <4>2. Punctual(h) /\ now <= checkedAt[h] + MaxGap
        BY <4>1 DEF HInv, Timed, Overdue, Away, Arith
      <4> QED
        BY <2>1, <2>2, <3>1, <4>2 DEF Punctual, Arith
    <3>2. CASE h \notin Supervisors
      BY <2>1, <3>2 DEF Punctual
    <3> QED
      BY <3>1, <3>2
  <2> QED
    BY <2>4, <2>5 DEF HInv
<1>7. CASE RenewPut(h)
  <2>1. /\ pc[h] = "renewing" /\ pc'[h] = "working" /\ local'[h] = Renewed(h)
        /\ lease' = Renewed(h) /\ lastRenewal'[h] = checkedAt[h] /\ misses'[h] = 0
        /\ checkedAt' = checkedAt /\ now' = now
    BY <1>7 DEF RenewPut, TypeOK
  <2>2. /\ Renewed(h).holder = h /\ Renewed(h).expires = instant[h] + TTL
        /\ Renewed(h) # NoDoc
    BY RolesAssumption DEF Renewed, NoDoc
  <2>3. instant[h] = checkedAt[h] + Skew[h] /\ checkedAt[h] <= now
    BY <2>1 DEF HInv, Called, Busy
  <2>4. Known(h)' /\ Called(h)' /\ Owned(h)'
    BY <2>1, <2>2, <2>3 DEF Known, Called, Owned, Busy, Arith
  <2>5. Timed(h)'
    <3> SUFFICES ASSUME now <= checkedAt[h] + MaxGap PROVE Punctual(h)'
      BY <2>1 DEF Timed, Overdue, Away, Arith
    <3> QED
      BY <2>1, <2>2, <2>3 DEF Punctual, Arith
  <2> QED
    BY <2>4, <2>5 DEF HInv
<1>8. CASE RenewPutUnanswered(h) \/ RenewPutFailed(h)
  BY <1>8, RenewalFailedKeeps
     DEF RenewPutUnanswered, RenewPutFailed, Renews, RenewMatches
<1>9. CASE Release(h) \/ Exit(h) \/ LastReceipt(h)
  BY <1>9, EndedKeeps DEF Release, Exit, LastReceipt
<1>10. CASE FinishWrites(h)
  <2>1. /\ pc'[h] = "idle"
        /\ UNCHANGED <<seen, instant, local, lastRenewal, misses, checkedAt, now,
                       late, lease, tookUnread>>
    BY <1>10 DEF FinishWrites, TypeOK
  <2>2. Punctual(h)'
    BY <2>1 DEF Punctual
  <2> QED
    BY <2>1, <2>2 DEF HInv, Known, Called, Timed, Owned, HeldByOther, Busy
<1> QED
  BY <1>1, <1>2, <1>3, <1>4, <1>5, <1>6, <1>7, <1>8, <1>9, <1>10 DEF Step

-----------------------------------------------------------------------------
(* The invariant and what follows from it. *)

LEMMA InitIInv == Init => IInv
<1> SUFFICES ASSUME Init PROVE IInv
  OBVIOUS
<1>1. TypeOK
  BY InitTyped
<1>2. ASSUME NEW h \in Holders PROVE HInv(h)
  <2>1. /\ pc[h] = "idle" /\ local[h] = NoDoc /\ local[h].expires = 0
    BY DEF Init, NoDoc
  <2> QED
    BY <2>1, <1>1, Numbers DEF HInv, Known, Called, Timed, Punctual, Owned, Busy, Arith
<1> QED
  BY <1>1, <1>2 DEF IInv

LEMMA NextKeepsIInv == IInv /\ [Next]_vars => IInv'
<1> SUFFICES ASSUME IInv, [Next]_vars PROVE IInv'
  OBVIOUS
<1>1. CASE Tick
  <2>1. TypeOK'
    BY <1>1, TimeAssumption DEF Tick, TypeOK, IInv
  <2>2. ASSUME NEW h \in Holders PROVE HInv(h)'
    <3> HInv(h) /\ Arith(h)
      BY Numbers DEF IInv
    <3>1. /\ now' = now + 1
          /\ UNCHANGED <<lease, pc, seen, instant, local, lastRenewal, misses,
                         checkedAt, late, tookUnread>>
      BY <1>1 DEF Tick
    <3>2. Timed(h)'
      <4> SUFFICES ASSUME ~Overdue(h)' PROVE Punctual(h)'
        BY DEF Timed
      <4>1. ~Overdue(h)
        BY <3>1, TimeAssumption DEF Overdue, Away, Arith
      <4> QED
        BY <3>1, <4>1 DEF HInv, Timed, Punctual
    <3> QED
      BY <3>1, <3>2 DEF HInv, Known, Called, Owned, HeldByOther, Arith
  <2> QED
    BY <2>1, <2>2 DEF IInv
<1>2. ASSUME NEW h \in Holders, Step(h) PROVE IInv'
  <2>1. TypeOK'
    BY <1>2, StepTyped DEF IInv
  <2>2. ASSUME NEW g \in Holders PROVE HInv(g)'
    BY <1>2, OwnStepKeeps, OthersKeepTheirs
  <2> QED
    BY <2>1, <2>2 DEF IInv
<1>3. CASE UNCHANGED vars
  BY <1>3 DEF vars, IInv, TypeOK, HInv, Known, Called, Timed, Punctual, Overdue, Away,
              Owned, HeldByOther
<1> QED
  BY <1>1, <1>2, <1>3 DEF Next

LEMMA Invariance == Spec => []IInv
  BY InitIInv, NextKeepsIInv, PTL DEF Spec

LEMMA IInvWritesBeforeExpiry == IInv => WritesBeforeExpiry
<1> SUFFICES ASSUME IInv, NEW h \in Holders, pc[h] \in {"working", "closing"}, ~Overdue(h)
             PROVE  now + MaxSkew < local[h].expires
  BY DEF WritesBeforeExpiry, Writers
<1> HInv(h) /\ Arith(h)
  BY Numbers DEF IInv
<1>1. checkedAt[h] <= now /\ now <= checkedAt[h] + MaxGap /\ Punctual(h)
  BY DEF HInv, Called, Timed, Overdue, Away, Busy, Arith
<1>2. CASE h \in Supervisors
  BY <1>1, <1>2 DEF Punctual, Arith
<1>3. CASE h \notin Supervisors
  BY <1>1, <1>3 DEF Punctual, Arith
<1> QED
  BY <1>2, <1>3

\* Whoever has not stayed away from its lease for more than MaxGap writes only
\* strictly before any clock reaches its lease's expiry: _renew_lease's interval,
\* retry and two misses, and the receipt after them, fit in the TTL.
THEOREM NoWriteUnderExpiredLease == Spec => []WritesBeforeExpiry
  BY Invariance, IInvWritesBeforeExpiry, PTL

\* For any number of supervisors, operators and batch evaluators, a writer still owns
\* the lease object unless it is overdue or an acquisition replaced a document it
\* had not read.
THEOREM WritersOwnLease == Spec => []WriterOwnsLease
<1>1. IInv => WriterOwnsLease
  <2> SUFFICES ASSUME IInv, ~tookUnread, NEW h \in Writers, ~Overdue(h)
               PROVE  lease.holder = h
    BY DEF WriterOwnsLease
  <2>1. h \in Holders /\ now + MaxSkew < local[h].expires /\ HInv(h) /\ Arith(h)
    BY IInvWritesBeforeExpiry, Numbers DEF Writers, WritesBeforeExpiry, IInv
  <2> QED
    BY <2>1 DEF HInv, Owned, Arith
<1> QED
  BY <1>1, Invariance, PTL

\* The lease object disappears only when the operator it names ends its work.
THEOREM ReleaseIsOwn == Spec => ReleaseRemovesOwn
<1>1. IInv /\ [Next]_vars =>
        [(lease # NoDoc /\ lease' = NoDoc)
           => LET h == lease.holder
              IN h \in Operators /\ pc[h] = "working" /\ pc'[h] = "done"]_vars
  <2> SUFFICES ASSUME IInv, Next, lease # NoDoc, lease' = NoDoc
               PROVE  /\ lease.holder \in Operators
                      /\ pc[lease.holder] = "working" /\ pc'[lease.holder] = "done"
    OBVIOUS
  <2>1. PICK h \in Holders : Step(h)
    BY DEF Next, Tick
  <2>2. NewLease(h) # NoDoc /\ Renewed(h) # NoDoc
    BY RolesAssumption DEF NewLease, Renewed, NoDoc
  <2>3. Releases(h)
    BY <2>1, <2>2, LeaseWrites DEF Takes, Renews, IInv
  <2>4. lease = local[h] /\ local[h].holder = h
    BY <2>3 DEF Releases, IInv, HInv, Known
  <2> QED
    BY <2>3, <2>4 DEF Releases
<1> QED
  BY <1>1, Invariance, PTL DEF Spec, ReleaseRemovesOwn

\* The generation of a live lease only grows, unless an acquisition replaced a
\* document it had not read.
THEOREM GenerationGrows == Spec => GenerationsIncrease
<1>1. IInv /\ [Next]_vars =>
        [(lease # NoDoc /\ lease' \notin {lease, NoDoc} /\ ~tookUnread')
           => lease'.gen > lease.gen]_vars
  <2> SUFFICES ASSUME IInv, Next, lease' \notin {lease, NoDoc}, ~tookUnread'
               PROVE  lease'.gen > lease.gen
    OBVIOUS
  <2>1. PICK h \in Holders : Step(h)
    BY DEF Next, Tick
  <2>2. lease.gen \in Nat
    BY DEF IInv, TypeOK, Doc, NoDoc
  <2>3. CASE Takes(h)
    <3>1. lease = seen[h]
      BY <2>3 DEF Takes
    <3>2. lease'.gen = seen[h].gen + 1
      BY <2>3 DEF Takes, NewLease
    <3> QED
      BY <2>2, <3>1, <3>2
  <2>4. CASE Renews(h)
    BY <2>2, <2>4 DEF Renews, Renewed
  <2> QED
    BY <2>1, <2>3, <2>4, LeaseWrites DEF Releases, IInv
<1> QED
  BY <1>1, Invariance, PTL DEF Spec, GenerationsIncrease

-----------------------------------------------------------------------------
(* MetricDelivery: the metrics of a run, for every set of events and       *)
(* results, every size of segments and publications with 2B <= S, and any  *)
(* number of attempts and faults.                                          *)
(*                                                                         *)
(* MetricInv strengthens the two safety properties with facts of four      *)
(* kinds: the marks of a ledger and the batch that is under way (MarksOK,  *)
(* PlaceOK), how far the seals may trail the publications (CountsOK), that *)
(* all attempts sealed the events in the one order in which every ledger   *)
(* has them (JournalOK), and that each row that is marked as published is  *)
(* at W&B, on its way or known to be lost (DeliveryOK).                    *)
USE LimitsAssumption, BoundsAssumption, EventsAssumption

Real(i) == i \in DOMAIN rows /\ rows[i] # Nothing
Unsent == After(rows, published)
Behind == {i \in After(rows, sealed) : i <= published}
Mark == IF stage = "record" THEN High(batch) ELSE sealed

(* There is a ledger: rebuilt by this attempt, or found by it.             *)
Held == stage # "start" \/ rows # <<>>

(* The ledger has an event once.  The marks are rows of it, and a batch is *)
(* the beginning of what is to be sealed or published.                     *)
Unrepeated(events) ==
  \A i, j \in DOMAIN events : events[i] = events[j] /\ events[i] # Nothing => i = j
OnceInRows == Unrepeated(rows)

Begins(some, all) == some \subseteq all /\ \A i \in some, j \in all \ some : i < j

MarksOK ==
  /\ sealed # 0 => sealed \in After(rows, 0)
  /\ published # 0 => published \in After(rows, 0)
  /\ stage = "record" => batch # {} /\ Begins(batch, After(rows, sealed))
  /\ stage = "publish" => Begins(batch, Unsent)
  /\ stage \notin {"record", "publish"} => batch = {}

(* Where the supervisor is.                                                *)
PlaceOK ==
  /\ stage = "start" =>
       /\ mode = "active" /\ sdk = <<>>
       /\ \A s \in journal : s.attempt < attempt
  /\ stage \in {"finish", "archive", "done"} => mode = "last"
  /\ stage \in {"archive", "done"} => sdk = <<>>
  /\ \A s \in journal : s.attempt <= attempt
  /\ stage \notin {"archive", "done"} => \A s \in journal : s.attempt = attempt => ~s.expiring
  /\ copying # Nothing =>
       /\ stage = "archive"
       /\ copying \in journal /\ ~copying.expiring /\ Moved(copying) \in journal

(* Sealing goes before publishing, and a segment is at least two batches:  *)
(* few rows are published and not yet sealed, and the last drain seals     *)
(* them all.  What was published and not sealed when a process ended is    *)
(* little enough for the next one.                                         *)
CountsOK ==
  LET unsealed == After(rows, sealed)
  IN  /\ stage \in {"start", "interrupted"} =>
           Cardinality(Behind) <= SegmentEvents + BatchFrames - 1
      /\ stage = "seal" /\ mode # "last" =>
           Cardinality(Behind) <= SegmentEvents + BatchFrames - 1
      /\ stage = "seal" /\ mode = "last" => Cardinality(unsealed) <= SegmentEvents
      /\ stage = "record" => Cardinality(batch) <= SegmentEvents
      /\ stage = "record" /\ mode # "last" => Cardinality(Behind \ batch) <= BatchFrames - 1
      /\ stage = "record" /\ mode = "last" => batch = unsealed
      /\ stage = "poll" /\ mode = "active" => Cardinality(Behind) <= SegmentEvents - 1
      /\ stage = "poll" /\ mode = "drain" => Cardinality(Behind) <= BatchFrames - 1
      /\ stage = "publish" /\ mode = "active" =>
           Cardinality(Behind \cup batch) <= SegmentEvents + BatchFrames - 1
      /\ stage = "publish" /\ mode = "drain" =>
           Cardinality(Behind \cup batch) <= 2 * BatchFrames - 1
      /\ stage \in {"poll", "publish"} /\ mode = "last" => unsealed = {}
      /\ stage \in {"finish", "archive", "done"} => unsealed = {} /\ Unsent = {}

(* The segments of the journal: their keys differ, what is copied comes    *)
(* before what is not, and an attempt seals an event once.                 *)
KeysDiffer ==
  \A s, t \in journal :
    s.attempt = t.attempt /\ s.first = t.first /\ s.expiring = t.expiring => s = t
CopiesFirst ==
  \A s, t \in journal :
    s.attempt = t.attempt /\ t.expiring /\ ~s.expiring =>
      t.first <= s.first /\ (t.first = s.first => t = Moved(s))
SealedOnce ==
  \A p, q \in Entries :
    p[1].attempt = q[1].attempt /\ EventOf(p) = EventOf(q) =>
      p[1].first = q[1].first /\ p[2] = q[2]

(* The attempts sealed their segments in one and the same order of events, *)
(* each from where an earlier one had stopped.  While there is a ledger    *)
(* that is its order, in between the attempts agree.  (Within an attempt   *)
(* the order is that of the rows, whatever was copied.)                    *)
Sooner(p, q) ==
  /\ p[1].attempt = q[1].attempt
  /\ p[1].first < q[1].first \/ (p[1].first = q[1].first /\ p[2] < q[2])
Before(p, q) == p[1].attempt < q[1].attempt \/ Sooner(p, q)
Follows(q, e) == \E p \in Entries : Before(p, q) /\ EventOf(p) = e
LedgerOrder ==
  \A q \in Entries :
    /\ \E j \in DOMAIN rows : rows[j] = EventOf(q)
    /\ \A i, j \in DOMAIN rows :
         i < j /\ rows[j] = EventOf(q) /\ rows[i] # Nothing => Follows(q, rows[i])
Ordered ==
  \A p, q \in Entries : Sooner(p, q) =>
    \A i, j \in DOMAIN rows : rows[i] = EventOf(p) /\ rows[j] = EventOf(q) => i < j

Agreeing ==
  \A p, q, r \in Entries :
    Sooner(p, q) /\ EventOf(q) = EventOf(r) => Follows(r, EventOf(p))

(* The rows up to the mark were sealed, and this attempt has sealed no     *)
(* others.                                                                 *)
MarkedOK ==
  /\ \A i \in After(rows, 0) : i <= Mark => \E p \in Entries : EventOf(p) = rows[i]
  /\ \A s \in journal : s.attempt = attempt => s.first <= Mark
  /\ \A p \in Entries : p[1].attempt = attempt => \E i \in 1..Mark : rows[i] = EventOf(p)

JournalOK ==
  /\ IsFiniteSet(journal)
  /\ KeysDiffer /\ CopiesFirst /\ SealedOnce
  /\ ~Held => Agreeing
  /\ Held => LedgerOrder /\ Ordered /\ MarkedOK
  /\ \A e \in secured : \E p \in Entries : EventOf(p) = e

(* A row that is published is at W&B, or on its way, or was passed when    *)
(* the ledger was rebuilt, or was lost with a client; W&B has passed no    *)
(* other row that is not.  What is on its way are rows, in their order.    *)
Passed(i) == AtWandb(rows[i]) \/ i <= ahead \/ rows[i] \in lost
InSdk(i) == \E k \in DOMAIN sdk : sdk[k].step = i
SdkOK ==
  \A k \in DOMAIN sdk :
    /\ sdk[k].step \in DOMAIN rows /\ rows[sdk[k].step] = sdk[k].event
    /\ sdk[k].step > LastStep(history)
    /\ \A l \in DOMAIN sdk : k < l => sdk[k].step < sdk[l].step
DeliveryOK ==
  Held =>
    /\ \A i \in After(rows, 0) :
         /\ i <= published \/ i <= SdkHigh => Passed(i) \/ InSdk(i)
         /\ i <= LastStep(history) => Passed(i)
    /\ SdkHigh <= Len(rows) \/ SdkHigh <= ahead
    /\ SdkOK

MetricInv ==
  /\ MetricTypeOK /\ OnceInRows /\ MarksOK /\ PlaceOK /\ CountsOK /\ JournalOK /\ DeliveryOK

-----------------------------------------------------------------------------
(* The operators *)

\* A nonempty set of naturals has a least element, and one with a bound a greatest.
LEMMA MinIs ==
  ASSUME NEW S \in SUBSET Nat, S # {}
  PROVE  Min(S) \in S /\ \A n \in S : Min(S) <= n
<1> DEFINE Less == {p \in Nat \X Nat : p[1] < p[2]}
<1>1. IsWellFoundedOn(Less, Nat)
  BY NatLessThanWellFounded DEF OpToRel
<1>2. PICK m \in S : \A n \in S : <<n, m>> \notin Less
  BY <1>1, WFMin, Zenon
<1>3. ASSUME NEW n \in S
      PROVE  m <= n
  <2>1. n < m => <<n, m>> \in Less
    OBVIOUS
  <2> HIDE DEF Less
  <2> QED
    BY <1>2, <2>1
<1> QED
  BY <1>3 DEF Min

LEMMA MaxIs ==
  ASSUME NEW S \in SUBSET Nat, S # {}, NEW bound \in Nat, \A n \in S : n <= bound
  PROVE  Max(S) \in S /\ \A n \in S : n <= Max(S)
<1> DEFINE Above == {m \in Nat : \A n \in S : n <= m}
           top == Min(Above)
<1>1. bound \in Above /\ Above \in SUBSET Nat
  OBVIOUS
<1>2. top \in Above /\ \A m \in Above : top <= m
  <2> HIDE DEF Above
  <2> QED
    BY <1>1, MinIs
<1> HIDE DEF top
<1>3. top \in S
  <2> SUFFICES ASSUME top \notin S
               PROVE  FALSE
    OBVIOUS
  <2>1. PICK n \in S : TRUE
    OBVIOUS
  <2>2. top \in Nat /\ n \in Nat /\ n <= top /\ n # top
    BY <1>2, <2>1
  <2>3. top - 1 \in Nat /\ \A k \in S : k <= top - 1
    BY <1>2, <2>2
  <2>4. top - 1 \in Above
    BY <2>3
  <2> HIDE DEF Above
  <2> QED
    BY <1>2, <2>2, <2>4
<1>4. \A n \in S : top >= n
  BY <1>2
<1> QED
  BY <1>3, <1>4 DEF Max

\* High is the greatest of the numbers of a bounded set, 0 if it is empty.
LEMMA HighIs ==
  ASSUME NEW S \in SUBSET Nat, NEW bound \in Nat, \A n \in S : n <= bound
  PROVE  /\ High(S) \in Nat /\ High(S) <= bound
         /\ \A n \in S : n <= High(S)
         /\ S # {} /\ 0 \notin S => High(S) \in S
         /\ S = {} => High(S) = 0
<1>1. S \cup {0} \in SUBSET Nat /\ S \cup {0} # {} /\ \A n \in S \cup {0} : n <= bound
  OBVIOUS
<1>2. Max(S \cup {0}) \in S \cup {0} /\ \A n \in S \cup {0} : n <= Max(S \cup {0})
  BY <1>1, MaxIs
<1> DEFINE top == Max(S \cup {0})
<1>3. top \in S \cup {0} /\ \A n \in S \cup {0} : n <= top
  BY <1>2
<1> HIDE DEF top
<1>4. S # {} /\ 0 \notin S => top \in S
  <2> SUFFICES ASSUME S # {}, 0 \notin S, top = 0
               PROVE  FALSE
    BY <1>3
  <2> PICK n \in S : TRUE
    OBVIOUS
  <2> QED
    BY <1>3
<1>5. High(S) = top
  BY DEF High, top
<1> QED
  BY <1>1, <1>3, <1>4, <1>5

\* Listing a finite set by a strict total order gives each element, in that order.
Orders(R, S) ==
  /\ \A x \in S : <<x, x>> \notin R
  /\ \A x, y, z \in S : <<x, y>> \in R /\ <<y, z>> \in R => <<x, z>> \in R
  /\ \A x, y \in S : x = y \/ <<x, y>> \in R \/ <<y, x>> \in R
Lists(f, S, R) ==
  /\ Cardinality(S) \in Nat /\ f \in [1..Cardinality(S) -> S]
  /\ \A x \in S : \E n \in 1..Cardinality(S) : f[n] = x
  /\ \A m, n \in 1..Cardinality(S) : m < n <=> <<f[m], f[n]>> \in R

LEMMA InOrderLists ==
  ASSUME NEW S, IsFiniteSet(S), NEW R, Orders(R, S)
  PROVE  Lists(InOrder(S, R), S, R)
<1> DEFINE N == Cardinality(S)
           below == [x \in S |-> {y \in S : <<y, x>> \in R}]
           rank == [x \in S |-> Cardinality(below[x])]
           Pick(n) == CHOOSE x \in S : Cardinality({y \in S : <<y, x>> \in R}) = n - 1
           f == InOrder(S, R)
<1>1. N \in Nat
  BY FS_CardinalityType
<1>below. \A x \in S : /\ below[x] \in SUBSET S /\ rank[x] = Cardinality(below[x])
                       /\ \A y \in S : y \in below[x] <=> <<y, x>> \in R
  OBVIOUS
<1>f. f = [n \in 1..N |-> Pick(n)]
  BY DEF InOrder
<1>r. \A x \in S : rank[x] = Cardinality({y \in S : <<y, x>> \in R})
  OBVIOUS
<1> HIDE DEF below, rank, f, N, Pick
<1>2. ASSUME NEW x \in S
      PROVE  IsFiniteSet(below[x]) /\ rank[x] \in Nat /\ rank[x] < N
  <2>1. IsFiniteSet(S \ {x}) /\ Cardinality(S \ {x}) = N - 1
    BY FS_RemoveElement DEF N
  <2>2. below[x] \in SUBSET (S \ {x})
    BY <1>below DEF Orders
  <2>3. IsFiniteSet(below[x]) /\ rank[x] <= N - 1
    BY <2>1, <2>2, <1>below, FS_Subset
  <2>4. rank[x] \in Nat
    BY <2>3, <1>below, FS_CardinalityType
  <2> QED
    BY <2>3, <2>4, <1>1
<1>3. ASSUME NEW x \in S, NEW y \in S, <<x, y>> \in R
      PROVE  rank[x] < rank[y]
  <2>1. IsFiniteSet(below[y] \ {x}) /\ Cardinality(below[y] \ {x}) = rank[y] - 1
    <3>1. x \in below[y] /\ IsFiniteSet(below[y])
      BY <1>2, <1>3, <1>below
    <3>2. /\ IsFiniteSet(below[y] \ {x})
          /\ Cardinality(below[y] \ {x}) = Cardinality(below[y]) - 1
      BY <3>1, FS_RemoveElement
    <3> QED
      BY <3>2, <1>below
  <2>2. below[x] \in SUBSET (below[y] \ {x})
    BY <1>3, <1>below DEF Orders
  <2>3. rank[x] <= rank[y] - 1
    BY <2>1, <2>2, <1>below, FS_Subset
  <2>4. rank[x] \in Nat /\ rank[y] \in Nat
    BY <1>2
  <2> QED
    BY <2>3, <2>4
<1>4. ASSUME NEW x \in S, NEW y \in S
      PROVE  /\ x # y => rank[x] # rank[y]
             /\ rank[x] < rank[y] <=> <<x, y>> \in R
  <2>1. x = y \/ <<x, y>> \in R \/ <<y, x>> \in R
    BY DEF Orders
  <2>2. rank[x] \in Nat /\ rank[y] \in Nat
    BY <1>2
  <2>3. <<x, y>> \in R => rank[x] < rank[y]
    BY <1>3
  <2>4. <<y, x>> \in R => rank[y] < rank[x]
    BY <1>3
  <2> QED
    BY <2>1, <2>2, <2>3, <2>4
<1>5. ASSUME NEW n \in 1..N
      PROVE  \E x \in S : rank[x] = n - 1
  <2> DEFINE place == [x \in S |-> rank[x] + 1]
  <2>1. place \in Injection(S, 1..N)
    <3>1. \A x \in S : rank[x] + 1 \in 1..N
      BY <1>1, <1>2
    <3>2. ASSUME NEW x \in S, NEW y \in S, rank[x] + 1 = rank[y] + 1
          PROVE  x = y
      <4>1. rank[x] \in Nat /\ rank[y] \in Nat
        BY <1>2
      <4>2. rank[x] = rank[y]
        BY <3>2, <4>1
      <4> QED
        BY <4>2, <1>4
    <3> QED
      BY <3>1, <3>2 DEF Injection, IsInjective
  <2>2. IsFiniteSet(1..N) /\ Cardinality(1..N) = N
    BY <1>1, FS_Interval
  <2>3. place \in Surjection(S, 1..N)
    BY <2>1, <2>2, FS_Injection DEF N
  <2>4. \E x \in S : place[x] = n
    BY <2>3 DEF Surjection
  <2> QED
    BY <2>4, <1>2
<1>6. ASSUME NEW n \in 1..N
      PROVE  f[n] \in S /\ rank[f[n]] = n - 1
  <2>1. f[n] = Pick(n)
    BY <1>f
  <2>2. \E x \in S : Cardinality({y \in S : <<y, x>> \in R}) = n - 1
    BY <1>5, <1>r
  <2>3. f[n] \in S /\ Cardinality({y \in S : <<y, f[n]>> \in R}) = n - 1
    BY <2>1, <2>2 DEF Pick
  <2> QED
    BY <2>3, <1>r
<1>7. f \in [1..N -> S]
  <2>1. \A n \in 1..N : Pick(n) \in S
    BY <1>6, <1>f
  <2> QED
    BY <2>1, <1>f
<1>8. ASSUME NEW x \in S
      PROVE  \E n \in 1..N : f[n] = x
  <2>1. rank[x] + 1 \in 1..N
    BY <1>1, <1>2
  <2>2. rank[f[rank[x] + 1]] = rank[x] /\ f[rank[x] + 1] \in S
    BY <2>1, <1>2, <1>6
  <2> QED
    BY <2>1, <2>2, <1>4
<1>9. \A m, n \in 1..N : m < n <=> <<f[m], f[n]>> \in R
  BY <1>1, <1>4, <1>6
<1> QED
  BY <1>1, <1>7, <1>8, <1>9 DEF Lists, N, f

\* The rows after a mark are a finite set of positive numbers.
LEMMA AfterIs ==
  ASSUME NEW T, NEW events \in Seq(T), NEW mark \in Nat
  PROVE  /\ After(events, mark) \in SUBSET (1..Len(events))
         /\ After(events, mark) \in SUBSET Nat /\ 0 \notin After(events, mark)
         /\ \A i : i \in After(events, mark) <=>
                  i \in 1..Len(events) /\ i > mark /\ events[i] # Nothing
         /\ IsFiniteSet(After(events, mark)) /\ Cardinality(After(events, mark)) \in Nat
<1>1. After(events, mark) \in SUBSET (1..Len(events)) /\ Len(events) \in Nat
  BY LenProperties DEF After
<1>2. IsFiniteSet(1..Len(events))
  BY <1>1, FS_Interval
<1>3. IsFiniteSet(After(events, mark)) /\ Cardinality(After(events, mark)) \in Nat
  BY <1>1, <1>2, FS_Subset, FS_CardinalityType
<1>4. \A i : i \in After(events, mark) <=>
             i \in 1..Len(events) /\ i > mark /\ events[i] # Nothing
  BY LenProperties DEF After
<1> QED
  BY <1>1, <1>3, <1>4

LEMMA AfterStart ==
  ASSUME NEW T, NEW events \in Seq(T)
  PROVE  \A i : i \in After(events, 0) <=> i \in 1..Len(events) /\ events[i] # Nothing
<1>1. DOMAIN events = 1..Len(events) /\ \A i \in 1..Len(events) : i > 0
  BY LenProperties
<1> QED
  BY <1>1 DEF After

\* The first rows after a mark are the beginning of them, as many as the limit if they
\* are not all.
LEMMA FirstAfterIs ==
  ASSUME NEW T, NEW events \in Seq(T), NEW mark \in Nat, NEW limit \in Nat
  PROVE  LET all == After(events, mark)
             some == FirstAfter(events, mark, limit)
         IN  /\ Begins(some, all) /\ IsFiniteSet(some)
             /\ Cardinality(some) \in Nat /\ Cardinality(some) <= limit
             /\ some # all => Cardinality(some) = limit
<1> DEFINE all == After(events, mark)
           some == FirstAfter(events, mark, limit)
           upto == [i \in all |-> {j \in all : j <= i}]
<1>1. all \in SUBSET Nat /\ IsFiniteSet(all) /\ \A i \in all : i <= Len(events)
  BY AfterIs
<1>2. Len(events) \in Nat
  BY LenProperties
<1>3. \A i \in all : upto[i] \in SUBSET all /\ \A j \in all : j \in upto[i] <=> j <= i
  OBVIOUS
<1>4. \A i \in all : i \in some <=> Cardinality(upto[i]) <= limit
  BY DEF FirstAfter
<1>5. some \in SUBSET all
  BY DEF FirstAfter
<1> HIDE DEF all, some, upto
<1>6. ASSUME NEW i \in all
      PROVE  IsFiniteSet(upto[i]) /\ Cardinality(upto[i]) \in Nat
  BY <1>1, <1>3, FS_Subset, FS_CardinalityType
<1>7. IsFiniteSet(some) /\ Cardinality(some) \in Nat
  BY <1>1, <1>5, FS_Subset, FS_CardinalityType
<1>8. Begins(some, all)
  <2> SUFFICES ASSUME NEW i \in some, NEW j \in all \ some, j <= i
               PROVE  FALSE
    BY <1>1, <1>5 DEF Begins
  <2>1. i \in all
    BY <1>5
  <2>2. \A k \in all : k <= j => k <= i
    BY <1>1, <1>5, <2>1
  <2>9. upto[j] \in SUBSET upto[i]
    BY <1>3, <2>1, <2>2
  <2>3. Cardinality(upto[j]) <= Cardinality(upto[i])
    BY <1>6, <2>1, <2>9, FS_Subset
  <2>4. Cardinality(upto[i]) <= limit /\ ~(Cardinality(upto[j]) <= limit)
    BY <1>4, <2>1
  <2> QED
    BY <1>6, <2>1, <2>3, <2>4
<1>9. Cardinality(some) <= limit
  <2>1. CASE some = {}
    BY <2>1, FS_EmptySet
  <2>2. CASE some # {}
    <3> DEFINE last == Max(some)
    <3>1. last \in some /\ \A n \in some : n <= last
      BY <1>1, <1>2, <1>5, <2>2, MaxIs
    <3> HIDE DEF last
    <3>2. some \in SUBSET upto[last] /\ last \in all
      BY <1>3, <1>5, <3>1
    <3>3. Cardinality(some) <= Cardinality(upto[last])
      BY <1>6, <3>2, FS_Subset
    <3>4. Cardinality(upto[last]) <= limit
      BY <1>4, <3>1, <3>2
    <3> QED
      BY <1>6, <1>7, <3>2, <3>3, <3>4
  <2> QED
    BY <2>1, <2>2
<1>10. ASSUME some # all
       PROVE  Cardinality(some) = limit
  <2> DEFINE least == Min(all \ some)
  <2>1. all \ some \in SUBSET Nat /\ all \ some # {}
    BY <1>1, <1>5, <1>10
  <2>2. least \in all \ some /\ \A n \in all \ some : least <= n
    BY <2>1, MinIs
  <2> HIDE DEF least
  <2>3. \A j \in some : j <= least
    BY <1>1, <1>5, <1>8, <2>2 DEF Begins
  <2>4. \A j \in all : j <= least => j \in some \cup {least}
    BY <1>1, <2>2
  <2>5. upto[least] \in SUBSET (some \cup {least})
    BY <1>3, <2>2, <2>4
  <2>6. IsFiniteSet(some \cup {least}) /\ Cardinality(some \cup {least}) = Cardinality(some) + 1
    BY <1>7, <2>2, FS_AddElement
  <2>7. Cardinality(upto[least]) <= Cardinality(some) + 1
    BY <2>5, <2>6, FS_Subset
  <2>8. ~(Cardinality(upto[least]) <= limit)
    BY <1>4, <2>2
  <2> QED
    BY <1>6, <1>7, <1>9, <2>2, <2>7, <2>8
<1> QED
  BY <1>7, <1>8, <1>9, <1>10 DEF all, some

\* What a beginning leaves is what comes after its greatest number.
LEMMA RestIs ==
  ASSUME NEW T, NEW events \in Seq(T), NEW mark \in Nat, NEW some, some # {},
         Begins(some, After(events, mark))
  PROVE  /\ High(some) \in some /\ High(some) > mark
         /\ \A i \in some : i <= High(some)
         /\ After(events, High(some)) = After(events, mark) \ some
<1>1. /\ After(events, mark) \in SUBSET Nat /\ 0 \notin After(events, mark)
      /\ \A i \in After(events, mark) : i <= Len(events)
  BY AfterIs
<1>2. some \in SUBSET Nat /\ 0 \notin some /\ \A i \in some : i <= Len(events)
  BY <1>1 DEF Begins
<1>3. Len(events) \in Nat
  BY LenProperties
<1>4. /\ High(some) \in some /\ High(some) \in Nat
      /\ \A i \in some : i <= High(some)
  BY <1>2, <1>3, HighIs
<1>5. High(some) > mark
  BY <1>4 DEF Begins, After
<1>6. ASSUME NEW i \in DOMAIN events, i > High(some)
      PROVE  i \notin some
  BY <1>2, <1>3, <1>4, <1>6, LenProperties
<1>7. After(events, High(some)) \subseteq After(events, mark) \ some
  BY <1>3, <1>4, <1>5, <1>6, LenProperties DEF After
<1>8. After(events, mark) \ some \subseteq After(events, High(some))
  BY <1>4 DEF Begins, After
<1> QED
  BY <1>4, <1>5, <1>7, <1>8

\* The results are recorded as some sequence of them.
LEMMA SetToSeqIs ==
  ASSUME NEW S, IsFiniteSet(S)
  PROVE  SetToSeq(S) \in Seq(S)
<1>1. Cardinality(S) \in Nat /\ ExistsBijection(1..Cardinality(S), S)
  BY FS_CardinalityType
<1>2. PICK f \in Bijection(1..Cardinality(S), S) : TRUE
  BY <1>1 DEF ExistsBijection
<1>3. f \in [1..Cardinality(S) -> S] /\ IsInjective(f)
  BY <1>2 DEF Bijection, Injection
<1>4. SetToSeq(S) \in [1..Cardinality(S) -> S]
  BY <1>3 DEF SetToSeq
<1> QED
  BY <1>1, <1>4

\* Inserting gives every event a row, or none if an earlier one is equal.  A ledger is
\* prolonged by one row or by several.
Longer(new, old) == Len(old) <= Len(new) /\ \A i \in 1..Len(old) : new[i] = old[i]
Prolongs(new, old) ==
  /\ Len(new) \in {Len(old), Len(old) + 1}
  /\ \A i \in 1..Len(old) : new[i] = old[i]

LEMMA InsertedIs ==
  ASSUME NEW events \in Seq(Events \cup {Nothing})
  PROVE  /\ Inserted(events) \in Seq(Events \cup {Nothing})
         /\ Len(Inserted(events)) = Len(events) /\ Unrepeated(Inserted(events))
         /\ \A i \in 1..Len(events) :
              /\ Inserted(events)[i] \in {Nothing, events[i]}
              /\ Inserted(events)[i] = Nothing <=>
                   events[i] = Nothing \/ \E j \in 1..(i - 1) : events[j] = events[i]
<1>1. /\ Len(events) \in Nat /\ DOMAIN events = 1..Len(events)
      /\ \A i \in 1..Len(events) : events[i] \in Events \cup {Nothing}
  BY LenProperties, ElementOfSeq
<1> DEFINE new == Inserted(events)
<1>2. /\ DOMAIN new = 1..Len(events)
      /\ \A i \in 1..Len(events) :
           new[i] = IF \E j \in 1..(i - 1) : events[j] = events[i] THEN Nothing ELSE events[i]
  BY <1>1 DEF Inserted
<1>3. new \in [1..Len(events) -> Events \cup {Nothing}]
  BY <1>1 DEF Inserted
<1> HIDE DEF new
<1>4. new \in Seq(Events \cup {Nothing}) /\ Len(new) = Len(events)
  BY <1>1, <1>3
<1>5. \A i \in 1..Len(events) :
        /\ new[i] \in {Nothing, events[i]}
        /\ new[i] = Nothing <=>
             events[i] = Nothing \/ \E j \in 1..(i - 1) : events[j] = events[i]
  BY <1>2
<1>6. ASSUME NEW i \in 1..Len(events), NEW j \in 1..Len(events), i < j,
             new[i] = new[j], new[i] # Nothing
      PROVE  FALSE
  <2>1. events[i] = events[j]
    BY <1>5, <1>6
  <2>2. i \in 1..(j - 1)
    BY <1>1, <1>6
  <2> QED
    BY <1>5, <1>6, <2>1, <2>2
<1>7. Unrepeated(new)
  BY <1>1, <1>2, <1>6 DEF Unrepeated
<1> QED
  BY <1>4, <1>5, <1>7 DEF new

LEMMA EnqueueIs ==
  ASSUME NEW events \in Seq(Events \cup {Nothing}), Unrepeated(events), NEW e \in Events
  PROVE  /\ Enqueue(events, e) \in Seq(Events \cup {Nothing})
         /\ Prolongs(Enqueue(events, e), events) /\ Unrepeated(Enqueue(events, e))
<1> DEFINE x == IF Contains(events, e) THEN Nothing ELSE e
           new == Append(events, x)
<1>1. x \in Events \cup {Nothing} /\ Enqueue(events, e) = new
  BY DEF Enqueue
<1>2. x # Nothing => x = e /\ \A i \in 1..Len(events) : events[i] # e
  BY DEF Contains
<1> HIDE DEF x
<1>3. /\ new \in Seq(Events \cup {Nothing}) /\ Len(new) = Len(events) + 1
      /\ \A i \in 1..Len(events) : new[i] = events[i]
      /\ new[Len(events) + 1] = x
  BY <1>1, AppendProperties
<1> HIDE DEF new
<1>4. Len(events) \in Nat /\ DOMAIN new = 1..(Len(events) + 1) /\ DOMAIN events = 1..Len(events)
  BY <1>3, LenProperties
<1>5. Unrepeated(new)
  <2> SUFFICES ASSUME NEW i \in DOMAIN new, NEW j \in DOMAIN new, new[i] = new[j],
                      new[i] # Nothing, i # j
               PROVE  FALSE
    BY DEF Unrepeated
  <2>1. i = Len(events) + 1 \/ i \in 1..Len(events)
    BY <1>4
  <2>2. j = Len(events) + 1 \/ j \in 1..Len(events)
    BY <1>4
  <2> QED
    BY <1>2, <1>3, <1>4, <2>1, <2>2 DEF Unrepeated
<1> QED
  BY <1>1, <1>3, <1>5 DEF Prolongs

\* A longer ledger has the same rows, and the same rows after a mark, and at most one more.
LEMMA ProlongIs ==
  ASSUME NEW T, NEW old \in Seq(T), NEW new \in Seq(T), Prolongs(new, old)
  PROVE  Len(old) <= Len(new) /\ \A i \in 1..Len(old) : i \in 1..Len(new) /\ new[i] = old[i]
<1>1. Len(old) \in Nat /\ (Len(new) = Len(old) \/ Len(new) = Len(old) + 1)
  BY LenProperties DEF Prolongs
<1>2. \A i \in 1..Len(old) : i \in 1..Len(new) /\ new[i] = old[i]
  BY <1>1 DEF Prolongs
<1> QED
  BY <1>1, <1>2

LEMMA ProlongedAfter ==
  ASSUME NEW T, NEW old \in Seq(T), NEW new \in Seq(T), Prolongs(new, old), NEW mark \in Nat
  PROVE  /\ After(old, mark) \subseteq After(new, mark)
         /\ After(new, mark) \subseteq After(old, mark) \cup {Len(old) + 1}
         /\ \A i \in After(new, mark) : i <= Len(old) => i \in After(old, mark)
<1>1. Len(old) \in Nat /\ (Len(new) = Len(old) \/ Len(new) = Len(old) + 1)
  BY LenProperties DEF Prolongs
<1>2. \A i \in 1..Len(old) : i \in 1..Len(new) /\ new[i] = old[i]
  BY <1>1 DEF Prolongs
<1>3. \A i \in 1..Len(new) : i \in 1..Len(old) \/ (i = Len(old) + 1 /\ ~(i <= Len(old)))
  BY <1>1
<1> QED
  BY <1>2, <1>3, AfterIs

\* The same of a ledger that is prolonged by any number of rows.
LEMMA LongerIs ==
  ASSUME NEW T, NEW old \in Seq(T), NEW new \in Seq(T), Longer(new, old)
  PROVE  /\ Len(old) \in Nat /\ Len(new) \in Nat /\ Len(old) <= Len(new)
         /\ DOMAIN old = 1..Len(old) /\ DOMAIN new = 1..Len(new)
         /\ \A i \in 1..Len(old) : i \in 1..Len(new) /\ new[i] = old[i]
         /\ \A mark \in Nat :
              /\ After(old, mark) \subseteq After(new, mark)
              /\ \A i \in After(new, mark) : i <= Len(old) => i \in After(old, mark)
<1>1. /\ Len(old) \in Nat /\ Len(new) \in Nat /\ Len(old) <= Len(new)
      /\ DOMAIN old = 1..Len(old) /\ DOMAIN new = 1..Len(new)
  BY LenProperties DEF Longer
<1>2. \A i \in 1..Len(old) : i \in 1..Len(new) /\ new[i] = old[i]
  BY <1>1 DEF Longer
<1>3. \A i \in 1..Len(new) : i \in 1..Len(old) \/ ~(i <= Len(old))
  BY <1>1
<1> QED
  BY <1>1, <1>2, <1>3, AfterIs

LEMMA ProlongedIsLonger ==
  ASSUME NEW T, NEW old \in Seq(T), NEW new \in Seq(T), Prolongs(new, old)
  PROVE  Longer(new, old)
BY ProlongIs DEF Longer

-----------------------------------------------------------------------------
(* The journal *)

LEMMA EntriesAre ==
  ASSUME NEW J \in SUBSET Segments
  PROVE  LET entries == UNION {{s} \X DOMAIN s.events : s \in J}
         IN  /\ \A p \in entries :
                  /\ p[1] \in J /\ p[2] \in 1..Len(p[1].events) /\ p = <<p[1], p[2]>>
                  /\ p[1].attempt \in Nat /\ p[1].first \in Nat /\ p[2] \in Nat
                  /\ p[1].expiring \in BOOLEAN /\ p[1].attempt \in 1..MaxAttempts
                  /\ EventOf(p) \in Events /\ EventOf(p) # Nothing
             /\ \A s \in J : \A k \in 1..Len(s.events) :
                  <<s, k>> \in entries /\ EventOf(<<s, k>>) = s.events[k]
<1> DEFINE entries == UNION {{s} \X DOMAIN s.events : s \in J}
<1>1. ASSUME NEW s \in J
      PROVE  /\ s.attempt \in Nat /\ s.first \in Nat /\ s.expiring \in BOOLEAN
             /\ s.attempt \in 1..MaxAttempts
             /\ Len(s.events) \in Nat /\ DOMAIN s.events = 1..Len(s.events)
             /\ \A k \in 1..Len(s.events) : s.events[k] \in Events
  <2>1. s \in Segments
    OBVIOUS
  <2>2. /\ s.attempt \in 1..MaxAttempts /\ s.first \in Nat /\ s.expiring \in BOOLEAN
        /\ s.events \in Seq(Events)
    BY <2>1 DEF Segments
  <2> QED
    BY <2>2, LenProperties, ElementOfSeq
<1>2. ASSUME NEW p \in entries
      PROVE  /\ p[1] \in J /\ p[2] \in 1..Len(p[1].events) /\ p = <<p[1], p[2]>>
             /\ p[1].attempt \in Nat /\ p[1].first \in Nat /\ p[2] \in Nat
             /\ p[1].expiring \in BOOLEAN /\ p[1].attempt \in 1..MaxAttempts
             /\ EventOf(p) \in Events /\ EventOf(p) # Nothing
  <2>1. PICK s \in J : p \in {s} \X DOMAIN s.events
    OBVIOUS
  <2>2. p[1] = s /\ p[2] \in DOMAIN s.events /\ p = <<p[1], p[2]>>
    BY <2>1
  <2>3. p[2] \in 1..Len(s.events)
    BY <1>1, <2>2
  <2> QED
    BY <1>1, <2>2, <2>3 DEF EventOf
<1>3. ASSUME NEW s \in J, NEW k \in 1..Len(s.events)
      PROVE  <<s, k>> \in entries /\ EventOf(<<s, k>>) = s.events[k]
  <2>1. <<s, k>> \in {s} \X DOMAIN s.events
    BY <1>1
  <2> QED
    BY <2>1 DEF EventOf
<1> HIDE DEF entries
<1>4. \A s \in J : \A k \in 1..Len(s.events) :
         <<s, k>> \in entries /\ EventOf(<<s, k>>) = s.events[k]
  BY <1>3
<1> QED
  BY <1>2, <1>4 DEF entries

\* The same holds of the journal there is and of the next one.
LEMMA EntryIs ==
  ASSUME journal \in SUBSET Segments
  PROVE  /\ \A p \in Entries :
              /\ p[1] \in journal /\ p[2] \in 1..Len(p[1].events) /\ p = <<p[1], p[2]>>
              /\ p[1].attempt \in Nat /\ p[1].first \in Nat /\ p[2] \in Nat
              /\ p[1].expiring \in BOOLEAN /\ p[1].attempt \in 1..MaxAttempts
              /\ EventOf(p) \in Events /\ EventOf(p) # Nothing
         /\ \A s \in journal : \A k \in 1..Len(s.events) :
              <<s, k>> \in Entries /\ EventOf(<<s, k>>) = s.events[k]
<1> DEFINE J == journal
<1>1. J \in SUBSET Segments /\ Entries = UNION {{s} \X DOMAIN s.events : s \in J}
  BY DEF Entries
<1> QED
  BY <1>1, EntriesAre

LEMMA NextEntryIs ==
  ASSUME journal' \in SUBSET Segments
  PROVE  /\ \A p \in Entries' :
              /\ p[1] \in journal' /\ p[2] \in 1..Len(p[1].events) /\ p = <<p[1], p[2]>>
              /\ p[1].attempt \in Nat /\ p[1].first \in Nat /\ p[2] \in Nat
              /\ p[1].expiring \in BOOLEAN /\ p[1].attempt \in 1..MaxAttempts
              /\ EventOf(p) \in Events /\ EventOf(p) # Nothing
         /\ \A s \in journal' : \A k \in 1..Len(s.events) :
              <<s, k>> \in Entries' /\ EventOf(<<s, k>>) = s.events[k]
<1>1. Entries' = UNION {{s} \X DOMAIN s.events : s \in journal'}
  BY DEF Entries
<1> QED
  BY <1>1, EntriesAre

\* Two entries of the same event are the same, as far as an attempt's order goes.
SamePlace(p, q) ==
  p[1].attempt = q[1].attempt /\ p[1].first = q[1].first /\ p[2] = q[2]
Twin(p, q) == SamePlace(p, q) /\ EventOf(p) = EventOf(q)

LEMMA AtTheSamePlace ==
  ASSUME journal \in SUBSET Segments, KeysDiffer, CopiesFirst,
         NEW p \in Entries, NEW q \in Entries, SamePlace(p, q)
  PROVE  EventOf(p) = EventOf(q)
<1> DEFINE s == p[1]
           t == q[1]
<1>1. s \in journal /\ t \in journal /\ s.expiring \in BOOLEAN /\ t.expiring \in BOOLEAN
  BY EntryIs
<1>2. s.attempt = t.attempt /\ s.first = t.first /\ p[2] = q[2]
  BY DEF SamePlace
<1>3. s.events = t.events
  <2>1. CASE s.expiring = t.expiring
    BY <1>1, <1>2, <2>1 DEF KeysDiffer
  <2>2. CASE s.expiring /\ ~t.expiring
    <3>1. s = Moved(t)
      BY <1>1, <1>2, <2>2 DEF CopiesFirst
    <3>2. t \in Segments
      BY <1>1
    <3> QED
      BY <3>1, <3>2 DEF Moved, Segments
  <2>3. CASE ~s.expiring /\ t.expiring
    <3>1. t = Moved(s)
      BY <1>1, <1>2, <2>3 DEF CopiesFirst
    <3>2. s \in Segments
      BY <1>1
    <3> QED
      BY <3>1, <3>2 DEF Moved, Segments
  <2> QED
    BY <1>1, <2>1, <2>2, <2>3
<1> QED
  BY <1>2, <1>3 DEF EventOf

\* Of two entries of one attempt, one is sooner or both are at one place.
LEMMA SoonerIsTotal ==
  ASSUME journal \in SUBSET Segments, NEW p \in Entries, NEW q \in Entries,
         p[1].attempt = q[1].attempt
  PROVE  /\ Sooner(p, q) \/ SamePlace(p, q) \/ Sooner(q, p)
         /\ ~(Sooner(p, q) /\ Sooner(q, p)) /\ ~(SamePlace(p, q) /\ Sooner(p, q))
<1>1. /\ p[1].first \in Nat /\ q[1].first \in Nat /\ p[2] \in Nat /\ q[2] \in Nat
  BY EntryIs
<1> QED
  BY <1>1 DEF Sooner, SamePlace

\* What is sooner than one of two twins is sooner than the other.
LEMMA SoonerThanTwin ==
  ASSUME NEW p, NEW q, NEW p1, NEW q1, Sooner(p, q), SamePlace(p, p1), SamePlace(q, q1)
  PROVE  Sooner(p1, q1)
BY DEF Sooner, SamePlace

\* A ledger that has the journal's events in the order of every attempt is why the
\* attempts agree.
LEMMA LedgerAgrees ==
  ASSUME MetricTypeOK, LedgerOrder, Ordered
  PROVE  Agreeing
<1>1. \A p \in Entries : EventOf(p) # Nothing
  BY EntryIs DEF MetricTypeOK
<1>2. ASSUME NEW p \in Entries, NEW q \in Entries, NEW r \in Entries,
             Sooner(p, q), EventOf(q) = EventOf(r)
      PROVE  Follows(r, EventOf(p))
  <2>1. PICK i \in DOMAIN rows : rows[i] = EventOf(p)
    BY DEF LedgerOrder
  <2>2. PICK j \in DOMAIN rows : rows[j] = EventOf(q)
    BY DEF LedgerOrder
  <2>3. i < j
    BY <1>2, <2>1, <2>2 DEF Ordered
  <2> QED
    BY <1>1, <1>2, <2>1, <2>2, <2>3 DEF LedgerOrder
<1> QED
  BY <1>2 DEF Agreeing

\* What a step leaves true of the journal: every entry has a twin afterwards and had one
\* before, the ledger is at most prolonged, and the marks are the same.
Twinned ==
  /\ \A p \in Entries : \E q \in Entries' : Twin(p, q)
  /\ \A q \in Entries' : \E p \in Entries : Twin(p, q)

LEMMA TwinsKeep ==
  ASSUME MetricTypeOK, OnceInRows', JournalOK, Held, Held',
         rows' \in Seq(Events \cup {Nothing}), Longer(rows', rows), Mark \in 0..Len(rows),
         Twinned, journal' \in SUBSET Segments,
         \A s \in journal' : \E t \in journal : s.attempt = t.attempt /\ s.first = t.first,
         attempt' = attempt, secured' = secured, Mark' = Mark
  PROVE  /\ SealedOnce' /\ LedgerOrder' /\ Ordered' /\ MarkedOK'
         /\ \A e \in secured' : \E p \in Entries' : EventOf(p) = e
<1>1. /\ Len(rows) \in Nat /\ DOMAIN rows = 1..Len(rows) /\ rows \in Seq(Events \cup {Nothing})
      /\ Len(rows') \in Nat /\ DOMAIN rows' = 1..Len(rows')
      /\ \A i \in 1..Len(rows) : i \in 1..Len(rows') /\ rows'[i] = rows[i]
  <2>1. rows \in Seq(Events \cup {Nothing})
    BY DEF MetricTypeOK
  <2> QED
    BY <2>1, LongerIs
<1>2. \A p \in Entries : EventOf(p) # Nothing
  BY EntryIs DEF MetricTypeOK
<1>3. SealedOnce'
  <2> SUFFICES ASSUME NEW p \in Entries', NEW q \in Entries',
                      p[1].attempt = q[1].attempt, EventOf(p) = EventOf(q)
               PROVE  p[1].first = q[1].first /\ p[2] = q[2]
    BY DEF SealedOnce
  <2>1. PICK p1 \in Entries : Twin(p1, p)
    BY DEF Twinned
  <2>2. PICK q1 \in Entries : Twin(q1, q)
    BY DEF Twinned
  <2> QED
    BY <2>1, <2>2 DEF JournalOK, SealedOnce, Twin, SamePlace
<1>4. ASSUME NEW q \in Entries, NEW r \in Entries', Twin(q, r), NEW e, Follows(q, e)
      PROVE  Follows(r, e)'
  <2>1. PICK p \in Entries : Before(p, q) /\ EventOf(p) = e
    BY <1>4 DEF Follows
  <2>2. PICK p1 \in Entries' : Twin(p, p1)
    BY DEF Twinned
  <2>3. Before(p1, r) /\ EventOf(p1) = e
    BY <1>4, <2>1, <2>2, SoonerThanTwin DEF Twin, Before, SamePlace
  <2> QED
    BY <2>3 DEF Follows
<1>5. LedgerOrder'
  <2> SUFFICES ASSUME NEW r \in Entries'
               PROVE  /\ \E j \in DOMAIN rows' : rows'[j] = EventOf(r)
                      /\ \A i, j \in DOMAIN rows' :
                           i < j /\ rows'[j] = EventOf(r) /\ rows'[i] # Nothing =>
                             Follows(r, rows[i])'
    BY DEF LedgerOrder
  <2>1. PICK q \in Entries : Twin(q, r)
    BY DEF Twinned
  <2>2. EventOf(q) = EventOf(r) /\ EventOf(r) # Nothing
    BY <1>2, <2>1 DEF Twin
  <2>3. PICK k \in 1..Len(rows) : rows[k] = EventOf(q)
    BY <1>1 DEF JournalOK, LedgerOrder
  <2>4. \E j \in DOMAIN rows' : rows'[j] = EventOf(r)
    BY <1>1, <2>2, <2>3
  <2>5. ASSUME NEW i \in DOMAIN rows', NEW j \in DOMAIN rows', i < j,
               rows'[j] = EventOf(r), rows'[i] # Nothing
        PROVE  Follows(r, rows[i])'
    <3>1. j = k
      BY <1>1, <2>2, <2>3, <2>5 DEF OnceInRows, Unrepeated
    <3>2. i \in 1..Len(rows)
      BY <1>1, <2>5, <3>1
    <3>3. Follows(q, rows[i])
      BY <1>1, <2>2, <2>5, <3>1, <3>2 DEF JournalOK, LedgerOrder
    <3> QED
      BY <1>1, <1>4, <2>1, <3>2, <3>3
  <2> QED
    BY <2>4, <2>5
<1>6. MarkedOK'
  <2>1. ASSUME NEW i \in After(rows', 0), i <= Mark
        PROVE  \E p \in Entries' : EventOf(p) = rows'[i]
    <3>1. i \in After(rows, 0)
      BY <1>1, <2>1, LongerIs, AfterIs
    <3>2. i \in 1..Len(rows)
      BY <1>1, <3>1, AfterIs
    <3>3. PICK p \in Entries : EventOf(p) = rows[i]
      BY <2>1, <3>1 DEF JournalOK, MarkedOK
    <3>4. PICK q \in Entries' : Twin(p, q)
      BY DEF Twinned
    <3> QED
      BY <1>1, <3>2, <3>3, <3>4 DEF Twin
  <2>2. \A s \in journal' : s.attempt = attempt' => s.first <= Mark'
    BY DEF JournalOK, MarkedOK
  <2>3. ASSUME NEW q \in Entries', q[1].attempt = attempt'
        PROVE  \E i \in 1..Mark' : rows'[i] = EventOf(q)
    <3>1. PICK p \in Entries : Twin(p, q)
      BY DEF Twinned
    <3>2. PICK i \in 1..Mark : rows[i] = EventOf(p)
      BY <2>3, <3>1 DEF JournalOK, MarkedOK, Twin, SamePlace
    <3>3. i \in 1..Len(rows)
      BY <1>1, <3>2
    <3> QED
      BY <1>1, <3>1, <3>2, <3>3 DEF Twin
  <2> QED
    BY <2>1, <2>2, <2>3 DEF MarkedOK
<1>7. \A e \in secured' : \E p \in Entries' : EventOf(p) = e
  BY DEF JournalOK, Twinned, Twin
<1>8. Ordered'
  <2> SUFFICES ASSUME NEW p \in Entries', NEW q \in Entries', Sooner(p, q),
                      NEW i \in DOMAIN rows', NEW j \in DOMAIN rows',
                      rows'[i] = EventOf(p), rows'[j] = EventOf(q)
               PROVE  i < j
    BY DEF Ordered
  <2>1. PICK p1 \in Entries : Twin(p1, p)
    BY DEF Twinned
  <2>2. PICK q1 \in Entries : Twin(q1, q)
    BY DEF Twinned
  <2>3. Sooner(p1, q1)
    <3>1. SamePlace(p, p1) /\ SamePlace(q, q1)
      BY <2>1, <2>2 DEF Twin, SamePlace
    <3> QED
      BY <3>1, SoonerThanTwin
  <2>4. PICK m \in 1..Len(rows) : rows[m] = EventOf(p1)
    BY <1>1 DEF JournalOK, LedgerOrder
  <2>5. PICK n \in 1..Len(rows) : rows[n] = EventOf(q1)
    BY <1>1 DEF JournalOK, LedgerOrder
  <2>6. m < n
    BY <1>1, <2>3, <2>4, <2>5 DEF JournalOK, Ordered
  <2>7. rows'[i] # Nothing /\ rows'[j] # Nothing
    BY <1>2, <2>1, <2>2 DEF Twin
  <2>8. i = m /\ j = n
    BY <1>1, <2>1, <2>2, <2>4, <2>5, <2>7 DEF OnceInRows, Unrepeated, Twin
  <2> QED
    BY <2>6, <2>8
<1> QED
  BY <1>3, <1>5, <1>6, <1>7, <1>8

LEMMA JournalStays ==
  ASSUME MetricTypeOK, OnceInRows', JournalOK, Held, Held',
         rows' \in Seq(Events \cup {Nothing}), Longer(rows', rows), Mark \in 0..Len(rows),
         journal' = journal, attempt' = attempt, secured' = secured, Mark' = Mark
  PROVE  JournalOK'
<1>1. journal' \in SUBSET Segments /\ Entries' = Entries
  BY DEF MetricTypeOK, Entries
<1>2. Twinned
  BY <1>1 DEF Twinned, Twin, SamePlace
<1>3. IsFiniteSet(journal') /\ KeysDiffer' /\ CopiesFirst'
  BY DEF JournalOK, KeysDiffer, CopiesFirst
<1>4. /\ SealedOnce' /\ LedgerOrder' /\ Ordered' /\ MarkedOK'
      /\ \A e \in secured' : \E p \in Entries' : EventOf(p) = e
  BY <1>1, <1>2, TwinsKeep
<1> QED
  BY <1>3, <1>4 DEF JournalOK

\* A copy is a twin of its original, entry by entry.
LEMMA CopyIsTwin ==
  ASSUME NEW s \in Segments, NEW k \in Nat
  PROVE  /\ Moved(s) \in Segments /\ Moved(s).expiring /\ Moved(s).events = s.events
         /\ Moved(s).attempt = s.attempt /\ Moved(s).first = s.first
         /\ Twin(<<s, k>>, <<Moved(s), k>>) /\ Twin(<<Moved(s), k>>, <<s, k>>)
<1>1. /\ Moved(s) \in Segments /\ Moved(s).expiring /\ Moved(s).events = s.events
      /\ Moved(s).attempt = s.attempt /\ Moved(s).first = s.first
  BY DEF Moved, Segments
<1> QED
  BY <1>1 DEF Twin, SamePlace, EventOf

LEMMA CopyKeepsJournal ==
  ASSUME MetricTypeOK, OnceInRows, OnceInRows', JournalOK, PlaceOK, NEW s \in Active,
         CopySegment(s)
  PROVE  JournalOK'
<1>1. /\ stage = "archive" /\ Oldest(s) /\ s \in journal /\ ~s.expiring /\ s \in Segments
      /\ journal' = journal \cup {Moved(s)}
      /\ UNCHANGED <<attempt, stage, rows, sealed, batch, secured>>
  BY DEF CopySegment, Active, ledger, MetricTypeOK
<1>2. \A k \in Nat : /\ Moved(s) \in Segments /\ Moved(s).expiring /\ Moved(s).events = s.events
                     /\ Moved(s).attempt = s.attempt /\ Moved(s).first = s.first
                     /\ Twin(<<s, k>>, <<Moved(s), k>>) /\ Twin(<<Moved(s), k>>, <<s, k>>)
  BY <1>1, CopyIsTwin DEF MetricTypeOK
<1>3. journal \in SUBSET Segments /\ journal' \in SUBSET Segments
  BY <1>1, <1>2 DEF MetricTypeOK
<1>4. Twinned
  <2>1. ASSUME NEW p \in Entries
        PROVE  p \in Entries'
    BY <1>1, <1>3, EntryIs, NextEntryIs
  <2>2. ASSUME NEW q \in Entries'
        PROVE  \E p \in Entries : Twin(p, q)
    <3>1. CASE q[1] \in journal
      <4>1. q \in Entries
        BY <1>3, <3>1, EntryIs, NextEntryIs
      <4> QED
        BY <4>1 DEF Twin, SamePlace
    <3>2. CASE q[1] = Moved(s)
      <4>1. q[2] \in 1..Len(s.events) /\ q = <<Moved(s), q[2]>> /\ q[2] \in Nat
        BY <1>2, <1>3, <3>2, NextEntryIs
      <4>2. <<s, q[2]>> \in Entries
        BY <1>1, <1>3, <4>1, EntryIs
      <4> QED
        BY <1>2, <4>1, <4>2
    <3> QED
      BY <1>1, <1>3, <3>1, <3>2, NextEntryIs
  <2> QED
    BY <2>1, <2>2 DEF Twinned, Twin, SamePlace
<1>5. KeysDiffer'
  <2> SUFFICES ASSUME NEW t \in journal' , NEW u \in journal',
                      t.attempt = u.attempt, t.first = u.first, t.expiring = u.expiring
               PROVE  t = u
    BY DEF KeysDiffer
  <2>1. ASSUME NEW v \in journal, v.attempt = s.attempt, v.first = s.first, v.expiring
        PROVE  v = Moved(s)
    BY <1>1, <2>1 DEF JournalOK, CopiesFirst
  <2> QED
    BY <1>1, <1>2, <2>1 DEF JournalOK, KeysDiffer
<1>6. CopiesFirst'
  <2> SUFFICES ASSUME NEW u \in journal' , NEW t \in journal',
                      u.attempt = t.attempt, t.expiring, ~u.expiring
               PROVE  t.first <= u.first /\ (t.first = u.first => t = Moved(u))
    BY DEF CopiesFirst
  <2>1. u \in journal
    BY <1>1, <1>2
  <2>2. CASE t \in journal
    BY <2>1, <2>2 DEF JournalOK, CopiesFirst
  <2>3. CASE t = Moved(s)
    <3>1. u \in Active
      BY <2>1 DEF Active
    <3>2. s = u \/ KeyPrecedes(s, u)
      BY <1>1, <3>1 DEF Oldest
    <3>3. s.first \in Nat /\ u.first \in Nat /\ s.attempt \in Nat
      BY <1>1, <1>3, <2>1 DEF Segments
    <3>4. t.first = s.first /\ t.attempt = s.attempt
      BY <1>2, <2>3
    <3>5. s = u \/ s.first < u.first
      BY <1>1, <3>2, <3>3, <3>4 DEF KeyPrecedes
    <3> QED
      BY <2>3, <3>3, <3>4, <3>5
  <2> QED
    BY <1>1, <2>2, <2>3
<1>7. Mark \in 0..Len(rows) /\ Mark' = Mark
  BY <1>1 DEF Mark, MetricTypeOK
<1>8. rows' \in Seq(Events \cup {Nothing}) /\ Longer(rows', rows)
  BY <1>1 DEF MetricTypeOK, Longer
<1>9. \A t \in journal' : \E u \in journal : t.attempt = u.attempt /\ t.first = u.first
  BY <1>1, <1>2
<1>10. IsFiniteSet(journal')
  BY <1>1, FS_AddElement DEF JournalOK
<1>11. /\ SealedOnce' /\ LedgerOrder' /\ Ordered' /\ MarkedOK'
       /\ \A e \in secured' : \E p \in Entries' : EventOf(p) = e
  BY <1>1, <1>3, <1>4, <1>7, <1>8, <1>9, TwinsKeep DEF Held
<1> QED
  BY <1>1, <1>5, <1>6, <1>10, <1>11 DEF JournalOK, Held

LEMMA DeleteKeepsJournal ==
  ASSUME MetricTypeOK, OnceInRows, OnceInRows', JournalOK, PlaceOK, DeleteSegment
  PROVE  JournalOK'
<1> DEFINE s == copying
<1>1. /\ stage = "archive" /\ s \in journal /\ ~s.expiring /\ s \in Segments
      /\ Moved(s) \in journal /\ journal' = journal \ {s}
      /\ UNCHANGED <<attempt, stage, rows, sealed, batch, secured>>
  BY DEF DeleteSegment, PlaceOK, ledger, MetricTypeOK
<1>2. journal \in SUBSET Segments /\ journal' \in SUBSET Segments
  BY <1>1 DEF MetricTypeOK
<1>3. \A k \in Nat : /\ Moved(s).expiring /\ Moved(s).events = s.events
                     /\ Moved(s).attempt = s.attempt /\ Moved(s).first = s.first
                     /\ Twin(<<s, k>>, <<Moved(s), k>>)
  BY <1>1, <1>2, CopyIsTwin
<1> HIDE DEF s
<1>4. Moved(s) \in journal'
  BY <1>1, <1>3
<1>5. Twinned
  <2>1. ASSUME NEW q \in Entries'
        PROVE  q \in Entries
    BY <1>1, <1>2, EntryIs, NextEntryIs
  <2>2. ASSUME NEW p \in Entries
        PROVE  \E q \in Entries' : Twin(p, q)
    <3>1. CASE p[1] # s
      <4>1. p \in Entries'
        BY <1>1, <1>2, <3>1, EntryIs, NextEntryIs
      <4> QED
        BY <4>1 DEF Twin, SamePlace
    <3>2. CASE p[1] = s
      <4>1. p[2] \in 1..Len(s.events) /\ p = <<s, p[2]>> /\ p[2] \in Nat
        BY <1>2, <3>2, EntryIs
      <4>2. <<Moved(s), p[2]>> \in Entries'
        BY <1>2, <1>3, <1>4, <4>1, NextEntryIs
      <4> QED
        BY <1>3, <4>1, <4>2
    <3> QED
      BY <3>1, <3>2
  <2> QED
    BY <2>1, <2>2 DEF Twinned, Twin, SamePlace
<1>6. KeysDiffer' /\ CopiesFirst'
  BY <1>1 DEF JournalOK, KeysDiffer, CopiesFirst
<1>7. Mark \in 0..Len(rows) /\ Mark' = Mark
  BY <1>1 DEF Mark, MetricTypeOK
<1>8. rows' \in Seq(Events \cup {Nothing}) /\ Longer(rows', rows)
  BY <1>1 DEF MetricTypeOK, Longer
<1>9. IsFiniteSet(journal')
  BY <1>1, FS_RemoveElement DEF JournalOK
<1>10. /\ SealedOnce' /\ LedgerOrder' /\ Ordered' /\ MarkedOK'
       /\ \A e \in secured' : \E p \in Entries' : EventOf(p) = e
  BY <1>1, <1>2, <1>5, <1>7, <1>8, TwinsKeep DEF Held
<1> QED
  BY <1>1, <1>6, <1>9, <1>10 DEF JournalOK, Held

-----------------------------------------------------------------------------
(* Sealing *)

\* The events of a segment are the unsealed rows it was made of, in their order.
SegmentOf(n) ==
  /\ n \in [1..Len(Segment.events) -> Unsealed]
  /\ \A k \in 1..Len(Segment.events) : Segment.events[k] = rows[n[k]]
  /\ \A i \in Unsealed : \E k \in 1..Len(Segment.events) : n[k] = i
  /\ \A j, k \in 1..Len(Segment.events) : j < k <=> n[j] < n[k]

LEMMA SegmentIs ==
  ASSUME MetricTypeOK, Unsealed # {}
  PROVE  /\ Segment \in Segments /\ Segment.first \in Unsealed
         /\ Segment.attempt = attempt /\ ~Segment.expiring
         /\ \E n : SegmentOf(n)
<1> DEFINE R == {p \in Unsealed \X Unsealed : p[1] < p[2]}
           n == InOrder(Unsealed, R)
           N == Cardinality(Unsealed)
<1>1. sealed \in Nat /\ rows \in Seq(Events \cup {Nothing}) /\ attempt \in 1..MaxAttempts
  BY LenProperties DEF MetricTypeOK
<1>2. /\ Begins(Unsealed, After(rows, sealed)) /\ IsFiniteSet(Unsealed) /\ N \in Nat
  BY <1>1, FirstAfterIs DEF Unsealed
<1>3. \A i \in Unsealed : i \in Nat \ {0} /\ rows[i] \in Events
  <2>1. Len(rows) \in Nat /\ \A i \in 1..Len(rows) : rows[i] \in Events \cup {Nothing}
    BY <1>1, LenProperties, ElementOfSeq
  <2>2. \A i \in Unsealed : i \in After(rows, sealed)
    BY <1>2 DEF Begins
  <2>3. \A i \in Unsealed : i \in 1..Len(rows) /\ rows[i] # Nothing
    BY <1>1, <2>2, AfterIs
  <2> QED
    BY <2>1, <2>3
<1>4. Orders(R, Unsealed)
  BY <1>3 DEF Orders
<1>5. \A i, j \in Unsealed : <<i, j>> \in R <=> i < j
  OBVIOUS
<1> HIDE DEF R
<1>6. Lists(n, Unsealed, R)
  BY <1>2, <1>4, InOrderLists
<1> HIDE DEF n
<1>7. /\ n \in [1..N -> Unsealed] /\ \A i \in Unsealed : \E k \in 1..N : n[k] = i
      /\ \A j, k \in 1..N : j < k <=> n[j] < n[k]
  BY <1>5, <1>6 DEF Lists
<1> HIDE DEF N
<1>8. N > 0
  BY <1>2, <1>7
<1>9. Segment = [attempt |-> attempt, first |-> n[1],
                 events |-> [k \in 1..N |-> rows[n[k]]], expiring |-> FALSE]
  BY <1>7 DEF Segment, n, R
<1>10. [k \in 1..N |-> rows[n[k]]] \in Seq(Events) /\ Len([k \in 1..N |-> rows[n[k]]]) = N
  BY <1>2, <1>3, <1>7
<1>11. n[1] \in Unsealed /\ n[1] \in Nat \ {0}
  BY <1>2, <1>3, <1>7, <1>8
<1>12. Segment \in Segments
  BY <1>1, <1>9, <1>10, <1>11 DEF Segments
<1>13. /\ Segment.attempt = attempt /\ Segment.first = n[1] /\ ~Segment.expiring
       /\ Len(Segment.events) = N /\ \A k \in 1..N : Segment.events[k] = rows[n[k]]
  BY <1>9, <1>10
<1>14. SegmentOf(n)
  BY <1>7, <1>13 DEF SegmentOf
<1> QED
  BY <1>11, <1>12, <1>13, <1>14

LEMMA SealKeepsJournal ==
  ASSUME MetricTypeOK, OnceInRows, JournalOK, PlaceOK, SealMetrics
  PROVE  JournalOK' /\ journal' \in SUBSET Segments
<1>0. PICK S : S = Segment
  OBVIOUS
<1> DEFINE N == Len(S.events)
<1>1. /\ stage = "seal" /\ stage' = "record" /\ Unsealed # {} /\ batch' = Unsealed
      /\ journal' = journal \cup {S}
      /\ secured' = secured \cup {rows[i] : i \in Unsealed}
      /\ UNCHANGED <<attempt, rows, sealed>>
  BY <1>0 DEF SealMetrics, Go, ledger
<1>2. S \in Segments /\ S.first \in Unsealed /\ S.attempt = attempt /\ ~S.expiring
  BY <1>0, <1>1, SegmentIs
<1>3. PICK n : SegmentOf(n)
  BY <1>1, SegmentIs
<1>4. journal \in SUBSET Segments /\ journal' \in SUBSET Segments
  BY <1>1, <1>2 DEF MetricTypeOK
<1>5. /\ sealed \in Nat /\ rows \in Seq(Events \cup {Nothing}) /\ Len(rows) \in Nat
      /\ sealed <= Len(rows) /\ DOMAIN rows = 1..Len(rows)
  BY LenProperties DEF MetricTypeOK
<1>6. Begins(Unsealed, After(rows, sealed)) /\ IsFiniteSet(Unsealed)
  BY <1>5, FirstAfterIs DEF Unsealed
<1>7. \A i \in Unsealed : /\ i \in Nat /\ i \in 1..Len(rows) /\ i > sealed
                          /\ rows[i] # Nothing /\ rows[i] \in Events
  <2>1. \A i : i \in After(rows, sealed) <=>
                i \in 1..Len(rows) /\ i > sealed /\ rows[i] # Nothing
    BY <1>5, AfterIs
  <2>2. Unsealed \subseteq After(rows, sealed)
    BY <1>6 DEF Begins
  <2>3. \A i \in 1..Len(rows) : i \in Nat /\ rows[i] \in Events \cup {Nothing}
    BY <1>5, ElementOfSeq
  <2> QED
    BY <2>1, <2>2, <2>3
<1>8. /\ N \in Nat /\ \A k \in 1..N : n[k] \in Unsealed /\ S.events[k] = rows[n[k]]
      /\ \A i \in Unsealed : \E k \in 1..N : n[k] = i
      /\ \A j, k \in 1..N : j < k <=> n[j] < n[k]
  BY <1>0, <1>2, <1>3, LenProperties DEF SegmentOf, Segments
<1> HIDE DEF N
<1>9. Mark = sealed /\ Mark' = High(Unsealed) /\ LedgerOrder /\ Ordered /\ MarkedOK
  BY <1>1 DEF Mark, JournalOK, Held
<1>24. \A i \in 1..Len(rows) :
         rows[i] # Nothing => /\ i \in After(rows, 0)
                              /\ ~(i <= sealed) => i \in After(rows, sealed)
  <2>1. \A i \in 1..Len(rows) : rows[i] # Nothing => i \in After(rows, 0)
    BY <1>5, AfterStart
  <2>2. \A i \in 1..Len(rows) : rows[i] # Nothing /\ i > sealed => i \in After(rows, sealed)
    BY <1>5, AfterIs
  <2> QED
    BY <1>5, <2>1, <2>2
<1>10. /\ High(Unsealed) \in Nat /\ High(Unsealed) \in Unsealed
       /\ \A i \in Unsealed : i <= High(Unsealed)
  BY <1>1, <1>5, <1>6, <1>7, RestIs
<1>11. \A p \in Entries : p \in Entries'
  BY <1>1, <1>4, EntryIs, NextEntryIs
<1>12. \A k \in 1..N : <<S, k>> \in Entries' /\ EventOf(<<S, k>>) = rows[n[k]]
  BY <1>1, <1>4, <1>8, NextEntryIs DEF N
<1>13. ASSUME NEW q \in Entries'
       PROVE  q \in Entries \/ (q[1] = S /\ q[2] \in 1..N /\ q = <<S, q[2]>>)
  BY <1>1, <1>4, EntryIs, NextEntryIs DEF N
<1>14. \A s \in journal : s.attempt = attempt => s.first <= sealed /\ ~s.expiring
  BY <1>1, <1>9 DEF JournalOK, MarkedOK, PlaceOK
<1>15. \A s \in journal : s.first \in Nat
  BY <1>4 DEF Segments
<1>16. KeysDiffer' /\ CopiesFirst'
  <2>1. \A s \in journal : s.attempt = S.attempt => s.first < S.first /\ ~s.expiring
    BY <1>2, <1>5, <1>7, <1>14, <1>15
  <2>2. KeysDiffer'
    <3> SUFFICES ASSUME NEW s \in journal', NEW t \in journal', s.attempt = t.attempt,
                        s.first = t.first, s # t, s.expiring = t.expiring
                 PROVE  FALSE
      BY DEF KeysDiffer
    <3>1. s \in journal /\ t \in journal
      BY <1>1, <1>2, <1>7, <1>15, <2>1
    <3> QED
      BY <3>1 DEF JournalOK, KeysDiffer
  <2>3. CopiesFirst'
    BY <1>1, <1>2, <2>1 DEF JournalOK, CopiesFirst
  <2> QED
    BY <2>2, <2>3
<1>17. ASSUME NEW p \in Entries, p[1].attempt = attempt, NEW k \in 1..N
       PROVE  /\ EventOf(p) # rows[n[k]] /\ Sooner(p, <<S, k>>)
  <2>1. PICK i \in 1..sealed : rows[i] = EventOf(p)
    BY <1>9, <1>17 DEF MarkedOK
  <2>2. EventOf(p) # rows[n[k]]
    BY <1>5, <1>7, <1>8, <2>1 DEF OnceInRows, Unrepeated
  <2>3. p[1].first < S.first
    BY <1>2, <1>4, <1>5, <1>7, <1>14, <1>15, <1>17, EntryIs
  <2> QED
    BY <1>2, <1>17, <2>2, <2>3 DEF Sooner
<1>25. ASSUME NEW p \in Entries, NEW k \in 1..N
       PROVE  Before(p, <<S, k>>)
  <2>1. p[1] \in journal /\ p[1].attempt \in Nat /\ attempt \in Nat
    BY <1>4, EntryIs DEF MetricTypeOK
  <2>2. p[1].attempt = attempt \/ p[1].attempt < attempt
    BY <2>1 DEF PlaceOK
  <2> QED
    BY <1>2, <1>17, <2>2 DEF Before
<1>18. ASSUME NEW j \in 1..N, NEW k \in 1..N
       PROVE  rows[n[j]] = rows[n[k]] => j = k
  <2>1. rows[n[j]] = rows[n[k]] => n[j] = n[k]
    BY <1>5, <1>7, <1>8 DEF OnceInRows, Unrepeated
  <2>2. n[j] = n[k] => ~(j < k) /\ ~(k < j)
    BY <1>7, <1>8
  <2> QED
    BY <1>8, <2>1, <2>2
<1>19. SealedOnce'
  <2> SUFFICES ASSUME NEW p \in Entries', NEW q \in Entries',
                      p[1].attempt = q[1].attempt, EventOf(p) = EventOf(q)
               PROVE  p[1].first = q[1].first /\ p[2] = q[2]
    BY DEF SealedOnce
  <2>1. CASE p \in Entries /\ q \in Entries
    BY <2>1 DEF JournalOK, SealedOnce
  <2>2. CASE p \in Entries /\ q[1] = S /\ q[2] \in 1..N /\ q = <<S, q[2]>>
    BY <1>2, <1>12, <1>17, <2>2
  <2>3. CASE q \in Entries /\ p[1] = S /\ p[2] \in 1..N /\ p = <<S, p[2]>>
    BY <1>2, <1>12, <1>17, <2>3
  <2>4. CASE /\ p[1] = S /\ p[2] \in 1..N /\ p = <<S, p[2]>>
             /\ q[1] = S /\ q[2] \in 1..N /\ q = <<S, q[2]>>
    BY <1>12, <1>18, <2>4
  <2> QED
    BY <1>13, <2>1, <2>2, <2>3, <2>4
<1>20. LedgerOrder'
  <2>1. ASSUME NEW q \in Entries
        PROVE  /\ \E j \in DOMAIN rows' : rows'[j] = EventOf(q)
               /\ \A i, j \in DOMAIN rows' :
                    i < j /\ rows'[j] = EventOf(q) /\ rows'[i] # Nothing =>
                      Follows(q, rows[i])'
    BY <1>1, <1>9, <1>11 DEF LedgerOrder, Follows
  <2>2. ASSUME NEW k \in 1..N
        PROVE  /\ \E j \in DOMAIN rows' : rows'[j] = EventOf(<<S, k>>)
               /\ \A i, j \in DOMAIN rows' :
                    i < j /\ rows'[j] = EventOf(<<S, k>>) /\ rows'[i] # Nothing =>
                      Follows(<<S, k>>, rows[i])'
    <3>1. rows'[n[k]] = EventOf(<<S, k>>) /\ n[k] \in DOMAIN rows'
      BY <1>1, <1>5, <1>7, <1>8, <1>12
    <3>2. ASSUME NEW i \in 1..Len(rows), NEW j \in 1..Len(rows), i < j,
                 rows[j] = EventOf(<<S, k>>), rows[i] # Nothing
          PROVE  Follows(<<S, k>>, rows[i])'
      <4>1. j = n[k]
        BY <1>5, <1>7, <1>8, <1>12, <3>2 DEF OnceInRows, Unrepeated
      <4>2. CASE i <= sealed
        <5>1. i \in After(rows, 0)
          BY <1>24, <3>2
        <5>2. PICK p \in Entries : EventOf(p) = rows[i]
          BY <1>9, <4>2, <5>1 DEF MarkedOK
        <5> QED
          BY <1>1, <1>11, <1>25, <5>2 DEF Follows
      <4>3. CASE ~(i <= sealed)
        <5>1. i \in After(rows, sealed)
          BY <1>24, <3>2, <4>3
        <5>2. i \in Unsealed
          BY <1>6, <1>7, <1>8, <3>2, <4>1, <5>1 DEF Begins
        <5>3. PICK m \in 1..N : n[m] = i
          BY <1>8, <5>2
        <5>4. m < k
          BY <1>8, <3>2, <4>1, <5>3
        <5>5. Sooner(<<S, m>>, <<S, k>>)
          BY <5>4 DEF Sooner
        <5> QED
          BY <1>1, <1>12, <5>3, <5>5 DEF Follows, Before
      <4> QED
        BY <4>2, <4>3
    <3> QED
      BY <1>1, <1>5, <3>1, <3>2
  <2>3. \A q \in Entries' :
          /\ \E j \in DOMAIN rows' : rows'[j] = EventOf(q)
          /\ \A i, j \in DOMAIN rows' :
               i < j /\ rows'[j] = EventOf(q) /\ rows'[i] # Nothing => Follows(q, rows[i])'
    BY <1>13, <2>1, <2>2
  <2> QED
    BY <2>3 DEF LedgerOrder
<1>21. MarkedOK'
  <2>1. ASSUME NEW i \in After(rows, 0), i <= High(Unsealed)
        PROVE  \E p \in Entries' : EventOf(p) = rows[i]
    <3>1. i \in 1..Len(rows) /\ rows[i] # Nothing
      BY <1>5, AfterIs
    <3>2. CASE i <= sealed
      BY <1>9, <1>11, <3>2 DEF MarkedOK
    <3>3. CASE ~(i <= sealed)
      <4>1. i \in After(rows, sealed)
        BY <1>24, <3>1, <3>3
      <4>2. i \in Unsealed
        BY <1>6, <1>10, <2>1, <3>1, <4>1 DEF Begins
      <4>3. PICK k \in 1..N : n[k] = i
        BY <1>8, <4>2
      <4> QED
        BY <1>12, <4>3
    <3> QED
      BY <3>2, <3>3
  <2>2. \A s \in journal' : s.attempt = attempt' => s.first <= Mark'
    <3>1. sealed <= High(Unsealed)
      BY <1>5, <1>7, <1>10
    <3> QED
      BY <1>1, <1>2, <1>5, <1>9, <1>10, <1>14, <1>15, <3>1
  <2>3. ASSUME NEW q \in Entries', q[1].attempt = attempt
        PROVE  \E i \in 1..High(Unsealed) : rows[i] = EventOf(q)
    <3>1. CASE q \in Entries
      <4>1. PICK i \in 1..sealed : rows[i] = EventOf(q)
        BY <1>9, <2>3, <3>1 DEF MarkedOK
      <4> QED
        BY <1>5, <1>7, <1>10, <4>1
    <3>2. CASE q[1] = S /\ q[2] \in 1..N /\ q = <<S, q[2]>>
      <4>1. n[q[2]] \in Unsealed /\ EventOf(q) = rows[n[q[2]]]
        BY <1>8, <1>12, <3>2
      <4> QED
        BY <1>7, <1>10, <4>1
    <3> QED
      BY <1>13, <3>1, <3>2
  <2> QED
    BY <1>1, <1>9, <2>1, <2>2, <2>3 DEF MarkedOK
<1>22. \A e \in secured' : \E p \in Entries' : EventOf(p) = e
  <2>1. ASSUME NEW i \in Unsealed
        PROVE  \E p \in Entries' : EventOf(p) = rows[i]
    <3>1. PICK k \in 1..N : n[k] = i
      BY <1>8
    <3> QED
      BY <1>12, <3>1
  <2> QED
    BY <1>1, <1>11, <2>1 DEF JournalOK
<1>23. IsFiniteSet(journal')
  BY <1>1, FS_AddElement DEF JournalOK
<1>26. Ordered'
  <2> SUFFICES ASSUME NEW p \in Entries', NEW q \in Entries', Sooner(p, q),
                      NEW i \in 1..Len(rows), NEW j \in 1..Len(rows),
                      rows[i] = EventOf(p), rows[j] = EventOf(q)
               PROVE  i < j
    BY <1>1, <1>5 DEF Ordered
  <2>1. p[1].attempt = q[1].attempt
    BY DEF Sooner
  <2>2. \A k \in 1..N : \A m \in 1..Len(rows) : rows[m] = rows[n[k]] => m = n[k]
    BY <1>5, <1>7, <1>8 DEF OnceInRows, Unrepeated
  <2>3. CASE p \in Entries /\ q \in Entries
    BY <1>5, <1>9, <2>3 DEF Ordered
  <2>4. CASE p \in Entries /\ q[1] = S /\ q[2] \in 1..N /\ q = <<S, q[2]>>
    <3>1. j \in Unsealed
      BY <1>8, <1>12, <2>2, <2>4
    <3>2. PICK m \in 1..sealed : rows[m] = EventOf(p)
      BY <1>2, <1>9, <2>1, <2>4 DEF MarkedOK
    <3>3. m \in 1..Len(rows) /\ rows[m] # Nothing
      BY <1>4, <1>5, <2>4, <3>2, EntryIs
    <3>4. m = i
      BY <1>5, <3>2, <3>3 DEF OnceInRows, Unrepeated
    <3> QED
      BY <1>5, <1>7, <3>1, <3>2, <3>4
  <2>5. CASE q \in Entries /\ p[1] = S /\ p[2] \in 1..N /\ p = <<S, p[2]>>
    <3>1. q[1] \in journal /\ q[1].first \in Nat /\ q[1].first <= sealed
      BY <1>2, <1>4, <1>14, <1>15, <2>1, <2>5, EntryIs
    <3>2. S.first > sealed /\ S.first \in Nat
      BY <1>2, <1>7
    <3> QED
      BY <1>5, <2>5, <3>1, <3>2 DEF Sooner
  <2>6. CASE /\ p[1] = S /\ p[2] \in 1..N /\ p = <<S, p[2]>>
             /\ q[1] = S /\ q[2] \in 1..N /\ q = <<S, q[2]>>
    <3>1. i = n[p[2]] /\ j = n[q[2]]
      BY <1>12, <2>2, <2>6
    <3>2. p[2] < q[2]
      <4>1. S.first \in Nat
        BY <1>2, <1>7
      <4> QED
        BY <2>6, <4>1 DEF Sooner
    <3> QED
      BY <1>8, <2>6, <3>1, <3>2
  <2> QED
    BY <1>13, <2>3, <2>4, <2>5, <2>6
<1> QED
  BY <1>1, <1>4, <1>16, <1>19, <1>20, <1>21, <1>22, <1>23, <1>26 DEF JournalOK, Held

-----------------------------------------------------------------------------
(* Recovery *)

LEMMA EntriesFinite ==
  ASSUME journal \in SUBSET Segments, IsFiniteSet(journal)
  PROVE  IsFiniteSet(Entries)
<1> DEFINE Parts == {{s} \X DOMAIN s.events : s \in journal}
           f == [s \in journal |-> {s} \X DOMAIN s.events]
<1>1. f \in Surjection(journal, Parts)
  BY DEF Surjection
<1>2. IsFiniteSet(Parts)
  <2> HIDE DEF Parts, f
  <2> QED
    BY <1>1, FS_Surjection
<1>3. ASSUME NEW s \in journal
      PROVE  IsFiniteSet({s} \X DOMAIN s.events)
  <2>1. Len(s.events) \in Nat /\ DOMAIN s.events = 1..Len(s.events)
    BY LenProperties DEF Segments
  <2>2. IsFiniteSet(DOMAIN s.events)
    BY <2>1, FS_Interval
  <2>3. IsFiniteSet({s})
    BY FS_Singleton
  <2> QED
    BY <2>2, <2>3, FS_Product
<1>4. \A P \in Parts : IsFiniteSet(P)
  BY <1>3
<1>5. IsFiniteSet(UNION Parts)
  <2> HIDE DEF Parts
  <2> QED
    BY <1>2, <1>4, FS_UNION
<1> QED
  BY <1>5 DEF Entries

\* The journal is read in one order, that of its keys.
ReadAs(order, N) ==
  /\ N \in Nat /\ order \in [1..N -> Entries]
  /\ \A p \in Entries : \E n \in 1..N : order[n] = p
  /\ \A m, n \in 1..N : m < n <=> EntryPrecedes(order[m], order[n])
  /\ Journaled \in Seq(Events) /\ Len(Journaled) = N
  /\ \A n \in 1..N : Journaled[n] = EventOf(order[n])

LEMMA JournaledIs ==
  ASSUME journal \in SUBSET Segments, IsFiniteSet(journal), KeysDiffer
  PROVE  \E order, N : ReadAs(order, N)
<1> DEFINE R == {r \in Entries \X Entries : EntryPrecedes(r[1], r[2])}
           order == InOrder(Entries, R)
           N == Cardinality(Entries)
<1>1. \A p, q \in Entries : <<p, q>> \in R <=> EntryPrecedes(p, q)
  OBVIOUS
<1>2. Journaled = [n \in DOMAIN order |-> EventOf(order[n])]
  BY DEF Journaled
<1> HIDE DEF R
<1>3. \A s \in journal : /\ s.attempt \in Nat /\ s.first \in Nat /\ s.expiring \in BOOLEAN
  BY DEF Segments
<1>4. \A s, t \in journal : s = t \/ KeyPrecedes(s, t) \/ KeyPrecedes(t, s)
  BY <1>3 DEF KeysDiffer, KeyPrecedes
<1>5. \A s \in journal : ~KeyPrecedes(s, s)
  BY <1>3 DEF KeyPrecedes
<1>6. \A s, t, u \in journal : KeyPrecedes(s, t) /\ KeyPrecedes(t, u) => KeyPrecedes(s, u)
  BY <1>3 DEF KeyPrecedes
<1>7. \A p \in Entries : /\ p[1] \in journal /\ p[2] \in Nat /\ p = <<p[1], p[2]>>
                         /\ EventOf(p) \in Events
  BY EntryIs
<1>8. \A p, q \in Entries : p = q \/ EntryPrecedes(p, q) \/ EntryPrecedes(q, p)
  <2> SUFFICES ASSUME NEW p \in Entries, NEW q \in Entries, p # q
               PROVE  EntryPrecedes(p, q) \/ EntryPrecedes(q, p)
    OBVIOUS
  <2>1. p[1] = q[1] => p[2] < q[2] \/ q[2] < p[2]
    BY <1>7
  <2> QED
    BY <1>4, <1>7, <2>1 DEF EntryPrecedes
<1>9. \A p \in Entries : ~EntryPrecedes(p, p)
  BY <1>5, <1>7 DEF EntryPrecedes
<1>10. \A p, q, r \in Entries :
         EntryPrecedes(p, q) /\ EntryPrecedes(q, r) => EntryPrecedes(p, r)
  <2> SUFFICES ASSUME NEW p \in Entries, NEW q \in Entries, NEW r \in Entries,
                      EntryPrecedes(p, q), EntryPrecedes(q, r)
               PROVE  EntryPrecedes(p, r)
    OBVIOUS
  <2>1. /\ p[1] \in journal /\ q[1] \in journal /\ r[1] \in journal
        /\ p[2] \in Nat /\ q[2] \in Nat /\ r[2] \in Nat
    BY <1>7
  <2>2. CASE p[1] = q[1]
    BY <1>5, <2>1, <2>2 DEF EntryPrecedes
  <2>3. CASE q[1] = r[1]
    BY <1>5, <2>1, <2>3 DEF EntryPrecedes
  <2>4. CASE KeyPrecedes(p[1], q[1]) /\ KeyPrecedes(q[1], r[1])
    BY <1>6, <2>1, <2>4 DEF EntryPrecedes
  <2> QED
    BY <2>2, <2>3, <2>4 DEF EntryPrecedes
<1>11. Orders(R, Entries)
  BY <1>1, <1>8, <1>9, <1>10 DEF Orders
<1>12. IsFiniteSet(Entries)
  BY EntriesFinite
<1>13. Lists(order, Entries, R)
  BY <1>11, <1>12, InOrderLists
<1> HIDE DEF order
<1>14. /\ N \in Nat /\ order \in [1..N -> Entries]
       /\ \A p \in Entries : \E n \in 1..N : order[n] = p
       /\ \A m, n \in 1..N : m < n <=> <<order[m], order[n]>> \in R
  BY <1>13 DEF Lists
<1> HIDE DEF N
<1>15. \A m, n \in 1..N : m < n <=> EntryPrecedes(order[m], order[n])
  BY <1>1, <1>14
<1>16. Journaled \in Seq(Events) /\ Len(Journaled) = N
  <2>1. \A n \in 1..N : EventOf(order[n]) \in Events
    BY <1>7, <1>14
  <2>2. Journaled \in [1..N -> Events]
    BY <1>2, <1>14, <2>1
  <2> QED
    BY <1>14, <2>2, SeqDef, LenProperties
<1>17. \A n \in 1..N : Journaled[n] = EventOf(order[n])
  BY <1>2, <1>14
<1> QED
  BY <1>14, <1>15, <1>16, <1>17 DEF ReadAs

\* What recovery inserts: what is there, the journal, entry by entry, then results.
LEMMA RecoveredIs ==
  ASSUME MetricTypeOK, OnceInRows, JournalOK
  PROVE  /\ Recovered \in Seq(Events \cup {Nothing}) /\ Unrepeated(Recovered)
         /\ Longer(Recovered, rows)
         /\ rows = <<>> => \E order, N, all :
              /\ ReadAs(order, N)
              /\ all \in Seq(Events \cup {Nothing}) /\ Recovered = Inserted(all)
              /\ N <= Len(all) /\ \A n \in 1..N : all[n] = EventOf(order[n])
<1> DEFINE more == SetToSeq(results)
           rest == Journaled \o more
           all == rows \o rest
<1>1. PICK order, N : ReadAs(order, N)
  BY JournaledIs DEF JournalOK, MetricTypeOK
<1>2. IsFiniteSet(results)
  BY FS_Subset DEF MetricTypeOK
<1>3. more \in Seq(results)
  BY <1>2, SetToSeqIs
<1>4. more \in Seq(Events)
  <2>1. results \subseteq Events
    BY DEF MetricTypeOK
  <2> QED
    BY <1>3, <2>1, SeqMonotonic
<1> HIDE DEF more
<1>5. Journaled \in Seq(Events) /\ Len(Journaled) = N /\ N \in Nat
  BY <1>1 DEF ReadAs
<1>6. /\ rest \in Seq(Events) /\ Len(rest) = N + Len(more) /\ Len(more) \in Nat
      /\ \A n \in 1..N : rest[n] = Journaled[n]
  <2>1. /\ rest \in Seq(Events) /\ Len(rest) = N + Len(more) /\ Len(more) \in Nat
        /\ \A n \in 1..(N + Len(more)) : n <= N => rest[n] = Journaled[n]
    BY <1>4, <1>5, ConcatProperties, LenProperties
  <2> QED
    BY <1>5, <2>1
<1> HIDE DEF rest
<1>7. rest \in Seq(Events \cup {Nothing}) /\ rows \in Seq(Events \cup {Nothing})
  BY <1>6, SeqMonotonic DEF MetricTypeOK
<1>8. /\ all \in Seq(Events \cup {Nothing}) /\ Len(all) = Len(rows) + Len(rest)
      /\ Len(rows) \in Nat /\ Len(rest) \in Nat /\ DOMAIN rows = 1..Len(rows)
      /\ \A n \in 1..Len(rows) : all[n] = rows[n]
      /\ rows = <<>> => all = rest
  <2>1. /\ all \in Seq(Events \cup {Nothing}) /\ Len(all) = Len(rows) + Len(rest)
        /\ Len(rows) \in Nat /\ Len(rest) \in Nat /\ DOMAIN rows = 1..Len(rows)
        /\ \A n \in 1..(Len(rows) + Len(rest)) : n <= Len(rows) => all[n] = rows[n]
    BY <1>7, ConcatProperties, LenProperties
  <2>2. rows = <<>> => all = rest
    BY <1>7, ConcatEmptySeq
  <2> QED
    BY <2>1, <2>2
<1>9. Recovered = Inserted(all)
  <2>1. /\ Journaled \in Seq(Events \cup {Nothing}) /\ more \in Seq(Events \cup {Nothing})
        /\ rows \in Seq(Events \cup {Nothing})
    BY <1>4, <1>5, <1>7, SeqMonotonic
  <2>2. (rows \o Journaled) \o more = rows \o (Journaled \o more)
    <3>1. \A a, b, c \in Seq(Events \cup {Nothing}) : (a \o b) \o c = a \o (b \o c)
      BY ConcatAssociative
    <3> QED
      BY <2>1, <3>1, Zenon
  <2>3. Recovered = Inserted((rows \o Journaled) \o more)
    BY DEF Recovered, more
  <2> QED
    BY <2>2, <2>3 DEF rest
<1> HIDE DEF all
<1>10. /\ Recovered \in Seq(Events \cup {Nothing}) /\ Unrepeated(Recovered)
       /\ Len(Recovered) = Len(all)
       /\ \A i \in 1..Len(all) :
            /\ Recovered[i] \in {Nothing, all[i]}
            /\ Recovered[i] = Nothing <=>
                 all[i] = Nothing \/ \E j \in 1..(i - 1) : all[j] = all[i]
  BY <1>8, <1>9, InsertedIs
<1>11. Longer(Recovered, rows)
  <2> SUFFICES ASSUME NEW i \in 1..Len(rows)
               PROVE  Recovered[i] = rows[i]
    BY <1>8, <1>10 DEF Longer
  <2>1. i \in 1..Len(all) /\ all[i] = rows[i]
    BY <1>8
  <2>2. ASSUME NEW j \in 1..(i - 1), all[j] = all[i], all[i] # Nothing
        PROVE  FALSE
    <3>1. j \in 1..Len(rows) /\ j # i
      BY <1>8
    <3> QED
      BY <1>8, <2>1, <2>2, <3>1 DEF OnceInRows, Unrepeated
  <2> QED
    BY <1>10, <2>1, <2>2
<1>12. rows = <<>> => N <= Len(all) /\ \A n \in 1..N : all[n] = EventOf(order[n])
  BY <1>1, <1>5, <1>6, <1>8 DEF ReadAs
<1> QED
  BY <1>1, <1>8, <1>9, <1>10, <1>11, <1>12

\* The journal is read in the order of an attempt, whatever was copied: of what precedes
\* an entry in that order, something is read before it.
LEMMA BeforeIsRead ==
  ASSUME journal \in SUBSET Segments, KeysDiffer, CopiesFirst,
         NEW p \in Entries, NEW r \in Entries, Before(p, r)
  PROVE  \E x \in Entries : EventOf(x) = EventOf(p) /\ EntryPrecedes(x, r)
<1>1. \A e \in Entries : /\ e[1] \in journal /\ e[1].attempt \in Nat /\ e[1].first \in Nat
                         /\ e[2] \in Nat /\ e[1].expiring \in BOOLEAN
                         /\ e[2] \in 1..Len(e[1].events)
  BY EntryIs
<1>2. CASE p[1].attempt < r[1].attempt
  BY <1>2 DEF EntryPrecedes, KeyPrecedes
<1>3. CASE Sooner(p, r) /\ p[1].expiring = r[1].expiring
  <2>1. p[1].first = r[1].first => p[1] = r[1]
    BY <1>1, <1>3 DEF KeysDiffer, Sooner
  <2> QED
    BY <1>3, <2>1 DEF EntryPrecedes, KeyPrecedes, Sooner
<1>4. CASE Sooner(p, r) /\ p[1].expiring /\ ~r[1].expiring
  BY <1>4 DEF EntryPrecedes, KeyPrecedes, Sooner
<1>5. CASE Sooner(p, r) /\ ~p[1].expiring /\ r[1].expiring
  <2> DEFINE x == <<r[1], p[2]>>
  <2>1. /\ r[1].first <= p[1].first
        /\ r[1].first = p[1].first => r[1] = Moved(p[1])
    BY <1>1, <1>5 DEF CopiesFirst, Sooner
  <2>2. r[1].first = p[1].first /\ p[2] < r[2]
    BY <1>1, <1>5, <2>1 DEF Sooner
  <2>3. r[1].events = p[1].events
    <3>1. p[1] \in Segments
      BY <1>1
    <3> QED
      BY <2>1, <2>2, <3>1 DEF Moved, Segments
  <2>4. x \in Entries /\ EventOf(x) = EventOf(p)
    <3>1. p[2] \in 1..Len(r[1].events) /\ r[1] \in journal
      BY <1>1, <2>3
    <3> QED
      BY <2>3, <3>1, EntryIs DEF EventOf
  <2>5. EntryPrecedes(x, r)
    BY <2>2 DEF EntryPrecedes
  <2> QED
    BY <2>4, <2>5
<1> QED
  BY <1>1, <1>2, <1>3, <1>4, <1>5 DEF Before

\* The rebuilt ledger has the events of the journal in the order of every attempt.  What
\* precedes the first entry of an event is in an earlier attempt than any entry of that
\* event, or sooner in the same one; and because the attempts agree, what one of them
\* sealed sooner comes first.
LEMMA RecoveredInOrder ==
  ASSUME MetricTypeOK, OnceInRows, JournalOK, rows = <<>>, Agreeing
  PROVE  \A q \in Entries :
           /\ \E j \in 1..Len(Recovered) : Recovered[j] = EventOf(q)
           /\ \A i, j \in 1..Len(Recovered) :
                Recovered[j] = EventOf(q) /\ Recovered[i] # Nothing =>
                  /\ i < j => Follows(q, Recovered[i])
                  /\ \A p \in Entries :
                       Sooner(p, q) /\ Recovered[i] = EventOf(p) => i < j
<1>1. PICK order, N, all :
         /\ ReadAs(order, N)
         /\ all \in Seq(Events \cup {Nothing}) /\ Recovered = Inserted(all)
         /\ N <= Len(all) /\ \A n \in 1..N : all[n] = EventOf(order[n])
  BY RecoveredIs
<1> DEFINE new == Recovered
           L == Len(all)
<1>2. /\ Len(new) = L /\ L \in Nat /\ N \in Nat
      /\ \A i \in 1..L : /\ new[i] \in {Nothing, all[i]}
                         /\ new[i] = Nothing <=>
                              all[i] = Nothing \/ \E j \in 1..(i - 1) : all[j] = all[i]
  BY <1>1, InsertedIs, LenProperties DEF ReadAs
<1> HIDE DEF new, L
<1>3. journal \in SUBSET Segments /\ KeysDiffer /\ CopiesFirst /\ SealedOnce
  BY DEF MetricTypeOK, JournalOK
<1>4. \A p \in Entries : EventOf(p) # Nothing /\ p[1].attempt \in Nat
  BY <1>3, EntryIs
<1>5. /\ \A n \in 1..N : order[n] \in Entries /\ n \in 1..L /\ all[n] = EventOf(order[n])
      /\ \A p \in Entries : \E n \in 1..N : order[n] = p
      /\ \A m, n \in 1..N : m < n <=> EntryPrecedes(order[m], order[n])
  BY <1>1, <1>2 DEF ReadAs, L
<1>first. ASSUME NEW j \in 1..L, new[j] # Nothing
          PROVE  all[j] = new[j] /\ \A k \in 1..L : k < j => all[k] # new[j]
  <2>1. \A k \in 1..L : k < j => k \in 1..(j - 1)
    BY <1>2
  <2> QED
    BY <1>2, <1>first, <2>1
<1> SUFFICES ASSUME NEW q \in Entries
             PROVE  /\ \E j \in 1..L : new[j] = EventOf(q)
                    /\ \A i, j \in 1..L :
                         new[j] = EventOf(q) /\ new[i] # Nothing =>
                           /\ i < j => Follows(q, new[i])
                           /\ \A p \in Entries : Sooner(p, q) /\ new[i] = EventOf(p) => i < j
  BY <1>2 DEF new
<1>6. PICK m \in 1..N : order[m] = q
  BY <1>5
<1>7. \E j \in 1..L : new[j] = EventOf(q)
  <2> DEFINE Had == {j \in 1..N : all[j] = EventOf(q)}
             first == Min(Had)
  <2>1. Had \in SUBSET Nat /\ Had # {}
    BY <1>5, <1>6
  <2>2. first \in Had /\ \A j \in Had : first <= j
    BY <2>1, MinIs
  <2> HIDE DEF first
  <2>3. first \in 1..N /\ all[first] = EventOf(q) /\ first \in 1..L
    BY <1>5, <2>2
  <2>4. ~ \E j \in 1..(first - 1) : all[j] = all[first]
    <3> SUFFICES ASSUME NEW j \in 1..(first - 1), all[j] = EventOf(q)
                 PROVE  FALSE
      BY <2>3
    <3>1. j \in 1..N /\ ~(first <= j)
      BY <1>2, <2>3
    <3> QED
      BY <2>2, <3>1
  <2> QED
    BY <1>2, <1>4, <2>3, <2>4
<1>8. ASSUME NEW j \in 1..L, new[j] = EventOf(q)
      PROVE  /\ j \in 1..N /\ order[j] \in Entries /\ EventOf(order[j]) = EventOf(q)
             /\ all[j] = EventOf(q) /\ \A k \in 1..L : k < j => all[k] # EventOf(q)
             /\ order[j][1].attempt <= q[1].attempt
  <2>1. all[j] = EventOf(q) /\ \A k \in 1..L : k < j => all[k] # EventOf(q)
    BY <1>4, <1>8, <1>first
  <2>2. ~(m < j)
    BY <1>5, <1>6, <2>1
  <2>3. j \in 1..N /\ (j = m \/ j < m)
    BY <1>2, <2>2
  <2>4. order[j] \in Entries /\ EventOf(order[j]) = EventOf(q)
    BY <1>5, <2>1, <2>3
  <2>5. j < m => EntryPrecedes(order[j], q)
    BY <1>5, <1>6, <2>3
  <2>6. order[j][1].attempt <= q[1].attempt
    <3>1. order[j][1].attempt \in Nat /\ q[1].attempt \in Nat
      BY <1>4, <2>4
    <3> QED
      BY <1>6, <2>3, <2>5, <3>1 DEF EntryPrecedes, KeyPrecedes
  <2> QED
    BY <2>1, <2>3, <2>4, <2>6
<1>9. ASSUME NEW i \in 1..L, NEW j \in 1..L, i < j, new[j] = EventOf(q), new[i] # Nothing
      PROVE  Follows(q, new[i])
  <2>1. PICK p, r : p = order[i] /\ r = order[j]
    OBVIOUS
  <2>2. i \in 1..N /\ j \in 1..N
    BY <1>2, <1>8, <1>9
  <2>3. /\ p \in Entries /\ r \in Entries /\ EntryPrecedes(p, r)
        /\ EventOf(p) = new[i] /\ EventOf(r) = EventOf(q)
    BY <1>5, <1>8, <1>9, <1>first, <2>1, <2>2
  <2>4. /\ p[1].attempt \in Nat /\ r[1].attempt \in Nat /\ q[1].attempt \in Nat
        /\ r[1].attempt <= q[1].attempt
    BY <1>4, <1>8, <1>9, <2>1, <2>3
  <2>5. CASE p[1].attempt < q[1].attempt
    BY <2>3, <2>5 DEF Follows, Before
  <2>6. CASE ~(p[1].attempt < q[1].attempt)
    <3>1. p[1].attempt = r[1].attempt /\ r[1].attempt = q[1].attempt
      BY <2>3, <2>4, <2>6 DEF EntryPrecedes, KeyPrecedes
    <3>2. SamePlace(r, q)
      BY <1>3, <2>3, <3>1 DEF SealedOnce, SamePlace
    <3>3. ASSUME NEW x \in Entries, EventOf(x) = EventOf(q)
          PROVE  ~EntryPrecedes(x, p)
      <4>1. PICK k \in 1..N : order[k] = x
        BY <1>5
      <4>2. all[k] = EventOf(q) /\ k \in 1..L
        BY <1>5, <3>3, <4>1
      <4>3. ~(k < j)
        BY <1>8, <1>9, <4>2
      <4>4. ~(k < i)
        BY <1>2, <1>9, <4>3
      <4> QED
        BY <1>5, <2>1, <2>2, <4>1, <4>4
    <3>4. ~Sooner(r, p)
      BY <1>3, <2>3, <3>3, BeforeIsRead DEF Before
    <3>5. EventOf(p) # EventOf(r)
      BY <1>5, <1>8, <1>9, <2>1, <2>2, <2>3
    <3>6. ~SamePlace(p, r)
      BY <1>3, <2>3, <3>5, AtTheSamePlace
    <3>7. Sooner(p, r)
      BY <1>3, <2>3, <3>1, <3>4, <3>6, SoonerIsTotal
    <3>8. Sooner(p, q)
      <4>1. SamePlace(p, p)
        BY DEF SamePlace
      <4> QED
        BY <3>2, <3>7, <4>1, SoonerThanTwin
    <3> QED
      BY <2>3, <3>8 DEF Follows, Before
  <2> QED
    BY <2>5, <2>6
<1>10. ASSUME NEW i \in 1..L, NEW j \in 1..L, new[j] = EventOf(q),
              NEW p \in Entries, Sooner(p, q), new[i] = EventOf(p)
       PROVE  i < j
  <2>1. PICK r : r = order[j]
    OBVIOUS
  <2>2. r \in Entries /\ EventOf(r) = EventOf(q) /\ j \in 1..N
    BY <1>8, <1>10, <2>1
  <2>3. Follows(r, EventOf(p))
    BY <1>10, <2>2 DEF Agreeing
  <2>4. PICK y \in Entries : Before(y, r) /\ EventOf(y) = EventOf(p)
    BY <2>3 DEF Follows
  <2>5. PICK x \in Entries : EventOf(x) = EventOf(p) /\ EntryPrecedes(x, r)
    BY <1>3, <2>2, <2>4, BeforeIsRead
  <2>6. PICK k \in 1..N : order[k] = x
    BY <1>5
  <2>7. k < j /\ k \in 1..L /\ all[k] = EventOf(p)
    BY <1>5, <2>1, <2>2, <2>5, <2>6
  <2>8. ~(k < i)
    BY <1>4, <1>10, <1>first, <2>7
  <2> QED
    BY <1>2, <2>7, <2>8
<1> QED
  BY <1>7, <1>9, <1>10

LEMMA RecoverKeepsJournal ==
  ASSUME MetricTypeOK, OnceInRows, OnceInRows', JournalOK, PlaceOK, Recover
  PROVE  JournalOK'
<1>1. /\ stage = "start" /\ stage' = "seal" /\ rows' = Recovered
      /\ UNCHANGED <<attempt, sealed, journal, secured>>
  BY DEF Recover, Go
<1>2. sealed \in 0..Len(rows) /\ Mark = sealed /\ Mark' = sealed
  BY <1>1 DEF MetricTypeOK, Mark
<1>3. Recovered \in Seq(Events \cup {Nothing}) /\ Longer(Recovered, rows)
  BY RecoveredIs
<1>4. CASE rows # <<>>
  BY <1>1, <1>2, <1>3, <1>4, JournalStays DEF Held
<1>5. CASE rows = <<>>
  <2>1. Entries' = Entries
    BY <1>1 DEF Entries
  <2>2. DOMAIN rows' = 1..Len(Recovered)
    BY <1>1, <1>3, LenProperties
  <2>3. Agreeing
    BY <1>1, <1>5 DEF JournalOK, Held
  <2>4. \A q \in Entries :
          /\ \E j \in 1..Len(Recovered) : Recovered[j] = EventOf(q)
          /\ \A i, j \in 1..Len(Recovered) :
               Recovered[j] = EventOf(q) /\ Recovered[i] # Nothing =>
                 /\ i < j => Follows(q, Recovered[i])
                 /\ \A p \in Entries : Sooner(p, q) /\ Recovered[i] = EventOf(p) => i < j
    BY <1>5, <2>3, RecoveredInOrder
  <2>5. \A q, e : Follows(q, e)' <=> Follows(q, e)
    BY <2>1 DEF Follows
  <2>6. LedgerOrder'
    <3> SUFFICES ASSUME NEW q \in Entries
                 PROVE  /\ \E j \in 1..Len(Recovered) : Recovered[j] = EventOf(q)
                        /\ \A i, j \in 1..Len(Recovered) :
                             i < j /\ Recovered[j] = EventOf(q) /\ Recovered[i] # Nothing =>
                               Follows(q, Recovered[i])
      BY <1>1, <2>1, <2>2, <2>5 DEF LedgerOrder, Follows
    <3> QED
      BY <2>4
  <2>7. Ordered'
    <3>1. \A p \in Entries : EventOf(p) # Nothing
      BY EntryIs DEF MetricTypeOK
    <3>2. \A p, q \in Entries : Sooner(p, q) =>
            \A i, j \in 1..Len(Recovered) :
              Recovered[i] = EventOf(p) /\ Recovered[j] = EventOf(q) => i < j
      BY <2>4, <3>1
    <3> QED
      BY <1>1, <2>1, <2>2, <3>2 DEF Ordered
  <2>8. MarkedOK'
    <3>1. sealed = 0
      BY <1>2, <1>5
    <3>2. \A i \in After(rows', 0) : ~(i <= 0)
      BY <1>1, <1>3, AfterStart
    <3>3. \A s \in journal : s.attempt # attempt
      <4>1. \A s \in journal : s.attempt \in Nat /\ s.attempt < attempt /\ attempt \in Nat
        BY <1>1 DEF PlaceOK, MetricTypeOK, Segments
      <4> QED
        BY <4>1
    <3>4. \A p \in Entries : p[1].attempt # attempt
      BY <3>3, EntryIs DEF MetricTypeOK
    <3> QED
      BY <1>1, <1>2, <2>1, <3>1, <3>2, <3>3, <3>4 DEF MarkedOK
  <2>9. IsFiniteSet(journal') /\ KeysDiffer' /\ CopiesFirst' /\ SealedOnce'
    BY <1>1, <2>1 DEF JournalOK, KeysDiffer, CopiesFirst, SealedOnce
  <2> QED
    BY <1>1, <2>1, <2>6, <2>7, <2>8, <2>9 DEF JournalOK, Held
<1> QED
  BY <1>4, <1>5

LEMMA DieKeepsJournal ==
  ASSUME MetricTypeOK, MarksOK, PlaceOK, JournalOK, Die
  PROVE  JournalOK'
<1>1. /\ stage' = "start" /\ attempt' = attempt + 1 /\ batch' = {}
      /\ UNCHANGED <<journal, secured>>
      /\ rows' = <<>> \/ UNCHANGED <<rows, sealed>>
  BY DEF Die, Marks
<1>2. Entries' = Entries /\ \A p, e : Follows(p, e)' <=> Follows(p, e)
  BY <1>1 DEF Entries, Follows
<1>3. IsFiniteSet(journal') /\ KeysDiffer' /\ CopiesFirst' /\ SealedOnce'
  BY <1>1, <1>2 DEF JournalOK, KeysDiffer, CopiesFirst, SealedOnce
<1>4. CASE rows' = <<>>
  <2>1. Agreeing
    BY LedgerAgrees DEF JournalOK
  <2>2. Agreeing'
    BY <1>2, <2>1 DEF Agreeing, Follows
  <2> QED
    BY <1>1, <1>2, <1>3, <1>4, <2>2 DEF JournalOK, Held
<1>5. CASE rows' # <<>> /\ UNCHANGED <<rows, sealed>>
  <2>1. LedgerOrder /\ Ordered /\ MarkedOK
    BY <1>5 DEF JournalOK, Held
  <2>2. LedgerOrder' /\ Ordered'
    BY <1>2, <1>5, <2>1 DEF LedgerOrder, Ordered, Follows
  <2>3. Mark' = sealed /\ sealed <= Mark /\ Mark \in Nat /\ sealed \in Nat
    <3>1. CASE stage = "record"
      <4>1. rows \in Seq(Events \cup {Nothing}) /\ sealed \in Nat
        BY LenProperties DEF MetricTypeOK
      <4>2. /\ batch # {} /\ Begins(batch, After(rows, sealed))
        BY <3>1 DEF MarksOK
      <4>3. High(batch) \in batch /\ High(batch) > sealed
        BY <4>1, <4>2, RestIs
      <4>4. batch \in SUBSET Nat
        BY <4>1, LenProperties DEF MetricTypeOK
      <4>5. Mark = High(batch) /\ Mark' = sealed
        BY <1>1, <1>5, <3>1 DEF Mark
      <4>6. High(batch) \in Nat
        BY <4>3, <4>4
      <4> QED
        BY <4>1, <4>3, <4>5, <4>6
    <3>2. CASE stage # "record"
      <4>1. sealed \in Nat /\ Mark = sealed
        BY <3>2, LenProperties DEF MetricTypeOK, Mark
      <4>2. Mark' = sealed
        BY <1>1, <1>5 DEF Mark
      <4> QED
        BY <4>1, <4>2
    <3> QED
      BY <3>1, <3>2
  <2>4. MarkedOK'
    <3>1. \A i \in After(rows, 0) : i <= sealed => i <= Mark
      <4>1. \A i \in After(rows, 0) : i \in Nat
        BY AfterIs DEF MetricTypeOK
      <4> QED
        BY <2>3, <4>1
    <3>2. \A s \in journal : s.attempt # attempt'
      <4>1. \A s \in journal : s.attempt \in Nat /\ s.attempt <= attempt /\ attempt \in Nat
        BY DEF PlaceOK, MetricTypeOK, Segments
      <4> QED
        BY <1>1, <4>1
    <3>3. \A p \in Entries : p[1].attempt # attempt'
      BY <3>2, EntryIs DEF MetricTypeOK
    <3> QED
      BY <1>1, <1>2, <1>5, <2>1, <2>3, <3>1, <3>2, <3>3 DEF MarkedOK
  <2> QED
    BY <1>1, <1>2, <1>3, <1>5, <2>2, <2>4 DEF JournalOK, Held
<1> QED
  BY <1>1, <1>4, <1>5

-----------------------------------------------------------------------------
(* Types, marks and places *)

LEMMA MetricTypes ==
  ASSUME MetricTypeOK
  PROVE  /\ rows \in Seq(Events \cup {Nothing}) /\ Len(rows) \in Nat /\ DOMAIN rows = 1..Len(rows)
         /\ \A i \in 1..Len(rows) : rows[i] # Nothing => rows[i] \in Events
         /\ published \in Nat /\ published <= Len(rows)
         /\ sealed \in Nat /\ sealed <= Len(rows)
         /\ batch \in SUBSET (1..Len(rows)) /\ batch \in SUBSET Nat /\ attempt \in Nat
         /\ journal \in SUBSET Segments
<1>1. /\ rows \in Seq(Events \cup {Nothing}) /\ Len(rows) \in Nat /\ DOMAIN rows = 1..Len(rows)
      /\ \A i \in 1..Len(rows) : rows[i] \in Events \cup {Nothing}
  BY LenProperties, ElementOfSeq DEF MetricTypeOK
<1> QED
  BY <1>1 DEF MetricTypeOK

\* The ledger stays as it is or gets one more row.
LEMMA GrowthIs ==
  ASSUME MetricTypeOK, OnceInRows, rows' = rows \/ \E e \in Events : rows' = Enqueue(rows, e)
  PROVE  /\ rows' \in Seq(Events \cup {Nothing}) /\ OnceInRows' /\ Prolongs(rows', rows)
         /\ Len(rows') \in Nat /\ Len(rows) <= Len(rows') /\ DOMAIN rows' = 1..Len(rows')
         /\ \A i \in 1..Len(rows) : i \in 1..Len(rows') /\ rows'[i] = rows[i]
<1>1. /\ rows \in Seq(Events \cup {Nothing}) /\ Unrepeated(rows) /\ Len(rows) \in Nat
  BY MetricTypes DEF OnceInRows
<1>2. rows' \in Seq(Events \cup {Nothing}) /\ Prolongs(rows', rows) /\ Unrepeated(rows')
  <2>1. CASE rows' = rows
    BY <1>1, <2>1 DEF Prolongs
  <2>2. CASE \E e \in Events : rows' = Enqueue(rows, e)
    BY <1>1, <2>2, EnqueueIs
  <2> QED
    BY <2>1, <2>2
<1>3. Len(rows') \in Nat /\ DOMAIN rows' = 1..Len(rows')
  BY <1>2, LenProperties
<1>4. Len(rows) <= Len(rows') /\ \A i \in 1..Len(rows) : i \in 1..Len(rows') /\ rows'[i] = rows[i]
  BY <1>1, <1>2, ProlongIs
<1>5. OnceInRows'
  BY <1>2 DEF OnceInRows, Unrepeated
<1> QED
  BY <1>1, <1>2, <1>3, <1>4, <1>5

\* Every step but a death and a recovery lets the ledger grow.
Steady ==
  SealMetrics \/ SealNothing \/ RecordSegment \/ PollEvals \/ PublishFrame \/ PublishFails
  \/ Interrupted \/ Supervise \/ DrainOn \/ Drained \/ DrainedAgain \/ FinishWandb \/ DeleteSegment
  \/ CreateTerminal \/ Upload \/ (\E e \in Events : Learn(e) \/ Repeat(e))
  \/ (\E s \in Active : CopySegment(s)) \/ UNCHANGED metricVars

LEMMA SteadyIsMost ==
  [MetricNext]_metricVars <=> Steady \/ Die \/ Recover
BY Zenon DEF MetricNext, Steady

LEMMA SteadyGrows ==
  ASSUME Steady
  PROVE  /\ rows' = rows \/ \E e \in Events : rows' = Enqueue(rows, e)
         /\ attempt' = attempt /\ ahead' = ahead /\ lost' = lost
<1>1. CASE SealMetrics \/ SealNothing \/ RecordSegment \/ PublishFrame \/ PublishFails
           \/ Interrupted \/ Supervise \/ DrainOn
  BY <1>1 DEF SealMetrics, SealNothing, RecordSegment, PublishFrame, PublishFails,
              Interrupted, Supervise, DrainOn, ledger
<1>2. CASE DrainedAgain \/ FinishWandb \/ DeleteSegment \/ CreateTerminal \/ Upload
           \/ UNCHANGED metricVars
  BY <1>2 DEF DrainedAgain, FinishWandb, DeleteSegment, CreateTerminal, Upload, metricVars,
              ledger
<1>3. CASE PollEvals
  BY <1>3 DEF PollEvals
<1>4. CASE Drained
  BY <1>4 DEF Drained, Fresh
<1>5. CASE \E e \in Events : Learn(e) \/ Repeat(e)
  BY <1>5 DEF Learn, Repeat
<1>6. CASE \E s \in Active : CopySegment(s)
  BY <1>6 DEF CopySegment, ledger
<1> QED
  BY <1>1, <1>2, <1>3, <1>4, <1>5, <1>6 DEF Steady

\* What the lemmas below need of the inductive invariant.
Ordinary == MetricTypeOK /\ OnceInRows /\ MarksOK /\ PlaceOK /\ JournalOK

LEMMA OnceKept ==
  ASSUME Ordinary, [MetricNext]_metricVars
  PROVE  OnceInRows' /\ rows' \in Seq(Events \cup {Nothing})
<1>1. CASE Steady
  BY <1>1, SteadyGrows, GrowthIs DEF Ordinary
<1>2. CASE Die
  <2>1. CASE rows' = <<>>
    BY <2>1, EmptySeq DEF OnceInRows, Unrepeated
  <2>2. CASE rows' = rows
    BY <2>2 DEF Ordinary, MetricTypeOK, OnceInRows, Unrepeated
  <2> QED
    BY <1>2, <2>1, <2>2 DEF Die
<1>3. CASE Recover
  BY <1>3, RecoveredIs DEF Recover, Ordinary, OnceInRows
<1> QED
  BY <1>1, <1>2, <1>3, SteadyIsMost

LEMMA BatchTypes ==
  ASSUME MetricTypeOK, OnceInRows, Steady
  PROVE  /\ batch' \in SUBSET (DOMAIN rows')
         /\ published' \in 0..Len(rows') /\ sealed' \in 0..Len(rows')
<1>1. /\ rows' \in Seq(Events \cup {Nothing}) /\ Len(rows') \in Nat /\ Len(rows) <= Len(rows')
      /\ DOMAIN rows' = 1..Len(rows')
  BY SteadyGrows, GrowthIs
<1>2. /\ rows \in Seq(Events \cup {Nothing}) /\ Len(rows) \in Nat
      /\ published \in Nat /\ published <= Len(rows) /\ sealed \in Nat /\ sealed <= Len(rows)
      /\ batch \in SUBSET (1..Len(rows)) /\ batch \in SUBSET Nat
  BY MetricTypes
<1>3. published \in 0..Len(rows') /\ sealed \in 0..Len(rows') /\ batch \subseteq DOMAIN rows'
  BY <1>1, <1>2
<1>4. CASE UNCHANGED <<batch, published, sealed>>
  BY <1>3, <1>4
<1>5. CASE SealMetrics
  <2>1. Unsealed \subseteq After(rows, sealed)
    BY <1>2, FirstAfterIs DEF Unsealed, Begins
  <2>2. Unsealed \in SUBSET (1..Len(rows))
    BY <1>2, <2>1, AfterIs
  <2> QED
    BY <1>1, <1>2, <1>3, <1>5, <2>2 DEF SealMetrics, ledger
<1>6. CASE RecordSegment
  <2>1. High(batch) \in 0..Len(rows)
    BY <1>2, HighIs
  <2> QED
    BY <1>1, <1>2, <1>3, <1>6, <2>1 DEF RecordSegment, HighWater
<1>7. CASE PollEvals
  <2>1. FirstAfter(rows', published, BatchFrames) \subseteq After(rows', published)
    BY <1>1, <1>2, FirstAfterIs DEF Begins
  <2>2. FirstAfter(rows', published, BatchFrames) \subseteq DOMAIN rows'
    BY <1>1, <1>2, <2>1, AfterIs
  <2> QED
    BY <1>3, <1>7, <2>2 DEF PollEvals
<1>8. CASE PublishFrame
  BY <1>1, <1>2, <1>3, <1>8 DEF PublishFrame
<1>9. CASE PublishFails \/ Interrupted
  BY <1>3, <1>9 DEF PublishFails, Interrupted, ledger
<1>10. SealMetrics \/ RecordSegment \/ PollEvals \/ PublishFrame \/ PublishFails
       \/ Interrupted \/ UNCHANGED <<batch, published, sealed>>
  <2>1. CASE SealNothing \/ Supervise \/ DrainOn \/ Drained
    BY <2>1 DEF SealNothing, Supervise, DrainOn, Drained, ledger
  <2>2. CASE DrainedAgain \/ FinishWandb \/ DeleteSegment \/ CreateTerminal
    BY <2>2 DEF DrainedAgain, FinishWandb, DeleteSegment, CreateTerminal, ledger
  <2>3. CASE Upload \/ UNCHANGED metricVars
    BY <2>3 DEF Upload, metricVars, ledger
  <2>4. CASE \E e \in Events : Learn(e) \/ Repeat(e)
    BY <2>4 DEF Learn, Repeat
  <2>5. CASE \E s \in Active : CopySegment(s)
    BY <2>5 DEF CopySegment, ledger
  <2> QED
    BY <2>1, <2>2, <2>3, <2>4, <2>5 DEF Steady
<1> QED
  BY <1>4, <1>5, <1>6, <1>7, <1>8, <1>9, <1>10

\* The steps of W&B's client and of W&B.
LEMMA LastStepIs ==
  ASSUME NEW log \in Seq(Points)
  PROVE  /\ LastStep(log) \in Nat
         /\ log # <<>> => Len(log) \in 1..Len(log) /\ LastStep(log) = log[Len(log)].step
<1>1. CASE log = <<>>
  BY <1>1 DEF LastStep
<1>2. CASE log # <<>>
  <2>1. Len(log) \in 1..Len(log)
    BY <1>2, EmptySeq
  <2>2. log[Len(log)] \in Points
    BY <2>1, ElementOfSeq
  <2> QED
    BY <1>2, <2>1, <2>2 DEF LastStep, Points
<1> QED
  BY <1>1, <1>2

LEMMA WandbTypes ==
  ASSUME MetricTypeOK, MarksOK, [MetricNext]_metricVars
  PROVE  sdk' \in Seq(Points) /\ history' \in Seq(Points)
<1>1. sdk \in Seq(Points) /\ history \in Seq(Points)
  BY DEF MetricTypeOK
<1>2. CASE PublishFrame \/ Interrupted
  <2>1. PICK row \in batch : Log(row)
    BY <1>2 DEF PublishFrame, Interrupted
  <2>2. row \in After(rows, published)
    BY <1>2 DEF PublishFrame, Interrupted, MarksOK, Begins, Unsent
  <2>3. row \in Nat /\ rows[row] \in Events
    BY <2>2, MetricTypes, AfterIs
  <2>4. [step |-> row, event |-> rows[row]] \in Points
    BY <2>3 DEF Points
  <2> QED
    BY <1>1, <1>2, <2>1, <2>4, AppendProperties DEF Log, PublishFrame, Interrupted
<1>3. CASE Upload
  <2>1. sdk # <<>> /\ history' = Append(history, Head(sdk)) /\ sdk' = Tail(sdk)
    BY <1>3 DEF Upload
  <2> QED
    BY <1>1, <2>1, AppendProperties, HeadTailProperties
<1>4. CASE Die
  BY <1>1, <1>4, EmptySeq DEF Die
<1>5. CASE UNCHANGED <<sdk, history>>
  BY <1>1, <1>5
<1>6. PublishFrame \/ Interrupted \/ Upload \/ Die \/ UNCHANGED <<sdk, history>>
  <2>1. CASE Recover \/ SealMetrics \/ SealNothing \/ RecordSegment \/ PollEvals
    BY <2>1 DEF Recover, SealMetrics, SealNothing, RecordSegment, PollEvals, wandb
  <2>2. CASE PublishFails \/ Supervise \/ DrainOn \/ Drained \/ DrainedAgain
    BY <2>2 DEF PublishFails, Supervise, DrainOn, Drained, DrainedAgain, wandb
  <2>3. CASE FinishWandb \/ DeleteSegment \/ CreateTerminal \/ UNCHANGED metricVars
    BY <2>3 DEF FinishWandb, DeleteSegment, CreateTerminal, metricVars, wandb
  <2>4. CASE \E e \in Events : Learn(e) \/ Repeat(e)
    BY <2>4 DEF Learn, Repeat, wandb
  <2>5. CASE \E s \in Active : CopySegment(s)
    BY <2>5 DEF CopySegment, wandb
  <2> QED
    BY <2>1, <2>2, <2>3, <2>4, <2>5 DEF MetricNext
<1> QED
  BY <1>2, <1>3, <1>4, <1>5, <1>6

LEMMA JournalTypes ==
  ASSUME Ordinary, [MetricNext]_metricVars
  PROVE  /\ journal' \subseteq Segments /\ copying' \in Segments \cup {Nothing}
         /\ secured' \subseteq Events /\ results' \subseteq EvalEvents
<1>1. /\ journal \subseteq Segments /\ copying \in Segments \cup {Nothing}
      /\ secured \subseteq Events /\ results \subseteq EvalEvents
  BY DEF Ordinary, MetricTypeOK
<1>2. CASE SealMetrics
  <2>1. journal' \subseteq Segments
    BY <1>2, SealKeepsJournal DEF Ordinary
  <2>2. \A i \in Unsealed : rows[i] \in Events
    <3>1. Unsealed \subseteq After(rows, sealed)
      BY MetricTypes, FirstAfterIs DEF Unsealed, Begins, Ordinary
    <3> QED
      BY <3>1, MetricTypes, AfterIs DEF Ordinary
  <2> QED
    BY <1>1, <1>2, <2>1, <2>2 DEF SealMetrics
<1>3. CASE \E s \in Active : CopySegment(s)
  <2>1. PICK s \in journal : journal' = journal \cup {Moved(s)} /\ copying' = s
    BY <1>3 DEF CopySegment, Active
  <2>2. Moved(s) \in Segments
    BY <1>1, <2>1, CopyIsTwin
  <2>3. UNCHANGED <<secured, results>>
    BY <1>3 DEF CopySegment
  <2> QED
    BY <1>1, <2>1, <2>2, <2>3
<1>4. CASE DeleteSegment
  BY <1>1, <1>4 DEF DeleteSegment
<1>5. CASE PollEvals
  BY <1>1, <1>5 DEF PollEvals
<1>6. CASE Die
  BY <1>1, <1>6 DEF Die
<1>7. CASE UNCHANGED <<journal, copying, secured, results>>
  BY <1>1, <1>7
<1>8. SealMetrics \/ (\E s \in Active : CopySegment(s)) \/ DeleteSegment \/ PollEvals \/ Die
      \/ UNCHANGED <<journal, copying, secured, results>>
  <2>1. CASE Recover \/ SealNothing \/ RecordSegment \/ PublishFrame \/ Interrupted \/ Upload
    BY <2>1 DEF Recover, SealNothing, RecordSegment, PublishFrame, Interrupted, Upload
  <2>2. CASE PublishFails \/ Supervise \/ DrainOn \/ Drained \/ DrainedAgain
    BY <2>2 DEF PublishFails, Supervise, DrainOn, Drained, DrainedAgain
  <2>3. CASE FinishWandb \/ CreateTerminal \/ UNCHANGED metricVars
    BY <2>3 DEF FinishWandb, CreateTerminal, metricVars
  <2>4. CASE \E e \in Events : Learn(e) \/ Repeat(e)
    BY <2>4 DEF Learn, Repeat
  <2> QED
    BY <2>1, <2>2, <2>3, <2>4 DEF MetricNext
<1> QED
  BY <1>2, <1>3, <1>4, <1>5, <1>6, <1>7, <1>8

LEMMA StageTypes ==
  ASSUME MetricTypeOK, [MetricNext]_metricVars
  PROVE  /\ attempt' \in 1..MaxAttempts /\ stage' \in Stages
         /\ mode' \in {"active", "drain", "last"} /\ ahead' \in Nat /\ faults' \in 0..MaxFaults
<1>1. /\ attempt \in 1..MaxAttempts /\ stage \in Stages /\ mode \in {"active", "drain", "last"}
      /\ ahead \in Nat /\ faults \in 0..MaxFaults
  BY DEF MetricTypeOK
<1>2. CASE Recover
  <2>1. LastStep(history) \in Nat
    BY LastStepIs DEF MetricTypeOK
  <2> QED
    BY <1>1, <1>2, <2>1 DEF Recover, Go, Stages
<1>3. CASE Die
  BY <1>1, <1>3 DEF Die, Stages, Marks
<1>4. CASE SealMetrics \/ SealNothing \/ RecordSegment \/ PollEvals \/ PublishFrame
           \/ PublishFails \/ Interrupted
  BY <1>1, <1>4 DEF SealMetrics, SealNothing, RecordSegment, PollEvals, PublishFrame,
                    PublishFails, Interrupted, Go, Stages
<1>5. CASE Supervise \/ DrainOn \/ Drained \/ DrainedAgain
  BY <1>1, <1>5 DEF Supervise, DrainOn, Drained, DrainedAgain, Go, Stages
<1>6. CASE FinishWandb \/ DeleteSegment \/ CreateTerminal \/ Upload \/ UNCHANGED metricVars
  BY <1>1, <1>6 DEF FinishWandb, DeleteSegment, CreateTerminal, Upload, metricVars, Go, Stages
<1>7. CASE \E e \in Events : Learn(e) \/ Repeat(e)
  BY <1>1, <1>7 DEF Learn, Repeat
<1>8. CASE \E s \in Active : CopySegment(s)
  BY <1>1, <1>8 DEF CopySegment
<1> QED
  BY <1>2, <1>3, <1>4, <1>5, <1>6, <1>7, <1>8 DEF MetricNext

\* What a client holds of the published rows are events of the ledger.
LEMMA BufferedIs ==
  ASSUME MetricTypeOK, DeliveryOK
  PROVE  Buffered \in SUBSET Events
<1> SUFFICES ASSUME NEW row \in DOMAIN rows, NEW k \in DOMAIN sdk, sdk[k].step = row
             PROVE  rows[row] \in Events
  BY DEF Buffered
<1>1. Held
  BY EmptySeq DEF Held
<1>2. rows[row] = sdk[k].event
  BY <1>1 DEF DeliveryOK, SdkOK
<1>3. sdk[k] \in Points
  BY LenProperties, ElementOfSeq DEF MetricTypeOK
<1> QED
  BY <1>2, <1>3 DEF Points

LEMMA MetricTypeKept ==
  ASSUME Ordinary, DeliveryOK, [MetricNext]_metricVars
  PROVE  MetricTypeOK'
<1>1. rows' \in Seq(Events \cup {Nothing})
  BY OnceKept
<1>2. sdk' \in Seq(Points) /\ history' \in Seq(Points)
  BY WandbTypes DEF Ordinary
<1>3. /\ published' \in 0..Len(rows') /\ sealed' \in 0..Len(rows')
      /\ batch' \subseteq DOMAIN rows'
  <2>1. CASE Steady
    BY <2>1, BatchTypes DEF Ordinary
  <2>2. CASE Die
    <3>1. \/ rows' = <<>> /\ published' = 0 /\ sealed' = 0
          \/ UNCHANGED <<rows, published, sealed>>
      BY <2>2 DEF Die, Marks
    <3>2. batch' = {}
      BY <2>2 DEF Die
    <3> QED
      BY <3>1, <3>2, EmptySeq DEF Ordinary, MetricTypeOK
  <2>3. CASE Recover
    <3>1. batch' = {} /\ UNCHANGED <<published, sealed>> /\ rows' = Recovered
      BY <2>3 DEF Recover, Ordinary, MarksOK
    <3>2. /\ Len(rows) \in Nat /\ Len(rows') \in Nat /\ Len(rows) <= Len(rows')
      BY <1>1, <3>1, RecoveredIs, LenProperties DEF Ordinary, MetricTypeOK, Longer
    <3>3. published \in 0..Len(rows) /\ sealed \in 0..Len(rows)
      BY DEF Ordinary, MetricTypeOK
    <3> QED
      BY <3>1, <3>2, <3>3
  <2> QED
    BY <2>1, <2>2, <2>3, SteadyIsMost
<1>4. lost' \subseteq Events
  <2>1. lost \subseteq Events /\ Buffered \subseteq Events
    BY BufferedIs DEF Ordinary, MetricTypeOK
  <2>2. lost' = lost \/ lost' = {} \/ lost' = lost \cup Buffered
    BY SteadyIsMost, SteadyGrows DEF Die, Recover
  <2> QED
    BY <2>1, <2>2
<1> QED
  BY <1>1, <1>2, <1>3, <1>4, JournalTypes, StageTypes DEF Ordinary, MetricTypeOK

LEMMA PlaceKept ==
  ASSUME Ordinary, [MetricNext]_metricVars
  PROVE  PlaceOK'
<1>1. /\ MetricTypeOK /\ PlaceOK /\ attempt \in Nat
      /\ \A s \in journal : s.attempt \in Nat
  BY MetricTypes DEF Ordinary, Segments
<1>2. CASE SealMetrics
  <2>1. /\ stage = "seal" /\ stage' = "record" /\ journal' = journal \cup {Segment}
        /\ Unsealed # {} /\ UNCHANGED <<attempt, mode, rows, copying, sdk>>
    BY <1>2 DEF SealMetrics, Go, ledger, wandb
  <2>2. Segment.attempt = attempt /\ ~Segment.expiring
    BY <1>1, <2>1, SegmentIs
  <2> QED
    BY <1>1, <2>1, <2>2 DEF PlaceOK
<1>3. CASE \E s \in Active : CopySegment(s)
  <2>1. PICK s \in Active : CopySegment(s)
    BY <1>3
  <2>2. /\ s \in journal /\ ~s.expiring /\ s \in Segments
        /\ stage = "archive" /\ journal' = journal \cup {Moved(s)} /\ copying' = s
        /\ UNCHANGED <<attempt, stage, mode, rows, sdk>>
    BY <1>1, <2>1 DEF CopySegment, Active, MetricTypeOK, ledger, wandb
  <2>3. Moved(s).attempt = s.attempt
    BY <2>2, CopyIsTwin
  <2> QED
    BY <1>1, <2>2, <2>3 DEF PlaceOK
<1>4. CASE DeleteSegment
  BY <1>1, <1>4 DEF DeleteSegment, PlaceOK, ledger, wandb
<1>5. CASE Die
  <2>1. \A s \in journal : s.attempt < attempt + 1
    BY <1>1 DEF PlaceOK
  <2> QED
    BY <1>1, <1>5, <2>1 DEF Die, PlaceOK
<1>6. CASE Upload
  BY <1>1, <1>6 DEF Upload, PlaceOK, ledger
<1>7. CASE Recover \/ SealNothing \/ RecordSegment \/ PollEvals
  BY <1>1, <1>7 DEF Recover, SealNothing, RecordSegment, PollEvals, PlaceOK, Go
<1>8. CASE PublishFrame \/ PublishFails \/ Interrupted
           \/ (\E e \in Events : Learn(e) \/ Repeat(e))
  BY <1>1, <1>8 DEF PublishFrame, PublishFails, Interrupted, Learn, Repeat, PlaceOK, Go, ledger,
                    wandb
<1>9. CASE Supervise \/ DrainOn \/ Drained \/ DrainedAgain
  BY <1>1, <1>9 DEF Supervise, DrainOn, Drained, DrainedAgain, Published, PlaceOK, Go
<1>10. CASE FinishWandb \/ CreateTerminal \/ UNCHANGED metricVars
  BY <1>1, <1>10 DEF FinishWandb, CreateTerminal, metricVars, ledger, wandb, PlaceOK, Go
<1> QED
  BY <1>2, <1>3, <1>4, <1>5, <1>6, <1>7, <1>8, <1>9, <1>10 DEF MetricNext

\* The beginning of the rows after a mark is one when a row is added.
LEMMA BeginsGrow ==
  ASSUME NEW T, NEW old \in Seq(T), NEW new \in Seq(T), Prolongs(new, old), NEW mark \in Nat,
         NEW some, Begins(some, After(old, mark))
  PROVE  Begins(some, After(new, mark))
<1>1. /\ After(old, mark) \subseteq After(new, mark)
      /\ After(new, mark) \subseteq After(old, mark) \cup {Len(old) + 1}
  BY ProlongedAfter
<1>2. some \subseteq After(old, mark) /\ After(old, mark) \in SUBSET (1..Len(old))
  BY AfterIs DEF Begins
<1>3. Len(old) \in Nat
  BY LenProperties
<1> QED
  BY <1>1, <1>2, <1>3 DEF Begins

LEMMA MarksKept ==
  ASSUME Ordinary, [MetricNext]_metricVars
  PROVE  MarksOK'
<1>1. MetricTypeOK /\ OnceInRows /\ MarksOK /\ PlaceOK
  BY DEF Ordinary
<1>2. /\ rows \in Seq(Events \cup {Nothing}) /\ Len(rows) \in Nat
      /\ published \in Nat /\ sealed \in Nat /\ batch \in SUBSET Nat
  BY <1>1, MetricTypes
<1>3. \A m \in Nat : After(rows, m) \subseteq After(rows, 0)
  BY <1>2, AfterIs, AfterStart
<1>4. CASE Die
  BY <1>1, <1>4 DEF Die, Marks, MarksOK
<1>5. CASE Recover
  <2>1. Recovered \in Seq(Events \cup {Nothing}) /\ Longer(Recovered, rows)
    BY RecoveredIs DEF Ordinary
  <2>2. After(rows, 0) \subseteq After(Recovered, 0)
    BY <1>2, <2>1, LongerIs
  <2>3. batch = {}
    BY <1>1, <1>5 DEF Recover, MarksOK
  <2> QED
    BY <1>1, <1>5, <2>2, <2>3 DEF Recover, MarksOK, Go
<1>6. ASSUME Steady
      PROVE  MarksOK'
  <2>1. rows' \in Seq(Events \cup {Nothing}) /\ Prolongs(rows', rows)
    BY <1>1, <1>6, SteadyGrows, GrowthIs
  <2>2. After(rows, 0) \subseteq After(rows', 0)
    BY <1>2, <2>1, ProlongedAfter
  <2>3. /\ sealed # 0 => sealed \in After(rows', 0)
        /\ published # 0 => published \in After(rows', 0)
    BY <1>1, <2>2 DEF MarksOK
  <2>4. /\ stage = "record" => batch # {} /\ Begins(batch, After(rows', sealed))
        /\ stage = "publish" => Begins(batch, After(rows', published))
        /\ stage \notin {"record", "publish"} => batch = {}
    BY <1>1, <1>2, <2>1, BeginsGrow DEF MarksOK, Unsent
  <2>5. CASE UNCHANGED <<stage, published, sealed, batch>>
    BY <2>3, <2>4, <2>5 DEF MarksOK, Unsent
  <2>6. CASE SealMetrics
    <3>1. Begins(Unsealed, After(rows, sealed))
      BY <1>2, FirstAfterIs DEF Unsealed
    <3> QED
      BY <1>1, <2>6, <3>1 DEF SealMetrics, MarksOK, Go, ledger
  <2>7. CASE RecordSegment
    <3>1. High(batch) \in After(rows, 0)
      <4>1. batch # {} /\ Begins(batch, After(rows, sealed))
        BY <1>1, <2>7 DEF RecordSegment, MarksOK
      <4>2. High(batch) \in batch
        BY <1>2, <4>1, RestIs
      <4> QED
        BY <1>2, <1>3, <4>1, <4>2 DEF Begins
    <3> QED
      BY <1>1, <2>7, <3>1 DEF RecordSegment, HighWater, MarksOK, Go
  <2>8. CASE PollEvals
    <3>1. Begins(FirstAfter(rows', published, BatchFrames), After(rows', published))
      BY <1>2, <2>1, FirstAfterIs
    <3> QED
      BY <2>3, <2>8, <3>1 DEF PollEvals, MarksOK, Unsent, Go
  <2>9. CASE PublishFrame
    <3>1. PICK row \in batch : /\ \A other \in batch : row <= other
                               /\ published' = row /\ batch' = batch \ {row}
      BY <2>9 DEF PublishFrame
    <3>2. stage = "publish" /\ UNCHANGED <<stage, rows, sealed>>
      BY <2>9 DEF PublishFrame
    <3>3. Begins(batch, After(rows, published))
      BY <1>1, <3>2 DEF MarksOK, Unsent
    <3>4. row \in After(rows, published) /\ row \in Nat
      BY <1>2, <3>3 DEF Begins
    <3>5. \A i : i \in After(rows, row) <=> i \in After(rows, published) /\ i > row
      <4>1. row > published
        BY <1>2, <3>4, AfterIs
      <4>2. \A i : i \in After(rows, row) <=> i \in 1..Len(rows) /\ i > row /\ rows[i] # Nothing
        BY <1>2, <3>4, AfterIs
      <4>3. \A i : i \in After(rows, published) <=>
                     i \in 1..Len(rows) /\ i > published /\ rows[i] # Nothing
        BY <1>2, AfterIs
      <4> QED
        BY <1>2, <3>4, <4>1, <4>2, <4>3
    <3>6. Begins(batch \ {row}, After(rows, row))
      <4>1. \A i \in batch \ {row} : i > row /\ i \in Nat
        BY <1>2, <3>1, <3>4
      <4>2. batch \ {row} \subseteq After(rows, row)
        BY <3>3, <3>5, <4>1 DEF Begins
      <4>3. \A j \in After(rows, row) : j # row
        BY <3>4, <3>5
      <4> QED
        BY <3>3, <3>5, <4>2, <4>3 DEF Begins
    <3>7. Begins(batch', After(rows', published'))
      BY <3>1, <3>2, <3>6
    <3>8. row \in After(rows, 0) /\ rows' = rows /\ sealed' = sealed /\ stage' = "publish"
      BY <1>2, <1>3, <3>2, <3>4
    <3> QED
      BY <1>1, <3>1, <3>7, <3>8 DEF MarksOK, Unsent
  <2>10. CASE PublishFails \/ Interrupted
    BY <1>1, <2>10 DEF PublishFails, Interrupted, MarksOK, Begins, Go, ledger
  <2>11. CASE SealNothing \/ FinishWandb \/ CreateTerminal
    BY <2>3, <2>4, <2>11 DEF SealNothing, FinishWandb, CreateTerminal, MarksOK, Go, ledger
  <2>12. CASE Supervise \/ DrainOn \/ Drained \/ DrainedAgain
    BY <2>3, <2>12 DEF Supervise, DrainOn, Drained, DrainedAgain, Published, MarksOK, Go, ledger
  <2>13. CASE Upload \/ DeleteSegment \/ UNCHANGED metricVars
    BY <2>5, <2>13 DEF Upload, DeleteSegment, metricVars, ledger
  <2>14. CASE (\E e \in Events : Learn(e) \/ Repeat(e)) \/ \E s \in Active : CopySegment(s)
    BY <2>5, <2>14 DEF Learn, Repeat, CopySegment, ledger
  <2> QED
    BY <1>6, <2>6, <2>7, <2>8, <2>9, <2>10, <2>11, <2>12, <2>13, <2>14 DEF Steady
<1> QED
  BY <1>4, <1>5, <1>6, SteadyIsMost

LEMMA JournalUntouched ==
  ASSUME Ordinary, Steady, Held, Held', Mark' = Mark,
         UNCHANGED <<journal, secured>>
  PROVE  JournalOK'
<1>1. MetricTypeOK /\ OnceInRows /\ MarksOK /\ JournalOK
  BY DEF Ordinary
<1>2. rows' \in Seq(Events \cup {Nothing}) /\ Longer(rows', rows) /\ OnceInRows'
  BY <1>1, SteadyGrows, GrowthIs, ProlongedIsLonger DEF MetricTypeOK
<1>3. Mark \in 0..Len(rows)
  <2>1. sealed \in 0..Len(rows)
    BY <1>1 DEF MetricTypeOK
  <2>2. High(batch) \in 0..Len(rows)
    <3>1. batch \in SUBSET Nat /\ Len(rows) \in Nat /\ \A i \in batch : i <= Len(rows)
      BY <1>1, MetricTypes
    <3> QED
      BY <3>1, HighIs
  <2> QED
    BY <2>1, <2>2 DEF Mark
<1>4. attempt' = attempt
  BY SteadyGrows
<1> QED
  BY <1>1, <1>2, <1>3, <1>4, JournalStays

LEMMA JournalKeptByAll ==
  ASSUME Ordinary, [MetricNext]_metricVars
  PROVE  JournalOK'
<1>1. MetricTypeOK /\ OnceInRows /\ MarksOK /\ PlaceOK /\ JournalOK /\ OnceInRows'
  BY OnceKept DEF Ordinary
<1>2. CASE Recover
  BY <1>1, <1>2, RecoverKeepsJournal
<1>3. CASE Die
  BY <1>1, <1>3, DieKeepsJournal
<1>4. CASE SealMetrics
  BY <1>1, <1>4, SealKeepsJournal
<1>5. CASE \E s \in Active : CopySegment(s)
  BY <1>1, <1>5, CopyKeepsJournal
<1>6. CASE DeleteSegment
  BY <1>1, <1>6, DeleteKeepsJournal
<1>7. ASSUME Steady, ~SealMetrics, ~DeleteSegment, ~ \E s \in Active : CopySegment(s),
             ~UNCHANGED metricVars
      PROVE  JournalOK'
  <2>1. CASE SealNothing \/ PollEvals \/ PublishFrame \/ PublishFails \/ Interrupted
    <3>1. /\ stage \in {"seal", "poll", "publish"}
          /\ stage' \in {"poll", "publish", "interrupted"}
          /\ UNCHANGED <<sealed, journal, secured>>
      BY <2>1 DEF SealNothing, PollEvals, PublishFrame, PublishFails, Interrupted, Go, ledger
    <3>2. Mark' = Mark
      BY <3>1 DEF Mark
    <3> QED
      BY <1>7, <3>1, <3>2, JournalUntouched DEF Held
  <2>2. CASE Supervise \/ DrainOn \/ Drained \/ DrainedAgain \/ FinishWandb \/ CreateTerminal
    <3>1. /\ stage \in {"publish", "finish", "archive"}
          /\ stage' \in {"seal", "finish", "archive", "done"}
          /\ UNCHANGED <<sealed, journal, secured>>
      BY <2>2 DEF Supervise, DrainOn, Drained, DrainedAgain, FinishWandb, CreateTerminal,
                  Published, Go, ledger
    <3>2. Mark' = Mark
      BY <3>1 DEF Mark
    <3> QED
      BY <1>7, <3>1, <3>2, JournalUntouched DEF Held
  <2>3. CASE RecordSegment
    <3>1. /\ stage = "record" /\ stage' = "poll" /\ sealed' = High(batch)
          /\ UNCHANGED <<journal, secured>>
      BY <2>3 DEF RecordSegment, HighWater, Go
    <3>2. Mark' = Mark
      BY <3>1 DEF Mark
    <3> QED
      BY <1>7, <3>1, <3>2, JournalUntouched DEF Held
  <2>4. CASE Upload \/ \E e \in Events : Learn(e) \/ Repeat(e)
    <3>1. stage # "start" /\ UNCHANGED <<stage, sealed, batch, journal, secured>>
      BY <1>1, <2>4 DEF Upload, Learn, Repeat, PlaceOK, ledger
    <3>2. Mark' = Mark
      BY <3>1 DEF Mark
    <3> QED
      BY <1>7, <3>1, <3>2, JournalUntouched DEF Held
  <2> QED
    BY <1>7, <2>1, <2>2, <2>3, <2>4 DEF Steady
<1>8. CASE UNCHANGED metricVars
  <2>1. UNCHANGED <<attempt, stage, rows, sealed, batch, journal, secured>>
    BY <1>8 DEF metricVars, ledger
  <2>2. Entries' = Entries /\ Mark' = Mark /\ After(rows', 0) = After(rows, 0)
    BY <2>1 DEF Entries, Mark
  <2>3. \A p, e : Follows(p, e)' <=> Follows(p, e)
    BY <2>2 DEF Follows
  <2>4. Agreeing => Agreeing'
    BY <2>2, <2>3 DEF Agreeing, Follows
  <2>5. LedgerOrder => LedgerOrder'
    <3> SUFFICES ASSUME LedgerOrder, NEW q \in Entries
                 PROVE  /\ \E j \in DOMAIN rows' : rows'[j] = EventOf(q)
                        /\ \A i, j \in DOMAIN rows' :
                             i < j /\ rows'[j] = EventOf(q) /\ rows'[i] # Nothing =>
                               Follows(q, rows[i])'
      BY <2>2 DEF LedgerOrder
    <3> QED
      BY <2>1, <2>2 DEF LedgerOrder, Follows
  <2>6. MarkedOK => MarkedOK'
    BY <2>1, <2>2 DEF MarkedOK
  <2>7. Ordered => Ordered'
    BY <2>1, <2>2 DEF Ordered
  <2> QED
    BY <1>1, <2>1, <2>2, <2>4, <2>5, <2>6, <2>7
       DEF JournalOK, Held, KeysDiffer, CopiesFirst, SealedOnce
<1> QED
  BY <1>2, <1>3, <1>4, <1>5, <1>6, <1>7, <1>8, SteadyIsMost

-----------------------------------------------------------------------------
(* Counts *)

LEMMA SubsetCount ==
  ASSUME NEW S, IsFiniteSet(S), NEW T \in SUBSET S
  PROVE  /\ IsFiniteSet(T) /\ Cardinality(T) \in Nat /\ Cardinality(S) \in Nat
         /\ Cardinality(T) <= Cardinality(S)
         /\ Cardinality(S \ T) = Cardinality(S) - Cardinality(T)
         /\ Cardinality(S) = Cardinality(T) => S = T
<1>1. /\ IsFiniteSet(T) /\ Cardinality(T) <= Cardinality(S)
      /\ Cardinality(S) = Cardinality(T) => S = T
  BY FS_Subset
<1>2. Cardinality(T) \in Nat /\ Cardinality(S) \in Nat
  BY <1>1, FS_CardinalityType
<1>3. Cardinality(S \ T) = Cardinality(S) - Cardinality(S \cap T)
  BY FS_Difference
<1>4. S \cap T = T
  OBVIOUS
<1> QED
  BY <1>1, <1>2, <1>3, <1>4

LEMMA UnionCount ==
  ASSUME NEW S, IsFiniteSet(S), NEW T, IsFiniteSet(T)
  PROVE  /\ IsFiniteSet(S \cup T) /\ Cardinality(S \cup T) \in Nat
         /\ Cardinality(S \cup T) <= Cardinality(S) + Cardinality(T)
<1>1. /\ IsFiniteSet(S \cup T)
      /\ Cardinality(S \cup T) = Cardinality(S) + Cardinality(T) - Cardinality(S \cap T)
  BY FS_Union
<1>2. IsFiniteSet(S \cap T)
  BY FS_Intersection
<1>3. /\ Cardinality(S) \in Nat /\ Cardinality(T) \in Nat
      /\ Cardinality(S \cap T) \in Nat /\ Cardinality(S \cup T) \in Nat
  BY <1>1, <1>2, FS_CardinalityType
<1> QED
  BY <1>1, <1>3

LEMMA BehindIs ==
  ASSUME MetricTypeOK
  PROVE  /\ IsFiniteSet(After(rows, sealed)) /\ Cardinality(After(rows, sealed)) \in Nat
         /\ Behind \in SUBSET After(rows, sealed) /\ IsFiniteSet(Behind)
         /\ Cardinality(Behind) \in Nat
<1>1. IsFiniteSet(After(rows, sealed)) /\ Cardinality(After(rows, sealed)) \in Nat
  BY MetricTypes, AfterIs
<1>2. Behind \in SUBSET After(rows, sealed)
  BY DEF Behind
<1> QED
  BY <1>1, <1>2, SubsetCount

\* A new row is not behind the published ones.
LEMMA BehindStays ==
  ASSUME MetricTypeOK, OnceInRows, Steady, UNCHANGED <<sealed, published>>
  PROVE  Behind' = Behind
<1>1. /\ rows \in Seq(Events \cup {Nothing}) /\ published <= Len(rows) /\ published \in Nat
      /\ sealed \in Nat /\ Len(rows) \in Nat
  BY MetricTypes
<1>2. rows' \in Seq(Events \cup {Nothing}) /\ Prolongs(rows', rows)
  BY SteadyGrows, GrowthIs
<1>3. /\ After(rows, sealed) \subseteq After(rows', sealed)
      /\ After(rows', sealed) \subseteq After(rows, sealed) \cup {Len(rows) + 1}
  BY <1>1, <1>2, ProlongedAfter
<1>4. ~(Len(rows) + 1 <= published)
  BY <1>1
<1> QED
  BY <1>3, <1>4 DEF Behind

\* Sealing: what was published without being sealed shrinks by a segment.
LEMMA SealCounts ==
  ASSUME MetricTypeOK, CountsOK, stage = "seal"
  PROVE  /\ mode # "last" => Cardinality(Behind \ Unsealed) <= BatchFrames - 1
         /\ mode = "last" => Unsealed = After(rows, sealed)
         /\ Cardinality(Unsealed) < SegmentEvents => Unsealed = After(rows, sealed)
         /\ Cardinality(Unsealed) < SegmentEvents => Cardinality(Behind) <= SegmentEvents - 1
         /\ Unsealed = {} => Unsealed = After(rows, sealed)
         /\ Cardinality(Unsealed) <= SegmentEvents
<1> DEFINE U == After(rows, sealed)
<1>1. /\ Begins(Unsealed, U) /\ IsFiniteSet(Unsealed) /\ Cardinality(Unsealed) \in Nat
      /\ Cardinality(Unsealed) <= SegmentEvents
      /\ Unsealed # U => Cardinality(Unsealed) = SegmentEvents
  BY MetricTypes, FirstAfterIs DEF Unsealed
<1>2. /\ IsFiniteSet(U) /\ Cardinality(U) \in Nat /\ Behind \in SUBSET U /\ IsFiniteSet(Behind)
      /\ Cardinality(Behind) \in Nat /\ Unsealed \in SUBSET U
  BY <1>1, BehindIs DEF Begins
<1>3. SegmentEvents \in Nat /\ BatchFrames \in Nat /\ BatchFrames >= 1 /\ SegmentEvents >= 2
  OBVIOUS
<1>4. published \in Nat /\ U \in SUBSET Nat
  BY MetricTypes, AfterIs
<1>5. ASSUME mode # "last"
      PROVE  Cardinality(Behind \ Unsealed) <= BatchFrames - 1
  <2>1. CASE Behind \ Unsealed = {}
    <3>1. Cardinality(Behind \ Unsealed) = 0
      BY <2>1, FS_EmptySet
    <3> QED
      BY <1>3, <3>1
  <2>2. CASE Behind \ Unsealed # {}
    <3>1. PICK b \in Behind : b \notin Unsealed
      BY <2>2
    <3>2. Unsealed # U /\ Unsealed \in SUBSET Behind
      BY <1>1, <1>2, <1>4, <3>1 DEF Begins, Behind
    <3>3. Cardinality(Behind \ Unsealed) = Cardinality(Behind) - Cardinality(Unsealed)
      BY <1>2, <3>2, SubsetCount
    <3>4. Cardinality(Behind) <= SegmentEvents + BatchFrames - 1
      BY <1>5 DEF CountsOK
    <3> QED
      BY <1>1, <1>2, <1>3, <3>2, <3>3, <3>4
  <2> QED
    BY <2>1, <2>2
<1>6. ASSUME mode = "last"
      PROVE  Unsealed = U
  <2>1. Cardinality(U) <= SegmentEvents
    BY <1>6 DEF CountsOK
  <2>2. /\ Cardinality(Unsealed) <= Cardinality(U)
        /\ Cardinality(U) = Cardinality(Unsealed) => U = Unsealed
    BY <1>2, SubsetCount
  <2> QED
    BY <1>1, <1>2, <1>3, <2>1, <2>2
<1>7. ASSUME Cardinality(Unsealed) < SegmentEvents
      PROVE  Unsealed = U /\ Cardinality(Behind) <= SegmentEvents - 1
  <2>1. Unsealed = U
    BY <1>1, <1>3, <1>7
  <2>2. Cardinality(Behind) <= Cardinality(U)
    BY <1>2, SubsetCount
  <2> QED
    BY <1>1, <1>2, <1>3, <1>7, <2>1, <2>2
<1>8. Unsealed = {} => Cardinality(Unsealed) < SegmentEvents
  BY <1>3, FS_EmptySet
<1> QED
  BY <1>1, <1>5, <1>6, <1>7, <1>8

LEMMA EmptyBehind ==
  ASSUME MetricTypeOK, After(rows, sealed) = {}
  PROVE  Behind = {} /\ Cardinality(Behind) = 0
BY FS_EmptySet DEF Behind

LEMMA CountsInSeal ==
  ASSUME Ordinary, CountsOK, SealMetrics \/ SealNothing \/ RecordSegment
  PROVE  CountsOK'
<1>1. MetricTypeOK /\ OnceInRows /\ MarksOK
  BY DEF Ordinary
<1>2. /\ mode \in {"active", "drain", "last"}
      /\ SegmentEvents \in Nat /\ BatchFrames \in Nat /\ BatchFrames >= 1
      /\ 2 * BatchFrames <= SegmentEvents
  BY <1>1 DEF MetricTypeOK
<1>3. CASE SealMetrics
  <2>1. /\ stage = "seal" /\ stage' = "record" /\ batch' = Unsealed
        /\ UNCHANGED <<mode, rows, sealed, published>>
    BY <1>3 DEF SealMetrics, Go, ledger
  <2>2. Behind' = Behind /\ After(rows', sealed') = After(rows, sealed)
    BY <2>1 DEF Behind
  <2>3. /\ mode # "last" => Cardinality(Behind \ Unsealed) <= BatchFrames - 1
        /\ mode = "last" => Unsealed = After(rows, sealed)
        /\ Cardinality(Unsealed) <= SegmentEvents
    BY <1>1, <2>1, SealCounts
  <2>4. /\ mode' # "last" => Cardinality(Behind' \ batch') <= BatchFrames - 1
        /\ mode' = "last" => batch' = After(rows', sealed')
        /\ Cardinality(batch') <= SegmentEvents
    BY <2>1, <2>2, <2>3
  <2> QED
    BY <2>1, <2>4 DEF CountsOK
<1>4. CASE SealNothing
  <2>1. /\ stage = "seal" /\ stage' = "poll"
        /\ Unsealed = {} \/ (mode = "active" /\ Cardinality(Unsealed) < SegmentEvents)
        /\ UNCHANGED <<mode, rows, sealed, published>>
    BY <1>4 DEF SealNothing, Go, ledger
  <2>2. Behind' = Behind /\ After(rows', sealed') = After(rows, sealed)
    BY <2>1 DEF Behind
  <2>3. CASE Unsealed = {}
    <3>1. After(rows, sealed) = {} /\ Behind = {} /\ Cardinality(Behind) = 0
      BY <1>1, <2>1, <2>3, SealCounts, EmptyBehind
    <3> QED
      BY <1>2, <2>1, <2>2, <3>1 DEF CountsOK
  <2>4. CASE mode = "active" /\ Cardinality(Unsealed) < SegmentEvents
    <3>1. Cardinality(Behind) <= SegmentEvents - 1
      BY <1>1, <2>1, <2>4, SealCounts
    <3> QED
      BY <2>1, <2>2, <2>4, <3>1 DEF CountsOK
  <2> QED
    BY <2>1, <2>3, <2>4
<1>5. CASE RecordSegment
  <2>1. /\ stage = "record" /\ stage' = "poll" /\ sealed' = High(batch)
        /\ UNCHANGED <<mode, rows, published>>
    BY <1>5 DEF RecordSegment, HighWater, Go
  <2>2. batch # {} /\ Begins(batch, After(rows, sealed))
    BY <1>1, <2>1 DEF MarksOK
  <2>3. After(rows', sealed') = After(rows, sealed) \ batch
    BY <1>1, <2>1, <2>2, MetricTypes, RestIs
  <2>4. Behind' = Behind \ batch
    BY <2>1, <2>3 DEF Behind
  <2>5. CASE mode # "last"
    <3>1. Cardinality(Behind') <= BatchFrames - 1
      BY <2>1, <2>4, <2>5 DEF CountsOK
    <3>2. IsFiniteSet(Behind') /\ Cardinality(Behind') \in Nat
      <4>1. IsFiniteSet(Behind) /\ Behind \ batch \in SUBSET Behind
        BY <1>1, BehindIs
      <4> QED
        BY <2>4, <4>1, SubsetCount
    <3>3. Cardinality(Behind') <= SegmentEvents - 1
      BY <1>2, <3>1, <3>2
    <3> QED
      BY <2>1, <2>5, <3>1, <3>3 DEF CountsOK
  <2>6. CASE mode = "last"
    <3>1. After(rows', sealed') = {}
      BY <2>1, <2>3, <2>6 DEF CountsOK
    <3> QED
      BY <2>1, <2>6, <3>1 DEF CountsOK
  <2> QED
    BY <2>5, <2>6
<1> QED
  BY <1>3, <1>4, <1>5

\* Wherever a process ends, little is published and not yet sealed.
LEMMA BehindBound ==
  ASSUME Ordinary, CountsOK
  PROVE  Cardinality(Behind) <= SegmentEvents + BatchFrames - 1
<1>1. MetricTypeOK
  BY DEF Ordinary
<1>2. /\ stage \in Stages /\ mode \in {"active", "drain", "last"}
      /\ SegmentEvents \in Nat /\ BatchFrames \in Nat /\ BatchFrames >= 1
      /\ 2 * BatchFrames <= SegmentEvents
  BY <1>1 DEF MetricTypeOK
<1>3. /\ IsFiniteSet(Behind) /\ Cardinality(Behind) \in Nat
      /\ Behind \in SUBSET After(rows, sealed)
      /\ IsFiniteSet(After(rows, sealed)) /\ Cardinality(After(rows, sealed)) \in Nat
      /\ Cardinality(Behind) <= Cardinality(After(rows, sealed))
  BY <1>1, BehindIs, SubsetCount
<1>4. IsFiniteSet(batch) /\ Cardinality(batch) \in Nat
  <2>1. Len(rows) \in Nat /\ batch \in SUBSET (1..Len(rows))
    BY <1>1, MetricTypes
  <2>2. IsFiniteSet(1..Len(rows))
    BY <2>1, FS_Interval
  <2> QED
    BY <2>1, <2>2, SubsetCount
<1>5. After(rows, sealed) = {} => Cardinality(Behind) = 0
  BY <1>1, EmptyBehind
<1>6. CASE stage \in {"start", "interrupted"}
  BY <1>6 DEF CountsOK
<1>7. CASE stage = "seal"
  BY <1>2, <1>3, <1>7 DEF CountsOK
<1>8. CASE stage = "record" /\ mode # "last"
  <2>1. Cardinality(batch) <= SegmentEvents /\ Cardinality(Behind \ batch) <= BatchFrames - 1
    BY <1>8 DEF CountsOK
  <2>2. IsFiniteSet(Behind \ batch) /\ Cardinality(Behind \ batch) \in Nat
    BY <1>3, SubsetCount
  <2>3. /\ IsFiniteSet((Behind \ batch) \cup batch)
        /\ Cardinality((Behind \ batch) \cup batch) \in Nat
        /\ Cardinality((Behind \ batch) \cup batch) <=
             Cardinality(Behind \ batch) + Cardinality(batch)
    BY <1>4, <2>2, UnionCount
  <2>4. Behind \in SUBSET ((Behind \ batch) \cup batch)
    OBVIOUS
  <2>5. Cardinality(Behind) <= Cardinality((Behind \ batch) \cup batch)
    BY <2>3, <2>4, SubsetCount
  <2> QED
    BY <1>2, <1>3, <1>4, <2>1, <2>2, <2>3, <2>5
<1>9. CASE stage = "record" /\ mode = "last"
  <2>1. Cardinality(batch) <= SegmentEvents /\ batch = After(rows, sealed)
    BY <1>9 DEF CountsOK
  <2> QED
    BY <1>2, <1>3, <2>1
<1>10. CASE stage = "poll"
  BY <1>2, <1>3, <1>5, <1>10 DEF CountsOK
<1>11. CASE stage = "publish"
  <2>1. /\ IsFiniteSet(Behind \cup batch) /\ Cardinality(Behind \cup batch) \in Nat
    BY <1>3, <1>4, UnionCount
  <2>2. Cardinality(Behind) <= Cardinality(Behind \cup batch)
    BY <2>1, SubsetCount
  <2>3. /\ mode = "active" => Cardinality(Behind \cup batch) <= SegmentEvents + BatchFrames - 1
        /\ mode = "drain" => Cardinality(Behind \cup batch) <= 2 * BatchFrames - 1
        /\ mode = "last" => Cardinality(Behind) = 0
    BY <1>5, <1>11 DEF CountsOK
  <2> QED
    BY <1>2, <1>3, <2>1, <2>2, <2>3
<1>12. CASE stage \in {"finish", "archive", "done"}
  BY <1>2, <1>5, <1>12 DEF CountsOK
<1> QED
  BY <1>2, <1>6, <1>7, <1>8, <1>9, <1>10, <1>11, <1>12 DEF Stages

LEMMA CountsInPublish ==
  ASSUME Ordinary, CountsOK, PollEvals \/ PublishFrame \/ PublishFails \/ Interrupted
  PROVE  CountsOK'
<1>1. MetricTypeOK /\ OnceInRows /\ MarksOK /\ Steady
  BY DEF Ordinary, Steady
<1>2. /\ mode \in {"active", "drain", "last"}
      /\ SegmentEvents \in Nat /\ BatchFrames \in Nat /\ BatchFrames >= 1
      /\ 2 * BatchFrames <= SegmentEvents
  BY <1>1 DEF MetricTypeOK
<1>3. IsFiniteSet(Behind) /\ Cardinality(Behind) \in Nat
  BY <1>1, BehindIs
<1>4. CASE PollEvals
  <2>1. /\ stage = "poll" /\ stage' = "publish"
        /\ mode = "last" => rows' = rows
        /\ batch' = FirstAfter(rows', published, BatchFrames)
        /\ UNCHANGED <<mode, sealed, published>>
    BY <1>4 DEF PollEvals, Go
  <2>2. Behind' = Behind
    BY <1>1, <2>1, BehindStays
  <2>3. rows' \in Seq(Events \cup {Nothing})
    BY <1>1, SteadyGrows, GrowthIs
  <2>4. IsFiniteSet(batch') /\ Cardinality(batch') \in Nat /\ Cardinality(batch') <= BatchFrames
    BY <1>1, <2>1, <2>3, MetricTypes, FirstAfterIs
  <2>5. /\ Cardinality(Behind' \cup batch') <= Cardinality(Behind) + Cardinality(batch')
        /\ Cardinality(Behind' \cup batch') \in Nat
    BY <1>3, <2>2, <2>4, UnionCount
  <2>6. CASE mode = "active"
    <3>1. Cardinality(Behind) <= SegmentEvents - 1
      BY <2>1, <2>6 DEF CountsOK
    <3>2. Cardinality(Behind' \cup batch') <= SegmentEvents + BatchFrames - 1
      BY <1>2, <1>3, <2>4, <2>5, <3>1
    <3> QED
      BY <2>1, <2>6, <3>2 DEF CountsOK
  <2>7. CASE mode = "drain"
    <3>1. Cardinality(Behind) <= BatchFrames - 1
      BY <2>1, <2>7 DEF CountsOK
    <3>2. Cardinality(Behind' \cup batch') <= 2 * BatchFrames - 1
      BY <1>2, <1>3, <2>4, <2>5, <3>1
    <3> QED
      BY <2>1, <2>7, <3>2 DEF CountsOK
  <2>8. CASE mode = "last"
    BY <2>1, <2>8 DEF CountsOK
  <2> QED
    BY <1>2, <2>6, <2>7, <2>8
<1>5. CASE PublishFrame \/ PublishFails
  <2>1. stage = "publish" /\ stage' = "publish" /\ UNCHANGED <<mode, rows, sealed>>
    BY <1>5 DEF PublishFrame, PublishFails, ledger
  <2>2. Behind' \cup batch' \in SUBSET (Behind \cup batch)
    <3>1. CASE PublishFails
      BY <3>1 DEF PublishFails, Behind, ledger
    <3>2. CASE PublishFrame
      <4>1. PICK row \in batch : /\ \A other \in batch : row <= other
                                 /\ published' = row /\ batch' = batch \ {row}
        BY <3>2 DEF PublishFrame
      <4>2. Begins(batch, After(rows, published))
        BY <1>1, <2>1 DEF MarksOK, Unsent
      <4>3. /\ rows \in Seq(Events \cup {Nothing}) /\ published \in Nat /\ sealed \in Nat
            /\ batch \in SUBSET Nat
        BY <1>1, MetricTypes
      <4>4. ASSUME NEW i \in After(rows, sealed), i <= row, ~(i <= published)
            PROVE  i = row
        <5>1. i \in After(rows, published) /\ i \in Nat
          BY <4>3, <4>4, AfterIs
        <5>2. i \in batch
          BY <4>1, <4>2, <4>3, <4>4, <5>1 DEF Begins
        <5> QED
          BY <4>1, <4>3, <4>4, <5>1, <5>2
      <4>5. \A i \in Behind' : i \in After(rows, sealed) /\ i <= row
        BY <2>1, <4>1 DEF Behind
      <4> QED
        BY <4>1, <4>4, <4>5 DEF Behind
    <3> QED
      BY <1>5, <3>1, <3>2
  <2>3. IsFiniteSet(Behind \cup batch)
    <3>1. IsFiniteSet(batch)
      <4>1. Len(rows) \in Nat /\ batch \in SUBSET (1..Len(rows))
        BY <1>1, MetricTypes
      <4>2. IsFiniteSet(1..Len(rows))
        BY <4>1, FS_Interval
      <4> QED
        BY <4>1, <4>2, FS_Subset
    <3> QED
      BY <1>3, <3>1, UnionCount
  <2>4. /\ Cardinality(Behind' \cup batch') <= Cardinality(Behind \cup batch)
        /\ Cardinality(Behind' \cup batch') \in Nat /\ Cardinality(Behind \cup batch) \in Nat
    BY <2>2, <2>3, SubsetCount
  <2>5. CASE mode = "active"
    <3>1. Cardinality(Behind \cup batch) <= SegmentEvents + BatchFrames - 1
      BY <2>1, <2>5 DEF CountsOK
    <3>2. Cardinality(Behind' \cup batch') <= SegmentEvents + BatchFrames - 1
      BY <1>2, <2>4, <3>1
    <3> QED
      BY <2>1, <2>5, <3>2 DEF CountsOK
  <2>6. CASE mode = "drain"
    <3>1. Cardinality(Behind \cup batch) <= 2 * BatchFrames - 1
      BY <2>1, <2>6 DEF CountsOK
    <3>2. Cardinality(Behind' \cup batch') <= 2 * BatchFrames - 1
      BY <1>2, <2>4, <3>1
    <3> QED
      BY <2>1, <2>6, <3>2 DEF CountsOK
  <2>7. CASE mode = "last"
    BY <2>1, <2>7 DEF CountsOK
  <2> QED
    BY <1>2, <2>5, <2>6, <2>7
<1>6. CASE Interrupted
  <2>1. stage' = "interrupted" /\ UNCHANGED <<rows, published, sealed>>
    BY <1>6 DEF Interrupted, Go, ledger
  <2>2. Behind' = Behind
    BY <2>1 DEF Behind
  <2> QED
    BY <2>1, <2>2, BehindBound DEF CountsOK
<1> QED
  BY <1>4, <1>5, <1>6

LEMMA CountsInDrain ==
  ASSUME Ordinary, CountsOK, Supervise \/ DrainOn \/ Drained \/ DrainedAgain
  PROVE  CountsOK'
<1>1. MetricTypeOK /\ OnceInRows /\ MarksOK /\ Steady
  BY DEF Ordinary, Steady
<1>2. /\ mode \in {"active", "drain", "last"}
      /\ SegmentEvents \in Nat /\ BatchFrames \in Nat /\ BatchFrames >= 1
      /\ 2 * BatchFrames <= SegmentEvents
  BY <1>1 DEF MetricTypeOK
<1>3. IsFiniteSet(Behind) /\ Cardinality(Behind) \in Nat
  BY <1>1, BehindIs
<1>4. /\ stage = "publish" /\ batch = {} /\ Behind \cup batch = Behind
      /\ UNCHANGED <<sealed, published>>
  <2>1. stage = "publish" /\ batch = {} /\ UNCHANGED <<sealed, published>>
    BY DEF Supervise, DrainOn, Drained, DrainedAgain, Published, ledger
  <2> QED
    BY <2>1
<1>5. Behind' = Behind
  BY <1>1, <1>4, BehindStays
<1>6. /\ mode = "active" => Cardinality(Behind) <= SegmentEvents + BatchFrames - 1
      /\ mode = "drain" => Cardinality(Behind) <= 2 * BatchFrames - 1
      /\ mode = "last" => After(rows, sealed) = {}
  BY <1>4 DEF CountsOK
<1>7. CASE Supervise
  <2>1. stage' = "seal" /\ mode = "active" /\ mode' # "last"
    BY <1>7 DEF Supervise, Go
  <2> QED
    BY <1>5, <1>6, <2>1 DEF CountsOK
<1>8. CASE DrainOn
  <2>1. stage' = "seal" /\ mode # "active" /\ UNCHANGED <<mode, rows>>
    BY <1>8 DEF DrainOn, Go, ledger
  <2>2. CASE mode = "drain"
    <3>1. Cardinality(Behind') <= SegmentEvents + BatchFrames - 1
      BY <1>2, <1>3, <1>5, <1>6, <2>2
    <3> QED
      BY <2>1, <2>2, <3>1 DEF CountsOK
  <2>3. CASE mode = "last"
    <3>1. After(rows', sealed') = {} /\ Cardinality(After(rows', sealed')) <= SegmentEvents
      BY <1>2, <1>4, <1>6, <2>1, <2>3, FS_EmptySet
    <3> QED
      BY <2>1, <2>3, <3>1 DEF CountsOK
  <2> QED
    BY <1>2, <2>1, <2>2, <2>3
<1>9. CASE Drained
  <2>1. stage' = "seal" /\ mode = "drain" /\ mode' = "last" /\ After(rows, published) = {}
    BY <1>9 DEF Drained, Go, Pending
  <2>2. /\ rows \in Seq(Events \cup {Nothing}) /\ published \in Nat /\ sealed \in Nat
    BY <1>1, MetricTypes
  <2>3. After(rows, sealed) \subseteq Behind
    <3>1. \A i \in After(rows, sealed) :
            i \in Nat /\ (i > published => i \in After(rows, published))
      BY <2>2, AfterIs
    <3> QED
      BY <2>1, <2>2, <3>1 DEF Behind
  <2>4. After(rows', sealed) \subseteq After(rows, sealed) \cup {Len(rows) + 1}
    <3>1. rows' \in Seq(Events \cup {Nothing}) /\ Prolongs(rows', rows)
      BY <1>1, SteadyGrows, GrowthIs
    <3> QED
      BY <2>2, <3>1, ProlongedAfter
  <2>5. After(rows', sealed') \in SUBSET (Behind \cup {Len(rows) + 1})
    BY <1>4, <2>3, <2>4
  <2>6. /\ IsFiniteSet(Behind \cup {Len(rows) + 1})
        /\ Cardinality(Behind \cup {Len(rows) + 1}) <= Cardinality(Behind) + 1
    <3>1. IsFiniteSet({Len(rows) + 1}) /\ Cardinality({Len(rows) + 1}) = 1
      BY FS_Singleton
    <3>2. /\ IsFiniteSet(Behind \cup {Len(rows) + 1})
          /\ Cardinality(Behind \cup {Len(rows) + 1}) <= Cardinality(Behind)
                                                          + Cardinality({Len(rows) + 1})
      BY <1>3, <3>1, UnionCount
    <3> QED
      BY <3>1, <3>2
  <2>7. /\ Cardinality(After(rows', sealed')) <= Cardinality(Behind \cup {Len(rows) + 1})
        /\ Cardinality(After(rows', sealed')) \in Nat
        /\ Cardinality(Behind \cup {Len(rows) + 1}) \in Nat
    BY <2>5, <2>6, SubsetCount
  <2>8. Cardinality(Behind) <= 2 * BatchFrames - 1
    BY <1>6, <2>1
  <2>9. Cardinality(After(rows', sealed')) <= SegmentEvents
    BY <1>2, <1>3, <2>6, <2>7, <2>8
  <2> QED
    BY <2>1, <2>9 DEF CountsOK
<1>10. CASE DrainedAgain
  <2>1. /\ stage' = "finish" /\ mode = "last" /\ After(rows, published) = {}
        /\ UNCHANGED <<mode, rows>>
    BY <1>10 DEF DrainedAgain, Go, Pending, ledger
  <2> QED
    BY <1>4, <1>6, <2>1 DEF CountsOK, Unsent
<1> QED
  BY <1>7, <1>8, <1>9, <1>10

LEMMA CountsKept ==
  ASSUME Ordinary, CountsOK, [MetricNext]_metricVars
  PROVE  CountsOK'
<1>1. MetricTypeOK /\ OnceInRows /\ MarksOK /\ PlaceOK
  BY DEF Ordinary
<1>2. SegmentEvents \in Nat /\ BatchFrames \in Nat /\ BatchFrames >= 1
  OBVIOUS
<1>3. CASE Die
  <2>1. stage' = "start"
    BY <1>3 DEF Die
  <2>2. CASE rows' = <<>>
    <3>1. Behind' = {}
      BY <2>2, EmptySeq DEF Behind, After
    <3>2. Cardinality(Behind') <= SegmentEvents + BatchFrames - 1
      BY <1>2, <3>1, FS_EmptySet
    <3> QED
      BY <2>1, <3>2 DEF CountsOK
  <2>3. CASE UNCHANGED <<rows, published, sealed>>
    <3>1. Behind' = Behind
      BY <2>3 DEF Behind
    <3> QED
      BY <2>1, <3>1, BehindBound DEF CountsOK
  <2> QED
    BY <1>3, <2>2, <2>3 DEF Die, Marks
<1>4. CASE Recover
  <2>1. /\ stage = "start" /\ stage' = "seal" /\ mode' = "active"
        /\ rows' = Recovered /\ UNCHANGED <<published, sealed>>
    BY <1>1, <1>4 DEF Recover, Go, PlaceOK
  <2>2. /\ rows \in Seq(Events \cup {Nothing}) /\ rows' \in Seq(Events \cup {Nothing})
        /\ Longer(rows', rows) /\ published <= Len(rows) /\ sealed \in Nat /\ published \in Nat
    BY <1>1, <2>1, RecoveredIs, MetricTypes DEF Ordinary
  <2>3. Behind' = Behind
    <3>1. Len(rows) \in Nat /\ \A i \in After(rows', sealed) : i \in Nat
      BY <2>2, LongerIs, AfterIs
    <3>2. \A i \in After(rows', sealed) : i <= published => i \in After(rows, sealed)
      BY <2>2, <3>1, LongerIs
    <3>3. After(rows, sealed) \subseteq After(rows', sealed)
      BY <2>2, LongerIs
    <3> QED
      BY <2>1, <3>2, <3>3 DEF Behind
  <2>4. Cardinality(Behind) <= SegmentEvents + BatchFrames - 1
    BY <2>1 DEF CountsOK
  <2> QED
    BY <2>1, <2>3, <2>4 DEF CountsOK
<1>5. CASE SealMetrics \/ SealNothing \/ RecordSegment
  BY <1>5, CountsInSeal
<1>6. CASE PollEvals \/ PublishFrame \/ PublishFails \/ Interrupted
  BY <1>6, CountsInPublish
<1>7. CASE Supervise \/ DrainOn \/ Drained \/ DrainedAgain
  BY <1>7, CountsInDrain
<1>8. CASE UNCHANGED <<stage, mode, rows, published, sealed, batch>>
  <2>1. Behind' = Behind /\ After(rows', sealed') = After(rows, sealed) /\ Unsent' = Unsent
    BY <1>8 DEF Behind, Unsent
  <2> QED
    BY <1>8, <2>1 DEF CountsOK
<1>9. CASE FinishWandb \/ CreateTerminal
  <2>1. /\ stage \in {"finish", "archive"} /\ stage' \in {"archive", "done"}
        /\ UNCHANGED <<rows, published, sealed>>
    BY <1>9 DEF FinishWandb, CreateTerminal, Go, ledger
  <2>2. After(rows', sealed') = After(rows, sealed) /\ Unsent' = Unsent
    BY <2>1 DEF Unsent
  <2>3. After(rows', sealed') = {} /\ Unsent' = {}
    BY <2>1, <2>2 DEF CountsOK
  <2> QED
    BY <2>1, <2>3 DEF CountsOK
<1>10. CASE \E e \in Events : Learn(e) \/ Repeat(e)
  <2>1. mode = "active" /\ UNCHANGED <<stage, mode, published, sealed, batch>>
    BY <1>10 DEF Learn, Repeat
  <2>2. Behind' = Behind
    BY <1>1, <1>10, <2>1, BehindStays DEF Steady
  <2> QED
    BY <1>1, <2>1, <2>2 DEF CountsOK, PlaceOK
<1>11. CASE DeleteSegment \/ Upload \/ UNCHANGED metricVars \/ \E s \in Active : CopySegment(s)
  BY <1>8, <1>11 DEF DeleteSegment, Upload, metricVars, CopySegment, ledger
<1> QED
  BY <1>3, <1>4, <1>5, <1>6, <1>7, <1>9, <1>10, <1>11 DEF MetricNext

-----------------------------------------------------------------------------
(* Delivery *)

\* The client's steps are past W&B's, and the last of them is the highest.
LEMMA SdkIs ==
  ASSUME MetricTypeOK, SdkOK
  PROVE  /\ Len(sdk) \in Nat /\ DOMAIN sdk = 1..Len(sdk)
         /\ LastStep(history) \in Nat /\ SdkHigh \in Nat /\ LastStep(history) <= SdkHigh
         /\ \A k \in DOMAIN sdk : sdk[k].step \in Nat /\ sdk[k].step <= SdkHigh
         /\ sdk # <<>> => 1 \in DOMAIN sdk
         /\ sdk = <<>> => SdkHigh = LastStep(history)
<1>1. sdk \in Seq(Points) /\ history \in Seq(Points)
  BY DEF MetricTypeOK
<1>2. Len(sdk) \in Nat /\ DOMAIN sdk = 1..Len(sdk) /\ \A k \in 1..Len(sdk) : sdk[k] \in Points
  BY <1>1, LenProperties, ElementOfSeq
<1>3. \A k \in DOMAIN sdk : sdk[k].step \in Nat
  BY <1>2 DEF Points
<1>4. LastStep(history) \in Nat
  BY <1>1, LastStepIs
<1>5. CASE sdk = <<>>
  <2>1. SdkHigh = LastStep(history) /\ DOMAIN sdk = {}
    BY <1>5 DEF SdkHigh
  <2> QED
    BY <1>2, <1>3, <1>4, <1>5, <2>1
<1>6. CASE sdk # <<>>
  <2>1. Len(sdk) \in 1..Len(sdk) /\ SdkHigh = sdk[Len(sdk)].step
    BY <1>1, <1>6, LastStepIs DEF SdkHigh
  <2>2. PICK last \in DOMAIN sdk : last = Len(sdk)
    BY <1>2, <2>1
  <2>3. ASSUME NEW k \in DOMAIN sdk
        PROVE  sdk[k].step <= SdkHigh
    <3>1. k \in Nat /\ last \in Nat /\ k <= last
      BY <1>2, <2>2
    <3>2. CASE k = last
      BY <1>3, <2>1, <2>2, <3>2
    <3>3. CASE k # last
      <4>1. k < last
        BY <3>1, <3>3
      <4>2. sdk[k].step < sdk[last].step
        BY <2>2, <4>1 DEF SdkOK
      <4> QED
        BY <1>3, <2>1, <2>2, <4>2
    <3> QED
      BY <3>2, <3>3
  <2>4. LastStep(history) <= SdkHigh
    BY <1>2, <1>3, <1>4, <2>1 DEF SdkOK
  <2> QED
    BY <1>2, <1>3, <1>4, <1>6, <2>1, <2>3, <2>4
<1> QED
  BY <1>5, <1>6

\* Sending a logged step moves it to W&B and leaves the highest step what it was.
LEMMA UploadIs ==
  ASSUME MetricTypeOK, Upload
  PROVE  /\ sdk # <<>> /\ SdkHigh' = SdkHigh /\ LastStep(history') = sdk[1].step
         /\ \A e : AtWandb(e) => AtWandb(e)'
         /\ \A e : e = sdk[1].event => AtWandb(e)'
         /\ \A k \in DOMAIN sdk : k = 1 \/ (k - 1 \in DOMAIN sdk' /\ sdk'[k - 1] = sdk[k])
         /\ \A k \in DOMAIN sdk' : k \in Nat /\ k + 1 \in DOMAIN sdk /\ sdk'[k] = sdk[k + 1]
<1>1. sdk \in Seq(Points) /\ history \in Seq(Points)
  BY DEF MetricTypeOK
<1>2. /\ sdk # <<>> /\ history' = Append(history, Head(sdk)) /\ sdk' = Tail(sdk)
  BY DEF Upload
<1>3. /\ Head(sdk) \in Points /\ sdk' \in Seq(Points) /\ Len(sdk') = Len(sdk) - 1
      /\ \A i \in 1..Len(sdk') : sdk'[i] = sdk[i + 1]
      /\ Head(sdk) = sdk[1] /\ Len(sdk) \in Nat /\ Len(sdk) >= 1 /\ DOMAIN sdk = 1..Len(sdk)
      /\ DOMAIN sdk' = 1..Len(sdk')
  BY <1>1, <1>2, HeadTailProperties, LenProperties, EmptySeq
<1>4. /\ history' \in Seq(Points) /\ Len(history') = Len(history) + 1 /\ Len(history) \in Nat
      /\ \A i \in 1..Len(history) : history'[i] = history[i]
      /\ history'[Len(history) + 1] = Head(sdk)
      /\ DOMAIN history = 1..Len(history) /\ DOMAIN history' = 1..(Len(history) + 1)
  BY <1>1, <1>2, <1>3, AppendProperties, LenProperties
<1>5. \A e : AtWandb(e) => AtWandb(e)'
  BY <1>4 DEF AtWandb
<1>6. ASSUME NEW e, e = sdk[1].event
      PROVE  AtWandb(e)'
  <2>1. /\ Len(history) + 1 \in DOMAIN history'
        /\ history'[Len(history) + 1].event = e
    BY <1>3, <1>4, <1>6
  <2> QED
    BY <2>1 DEF AtWandb
<1>7. LastStep(history') = sdk[1].step
  <2>1. history' # <<>>
    BY <1>2
  <2> QED
    BY <1>3, <1>4, <2>1, LastStepIs
<1>8. /\ \A k \in DOMAIN sdk : k = 1 \/ (k - 1 \in DOMAIN sdk' /\ sdk'[k - 1] = sdk[k])
      /\ \A k \in DOMAIN sdk' : k \in Nat /\ k + 1 \in DOMAIN sdk /\ sdk'[k] = sdk[k + 1]
  <2>1. ASSUME NEW k \in DOMAIN sdk, k # 1
        PROVE  k - 1 \in DOMAIN sdk' /\ sdk'[k - 1] = sdk[k]
    <3>1. k - 1 \in 1..Len(sdk') /\ (k - 1) + 1 = k
      BY <1>3, <2>1
    <3> QED
      BY <1>3, <3>1
  <2>2. \A k \in DOMAIN sdk' : k \in Nat /\ k + 1 \in DOMAIN sdk /\ sdk'[k] = sdk[k + 1]
    BY <1>3
  <2> QED
    BY <2>1, <2>2
<1>9. SdkHigh' = SdkHigh
  <2>1. SdkHigh = sdk[Len(sdk)].step
    BY <1>1, <1>2, LastStepIs DEF SdkHigh
  <2>2. CASE sdk' = <<>>
    <3>1. Len(sdk) = 1
      BY <1>3, <2>2
    <3>2. SdkHigh' = LastStep(history')
      BY <2>2 DEF SdkHigh
    <3> QED
      BY <1>7, <2>1, <3>1, <3>2
  <2>3. CASE sdk' # <<>>
    <3>1. SdkHigh' = LastStep(sdk')
      BY <2>3 DEF SdkHigh
    <3>2. Len(sdk') \in 1..Len(sdk') /\ LastStep(sdk') = sdk'[Len(sdk')].step
      BY <1>3, <2>3, LastStepIs
    <3>3. sdk'[Len(sdk')] = sdk[Len(sdk)]
      BY <1>3, <3>2
    <3> QED
      BY <2>1, <3>1, <3>2, <3>3
  <2> QED
    BY <2>2, <2>3
<1> QED
  BY <1>2, <1>5, <1>6, <1>7, <1>8, <1>9

\* What the client takes.
LEMMA LogIs ==
  ASSUME MetricTypeOK, NEW row \in 1..Len(rows), rows[row] # Nothing, Log(row)
  PROVE  /\ SdkHigh \in Nat
         /\ row > SdkHigh =>
              /\ sdk' # <<>> /\ LastStep(sdk') = row
              /\ \A k \in DOMAIN sdk : k \in DOMAIN sdk' /\ sdk'[k] = sdk[k]
              /\ \E last \in DOMAIN sdk' :
                   /\ sdk'[last].step = row /\ sdk'[last].event = rows[row]
                   /\ \A k \in DOMAIN sdk' : k = last \/ (k \in DOMAIN sdk /\ k < last)
         /\ ~(row > SdkHigh) => sdk' = sdk
<1>1. sdk \in Seq(Points) /\ history \in Seq(Points)
  BY DEF MetricTypeOK
<1>2. row \in Nat /\ rows[row] \in Events
  BY MetricTypes
<1>3. SdkHigh \in Nat
  BY <1>1, LastStepIs DEF SdkHigh
<1>4. ASSUME row > SdkHigh
      PROVE  /\ sdk' # <<>> /\ LastStep(sdk') = row
             /\ \A k \in DOMAIN sdk : k \in DOMAIN sdk' /\ sdk'[k] = sdk[k]
             /\ \E last \in DOMAIN sdk' :
                  /\ sdk'[last].step = row /\ sdk'[last].event = rows[row]
                  /\ \A k \in DOMAIN sdk' : k = last \/ (k \in DOMAIN sdk /\ k < last)
  <2> DEFINE point == [step |-> row, event |-> rows[row]]
  <2>1. point \in Points /\ point.step = row /\ point.event = rows[row]
    BY <1>2 DEF Points
  <2>2. sdk' = Append(sdk, point)
    BY <1>4 DEF Log
  <2> HIDE DEF point
  <2>3. /\ sdk' \in Seq(Points) /\ sdk' # <<>> /\ Len(sdk') = Len(sdk) + 1
        /\ \A k \in 1..Len(sdk) : sdk'[k] = sdk[k]
        /\ sdk'[Len(sdk) + 1] = point /\ Len(sdk) \in Nat
        /\ DOMAIN sdk = 1..Len(sdk) /\ DOMAIN sdk' = 1..(Len(sdk) + 1)
    BY <1>1, <2>1, <2>2, AppendProperties, LenProperties
  <2>4. LastStep(sdk') = row
    BY <2>1, <2>3, LastStepIs
  <2>5. /\ Len(sdk) + 1 \in DOMAIN sdk' /\ \A k \in 1..Len(sdk) : k \in DOMAIN sdk'
        /\ \A k \in DOMAIN sdk' : k = Len(sdk) + 1 \/ (k \in DOMAIN sdk /\ k < Len(sdk) + 1)
    BY <2>3
  <2> QED
    BY <2>1, <2>3, <2>4, <2>5
<1>5. ~(row > SdkHigh) => sdk' = sdk
  BY DEF Log
<1> QED
  BY <1>3, <1>4, <1>5

\* W&B's side stays: the events of the rows are where they were, and a new row is after
\* what W&B has, unless W&B was ahead.
LEMMA DeliveryStays ==
  ASSUME MetricTypeOK, DeliveryOK, Held,
         rows' \in Seq(Events \cup {Nothing}), Longer(rows', rows),
         UNCHANGED <<published, sdk, history, ahead, lost>>
  PROVE  DeliveryOK'
<1>1. /\ rows \in Seq(Events \cup {Nothing}) /\ published \in Nat /\ published <= Len(rows)
      /\ ahead \in Nat
  BY MetricTypes DEF MetricTypeOK
<1>2. /\ Len(rows) \in Nat /\ Len(rows') \in Nat /\ Len(rows) <= Len(rows')
      /\ DOMAIN rows = 1..Len(rows) /\ DOMAIN rows' = 1..Len(rows')
      /\ \A i \in 1..Len(rows) : i \in 1..Len(rows') /\ rows'[i] = rows[i]
      /\ \A i \in After(rows', 0) : i <= Len(rows) => i \in After(rows, 0)
  BY <1>1, LongerIs
<1>3. SdkOK
  BY DEF DeliveryOK
<1>4. /\ LastStep(history) \in Nat /\ SdkHigh \in Nat /\ LastStep(history) <= SdkHigh
  BY <1>3, SdkIs
<1>5. SdkHigh' = SdkHigh /\ LastStep(history') = LastStep(history)
  BY DEF SdkHigh, LastStep
<1>6. \A e : AtWandb(e)' <=> AtWandb(e)
  BY DEF AtWandb
<1>7. ASSUME NEW i \in After(rows', 0)
      PROVE  /\ i <= published \/ i <= SdkHigh => Passed(i)' \/ InSdk(i)'
             /\ i <= LastStep(history) => Passed(i)'
  <2>1. i \in 1..Len(rows')
    BY AfterStart
  <2>2. CASE i <= Len(rows)
    <3>1. i \in After(rows, 0) /\ i \in 1..Len(rows) /\ rows'[i] = rows[i]
      BY <1>2, <2>1, <2>2
    <3>2. (Passed(i) => Passed(i)') /\ (InSdk(i) => InSdk(i)')
      BY <1>6, <3>1 DEF Passed, InSdk
    <3> QED
      BY <3>1, <3>2 DEF DeliveryOK
  <2>3. CASE ~(i <= Len(rows))
    <3>1. ~(i <= published)
      BY <1>1, <1>2, <2>1, <2>3
    <3>2. i <= LastStep(history) => i <= SdkHigh
      BY <1>4, <2>1
    <3>3. i <= SdkHigh => i <= ahead
      <4>1. SdkHigh <= Len(rows) \/ SdkHigh <= ahead
        BY DEF DeliveryOK
      <4> QED
        BY <1>1, <1>2, <1>4, <2>1, <2>3, <4>1
    <3> QED
      BY <3>1, <3>2, <3>3 DEF Passed
  <2> QED
    BY <2>2, <2>3
<1>8. SdkHigh' <= Len(rows') \/ SdkHigh' <= ahead'
  BY <1>1, <1>2, <1>4, <1>5 DEF DeliveryOK
<1>9. SdkOK'
  BY <1>2, <1>3, <1>5 DEF SdkOK
<1> QED
  BY <1>5, <1>7, <1>8, <1>9 DEF DeliveryOK

\* Logging the first row of a batch, whether or not it is marked as published.
LEMMA DeliveryLogged ==
  ASSUME Ordinary, DeliveryOK, stage = "publish", stage' # "start",
         NEW row \in batch, \A other \in batch : row <= other, Log(row),
         published' \in {row, published}, UNCHANGED <<rows, history, ahead, lost>>
  PROVE  DeliveryOK'
<1>1. MetricTypeOK /\ MarksOK /\ Held
  BY DEF Ordinary, Held
<1>2. /\ rows \in Seq(Events \cup {Nothing}) /\ Len(rows) \in Nat /\ DOMAIN rows = 1..Len(rows)
      /\ published \in Nat /\ published <= Len(rows) /\ ahead \in Nat
  BY <1>1, MetricTypes DEF MetricTypeOK
<1>3. SdkOK
  BY <1>1 DEF DeliveryOK
<1>4. /\ LastStep(history) \in Nat /\ SdkHigh \in Nat /\ LastStep(history) <= SdkHigh
      /\ \A k \in DOMAIN sdk : sdk[k].step \in Nat /\ sdk[k].step <= SdkHigh
  BY <1>1, <1>3, SdkIs
<1>5. Begins(batch, After(rows, published))
  BY <1>1 DEF MarksOK, Unsent
<1>6. /\ row \in After(rows, published) /\ row \in 1..Len(rows) /\ rows[row] # Nothing
      /\ row > published /\ row \in Nat
  BY <1>2, <1>5, AfterIs DEF Begins
<1>7. /\ row > SdkHigh =>
              /\ sdk' # <<>> /\ LastStep(sdk') = row
              /\ \A k \in DOMAIN sdk : k \in DOMAIN sdk' /\ sdk'[k] = sdk[k]
              /\ \E last \in DOMAIN sdk' :
                   /\ sdk'[last].step = row /\ sdk'[last].event = rows[row]
                   /\ \A k \in DOMAIN sdk' : k = last \/ (k \in DOMAIN sdk /\ k < last)
      /\ ~(row > SdkHigh) => sdk' = sdk
  BY <1>1, <1>6, LogIs
<1>8. SdkHigh' = (IF row > SdkHigh THEN row ELSE SdkHigh) /\ LastStep(history') = LastStep(history)
  BY <1>7 DEF SdkHigh
<1>9. \A i : (Passed(i)' <=> Passed(i)) /\ (InSdk(i) => InSdk(i)')
  <2>1. \A e : AtWandb(e)' <=> AtWandb(e)
    BY DEF AtWandb
  <2> QED
    BY <1>7, <2>1 DEF Passed, InSdk
<1>10. ASSUME NEW i \in After(rows, 0), i <= row, ~(i <= published)
       PROVE  i = row
  <2>1. i \in 1..Len(rows) /\ rows[i] # Nothing /\ i > published
    BY <1>2, <1>10, AfterStart
  <2>2. i \in After(rows, published)
    BY <1>2, <2>1, AfterIs
  <2>3. i \in batch
    BY <1>2, <1>5, <1>6, <1>10, <2>1, <2>2 DEF Begins
  <2> QED
    BY <1>2, <1>6, <1>10, <2>1, <2>3
<1>11. ASSUME NEW i \in After(rows, 0), i <= published' \/ i <= SdkHigh'
       PROVE  Passed(i)' \/ InSdk(i)'
  <2>1. i \in Nat
    BY <1>2, AfterStart
  <2>2. i <= published \/ i <= SdkHigh \/ i <= row
    BY <1>8, <1>11
  <2>3. CASE i <= published \/ i <= SdkHigh
    BY <1>1, <1>9, <2>3 DEF DeliveryOK
  <2>4. CASE i = row /\ row > SdkHigh
    BY <1>7, <2>4 DEF InSdk
  <2> QED
    BY <1>4, <1>6, <1>10, <2>1, <2>2, <2>3, <2>4
<1>12. \A i \in After(rows, 0) : i <= LastStep(history) => Passed(i)'
  BY <1>1, <1>9 DEF DeliveryOK
<1>13. SdkHigh' <= Len(rows) \/ SdkHigh' <= ahead
  BY <1>1, <1>2, <1>6, <1>8 DEF DeliveryOK
<1>14. SdkOK'
  <2>1. CASE ~(row > SdkHigh)
    BY <1>3, <1>7, <1>8, <2>1 DEF SdkOK
  <2>2. CASE row > SdkHigh
    <3>1. PICK last \in DOMAIN sdk' :
            /\ sdk'[last].step = row /\ sdk'[last].event = rows[row]
            /\ \A k \in DOMAIN sdk' : k = last \/ (k \in DOMAIN sdk /\ k < last)
      BY <1>7, <2>2
    <3>2. \A k \in DOMAIN sdk : sdk'[k] = sdk[k] /\ sdk[k].step < row
      BY <1>4, <1>6, <1>7, <2>2
    <3>3. ASSUME NEW k \in DOMAIN sdk'
          PROVE  /\ sdk'[k].step \in DOMAIN rows /\ rows[sdk'[k].step] = sdk'[k].event
                 /\ sdk'[k].step > LastStep(history)
      <4>1. CASE k = last
        BY <1>2, <1>4, <1>6, <2>2, <3>1, <4>1
      <4>2. CASE k \in DOMAIN sdk
        BY <1>3, <3>2, <4>2 DEF SdkOK
      <4> QED
        BY <3>1, <4>1, <4>2
    <3>4. ASSUME NEW k \in DOMAIN sdk', NEW l \in DOMAIN sdk', k < l
          PROVE  sdk'[k].step < sdk'[l].step
      <4>1. last \in Nat /\ k \in Nat /\ l \in Nat
        <5>1. DOMAIN sdk' = 1..Len(sdk')
          <6>1. sdk' \in Seq(Points)
            <7>1. [step |-> row, event |-> rows[row]] \in Points
              BY <1>1, <1>6, MetricTypes DEF Points
            <7>2. sdk \in Seq(Points)
              BY <1>1 DEF MetricTypeOK
            <7> QED
              BY <2>2, <7>1, <7>2, AppendProperties DEF Log
          <6> QED
            BY <6>1, LenProperties
        <5> QED
          BY <5>1
      <4>2. k # last
        BY <3>1, <3>4, <4>1
      <4>3. k \in DOMAIN sdk
        BY <3>1, <4>2
      <4>4. CASE l = last
        BY <3>1, <3>2, <4>3, <4>4
      <4>5. CASE l \in DOMAIN sdk
        BY <1>3, <3>2, <3>4, <4>3, <4>5 DEF SdkOK
      <4> QED
        BY <3>1, <4>4, <4>5
    <3> QED
      BY <1>8, <3>3, <3>4 DEF SdkOK
  <2> QED
    BY <2>1, <2>2
<1> QED
  BY <1>8, <1>11, <1>12, <1>13, <1>14 DEF DeliveryOK

\* Sending the first logged step.
LEMMA DeliverySent ==
  ASSUME Ordinary, DeliveryOK, Upload
  PROVE  DeliveryOK'
<1>1. MetricTypeOK
  BY DEF Ordinary
<1>2. /\ stage # "start" /\ Held /\ UNCHANGED <<stage, rows, published, ahead, lost>>
  BY DEF Upload, Ordinary, PlaceOK, ledger, Held
<1>3. SdkOK
  BY <1>2 DEF DeliveryOK
<1>4. /\ Len(sdk) \in Nat /\ DOMAIN sdk = 1..Len(sdk)
      /\ LastStep(history) \in Nat /\ SdkHigh \in Nat /\ LastStep(history) <= SdkHigh
      /\ \A k \in DOMAIN sdk : sdk[k].step \in Nat /\ sdk[k].step <= SdkHigh
      /\ 1 \in DOMAIN sdk
  BY <1>1, <1>3, SdkIs DEF Upload
<1>5. /\ SdkHigh' = SdkHigh /\ LastStep(history') = sdk[1].step
      /\ \A e : AtWandb(e) => AtWandb(e)'
      /\ \A e : e = sdk[1].event => AtWandb(e)'
      /\ \A k \in DOMAIN sdk : k = 1 \/ (k - 1 \in DOMAIN sdk' /\ sdk'[k - 1] = sdk[k])
      /\ \A k \in DOMAIN sdk' : k \in Nat /\ k + 1 \in DOMAIN sdk /\ sdk'[k] = sdk[k + 1]
  BY <1>1, UploadIs
<1>6. \A i : Passed(i) => Passed(i)'
  BY <1>2, <1>5 DEF Passed
<1>7. ASSUME NEW i, i = sdk[1].step
      PROVE  Passed(i)'
  <2>1. i \in DOMAIN rows /\ rows[i] = sdk[1].event
    BY <1>3, <1>4, <1>7 DEF SdkOK
  <2>2. PICK e : e = rows[i]
    OBVIOUS
  <2>3. AtWandb(e)'
    BY <1>5, <2>1, <2>2
  <2> QED
    BY <1>2, <2>2, <2>3 DEF Passed, AtWandb
<1>8. ASSUME NEW i \in After(rows, 0), Passed(i) \/ InSdk(i)
      PROVE  Passed(i)' \/ InSdk(i)'
  <2>1. CASE Passed(i)
    BY <1>6, <2>1
  <2>2. CASE InSdk(i)
    <3>1. PICK k \in DOMAIN sdk : sdk[k].step = i
      BY <2>2 DEF InSdk
    <3>2. k = 1 => Passed(i)'
      BY <1>7, <3>1
    <3>3. k # 1 => InSdk(i)'
      BY <1>5, <3>1 DEF InSdk
    <3> QED
      BY <3>2, <3>3
  <2> QED
    BY <1>8, <2>1, <2>2
<1>9. ASSUME NEW i \in After(rows, 0), i <= sdk[1].step
      PROVE  Passed(i)'
  <2>1. i \in Nat /\ i <= SdkHigh
    <3>1. i \in Nat
      BY <1>1, MetricTypes, AfterStart
    <3> QED
      BY <1>4, <1>9, <3>1
  <2>2. CASE i = sdk[1].step
    BY <1>7, <2>2
  <2>3. CASE i < sdk[1].step
    <3>1. ASSUME NEW k \in DOMAIN sdk, sdk[k].step = i
          PROVE  FALSE
      <4>1. k = 1 \/ 1 < k
        BY <1>4
      <4> QED
        BY <1>3, <1>4, <2>1, <2>3, <3>1, <4>1 DEF SdkOK
    <3>2. Passed(i)
      BY <1>2, <2>1, <3>1 DEF DeliveryOK, InSdk
    <3> QED
      BY <1>6, <3>2
  <2> QED
    BY <1>4, <1>9, <2>1, <2>2, <2>3
<1>10. SdkOK'
  <2>1. ASSUME NEW k \in DOMAIN sdk'
        PROVE  /\ sdk'[k].step \in DOMAIN rows /\ rows[sdk'[k].step] = sdk'[k].event
               /\ sdk'[k].step > sdk[1].step
               /\ \A l \in DOMAIN sdk' : k < l => sdk'[k].step < sdk'[l].step
    <3>1. k \in Nat /\ k + 1 \in DOMAIN sdk /\ sdk'[k] = sdk[k + 1] /\ 1 < k + 1
      <4>1. k + 1 \in DOMAIN sdk /\ sdk'[k] = sdk[k + 1] /\ k \in Nat /\ k # 0
        <5>1. k \in DOMAIN sdk' /\ sdk' = Tail(sdk) /\ sdk # <<>> /\ sdk \in Seq(Points)
          BY <1>1 DEF Upload, MetricTypeOK
        <5>2. k # 0
          BY <5>1, HeadTailProperties, LenProperties
        <5> QED
          BY <1>5, <5>2
      <4> QED
        BY <4>1
    <3>2. \A l \in DOMAIN sdk' : /\ l \in Nat /\ l + 1 \in DOMAIN sdk /\ sdk'[l] = sdk[l + 1]
                                 /\ k < l => k + 1 < l + 1
      BY <1>5, <3>1
    <3>3. sdk[1].step < sdk[k + 1].step
      BY <1>3, <1>4, <3>1 DEF SdkOK
    <3> QED
      BY <1>3, <1>4, <3>1, <3>2, <3>3 DEF SdkOK
  <2> QED
    BY <1>2, <1>5, <2>1 DEF SdkOK
<1>11. SdkHigh' <= Len(rows') \/ SdkHigh' <= ahead'
  BY <1>2, <1>5 DEF DeliveryOK
<1>12. \A i \in After(rows, 0) : i <= published \/ i <= SdkHigh => Passed(i)' \/ InSdk(i)'
  BY <1>2, <1>8 DEF DeliveryOK
<1> QED
  BY <1>2, <1>5, <1>9, <1>10, <1>11, <1>12 DEF DeliveryOK

\* A ledger that outlives its process: what its client had not sent is lost.
LEMMA DeliveryDied ==
  ASSUME Ordinary, DeliveryOK, Die
  PROVE  DeliveryOK'
<1>1. MetricTypeOK
  BY DEF Ordinary
<1>2. stage' = "start" /\ sdk' = <<>> /\ history' = history
  BY DEF Die
<1>3. CASE rows' = <<>>
  BY <1>2, <1>3 DEF DeliveryOK, Held
<1>4. CASE rows # <<>> /\ UNCHANGED <<rows, published, ahead>> /\ lost' = lost \cup Buffered
  <2>1. Held /\ SdkOK
    BY <1>4 DEF DeliveryOK, Held
  <2>2. /\ LastStep(history) \in Nat /\ SdkHigh \in Nat /\ LastStep(history) <= SdkHigh
        /\ sdk # <<>> => 1 \in DOMAIN sdk
        /\ sdk = <<>> => SdkHigh = LastStep(history)
        /\ \A k \in DOMAIN sdk : sdk[k].step \in Nat
    BY <1>1, <2>1, SdkIs
  <2>3. SdkHigh' = LastStep(history) /\ LastStep(history') = LastStep(history)
    BY <1>2 DEF SdkHigh
  <2>4. \A i : Passed(i) => Passed(i)'
    BY <1>2, <1>4 DEF Passed, AtWandb
  <2>5. ASSUME NEW i \in After(rows, 0), i <= published
        PROVE  Passed(i)'
    <3>1. i \in DOMAIN rows
      BY DEF After
    <3>2. InSdk(i) => rows[i] \in Buffered
      BY <2>5, <3>1 DEF InSdk, Buffered
    <3>3. InSdk(i) => Passed(i)'
      BY <1>4, <3>2 DEF Passed
    <3> QED
      BY <2>1, <2>4, <2>5, <3>3 DEF DeliveryOK
  <2>6. \A i \in After(rows, 0) : i <= LastStep(history) => Passed(i)'
    BY <2>1, <2>4 DEF DeliveryOK
  <2>7. LastStep(history) <= Len(rows) \/ LastStep(history) <= ahead
    <3>1. CASE sdk = <<>>
      BY <2>1, <2>2, <3>1 DEF DeliveryOK
    <3>2. CASE sdk # <<>>
      <4>1. sdk[1].step \in DOMAIN rows /\ sdk[1].step > LastStep(history)
        BY <2>1, <2>2, <3>2 DEF SdkOK
      <4>2. DOMAIN rows = 1..Len(rows) /\ Len(rows) \in Nat
        BY <1>1, MetricTypes
      <4> QED
        BY <2>2, <4>1, <4>2
    <3> QED
      BY <3>1, <3>2
  <2>8. SdkOK'
    BY <1>2 DEF SdkOK
  <2> QED
    BY <1>4, <2>3, <2>5, <2>6, <2>7, <2>8 DEF DeliveryOK
<1> QED
  BY <1>3, <1>4 DEF Die, Marks

\* The rebuilt ledger agrees with W&B, or is known not to.
LEMMA DeliveryRecovered ==
  ASSUME Ordinary, DeliveryOK, Recover
  PROVE  DeliveryOK'
<1>1. MetricTypeOK /\ PlaceOK
  BY DEF Ordinary
<1>2. /\ sdk = <<>> /\ rows' = Recovered
      /\ ahead' = IF rows = <<>> /\ ~Agrees THEN LastStep(history) ELSE ahead
      /\ UNCHANGED <<published, sdk, history, lost>>
  BY <1>1 DEF Recover, PlaceOK, wandb
<1>3. /\ rows' \in Seq(Events \cup {Nothing}) /\ Len(rows') \in Nat /\ Longer(rows', rows)
  BY <1>2, RecoveredIs, LenProperties DEF Ordinary
<1>4. CASE rows # <<>>
  BY <1>1, <1>2, <1>3, <1>4, DeliveryStays DEF Held
<1>5. CASE rows = <<>>
  <2>1. SdkHigh' = LastStep(history) /\ LastStep(history') = LastStep(history)
        /\ LastStep(history) \in Nat
    BY <1>1, <1>2, LastStepIs DEF SdkHigh, MetricTypeOK
  <2>2. \A i \in After(rows', 0) : i \in 1..Len(rows') /\ rows'[i] # Nothing
    BY <1>3, AfterStart
  <2>3. published = 0
    BY <1>1, <1>5 DEF MetricTypeOK
  <2>4. \A i \in After(rows', 0) : i <= LastStep(history) => AtWandb(rows[i])' \/ i <= ahead'
    <3>1. CASE Agrees
      <4>1. \A i \in 1..LastStep(history) :
              Recovered[i] = Nothing \/ \E j \in DOMAIN history : history[j].event = Recovered[i]
        BY <3>1 DEF Agrees, AtWandb
      <4>2. \A i \in 1..Len(rows') : i <= LastStep(history) => i \in 1..LastStep(history)
        BY <1>3, <2>1
      <4> QED
        BY <1>2, <2>2, <4>1, <4>2 DEF AtWandb
    <3>2. CASE ~Agrees
      BY <1>2, <1>5, <3>2
    <3> QED
      BY <3>1, <3>2
  <2>5. SdkHigh' <= Len(rows') \/ SdkHigh' <= ahead'
    <3>1. CASE Agrees
      BY <1>2, <2>1, <3>1 DEF Agrees
    <3>2. CASE ~Agrees
      BY <1>2, <1>5, <2>1, <3>2
    <3> QED
      BY <3>1, <3>2
  <2>6. \A i \in After(rows', 0) : ~(i <= published')
    BY <1>2, <2>2, <2>3
  <2>7. SdkOK'
    BY <1>2 DEF SdkOK
  <2> QED
    BY <2>1, <2>4, <2>5, <2>6, <2>7 DEF DeliveryOK, Passed
<1> QED
  BY <1>4, <1>5

LEMMA DeliveryKept ==
  ASSUME Ordinary, DeliveryOK, [MetricNext]_metricVars
  PROVE  DeliveryOK'
<1>1. MetricTypeOK /\ OnceInRows /\ PlaceOK
  BY DEF Ordinary
<1>2. CASE Die \/ Recover \/ Upload
  BY <1>2, DeliveryDied, DeliveryRecovered, DeliverySent
<1>3. CASE PublishFrame
  <2>1. PICK row \in batch : (\A other \in batch : row <= other) /\ Log(row) /\ published' = row
    BY <1>3 DEF PublishFrame
  <2>2. stage = "publish" /\ stage' = "publish" /\ UNCHANGED <<rows, history, ahead, lost>>
    BY <1>3 DEF PublishFrame
  <2> QED
    BY <2>1, <2>2, DeliveryLogged
<1>4. CASE Interrupted
  <2>1. PICK row \in batch : (\A other \in batch : row <= other) /\ Log(row)
    BY <1>4 DEF Interrupted
  <2>2. /\ stage = "publish" /\ stage' = "interrupted" /\ published' = published
        /\ UNCHANGED <<rows, history, ahead, lost>>
    BY <1>4 DEF Interrupted, Go, ledger
  <2> QED
    BY <2>1, <2>2, DeliveryLogged
<1>5. ASSUME Steady, ~Upload, ~PublishFrame, ~Interrupted, ~UNCHANGED metricVars
      PROVE  DeliveryOK'
  <2>1. stage # "start" /\ UNCHANGED <<published, sdk, history>>
    <3>1. CASE SealMetrics \/ SealNothing \/ RecordSegment \/ PollEvals \/ PublishFails
      BY <3>1 DEF SealMetrics, SealNothing, RecordSegment, PollEvals, PublishFails, ledger, wandb
    <3>2. CASE Supervise \/ DrainOn \/ Drained \/ DrainedAgain
      BY <3>2 DEF Supervise, DrainOn, Drained, DrainedAgain, Published, ledger, wandb
    <3>3. CASE FinishWandb \/ DeleteSegment \/ CreateTerminal
      BY <3>3 DEF FinishWandb, DeleteSegment, CreateTerminal, ledger, wandb
    <3>4. CASE \E e \in Events : Learn(e) \/ Repeat(e)
      BY <3>4 DEF Learn, Repeat, wandb
    <3>5. CASE \E s \in Active : CopySegment(s)
      BY <3>5 DEF CopySegment, ledger, wandb
    <3> QED
      BY <1>5, <3>1, <3>2, <3>3, <3>4, <3>5 DEF Steady
  <2>2. ahead' = ahead /\ lost' = lost
    BY <1>5, SteadyGrows
  <2>3. rows' \in Seq(Events \cup {Nothing}) /\ Longer(rows', rows)
    BY <1>1, <1>5, SteadyGrows, GrowthIs, ProlongedIsLonger DEF MetricTypeOK
  <2> QED
    BY <1>1, <2>1, <2>2, <2>3, DeliveryStays DEF Held
<1>6. CASE UNCHANGED metricVars
  <2>1. UNCHANGED <<stage, rows, published, sdk, history, ahead, lost>>
    BY <1>6 DEF metricVars, ledger, wandb
  <2>2. CASE ~Held
    BY <2>1, <2>2 DEF DeliveryOK, Held
  <2>3. CASE Held
    <3>1. rows' \in Seq(Events \cup {Nothing}) /\ Longer(rows', rows)
      BY <1>1, <2>1, LenProperties DEF MetricTypeOK, Longer
    <3> QED
      BY <1>1, <2>1, <2>3, <3>1, DeliveryStays
  <2> QED
    BY <2>2, <2>3
<1> QED
  BY <1>2, <1>3, <1>4, <1>5, <1>6, SteadyIsMost

-----------------------------------------------------------------------------
(* The inductive invariant *)

LEMMA MetricStarts ==
  MetricInit => MetricInv
<1> SUFFICES ASSUME MetricInit
             PROVE  MetricInv
  OBVIOUS
<1>1. MetricTypeOK
  BY EmptySeq DEF MetricInit, MetricTypeOK, Stages
<1>2. OnceInRows /\ MarksOK /\ PlaceOK /\ DeliveryOK /\ ~Held
  BY DEF MetricInit, OnceInRows, Unrepeated, MarksOK, PlaceOK, DeliveryOK, Held
<1>5. CountsOK
  <2>1. Behind = {} /\ Cardinality(Behind) = 0
    BY FS_EmptySet, EmptySeq DEF MetricInit, Behind, After
  <2> QED
    BY <2>1 DEF MetricInit, CountsOK
<1>3. Entries = {}
  BY DEF MetricInit, Entries
<1>4. JournalOK
  BY <1>2, <1>3, FS_EmptySet DEF MetricInit, JournalOK, KeysDiffer, CopiesFirst, SealedOnce,
                                 Agreeing
<1> QED
  BY <1>1, <1>2, <1>4, <1>5 DEF MetricInv

LEMMA MetricInvKept ==
  MetricInv /\ [MetricNext]_metricVars => MetricInv'
<1> SUFFICES ASSUME MetricInv, [MetricNext]_metricVars
             PROVE  MetricInv'
  OBVIOUS
<1>1. Ordinary /\ CountsOK /\ DeliveryOK
  BY DEF MetricInv, Ordinary
<1>2. MetricTypeOK' /\ OnceInRows'
  BY <1>1, MetricTypeKept, OnceKept
<1>3. MarksOK' /\ PlaceOK' /\ CountsOK'
  BY <1>1, MarksKept, PlaceKept, CountsKept
<1>4. JournalOK' /\ DeliveryOK'
  BY <1>1, JournalKeptByAll, DeliveryKept
<1> QED
  BY <1>2, <1>3, <1>4 DEF MetricInv

LEMMA MetricInvariance == MetricSpec => []MetricInv
BY MetricStarts, MetricInvKept, PTL DEF MetricSpec

\* The ledger, the journal and what W&B has are of their types, and no row of the ledger
\* has a number past its end, for any events, limits, attempts and faults.
THEOREM MetricTypesHold == MetricSpec => []MetricTypeOK
<1>1. MetricInv => MetricTypeOK
  BY DEF MetricInv
<1> QED
  BY <1>1, MetricInvariance, PTL

LEMMA InvKeepsJournal ==
  MetricInv => JournalIsKept
<1> SUFFICES ASSUME MetricInv, stage # "start"
             PROVE  /\ \A e \in secured : Contains(rows, e)
                    /\ \A s \in journal : \A i \in 2..Len(s.events) :
                          RowOf(s.events[i - 1]) < RowOf(s.events[i])
  BY DEF JournalIsKept
<1>1. /\ rows \in Seq(Events \cup {Nothing}) /\ DOMAIN rows = 1..Len(rows) /\ Len(rows) \in Nat
      /\ journal \in SUBSET Segments
  BY MetricTypes DEF MetricInv
<1>2. LedgerOrder /\ Ordered /\ \A e \in secured : \E p \in Entries : EventOf(p) = e
  BY DEF MetricInv, JournalOK, Held
<1>3. \A e \in secured : Contains(rows, e)
  BY <1>1, <1>2 DEF LedgerOrder, Contains
<1>4. ASSUME NEW p \in Entries
      PROVE  RowOf(EventOf(p)) \in DOMAIN rows /\ rows[RowOf(EventOf(p))] = EventOf(p)
  BY <1>2 DEF LedgerOrder, RowOf
<1>5. ASSUME NEW s \in journal, NEW i \in 2..Len(s.events)
      PROVE  RowOf(s.events[i - 1]) < RowOf(s.events[i])
  <2> DEFINE p == <<s, i - 1>>
             q == <<s, i>>
  <2>1. Len(s.events) \in Nat
    BY <1>1, LenProperties DEF Segments
  <2>2. i \in 1..Len(s.events) /\ i - 1 \in 1..Len(s.events) /\ i - 1 < i
    BY <2>1
  <2>3. /\ p \in Entries /\ q \in Entries
        /\ EventOf(p) = s.events[i - 1] /\ EventOf(q) = s.events[i]
    BY <1>1, <2>2, EntryIs
  <2>4. Sooner(p, q)
    BY <2>2 DEF Sooner
  <2> QED
    BY <1>2, <1>4, <2>3, <2>4 DEF Ordered
<1> QED
  BY <1>3, <1>5

\* Nothing that was sealed is lost, whichever attempts die where, with their disk or
\* without, and the events of a segment keep their order in every rebuilt ledger: all
\* attempts sealed them in one and the same order.
THEOREM JournalSurvives == MetricSpec => []JournalIsKept
BY MetricInvariance, InvKeepsJournal, PTL

LEMMA InvCompletes ==
  MetricInv => CompleteIsDelivered
<1> SUFFICES ASSUME MetricInv, stage \in {"archive", "done"}
             PROVE  /\ sealed = High(After(rows, 0)) /\ published = sealed
                    /\ \A row \in After(rows, 0) : Passed(row)
  BY DEF CompleteIsDelivered, Passed
<1>1. /\ rows \in Seq(Events \cup {Nothing}) /\ Len(rows) \in Nat
      /\ published \in Nat /\ sealed \in Nat
  BY MetricTypes DEF MetricInv
<1> DEFINE all == After(rows, 0)
<1>2. all \in SUBSET Nat /\ 0 \notin all /\ \A i \in all : i <= Len(rows)
  BY <1>1, AfterIs
<1>3. /\ High(all) \in Nat /\ \A i \in all : i <= High(all)
      /\ all # {} => High(all) \in all
      /\ all = {} => High(all) = 0
  BY <1>1, <1>2, HighIs
<1>4. After(rows, sealed) = {} /\ After(rows, published) = {}
  BY DEF MetricInv, CountsOK, Unsent
<1>5. ASSUME NEW mark \in Nat, After(rows, mark) = {}, mark # 0 => mark \in all
      PROVE  (\A i \in all : i <= mark) /\ mark = High(all)
  <2>1. ASSUME NEW i \in all, ~(i <= mark)
        PROVE  FALSE
    <3>1. i \in 1..Len(rows) /\ i > mark /\ rows[i] # Nothing
      BY <1>1, <2>1, AfterStart
    <3> QED
      BY <1>1, <1>5, <3>1, AfterIs
  <2>2. CASE mark = 0
    <3>1. all = {}
      BY <1>2, <2>1, <2>2
    <3> QED
      BY <1>3, <2>2, <3>1
  <2>3. CASE mark # 0
    BY <1>2, <1>3, <1>5, <2>1, <2>3
  <2> QED
    BY <2>1, <2>2, <2>3
<1>6. (sealed # 0 => sealed \in all) /\ (published # 0 => published \in all)
  BY DEF MetricInv, MarksOK
<1>7. sealed = High(all) /\ published = High(all) /\ \A i \in all : i <= published
  BY <1>1, <1>4, <1>5, <1>6
<1>8. sdk = <<>>
  BY DEF MetricInv, PlaceOK
<1>9. \A row \in all : Passed(row)
  <2>1. \A row \in all : Passed(row) \/ InSdk(row)
    BY <1>7 DEF MetricInv, DeliveryOK, Held
  <2> QED
    BY <1>8, <2>1 DEF InSdk
<1> QED
  BY <1>7, <1>9

\* When an attempt archives its journal, every row is sealed and published, and W&B has
\* every event but those it had already passed when the ledger was rebuilt and those a
\* client took with it when the ledger survived: for any number of events, attempts and
\* faults, as long as a segment is at least two publications.
THEOREM CompletionDelivers == MetricSpec => []CompleteIsDelivered
BY MetricInvariance, InvCompletes, PTL
=============================================================================
