---------------------------- MODULE WriterLease ----------------------------
(***************************************************************************)
(* The writer lease of a logical run (RunAuthority.acquire_lease,          *)
(* renew_lease, release_lease), used by three kinds of process: the        *)
(* training supervisor, which renews at the start of every iteration, the  *)
(* operator command that reconciles an orphan attempt, which releases when *)
(* it is done, and the post-training batch evaluator, which renews or      *)
(* re-acquires before each write.                                          *)
(*                                                                         *)
(* The lease is one object of the control bucket.  The bucket offers GET,  *)
(* HEAD, conditional PUT and conditional DELETE, each atomic; an etag is a *)
(* function of the object's content, so a document stands for its etag.    *)
(***************************************************************************)
EXTENDS Integers

CONSTANTS
  Supervisors, Operators, Evaluators,  \* holder ids (fresh per process), by role
  None,          \* no holder
  TTL,           \* LEASE_TTL_SECONDS
  RenewEvery,    \* LEASE_RENEW_SECONDS
  MaxMisses,     \* LEASE_MISSES_BEFORE_STOP
  MaxGap,        \* the delay between two looks at a lease the properties excuse
  Skew,          \* Skew[h]: how far h's wall clock is ahead of real time
  MaxSkew,       \* bound on Skew
  MaxTime,       \* bound on real time
  MaxGen         \* bound on the generation counter

Holders == Supervisors \cup Operators \cup Evaluators

ASSUME RolesAssumption ==
  /\ Supervisors \cap Operators = {}
  /\ Supervisors \cap Evaluators = {}
  /\ Operators \cap Evaluators = {}
  /\ None \notin Holders

ASSUME TimeAssumption ==
  /\ TTL \in Nat /\ RenewEvery \in Nat \ {0} /\ MaxGap \in Nat /\ MaxSkew \in Nat
  /\ MaxTime \in Nat /\ MaxGen \in Nat
  /\ MaxMisses = 2
  /\ Skew \in [Holders -> 0..MaxSkew]

\* What TTL = 60, RENEW = 15 and two misses buy.  MaxGap is a parameter of the
\* properties alone: nothing in the code, and no action here, keeps a process from
\* spending more than MaxGap between two looks; the properties say what holds of
\* the processes that have not (see Overdue).
ASSUME BudgetAssumption == RenewEvery + 4 * MaxGap + MaxSkew <= TTL

VARIABLES
  now,          \* real time
  lease,        \* writer-lease.json, or NoDoc
  pc,           \* where each process is
  seen,         \* the document acquire_lease read with GET
  etag,         \* the document whose etag acquire_lease read with HEAD
  instant,      \* the wall-clock reading the call under way started with
  local,        \* the Lease object the process holds
  lastRenewal,  \* last_lease_renewal
  misses,       \* lease_misses
  checkedAt,    \* when the process last looked at its lease
  late,         \* history: who once stayed away more than MaxGap since its last
                \*   acquisition or renewal
  tookUnread    \* history: an acquisition replaced a document it never read

vars == <<now, lease, pc, seen, etag, instant, local, lastRenewal, misses,
          checkedAt, late, tookUnread>>

Doc == [holder : Holders, gen : Nat, expires : Nat]
NoDoc == [holder |-> None, gen |-> 0, expires |-> 0]

Clock(h) == now + Skew[h]

\* Phases in which the process is inside a lease call or writes under its lease.
Busy == {"read", "headed", "renewing", "working"}
Phases == Busy \cup {"closing", "idle", "done"}

\* The processes that write durable run state now.  A supervisor that lost its
\* lease ("closing") has a receipt to create yet (see LastReceipt).
Writers == {h \in Holders : pc[h] \in {"working", "closing"}}

\* More than MaxGap has passed since the process looked at its lease, or once
\* passed since it got or renewed it.
Away(h) == now > checkedAt[h] + MaxGap
Overdue(h) == h \in late \/ Away(h)

\* A look at the lease: the time of it, and whether it came late.
Look(h) ==
  /\ checkedAt' = [checkedAt EXCEPT ![h] = now]
  /\ late' = IF Away(h) THEN late \cup {h} ELSE late

\* The locals of a call under way die with it, and those of a process with the
\* process.
EndCall(h) ==
  /\ seen' = [seen EXCEPT ![h] = NoDoc]
  /\ etag' = [etag EXCEPT ![h] = NoDoc]
  /\ instant' = [instant EXCEPT ![h] = 0]

EndProcess(h, phase) ==
  /\ pc' = [pc EXCEPT ![h] = phase]
  /\ local' = [local EXCEPT ![h] = NoDoc]
  /\ lastRenewal' = [lastRenewal EXCEPT ![h] = 0]
  /\ misses' = [misses EXCEPT ![h] = 0]
  /\ checkedAt' = [checkedAt EXCEPT ![h] = 0]
  /\ late' = late \ {h}
  /\ EndCall(h)

-----------------------------------------------------------------------------
(* acquire_lease *)

\* A new lease continues the generation it read.
NewLease(h) ==
  [holder |-> h, gen |-> seen[h].gen + 1, expires |-> instant[h] + TTL]

\* The lease a caller may not take: unexpired, and another holder's.  (The mutant
\* judges it by renewed_at.)
BuggyHeldByOther(h, doc) == doc.expires - TTL > instant[h] /\ doc.holder # h
HeldByOther(h, doc) == doc.expires > instant[h] /\ doc.holder # h

\* A call that raises ends a supervisor or an operator; a batch evaluator
\* reports "waiting_for_run_lease" and is advanced again later.
AcquireFails(h) ==
  IF h \in Evaluators
  THEN /\ pc' = [pc EXCEPT ![h] = "idle"]
       /\ EndCall(h)
       /\ UNCHANGED <<local, lastRenewal, misses, checkedAt, late>>
  ELSE EndProcess(h, "done")

\* The caller's clock reading and the GET.
AcquireRead(h) ==
  /\ pc[h] = "idle"
  /\ local[h] = NoDoc \/ local[h].expires <= Clock(h)
  /\ lease.gen < MaxGen
  /\ instant' = [instant EXCEPT ![h] = Clock(h)]
  /\ checkedAt' = [checkedAt EXCEPT ![h] = now]
  /\ late' = late \ {h}
  /\ seen' = [seen EXCEPT ![h] = lease]
  /\ pc' = [pc EXCEPT ![h] = "read"]
  /\ UNCHANGED <<now, lease, etag, local, lastRenewal, misses,
                 tookUnread>>

\* The HEAD that follows when there was a document: its etag is that of the
\* document stored now.  An object deleted in between raises; an unexpired lease
\* of another holder is refused.
AcquireHead(h) ==
  /\ pc[h] = "read"
  /\ IF (seen[h] # NoDoc /\ lease = NoDoc) \/ HeldByOther(h, seen[h])
     THEN AcquireFails(h)
     ELSE /\ etag' = [etag EXCEPT ![h] = IF seen[h] = NoDoc THEN NoDoc ELSE lease]
          /\ pc' = [pc EXCEPT ![h] = "headed"]
          /\ UNCHANGED <<seen, instant, local, lastRenewal, misses, checkedAt,
                         late>>
  /\ UNCHANGED <<now, lease, tookUnread>>

\* The conditional PUT: If-None-Match when nothing was read, If-Match otherwise.
AcquireMatches(h) == lease = etag[h]

AcquirePut(h) ==
  /\ pc[h] = "headed"
  /\ AcquireMatches(h)
  /\ lease' = NewLease(h)
  /\ tookUnread' = (tookUnread \/ lease # seen[h])
  /\ local' = [local EXCEPT ![h] = NewLease(h)]
  /\ lastRenewal' = [lastRenewal EXCEPT ![h] = now]
  /\ pc' = [pc EXCEPT ![h] = "working"]
  /\ EndCall(h)
  /\ UNCHANGED <<now, late, misses, checkedAt>>

\* The PUT took effect but its response did not arrive.
AcquirePutUnanswered(h) ==
  /\ pc[h] = "headed"
  /\ AcquireMatches(h)
  /\ lease' = NewLease(h)
  /\ tookUnread' = (tookUnread \/ lease # seen[h])
  /\ AcquireFails(h)
  /\ UNCHANGED now

\* The PUT conflicted, or failed without effect.
AcquirePutFailed(h) ==
  /\ pc[h] = "headed"
  /\ AcquireFails(h)
  /\ UNCHANGED <<now, lease, tookUnread>>

-----------------------------------------------------------------------------
(* renew_lease *)

Renewed(h) ==
  [holder |-> h, gen |-> local[h].gen + 1, expires |-> instant[h] + TTL]

\* RunSupervisor._renew_lease counts a failed renewal and gives up at MaxMisses;
\* the time of the last renewal stays, so the next iteration tries again.  A
\* supervisor that gives up looks no more, but is not done writing.  The batch
\* evaluator keeps its cached lease and tries again later.
GivesUp(h) == misses[h] + 1 >= MaxMisses

\* (The mutant counts no failure.)
BuggyRenewalFailed(h) ==
  /\ pc' = [pc EXCEPT ![h] = IF h \in Supervisors THEN "working" ELSE "idle"]
  /\ EndCall(h)
  /\ UNCHANGED <<local, lastRenewal, misses, checkedAt, late>>
RenewalFailed(h) ==
  /\ \/ /\ h \in Supervisors /\ GivesUp(h)
        /\ pc' = [pc EXCEPT ![h] = "closing"]
        /\ UNCHANGED misses
     \/ /\ h \in Supervisors /\ ~GivesUp(h)
        /\ pc' = [pc EXCEPT ![h] = "working"]
        /\ misses' = [misses EXCEPT ![h] = @ + 1]
     \/ /\ h \notin Supervisors
        /\ pc' = [pc EXCEPT ![h] = "idle"]
        /\ UNCHANGED misses
  /\ EndCall(h)
  /\ UNCHANGED <<local, lastRenewal, checkedAt, late>>

\* active_iteration, drain_iteration and the waits of finalization start with
\* _renew_lease: nothing to do yet, or a renewal.
RenewalDue(h) == now - lastRenewal[h] >= RenewEvery

BeginRenewal(h) ==
  /\ local[h].gen < MaxGen
  /\ instant' = [instant EXCEPT ![h] = Clock(h)]
  /\ pc' = [pc EXCEPT ![h] = "renewing"]
  /\ UNCHANGED <<seen, etag, local, lastRenewal, misses>>

Iterate(h) ==
  /\ h \in Supervisors
  /\ pc[h] = "working"
  /\ Look(h)
  /\ IF RenewalDue(h)
     THEN BeginRenewal(h)
     ELSE UNCHANGED <<pc, seen, etag, instant, local, lastRenewal, misses>>
  /\ UNCHANGED <<now, lease, tookUnread>>

\* ManualEvaluationService._lease with an unexpired lease in its cache.
EvaluatorRenew(h) ==
  /\ h \in Evaluators
  /\ pc[h] = "idle"
  /\ local[h].expires > Clock(h)
  /\ checkedAt' = [checkedAt EXCEPT ![h] = now]
  /\ late' = late \ {h}
  /\ BeginRenewal(h)
  /\ UNCHANGED <<now, lease, tookUnread>>

\* The refusal of a lease that the caller's clock says is expired, and If-Match.
RenewMatches(h) == local[h].expires > instant[h] /\ lease = local[h]

RenewPut(h) ==
  /\ pc[h] = "renewing"
  /\ RenewMatches(h)
  /\ lease' = Renewed(h)
  /\ local' = [local EXCEPT ![h] = Renewed(h)]
  /\ misses' = [misses EXCEPT ![h] = 0]
  /\ lastRenewal' = [lastRenewal EXCEPT ![h] = checkedAt[h]]
  /\ pc' = [pc EXCEPT ![h] = "working"]
  /\ late' = late \ {h}
  /\ EndCall(h)
  /\ UNCHANGED <<now, checkedAt, tookUnread>>

\* The renewal took effect but its response was lost: the etag held is stale.
RenewPutUnanswered(h) ==
  /\ pc[h] = "renewing"
  /\ RenewMatches(h)
  /\ lease' = Renewed(h)
  /\ RenewalFailed(h)
  /\ UNCHANGED <<now, tookUnread>>

RenewPutFailed(h) ==
  /\ pc[h] = "renewing"
  /\ RenewalFailed(h)
  /\ UNCHANGED <<now, lease, tookUnread>>

-----------------------------------------------------------------------------
(* release_lease, the end of a process, and time *)

\* release_lease deletes only the document whose etag the operator holds.
\* (The mutant deletes without If-Match.)
BuggyReleaseMatches(h) == TRUE
ReleaseMatches(h) == lease = local[h]

Release(h) ==
  /\ h \in Operators
  /\ pc[h] = "working"
  /\ lease' = IF ReleaseMatches(h) THEN NoDoc ELSE lease
  /\ EndProcess(h, "done")
  /\ UNCHANGED <<now, tookUnread>>

\* What a supervisor still writes when it has lost its lease: before finalization
\* run() waits for the learner and creates the attempt's early-stop receipt, and only
\* then looks at lease_lost; in finalization _lease_heartbeat raises, which counts
\* as the failure of an attempt whose receipt is created all the same.
LastReceipt(h) ==
  /\ pc[h] = "closing"
  /\ EndProcess(h, "done")
  /\ UNCHANGED <<now, lease, tookUnread>>

\* A batch evaluator finished the writes it renewed for.
FinishWrites(h) ==
  /\ h \in Evaluators
  /\ pc[h] = "working"
  /\ pc' = [pc EXCEPT ![h] = "idle"]
  /\ UNCHANGED <<now, lease, seen, etag, instant, local,
                 lastRenewal, misses, checkedAt, late, tookUnread>>

\* A process that returns leaves its lease to expire, as one that dies does.
Exit(h) ==
  /\ pc[h] # "done"
  /\ EndProcess(h, "done")
  /\ UNCHANGED <<now, lease, tookUnread>>

\* Time passes, whatever the processes are at.
Tick ==
  /\ now < MaxTime
  /\ now' = now + 1
  /\ UNCHANGED <<lease, pc, seen, etag, instant, local, lastRenewal, misses,
                 checkedAt, late, tookUnread>>

-----------------------------------------------------------------------------
Init ==
  /\ now = 0
  /\ lease = NoDoc
  /\ pc = [h \in Holders |-> "idle"]
  /\ seen = [h \in Holders |-> NoDoc]
  /\ etag = [h \in Holders |-> NoDoc]
  /\ instant = [h \in Holders |-> 0]
  /\ local = [h \in Holders |-> NoDoc]
  /\ lastRenewal = [h \in Holders |-> 0]
  /\ misses = [h \in Holders |-> 0]
  /\ checkedAt = [h \in Holders |-> 0]
  /\ late = {}
  /\ tookUnread = FALSE

Step(h) ==
  \/ AcquireRead(h) \/ AcquireHead(h)
  \/ AcquirePut(h) \/ AcquirePutUnanswered(h) \/ AcquirePutFailed(h)
  \/ Iterate(h) \/ EvaluatorRenew(h)
  \/ RenewPut(h) \/ RenewPutUnanswered(h) \/ RenewPutFailed(h)
  \/ Release(h) \/ LastReceipt(h) \/ FinishWrites(h) \/ Exit(h)

Next == Tick \/ \E h \in Holders : Step(h)

Spec == Init /\ [][Next]_vars

-----------------------------------------------------------------------------
(* Properties *)

TypeOK ==
  /\ now \in Nat
  /\ lease \in Doc \cup {NoDoc}
  /\ pc \in [Holders -> Phases]
  /\ seen \in [Holders -> Doc \cup {NoDoc}]
  /\ etag \in [Holders -> Doc \cup {NoDoc}]
  /\ instant \in [Holders -> Nat]
  /\ local \in [Holders -> Doc \cup {NoDoc}]
  /\ lastRenewal \in [Holders -> Nat]
  /\ misses \in [Holders -> 0..MaxMisses - 1]
  /\ checkedAt \in [Holders -> Nat]
  /\ late \subseteq Holders
  /\ tookUnread \in BOOLEAN

\* A process that has not been away from its lease for more than MaxGap writes
\* strictly before any participant's clock reaches the expiry of the lease it
\* believes in: two misses, a renewal whose answer was lost, a finalization that
\* goes on to the receipt without its lease, and the skew of the clocks together do
\* not outlast the TTL (_renew_lease).
WritesBeforeExpiry ==
  \A h \in Writers : Overdue(h) \/ now + MaxSkew < local[h].expires

\* "One writer": whoever writes still owns the lease object, unless it has been
\* away from its lease for more than MaxGap (an iteration, the close of W&B) or an
\* acquisition replaced a document it had not read (the gap between GET and HEAD in
\* acquire_lease).  So of two that write at once one is overdue.
WriterOwnsLease ==
  ~tookUnread => \A h \in Writers : Overdue(h) \/ lease.holder = h

\* While the lease object lives, every write of it raises the generation, unless
\* an acquisition replaced a document it had not read.
GenerationsIncrease ==
  [][(lease # NoDoc /\ lease' \notin {lease, NoDoc} /\ ~tookUnread')
       => lease'.gen > lease.gen]_vars

\* release_lease never removes a lease that is no longer the caller's: the object
\* disappears only when the very process it names ends its work (an operator's
\* reconciliation), never that of a supervisor that has taken the run over.
ReleaseRemovesOwn ==
  [][(lease # NoDoc /\ lease' = NoDoc)
       => LET h == lease.holder
          IN h \in Operators /\ pc[h] = "working" /\ pc'[h] = "done"]_vars

=============================================================================
