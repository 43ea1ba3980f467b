------------------------------ MODULE JobQueue ------------------------------
(***************************************************************************)
(* The local job queue of an operator's machine (job_queue.py).            *)
(*                                                                         *)
(* Jobs are rows of a SQLite database that every process on the machine    *)
(* opens.  A client (a CLI command, the play server) writes a request and  *)
(* calls ensure_flusher, which starts a worker process unless the lock     *)
(* file is held.  The worker that holds the lock file is the leader: it    *)
(* requeues what its predecessor left running, runs one job after another  *)
(* and exits when it has been idle and the queue is empty.  To find out    *)
(* whether there is a leader, a client takes the lock itself for a moment. *)
(*                                                                         *)
(* A step is one database transaction or one operation on the lock file.   *)
(* A client starts at most one worker, so a worker has its client's name.  *)
(***************************************************************************)
EXTENDS Naturals, FiniteSets

CONSTANTS Clients,    \* one call of a client each, and the worker it may start
          Jobs,       \* job ids, in the order of (created_at, job_id)
          Reports,    \* what handlers return: <<job state, subject state>>
          Progress,   \* the subject states handlers checkpoint
          MaxDeaths,  \* bound: processes that die
          None

ActiveStates == {"queued", "running", "retry_wait"}
TerminalStates == {"blocked", "succeeded", "failed", "canceled"}
JobStates == ActiveStates \cup TerminalStates

\* "submitted" stands for the states only handlers give: the queue treats them alike.
ActiveSubjects == {"queued", "running", "retry_wait", "submitted"}
TerminalSubjects == TerminalStates \cup {"accepted", "rejected", "expired"}
SubjectStates == ActiveSubjects \cup TerminalSubjects

Absent == "absent"
Unreported == "unreported"

ASSUME JobsAssumption == Jobs \subseteq Nat
ASSUME ReportsAssumption ==
    Reports \subseteq ((TerminalStates \cup {"retry_wait"}) \ {"canceled"})
                          \X (SubjectStates \cup {Unreported})
ASSUME ProgressAssumption == Progress \subseteq SubjectStates
ASSUME NoneAssumption == None \notin Clients /\ None \notin Jobs

VARIABLES
    job,         \* jobs.state, or Absent
    subject,     \* the state of the job's subject
    canceled,    \* jobs.cancel_requested
    due,         \* available_at has passed
    txn,         \* the worker that has the database locked across two steps, or None
    generation,  \* worker_state.generation
    flock,       \* who holds the lock file: a worker, a probing client, nobody
    wpc,         \* where each worker stands
    current,     \* the job a worker advances, or None
    seen,        \* the cancellation flag its handler was shown last
    cpc,         \* where each client stands
    why,         \* which probe of ensure_flusher the client makes
    told,        \* the answer of ensure_flusher
    lapse        \* history: since the last worker took the lock, a process died, a lock
                 \* attempt met a probe, or a client was told that no worker started

store == <<job, subject, canceled, due>>
worker == <<wpc, current, seen>>
client == <<cpc, why, told>>
vars == <<store, txn, generation, flock, worker, client, lapse>>

Unlocked == <<"nobody", None>>
WorkerLock(c) == <<"worker", c>>
ProbeLock(c) == <<"probe", c>>
MeetsProbe == flock[1] = "probe"

Unfinished(j) == job[j] \in ActiveStates
NoUnfinished == \A j \in Jobs : ~Unfinished(j)

\* Every store call writes in init() or takes the write lock.
Free == txn = None
-----------------------------------------------------------------------------
(* Requests                                                                *)

Queue(j, keep) ==
    /\ job' = [job EXCEPT ![j] = "queued"]
    /\ subject' = [subject EXCEPT ![j] = IF @ \in keep THEN @ ELSE "queued"]
    /\ canceled' = [canceled EXCEPT ![j] = FALSE]
    /\ due' = [due EXCEPT ![j] = TRUE]

\* A repeated request with the same idempotency key finds the row and leaves it.
Enqueue(j) ==
    IF job[j] = Absent THEN Queue(j, {}) ELSE UNCHANGED store

RetryKeeps == SubjectStates \ {"blocked", "failed", "expired", "canceled"}

Retry(j) ==
    /\ job[j] \in {"blocked", "failed", "canceled"}
    /\ Queue(j, RetryKeeps)

\* Verdicts stay.  (The mutant overwrites them.)
BuggyCancelKeeps == {}
CancelKeeps == {"accepted", "rejected", "failed"}

CancelWaiting(j) ==
    /\ job[j] \in {"queued", "retry_wait"}
    /\ job' = [job EXCEPT ![j] = "canceled"]
    /\ subject' = [subject EXCEPT ![j] = IF @ \in CancelKeeps THEN @ ELSE "canceled"]
    /\ canceled' = [canceled EXCEPT ![j] = TRUE]
    /\ UNCHANGED due

CancelRunning(j) ==
    /\ job[j] = "running"
    /\ canceled' = [canceled EXCEPT ![j] = TRUE]
    /\ UNCHANGED <<job, subject, due>>

CancelTerminal(j) == job[j] \in TerminalStates /\ UNCHANGED store

Cancel(j) == CancelWaiting(j) \/ CancelRunning(j) \/ CancelTerminal(j)

\* A client whose request is written goes on to ensure_flusher.
Ask(c, j) ==
    /\ cpc[c] = "idle" /\ Free
    /\ Enqueue(j) \/ Retry(j) \/ Cancel(j)
    /\ cpc' = [cpc EXCEPT ![c] = "check"]
    /\ UNCHANGED <<txn, generation, flock, worker, why, told, lapse>>

\* The play server cancels without looking for a worker.
CancelOnly(c, j) ==
    /\ cpc[c] = "idle" /\ Free
    /\ Cancel(j)
    /\ cpc' = [cpc EXCEPT ![c] = "done"]
    /\ UNCHANGED <<txn, generation, flock, worker, why, told, lapse>>
-----------------------------------------------------------------------------
(* ensure_flusher                                                          *)

Answer(c, answer) ==
    /\ cpc' = [cpc EXCEPT ![c] = "done"]
    /\ told' = [told EXCEPT ![c] = answer]

StartProbe(c, reason) ==
    /\ cpc' = [cpc EXCEPT ![c] = "probe"]
    /\ why' = [why EXCEPT ![c] = reason]

Check(c) ==
    /\ cpc[c] = "check" /\ Free
    /\ \/ NoUnfinished /\ Answer(c, "already_running") /\ UNCHANGED why
       \/ ~NoUnfinished /\ StartProbe(c, "first") /\ UNCHANGED told
    /\ UNCHANGED <<store, txn, generation, flock, worker, lapse>>

\* lock_is_held takes the lock without waiting ...
ProbeTakes(c) ==
    /\ cpc[c] = "probe" /\ flock = Unlocked
    /\ flock' = ProbeLock(c)
    /\ cpc' = [cpc EXCEPT ![c] = "held"]
    /\ UNCHANGED <<store, txn, generation, worker, why, told, lapse>>

\* ... or takes whoever holds it for a worker.
ProbeFindsHolder(c) ==
    /\ cpc[c] = "probe" /\ flock # Unlocked
    /\ Answer(c, IF why[c] = "ack" THEN "started" ELSE "already_running")
    /\ lapse' = (lapse \/ MeetsProbe)
    /\ UNCHANGED <<store, txn, generation, flock, worker, why>>

\* (The mutant forgets to give the lock back.)
BuggyProbeReleases(c) ==
    /\ cpc[c] = "held"
    /\ cpc' = [cpc EXCEPT ![c] = "spawn"]
    /\ UNCHANGED <<store, txn, generation, flock, worker, why, told, lapse>>
ProbeReleases(c) ==
    /\ cpc[c] = "held"
    /\ flock' = Unlocked
    /\ \/ /\ why[c] \in {"first", "ack"}
          /\ cpc' = [cpc EXCEPT ![c] = IF why[c] = "first" THEN "spawn" ELSE "acked"]
          /\ UNCHANGED <<told, lapse>>
       \/ /\ why[c] \in {"exit", "timeout"}
          /\ Answer(c, "start_failed")
          /\ lapse' = TRUE
    /\ UNCHANGED <<store, txn, generation, worker, why>>

Spawn(c) ==
    /\ cpc[c] = "spawn"
    /\ wpc' = [wpc EXCEPT ![c] = "starting"]
    /\ cpc' = [cpc EXCEPT ![c] = "waiting"]
    /\ UNCHANGED <<store, txn, generation, flock, current, seen, why, told, lapse>>

SpawnFails(c) ==
    /\ cpc[c] = "spawn" /\ Free
    /\ Answer(c, "start_failed")
    /\ lapse' = TRUE
    /\ UNCHANGED <<store, txn, generation, flock, worker, why>>

Ended(c) == wpc[c] \in {"exited", "refused", "dead"}

\* (The mutant takes any worker's heartbeat for its own.)
BuggySeeAcknowledged(c) ==
    /\ cpc[c] = "waiting" /\ Free
    /\ generation # None
    /\ StartProbe(c, "ack")
    /\ UNCHANGED <<store, txn, generation, flock, worker, told, lapse>>
SeeAcknowledged(c) ==
    /\ cpc[c] = "waiting" /\ Free
    /\ generation = c
    /\ StartProbe(c, "ack")
    /\ UNCHANGED <<store, txn, generation, flock, worker, told, lapse>>

\* The worker was there, but the lock is free: it may have drained the queue already.
Acknowledged(c) ==
    /\ cpc[c] = "acked" /\ Free
    /\ \/ /\ wpc[c] = "exited" /\ NoUnfinished
          /\ Answer(c, "started")
          /\ UNCHANGED why
       \/ /\ Ended(c) /\ ~(wpc[c] = "exited" /\ NoUnfinished)
          /\ StartProbe(c, "exit")
          /\ UNCHANGED told
       \/ /\ ~Ended(c)
          /\ cpc' = [cpc EXCEPT ![c] = "waiting"]
          /\ UNCHANGED <<why, told>>
    /\ UNCHANGED <<store, txn, generation, flock, worker, lapse>>

SeeExit(c) ==
    /\ cpc[c] = "waiting" /\ generation # c
    /\ Ended(c)
    /\ StartProbe(c, "exit")
    /\ UNCHANGED <<store, txn, generation, flock, worker, told, lapse>>

StartTimeout(c) ==
    /\ cpc[c] = "waiting"
    /\ StartProbe(c, "timeout")
    /\ UNCHANGED <<store, txn, generation, flock, worker, told, lapse>>

\* "jobs flush": the client's own process is the worker.
Flush(c) ==
    /\ cpc[c] = "idle"
    /\ cpc' = [cpc EXCEPT ![c] = "done"]
    /\ wpc' = [wpc EXCEPT ![c] = "starting"]
    /\ UNCHANGED <<store, txn, generation, flock, current, seen, why, told, lapse>>

\* Where a client still owes the job it asked for a worker.
Owes(c) ==
    \/ cpc[c] \in {"check", "spawn"}
    \/ cpc[c] \in {"probe", "held"} /\ why[c] = "first"

MayDie ==
    Cardinality({c \in Clients : cpc[c] = "gone"})
        + Cardinality({c \in Clients : wpc[c] = "dead"}) < MaxDeaths

ClientDies(c) ==
    /\ cpc[c] \notin {"idle", "done", "gone"} /\ MayDie
    /\ cpc' = [cpc EXCEPT ![c] = "gone"]
    /\ flock' = IF flock = ProbeLock(c) THEN Unlocked ELSE flock
    /\ lapse' = (lapse \/ Owes(c))
    /\ UNCHANGED <<store, txn, generation, worker, why, told>>
-----------------------------------------------------------------------------
(* run_flusher                                                             *)

\* The lock is taken without waiting, whoever holds it.
TakeLock(c) ==
    /\ wpc[c] = "starting" /\ flock = Unlocked
    /\ flock' = WorkerLock(c)
    /\ wpc' = [wpc EXCEPT ![c] = "recovering"]
    /\ lapse' = FALSE
    /\ UNCHANGED <<store, txn, generation, current, seen, client>>

Refused(c) ==
    /\ wpc[c] = "starting" /\ flock # Unlocked
    /\ wpc' = [wpc EXCEPT ![c] = "refused"]
    /\ lapse' = (lapse \/ MeetsProbe)
    /\ UNCHANGED <<store, txn, generation, flock, current, seen, client>>

\* (The mutant leaves a job that was canceled meanwhile as it is.)
BuggyRecover(c) ==
    /\ wpc[c] = "recovering" /\ Free
    /\ job' = [j \in Jobs |-> IF job[j] = "running" /\ ~canceled[j] THEN "queued" ELSE job[j]]
    /\ wpc' = [wpc EXCEPT ![c] = "registering"]
    /\ UNCHANGED <<subject, canceled, due, txn, generation, flock, current, seen, client, lapse>>
Recover(c) ==
    /\ wpc[c] = "recovering" /\ Free
    /\ job' = [j \in Jobs |-> IF job[j] = "running" THEN "queued" ELSE job[j]]
    /\ due' = [j \in Jobs |-> due[j] \/ job[j] = "running"]
    /\ subject' = [j \in Jobs |-> IF job[j] = "running" /\ subject[j] = "running"
                                  THEN "queued" ELSE subject[j]]
    /\ wpc' = [wpc EXCEPT ![c] = "registering"]
    /\ UNCHANGED <<canceled, txn, generation, flock, current, seen, client, lapse>>

Register(c) ==
    /\ wpc[c] = "registering" /\ Free
    /\ generation' = c
    /\ wpc' = [wpc EXCEPT ![c] = "claiming"]
    /\ UNCHANGED <<store, txn, flock, current, seen, client, lapse>>

Claimable(j) == job[j] \in {"queued", "retry_wait"} /\ due[j]
Oldest(j) == \A i \in Jobs : Claimable(i) => j <= i

Claim(c, j) ==
    /\ wpc[c] = "claiming" /\ Free
    /\ Claimable(j) /\ Oldest(j)
    /\ job' = [job EXCEPT ![j] = "running"]
    /\ subject' = [subject EXCEPT ![j] = IF @ \in {"queued", "retry_wait"}
                                         THEN "running" ELSE @]
    /\ wpc' = [wpc EXCEPT ![c] = "advancing"]
    /\ current' = [current EXCEPT ![c] = j]
    /\ seen' = [seen EXCEPT ![c] = canceled[j]]
    /\ UNCHANGED <<canceled, due, txn, generation, flock, client, lapse>>

ClaimNothing(c) ==
    /\ wpc[c] = "claiming" /\ Free
    /\ \A j \in Jobs : ~Claimable(j)
    /\ wpc' = [wpc EXCEPT ![c] = "idle"]
    /\ UNCHANGED <<store, txn, generation, flock, current, seen, client, lapse>>

\* A handler persists progress and learns whether its job was canceled meanwhile.
Checkpoint(c, s) ==
    /\ wpc[c] = "advancing" /\ ~seen[c] /\ Free
    /\ subject' = [subject EXCEPT ![current[c]] = s]
    /\ seen' = [seen EXCEPT ![c] = canceled[current[c]]]
    /\ UNCHANGED <<job, canceled, due, txn, generation, flock, wpc, current, client, lapse>>

\* The subjects a handler leaves under way end as their job.  (The mutant leaves them.)
BuggySettle(s, state) == s
Settle(s, state) ==
    IF s \in ActiveSubjects /\ state \in TerminalStates THEN state ELSE s

Store(j, state, s) ==
    /\ job' = [job EXCEPT ![j] = state]
    /\ due' = [due EXCEPT ![j] = state # "retry_wait"]
    /\ subject' = [subject EXCEPT ![j] =
                      Settle(IF s = Unreported THEN @ ELSE s, state)]
    /\ UNCHANGED canceled

\* A handler that saw the flag may report the cancellation; an exception is a failure.
Returns(c) ==
    Reports \cup {<<"failed", Unreported>>}
            \cup (IF seen[c] THEN {<<"canceled", Unreported>>} ELSE {})

Finish(c, report) ==
    /\ wpc[c] = "advancing" /\ Free
    /\ job[current[c]] = "running"
    /\ Store(current[c], report[1], report[2])
    /\ wpc' = [wpc EXCEPT ![c] = "claiming"]
    /\ current' = [current EXCEPT ![c] = None]
    /\ seen' = [seen EXCEPT ![c] = FALSE]
    /\ UNCHANGED <<txn, generation, flock, client, lapse>>

Waiting == \E j \in Jobs : job[j] \in {"queued", "retry_wait"}

\* Sleeping for a poll: a job waits for its time, or the idle time has not passed.
Sleep(c) ==
    /\ wpc[c] = "idle" /\ Free
    /\ wpc' = [wpc EXCEPT ![c] = "claiming"]
    /\ UNCHANGED <<store, txn, generation, flock, current, seen, client, lapse>>

IdleOver(c) ==
    /\ wpc[c] = "idle" /\ Free /\ ~Waiting
    /\ wpc' = [wpc EXCEPT ![c] = "closing"]
    /\ UNCHANGED <<store, txn, generation, flock, current, seen, client, lapse>>

\* (The mutants: the database is not kept locked; an idle worker leaves without looking.)
UnfencedLastLook(c) ==
    /\ wpc[c] = "closing" /\ Free
    /\ wpc' = [wpc EXCEPT ![c] = IF NoUnfinished THEN "leaving" ELSE "claiming"]
    /\ UNCHANGED <<store, txn, generation, flock, current, seen, client, lapse>>
BlindLastLook(c) ==
    /\ wpc[c] = "closing" /\ Free
    /\ txn' = c
    /\ wpc' = [wpc EXCEPT ![c] = "leaving"]
    /\ UNCHANGED <<store, generation, flock, current, seen, client, lapse>>

\* The last look at the queue keeps the database locked until the lock file is free.
LastLook(c) ==
    /\ wpc[c] = "closing" /\ Free
    /\ \/ /\ NoUnfinished
          /\ txn' = c
          /\ wpc' = [wpc EXCEPT ![c] = "leaving"]
       \/ /\ ~NoUnfinished
          /\ wpc' = [wpc EXCEPT ![c] = "claiming"]
          /\ UNCHANGED txn
    /\ UNCHANGED <<store, generation, flock, current, seen, client, lapse>>

Unlock(c) ==
    /\ wpc[c] = "leaving"
    /\ flock' = Unlocked
    /\ wpc' = [wpc EXCEPT ![c] = "unlocked"]
    /\ UNCHANGED <<store, txn, generation, current, seen, client, lapse>>

Commit(c) ==
    /\ wpc[c] = "unlocked"
    /\ txn' = None
    /\ wpc' = [wpc EXCEPT ![c] = "exited"]
    /\ UNCHANGED <<store, generation, flock, current, seen, client, lapse>>

\* A worker is killed, or a store call of its loop raises.
WorkerDies(c) ==
    /\ wpc[c] \notin {"off", "exited", "refused", "dead"} /\ MayDie
    /\ wpc' = [wpc EXCEPT ![c] = "dead"]
    /\ flock' = IF flock = WorkerLock(c) THEN Unlocked ELSE flock
    /\ txn' = IF txn = c THEN None ELSE txn
    /\ current' = [current EXCEPT ![c] = None]
    /\ seen' = [seen EXCEPT ![c] = FALSE]
    /\ lapse' = TRUE
    /\ UNCHANGED <<store, generation, client>>

\* available_at passes.
BecomesDue(j) ==
    /\ job[j] = "retry_wait" /\ ~due[j]
    /\ due' = [due EXCEPT ![j] = TRUE]
    /\ UNCHANGED <<job, subject, canceled, txn, generation, flock, worker, client, lapse>>
-----------------------------------------------------------------------------
Init ==
    /\ job = [j \in Jobs |-> Absent]
    /\ subject = [j \in Jobs |-> Absent]
    /\ canceled = [j \in Jobs |-> FALSE]
    /\ due = [j \in Jobs |-> FALSE]
    /\ txn = None /\ generation = None /\ flock = Unlocked
    /\ wpc = [c \in Clients |-> "off"]
    /\ current = [c \in Clients |-> None]
    /\ seen = [c \in Clients |-> FALSE]
    /\ cpc = [c \in Clients |-> "idle"]
    /\ why = [c \in Clients |-> "first"]
    /\ told = [c \in Clients |-> "nothing"]
    /\ lapse = FALSE

ClientStep(c) ==
    \/ Check(c) \/ ProbeTakes(c) \/ ProbeFindsHolder(c) \/ ProbeReleases(c)
    \/ Spawn(c) \/ SpawnFails(c)
    \/ SeeAcknowledged(c) \/ Acknowledged(c) \/ SeeExit(c) \/ StartTimeout(c)

WorkerStep(c) ==
    \/ TakeLock(c) \/ Refused(c) \/ Recover(c) \/ Register(c)
    \/ \E j \in Jobs : Claim(c, j)
    \/ ClaimNothing(c)
    \/ \E report \in Returns(c) : Finish(c, report)
    \/ Sleep(c) \/ IdleOver(c) \/ LastLook(c) \/ Unlock(c) \/ Commit(c)

Next ==
    \/ \E c \in Clients :
          \/ \E j \in Jobs : Ask(c, j) \/ CancelOnly(c, j)
          \/ Flush(c)
          \/ ClientStep(c) \/ ClientDies(c)
          \/ WorkerStep(c) \/ WorkerDies(c)
          \/ \E s \in Progress : Checkpoint(c, s)
    \/ \E j \in Jobs : BecomesDue(j)

Spec == Init /\ [][Next]_vars

(***************************************************************************)
(* Processes are scheduled, handlers return, available_at and the idle     *)
(* time pass (idle_since outlives the rounds of the loop, hence the strong *)
(* fairness).  Nothing is assumed of which job is claimed: claim_next      *)
(* takes the oldest that is due, so retries may pass over a younger one.   *)
(***************************************************************************)
Fairness ==
    /\ \A c \in Clients :
          /\ WF_vars(ClientStep(c))
          /\ WF_vars(WorkerStep(c))
          /\ SF_vars(IdleOver(c))
    /\ \A j \in Jobs : WF_vars(BecomesDue(j))

FairSpec == Spec /\ Fairness
-----------------------------------------------------------------------------
(* Properties                                                              *)

BeforeLoop == {"starting", "recovering", "registering"}
InLoop == {"claiming", "advancing", "idle", "closing"}
Leading == {"recovering", "registering", "leaving"} \cup InLoop

\* Every variable has a value the code can give it.
TypeOK ==
    /\ job \in [Jobs -> JobStates \cup {Absent}]
    /\ subject \in [Jobs -> SubjectStates \cup {Absent}]
    /\ canceled \in [Jobs -> BOOLEAN] /\ due \in [Jobs -> BOOLEAN]
    /\ txn \in Clients \cup {None} /\ generation \in Clients \cup {None}
    /\ flock \in {Unlocked} \cup ({"worker", "probe"} \X Clients)
    /\ wpc \in [Clients -> {"off", "unlocked", "exited", "refused", "dead"}
                              \cup BeforeLoop \cup Leading]
    /\ current \in [Clients -> Jobs \cup {None}] /\ seen \in [Clients -> BOOLEAN]
    /\ cpc \in [Clients -> {"idle", "check", "probe", "held", "spawn", "waiting",
                              "acked", "done", "gone"}]
    /\ why \in [Clients -> {"first", "ack", "exit", "timeout"}]
    /\ told \in [Clients -> {"nothing", "already_running", "started", "start_failed"}]
    /\ lapse \in BOOLEAN

\* A worker that has not yet taken its last look at the queue.
WorkerPresent == \E c \in Clients : wpc[c] \in BeforeLoop \cup InLoop

\* No unfinished job is left without a worker, present or about to be started by a
\* client, whatever enqueue, probe and exit do to each other: only after a process died,
\* a probe was taken for a worker, or a client was told that none started.
\* (LastLook, Unlock, Commit against Enqueue, ProbeTakes, ProbeFindsHolder.)
Attended ==
    NoUnfinished \/ WorkerPresent \/ (\E c \in Clients : Owes(c)) \/ lapse

\* A job is running when the leader advances it and at no other time, so finish and
\* checkpoint never find their job in another state, no job has two workers and a
\* predecessor's work is taken up.
RunningIsAdvanced ==
    \A c \in Clients : wpc[c] \in InLoop \cup {"leaving"} =>
        {j \in Jobs : job[j] = "running"} = {current[c]} \ {None}

\* A job that has ended has no subject that is shown as under way, whether the handler,
\* a cancellation or an exception ended it.
SubjectsSettled ==
    \A j \in Jobs : job[j] \in TerminalStates => subject[j] \in TerminalSubjects

\* A job is canceled only if someone asked for it since it was last queued by a request,
\* across workers that die between the request and the handler's report.
CanceledIsAsked ==
    \A j \in Jobs : job[j] = "canceled" => canceled[j]

\* "started" is said only of a worker that led, even if it has ended by now.
StartedLed ==
    \A c \in Clients : told[c] = "started" =>
        wpc[c] \in {"claiming", "advancing", "idle", "closing", "leaving", "unlocked",
                     "exited", "dead"}

\* The verdict on a subject is changed by the handler of a running job alone: not by a
\* cancellation, a retry, a recovery or a claim.
VerdictsStand ==
    [][\A j \in Jobs : subject[j] \in {"accepted", "rejected"} /\ job[j] # "running"
           => subject'[j] = subject[j]]_vars

Older(j) == {i \in Jobs : i < j}

\* A queued job is claimed or canceled in the end; if it never is, a worker or the client
\* that was to start one was lost, or older jobs are put off and claimed again for ever.
\* (claim_next, run_flusher, ensure_flusher.)
QueuedIsServed ==
    \A j \in Jobs :
        \/ []<>(job[j] # "queued" \/ lapse)
        \/ /\ []<>(\E i \in Older(j) : job[i] = "running")
           /\ []<>(\E i \in Older(j) : job[i] = "retry_wait")

\* A worker exits when no work remains, and does not keep others from starting.
WorkersExit ==
    (NoUnfinished /\ flock # Unlocked) ~> (~NoUnfinished \/ flock = Unlocked)
=============================================================================
