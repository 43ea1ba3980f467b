--------------------------- MODULE JobQueue_proofs ---------------------------
(***************************************************************************)
(* Proofs about JobQueue for every set of clients and jobs and whatever    *)
(* handlers report.                                                        *)
(***************************************************************************)
EXTENDS JobQueue, TLAPS

USE NoneAssumption, ReportsAssumption, ProgressAssumption

Phases == {"off", "unlocked", "exited", "refused", "dead"} \cup BeforeLoop \cup Leading
Places == {"idle", "check", "probe", "held", "spawn", "waiting", "acked", "done", "gone"}
Reasons == {"first", "ack", "exit", "timeout"}
Answers == {"nothing", "already_running", "started", "start_failed"}

StoreOK ==
    /\ job \in [Jobs -> JobStates \cup {Absent}]
    /\ subject \in [Jobs -> SubjectStates \cup {Absent}]
    /\ canceled \in [Jobs -> BOOLEAN]
    /\ due \in [Jobs -> BOOLEAN]

ClientOK ==
    /\ cpc \in [Clients -> Places]
    /\ why \in [Clients -> Reasons]
    /\ told \in [Clients -> Answers]

WorkerOK ==
    /\ wpc \in [Clients -> Phases]
    /\ current \in [Clients -> Jobs \cup {None}]
    /\ seen \in [Clients -> BOOLEAN]
    /\ \A c \in Clients : wpc[c] = "advancing" => current[c] \in Jobs

LockOK ==
    /\ txn \in Clients \cup {None}
    /\ generation \in Clients \cup {None}
    /\ flock \in {Unlocked} \cup ({"worker", "probe"} \X Clients)
    /\ lapse \in BOOLEAN

Typed == StoreOK /\ ClientOK /\ WorkerOK /\ LockOK

LEMMA TypeParts == Typed => TypeOK
BY DEF Typed, TypeOK, StoreOK, ClientOK, WorkerOK, LockOK, Phases, Places, Reasons, Answers

-----------------------------------------------------------------------------
(* What the steps change                                                   *)

LEMMA RequestTyped ==
  ASSUME StoreOK, NEW j \in Jobs, Enqueue(j) \/ Retry(j) \/ Cancel(j)
  PROVE  StoreOK'
BY DEF StoreOK, Enqueue, Retry, Cancel, Queue, RetryKeeps, CancelKeeps, CancelWaiting,
       CancelRunning, CancelTerminal, store, JobStates, ActiveStates, TerminalStates,
       SubjectStates, ActiveSubjects, TerminalSubjects, Absent

LEMMA ClientTyped ==
  ASSUME Typed, NEW c \in Clients, ClientStep(c) \/ ClientDies(c) \/ Flush(c)
  PROVE  Typed'
<1> USE DEF Typed, StoreOK, ClientOK, LockOK, Places, Reasons, Answers, store, worker
<1>1. CASE Check(c)
  BY <1>1 DEF Check, Answer, StartProbe, WorkerOK
<1>2. CASE ProbeTakes(c)
  BY <1>2 DEF ProbeTakes, ProbeLock, WorkerOK
<1>9. CASE ProbeFindsHolder(c)
  BY <1>9 DEF ProbeFindsHolder, Answer, WorkerOK
<1>10. CASE ProbeReleases(c)
  BY <1>10 DEF ProbeReleases, Answer, WorkerOK
<1>3. CASE SpawnFails(c)
  BY <1>3 DEF SpawnFails, Answer, WorkerOK
<1>4. CASE Spawn(c) \/ Flush(c)
  BY <1>4 DEF Spawn, Flush, WorkerOK, Phases, BeforeLoop
<1>5. CASE SeeAcknowledged(c) \/ Acknowledged(c) \/ SeeExit(c) \/ StartTimeout(c)
  BY <1>5 DEF SeeAcknowledged, Acknowledged, SeeExit, StartTimeout, Answer, StartProbe, WorkerOK
<1>6. CASE ClientDies(c)
  <2>1. flock' \in {Unlocked} \cup ({"worker", "probe"} \X Clients)
    BY <1>6 DEF ClientDies
  <2> QED
    BY <1>6, <2>1 DEF ClientDies, WorkerOK
<1> QED
  BY <1>1, <1>2, <1>3, <1>4, <1>5, <1>6, <1>9, <1>10 DEF ClientStep

LEMMA WorkerTyped ==
  ASSUME Typed, NEW c \in Clients,
         WorkerStep(c) \/ WorkerDies(c) \/ \E s \in Progress : Checkpoint(c, s)
  PROVE  Typed'
<1> USE DEF Typed, WorkerOK, LockOK, Phases, BeforeLoop, Leading, InLoop, store, client
<1>1. CASE TakeLock(c)
  BY <1>1 DEF TakeLock, WorkerLock, StoreOK, ClientOK
<1>9. CASE Refused(c)
  BY <1>9 DEF Refused, StoreOK, ClientOK
<1>2. CASE Recover(c)
  BY <1>2 DEF Recover, StoreOK, ClientOK, JobStates, ActiveStates, SubjectStates, ActiveSubjects
<1>3. CASE Register(c) \/ ClaimNothing(c) \/ Sleep(c) \/ IdleOver(c)
  BY <1>3 DEF Register, ClaimNothing, Sleep, IdleOver, StoreOK, ClientOK
<1>4. ASSUME NEW j \in Jobs, Claim(c, j) PROVE Typed'
  BY <1>4 DEF Claim, StoreOK, ClientOK, JobStates, ActiveStates, SubjectStates, ActiveSubjects
<1>5. ASSUME NEW report \in Returns(c), Finish(c, report) PROVE Typed'
  <2>1. current[c] \in Jobs \cup {None} /\ wpc' \in [Clients -> Phases]
        /\ current' \in [Clients -> Jobs \cup {None}] /\ seen' \in [Clients -> BOOLEAN]
    BY <1>5 DEF Finish
  <2>2. report[1] \in TerminalStates \cup {"retry_wait"}
        /\ report[2] \in SubjectStates \cup {Unreported}
    BY DEF Returns, TerminalStates
  <2>3. StoreOK'
    <3>1. job' \in [Jobs -> JobStates \cup {Absent}] /\ due' \in [Jobs -> BOOLEAN]
          /\ canceled' \in [Jobs -> BOOLEAN]
      BY <1>5, <2>2 DEF Finish, Store, StoreOK, JobStates, ActiveStates
    <3>2. ASSUME NEW s \in SubjectStates \cup {Absent}
          PROVE  Settle(s, report[1]) \in SubjectStates \cup {Absent}
      BY <2>2 DEF Settle, SubjectStates, TerminalSubjects, ActiveSubjects
    <3>3. subject' \in [Jobs -> SubjectStates \cup {Absent}]
      BY <1>5, <2>2, <3>2 DEF Finish, Store, StoreOK
    <3> QED
      BY <3>1, <3>3 DEF StoreOK
  <2> QED
    BY <1>5, <2>1, <2>3 DEF Finish, ClientOK
<1>6. CASE LastLook(c) \/ Unlock(c) \/ Commit(c)
  BY <1>6 DEF LastLook, Unlock, Commit, StoreOK, ClientOK
<1>7. CASE WorkerDies(c)
  BY <1>7 DEF WorkerDies, StoreOK, ClientOK
<1>8. ASSUME NEW s \in Progress, Checkpoint(c, s) PROVE Typed'
  BY <1>8 DEF Checkpoint, StoreOK, ClientOK
<1> QED
  BY <1>1, <1>2, <1>3, <1>4, <1>5, <1>6, <1>7, <1>8, <1>9 DEF WorkerStep

\* Every variable keeps its type.
LEMMA NextTyped == Typed /\ [Next]_vars => Typed'
<1> SUFFICES ASSUME Typed, [Next]_vars PROVE Typed'
  OBVIOUS
<1>1. ASSUME NEW c \in Clients, NEW j \in Jobs, Ask(c, j) \/ CancelOnly(c, j) PROVE Typed'
  <2>1. StoreOK'
    BY <1>1, RequestTyped DEF Typed, Ask, CancelOnly
  <2> QED
    BY <1>1, <2>1 DEF Typed, Ask, CancelOnly, ClientOK, WorkerOK, LockOK, Places, worker
<1>2. ASSUME NEW j \in Jobs, BecomesDue(j) PROVE Typed'
  BY <1>2 DEF Typed, BecomesDue, StoreOK, ClientOK, WorkerOK, LockOK, worker, client
<1>3. CASE UNCHANGED vars
  BY <1>3 DEF vars, store, worker, client, Typed, StoreOK, ClientOK, WorkerOK, LockOK
<1> QED
  BY <1>1, <1>2, <1>3, ClientTyped, WorkerTyped DEF Next

LEMMA InitTyped == Init => Typed
<1> SUFFICES ASSUME Init PROVE Typed
  OBVIOUS
<1>1. StoreOK
  BY DEF Init, StoreOK
<1>2. ClientOK
  BY DEF Init, ClientOK, Places, Reasons, Answers
<1>3. WorkerOK
  BY DEF Init, WorkerOK, Phases
<1>4. LockOK
  BY DEF Init, LockOK
<1> QED
  BY <1>1, <1>2, <1>3, <1>4 DEF Typed

THEOREM TypeCorrect == Spec => []TypeOK
BY InitTyped, NextTyped, TypeParts, PTL DEF Spec

-----------------------------------------------------------------------------
(* The inductive invariant                                                 *)

\* The lock file says who leads and who probes, the database who leaves; a client that
\* still owes its job a worker has not started one.
Positions ==
    /\ \A c \in Clients : wpc[c] \in Leading <=> flock = WorkerLock(c)
    /\ \A c \in Clients : cpc[c] = "held" <=> flock = ProbeLock(c)
    /\ \A c \in Clients : wpc[c] \in {"leaving", "unlocked"} <=> txn = c
    /\ \A c \in Clients : cpc[c] = "idle" \/ Owes(c) => wpc[c] = "off"

\* While the database is locked, what the last look saw stays true.
Drained == txn # None => NoUnfinished

\* A worker has a job when it advances it and only then.
Employed == \A c \in Clients : wpc[c] = "advancing" <=> current[c] # None

\* RunningIsAdvanced for one worker and one job, from its recovery on.
RunningWhere ==
    \A c \in Clients, j \in Jobs :
        wpc[c] \in InLoop \cup {"leaving", "registering"} =>
            (job[j] = "running" <=> j = current[c])

\* A handler that saw the flag runs a job for which it was set.
SeenIsAsked ==
    \A c \in Clients : wpc[c] = "advancing" /\ seen[c] => canceled[current[c]]

Asked == CanceledIsAsked /\ SeenIsAsked

\* Subjects exist with their job and end with it.
Known == \A j \in Jobs : job[j] = Absent <=> subject[j] = Absent
Settled == Known /\ SubjectsSettled

Led == (InLoop \cup {"leaving", "unlocked", "exited", "dead"})

\* A heartbeat, and an answer that rests on it, come from a worker that led.
Heartbeats ==
    \A c \in Clients : generation = c \/ why[c] = "ack" \/ told[c] = "started"
                          => wpc[c] \in Led

IInv ==
    /\ Typed /\ Positions /\ Drained /\ Employed
    /\ RunningWhere /\ Attended
    /\ Asked /\ Settled /\ Heartbeats

\* Two processes never hold the lock file at once.
LEMMA OneHolder ==
  ASSUME NEW c \in Clients, NEW d \in Clients
  PROVE  /\ WorkerLock(c) = WorkerLock(d) => c = d
         /\ ProbeLock(c) = ProbeLock(d) => c = d
         /\ WorkerLock(c) # ProbeLock(d)
         /\ WorkerLock(c) # Unlocked /\ ProbeLock(c) # Unlocked
BY DEF WorkerLock, ProbeLock, Unlocked

\* What a step of a client process leaves alone.
LEMMA ClientFrame ==
  ASSUME NEW c \in Clients, ClientStep(c) \/ ClientDies(c) \/ Flush(c)
  PROVE  /\ UNCHANGED <<store, txn, generation, current, seen>>
         /\ wpc' = wpc \/ wpc' = [wpc EXCEPT ![c] = "starting"]
BY DEF ClientStep, Check, ProbeTakes, ProbeFindsHolder, ProbeReleases, Spawn, SpawnFails,
       SeeAcknowledged, Acknowledged, SeeExit, StartTimeout, ClientDies, Flush, worker

LEMMA PositionsKept ==
  ASSUME Typed, Positions, [Next]_vars
  PROVE  Positions'
<1> USE OneHolder DEF Typed, ClientOK, WorkerOK, LockOK, Positions, Owes
<1>1. ASSUME NEW c \in Clients, NEW j \in Jobs, Ask(c, j) \/ CancelOnly(c, j)
      PROVE  Positions'
  BY <1>1 DEF Ask, CancelOnly, worker
<1>2. ASSUME NEW c \in Clients, Check(c) PROVE Positions'
  BY <1>2 DEF Check, Answer, StartProbe, worker
<1>3. ASSUME NEW c \in Clients, ProbeTakes(c) PROVE Positions'
  BY <1>3 DEF ProbeTakes, worker
<1>4. ASSUME NEW c \in Clients, ProbeFindsHolder(c) PROVE Positions'
  BY <1>4 DEF ProbeFindsHolder, Answer, worker
<1>5. ASSUME NEW c \in Clients, ProbeReleases(c) PROVE Positions'
  BY <1>5 DEF ProbeReleases, Answer, worker
<1>6. ASSUME NEW c \in Clients, Spawn(c) \/ Flush(c) PROVE Positions'
  BY <1>6 DEF Spawn, Flush, Leading, InLoop
<1>7. ASSUME NEW c \in Clients, SpawnFails(c) PROVE Positions'
  BY <1>7 DEF SpawnFails, Answer, worker
<1>8. ASSUME NEW c \in Clients, SeeAcknowledged(c) \/ SeeExit(c) \/ StartTimeout(c)
      PROVE  Positions'
  BY <1>8 DEF SeeAcknowledged, SeeExit, StartTimeout, StartProbe, worker
<1>9. ASSUME NEW c \in Clients, Acknowledged(c) PROVE Positions'
  BY <1>9 DEF Acknowledged, Answer, StartProbe, worker
<1>10. ASSUME NEW c \in Clients, ClientDies(c) PROVE Positions'
  BY <1>10 DEF ClientDies, worker
<1>11. ASSUME NEW c \in Clients, TakeLock(c) PROVE Positions'
  BY <1>11 DEF TakeLock, Leading, InLoop, client
<1>12. ASSUME NEW c \in Clients, Refused(c) \/ Recover(c) \/ Register(c) PROVE Positions'
  BY <1>12 DEF Refused, Recover, Register, Leading, InLoop, client
<1>13. ASSUME NEW c \in Clients, NEW j \in Jobs, Claim(c, j) PROVE Positions'
  BY <1>13 DEF Claim, Leading, InLoop, client
<1>14. ASSUME NEW c \in Clients, ClaimNothing(c) \/ Sleep(c) \/ IdleOver(c) PROVE Positions'
  BY <1>14 DEF ClaimNothing, Sleep, IdleOver, Leading, InLoop, client
<1>15. ASSUME NEW c \in Clients, NEW report \in Returns(c), Finish(c, report) PROVE Positions'
  BY <1>15 DEF Finish, Leading, InLoop, client
<1>16. ASSUME NEW c \in Clients, LastLook(c) PROVE Positions'
  BY <1>16 DEF LastLook, Leading, InLoop, client, Free
<1>17. ASSUME NEW c \in Clients, Unlock(c) \/ Commit(c) PROVE Positions'
  BY <1>17 DEF Unlock, Commit, Leading, InLoop, client
<1>18. ASSUME NEW c \in Clients, WorkerDies(c) PROVE Positions'
  BY <1>18 DEF WorkerDies, Leading, InLoop, client
<1>19. ASSUME NEW c \in Clients, NEW s \in Progress, Checkpoint(c, s) PROVE Positions'
  BY <1>19 DEF Checkpoint, client
<1>20. ASSUME NEW j \in Jobs, BecomesDue(j) PROVE Positions'
  BY <1>20 DEF BecomesDue, worker, client
<1>21. CASE UNCHANGED vars
  BY <1>21 DEF vars, worker, client
<1> QED
  BY <1>1, <1>2, <1>3, <1>4, <1>5, <1>6, <1>7, <1>8, <1>9, <1>10, <1>11, <1>12, <1>13,
     <1>14, <1>15, <1>16, <1>17, <1>18, <1>19, <1>20, <1>21
  DEF Next, ClientStep, WorkerStep

\* What a request can do to a job: running jobs stay as they are but for the flag.
LEMMA RequestJobs ==
  ASSUME Typed, NEW j \in Jobs, Enqueue(j) \/ Retry(j) \/ Cancel(j), NEW i \in Jobs
  PROVE  /\ job[i] = "running" <=> job'[i] = "running"
         /\ job[i] = "running" /\ canceled[i] => canceled'[i]
         /\ job'[i] = "canceled" /\ job[i] # "canceled" => canceled'[i]
         /\ job'[i] = "canceled" /\ job[i] = "canceled" => canceled'[i] = canceled[i]
         /\ (job[i] = Absent <=> subject[i] = Absent)
              => (job'[i] = Absent <=> subject'[i] = Absent)
         /\ job'[i] \in TerminalStates /\ subject'[i] \notin TerminalSubjects
              => job[i] \in TerminalStates /\ subject[i] \notin TerminalSubjects
<1> USE DEF Typed, StoreOK, Absent, TerminalStates, TerminalSubjects
<1>1. CASE Enqueue(j)
  BY <1>1 DEF Enqueue, Queue, store
<1>2. CASE Retry(j)
  BY <1>2 DEF Retry, Queue
<1>3. CASE CancelWaiting(j)
  BY <1>3 DEF CancelWaiting, CancelKeeps
<1>4. CASE CancelRunning(j)
  BY <1>4 DEF CancelRunning
<1>5. CASE CancelTerminal(j)
  BY <1>5 DEF CancelTerminal, store
<1> QED
  BY <1>1, <1>2, <1>3, <1>4, <1>5 DEF Cancel

LEMMA DrainedKept ==
  ASSUME Typed, Positions, Drained, [Next]_vars
  PROVE  Drained'
<1> USE DEF Drained, NoUnfinished, Unfinished, Free
<1>1. ASSUME NEW c \in Clients, NEW j \in Jobs, Ask(c, j) \/ CancelOnly(c, j) PROVE Drained'
  BY <1>1 DEF Ask, CancelOnly
<1>2. ASSUME NEW c \in Clients, ClientStep(c) \/ ClientDies(c) \/ Flush(c) PROVE Drained'
  BY <1>2, ClientFrame DEF store
<1>3. ASSUME NEW c \in Clients, TakeLock(c) \/ Refused(c) \/ Unlock(c) PROVE Drained'
  BY <1>3 DEF TakeLock, Refused, Unlock, store
<1>4. ASSUME NEW c \in Clients, Recover(c) \/ Register(c) \/ ClaimNothing(c) \/ Sleep(c)
                               \/ IdleOver(c) \/ \E j \in Jobs : Claim(c, j)
      PROVE  Drained'
  BY <1>4 DEF Recover, Register, ClaimNothing, Sleep, IdleOver, Claim
<1>5. ASSUME NEW c \in Clients,
             \/ \E report \in Returns(c) : Finish(c, report)
             \/ \E s \in Progress : Checkpoint(c, s)
      PROVE  Drained'
  BY <1>5 DEF Finish, Checkpoint
<1>6. ASSUME NEW c \in Clients, LastLook(c) PROVE Drained'
  BY <1>6 DEF LastLook, store
<1>7. ASSUME NEW c \in Clients, Commit(c) \/ WorkerDies(c) PROVE Drained'
  BY <1>7 DEF Commit, WorkerDies, store
<1>8. ASSUME NEW j \in Jobs, BecomesDue(j) PROVE Drained'
  BY <1>8 DEF BecomesDue
<1>9. CASE UNCHANGED vars
  BY <1>9 DEF vars, store
<1> QED
  BY <1>1, <1>2, <1>3, <1>4, <1>5, <1>6, <1>7, <1>8, <1>9 DEF Next, WorkerStep

\* A client's own steps start a worker that is off, so it has no job.
LEMMA ClientWorkers ==
  ASSUME Typed, Positions, Employed, NEW c \in Clients,
         ClientStep(c) \/ ClientDies(c) \/ Flush(c)
  PROVE  /\ UNCHANGED <<store, txn, generation, current, seen>>
         /\ wpc' = wpc \/ (wpc[c] = "off" /\ wpc' = [wpc EXCEPT ![c] = "starting"])
BY ClientFrame
DEF Typed, WorkerOK, Positions, Owes, ClientStep, Check, ProbeTakes, ProbeFindsHolder,
    ProbeReleases, Spawn, SpawnFails, SeeAcknowledged, Acknowledged, SeeExit, StartTimeout,
    ClientDies, Flush, worker

\* Where a worker stands in its loop, and that at most one is there.
LEMMA OneLeader ==
  ASSUME Positions, NEW c \in Clients, NEW d \in Clients,
         wpc[c] \in Leading, wpc[d] \in Leading
  PROVE  c = d
BY OneHolder DEF Positions

LEMMA EmployedKept ==
  ASSUME Typed, Positions, Employed, [Next]_vars
  PROVE  Employed'
<1> USE DEF Employed, Typed, WorkerOK
<1>1. ASSUME NEW c \in Clients, NEW j \in Jobs, Ask(c, j) \/ CancelOnly(c, j) PROVE Employed'
  BY <1>1 DEF Ask, CancelOnly, worker
<1>2. ASSUME NEW c \in Clients, ClientStep(c) \/ ClientDies(c) \/ Flush(c) PROVE Employed'
  BY <1>2, ClientWorkers
<1>3. ASSUME NEW c \in Clients, TakeLock(c) \/ Refused(c) \/ Recover(c) \/ Register(c)
      PROVE  Employed'
  BY <1>3 DEF TakeLock, Refused, Recover, Register
<1>4. ASSUME NEW c \in Clients, NEW j \in Jobs, Claim(c, j) PROVE Employed'
  BY <1>4 DEF Claim
<1>5. ASSUME NEW c \in Clients, ClaimNothing(c) \/ Sleep(c) \/ IdleOver(c) PROVE Employed'
  BY <1>5 DEF ClaimNothing, Sleep, IdleOver
<1>6. ASSUME NEW c \in Clients, \E report \in Returns(c) : Finish(c, report) PROVE Employed'
  BY <1>6 DEF Finish
<1>7. ASSUME NEW c \in Clients, LastLook(c) \/ Unlock(c) \/ Commit(c) PROVE Employed'
  BY <1>7 DEF LastLook, Unlock, Commit
<1>8. ASSUME NEW c \in Clients, WorkerDies(c) PROVE Employed'
  BY <1>8 DEF WorkerDies
<1>9. ASSUME NEW c \in Clients, \E s \in Progress : Checkpoint(c, s) PROVE Employed'
  BY <1>9 DEF Checkpoint
<1>10. ASSUME NEW j \in Jobs, BecomesDue(j) PROVE Employed'
  BY <1>10 DEF BecomesDue, worker
<1>11. CASE UNCHANGED vars
  BY <1>11 DEF vars, worker
<1> QED
  BY <1>1, <1>2, <1>3, <1>4, <1>5, <1>6, <1>7, <1>8, <1>9, <1>10, <1>11 DEF Next, WorkerStep

LEMMA RunningKept ==
  ASSUME Typed, Positions, Employed, RunningWhere, [Next]_vars
  PROVE  RunningWhere'
<1> USE DEF RunningWhere, Typed, StoreOK, WorkerOK, Employed, InLoop
<1>1. ASSUME NEW c \in Clients, NEW j \in Jobs, Ask(c, j) \/ CancelOnly(c, j)
      PROVE  RunningWhere'
  <2>1. \A i \in Jobs : job[i] = "running" <=> job'[i] = "running"
    BY <1>1, RequestJobs DEF Ask, CancelOnly
  <2> QED
    BY <1>1, <2>1 DEF Ask, CancelOnly, worker
<1>2. ASSUME NEW c \in Clients, ClientStep(c) \/ ClientDies(c) \/ Flush(c) PROVE RunningWhere'
  BY <1>2, ClientWorkers DEF store
<1>3. ASSUME NEW c \in Clients, TakeLock(c) \/ Refused(c) PROVE RunningWhere'
  BY <1>3 DEF TakeLock, Refused, store
<1>4. ASSUME NEW c \in Clients, Recover(c) PROVE RunningWhere'
  <2>1. \A d \in Clients : wpc[d] \in InLoop \cup {"leaving", "registering"} => d = c
    BY <1>4, OneLeader DEF Recover, Leading
  <2> QED
    BY <1>4, <2>1 DEF Recover
<1>5. ASSUME NEW c \in Clients,
             Register(c) \/ ClaimNothing(c) \/ Sleep(c) \/ IdleOver(c) \/ LastLook(c)
      PROVE  RunningWhere'
  BY <1>5 DEF Register, ClaimNothing, Sleep, IdleOver, LastLook, store
<1>6. ASSUME NEW c \in Clients, NEW j \in Jobs, Claim(c, j) PROVE RunningWhere'
  <2>1. \A d \in Clients : wpc[d] \in InLoop \cup {"leaving", "registering"} => d = c
    BY <1>6, OneLeader DEF Claim, Leading
  <2> QED
    BY <1>6, <2>1 DEF Claim
<1>7. ASSUME NEW c \in Clients, NEW report \in Returns(c), Finish(c, report)
      PROVE  RunningWhere'
  <2>1. \A d \in Clients : wpc[d] \in InLoop \cup {"leaving", "registering"} => d = c
    BY <1>7, OneLeader DEF Finish, Leading
  <2>2. report[1] # "running"
    BY DEF Returns, TerminalStates
  <2> QED
    BY <1>7, <2>1, <2>2 DEF Finish, Store
<1>8. ASSUME NEW c \in Clients, Unlock(c) \/ Commit(c) \/ WorkerDies(c) PROVE RunningWhere'
  BY <1>8 DEF Unlock, Commit, WorkerDies, store
<1>9. ASSUME NEW c \in Clients, \E s \in Progress : Checkpoint(c, s) PROVE RunningWhere'
  BY <1>9 DEF Checkpoint
<1>10. ASSUME NEW j \in Jobs, BecomesDue(j) PROVE RunningWhere'
  BY <1>10 DEF BecomesDue, worker
<1>11. CASE UNCHANGED vars
  BY <1>11 DEF vars, store, worker
<1> QED
  BY <1>1, <1>2, <1>3, <1>4, <1>5, <1>6, <1>7, <1>8, <1>9, <1>10, <1>11 DEF Next, WorkerStep

\* Whoever finds the lock taken finds a worker that stays, an empty queue or a probe.
LEMMA HeldLock ==
  ASSUME Typed, Positions, Drained, flock # Unlocked
  PROVE  WorkerPresent \/ NoUnfinished \/ MeetsProbe
<1>1. CASE flock[1] = "probe"
  BY <1>1 DEF MeetsProbe
<1>2. CASE \E d \in Clients : flock = WorkerLock(d)
  <2>1. PICK d \in Clients : wpc[d] \in Leading
    BY <1>2 DEF Positions
  <2>2. CASE wpc[d] = "leaving"
    BY <2>2 DEF Positions, Drained
  <2>3. CASE wpc[d] # "leaving"
    BY <2>1, <2>3 DEF WorkerPresent, Leading, BeforeLoop
  <2> QED
    BY <2>2, <2>3
<1> QED
  BY <1>1, <1>2 DEF Typed, LockOK, WorkerLock

LEMMA AttendedKept ==
  ASSUME Typed, Positions, Drained, Attended, [Next]_vars
  PROVE  Attended'
<1> USE DEF Attended, Typed, ClientOK, WorkerOK, StoreOK, NoUnfinished, Unfinished
<1>1. ASSUME NEW c \in Clients, NEW j \in Jobs, Ask(c, j) PROVE Attended'
  <2>1. Owes(c)'
    BY <1>1 DEF Ask, Owes
  <2> QED
    BY <2>1
<1>2. ASSUME NEW c \in Clients, NEW j \in Jobs, CancelOnly(c, j) PROVE Attended'
  <2>1. \A i \in Jobs : job'[i] \in ActiveStates => job[i] \in ActiveStates
    BY <1>2 DEF CancelOnly, Cancel, CancelWaiting, CancelRunning, CancelTerminal, store,
                ActiveStates
  <2>2. \A d \in Clients : Owes(d) => Owes(d)'
    BY <1>2 DEF CancelOnly, Owes
  <2> QED
    BY <1>2, <2>1, <2>2 DEF CancelOnly, WorkerPresent, worker
<1>3. ASSUME NEW c \in Clients, Check(c) PROVE Attended'
  <2>1. NoUnfinished \/ Owes(c)'
    BY <1>3 DEF Check, StartProbe, Owes
  <2> QED
    BY <1>3, <2>1 DEF Check, store
<1>4. ASSUME NEW c \in Clients, ProbeTakes(c) \/ Acknowledged(c) \/ StartTimeout(c)
                               \/ SeeAcknowledged(c) \/ SeeExit(c)
      PROVE  Attended'
  <2>1. \A d \in Clients : Owes(d) => Owes(d)'
    BY <1>4 DEF ProbeTakes, Acknowledged, StartTimeout, SeeAcknowledged, SeeExit, StartProbe,
                Answer, Owes
  <2>2. UNCHANGED <<store, worker, lapse>>
    BY <1>4 DEF ProbeTakes, Acknowledged, StartTimeout, SeeAcknowledged, SeeExit
  <2> QED
    BY <2>1, <2>2 DEF WorkerPresent, store, worker
<1>5. ASSUME NEW c \in Clients, ProbeFindsHolder(c) PROVE Attended'
  BY <1>5, HeldLock DEF ProbeFindsHolder, WorkerPresent, store, worker
<1>6. ASSUME NEW c \in Clients, ProbeReleases(c) PROVE Attended'
  <2>1. CASE lapse'
    BY <2>1
  <2>2. CASE ~lapse'
    <3>1. \A d \in Clients : Owes(d) => Owes(d)'
      BY <1>6, <2>2 DEF ProbeReleases, Owes
    <3> QED
      BY <1>6, <2>2, <3>1 DEF ProbeReleases, WorkerPresent, store, worker
  <2> QED
    BY <2>1, <2>2
<1>7. ASSUME NEW c \in Clients, Spawn(c) PROVE Attended'
  <2>1. WorkerPresent'
    BY <1>7 DEF Spawn, WorkerPresent, BeforeLoop
  <2> QED
    BY <2>1
<1>8. ASSUME NEW c \in Clients, Flush(c) PROVE Attended'
  <2>1. WorkerPresent'
    BY <1>8 DEF Flush, WorkerPresent, BeforeLoop
  <2> QED
    BY <2>1
<1>9. ASSUME NEW c \in Clients, SpawnFails(c) \/ WorkerDies(c) PROVE Attended'
  BY <1>9 DEF SpawnFails, WorkerDies
<1>10. ASSUME NEW c \in Clients, ClientDies(c) PROVE Attended'
  <2>1. lapse' \/ \A d \in Clients : Owes(d) => Owes(d)'
    BY <1>10 DEF ClientDies, Owes
  <2> QED
    BY <1>10, <2>1 DEF ClientDies, WorkerPresent, store, worker
<1>11. ASSUME NEW c \in Clients, Refused(c) PROVE Attended'
  <2>1. WorkerPresent \/ NoUnfinished \/ MeetsProbe
    BY <1>11, HeldLock DEF Refused
  <2>2. WorkerPresent /\ ~NoUnfinished /\ ~MeetsProbe => WorkerPresent'
    <3> SUFFICES ASSUME WorkerPresent, ~NoUnfinished, ~MeetsProbe PROVE WorkerPresent'
      OBVIOUS
    <3>1. PICK d \in Clients : flock = WorkerLock(d)
      BY <1>11 DEF Refused, LockOK, MeetsProbe, WorkerLock
    <3>2. wpc[d] \in Leading /\ wpc[d] # "leaving" /\ d # c
      BY <1>11, <3>1 DEF Positions, Drained, Refused, Leading, InLoop
    <3> QED
      BY <1>11, <3>2 DEF Refused, WorkerPresent, Leading, BeforeLoop
  <2> QED
    BY <1>11, <2>1, <2>2 DEF Refused, store, client, Owes
<1>12. ASSUME NEW c \in Clients, TakeLock(c) PROVE Attended'
  <2>1. WorkerPresent'
    BY <1>12 DEF TakeLock, WorkerPresent, BeforeLoop
  <2> QED
    BY <2>1
<1>13. ASSUME NEW c \in Clients,
              \/ Recover(c) \/ Register(c) \/ ClaimNothing(c) \/ Sleep(c) \/ IdleOver(c)
              \/ \E j \in Jobs : Claim(c, j)
              \/ \E report \in Returns(c) : Finish(c, report)
              \/ \E s \in Progress : Checkpoint(c, s)
       PROVE  Attended'
  <2>1. wpc'[c] \in BeforeLoop \cup InLoop
    BY <1>13 DEF Recover, Register, ClaimNothing, Sleep, IdleOver, Claim, Finish, Checkpoint,
                 BeforeLoop, InLoop
  <2> QED
    BY <2>1 DEF WorkerPresent
<1>14. ASSUME NEW c \in Clients, LastLook(c) PROVE Attended'
  <2>1. CASE NoUnfinished
    BY <1>14, <2>1 DEF LastLook, store
  <2>2. CASE ~NoUnfinished
    <3>1. wpc'[c] \in InLoop
      BY <1>14, <2>2 DEF LastLook, InLoop
    <3> QED
      BY <3>1 DEF WorkerPresent
  <2> QED
    BY <2>1, <2>2
<1>15. ASSUME NEW c \in Clients, Unlock(c) \/ Commit(c) PROVE Attended'
  <2>1. NoUnfinished
    BY <1>15 DEF Unlock, Commit, Positions, Drained
  <2> QED
    BY <1>15, <2>1 DEF Unlock, Commit, store
<1>16. ASSUME NEW j \in Jobs, BecomesDue(j) PROVE Attended'
  BY <1>16 DEF BecomesDue, WorkerPresent, Owes, worker, client
<1>17. CASE UNCHANGED vars
  BY <1>17 DEF vars, store, worker, client, WorkerPresent, Owes
<1> QED
  BY <1>1, <1>2, <1>3, <1>4, <1>5, <1>6, <1>7, <1>8, <1>9, <1>10, <1>11, <1>12, <1>13,
     <1>14, <1>15, <1>16, <1>17
  DEF Next, ClientStep, WorkerStep

LEMMA AskedKept ==
  ASSUME Typed, Positions, Employed, RunningWhere, Asked, [Next]_vars
  PROVE  Asked'
<1> USE DEF Asked, CanceledIsAsked, SeenIsAsked, Typed, StoreOK, WorkerOK
<1>1. ASSUME NEW c \in Clients, NEW j \in Jobs, Ask(c, j) \/ CancelOnly(c, j) PROVE Asked'
  <2>1. \A i \in Jobs : /\ job'[i] = "canceled" => canceled'[i]
                        /\ job[i] = "running" /\ canceled[i] => canceled'[i]
    BY <1>1, RequestJobs DEF Ask, CancelOnly
  <2>2. \A d \in Clients : wpc[d] = "advancing" => job[current[d]] = "running"
    BY DEF RunningWhere, InLoop
  <2> QED
    BY <1>1, <2>1, <2>2 DEF Ask, CancelOnly, worker
<1>2. ASSUME NEW c \in Clients, ClientStep(c) \/ ClientDies(c) \/ Flush(c) PROVE Asked'
  BY <1>2, ClientWorkers DEF store
<1>3. ASSUME NEW c \in Clients, TakeLock(c) \/ Refused(c) \/ Register(c) \/ ClaimNothing(c)
                               \/ Sleep(c) \/ IdleOver(c) \/ LastLook(c) \/ Unlock(c)
                               \/ Commit(c) \/ WorkerDies(c)
      PROVE  Asked'
  BY <1>3 DEF TakeLock, Refused, Register, ClaimNothing, Sleep, IdleOver, LastLook, Unlock,
              Commit, WorkerDies, store
<1>4. ASSUME NEW c \in Clients, Recover(c) PROVE Asked'
  BY <1>4 DEF Recover
<1>5. ASSUME NEW c \in Clients, NEW j \in Jobs, Claim(c, j) PROVE Asked'
  BY <1>5 DEF Claim
<1>6. ASSUME NEW c \in Clients, NEW report \in Returns(c), Finish(c, report) PROVE Asked'
  <2>1. report[1] = "canceled" => canceled[current[c]]
    BY <1>6 DEF Returns, Finish, TerminalStates
  <2> QED
    BY <1>6, <2>1 DEF Finish, Store
<1>7. ASSUME NEW c \in Clients, NEW s \in Progress, Checkpoint(c, s) PROVE Asked'
  BY <1>7 DEF Checkpoint
<1>8. ASSUME NEW j \in Jobs, BecomesDue(j) PROVE Asked'
  BY <1>8 DEF BecomesDue, worker
<1>9. CASE UNCHANGED vars
  BY <1>9 DEF vars, store, worker
<1> QED
  BY <1>1, <1>2, <1>3, <1>4, <1>5, <1>6, <1>7, <1>8, <1>9 DEF Next, WorkerStep

LEMMA SettledKept ==
  ASSUME Typed, RunningWhere, Settled, [Next]_vars
  PROVE  Settled'
<1> USE DEF Settled, Known, SubjectsSettled, Typed, StoreOK, WorkerOK
<1>1. ASSUME NEW c \in Clients, NEW j \in Jobs, Ask(c, j) \/ CancelOnly(c, j) PROVE Settled'
  BY <1>1, RequestJobs DEF Ask, CancelOnly
<1>2. ASSUME NEW c \in Clients, ClientStep(c) \/ ClientDies(c) \/ Flush(c) PROVE Settled'
  BY <1>2, ClientFrame DEF store
<1>3. ASSUME NEW c \in Clients, TakeLock(c) \/ Refused(c) \/ Register(c) \/ ClaimNothing(c)
                               \/ Sleep(c) \/ IdleOver(c) \/ LastLook(c) \/ Unlock(c)
                               \/ Commit(c) \/ WorkerDies(c)
      PROVE  Settled'
  BY <1>3 DEF TakeLock, Refused, Register, ClaimNothing, Sleep, IdleOver, LastLook, Unlock,
              Commit, WorkerDies, store
<1>4. ASSUME NEW c \in Clients, Recover(c) PROVE Settled'
  BY <1>4 DEF Recover, TerminalStates, Absent
<1>5. ASSUME NEW c \in Clients, NEW j \in Jobs, Claim(c, j) PROVE Settled'
  BY <1>5 DEF Claim, Claimable, TerminalStates, Absent
<1>6. ASSUME NEW c \in Clients, NEW report \in Returns(c), Finish(c, report) PROVE Settled'
  <2> DEFINE j == current[c]
             s == IF report[2] = Unreported THEN subject[j] ELSE report[2]
  <2>1. j \in Jobs /\ subject[j] \in SubjectStates
    BY <1>6 DEF Finish, Absent
  <2>2. report[1] \in TerminalStates \cup {"retry_wait"}
        /\ report[2] \in SubjectStates \cup {Unreported}
    BY DEF Returns, TerminalStates
  <2>3. s \in SubjectStates
    BY <2>1, <2>2
  <2>4. Settle(s, report[1]) # Absent /\ report[1] # Absent
        /\ (report[1] \in TerminalStates => Settle(s, report[1]) \in TerminalSubjects)
    BY <2>2, <2>3 DEF Settle, SubjectStates, TerminalSubjects, TerminalStates, ActiveSubjects,
                      Absent
  <2>5. /\ job' = [job EXCEPT ![j] = report[1]]
        /\ subject' = [subject EXCEPT ![j] = Settle(s, report[1])]
    BY <1>6, <2>1 DEF Finish, Store
  <2> QED
    BY <2>1, <2>4, <2>5
<1>7. ASSUME NEW c \in Clients, NEW s \in Progress, Checkpoint(c, s) PROVE Settled'
  <2>1. job[current[c]] = "running"
    BY <1>7 DEF Checkpoint, RunningWhere, InLoop
  <2>2. s # Absent
    BY DEF SubjectStates, ActiveSubjects, TerminalSubjects, TerminalStates, Absent
  <2> QED
    BY <1>7, <2>1, <2>2 DEF Checkpoint, TerminalStates, Absent
<1>8. ASSUME NEW j \in Jobs, BecomesDue(j) PROVE Settled'
  BY <1>8 DEF BecomesDue
<1>9. CASE UNCHANGED vars
  BY <1>9 DEF vars, store
<1> QED
  BY <1>1, <1>2, <1>3, <1>4, <1>5, <1>6, <1>7, <1>8, <1>9 DEF Next, WorkerStep

LEMMA HeartbeatsKept ==
  ASSUME Typed, Positions, Heartbeats, [Next]_vars
  PROVE  Heartbeats'
<1> USE DEF Heartbeats, Typed, ClientOK, WorkerOK, Led, InLoop
<1>1. ASSUME NEW c \in Clients, NEW j \in Jobs, Ask(c, j) \/ CancelOnly(c, j) PROVE Heartbeats'
  BY <1>1 DEF Ask, CancelOnly, worker
<1>2. ASSUME NEW c \in Clients, Check(c) \/ ProbeTakes(c) \/ ProbeReleases(c) \/ SpawnFails(c)
                               \/ SeeExit(c) \/ StartTimeout(c) \/ ClientDies(c)
      PROVE  Heartbeats'
  BY <1>2 DEF Check, ProbeTakes, ProbeReleases, SpawnFails, SeeExit, StartTimeout, ClientDies,
              Answer, StartProbe, worker
<1>3. ASSUME NEW c \in Clients, ProbeFindsHolder(c) PROVE Heartbeats'
  BY <1>3 DEF ProbeFindsHolder, Answer, worker
<1>4. ASSUME NEW c \in Clients, SeeAcknowledged(c) \/ Acknowledged(c) PROVE Heartbeats'
  BY <1>4 DEF SeeAcknowledged, Acknowledged, Answer, StartProbe, worker
<1>5. ASSUME NEW c \in Clients, Spawn(c) \/ Flush(c) PROVE Heartbeats'
  BY <1>5 DEF Spawn, Flush, Positions, Owes
<1>6. ASSUME NEW c \in Clients, TakeLock(c) \/ Refused(c) \/ Recover(c) \/ Register(c)
      PROVE  Heartbeats'
  BY <1>6 DEF TakeLock, Refused, Recover, Register, client
<1>7. ASSUME NEW c \in Clients, ClaimNothing(c) \/ Sleep(c) \/ IdleOver(c) \/ LastLook(c)
                               \/ Unlock(c) \/ Commit(c) \/ WorkerDies(c)
      PROVE  Heartbeats'
  BY <1>7 DEF ClaimNothing, Sleep, IdleOver, LastLook, Unlock, Commit, WorkerDies, client
<1>8. ASSUME NEW c \in Clients,
             \/ \E j \in Jobs : Claim(c, j)
             \/ \E report \in Returns(c) : Finish(c, report)
             \/ \E s \in Progress : Checkpoint(c, s)
      PROVE  Heartbeats'
  BY <1>8 DEF Claim, Finish, Checkpoint, client
<1>9. ASSUME NEW j \in Jobs, BecomesDue(j) PROVE Heartbeats'
  BY <1>9 DEF BecomesDue, worker, client
<1>10. CASE UNCHANGED vars
  BY <1>10 DEF vars, worker, client
<1> QED
  BY <1>1, <1>2, <1>3, <1>4, <1>5, <1>6, <1>7, <1>8, <1>9, <1>10
  DEF Next, ClientStep, WorkerStep

LEMMA InitIInv == Init => IInv
<1> SUFFICES ASSUME Init PROVE IInv
  OBVIOUS
<1>1. Positions
  BY OneHolder DEF Init, Positions, Owes, Leading, InLoop
<1>2. Drained /\ Attended /\ Asked /\ Settled
  BY DEF Init, Drained, Attended, Asked, Settled, NoUnfinished, Unfinished, CanceledIsAsked,
         SeenIsAsked, Known, SubjectsSettled, Absent, ActiveStates, TerminalStates
<1>3. Employed /\ RunningWhere /\ Heartbeats
  BY DEF Init, Employed, RunningWhere, Heartbeats, InLoop
<1> QED
  BY <1>1, <1>2, <1>3, InitTyped DEF IInv

LEMMA Invariance == Spec => []IInv
<1>1. IInv /\ [Next]_vars => IInv'
  BY NextTyped, PositionsKept, DrainedKept, EmployedKept, RunningKept, AttendedKept, AskedKept,
     SettledKept, HeartbeatsKept
  DEF IInv
<1> QED
  BY <1>1, InitIInv, PTL DEF Spec

-----------------------------------------------------------------------------
(* Theorems                                                                *)

\* No unfinished job is left without a worker unless a process died, a probe was taken
\* for a worker or a client was told that none started: run_flusher's exit and
\* ensure_flusher's probe never miss each other.
THEOREM JobsAttended == Spec => []Attended
BY Invariance, PTL DEF IInv

\* The jobs that are running are those the leader advances: finish and checkpoint never
\* raise for the state of their job, and recover_running never requeues a job at work.
THEOREM RunningJobsAdvanced == Spec => []RunningIsAdvanced
<1>1. IInv => RunningIsAdvanced
  <2> SUFFICES ASSUME IInv, NEW c \in Clients, wpc[c] \in InLoop \cup {"leaving"}
               PROVE  {j \in Jobs : job[j] = "running"} = {current[c]} \ {None}
    BY DEF RunningIsAdvanced
  <2>1. \A j \in Jobs : job[j] = "running" <=> j = current[c]
    BY DEF IInv, RunningWhere
  <2>2. current[c] \in Jobs \cup {None}
    BY DEF IInv, Typed, WorkerOK
  <2> QED
    BY <2>1, <2>2
<1> QED
  BY <1>1, Invariance, PTL

\* The subjects of a job that has ended have ended.
THEOREM SubjectsEnd == Spec => []SubjectsSettled
BY Invariance, PTL DEF IInv, Settled

\* A job is canceled only on request, across recoveries.
THEOREM CancellationIsAsked == Spec => []CanceledIsAsked
BY Invariance, PTL DEF IInv, Asked

\* ensure_flusher says "started" of a worker that took the lock file.
THEOREM StartedWorkersLed == Spec => []StartedLed
<1>1. IInv => StartedLed
  BY DEF IInv, Heartbeats, StartedLed, Led, InLoop
<1> QED
  BY <1>1, Invariance, PTL

\* Only the handler of a running job changes the verdict on a subject.
THEOREM VerdictsAreKept == Spec => VerdictsStand
<1> DEFINE Kept == \A j \in Jobs : subject[j] \in {"accepted", "rejected"} /\ job[j] # "running"
                                     => subject'[j] = subject[j]
<1>1. IInv /\ [Next]_vars => [Kept]_vars
  <2> SUFFICES ASSUME IInv, Next PROVE Kept
    OBVIOUS
  <2> USE DEF IInv, Typed, StoreOK, WorkerOK
  <2>1. ASSUME NEW c \in Clients, NEW j \in Jobs, Ask(c, j) \/ CancelOnly(c, j) PROVE Kept
    <3>1. CASE Enqueue(j)
      <4>1. job[j] = Absent => subject[j] \notin {"accepted", "rejected"}
        BY DEF Settled, Known, Absent
      <4> QED
        BY <3>1, <4>1 DEF Enqueue, Queue, store
    <3>2. CASE Retry(j)
      BY <3>2 DEF Retry, Queue, RetryKeeps, SubjectStates, TerminalSubjects
    <3>3. CASE Cancel(j)
      BY <3>3 DEF Cancel, CancelWaiting, CancelRunning, CancelTerminal, CancelKeeps, store
    <3> QED
      BY <2>1, <3>1, <3>2, <3>3 DEF Ask, CancelOnly
  <2>2. ASSUME NEW c \in Clients, ClientStep(c) \/ ClientDies(c) \/ Flush(c) PROVE Kept
    BY <2>2, ClientFrame DEF store
  <2>3. ASSUME NEW c \in Clients, TakeLock(c) \/ Refused(c) \/ Register(c) \/ ClaimNothing(c)
                                 \/ Sleep(c) \/ IdleOver(c) \/ LastLook(c) \/ Unlock(c)
                                 \/ Commit(c) \/ WorkerDies(c)
        PROVE  Kept
    BY <2>3 DEF TakeLock, Refused, Register, ClaimNothing, Sleep, IdleOver, LastLook, Unlock,
                Commit, WorkerDies, store
  <2>4. ASSUME NEW c \in Clients, Recover(c) \/ \E j \in Jobs : Claim(c, j) PROVE Kept
    BY <2>4 DEF Recover, Claim
  <2>5. ASSUME NEW c \in Clients,
               \/ \E report \in Returns(c) : Finish(c, report)
               \/ \E s \in Progress : Checkpoint(c, s)
        PROVE  Kept
    BY <2>5 DEF Finish, Store, Checkpoint, RunningWhere, InLoop
  <2>6. ASSUME NEW j \in Jobs, BecomesDue(j) PROVE Kept
    BY <2>6 DEF BecomesDue
  <2> QED
    BY <2>1, <2>2, <2>3, <2>4, <2>5, <2>6 DEF Next, WorkerStep
<1> QED
  BY <1>1, Invariance, PTL DEF Spec, VerdictsStand
=============================================================================
