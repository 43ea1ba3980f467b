----------------------- MODULE ManualEvaluation_proofs -----------------------
(***************************************************************************)
(* Proofs about ManualEvaluation, for any number of machines, batches,     *)
(* checkpoints and attempts, and any verdicts, faults and requests.  Each  *)
(* worker is described by what its place in advance_batch implies about    *)
(* its own record and the shared objects; what others do meanwhile leaves  *)
(* that true.                                                              *)
(***************************************************************************)
EXTENDS ManualEvaluation, SequenceTheorems, WellFoundedInduction, TLAPS

USE SelectionAssumption, OwnersAssumption

Busy == {"verify", "prepare", "submit", "append", "publish", "record"}
Closing == {"choose", "promote", "leader", "receipt"}
Working == Busy \cup Closing \cup {"look", "cancel"}

Told == {"accepted", "rejected", "failed"}
Shown == Told \cup {"unsettled", "awaiting", "expired", "canceled"} \cup Verdicts
Ends == {None, "retry_wait", "failed", "blocked", "canceled", "succeeded"}
Promotions == [checkpoint : Checkpoints, by : {"training", "batch"}] \cup {NoPromotion}

Workers ==
  [batch : Batches \cup {None}, pc : Working \cup {"idle", "begin", "finish"},
   asked : BOOLEAN, early : BOOLEAN, offset : Nat, attempt : Nat,
   statuses : [Checkpoints -> Shown \cup {None}], choice : Promotions, outcome : Ends]

WorldType ==
  /\ ended \in BOOLEAN /\ auto \subseteq Checkpoints /\ promotion \in Promotions
  /\ slipped \in BOOLEAN /\ faults \in Nat /\ requests \in Nat
  /\ job \in [Batches -> {"absent", "queued", "running"} \cup (Ends \ {None})]
  /\ asked \in [Batches -> BOOLEAN]

EvalType ==
  /\ prepared \in [Checkpoints -> Nat] /\ expired \in [Checkpoints -> Nat]
  /\ calls \in [Checkpoints -> [Attempts -> {None, "live", "gone", "twice"}]]
  /\ result \in [Checkpoints -> [attempt : Attempts, verdict : Verdicts \cup {"expired"}]
                                 \cup {NoResult}]
  /\ verified \in [Checkpoints -> Shown \cup {None}]

LogType ==
  /\ rows \in [Batches -> Seq(Checkpoints)] /\ sent \in [Batches -> Nat]
  /\ projection \in [Checkpoints -> Nat]
  /\ wandb \in Nat /\ points \subseteq Checkpoints

TypeOK ==
  /\ WorldType /\ EvalType /\ LogType
  /\ worker \in [Queues -> Workers]
  /\ DOMAIN receipt = Batches

-----------------------------------------------------------------------------
(* What the place of a worker w of queue q implies *)

TodoOf(w) == {c \in Selection[w.batch] : w.statuses[c] = None}
CurrentOf(w) == Min(TodoOf(w))

PlaceIs(q, w) ==
  /\ w.pc # "idle" => w.batch \in Batches /\ Home[w.batch] = q
  /\ w.pc \in Busy => TodoOf(w) # {}
  /\ w.pc \in {"append", "publish", "record"} => ~w.early
  /\ w.pc \in Closing /\ ~w.asked => \A c \in Selection[w.batch] : w.statuses[c] \in Final
  /\ w.pc = "cancel" => w.asked
  /\ w.pc = "finish" <=> w.outcome # None

(* An attempt is made once the one before has expired, and spawned by the    *)
(* worker that made it.                                                      *)
AttemptIs(w) ==
  /\ w.pc = "prepare" =>
       /\ w.attempt >= 1 /\ w.attempt <= prepared[CurrentOf(w)] + 1
       /\ w.attempt <= expired[CurrentOf(w)] + 1
  /\ w.pc = "submit" =>
       /\ w.attempt >= 1 /\ w.attempt <= prepared[CurrentOf(w)]
       /\ w.attempt < prepared[CurrentOf(w)] => w.attempt <= expired[CurrentOf(w)]
       /\ w.attempt \in Attempts => calls[CurrentOf(w)][w.attempt] = None

(* A worker that may publish has the lease, and W&B has no number above its   *)
(* own, unless something slipped.                                             *)
LeaseIs(q, w) ==
  w.pc \in Working /\ ~w.early =>
    /\ ended
    /\ slipped \/ (lease = q /\ wandb <= w.offset + sent[w.batch])

RowsAre(w) ==
  /\ w.pc \in {"publish", "record"} => Contains(rows[w.batch], CurrentOf(w))
  /\ w.pc = "record" => sent[w.batch] = Len(rows[w.batch])

(* A status that tells of a result was taken from one that is at W&B.        *)
StatusIs(w) ==
  \A c \in Checkpoints :
    w.statuses[c] \in Told => verified[c] = w.statuses[c] /\ projection[c] # 0

Leads(checkpoint, w) ==
  \A c \in Selection[w.batch] : w.statuses[c] = "accepted" => checkpoint \in 1..c

Backed(b) ==
  /\ \E r \in receipt[b] : r.state = "succeeded"
  /\ \A c \in Selection[b] :
       /\ verified[c] \in {"accepted", "rejected"} /\ projection[c] # 0
       /\ verified[c] = "accepted" => promotion.checkpoint \in 1..c

ChoiceIs(w) ==
  /\ w.pc = "promote" => w.choice # NoPromotion /\ Leads(w.choice.checkpoint, w)
  /\ w.pc \in {"leader", "receipt"} => Leads(promotion.checkpoint, w)
  /\ w.pc = "finish" /\ w.outcome = "succeeded" => Backed(w.batch)

WorkerIs(q, w) ==
  /\ PlaceIs(q, w) /\ AttemptIs(w) /\ LeaseIs(q, w) /\ RowsAre(w) /\ StatusIs(w) /\ ChoiceIs(w)

WorkersOK == \A q \in Queues : WorkerIs(q, worker[q])

\* Two workers are never about to spawn the same attempt.
ApartOK ==
  \A q, r \in Queues :
    q # r /\ At(q, "submit") /\ At(r, "submit") /\ Current(q) = Current(r) =>
      worker[q].attempt # worker[r].attempt

CallOK ==
  /\ \A c \in Checkpoints, a \in Attempts : calls[c][a] # None => a <= prepared[c]
  /\ OneLiveEvaluation

(* What is marked as published is in the history, unless something slipped.  *)
LogOK ==
  /\ \A b \in Batches :
       /\ sent[b] <= Len(rows[b])
       /\ slipped \/ \A i \in 1..sent[b] : rows[b][i] \in points
  /\ \A c \in Checkpoints : projection[c] <= wandb
  /\ ~ended => \A c \in Checkpoints : projection[c] = 0
  /\ ProjectedIsLogged

SuccessOK == \A b \in Batches : job[b] = "succeeded" => Backed(b)

IInv == TypeOK /\ WorkersOK /\ ApartOK /\ CallOK /\ LogOK /\ SuccessOK

-----------------------------------------------------------------------------
(* The operators *)

\* A nonempty set of naturals has a least element, and one with a bound a greatest.
LEMMA MinIs ==
  ASSUME NEW S \in SUBSET Nat, S # {}
  PROVE  Min(S) \in S /\ \A n \in S : Min(S) <= n
<1> DEFINE Less == {p \in Nat \X Nat : p[1] < p[2]}
<1>1. IsWellFoundedOn(Less, Nat)
  BY NatLessThanWellFounded DEF OpToRel
<1>2. PICK m \in S : \A n \in S : <<n, m>> \notin Less
  BY <1>1, WFMin, Zenon
<1>3. ASSUME NEW n \in S
      PROVE  m <= n
  <2>1. n < m => <<n, m>> \in Less
    OBVIOUS
  <2> HIDE DEF Less
  <2> QED
    BY <1>2, <2>1
<1> QED
  BY <1>3 DEF Min

LEMMA MaxIs ==
  ASSUME NEW S \in SUBSET Nat, S # {}, NEW bound \in Nat, \A n \in S : n <= bound
  PROVE  Max(S) \in S /\ \A n \in S : n <= Max(S)
<1> DEFINE Above == {m \in Nat : \A n \in S : n <= m}
           top == Min(Above)
<1>1. bound \in Above /\ Above \in SUBSET Nat
  OBVIOUS
<1>2. top \in Above /\ \A m \in Above : top <= m
  <2> HIDE DEF Above
  <2> QED
    BY <1>1, MinIs
<1> HIDE DEF top
<1>3. top \in S
  <2> SUFFICES ASSUME top \notin S
               PROVE  FALSE
    OBVIOUS
  <2>1. PICK n \in S : TRUE
    OBVIOUS
  <2>2. top \in Nat /\ n \in Nat /\ n <= top /\ n # top
    BY <1>2, <2>1
  <2>3. top - 1 \in Nat /\ \A k \in S : k <= top - 1
    BY <1>2, <2>2
  <2>4. top - 1 \in Above
    BY <2>3
  <2> HIDE DEF Above
  <2> QED
    BY <1>2, <2>2, <2>4
<1>4. \A n \in S : top >= n
  BY <1>2
<1> QED
  BY <1>3, <1>4 DEF Max

LEMMA StatusesAre ==
  /\ None \notin Told /\ Told \subseteq Shown /\ Final = Told \cup {"expired"}
  /\ {"unsettled", "awaiting", "expired", "canceled"} \subseteq Shown \ Told
  /\ Working \cap {"idle", "begin", "finish"} = {} /\ Busy \subseteq Working
  /\ Closing \subseteq Working /\ Busy \cap Closing = {}
BY DEF None, Told, Shown, Final, Working, Busy, Closing

LEMMA NoneIs ==
  /\ NoPromotion \in Promotions /\ NoPromotion.checkpoint = 0
  /\ Idle \in Workers /\ Idle.pc = "idle" /\ Idle.outcome = None /\ ~Idle.asked /\ ~Idle.early
  /\ \A c \in Checkpoints : Idle.statuses[c] = None
  /\ NoResult.attempt = 0
BY DEF NoPromotion, Accepted, Promotions, Idle, Workers, Working, Ends, NoResult

LEMMA CurrentIs ==
  ASSUME NEW w \in Workers, w.batch \in Batches, TodoOf(w) # {}
  PROVE  /\ CurrentOf(w) \in Selection[w.batch] /\ CurrentOf(w) \in Checkpoints
         /\ w.statuses[CurrentOf(w)] = None
<1>1. TodoOf(w) \in SUBSET Nat
  BY DEF TodoOf
<1>2. CurrentOf(w) \in TodoOf(w)
  BY <1>1, MinIs DEF CurrentOf
<1> QED
  BY <1>2 DEF TodoOf

\* CurrentOf is Current, where worker q stands.
LEMMA PlacesAre ==
  ASSUME NEW q \in Queues
  PROVE  /\ Todo(q) = TodoOf(worker[q]) /\ Current(q) = CurrentOf(worker[q])
         /\ Batch(q) = worker[q].batch /\ Statuses(q) = worker[q].statuses
BY DEF Todo, TodoOf, Current, CurrentOf, Batch, Statuses

LEMMA SameCurrent ==
  ASSUME NEW q \in Queues, worker'[q].batch = worker[q].batch,
         worker'[q].statuses = worker[q].statuses
  PROVE  /\ TodoOf(worker[q])' = TodoOf(worker[q])
         /\ CurrentOf(worker[q])' = CurrentOf(worker[q])
<1>1. TodoOf(worker[q])' = TodoOf(worker[q])
  BY DEF TodoOf
<1> QED
  BY <1>1 DEF CurrentOf

-----------------------------------------------------------------------------
(* What others leave as it is *)

RecordsGrow ==
  /\ \A c \in Checkpoints :
       /\ verified[c] # None => verified'[c] = verified[c]
       /\ projection[c] # 0 => projection'[c] = projection[c]
  /\ promotion # NoPromotion => promotion' = promotion
  /\ \A b \in Batches : receipt[b] # {} => receipt'[b] = receipt[b]

CallsStay ==
  /\ prepared' = prepared /\ \A c \in Checkpoints : expired[c] <= expired'[c]
  /\ \A c \in Checkpoints, a \in Attempts : calls[c][a] = None => calls'[c][a] = None

LeaseStays == UNCHANGED <<ended, lease, wandb, sent>> /\ (slipped => slipped')

LEMMA LeadsGrows ==
  ASSUME WorldType, NEW S \in SUBSET Nat, NEW A \in SUBSET S,
         promotion # NoPromotion => promotion' = promotion,
         \A c \in A : promotion.checkpoint \in 1..c
  PROVE  \A c \in A : promotion'.checkpoint \in 1..c
<1>1. CASE promotion # NoPromotion
  BY <1>1
<1>2. CASE promotion = NoPromotion
  BY <1>2, NoneIs
<1> QED
  BY <1>1, <1>2

LEMMA BackedGrows ==
  ASSUME TypeOK, RecordsGrow, NEW b \in Batches, Backed(b)
  PROVE  Backed(b)'
<1> DEFINE A == {c \in Selection[b] : verified[c] = "accepted"}
<1>1. receipt'[b] = receipt[b]
  BY DEF RecordsGrow, Backed
<1>2. \A c \in Selection[b] : verified'[c] = verified[c] /\ projection'[c] # 0
  BY DEF RecordsGrow, Backed, None
<1>3. \A c \in A : promotion'.checkpoint \in 1..c
  <2>1. Selection[b] \in SUBSET Nat /\ A \in SUBSET Selection[b]
    OBVIOUS
  <2>2. \A c \in A : promotion.checkpoint \in 1..c
    BY DEF Backed
  <2> HIDE DEF A
  <2> QED
    BY <2>1, <2>2, LeadsGrows DEF RecordsGrow, TypeOK
<1> QED
  BY <1>1, <1>2, <1>3 DEF Backed

LEMMA OthersStay ==
  ASSUME IInv, NEW r \in Queues, worker'[r] = worker[r], RecordsGrow
  PROVE  PlaceIs(r, worker[r])' /\ StatusIs(worker[r])' /\ ChoiceIs(worker[r])'
<1>1. PlaceIs(r, worker[r])'
  BY DEF IInv, WorkersOK, WorkerIs, PlaceIs, TodoOf
<1>2. StatusIs(worker[r])'
  <2>1. \A c \in Checkpoints : worker[r].statuses[c] \in Told =>
           verified[c] = worker[r].statuses[c] /\ projection[c] # 0
    BY DEF IInv, WorkersOK, WorkerIs, StatusIs
  <2> QED
    BY <2>1, StatusesAre DEF StatusIs, RecordsGrow
<1>3. ChoiceIs(worker[r])'
  <2>1. worker[r].pc # "idle" => worker[r].batch \in Batches
    BY DEF IInv, WorkersOK, WorkerIs, PlaceIs
  <2>2. worker[r].pc = "promote" =>
          worker[r].choice # NoPromotion /\ Leads(worker[r].choice.checkpoint, worker[r])
    BY DEF IInv, WorkersOK, WorkerIs, ChoiceIs
  <2>3. ASSUME worker[r].pc \in {"leader", "receipt"}
        PROVE  Leads(promotion.checkpoint, worker[r])'
    <3> DEFINE S == Selection[worker[r].batch]
               A == {c \in S : worker[r].statuses[c] = "accepted"}
    <3>1. S \in SUBSET Nat /\ A \in SUBSET S
      BY <2>1, <2>3
    <3>2. \A c \in A : promotion.checkpoint \in 1..c
      BY <2>3 DEF IInv, WorkersOK, WorkerIs, ChoiceIs, Leads
    <3> HIDE DEF A, S
    <3>3. \A c \in A : promotion'.checkpoint \in 1..c
      BY <3>1, <3>2, LeadsGrows DEF RecordsGrow, IInv, TypeOK
    <3> QED
      BY <3>3 DEF Leads, A, S
  <2>4. ASSUME worker[r].pc = "finish", worker[r].outcome = "succeeded"
        PROVE  Backed(worker[r].batch)'
    <3>1. PICK b \in Batches : b = worker[r].batch /\ Backed(b)
      BY <2>1, <2>4 DEF IInv, WorkersOK, WorkerIs, ChoiceIs
    <3>2. Backed(b)'
      BY <3>1, BackedGrows DEF IInv
    <3> QED
      BY <3>1, <3>2 DEF Backed
  <2>5. worker[r].pc = "promote" => Leads(worker[r].choice.checkpoint, worker[r])'
    BY <2>2 DEF Leads
  <2> QED
    BY <2>2, <2>3, <2>4, <2>5 DEF ChoiceIs
<1> QED
  BY <1>1, <1>2, <1>3

LEMMA AttemptsStay ==
  ASSUME IInv, TypeOK', NEW r \in Queues, worker'[r] = worker[r], CallsStay
  PROVE  AttemptIs(worker[r])'
<1>1. CurrentOf(worker[r])' = CurrentOf(worker[r])
  BY SameCurrent
<1>2. CASE worker[r].pc \in {"prepare", "submit"}
  <2>1. worker[r] \in Workers /\ worker[r].batch \in Batches /\ TodoOf(worker[r]) # {}
    BY <1>2 DEF IInv, TypeOK, WorkersOK, WorkerIs, PlaceIs, Busy
  <2>2. CurrentOf(worker[r]) \in Checkpoints
    BY <2>1, CurrentIs
  <2> DEFINE c == CurrentOf(worker[r])
  <2>3. /\ expired[c] \in Nat /\ expired'[c] \in Nat /\ expired[c] <= expired'[c]
        /\ worker[r].attempt \in Nat /\ prepared' = prepared
        /\ \A a \in Attempts : calls[c][a] = None => calls'[c][a] = None
    BY <2>1, <2>2 DEF CallsStay, IInv, TypeOK, EvalType, Workers
  <2>4. AttemptIs(worker[r])
    BY DEF IInv, WorkersOK, WorkerIs
  <2> HIDE DEF c
  <2> QED
    BY <1>1, <2>3, <2>4 DEF AttemptIs, c
<1>3. CASE worker[r].pc \notin {"prepare", "submit"}
  BY <1>3 DEF AttemptIs
<1> QED
  BY <1>2, <1>3

LEMMA LeasesStay ==
  ASSUME IInv, NEW r \in Queues, worker'[r] = worker[r], LeaseStays
  PROVE  LeaseIs(r, worker[r])'
BY DEF IInv, WorkersOK, WorkerIs, LeaseIs, LeaseStays

LEMMA RowsStay ==
  ASSUME IInv, NEW r \in Queues, worker'[r] = worker[r], UNCHANGED ledger
  PROVE  RowsAre(worker[r])'
<1>1. CurrentOf(worker[r])' = CurrentOf(worker[r])
  BY SameCurrent
<1> QED
  BY <1>1 DEF IInv, WorkersOK, WorkerIs, RowsAre, ledger, Contains

LEMMA ApartStays ==
  ASSUME IInv, \A r \in Queues : worker'[r].pc = "submit" => worker'[r] = worker[r]
  PROVE  ApartOK'
<1> SUFFICES ASSUME NEW q \in Queues, NEW r \in Queues, q # r,
                    At(q, "submit")', At(r, "submit")', (Current(q) = Current(r))'
             PROVE  worker'[q].attempt # worker'[r].attempt
  BY DEF ApartOK
<1>1. worker'[q] = worker[q] /\ worker'[r] = worker[r]
  BY DEF At
<1>2. Current(q)' = Current(q) /\ Current(r)' = Current(r)
  <2>1. Todo(q)' = Todo(q) /\ Todo(r)' = Todo(r)
    BY <1>1 DEF Todo
  <2> QED
    BY <2>1 DEF Current
<1> QED
  BY <1>1, <1>2 DEF IInv, ApartOK, At

LEMMA CallsStand ==
  ASSUME IInv, TypeOK', UNCHANGED <<prepared, calls>>,
         \A c \in Checkpoints : expired[c] <= expired'[c]
  PROVE  CallOK'
<1>1. \A c \in Checkpoints, a \in Attempts :
        a \in Int => (a <= expired[c] => a <= expired'[c])
  BY DEF IInv, TypeOK, EvalType
<1>2. Attempts \subseteq Int
  BY DEF Attempts
<1> QED
  BY <1>1, <1>2 DEF IInv, CallOK, OneLiveEvaluation

LEMMA LogStands ==
  ASSUME IInv, UNCHANGED <<ledger, wandbs, projection>>, ended => ended', slipped => slipped'
  PROVE  LogOK'
BY DEF IInv, LogOK, ProjectedIsLogged, ledger, wandbs

LEMMA SuccessStands ==
  ASSUME IInv, RecordsGrow, \A b \in Batches : job'[b] = "succeeded" => job[b] = "succeeded"
  PROVE  SuccessOK'
<1>1. ASSUME NEW b \in Batches, job'[b] = "succeeded"
      PROVE  Backed(b)'
  BY <1>1, BackedGrows DEF IInv, SuccessOK
<1> QED
  BY <1>1 DEF SuccessOK

LEMMA TypesStay ==
  ASSUME IInv,
         UNCHANGED <<ended, auto, lease, evaluations, records, wandbs, queue, ledger, slipped>>,
         worker' \in [Queues -> Workers], faults' \in Nat
  PROVE  TypeOK'
BY DEF IInv, TypeOK, WorldType, EvalType, LogType, evaluations, records, wandbs, queue, ledger

\* A step of one worker that changes nothing but its own record.
Moves(q) ==
  /\ worker' \in [Queues -> Workers] /\ \A r \in Queues \ {q} : worker'[r] = worker[r]
  /\ UNCHANGED <<ended, auto, lease, evaluations, records, wandbs, queue, ledger, slipped>>
  /\ faults' \in Nat

LEMMA MoveKeeps ==
  ASSUME IInv, NEW q \in Queues, Moves(q), worker'[q].pc # "submit",
         WorkerIs(q, worker[q])'
  PROVE  IInv'
<1>1. TypeOK'
  BY TypesStay DEF Moves
<1>2. RecordsGrow /\ CallsStay /\ LeaseStays /\ UNCHANGED ledger
  BY DEF Moves, RecordsGrow, CallsStay, LeaseStays, records, evaluations, wandbs, ledger,
     IInv, TypeOK, EvalType
<1>3. ASSUME NEW r \in Queues
      PROVE  WorkerIs(r, worker[r])'
  <2>1. CASE r = q
    BY <2>1
  <2>2. CASE r # q
    <3>1. worker'[r] = worker[r]
      BY <2>2 DEF Moves
    <3> QED
      BY <1>1, <1>2, <3>1, OthersStay, AttemptsStay, LeasesStay, RowsStay DEF WorkerIs
  <2> QED
    BY <2>1, <2>2
<1>4. ApartOK'
  <2>1. \A r \in Queues : worker'[r].pc = "submit" => worker'[r] = worker[r]
    BY DEF Moves
  <2> QED
    BY <2>1, ApartStays
<1>5. CallOK'
  <2>1. UNCHANGED <<prepared, calls>> /\ \A c \in Checkpoints : expired[c] <= expired'[c]
    BY DEF Moves, evaluations, IInv, TypeOK, EvalType
  <2> QED
    BY <1>1, <2>1, CallsStand
<1>6. LogOK'
  BY LogStands DEF Moves, records
<1>7. SuccessOK'
  BY <1>2, SuccessStands DEF Moves, queue
<1> QED
  BY <1>1, <1>3, <1>4, <1>5, <1>6, <1>7 DEF IInv, WorkersOK

-----------------------------------------------------------------------------
(* Steps that change the worker alone *)

OnlyWorker ==
  /\ UNCHANGED <<ended, auto, lease, evaluations, records, wandbs, queue, ledger, slipped>>
  /\ faults' \in Nat

OthersSame(q) == \A r \in Queues \ {q} : worker'[r] = worker[r]

SameJob(q) ==
  /\ worker'[q].batch = worker[q].batch /\ worker'[q].asked = worker[q].asked
  /\ worker'[q].early = worker[q].early /\ worker'[q].offset = worker[q].offset
  /\ worker'[q].outcome = worker[q].outcome /\ worker'[q].choice = worker[q].choice

LEMMA GoesIs ==
  ASSUME TypeOK, NEW q \in Queues, NEW place \in Working \cup {"finish"}, Goes(q, place)
  PROVE  /\ worker' \in [Queues -> Workers] /\ OthersSame(q) /\ SameJob(q)
         /\ worker'[q].pc = place /\ worker'[q].attempt = worker[q].attempt
         /\ worker'[q].statuses = worker[q].statuses
<1> DEFINE w == [worker[q] EXCEPT !.pc = place]
<1>1. worker[q] \in Workers /\ worker \in [Queues -> Workers]
  BY DEF TypeOK
<1>2. w \in Workers /\ w.pc = place /\ w.batch = worker[q].batch /\ w.asked = worker[q].asked
      /\ w.early = worker[q].early /\ w.offset = worker[q].offset
      /\ w.attempt = worker[q].attempt /\ w.statuses = worker[q].statuses
      /\ w.choice = worker[q].choice /\ w.outcome = worker[q].outcome
  BY <1>1 DEF Workers
<1>3. worker' = [worker EXCEPT ![q] = w]
  BY <1>1 DEF Goes
<1> HIDE DEF w
<1> QED
  BY <1>1, <1>2, <1>3 DEF OthersSame, SameJob

LEMMA SettlesIs ==
  ASSUME TypeOK, NEW q \in Queues, Batch(q) \in Batches, Todo(q) # {},
         NEW status \in Shown \cup {None}, Settles(q, status)
  PROVE  /\ worker' \in [Queues -> Workers] /\ OthersSame(q) /\ SameJob(q)
         /\ worker'[q].pc = "look"
         /\ worker'[q].statuses = [worker[q].statuses EXCEPT ![Current(q)] = status]
<1> DEFINE c == Current(q)
           s == [worker[q].statuses EXCEPT ![c] = status]
           w == [worker[q] EXCEPT !.pc = "look", !.attempt = 0, !.statuses[c] = status]
<1>1. worker[q] \in Workers /\ worker \in [Queues -> Workers]
  BY DEF TypeOK
<1>2. c \in Checkpoints
  BY <1>1, CurrentIs, PlacesAre
<1> HIDE DEF c
<1>3. s \in [Checkpoints -> Shown \cup {None}]
  BY <1>1, <1>2 DEF Workers
<1>4. w = [worker[q] EXCEPT !.pc = "look", !.attempt = 0, !.statuses = s]
  BY <1>1 DEF Workers
<1> HIDE DEF s
<1>5. w \in Workers /\ w.pc = "look" /\ w.batch = worker[q].batch /\ w.asked = worker[q].asked
      /\ w.early = worker[q].early /\ w.offset = worker[q].offset /\ w.statuses = s
      /\ w.choice = worker[q].choice /\ w.outcome = worker[q].outcome
  BY <1>1, <1>3, <1>4 DEF Workers, Working
<1>6. worker' = [worker EXCEPT ![q] = w]
  <2> DEFINE one == [worker EXCEPT ![q].pc = "look", ![q].attempt = 0]
  <2>1. /\ one \in [Queues -> Workers] /\ one[q].statuses = worker[q].statuses
        /\ one = [worker EXCEPT ![q] = [worker[q] EXCEPT !.pc = "look", !.attempt = 0]]
    BY <1>1 DEF Workers, Working
  <2>2. worker' = [one EXCEPT ![q].statuses[c] = status]
    BY DEF Settles, c
  <2> HIDE DEF one
  <2>3. worker' = [one EXCEPT ![q] = [one[q] EXCEPT !.statuses = s]]
    BY <2>1, <2>2 DEF s
  <2> QED
    BY <1>1, <1>4, <2>1, <2>3
<1> HIDE DEF w
<1>7. worker' \in [Queues -> Workers] /\ OthersSame(q) /\ worker'[q] = w
  BY <1>1, <1>5, <1>6 DEF OthersSame
<1>8. SameJob(q) /\ worker'[q].pc = "look" /\ worker'[q].statuses = s
  BY <1>5, <1>7 DEF SameJob
<1>9. s = [worker[q].statuses EXCEPT ![Current(q)] = status]
  BY DEF s, c
<1> QED
  BY <1>7, <1>8, <1>9

LEMMA ReturnsIs ==
  ASSUME TypeOK, NEW q \in Queues, NEW state \in Ends, Returns(q, state)
  PROVE  /\ worker' \in [Queues -> Workers] /\ OthersSame(q)
         /\ worker'[q].pc = "finish" /\ worker'[q].batch = worker[q].batch
         /\ worker'[q].outcome = state
         /\ \A c \in Checkpoints : worker'[q].statuses[c] = None
<1> DEFINE w == [Idle EXCEPT !.batch = worker[q].batch, !.pc = "finish", !.outcome = state]
<1>1. worker[q] \in Workers /\ worker \in [Queues -> Workers]
  BY DEF TypeOK
<1>2. w \in Workers /\ w.pc = "finish" /\ w.batch = worker[q].batch /\ w.outcome = state
      /\ w.statuses = Idle.statuses
  BY <1>1, NoneIs DEF Workers
<1>3. worker' = [worker EXCEPT ![q] = w]
  BY <1>1 DEF Returns
<1> HIDE DEF w
<1> QED
  BY <1>1, <1>2, <1>3, NoneIs DEF OthersSame

LEMMA HomeIs ==
  ASSUME IInv, NEW q \in Queues, ~At(q, "idle")
  PROVE  /\ Batch(q) \in Batches /\ Home[Batch(q)] = q /\ worker[q] \in Workers
         /\ worker[q].pc \in Busy =>
              Todo(q) # {} /\ Current(q) \in Checkpoints /\ Current(q) \in Selection[Batch(q)]
<1>1. worker[q].batch \in Batches /\ Home[worker[q].batch] = q /\ worker[q] \in Workers
      /\ (worker[q].pc \in Busy => TodoOf(worker[q]) # {})
  BY DEF At, IInv, TypeOK, WorkersOK, WorkerIs, PlaceIs
<1> QED
  BY <1>1, CurrentIs, PlacesAre

\* A worker that returns with anything but success.
LEMMA ReturnFits ==
  ASSUME IInv, NEW q \in Queues, ~At(q, "idle"), NEW state \in Ends \ {None, "succeeded"},
         Returns(q, state)
  PROVE  WorkerIs(q, worker[q])'
<1>1. /\ worker'[q].pc = "finish" /\ worker'[q].batch = worker[q].batch
      /\ worker'[q].outcome = state
      /\ \A c \in Checkpoints : worker'[q].statuses[c] = None
  BY ReturnsIs DEF IInv
<1>2. Batch(q) \in Batches /\ Home[Batch(q)] = q
  BY HomeIs
<1> QED
  BY <1>1, <1>2, StatusesAre DEF WorkerIs, PlaceIs, AttemptIs, LeaseIs, RowsAre, StatusIs,
     ChoiceIs, Batch, Busy, Closing, Working

LEMMA ReturnKeeps ==
  ASSUME IInv, NEW q \in Queues, ~At(q, "idle"), NEW state \in Ends \ {None, "succeeded"},
         Returns(q, state), OnlyWorker
  PROVE  IInv'
<1>1. Moves(q) /\ worker'[q].pc = "finish"
  BY ReturnsIs DEF IInv, OnlyWorker, OthersSame, Moves
<1> QED
  BY <1>1, ReturnFits, MoveKeeps

\* A worker that has a status of its checkpoint and looks at the next one.
LEMMA SettleFits ==
  ASSUME IInv, NEW q \in Queues, worker[q].pc \in Busy \cup {"look"}, Todo(q) # {},
         NEW status \in Shown \cup {None}, Settles(q, status),
         status \in Told => verified'[Current(q)] = status /\ projection'[Current(q)] # 0,
         RecordsGrow, LeaseStays \/ LeaseIs(q, worker[q])'
  PROVE  WorkerIs(q, worker[q])'
<1>1. ~At(q, "idle") /\ worker[q].pc \in Working /\ worker[q].pc # "finish"
  BY StatusesAre DEF At, Busy, Working
<1>2. Batch(q) \in Batches /\ Home[Batch(q)] = q /\ worker[q] \in Workers
  BY <1>1, HomeIs
<1>3. /\ SameJob(q) /\ worker'[q].pc = "look"
      /\ worker'[q].statuses = [worker[q].statuses EXCEPT ![Current(q)] = status]
  BY <1>2, SettlesIs DEF IInv
<1>4. WorkerIs(q, worker[q])
  BY DEF IInv, WorkersOK
<1>5. PlaceIs(q, worker[q])' /\ AttemptIs(worker[q])' /\ RowsAre(worker[q])'
      /\ ChoiceIs(worker[q])'
  BY <1>1, <1>2, <1>3, <1>4, StatusesAre DEF SameJob, WorkerIs, PlaceIs, AttemptIs, RowsAre,
     ChoiceIs, Batch, Busy, Closing
<1>6. LeaseIs(q, worker[q])'
  BY <1>1, <1>3, <1>4 DEF SameJob, WorkerIs, LeaseIs, LeaseStays
<1>7. StatusIs(worker[q])'
  <2>1. ASSUME NEW c \in Checkpoints, worker'[q].statuses[c] \in Told
        PROVE  verified'[c] = worker'[q].statuses[c] /\ projection'[c] # 0
    <3>1. worker[q].statuses \in [Checkpoints -> Shown \cup {None}]
      BY <1>2 DEF Workers
    <3>2. CASE c = Current(q)
      <4>1. worker'[q].statuses[c] = status
        BY <1>3, <3>1, <3>2
      <4> QED
        BY <2>1, <3>2, <4>1
    <3>3. CASE c # Current(q)
      <4>1. worker'[q].statuses[c] = worker[q].statuses[c]
        BY <1>3, <3>1, <3>3
      <4>2. verified[c] = worker[q].statuses[c] /\ projection[c] # 0 /\ verified[c] # None
        BY <1>4, <2>1, <4>1, StatusesAre DEF WorkerIs, StatusIs
      <4> QED
        BY <4>1, <4>2 DEF RecordsGrow
    <3> QED
      BY <3>2, <3>3
  <2> QED
    BY <2>1 DEF StatusIs
<1> QED
  BY <1>5, <1>6, <1>7 DEF WorkerIs

LEMMA SettleKeeps ==
  ASSUME IInv, NEW q \in Queues, worker[q].pc \in Busy \cup {"look"}, Todo(q) # {},
         NEW status \in Shown, Settles(q, status), OnlyWorker,
         status \in Told => verified[Current(q)] = status /\ projection[Current(q)] # 0
  PROVE  IInv'
<1>1. Batch(q) \in Batches
  BY HomeIs, StatusesAre DEF At, Busy
<1>2. Moves(q) /\ worker'[q].pc # "submit"
  BY <1>1, SettlesIs DEF IInv, OnlyWorker, OthersSame, Moves
<1>3. RecordsGrow /\ LeaseStays /\ verified' = verified /\ projection' = projection
  BY DEF OnlyWorker, RecordsGrow, LeaseStays, records, evaluations, wandbs, ledger
<1>4. WorkerIs(q, worker[q])'
  BY <1>3, SettleFits
<1> QED
  BY <1>2, <1>4, MoveKeeps

\* A worker that goes on to a place where it finds what it needs.
LEMMA GoFits ==
  ASSUME IInv, NEW q \in Queues, worker[q].pc \in Working,
         NEW place \in Working \ {"prepare", "submit", "promote"}, Goes(q, place),
         place \in Busy => Todo(q) # {},
         place \in {"append", "publish", "record"} => ~worker[q].early,
         place = "cancel" => worker[q].asked,
         place \in Closing /\ ~worker[q].asked =>
           \A c \in Selection[Batch(q)] : Statuses(q)[c] \in Final,
         place \in {"leader", "receipt"} => Leads(promotion'.checkpoint, worker[q]),
         place \in {"publish", "record"} => Contains(rows'[Batch(q)], Current(q)),
         place = "record" => sent'[Batch(q)] = Len(rows'[Batch(q)]),
         RecordsGrow, LeaseStays \/ LeaseIs(q, worker[q])'
  PROVE  WorkerIs(q, worker[q])'
<1>1. /\ SameJob(q) /\ worker'[q].pc = place /\ worker'[q].statuses = worker[q].statuses
  BY GoesIs DEF IInv
<1>2. WorkerIs(q, worker[q]) /\ worker[q].pc # "idle" /\ worker[q].pc # "finish"
  BY StatusesAre DEF IInv, WorkersOK
<1>3. PlaceIs(q, worker[q])'
  <2>1. TodoOf(worker[q])' = Todo(q)
    BY <1>1, SameCurrent, PlacesAre DEF SameJob
  <2> QED
    BY <1>1, <1>2, <2>1, StatusesAre DEF SameJob, WorkerIs, PlaceIs, Batch, Statuses
<1>4. AttemptIs(worker[q])' /\ RowsAre(worker[q])'
  <2>1. CurrentOf(worker[q])' = Current(q)
    BY <1>1, SameCurrent, PlacesAre DEF SameJob
  <2> QED
    BY <1>1, <2>1, StatusesAre DEF AttemptIs, RowsAre, SameJob, Batch
<1>5. LeaseIs(q, worker[q])'
  BY <1>1, <1>2 DEF SameJob, WorkerIs, LeaseIs, LeaseStays
<1>6. StatusIs(worker[q])'
  <2>1. \A c \in Checkpoints : worker[q].statuses[c] \in Told =>
          verified[c] = worker[q].statuses[c] /\ projection[c] # 0
    BY <1>2 DEF WorkerIs, StatusIs
  <2> QED
    BY <1>1, <2>1, StatusesAre DEF StatusIs, RecordsGrow
<1>7. ChoiceIs(worker[q])'
  BY <1>1, StatusesAre DEF ChoiceIs, Leads, SameJob
<1> QED
  BY <1>3, <1>4, <1>5, <1>6, <1>7 DEF WorkerIs

LEMMA GoKeeps ==
  ASSUME IInv, NEW q \in Queues, worker[q].pc \in Working,
         NEW place \in Working \ {"prepare", "submit", "promote"}, Goes(q, place), OnlyWorker,
         place \in Busy => Todo(q) # {},
         place \in {"append", "publish", "record"} => ~worker[q].early,
         place = "cancel" => worker[q].asked,
         place \in Closing /\ ~worker[q].asked =>
           \A c \in Selection[Batch(q)] : Statuses(q)[c] \in Final,
         place \in {"leader", "receipt"} => Leads(promotion.checkpoint, worker[q]),
         place \in {"publish", "record"} => Contains(rows[Batch(q)], Current(q)),
         place = "record" => sent[Batch(q)] = Len(rows[Batch(q)])
  PROVE  IInv'
<1>1. Moves(q) /\ worker'[q].pc # "submit"
  BY GoesIs DEF IInv, OnlyWorker, OthersSame, Moves
<1>2. RecordsGrow /\ LeaseStays /\ promotion' = promotion /\ rows' = rows /\ sent' = sent
  BY DEF OnlyWorker, RecordsGrow, LeaseStays, records, evaluations, wandbs, ledger
<1>3. WorkerIs(q, worker[q])'
  BY <1>2, GoFits
<1> QED
  BY <1>1, <1>3, MoveKeeps

-----------------------------------------------------------------------------
(* The steps of a worker, one by one *)

LEMMA StayIs ==
  ASSUME IInv
  PROVE  faults \in Nat /\ (Fault => faults' \in Nat)
BY DEF IInv, TypeOK, WorldType, Fault

LEMMA PublishedKeeps ==
  ASSUME IInv, NEW q \in Queues, Published(q)
  PROVE  IInv'
<1>1. OnlyWorker /\ Goes(q, "record") /\ worker[q].pc = "publish"
  BY StayIs DEF Published, OnlyWorker, At
<1>2. WorkerIs(q, worker[q]) /\ worker[q] \in Workers
  BY DEF IInv, WorkersOK, TypeOK
<1>3. Batch(q) \in Batches /\ Todo(q) # {} /\ ~worker[q].early
  BY <1>1, <1>2, PlacesAre DEF WorkerIs, PlaceIs, Busy
<1>4. sent[Batch(q)] = Len(rows[Batch(q)])
  BY <1>3 DEF Published, Unsent, IInv, LogOK, TypeOK, LogType
<1>5. Contains(rows[Batch(q)], Current(q))
  BY <1>1, <1>2, PlacesAre DEF WorkerIs, RowsAre
<1> QED
  BY <1>1, <1>3, <1>4, <1>5, GoKeeps DEF Working, Busy, Closing

LEMMA ConcludeKeeps ==
  ASSUME IInv, NEW q \in Queues, Conclude(q)
  PROVE  IInv'
<1>1. OnlyWorker /\ worker[q].pc = "look"
  BY StayIs DEF Conclude, OnlyWorker, At
<1>2. CASE Goes(q, "cancel") /\ worker[q].asked
  BY <1>1, <1>2, GoKeeps DEF Working, Busy, Closing
<1>3. CASE Returns(q, "retry_wait")
  BY <1>1, <1>3, ReturnKeeps DEF At, Ends, None
<1>4. CASE Goes(q, "choose") /\ Open(q) = {}
  BY <1>1, <1>4, GoKeeps DEF Working, Busy, Closing, Open
<1> QED
  BY <1>2, <1>3, <1>4 DEF Conclude

LEMMA LeaderKeeps ==
  ASSUME IInv, NEW q \in Queues, Leader(q)
  PROVE  IInv'
<1>1. OnlyWorker /\ worker[q].pc = "leader"
  BY StayIs DEF Leader, OnlyWorker, At
<1>2. CASE Goes(q, "receipt")
  <2>1. WorkerIs(q, worker[q])
    BY DEF IInv, WorkersOK
  <2>2. /\ Leads(promotion.checkpoint, worker[q])
        /\ ~worker[q].asked => \A c \in Selection[Batch(q)] : Statuses(q)[c] \in Final
    BY <1>1, <2>1 DEF WorkerIs, PlaceIs, ChoiceIs, Closing, Batch, Statuses
  <2> QED
    BY <1>1, <1>2, <2>2, GoKeeps DEF Working, Busy, Closing
<1>3. CASE Returns(q, "retry_wait")
  BY <1>1, <1>3, ReturnKeeps DEF At, Ends, None
<1> QED
  BY <1>2, <1>3 DEF Leader

LEMMA RemoteLagsKeeps ==
  ASSUME IInv, NEW q \in Queues, RemoteLags(q)
  PROVE  IInv'
<1>1. OnlyWorker /\ worker[q].pc = "record" /\ Settles(q, "awaiting")
  BY StayIs DEF RemoteLags, OnlyWorker, At, Waits
<1>2. Todo(q) # {}
  BY <1>1, HomeIs DEF At, Busy
<1> QED
  BY <1>1, <1>2, SettleKeeps, StatusesAre DEF Busy

LEMMA RaisesKeeps ==
  ASSUME IInv, NEW q \in Queues, Raises(q)
  PROVE  IInv'
<1>1. OnlyWorker /\ ~At(q, "idle") /\ Returns(q, "failed")
  BY StayIs DEF Raises, OnlyWorker, At
<1> QED
  BY <1>1, ReturnKeeps DEF Ends, None

LEMMA LookKeeps ==
  ASSUME IInv, NEW q \in Queues, Look(q)
  PROVE  IInv'
<1> DEFINE c == Current(q)
<1>1. OnlyWorker /\ worker[q].pc = "look" /\ Todo(q) # {} /\ ~At(q, "idle")
  BY StayIs DEF Look, OnlyWorker, At
<1>2. WorkerIs(q, worker[q]) /\ worker[q] \in Workers /\ Batch(q) \in Batches
  BY <1>1, HomeIs DEF IInv, WorkersOK
<1>9. c \in Checkpoints
  BY <1>1, <1>2, CurrentIs, PlacesAre
<1> HIDE DEF c
<1>3. c \in Checkpoints /\ verified[c] \in Shown \cup {None}
  BY <1>9 DEF IInv, TypeOK, EvalType
<1>4. CASE verified[c] # None /\ Show(q, c)
  <2>1. CASE projection[c] # 0
    <3>1. Settles(q, verified[c]) /\ verified[c] \in Shown
      BY <1>3, <1>4, <2>1 DEF Show
    <3> QED
      BY <1>1, <2>1, <3>1, SettleKeeps DEF c
  <2>2. CASE projection[c] = 0 /\ worker[q].early
    <3>1. Settles(q, "awaiting")
      BY <1>4, <2>2 DEF Show
    <3> QED
      BY <1>1, <3>1, SettleKeeps, StatusesAre
  <2>3. CASE projection[c] = 0 /\ ~worker[q].early
    <3>1. Goes(q, "append")
      BY <1>4, <2>3 DEF Show
    <3> QED
      BY <1>1, <2>3, <3>1, GoKeeps DEF Working, Busy, Closing
  <2> QED
    BY <2>1, <2>2, <2>3
<1>5. CASE Goes(q, "verify")
  BY <1>1, <1>5, GoKeeps DEF Working, Busy, Closing
<1>6. CASE Returns(q, "failed")
  BY <1>1, <1>6, ReturnKeeps DEF Ends, None
<1>7. CASE Settles(q, "unsettled") \/ Settles(q, "expired")
  BY <1>1, <1>7, SettleKeeps, StatusesAre
<1>8. CASE ~Pending(c) /\ worker' = [worker EXCEPT ![q].pc = "prepare",
                                                   ![q].attempt = prepared[c] + 1]
  <2> DEFINE next == prepared[c] + 1
             w == [worker[q] EXCEPT !.pc = "prepare", !.attempt = next]
  <2>1. prepared[c] \in Nat /\ expired[c] \in Nat /\ worker \in [Queues -> Workers]
    BY <1>3 DEF IInv, TypeOK, EvalType
  <2>2. next <= expired[c] + 1 /\ next <= prepared[c] + 1 /\ next \in Nat /\ next >= 1
    BY <1>8, <2>1 DEF Pending
  <2>12. worker' = [worker EXCEPT ![q].pc = "prepare", ![q].attempt = next]
    BY <1>8
  <2> HIDE DEF next
  <2>3. w \in Workers /\ w.pc = "prepare" /\ w.batch = worker[q].batch
        /\ w.asked = worker[q].asked /\ w.early = worker[q].early
        /\ w.offset = worker[q].offset /\ w.attempt = next
        /\ w.statuses = worker[q].statuses /\ w.outcome = worker[q].outcome
    BY <1>2, <2>2 DEF Workers, Working, Busy
  <2>4. worker' = [worker EXCEPT ![q] = w]
    BY <2>1, <2>12
  <2> HIDE DEF w
  <2>5. worker' \in [Queues -> Workers] /\ OthersSame(q) /\ worker'[q] = w
    BY <2>1, <2>3, <2>4 DEF OthersSame
  <2>6. /\ TodoOf(worker[q])' = Todo(q) /\ CurrentOf(worker[q])' = c
    BY <2>3, <2>5, SameCurrent, PlacesAre DEF c
  <2>7. UNCHANGED <<ended, lease, slipped, wandb, sent, prepared, expired, verified, projection>>
    BY <1>1 DEF OnlyWorker, evaluations, wandbs, ledger, records
  <2>8. PlaceIs(q, worker[q])'
    BY <1>1, <1>2, <2>3, <2>5, <2>6 DEF WorkerIs, PlaceIs, Busy, Closing
  <2>9. AttemptIs(worker[q])'
    BY <2>1, <2>2, <2>3, <2>5, <2>6, <2>7 DEF AttemptIs
  <2>10. LeaseIs(q, worker[q])' /\ StatusIs(worker[q])' /\ RowsAre(worker[q])'
         /\ ChoiceIs(worker[q])'
    BY <1>1, <1>2, <2>3, <2>5, <2>7 DEF WorkerIs, LeaseIs, StatusIs, RowsAre, ChoiceIs, Working
  <2>11. Moves(q) /\ worker'[q].pc # "submit"
    BY <1>1, <2>3, <2>5 DEF Moves, OnlyWorker, OthersSame
  <2> QED
    BY <2>8, <2>9, <2>10, <2>11, MoveKeeps DEF WorkerIs
<1> QED
  BY <1>1, <1>4, <1>5, <1>6, <1>7, <1>8 DEF Look, c

\* The candidate of the lowest step is no later than an accepted one of the batch.
LEMMA LowestLeads ==
  ASSUME IInv, NEW q \in Queues, Batch(q) \in Batches, NEW k \in Candidates,
         k.checkpoint = LowestStep
  PROVE  k \in Promotions /\ k # NoPromotion /\ Leads(k.checkpoint, worker[q])
<1> DEFINE Steps == {j.checkpoint : j \in Candidates}
<1>1. Candidates \subseteq Promotions \ {NoPromotion}
  BY DEF Candidates, Accepted, Promotions, NoPromotion, IInv, TypeOK, WorldType
<1>2. Steps \subseteq Checkpoints
  BY <1>1 DEF Promotions, NoPromotion, Accepted
<1>3. Steps \in SUBSET Nat /\ k.checkpoint \in Steps
  BY <1>2
<1>4. \A n \in Steps : Min(Steps) <= n
  <2> HIDE DEF Steps
  <2> QED
    BY <1>3, MinIs
<1>5. k.checkpoint = Min(Steps)
  BY DEF LowestStep
<1>6. ASSUME NEW c \in Selection[worker[q].batch], worker[q].statuses[c] = "accepted"
      PROVE  k.checkpoint \in 1..c
  <2>1. c \in Checkpoints
    BY DEF Batch
  <2>2. verified[c] = "accepted"
    BY <1>6, <2>1 DEF IInv, WorkersOK, WorkerIs, StatusIs, Told
  <2>3. Accepted(c, "batch") \in Candidates
    BY <2>1, <2>2 DEF Candidates
  <2>4. c \in Steps
    BY <2>3 DEF Accepted
  <2> HIDE DEF Steps
  <2>5. k.checkpoint \in Nat \ {0} /\ c \in Nat /\ k.checkpoint <= c
    BY <1>2, <1>3, <1>4, <1>5, <2>1, <2>4
  <2> QED
    BY <2>5
<1> QED
  BY <1>1, <1>6 DEF Leads

LEMMA ChooseKeeps ==
  ASSUME IInv, NEW q \in Queues, Choose(q)
  PROVE  IInv'
<1>1. OnlyWorker /\ worker[q].pc = "choose" /\ ~At(q, "idle")
  BY StayIs DEF Choose, OnlyWorker, At
<1>2. WorkerIs(q, worker[q]) /\ worker[q] \in Workers /\ Batch(q) \in Batches
  BY <1>1, HomeIs DEF IInv, WorkersOK
<1>3. ~worker[q].asked => \A c \in Selection[Batch(q)] : Statuses(q)[c] \in Final
  BY <1>1, <1>2 DEF WorkerIs, PlaceIs, Closing, Batch, Statuses
<1>4. CASE Candidates = {} /\ Goes(q, "receipt")
  <2>1. Leads(promotion.checkpoint, worker[q])
    <3>1. ASSUME NEW c \in Selection[worker[q].batch], worker[q].statuses[c] = "accepted"
          PROVE  FALSE
      <4>1. c \in Checkpoints
        BY <1>2 DEF Batch
      <4>2. verified[c] = "accepted"
        BY <1>2, <3>1, <4>1 DEF WorkerIs, StatusIs, Told
      <4> QED
        BY <1>4, <4>1, <4>2 DEF Candidates
    <3> QED
      BY <3>1 DEF Leads
  <2> QED
    BY <1>1, <1>3, <1>4, <2>1, GoKeeps DEF Working, Busy, Closing
<1>5. CASE Returns(q, "failed") \/ Returns(q, "blocked")
  BY <1>1, <1>5, ReturnKeeps DEF Ends, None
<1>6. ASSUME NEW k \in Candidates, k.checkpoint = LowestStep, promotion = k, Goes(q, "leader")
      PROVE  IInv'
  BY <1>1, <1>2, <1>3, <1>6, LowestLeads, GoKeeps DEF Working, Busy, Closing
<1>7. ASSUME NEW k \in Candidates, k.checkpoint = LowestStep,
             worker' = [worker EXCEPT ![q].pc = "promote", ![q].choice = k]
      PROVE  IInv'
  <2> DEFINE w == [worker[q] EXCEPT !.pc = "promote", !.choice = k]
  <2>1. k \in Promotions /\ k # NoPromotion /\ Leads(k.checkpoint, worker[q])
    BY <1>2, <1>7, LowestLeads
  <2>2. w \in Workers /\ w.pc = "promote" /\ w.batch = worker[q].batch
        /\ w.asked = worker[q].asked /\ w.early = worker[q].early
        /\ w.offset = worker[q].offset /\ w.choice = k
        /\ w.statuses = worker[q].statuses /\ w.outcome = worker[q].outcome
    BY <1>2, <2>1 DEF Workers, Working, Closing
  <2>3. worker \in [Queues -> Workers]
    BY DEF IInv, TypeOK
  <2>4. worker' = [worker EXCEPT ![q] = w]
    BY <1>7, <2>3
  <2> HIDE DEF w
  <2>5. worker' \in [Queues -> Workers] /\ OthersSame(q) /\ worker'[q] = w
    BY <2>2, <2>3, <2>4 DEF OthersSame
  <2>6. UNCHANGED <<ended, lease, slipped, wandb, sent, verified, projection>>
    BY <1>1 DEF OnlyWorker, evaluations, wandbs, ledger, records
  <2>7. PlaceIs(q, worker[q])' /\ AttemptIs(worker[q])'
    BY <1>1, <1>2, <2>2, <2>5 DEF WorkerIs, PlaceIs, AttemptIs, Busy, Closing
  <2>8. LeaseIs(q, worker[q])' /\ StatusIs(worker[q])' /\ RowsAre(worker[q])'
    BY <1>1, <1>2, <2>2, <2>5, <2>6 DEF WorkerIs, LeaseIs, StatusIs, RowsAre, Working, Closing
  <2>9. ChoiceIs(worker[q])'
    BY <2>1, <2>2, <2>5 DEF ChoiceIs, Leads
  <2>10. Moves(q) /\ worker'[q].pc # "submit"
    BY <1>1, <2>2, <2>5 DEF Moves, OnlyWorker, OthersSame
  <2> QED
    BY <2>7, <2>8, <2>9, <2>10, MoveKeeps DEF WorkerIs
<1>8. \/ Candidates = {} /\ Goes(q, "receipt")
      \/ Returns(q, "failed") \/ Returns(q, "blocked")
      \/ \E k \in Candidates :
           /\ k.checkpoint = LowestStep
           /\ \/ worker' = [worker EXCEPT ![q].pc = "promote", ![q].choice = k]
              \/ promotion = k /\ Goes(q, "leader")
  BY DEF Choose
<1> QED
  BY <1>4, <1>5, <1>6, <1>7, <1>8

\* A step of one worker that changes shared state too.
LEMMA StepKeeps ==
  ASSUME IInv, TypeOK', NEW q \in Queues, OthersSame(q), RecordsGrow, WorkerIs(q, worker[q])',
         \A r \in Queues \ {q} : AttemptIs(worker[r])' /\ LeaseIs(r, worker[r])'
                                 /\ RowsAre(worker[r])',
         ApartOK', CallOK', LogOK', SuccessOK'
  PROVE  IInv'
<1>1. ASSUME NEW r \in Queues
      PROVE  WorkerIs(r, worker[r])'
  <2>1. CASE r = q
    BY <2>1
  <2>2. CASE r # q
    BY <2>2, OthersStay DEF OthersSame, WorkerIs
  <2> QED
    BY <2>1, <2>2
<1> QED
  BY <1>1 DEF IInv, WorkersOK

LEMMA ApartFromOther ==
  ASSUME IInv, NEW q \in Queues, OthersSame(q), worker'[q].pc # "submit"
  PROVE  ApartOK'
<1>1. \A r \in Queues : worker'[r].pc = "submit" => worker'[r] = worker[r]
  BY DEF OthersSame
<1> QED
  BY <1>1, ApartStays

LEMMA OthersKeep ==
  ASSUME IInv, TypeOK', NEW q \in Queues, OthersSame(q)
  PROVE  /\ CallsStay => \A r \in Queues \ {q} : AttemptIs(worker[r])'
         /\ LeaseStays => \A r \in Queues \ {q} : LeaseIs(r, worker[r])'
         /\ UNCHANGED ledger => \A r \in Queues \ {q} : RowsAre(worker[r])'
<1>1. ASSUME CallsStay, NEW r \in Queues \ {q}
      PROVE  AttemptIs(worker[r])'
  BY <1>1, AttemptsStay DEF OthersSame
<1>2. ASSUME LeaseStays, NEW r \in Queues \ {q}
      PROVE  LeaseIs(r, worker[r])'
  BY <1>2, LeasesStay DEF OthersSame
<1>3. ASSUME UNCHANGED ledger, NEW r \in Queues \ {q}
      PROVE  RowsAre(worker[r])'
  BY <1>3, RowsStay DEF OthersSame
<1> QED
  BY <1>1, <1>2, <1>3

LEMMA UsedIs ==
  ASSUME IInv
  PROVE  Used \in Nat /\ Used <= wandb /\ \A c \in Checkpoints : projection[c] <= Used
<1> DEFINE S == {projection[c] : c \in Checkpoints} \cup {0}
<1>1. S \in SUBSET Nat /\ S # {} /\ wandb \in Nat /\ \A n \in S : n <= wandb
  BY DEF IInv, TypeOK, LogType, LogOK
<1>2. \A c \in Checkpoints : projection[c] \in S
  OBVIOUS
<1>3. Used = Max(S)
  BY DEF Used
<1> HIDE DEF S
<1>4. Max(S) \in S /\ \A n \in S : n <= Max(S)
  BY <1>1, MaxIs
<1> QED
  BY <1>1, <1>2, <1>3, <1>4

LEMMA BeginKeeps ==
  ASSUME IInv, NEW q \in Queues, Begin(q)
  PROVE  IInv'
<1>1. worker[q].pc = "begin" /\ ~At(q, "idle") /\ faults' = faults
  BY DEF Begin, At
<1>2. WorkerIs(q, worker[q]) /\ worker[q] \in Workers /\ Batch(q) \in Batches
  BY <1>1, HomeIs DEF IInv, WorkersOK
<1>3. worker \in [Queues -> Workers] /\ faults \in Nat /\ wandb \in Nat
  BY DEF IInv, TypeOK, WorldType, LogType
<1>4. CASE Returns(q, "retry_wait") /\ UNCHANGED <<lease, slipped>>
  <2>1. OnlyWorker
    BY <1>1, <1>3, <1>4 DEF Begin, OnlyWorker
  <2> QED
    BY <1>1, <1>4, <2>1, ReturnKeeps DEF Ends, None
<1>5. CASE ~ended /\ UNCHANGED <<lease, slipped>>
           /\ worker' = [worker EXCEPT ![q].pc = "look", ![q].early = TRUE]
  <2> DEFINE w == [worker[q] EXCEPT !.pc = "look", !.early = TRUE]
  <2>1. w \in Workers /\ w.pc = "look" /\ w.batch = worker[q].batch /\ w.early
        /\ w.statuses = worker[q].statuses /\ w.outcome = worker[q].outcome
    BY <1>2 DEF Workers, Working
  <2>2. worker' = [worker EXCEPT ![q] = w]
    BY <1>3, <1>5
  <2> HIDE DEF w
  <2>3. worker' \in [Queues -> Workers] /\ OthersSame(q) /\ worker'[q] = w
    BY <1>3, <2>1, <2>2 DEF OthersSame
  <2>4. UNCHANGED <<verified, projection>>
    BY DEF Begin, evaluations, records
  <2>5. WorkerIs(q, worker[q])'
    BY <1>1, <1>2, <2>1, <2>3, <2>4 DEF WorkerIs, PlaceIs, AttemptIs, LeaseIs, RowsAre,
       StatusIs, ChoiceIs, Busy, Closing
  <2>6. Moves(q) /\ worker'[q].pc # "submit"
    BY <1>1, <1>3, <1>5, <2>1, <2>3 DEF Begin, Moves, OthersSame
  <2> QED
    BY <2>5, <2>6, MoveKeeps
<1>6. CASE /\ ended /\ lease \in {Free, q} /\ lease' = q
           /\ worker' = [worker EXCEPT ![q].pc = "look", ![q].offset = Used]
           /\ slipped' = (slipped \/ wandb > Used)
  <2> DEFINE w == [worker[q] EXCEPT !.pc = "look", !.offset = Used]
  <2>1. w \in Workers /\ w.pc = "look" /\ w.batch = worker[q].batch /\ w.offset = Used
        /\ w.statuses = worker[q].statuses /\ w.outcome = worker[q].outcome
    BY <1>2, UsedIs DEF Workers, Working
  <2>2. worker' = [worker EXCEPT ![q] = w]
    BY <1>3, <1>6
  <2> HIDE DEF w
  <2>3. worker' \in [Queues -> Workers] /\ OthersSame(q) /\ worker'[q] = w
    BY <1>3, <2>1, <2>2 DEF OthersSame
  <2>4. /\ UNCHANGED <<ended, auto, evaluations, records, wandbs, queue, ledger>>
        /\ UNCHANGED <<ended, verified, projection, wandb, sent, prepared, calls, expired>>
        /\ UNCHANGED <<promotion, receipt>>
        /\ slipped' \in BOOLEAN /\ (slipped => slipped')
    BY <1>6 DEF Begin, evaluations, records, wandbs, ledger, IInv, TypeOK, WorldType
  <2>5. TypeOK'
    BY <1>1, <2>3, <2>4 DEF IInv, TypeOK, WorldType, EvalType, LogType, evaluations, records,
       wandbs, queue, ledger
  <2>6. RecordsGrow /\ CallsStay /\ \A c \in Checkpoints : expired[c] <= expired'[c]
    <3>1. \A c \in Checkpoints : expired[c] <= expired'[c]
      BY <2>4 DEF IInv, TypeOK, EvalType
    <3> QED
      BY <2>4, <3>1 DEF RecordsGrow, CallsStay
  <2>7. LeaseIs(q, worker[q])'
    <3>1. sent[worker[q].batch] \in Nat
      BY <1>2 DEF Batch, IInv, TypeOK, LogType
    <3>2. wandb > Used => slipped'
      BY <1>6
    <3>3. Used \in Nat
      BY UsedIs
    <3>4. wandb > Used \/ wandb <= Used + sent[worker[q].batch]
      BY <1>3, <3>1, <3>3
    <3> QED
      BY <1>6, <2>1, <2>3, <2>4, <3>2, <3>4 DEF LeaseIs
  <2>8. WorkerIs(q, worker[q])'
    BY <1>1, <1>2, <2>1, <2>3, <2>4, <2>7 DEF WorkerIs, PlaceIs, AttemptIs, RowsAre,
       StatusIs, ChoiceIs, Busy, Closing
  <2>9. ASSUME NEW r \in Queues \ {q}
        PROVE  LeaseIs(r, worker[r])'
    <3>1. worker'[r] = worker[r] /\ LeaseIs(r, worker[r])
      BY <2>3 DEF OthersSame, IInv, WorkersOK, WorkerIs
    <3>2. lease # r
      BY <1>6
    <3> QED
      BY <2>4, <3>1, <3>2 DEF LeaseIs
  <2>10. \A r \in Queues \ {q} : AttemptIs(worker[r])' /\ RowsAre(worker[r])'
    BY <2>3, <2>4, <2>5, <2>6, OthersKeep
  <2>11. ApartOK'
    BY <2>1, <2>3, ApartFromOther
  <2>12. CallOK' /\ LogOK' /\ SuccessOK'
    <3>1. UNCHANGED <<ledger, wandbs, projection>> /\ UNCHANGED <<prepared, calls>>
          /\ \A b \in Batches : job'[b] = "succeeded" => job[b] = "succeeded"
      BY <2>4 DEF records, queue
    <3> QED
      BY <2>4, <2>5, <2>6, <3>1, CallsStand, LogStands, SuccessStands
  <2> QED
    BY <2>3, <2>5, <2>6, <2>8, <2>9, <2>10, <2>11, <2>12, StepKeeps
<1> QED
  BY <1>4, <1>5, <1>6 DEF Begin, EventSeqOffset

LEMMA VerifyKeeps ==
  ASSUME IInv, NEW q \in Queues, Verify(q)
  PROVE  IInv'
<1> DEFINE c == Current(q)
<1>1. worker[q].pc = "verify" /\ ~At(q, "idle")
  BY DEF Verify, At
<1>2. c \in Checkpoints /\ Batch(q) \in Batches
  BY <1>1, HomeIs DEF Busy
<1> HIDE DEF c
<1>3. CASE UNCHANGED verified /\ Returns(q, "failed")
  <2>1. OnlyWorker
    BY <1>3, StayIs DEF Verify, OnlyWorker, evaluations
  <2> QED
    BY <1>1, <1>3, <2>1, ReturnKeeps DEF Ends, None
<1>4. CASE /\ verified[c] = None /\ verified' = [verified EXCEPT ![c] = result[c].verdict]
           /\ Goes(q, "look")
  <2>1. /\ worker' \in [Queues -> Workers] /\ OthersSame(q) /\ worker'[q].pc = "look"
    BY <1>4, GoesIs DEF IInv, Working
  <2>2. /\ UNCHANGED <<ended, auto, lease, records, wandbs, queue, ledger, slipped, faults>>
        /\ UNCHANGED <<prepared, expired, calls, result, promotion, projection, receipt>>
        /\ UNCHANGED <<wandb, points, rows, sent, job>>
    BY DEF Verify, records, ledger, wandbs, queue
  <2>3. /\ verified' \in [Checkpoints -> Shown \cup {None}]
        /\ \A d \in Checkpoints : verified[d] # None => verified'[d] = verified[d]
    <3>1. verified \in [Checkpoints -> Shown \cup {None}]
      BY DEF IInv, TypeOK, EvalType
    <3>2. \/ result[c] \in [attempt : Attempts, verdict : Verdicts \cup {"expired"}]
          \/ result[c] = NoResult
      BY <1>2 DEF IInv, TypeOK, EvalType
    <3>3. result[c].verdict \in Shown \cup {None}
      BY <3>2 DEF NoResult, Shown
    <3> QED
      BY <1>2, <1>4, <3>1, <3>3
  <2>4. TypeOK'
    BY <2>1, <2>2, <2>3 DEF IInv, TypeOK, WorldType, EvalType, LogType, records, wandbs, queue,
       ledger
  <2>5. RecordsGrow /\ CallsStay /\ LeaseStays
        /\ \A d \in Checkpoints : expired[d] <= expired'[d]
    BY <2>2, <2>3 DEF RecordsGrow, CallsStay, LeaseStays, IInv, TypeOK, EvalType
  <2>6. WorkerIs(q, worker[q])'
    BY <1>1, <1>4, <2>5, GoFits DEF Working, Busy, Closing
  <2>7. ApartOK' /\ CallOK' /\ LogOK' /\ SuccessOK'
    BY <2>1, <2>2, <2>4, <2>5, ApartFromOther, CallsStand, LogStands, SuccessStands
  <2> QED
    BY <2>1, <2>2, <2>4, <2>5, <2>6, <2>7, OthersKeep, StepKeeps
<1> QED
  BY <1>3, <1>4 DEF Verify, c

LEMMA PrepareKeeps ==
  ASSUME IInv, NEW q \in Queues, Prepare(q)
  PROVE  IInv'
<1> DEFINE c == Current(q)
           a == worker[q].attempt
<1>1. worker[q].pc = "prepare" /\ ~At(q, "idle")
  BY DEF Prepare, At
<1>2. c \in Checkpoints /\ Batch(q) \in Batches /\ worker[q] \in Workers /\ Todo(q) # {}
  BY <1>1, HomeIs DEF Busy
<1>3. WorkerIs(q, worker[q])
  BY DEF IInv, WorkersOK
<1>4. /\ a >= 1 /\ a <= prepared[c] + 1 /\ a <= expired[c] + 1
      /\ a \in Nat /\ prepared[c] \in Nat /\ expired[c] \in Nat
  BY <1>1, <1>2, <1>3, PlacesAre DEF WorkerIs, AttemptIs, Workers, IInv, TypeOK, EvalType
<1> HIDE DEF c, a
<1>5. CASE UNCHANGED prepared /\ Returns(q, "failed")
  <2>1. OnlyWorker
    BY <1>5, StayIs DEF Prepare, OnlyWorker, evaluations
  <2> QED
    BY <1>1, <1>5, <2>1, ReturnKeeps DEF Ends, None
<1>6. CASE prepared[c] < a /\ prepared' = [prepared EXCEPT ![c] = a] /\ Goes(q, "submit")
  <2>1. /\ worker' \in [Queues -> Workers] /\ OthersSame(q) /\ worker'[q].pc = "submit"
        /\ worker'[q].attempt = a /\ SameJob(q) /\ worker'[q].statuses = worker[q].statuses
    BY <1>6, GoesIs DEF IInv, Working, Busy, a
  <2>2. /\ UNCHANGED <<ended, auto, lease, records, wandbs, queue, ledger, slipped, faults>>
        /\ UNCHANGED <<expired, calls, result, verified, promotion, projection, receipt>>
        /\ UNCHANGED <<wandb, points, rows, sent, job>>
    BY DEF Prepare, records, ledger, wandbs, queue
  <2>3. /\ prepared \in [Checkpoints -> Nat] /\ prepared' \in [Checkpoints -> Nat]
        /\ prepared'[c] = a /\ a = prepared[c] + 1 /\ prepared[c] <= expired[c]
        /\ \A d \in Checkpoints \ {c} : prepared'[d] = prepared[d]
    BY <1>2, <1>4, <1>6 DEF IInv, TypeOK, EvalType
  <2>4. TypeOK'
    BY <2>1, <2>2, <2>3 DEF IInv, TypeOK, WorldType, EvalType, LogType, records, wandbs, queue,
       ledger
  <2>5. RecordsGrow /\ LeaseStays
    BY <2>2 DEF RecordsGrow, LeaseStays
  <2>6. TodoOf(worker[q])' = Todo(q) /\ CurrentOf(worker[q])' = c
    BY <2>1, SameCurrent, PlacesAre DEF SameJob, c
  <2>7. WorkerIs(q, worker[q])'
    <3>1. a \in Attempts => calls[c][a] = None
      BY <1>2, <1>4, <2>3 DEF IInv, CallOK
    <3>2. AttemptIs(worker[q])'
      BY <1>4, <2>1, <2>2, <2>3, <2>6, <3>1 DEF AttemptIs
    <3>3. PlaceIs(q, worker[q])' /\ LeaseIs(q, worker[q])' /\ RowsAre(worker[q])'
          /\ StatusIs(worker[q])' /\ ChoiceIs(worker[q])'
      BY <1>1, <1>2, <1>3, <2>1, <2>2, <2>6 DEF WorkerIs, PlaceIs, LeaseIs, RowsAre, StatusIs,
         ChoiceIs, SameJob, Batch, Working, Busy, Closing
    <3> QED
      BY <3>2, <3>3 DEF WorkerIs
  <2>8. ASSUME NEW r \in Queues \ {q}
        PROVE  AttemptIs(worker[r])'
    <3>1. worker'[r] = worker[r] /\ AttemptIs(worker[r]) /\ worker[r] \in Workers
      BY <2>1 DEF OthersSame, IInv, WorkersOK, WorkerIs, TypeOK
    <3>2. CASE worker[r].pc \in {"prepare", "submit"}
      <4> DEFINE d == CurrentOf(worker[r])
      <4>1. d \in Checkpoints /\ CurrentOf(worker[r])' = d
        BY <3>1, <3>2, HomeIs, PlacesAre, SameCurrent DEF At, Busy
      <4>2. worker[r].attempt \in Nat /\ prepared[d] \in Nat /\ expired[d] \in Nat
        BY <3>1, <4>1 DEF Workers, IInv, TypeOK, EvalType
      <4>3. /\ prepared[d] <= prepared'[d] /\ prepared'[d] \in Nat
            /\ prepared[d] < prepared'[d] => prepared[d] <= expired[d]
        <5> HIDE DEF d
        <5>1. CASE d = c
          BY <2>3, <4>2, <5>1
        <5>2. CASE d # c
          BY <2>3, <4>1, <4>2, <5>2
        <5> QED
          BY <5>1, <5>2
      <4> HIDE DEF d
      <4>4. CASE worker[r].pc = "prepare"
        BY <2>2, <3>1, <4>1, <4>2, <4>3, <4>4 DEF AttemptIs, d
      <4>5. CASE worker[r].pc = "submit"
        BY <2>2, <3>1, <4>1, <4>2, <4>3, <4>5 DEF AttemptIs, d
      <4> QED
        BY <3>2, <4>4, <4>5
    <3>3. CASE worker[r].pc \notin {"prepare", "submit"}
      BY <3>1, <3>3 DEF AttemptIs
    <3> QED
      BY <3>2, <3>3
  <2>9. ApartOK'
    <3>1. ASSUME NEW r \in Queues \ {q}, At(r, "submit")', (Current(q) = Current(r))'
          PROVE  worker'[q].attempt # worker'[r].attempt
      <4>1. worker'[r] = worker[r] /\ worker[r].pc = "submit" /\ AttemptIs(worker[r])
            /\ worker[r] \in Workers
        BY <2>1, <3>1 DEF OthersSame, At, IInv, WorkersOK, WorkerIs, TypeOK
      <4>2. CurrentOf(worker[r])' = CurrentOf(worker[r])
        BY <4>1, SameCurrent
      <4>3. Current(q)' = CurrentOf(worker[q])' /\ Current(r)' = CurrentOf(worker[r])'
        BY DEF Current, CurrentOf, Todo, TodoOf
      <4>4. CurrentOf(worker[r]) = c
        BY <2>6, <3>1, <4>2, <4>3
      <4>5. worker[r].attempt <= prepared[c] /\ worker[r].attempt \in Nat
        BY <4>1, <4>4 DEF AttemptIs, Workers
      <4> QED
        BY <1>4, <2>1, <2>3, <4>1, <4>5
    <3>2. ASSUME NEW p \in Queues \ {q}, NEW r \in Queues \ {q}, p # r, At(p, "submit")',
                 At(r, "submit")', (Current(p) = Current(r))'
          PROVE  worker'[p].attempt # worker'[r].attempt
      <4>1. worker'[p] = worker[p] /\ worker'[r] = worker[r]
        BY <2>1 DEF OthersSame
      <4>2. Todo(p)' = Todo(p) /\ Todo(r)' = Todo(r)
        BY <4>1 DEF Todo
      <4>3. Current(p)' = Current(p) /\ Current(r)' = Current(r)
        BY <4>2 DEF Current
      <4> QED
        BY <3>2, <4>1, <4>3 DEF IInv, ApartOK, At
    <3> QED
      BY <3>1, <3>2 DEF ApartOK
  <2>10. CallOK'
    <3>1. ASSUME NEW d \in Checkpoints, NEW n \in Attempts
          PROVE  /\ calls[d][n] # None => n <= prepared'[d]
                 /\ calls[d][n] # "twice"
                 /\ calls[d][n] = "live" /\ n < prepared'[d] => n <= expired[d]
      <4>1. /\ calls[d][n] # None => n <= prepared[d]
            /\ calls[d][n] # "twice"
            /\ calls[d][n] = "live" /\ n < prepared[d] => n <= expired[d]
        BY DEF IInv, CallOK, OneLiveEvaluation
      <4>2. n \in Int /\ prepared[d] \in Nat /\ prepared'[d] \in Nat /\ expired[d] \in Nat
        BY <2>3 DEF Attempts, IInv, TypeOK, EvalType
      <4>3. calls[d][n] = "live" => calls[d][n] # None
        BY DEF None
      <4>4. CASE d = c
        BY <2>3, <4>1, <4>2, <4>3, <4>4
      <4>5. CASE d # c
        BY <2>3, <4>1, <4>5
      <4> QED
        BY <4>4, <4>5
    <3> QED
      BY <2>2, <3>1 DEF CallOK, OneLiveEvaluation
  <2>11. LogOK' /\ SuccessOK'
    BY <2>2, <2>5, LogStands, SuccessStands
  <2> QED
    BY <2>1, <2>2, <2>4, <2>5, <2>7, <2>8, <2>9, <2>10, <2>11, OthersKeep, StepKeeps
<1> QED
  BY <1>5, <1>6 DEF Prepare, c, a

LEMMA SpawnedIs ==
  ASSUME EvalType, NEW c \in Checkpoints, NEW a \in Nat, a \in Attempts => calls[c][a] = None
  PROVE  /\ Spawned(c, a) \in [Checkpoints -> [Attempts -> {None, "live", "gone", "twice"}]]
         /\ \A d \in Checkpoints, n \in Attempts :
              Spawned(c, a)[d][n] = IF d = c /\ n = a THEN "live" ELSE calls[d][n]
<1> DEFINE one == [calls[c] EXCEPT ![a] = IF @ = None THEN "live" ELSE "twice"]
<1>1. /\ calls \in [Checkpoints -> [Attempts -> {None, "live", "gone", "twice"}]]
      /\ calls[c] \in [Attempts -> {None, "live", "gone", "twice"}]
  BY DEF EvalType
<1>2. /\ one \in [Attempts -> {None, "live", "gone", "twice"}]
      /\ \A n \in Attempts : one[n] = IF n = a THEN "live" ELSE calls[c][n]
  BY <1>1
<1>3. Spawned(c, a) = [calls EXCEPT ![c] = one]
  BY DEF Spawned
<1> HIDE DEF one
<1> QED
  BY <1>1, <1>2, <1>3

LEMMA SpawnKeeps ==
  ASSUME IInv, NEW q \in Queues, worker[q].pc = "submit", faults' \in Nat,
         calls' \in {calls, Spawned(Current(q), worker[q].attempt)},
         Settles(q, "unsettled") \/ Returns(q, "failed"),
         UNCHANGED <<ended, auto, lease, prepared, expired, result, verified, records, wandbs,
                     queue, ledger, slipped>>
  PROVE  IInv'
<1> DEFINE c == Current(q)
           a == worker[q].attempt
<1>1. c \in Checkpoints /\ Batch(q) \in Batches /\ worker[q] \in Workers /\ Todo(q) # {}
      /\ ~At(q, "idle")
  BY HomeIs DEF At, Busy
<1>2. WorkerIs(q, worker[q])
  BY DEF IInv, WorkersOK
<1>3. /\ a >= 1 /\ a <= prepared[c] /\ a \in Nat /\ prepared[c] \in Nat /\ expired[c] \in Nat
      /\ a < prepared[c] => a <= expired[c]
      /\ a \in Attempts => calls[c][a] = None
  BY <1>1, <1>2, PlacesAre DEF WorkerIs, AttemptIs, Workers, IInv, TypeOK, EvalType
<1>4. calls' \in {calls, Spawned(c, a)}
  OBVIOUS
<1> HIDE DEF c, a
<1>5. /\ calls' \in [Checkpoints -> [Attempts -> {None, "live", "gone", "twice"}]]
      /\ \A d \in Checkpoints, n \in Attempts :
           \/ calls'[d][n] = calls[d][n]
           \/ d = c /\ n = a /\ calls'[d][n] = "live"
  <2>1. CASE calls' = calls
    BY <2>1 DEF IInv, TypeOK, EvalType
  <2>2. CASE calls' = Spawned(c, a)
    BY <1>1, <1>3, <2>2, SpawnedIs DEF IInv, TypeOK
  <2> QED
    BY <1>4, <2>1, <2>2
<1>6. /\ UNCHANGED <<promotion, projection, receipt, wandb, points, rows, sent, job>>
      /\ UNCHANGED <<ledger, wandbs>>
  BY DEF records, ledger, wandbs, queue
<1>7. RecordsGrow /\ LeaseStays
  BY <1>6 DEF RecordsGrow, LeaseStays
<1>8. /\ worker' \in [Queues -> Workers] /\ OthersSame(q) /\ worker'[q].pc # "submit"
      /\ WorkerIs(q, worker[q])'
  <2>1. CASE Settles(q, "unsettled")
    BY <1>1, <1>7, <2>1, SettlesIs, SettleFits, StatusesAre DEF IInv, Busy
  <2>2. CASE Returns(q, "failed")
    BY <1>1, <2>2, ReturnsIs, ReturnFits DEF IInv, Ends, None
  <2> QED
    BY <2>1, <2>2
<1>9. TypeOK'
  BY <1>5, <1>8 DEF IInv, TypeOK, WorldType, EvalType, LogType, records, wandbs, queue, ledger
<1>10. ASSUME NEW r \in Queues \ {q}
       PROVE  AttemptIs(worker[r])'
  <2>1. worker'[r] = worker[r] /\ AttemptIs(worker[r]) /\ worker[r] \in Workers
    BY <1>8 DEF OthersSame, IInv, WorkersOK, WorkerIs, TypeOK
  <2>2. CASE worker[r].pc = "submit"
    <3> DEFINE d == CurrentOf(worker[r])
               n == worker[r].attempt
    <3>1. d \in Checkpoints /\ CurrentOf(worker[r])' = d /\ d = Current(r)
      BY <2>1, <2>2, HomeIs, PlacesAre, SameCurrent DEF At, Busy
    <3>2. d # c \/ n # a
      BY <2>2, <3>1 DEF IInv, ApartOK, At, c, a
    <3>3. n \in Attempts => calls'[d][n] = None
      BY <1>5, <2>1, <2>2, <3>1, <3>2 DEF AttemptIs
    <3> HIDE DEF d, n
    <3> QED
      BY <2>1, <2>2, <3>1, <3>3 DEF AttemptIs, d, n
  <2>3. CASE worker[r].pc = "prepare"
    <3>1. CurrentOf(worker[r])' = CurrentOf(worker[r])
      BY <2>1, SameCurrent
    <3> QED
      BY <2>1, <2>3, <3>1 DEF AttemptIs
  <2>4. CASE worker[r].pc \notin {"prepare", "submit"}
    BY <2>1, <2>4 DEF AttemptIs
  <2> QED
    BY <2>2, <2>3, <2>4
<1>11. ApartOK'
  BY <1>8, ApartFromOther
<1>12. CallOK'
  <2>1. ASSUME NEW d \in Checkpoints, NEW n \in Attempts
        PROVE  /\ calls'[d][n] # None => n <= prepared[d]
               /\ calls'[d][n] # "twice"
               /\ calls'[d][n] = "live" /\ n < prepared[d] => n <= expired[d]
    <3>1. /\ calls[d][n] # None => n <= prepared[d]
          /\ calls[d][n] # "twice"
          /\ calls[d][n] = "live" /\ n < prepared[d] => n <= expired[d]
      BY DEF IInv, CallOK, OneLiveEvaluation
    <3>2. CASE calls'[d][n] = calls[d][n]
      BY <3>1, <3>2
    <3>3. CASE d = c /\ n = a /\ calls'[d][n] = "live"
      BY <1>3, <3>3
    <3> QED
      BY <1>5, <3>2, <3>3
  <2> QED
    BY <2>1 DEF CallOK, OneLiveEvaluation
<1>13. LogOK' /\ SuccessOK'
  BY <1>6, <1>7, LogStands, SuccessStands
<1> QED
  BY <1>7, <1>8, <1>9, <1>10, <1>11, <1>12, <1>13, OthersKeep, StepKeeps

LEMMA CancelKeeps ==
  ASSUME IInv, NEW q \in Queues, Cancel(q)
  PROVE  IInv'
<1>1. worker[q].pc = "cancel" /\ ~At(q, "idle")
  BY DEF Cancel, At
<1>2. WorkerIs(q, worker[q]) /\ worker[q] \in Workers /\ Batch(q) \in Batches
  BY <1>1, HomeIs DEF IInv, WorkersOK
<1> DEFINE s == [d \in Checkpoints |-> IF d \in Open(q) THEN "canceled"
                                       ELSE worker[q].statuses[d]]
           w == [worker[q] EXCEPT !.pc = "choose", !.statuses = s]
<1>3. s \in [Checkpoints -> Shown \cup {None}]
  BY <1>2, StatusesAre DEF Workers
<1>4. \A d \in Checkpoints : s[d] \in Told => s[d] = worker[q].statuses[d]
  BY StatusesAre
<1>5. worker' = [worker EXCEPT ![q].pc = "choose", ![q].statuses = s]
  BY DEF Cancel
<1> HIDE DEF s
<1>6. w \in Workers /\ w.pc = "choose" /\ w.batch = worker[q].batch
      /\ w.asked = worker[q].asked /\ w.early = worker[q].early
      /\ w.offset = worker[q].offset /\ w.statuses = s /\ w.outcome = worker[q].outcome
  BY <1>2, <1>3 DEF Workers, Working, Closing
<1>7. worker \in [Queues -> Workers] /\ worker' = [worker EXCEPT ![q] = w]
  BY <1>5 DEF IInv, TypeOK
<1> HIDE DEF w
<1>8. worker' \in [Queues -> Workers] /\ OthersSame(q) /\ worker'[q] = w
  BY <1>6, <1>7 DEF OthersSame
<1>9. /\ UNCHANGED <<ended, auto, lease, prepared, expired, result, verified, promotion,
                     projection, receipt, wandb, points, rows, sent, job, slipped, faults>>
      /\ UNCHANGED <<ledger, wandbs, records, queue>>
  BY DEF Cancel, records, ledger, wandbs, queue
<1>10. /\ calls' \in [Checkpoints -> [Attempts -> {None, "live", "gone", "twice"}]]
       /\ \A d \in Checkpoints, n \in Attempts :
            calls'[d][n] = calls[d][n] \/ (calls'[d][n] = "gone" /\ calls[d][n] = "live")
  <2>1. PICK S \in SUBSET {d \in Open(q) : prepared[d] > 0} :
          calls' = [d \in Checkpoints |-> [n \in Attempts |->
                      IF d \in S /\ n = prepared[d] /\ calls[d][n] = "live" THEN "gone"
                      ELSE calls[d][n]]]
    BY DEF Cancel
  <2>2. calls \in [Checkpoints -> [Attempts -> {None, "live", "gone", "twice"}]]
    BY DEF IInv, TypeOK, EvalType
  <2> QED
    BY <2>1, <2>2
<1>11. TypeOK'
  BY <1>8, <1>9, <1>10 DEF IInv, TypeOK, WorldType, EvalType, LogType, queue
<1>12. RecordsGrow /\ CallsStay /\ LeaseStays
  <2>1. \A d \in Checkpoints : expired[d] <= expired'[d]
    BY <1>9 DEF IInv, TypeOK, EvalType
  <2>2. \A d \in Checkpoints, n \in Attempts : calls[d][n] = None => calls'[d][n] = None
    BY <1>10 DEF None
  <2> QED
    BY <1>9, <2>1, <2>2 DEF RecordsGrow, CallsStay, LeaseStays
<1>13. WorkerIs(q, worker[q])'
  <2>1. PlaceIs(q, worker[q])' /\ AttemptIs(worker[q])' /\ RowsAre(worker[q])'
        /\ ChoiceIs(worker[q])'
    BY <1>1, <1>2, <1>6, <1>8 DEF WorkerIs, PlaceIs, AttemptIs, RowsAre, ChoiceIs, Busy, Closing
  <2>2. LeaseIs(q, worker[q])'
    BY <1>1, <1>2, <1>6, <1>8, <1>9 DEF WorkerIs, LeaseIs, Working
  <2>3. StatusIs(worker[q])'
    BY <1>2, <1>4, <1>6, <1>8, <1>9 DEF WorkerIs, StatusIs
  <2> QED
    BY <2>1, <2>2, <2>3 DEF WorkerIs
<1>14. ApartOK'
  BY <1>6, <1>8, ApartFromOther
<1>15. CallOK'
  <2>1. "live" # "gone" /\ "gone" # "twice" /\ None # "live" /\ None # "gone"
    BY DEF None
  <2>2. ASSUME NEW d \in Checkpoints, NEW n \in Attempts
        PROVE  /\ calls'[d][n] # None => n <= prepared[d]
               /\ calls'[d][n] # "twice"
               /\ calls'[d][n] = "live" /\ n < prepared[d] => n <= expired[d]
    BY <1>10, <2>1 DEF IInv, CallOK, OneLiveEvaluation
  <2> QED
    BY <1>9, <2>2 DEF CallOK, OneLiveEvaluation
<1>16. LogOK' /\ SuccessOK'
  BY <1>9, <1>12, LogStands, SuccessStands
<1> QED
  BY <1>8, <1>9, <1>11, <1>12, <1>13, <1>14, <1>15, <1>16, OthersKeep, StepKeeps

-----------------------------------------------------------------------------
(* Publishing *)

LEMMA PublisherIs ==
  ASSUME IInv, NEW q \in Queues, worker[q].pc \in {"append", "publish", "record"}
  PROVE  /\ ~At(q, "idle") /\ WorkerIs(q, worker[q]) /\ worker[q] \in Workers
         /\ Batch(q) \in Batches /\ Home[Batch(q)] = q /\ Todo(q) # {}
         /\ Current(q) \in Checkpoints /\ ended /\ ~worker[q].early
         /\ slipped \/ (lease = q /\ wandb <= worker[q].offset + sent[Batch(q)])
         /\ worker[q].offset \in Nat /\ wandb \in Nat /\ sent[Batch(q)] \in Nat
         /\ rows[Batch(q)] \in Seq(Checkpoints)
<1>1. ~At(q, "idle") /\ WorkerIs(q, worker[q]) /\ worker[q].pc \in Busy
  BY DEF At, IInv, WorkersOK, Busy
<1>2. /\ worker[q] \in Workers /\ Batch(q) \in Batches /\ Home[Batch(q)] = q /\ Todo(q) # {}
      /\ Current(q) \in Checkpoints
  BY <1>1, HomeIs
<1>3. ~worker[q].early
  BY <1>1 DEF WorkerIs, PlaceIs
<1>4. ended /\ (slipped \/ (lease = q /\ wandb <= worker[q].offset + sent[worker[q].batch]))
  BY <1>1, <1>3, StatusesAre DEF WorkerIs, LeaseIs
<1>5. /\ worker[q].offset \in Nat /\ wandb \in Nat /\ sent[Batch(q)] \in Nat
      /\ rows[Batch(q)] \in Seq(Checkpoints)
  BY <1>2 DEF Workers, IInv, TypeOK, LogType
<1> QED
  BY <1>1, <1>2, <1>3, <1>4, <1>5 DEF Batch

\* Others do not hold the lease while q does, and have rows of their own.
LEMMA OthersAway ==
  ASSUME IInv, NEW q \in Queues, worker[q].pc \in {"append", "publish", "record"},
         OthersSame(q), UNCHANGED ended, slipped => slipped', NEW r \in Queues \ {q}
  PROVE  /\ LeaseIs(r, worker[r])'
         /\ worker[r].pc # "idle" => worker[r].batch \in Batches /\ worker[r].batch # Batch(q)
<1>1. worker'[r] = worker[r] /\ LeaseIs(r, worker[r]) /\ PlaceIs(r, worker[r])
  BY DEF OthersSame, IInv, WorkersOK, WorkerIs
<1>2. slipped \/ lease # r
  BY PublisherIs
<1> QED
  BY <1>1, <1>2, PublisherIs DEF LeaseIs, PlaceIs

LEMMA RowsOfOthers ==
  ASSUME IInv, NEW q \in Queues, worker[q].pc \in {"append", "publish", "record"},
         OthersSame(q), UNCHANGED ended, slipped => slipped',
         \A b \in Batches \ {Batch(q)} : rows'[b] = rows[b] /\ sent'[b] = sent[b]
  PROVE  \A r \in Queues \ {q} : LeaseIs(r, worker[r])' /\ RowsAre(worker[r])'
<1> SUFFICES ASSUME NEW r \in Queues \ {q}
             PROVE  LeaseIs(r, worker[r])' /\ RowsAre(worker[r])'
  OBVIOUS
<1>1. worker'[r] = worker[r] /\ RowsAre(worker[r])
  BY DEF OthersSame, IInv, WorkersOK, WorkerIs
<1>2. CurrentOf(worker[r])' = CurrentOf(worker[r])
  BY <1>1, SameCurrent
<1>3. worker[r].pc # "idle" => rows'[worker[r].batch] = rows[worker[r].batch]
                               /\ sent'[worker[r].batch] = sent[worker[r].batch]
  BY OthersAway
<1>4. RowsAre(worker[r])'
  BY <1>1, <1>2, <1>3 DEF RowsAre, Contains
<1> QED
  BY <1>4, OthersAway

LEMMA UnsentIs ==
  ASSUME IInv, NEW q \in Queues, worker[q].pc \in {"append", "publish", "record"}, Unsent(q)
  PROVE  /\ sent[Batch(q)] + 1 \in 1..Len(rows[Batch(q)])
         /\ rows[Batch(q)][sent[Batch(q)] + 1] \in Checkpoints
         /\ NextNumber(q) \in Nat /\ NextNumber(q) = worker[q].offset + sent[Batch(q)] + 1
<1>1. /\ sent[Batch(q)] + 1 \in 1..Len(rows[Batch(q)])
      /\ NextNumber(q) \in Nat /\ NextNumber(q) = worker[q].offset + sent[Batch(q)] + 1
  BY PublisherIs DEF Unsent, NextNumber
<1> QED
  BY <1>1, PublisherIs

LEMMA ArrivesIs ==
  ASSUME IInv, NEW q \in Queues, worker[q].pc = "publish", Unsent(q), Arrives(q)
  PROVE  /\ wandb' \in Nat /\ wandb <= wandb' /\ points \subseteq points'
         /\ points' \subseteq Checkpoints
         /\ ~slipped => /\ wandb' = worker[q].offset + sent[Batch(q)] + 1
                        /\ rows[Batch(q)][sent[Batch(q)] + 1] \in points'
<1>1. /\ wandb \in Nat /\ points \subseteq Checkpoints
      /\ ~slipped => wandb <= worker[q].offset + sent[Batch(q)]
      /\ worker[q].offset \in Nat /\ sent[Batch(q)] \in Nat
  BY PublisherIs DEF IInv, TypeOK, LogType
<1>2. NextNumber(q) \in Nat /\ NextNumber(q) = worker[q].offset + sent[Batch(q)] + 1
      /\ rows[Batch(q)][sent[Batch(q)] + 1] \in Checkpoints
  BY UnsentIs
<1>3. CASE NextNumber(q) > wandb
  <2>1. wandb' = NextNumber(q) /\ points' = points \cup {rows[Batch(q)][sent[Batch(q)] + 1]}
    BY <1>3 DEF Arrives
  <2> DEFINE n == NextNumber(q)
             x == rows[Batch(q)][sent[Batch(q)] + 1]
  <2>2. n \in Nat /\ n > wandb /\ wandb' = n /\ n = worker[q].offset + sent[Batch(q)] + 1
        /\ x \in Checkpoints /\ points' = points \cup {x}
    BY <1>2, <1>3, <2>1
  <2> HIDE DEF n, x
  <2>3. wandb' \in Nat /\ wandb <= wandb' /\ points \subseteq points'
        /\ points' \subseteq Checkpoints /\ x \in points'
    BY <1>1, <2>2
  <2> QED
    BY <2>2, <2>3 DEF x
<1>4. CASE ~(NextNumber(q) > wandb)
  <2>1. wandb' = wandb /\ points' = points
    BY <1>4 DEF Arrives, wandbs
  <2>2. slipped
    BY <1>1, <1>2, <1>4
  <2> QED
    BY <1>1, <2>1, <2>2
<1> QED
  BY <1>3, <1>4

LEMMA MarkedIs ==
  ASSUME IInv, NEW q \in Queues, worker[q].pc = "publish", Unsent(q), Marked(q)
  PROVE  /\ sent' \in [Batches -> Nat] /\ sent'[Batch(q)] = sent[Batch(q)] + 1
         /\ \A b \in Batches \ {Batch(q)} : sent'[b] = sent[b]
         /\ \A b \in Batches : sent'[b] <= Len(rows[b])
<1>1. /\ sent \in [Batches -> Nat] /\ Batch(q) \in Batches
      /\ \A b \in Batches : sent[b] <= Len(rows[b])
      /\ sent[Batch(q)] + 1 <= Len(rows[Batch(q)])
  BY PublisherIs, UnsentIs DEF IInv, TypeOK, LogType, LogOK
<1>2. /\ sent' \in [Batches -> Nat] /\ sent'[Batch(q)] = sent[Batch(q)] + 1
      /\ \A b \in Batches \ {Batch(q)} : sent'[b] = sent[b]
  BY <1>1 DEF Marked
<1> QED
  BY <1>1, <1>2

\* The history and the ledger after a frame was logged, marked, both, or neither.
LEMMA PublishingKeepsLog ==
  ASSUME IInv, NEW q \in Queues, worker[q].pc = "publish", Unsent(q),
         UNCHANGED <<ended, rows, projection>>, slipped => slipped',
         UNCHANGED wandbs \/ Arrives(q), UNCHANGED sent \/ Marked(q),
         UNCHANGED sent \/ Arrives(q) \/ slipped'
  PROVE  LogOK'
<1>1. wandb \in Nat /\ wandb' \in Nat /\ wandb <= wandb' /\ points \subseteq points'
  <2>1. CASE UNCHANGED wandbs
    BY <2>1 DEF wandbs, IInv, TypeOK, LogType
  <2>2. CASE Arrives(q)
    BY <2>2, ArrivesIs, PublisherIs
  <2> QED
    BY <2>1, <2>2
<1>2. \A b \in Batches : sent'[b] <= Len(rows'[b])
  BY MarkedIs DEF IInv, LogOK
<1>3. ASSUME ~slipped', NEW b \in Batches, NEW i \in 1..sent'[b]
      PROVE  rows'[b][i] \in points'
  <2>1. ~slipped /\ (i \in 1..sent[b] => rows[b][i] \in points)
    BY <1>3 DEF IInv, LogOK
  <2>2. CASE UNCHANGED sent
    BY <1>1, <2>1, <2>2
  <2>3. CASE Marked(q) /\ Arrives(q)
    <3>1. CASE b = Batch(q) /\ i = sent[b] + 1
      BY <2>1, <2>3, <3>1, ArrivesIs
    <3>2. CASE b = Batch(q) /\ i # sent[b] + 1
      <4>1. sent[b] \in Nat /\ sent'[b] = sent[b] + 1
        BY <2>3, <3>2, MarkedIs, PublisherIs
      <4>2. i \in 1..sent[b]
        BY <3>2, <4>1
      <4> QED
        BY <1>1, <2>1, <4>2
    <3>3. CASE b # Batch(q)
      <4>1. sent'[b] = sent[b]
        BY <2>3, <3>3, MarkedIs
      <4> QED
        BY <1>1, <2>1, <4>1
    <3> QED
      BY <3>1, <3>2, <3>3
  <2> QED
    BY <1>3, <2>2, <2>3
<1>4. \A c \in Checkpoints : projection'[c] <= wandb'
  BY <1>1 DEF IInv, TypeOK, LogType, LogOK
<1>5. ProjectedIsLogged'
  BY <1>1 DEF IInv, LogOK, ProjectedIsLogged
<1>6. \A b \in Batches : slipped' \/ \A i \in 1..sent'[b] : rows'[b][i] \in points'
  BY <1>3
<1> QED
  BY <1>2, <1>4, <1>5, <1>6 DEF IInv, LogOK

\* What a frame that was logged or marked leaves of the rest.
LEMMA PublishingTypes ==
  ASSUME IInv, NEW q \in Queues, worker[q].pc = "publish", Unsent(q),
         UNCHANGED <<ended, auto, lease, evaluations, records, rows, asked>>,
         worker' \in [Queues -> Workers], slipped' \in BOOLEAN, faults' \in Nat,
         requests' = requests,
         job' \in [Batches -> {"absent", "queued", "running"} \cup (Ends \ {None})],
         UNCHANGED wandbs \/ Arrives(q), UNCHANGED sent \/ Marked(q)
  PROVE  TypeOK'
<1>1. wandb' \in Nat /\ points' \subseteq Checkpoints
  BY ArrivesIs DEF IInv, TypeOK, LogType, wandbs
<1>2. sent' \in [Batches -> Nat]
  BY MarkedIs DEF IInv, TypeOK, LogType
<1> QED
  BY <1>1, <1>2 DEF IInv, TypeOK, WorldType, EvalType, LogType, evaluations, records

\* A step of a worker that publishes.
LEMMA PublishingKeeps ==
  ASSUME IInv, NEW q \in Queues, worker[q].pc = "publish", Unsent(q),
         UNCHANGED <<ended, auto, lease, evaluations, records, rows, asked, requests>>,
         worker' \in [Queues -> Workers], OthersSame(q), worker'[q].pc # "submit",
         slipped' \in BOOLEAN, slipped => slipped', faults' \in Nat,
         job' \in [Batches -> {"absent", "queued", "running"} \cup (Ends \ {None})],
         \A b \in Batches : job'[b] = "succeeded" => job[b] = "succeeded",
         UNCHANGED wandbs \/ Arrives(q), UNCHANGED sent \/ Marked(q),
         UNCHANGED sent \/ Arrives(q) \/ slipped',
         WorkerIs(q, worker[q])'
  PROVE  IInv'
<1>1. TypeOK'
  BY PublishingTypes
<1>2. UNCHANGED <<promotion, projection, receipt, prepared, expired, calls, verified>>
  BY DEF records, evaluations
<1>3. RecordsGrow /\ CallsStay /\ \A d \in Checkpoints : expired[d] <= expired'[d]
  <2>1. \A d \in Checkpoints : expired[d] <= expired'[d]
    BY <1>2 DEF IInv, TypeOK, EvalType
  <2> QED
    BY <1>2, <2>1 DEF RecordsGrow, CallsStay
<1>4. \A b \in Batches \ {Batch(q)} : rows'[b] = rows[b] /\ sent'[b] = sent[b]
  BY MarkedIs
<1>5. \A r \in Queues \ {q} : LeaseIs(r, worker[r])' /\ RowsAre(worker[r])'
  BY <1>4, RowsOfOthers
<1>6. \A r \in Queues \ {q} : AttemptIs(worker[r])'
  BY <1>1, <1>3, OthersKeep
<1>7. ApartOK' /\ CallOK' /\ SuccessOK'
  BY <1>1, <1>2, <1>3, ApartFromOther, CallsStand, SuccessStands
<1>8. LogOK'
  BY <1>2, PublishingKeepsLog
<1> QED
  BY <1>1, <1>3, <1>5, <1>6, <1>7, <1>8, StepKeeps

LEMMA SubmitKeeps ==
  ASSUME IInv, NEW q \in Queues, Submit(q) \/ SubmitFails(q)
  PROVE  IInv'
<1>1. worker[q].pc = "submit" /\ faults' \in Nat
  BY StayIs DEF Submit, SubmitFails, At
<1> QED
  BY <1>1, SpawnKeeps DEF Submit, SubmitFails

LEMMA MarkedFits ==
  ASSUME IInv, NEW q \in Queues, worker[q].pc = "publish", Unsent(q), slipped => slipped',
         \/ UNCHANGED wandbs /\ UNCHANGED sent
         \/ Arrives(q) /\ Marked(q)
         \/ slipped'
  PROVE  slipped' \/ wandb' <= worker[q].offset + sent'[Batch(q)]
<1>1. CASE UNCHANGED wandbs /\ UNCHANGED sent
  BY <1>1, PublisherIs DEF wandbs
<1>2. CASE Arrives(q) /\ Marked(q)
  <2>1. sent'[Batch(q)] = sent[Batch(q)] + 1 /\ sent[Batch(q)] \in Nat
        /\ worker[q].offset \in Nat
    BY <1>2, MarkedIs, PublisherIs
  <2>2. slipped \/ wandb' = worker[q].offset + sent[Batch(q)] + 1
    BY <1>2, ArrivesIs
  <2> QED
    BY <2>1, <2>2
<1> QED
  BY <1>1, <1>2

LEMMA PublishKeeps ==
  ASSUME IInv, NEW q \in Queues, Publish(q)
  PROVE  IInv'
<1>1. worker[q].pc = "publish" /\ Unsent(q) /\ Arrives(q) /\ Marked(q) /\ worker' = worker
  BY DEF Publish, At
<1>2. /\ UNCHANGED <<ended, auto, lease, evaluations, records, rows, asked, requests, job>>
      /\ UNCHANGED <<slipped, faults, projection, verified, promotion, receipt>>
  BY DEF Publish, queue, records, evaluations
<1>3. slipped \/ wandb' <= worker[q].offset + sent'[Batch(q)]
  BY <1>1, <1>2, MarkedFits
<1>4. WorkerIs(q, worker[q]) /\ ended /\ (slipped \/ lease = q)
  BY <1>1, PublisherIs
<1>5. WorkerIs(q, worker[q])'
  <2>1. RecordsGrow
    BY <1>2 DEF RecordsGrow
  <2>2. PlaceIs(q, worker[q])' /\ StatusIs(worker[q])' /\ ChoiceIs(worker[q])'
    BY <1>1, <2>1, OthersStay
  <2>3. LeaseIs(q, worker[q])'
    BY <1>1, <1>2, <1>3, <1>4 DEF LeaseIs, Batch
  <2>4. AttemptIs(worker[q])'
    BY <1>1 DEF AttemptIs
  <2>5. CurrentOf(worker[q])' = CurrentOf(worker[q])
    BY <1>1, SameCurrent
  <2>6. RowsAre(worker[q])'
    BY <1>1, <1>2, <1>4, <2>5 DEF WorkerIs, RowsAre
  <2> QED
    BY <2>2, <2>3, <2>4, <2>6 DEF WorkerIs
<1>6. /\ worker' \in [Queues -> Workers] /\ OthersSame(q) /\ worker'[q].pc # "submit"
      /\ slipped' \in BOOLEAN /\ faults' \in Nat
      /\ job' \in [Batches -> {"absent", "queued", "running"} \cup (Ends \ {None})]
  BY <1>1, <1>2 DEF OthersSame, IInv, TypeOK, WorldType
<1> QED
  BY <1>1, <1>2, <1>5, <1>6, PublishingKeeps

\* A publisher that gives up for now.
LEMMA GivesUpKeeps ==
  ASSUME IInv, NEW q \in Queues, worker[q].pc = "publish", Unsent(q), Waits(q),
         UNCHANGED <<ended, auto, lease, evaluations, records, rows, asked, requests, job>>,
         slipped' \in BOOLEAN, slipped => slipped', faults' \in Nat,
         \/ UNCHANGED wandbs /\ UNCHANGED sent
         \/ Arrives(q) /\ Marked(q)
         \/ UNCHANGED wandbs /\ Marked(q) /\ slipped'
  PROVE  IInv'
<1>1. Settles(q, "awaiting") /\ Batch(q) \in Batches /\ Todo(q) # {} /\ ended
      /\ (slipped \/ lease = q) /\ "awaiting" \in Shown \cup {None} /\ "awaiting" \notin Told
      /\ ~worker[q].early
  BY PublisherIs, StatusesAre DEF Waits
<1>2. /\ worker' \in [Queues -> Workers] /\ OthersSame(q) /\ SameJob(q)
      /\ worker'[q].pc = "look"
  BY <1>1, SettlesIs DEF IInv
<1>3. slipped' \/ wandb' <= worker[q].offset + sent'[Batch(q)]
  BY MarkedFits
<1>4. LeaseIs(q, worker[q])'
  BY <1>1, <1>2, <1>3 DEF LeaseIs, SameJob, Batch
<1>5. RecordsGrow
  BY DEF RecordsGrow, records, evaluations
<1>6. WorkerIs(q, worker[q])'
  BY <1>1, <1>4, <1>5, SettleFits DEF Busy
<1>7. job' \in [Batches -> {"absent", "queued", "running"} \cup (Ends \ {None})]
  BY DEF IInv, TypeOK, WorldType
<1> QED
  BY <1>2, <1>6, <1>7, PublishingKeeps

LEMMA PublishFailsKeeps ==
  ASSUME IInv, NEW q \in Queues, PublishFails(q) \/ UploadLost(q)
  PROVE  IInv'
<1>1. /\ worker[q].pc = "publish" /\ Unsent(q) /\ Waits(q) /\ faults' \in Nat
      /\ UNCHANGED <<ended, auto, lease, evaluations, records, rows, asked, requests, job>>
  BY StayIs DEF PublishFails, UploadLost, At, queue
<1>2. slipped \in BOOLEAN
  BY DEF IInv, TypeOK, WorldType
<1>3. CASE PublishFails(q)
  BY <1>1, <1>2, <1>3, GivesUpKeeps DEF PublishFails
<1>4. CASE UploadLost(q)
  BY <1>1, <1>4, GivesUpKeeps DEF UploadLost
<1> QED
  BY <1>3, <1>4

LEMMA IdleFits ==
  ASSUME NEW q \in Queues, worker'[q] = Idle
  PROVE  WorkerIs(q, worker[q])'
<1>1. /\ worker'[q].pc = "idle" /\ worker'[q].outcome = None
      /\ \A c \in Checkpoints : worker'[q].statuses[c] = None
  BY NoneIs
<1> QED
  BY <1>1, StatusesAre DEF WorkerIs, PlaceIs, AttemptIs, LeaseIs, RowsAre, StatusIs, ChoiceIs,
     Busy, Closing, Working

LEMMA WorkerDiesKeeps ==
  ASSUME IInv, NEW q \in Queues, WorkerDies(q)
  PROVE  IInv'
<1>1. ~At(q, "idle") /\ Batch(q) \in Batches /\ faults' \in Nat
  BY HomeIs, StayIs DEF WorkerDies
<1>2. /\ worker' \in [Queues -> Workers] /\ OthersSame(q) /\ worker'[q] = Idle
      /\ worker'[q].pc # "submit"
  BY NoneIs DEF WorkerDies, OthersSame, IInv, TypeOK
<1>3. WorkerIs(q, worker[q])'
  BY <1>2, IdleFits
<1>4. /\ job' \in [Batches -> {"absent", "queued", "running"} \cup (Ends \ {None})]
      /\ \A b \in Batches : job'[b] = "succeeded" => job[b] = "succeeded"
  BY DEF WorkerDies, IInv, TypeOK, WorldType
<1>5. /\ UNCHANGED <<ended, auto, lease, evaluations, records, asked, requests, ledger, slipped>>
      /\ UNCHANGED <<rows, sent, promotion, projection, receipt, verified, prepared, calls,
                     expired>>
  BY DEF WorkerDies, ledger, records, evaluations
<1>6. slipped \in BOOLEAN
  BY DEF IInv, TypeOK, WorldType
<1>7. CASE worker[q].pc = "publish" /\ Unsent(q) /\ Arrives(q)
  BY <1>1, <1>2, <1>3, <1>4, <1>5, <1>6, <1>7, PublishingKeeps
<1>8. CASE UNCHANGED wandbs
  <2>1. UNCHANGED <<wandb, points>>
    BY <1>8 DEF wandbs
  <2>2. TypeOK'
    BY <1>1, <1>2, <1>4, <1>5, <2>1 DEF IInv, TypeOK, WorldType, EvalType, LogType, evaluations
  <2>3. \A d \in Checkpoints : expired[d] <= expired'[d]
    BY <1>5 DEF IInv, TypeOK, EvalType
  <2>4. RecordsGrow /\ CallsStay /\ LeaseStays
    BY <1>5, <2>1, <2>3 DEF RecordsGrow, CallsStay, LeaseStays
  <2>5. ApartOK' /\ CallOK' /\ LogOK' /\ SuccessOK'
    BY <1>2, <1>4, <1>5, <1>8, <2>2, <2>3, <2>4, ApartFromOther, CallsStand, LogStands,
       SuccessStands
  <2> QED
    BY <1>2, <1>3, <1>5, <2>2, <2>4, <2>5, OthersKeep, StepKeeps
<1> QED
  BY <1>7, <1>8 DEF WorkerDies, At

LEMMA AppendRowKeeps ==
  ASSUME IInv, NEW q \in Queues, AppendRow(q)
  PROVE  IInv'
<1> DEFINE b == Batch(q)
           c == Current(q)
<1>1. worker[q].pc = "append" /\ faults' = faults
  BY DEF AppendRow, At
<1>2. /\ b \in Batches /\ c \in Checkpoints /\ Todo(q) # {} /\ ~worker[q].early /\ ended
      /\ slipped \/ (lease = q /\ wandb <= worker[q].offset + sent[b])
      /\ rows[b] \in Seq(Checkpoints)
  BY <1>1, PublisherIs
<1> HIDE DEF b, c
<1>3. CASE Waits(q) /\ UNCHANGED <<lease, rows>>
  <2>1. OnlyWorker
    BY <1>3, StayIs DEF AppendRow, OnlyWorker, ledger
  <2> QED
    BY <1>1, <1>2, <1>3, <2>1, SettleKeeps, StatusesAre DEF Waits, Busy
<1>4. CASE /\ lease' = q /\ Goes(q, "publish")
           /\ rows' = IF Contains(rows[b], c) THEN rows
                      ELSE [rows EXCEPT ![b] = @ \o <<c>>]
  <2>1. /\ worker' \in [Queues -> Workers] /\ OthersSame(q) /\ SameJob(q)
        /\ worker'[q].pc = "publish"
    BY <1>4, GoesIs DEF IInv, Working, Busy
  <2>2. /\ UNCHANGED <<ended, auto, evaluations, records, wandbs, queue, sent, slipped, faults>>
        /\ UNCHANGED <<promotion, projection, receipt, verified, prepared, expired, calls,
                       wandb, points, job>>
    BY DEF AppendRow, records, wandbs, evaluations, queue
  <2>3. /\ rows' \in [Batches -> Seq(Checkpoints)] /\ Contains(rows'[b], c)
        /\ \A d \in Batches \ {b} : rows'[d] = rows[d]
        /\ Len(rows[b]) <= Len(rows'[b])
        /\ \A i \in 1..Len(rows[b]) : rows'[b][i] = rows[b][i]
    <3>1. rows \in [Batches -> Seq(Checkpoints)] /\ Len(rows[b]) \in Nat
      BY <1>2 DEF IInv, TypeOK, LogType
    <3>2. CASE Contains(rows[b], c)
      BY <1>4, <3>1, <3>2
    <3>3. CASE ~Contains(rows[b], c)
      <4> DEFINE s == rows[b] \o <<c>>
      <4>1. /\ s \in Seq(Checkpoints) /\ Len(s) = Len(rows[b]) + 1
            /\ s[Len(rows[b]) + 1] = c /\ \A i \in 1..Len(rows[b]) : s[i] = rows[b][i]
        BY <1>2, ConcatProperties
      <4>2. rows' = [rows EXCEPT ![b] = s]
        BY <1>4, <3>3
      <4> HIDE DEF s
      <4>3. rows' \in [Batches -> Seq(Checkpoints)] /\ rows'[b] = s
            /\ \A d \in Batches \ {b} : rows'[d] = rows[d]
        BY <1>2, <3>1, <4>1, <4>2
      <4>4. Contains(s, c)
        BY <3>1, <4>1 DEF Contains
      <4> QED
        BY <3>1, <4>1, <4>3, <4>4
    <3> QED
      BY <3>2, <3>3
  <2>4. TypeOK'
    BY <2>1, <2>2, <2>3 DEF IInv, TypeOK, WorldType, EvalType, LogType, records, wandbs,
       evaluations, queue
  <2>5. RecordsGrow /\ CallsStay /\ \A d \in Checkpoints : expired[d] <= expired'[d]
    <3>1. \A d \in Checkpoints : expired[d] <= expired'[d]
      BY <2>2 DEF IInv, TypeOK, EvalType
    <3> QED
      BY <2>2, <3>1 DEF RecordsGrow, CallsStay
  <2>6. LeaseIs(q, worker[q])'
    BY <1>2, <1>4, <2>1, <2>2 DEF LeaseIs, SameJob, b, Batch
  <2>7. WorkerIs(q, worker[q])'
    BY <1>1, <1>2, <1>4, <2>3, <2>5, <2>6, GoFits DEF Working, Busy, Closing, b, c
  <2>8. \A r \in Queues \ {q} : LeaseIs(r, worker[r])' /\ RowsAre(worker[r])'
    BY <1>1, <2>1, <2>2, <2>3, RowsOfOthers DEF b
  <2>9. \A r \in Queues \ {q} : AttemptIs(worker[r])'
    BY <2>1, <2>4, <2>5, OthersKeep
  <2>10. LogOK'
    <3>1. ASSUME NEW d \in Batches
          PROVE  /\ sent[d] <= Len(rows'[d])
                 /\ slipped \/ \A i \in 1..sent[d] : rows'[d][i] \in points
      <4>1. /\ sent[d] <= Len(rows[d]) /\ sent[d] \in Nat /\ Len(rows[d]) \in Nat
            /\ Len(rows'[d]) \in Nat
            /\ slipped \/ \A i \in 1..sent[d] : rows[d][i] \in points
        BY <2>3 DEF IInv, TypeOK, LogType, LogOK
      <4>2. \A i \in 1..sent[d] : rows'[d][i] = rows[d][i]
        BY <2>3, <4>1
      <4> QED
        BY <2>3, <4>1, <4>2
    <3> QED
      BY <2>2, <3>1 DEF IInv, LogOK, ProjectedIsLogged
  <2>11. ApartOK' /\ CallOK' /\ SuccessOK'
    BY <2>1, <2>2, <2>4, <2>5, ApartFromOther, CallsStand, SuccessStands
  <2> QED
    BY <2>1, <2>4, <2>5, <2>7, <2>8, <2>9, <2>10, <2>11, StepKeeps
<1> QED
  BY <1>3, <1>4 DEF AppendRow, b, c

LEMMA RecordKeeps ==
  ASSUME IInv, NEW q \in Queues, Record(q)
  PROVE  IInv'
<1> DEFINE b == Batch(q)
           c == Current(q)
           mark == HighWater(q)
<1>1. worker[q].pc = "record" /\ faults' = faults
  BY DEF Record, At
<1>2. /\ b \in Batches /\ c \in Checkpoints /\ Todo(q) # {} /\ ended /\ wandb \in Nat
      /\ rows[b] \in Seq(Checkpoints) /\ worker[q].offset \in Nat /\ WorkerIs(q, worker[q])
  BY <1>1, PublisherIs
<1>3. Contains(rows[b], c) /\ sent[b] = Len(rows[b])
  BY <1>1, <1>2, PlacesAre DEF WorkerIs, RowsAre
<1>4. mark = worker[q].offset + Len(rows[b])
  BY DEF HighWater
<1> HIDE DEF b, c, mark
<1>5. CASE UNCHANGED projection /\ Waits(q)
  <2>1. OnlyWorker
    BY <1>5, StayIs DEF Record, OnlyWorker, records
  <2> QED
    BY <1>1, <1>2, <1>5, <2>1, SettleKeeps, StatusesAre DEF Waits, Busy
<1>6. CASE /\ wandb >= mark /\ projection[c] = 0
           /\ projection' = [projection EXCEPT ![c] = mark] /\ Settles(q, verified[c])
  <2>1. mark \in Nat /\ mark # 0 /\ mark <= wandb /\ (c \in points \/ slipped)
    <3>1. PICK i \in 1..Len(rows[b]) : rows[b][i] = c
      BY <1>3 DEF Contains
    <3>2. Len(rows[b]) \in Nat /\ Len(rows[b]) >= 1
      BY <1>2, <3>1
    <3>3. slipped \/ rows[b][i] \in points
      BY <1>2, <1>3, <3>1 DEF IInv, LogOK
    <3>4. mark \in Nat /\ mark # 0
      BY <1>2, <1>4, <3>2
    <3> QED
      BY <1>2, <1>6, <3>1, <3>3, <3>4
  <2>2. /\ UNCHANGED <<ended, auto, lease, evaluations, wandbs, queue, ledger, slipped, faults>>
        /\ UNCHANGED <<promotion, receipt, verified, prepared, expired, calls, wandb, points,
                       rows, sent, job>>
    BY DEF Record, wandbs, evaluations, queue, ledger
  <2>3. /\ projection' \in [Checkpoints -> Nat] /\ projection'[c] = mark
        /\ \A d \in Checkpoints \ {c} : projection'[d] = projection[d]
    BY <1>2, <1>6, <2>1 DEF IInv, TypeOK, LogType
  <2>4. verified[c] \in Shown \cup {None}
    BY <1>2 DEF IInv, TypeOK, EvalType
  <2>5. worker' \in [Queues -> Workers] /\ OthersSame(q) /\ worker'[q].pc # "submit"
    BY <1>2, <1>6, <2>4, SettlesIs DEF IInv, b
  <2>6. TypeOK'
    BY <2>2, <2>3, <2>5 DEF IInv, TypeOK, WorldType, EvalType, LogType, wandbs, evaluations,
       queue, ledger
  <2>7. \A d \in Checkpoints : expired[d] <= expired'[d]
    BY <2>2 DEF IInv, TypeOK, EvalType
  <2>8. RecordsGrow /\ CallsStay /\ LeaseStays
    BY <1>6, <2>2, <2>3, <2>7 DEF RecordsGrow, CallsStay, LeaseStays
  <2>9. WorkerIs(q, worker[q])'
    BY <1>1, <1>2, <1>6, <2>1, <2>2, <2>3, <2>4, <2>8, SettleFits DEF Busy, c
  <2>10. LogOK'
    <3>1. /\ \A d \in Checkpoints : projection'[d] <= wandb
          /\ \A d \in Checkpoints : projection'[d] # 0 => d \in points \/ slipped
      BY <2>1, <2>3 DEF IInv, LogOK, ProjectedIsLogged
    <3> QED
      BY <1>2, <2>2, <3>1 DEF IInv, LogOK, ProjectedIsLogged
  <2>11. ApartOK' /\ CallOK' /\ SuccessOK'
    BY <2>2, <2>5, <2>6, <2>7, <2>8, ApartFromOther, CallsStand, SuccessStands
  <2> QED
    BY <2>2, <2>5, <2>6, <2>8, <2>9, <2>10, <2>11, OthersKeep, StepKeeps
<1> QED
  BY <1>5, <1>6 DEF Record, c, mark

-----------------------------------------------------------------------------
(* Concluding *)

\* What a step of q in a job leaves, when it touches the records alone.
LEMMA RecordingKeeps ==
  ASSUME IInv, NEW q \in Queues, worker' \in [Queues -> Workers], OthersSame(q),
         worker'[q].pc # "submit", WorkerIs(q, worker[q])',
         UNCHANGED <<ended, auto, lease, evaluations, projection, wandbs, asked, requests, ledger,
                     slipped, faults>>,
         promotion' \in Promotions, DOMAIN receipt' = Batches, RecordsGrow,
         job' \in [Batches -> {"absent", "queued", "running"} \cup (Ends \ {None})],
         SuccessOK'
  PROVE  IInv'
<1>1. UNCHANGED <<prepared, expired, calls, wandb, sent>>
  BY DEF evaluations, wandbs, ledger
<1>2. TypeOK'
  BY DEF IInv, TypeOK, WorldType, EvalType, LogType, evaluations, wandbs, ledger
<1>3. \A d \in Checkpoints : expired[d] <= expired'[d]
  BY <1>1 DEF IInv, TypeOK, EvalType
<1>4. CallsStay /\ LeaseStays
  BY <1>1, <1>3 DEF CallsStay, LeaseStays
<1>5. ApartOK' /\ CallOK' /\ LogOK'
  BY <1>1, <1>2, <1>3, ApartFromOther, CallsStand, LogStands
<1> QED
  BY <1>2, <1>4, <1>5, OthersKeep, StepKeeps

LEMMA PromoteKeeps ==
  ASSUME IInv, NEW q \in Queues, Promote(q)
  PROVE  IInv'
<1> DEFINE k == worker[q].choice
<1>1. worker[q].pc = "promote" /\ ~At(q, "idle") /\ faults' = faults
  BY DEF Promote, At
<1>2. WorkerIs(q, worker[q]) /\ worker[q] \in Workers
  BY <1>1, HomeIs DEF IInv, WorkersOK
<1>3. /\ k \in Promotions /\ Leads(k.checkpoint, worker[q])
      /\ ~worker[q].asked => \A c \in Selection[Batch(q)] : Statuses(q)[c] \in Final
  BY <1>1, <1>2 DEF WorkerIs, PlaceIs, ChoiceIs, Workers, Closing, Batch, Statuses
<1> HIDE DEF k
<1>4. CASE UNCHANGED promotion /\ (Returns(q, "failed") \/ Returns(q, "blocked"))
  <2>1. OnlyWorker
    BY <1>4, StayIs DEF Promote, OnlyWorker, records
  <2> QED
    BY <1>1, <1>4, <2>1, ReturnKeeps DEF Ends, None
<1>5. CASE promotion' = k /\ Goes(q, "leader") /\ promotion \in {k, NoPromotion}
  <2>1. /\ worker' \in [Queues -> Workers] /\ OthersSame(q) /\ worker'[q].pc # "submit"
    BY <1>5, GoesIs DEF IInv, Working, Closing
  <2>2. /\ UNCHANGED <<ended, auto, lease, evaluations, projection, receipt, wandbs, queue,
                       ledger, slipped, faults>>
        /\ UNCHANGED <<verified, wandb, sent, job, asked, requests>>
    BY DEF Promote, evaluations, wandbs, ledger, queue
  <2>3. RecordsGrow /\ LeaseStays
    BY <1>5, <2>2 DEF RecordsGrow, LeaseStays
  <2>4. WorkerIs(q, worker[q])'
    BY <1>1, <1>3, <1>5, <2>3, GoFits DEF Working, Busy, Closing
  <2>5. SuccessOK'
    BY <2>2, <2>3, SuccessStands
  <2>6. /\ DOMAIN receipt' = Batches
        /\ job' \in [Batches -> {"absent", "queued", "running"} \cup (Ends \ {None})]
    BY <2>2 DEF IInv, TypeOK, WorldType
  <2> QED
    BY <1>3, <1>5, <2>1, <2>2, <2>3, <2>4, <2>5, <2>6, RecordingKeeps
<1>6. \/ promotion = NoPromotion /\ promotion' = k /\ Goes(q, "leader")
      \/ promotion = k /\ UNCHANGED promotion /\ Goes(q, "leader")
      \/ UNCHANGED promotion /\ (Returns(q, "failed") \/ Returns(q, "blocked"))
  BY DEF Promote, k
<1> QED
  BY <1>4, <1>5, <1>6

\* A batch that concludes with success is backed by the records.
LEMMA SuccessIsBacked ==
  ASSUME IInv, NEW q \in Queues, worker[q].pc = "receipt", Conclusion(q).state = "succeeded",
         UNCHANGED <<verified, projection, promotion>>,
         NEW b \in Batches, b = Batch(q), receipt'[b] = {Conclusion(q)}
  PROVE  Backed(b)'
<1>1. WorkerIs(q, worker[q]) /\ Batch(q) \in Batches
  BY HomeIs DEF At, IInv, WorkersOK
<1>2. /\ ~worker[q].asked
      /\ \A c \in Selection[Batch(q)] : Statuses(q)[c] \notin {"failed", "expired"}
  BY DEF Conclusion
<1>3. \A c \in Selection[Batch(q)] : Statuses(q)[c] \in Final
  BY <1>1, <1>2 DEF WorkerIs, PlaceIs, Closing, Batch, Statuses
<1>4. ASSUME NEW c \in Selection[Batch(q)]
      PROVE  /\ verified[c] \in {"accepted", "rejected"} /\ projection[c] # 0
             /\ verified[c] = "accepted" => promotion.checkpoint \in 1..c
  <2>1. c \in Checkpoints /\ worker[q].statuses[c] \in {"accepted", "rejected"}
    BY <1>1, <1>2, <1>3 DEF Statuses, Final
  <2>2. verified[c] = worker[q].statuses[c] /\ projection[c] # 0
    BY <1>1, <2>1 DEF WorkerIs, StatusIs, Told
  <2>3. worker[q].statuses[c] = "accepted" => promotion.checkpoint \in 1..c
    BY <1>1 DEF WorkerIs, ChoiceIs, Leads, Batch
  <2> QED
    BY <2>1, <2>2, <2>3
<1>5. \E r \in receipt'[b] : r.state = "succeeded"
  OBVIOUS
<1> QED
  BY <1>4, <1>5 DEF Backed

LEMMA WriteReceiptKeeps ==
  ASSUME IInv, NEW q \in Queues, WriteReceipt(q)
  PROVE  IInv'
<1> DEFINE r == Conclusion(q)
<1>1. worker[q].pc = "receipt" /\ ~At(q, "idle") /\ faults' = faults
  BY DEF WriteReceipt, At
<1>5. PICK b \in Batches : b = Batch(q) /\ Home[b] = q
  BY <1>1, HomeIs
<1>2. r.state \in Ends \ {None}
  BY DEF Conclusion, Ends, None
<1> HIDE DEF r
<1>3. CASE UNCHANGED receipt /\ Returns(q, "failed")
  <2>1. OnlyWorker
    BY <1>3, StayIs DEF WriteReceipt, OnlyWorker, records
  <2> QED
    BY <1>1, <1>3, <2>1, ReturnKeeps DEF Ends, None
<1>4. CASE /\ receipt[b] \subseteq {r} /\ receipt' = [receipt EXCEPT ![b] = {r}]
           /\ Returns(q, r.state)
  <2>1. /\ worker' \in [Queues -> Workers] /\ OthersSame(q)
        /\ worker'[q].pc = "finish" /\ worker'[q].batch = b /\ worker'[q].outcome = r.state
        /\ \A c \in Checkpoints : worker'[q].statuses[c] = None
    BY <1>2, <1>4, <1>5, ReturnsIs DEF IInv, Batch
  <2>2. /\ UNCHANGED <<ended, auto, lease, evaluations, promotion, projection, wandbs, queue,
                       ledger, slipped, faults>>
        /\ UNCHANGED <<verified, job, asked, requests>>
    BY DEF WriteReceipt, evaluations, queue
  <2>3. /\ DOMAIN receipt = Batches /\ DOMAIN receipt' = Batches /\ receipt'[b] = {r}
        /\ \A d \in Batches : d # b => receipt'[d] = receipt[d]
    BY <1>2, <1>4 DEF IInv, TypeOK
  <2>4. RecordsGrow
    <3>1. \A d \in Batches : receipt[d] # {} => receipt'[d] = receipt[d]
      BY <1>4, <2>3
    <3> QED
      BY <2>2, <3>1 DEF RecordsGrow
  <2>5. r.state = "succeeded" => Backed(b)'
    BY <1>1, <1>5, <2>2, <2>3, SuccessIsBacked DEF r
  <2>6. ChoiceIs(worker[q])'
    BY <2>1, <2>5 DEF ChoiceIs, Backed
  <2>7. WorkerIs(q, worker[q])'
    BY <1>2, <1>5, <2>1, <2>6, StatusesAre DEF WorkerIs, PlaceIs, AttemptIs, LeaseIs, RowsAre,
       StatusIs, Busy, Closing, Working
  <2>8. SuccessOK'
    BY <2>2, <2>4, SuccessStands
  <2>9. /\ job' \in [Batches -> {"absent", "queued", "running"} \cup (Ends \ {None})]
        /\ promotion' \in Promotions
    BY <2>2 DEF IInv, TypeOK, WorldType
  <2> QED
    BY <2>1, <2>2, <2>3, <2>4, <2>7, <2>8, <2>9, RecordingKeeps
<1> QED
  BY <1>3, <1>4, <1>5 DEF WriteReceipt, r

LEMMA FinishKeeps ==
  ASSUME IInv, NEW q \in Queues, Finish(q)
  PROVE  IInv'
<1> DEFINE b == Batch(q)
           outcome == worker[q].outcome
<1>1. worker[q].pc = "finish" /\ ~At(q, "idle")
  BY DEF Finish, At
<1>2. /\ b \in Batches /\ outcome \in Ends \ {None}
      /\ outcome = "succeeded" => Backed(b)
  BY <1>1, HomeIs DEF Workers, IInv, WorkersOK, WorkerIs, PlaceIs, ChoiceIs, Batch
<1>3. /\ worker' \in [Queues -> Workers] /\ OthersSame(q) /\ worker'[q] = Idle
      /\ worker'[q].pc # "submit"
  BY NoneIs DEF Finish, OthersSame, IInv, TypeOK
<1>4. WorkerIs(q, worker[q])'
  BY <1>3, IdleFits
<1> HIDE DEF outcome, b
<1>5. /\ job' \in [Batches -> {"absent", "queued", "running"} \cup (Ends \ {None})]
      /\ job'[b] = outcome /\ \A d \in Batches : d # b => job'[d] = job[d]
  <2>1. job' = [job EXCEPT ![b] = outcome]
    BY DEF Finish, b, outcome
  <2>2. job \in [Batches -> {"absent", "queued", "running"} \cup (Ends \ {None})]
    BY DEF IInv, TypeOK, WorldType
  <2> QED
    BY <1>2, <2>1, <2>2
<1>6. /\ UNCHANGED <<ended, auto, lease, evaluations, records, wandbs, asked, requests, ledger,
                     slipped, faults>>
      /\ UNCHANGED <<promotion, projection, receipt, verified>>
  BY DEF Finish, records, evaluations
<1>7. RecordsGrow
  BY <1>6 DEF RecordsGrow
<1>8. SuccessOK'
  <2>1. ASSUME NEW d \in Batches, job'[d] = "succeeded"
        PROVE  Backed(d)'
    <3>1. Backed(d)
      BY <1>2, <1>5, <2>1 DEF IInv, SuccessOK
    <3> QED
      BY <1>7, <3>1, BackedGrows DEF IInv
  <2> QED
    BY <2>1 DEF SuccessOK
<1>9. promotion' \in Promotions /\ DOMAIN receipt' = Batches
  BY <1>6 DEF IInv, TypeOK, WorldType
<1> QED
  BY <1>3, <1>4, <1>5, <1>6, <1>7, <1>8, <1>9, RecordingKeeps

LEMMA ClaimKeeps ==
  ASSUME IInv, NEW b \in Batches, Claim(b)
  PROVE  IInv'
<1> DEFINE q == Home[b]
           w == [Idle EXCEPT !.batch = b, !.pc = "begin", !.asked = asked[b]]
<1>1. q \in Queues
  OBVIOUS
<1>2. /\ worker' = [worker EXCEPT ![q] = w] /\ job' = [job EXCEPT ![b] = "running"]
      /\ UNCHANGED <<ended, auto, lease, evaluations, records, wandbs, asked, requests, ledger,
                     slipped, faults>>
  BY DEF Claim
<1>3. /\ w \in Workers /\ w.batch = b /\ w.pc = "begin" /\ w.outcome = None
      /\ \A c \in Checkpoints : w.statuses[c] = None
  <2>1. asked[b] \in BOOLEAN
    BY DEF IInv, TypeOK, WorldType
  <2>2. Idle \in Workers /\ Idle.outcome = None /\ \A c \in Checkpoints : Idle.statuses[c] = None
    BY NoneIs
  <2> QED
    BY <2>1, <2>2 DEF Workers
<1> HIDE DEF w
<1>4. worker' \in [Queues -> Workers] /\ OthersSame(q) /\ worker'[q] = w
  BY <1>1, <1>2, <1>3 DEF OthersSame, IInv, TypeOK
<1>5. WorkerIs(q, worker[q])'
  BY <1>1, <1>3, <1>4, StatusesAre DEF WorkerIs, PlaceIs, AttemptIs, LeaseIs, RowsAre, StatusIs,
     ChoiceIs, Busy, Closing, Working
<1>6. /\ UNCHANGED <<promotion, projection, receipt, verified>>
  BY <1>2 DEF records, evaluations
<1>7. RecordsGrow
  BY <1>6 DEF RecordsGrow
<1>8. /\ job' \in [Batches -> {"absent", "queued", "running"} \cup (Ends \ {None})]
      /\ \A d \in Batches : job'[d] = "succeeded" => job[d] = "succeeded"
  BY <1>2 DEF IInv, TypeOK, WorldType
<1>9. SuccessOK' /\ promotion' \in Promotions /\ DOMAIN receipt' = Batches
  BY <1>6, <1>7, <1>8, SuccessStands DEF IInv, TypeOK, WorldType
<1>10. worker'[q].pc # "submit"
  BY <1>3, <1>4
<1> HIDE DEF q
<1> QED
  BY <1>1, <1>2, <1>4, <1>5, <1>6, <1>7, <1>8, <1>9, <1>10, RecordingKeeps

-----------------------------------------------------------------------------
(* Training, Modal, the operator, time *)

LEMMA WorldKeeps ==
  ASSUME IInv, TypeOK', worker' = worker, RecordsGrow, CallsStay, UNCHANGED ledger,
         \A r \in Queues : LeaseIs(r, worker[r])', CallOK', LogOK',
         \A b \in Batches : job'[b] = "succeeded" => job[b] = "succeeded"
  PROVE  IInv'
<1>1. ASSUME NEW r \in Queues
      PROVE  WorkerIs(r, worker[r])'
  BY OthersStay, AttemptsStay, RowsStay DEF WorkerIs
<1>2. ApartOK' /\ SuccessOK'
  BY ApartStays, SuccessStands
<1> QED
  BY <1>1, <1>2 DEF IInv, WorkersOK

\* Nobody who may publish is there before training has ended.
LEMMA EarlyAll ==
  ASSUME IInv, NEW r \in Queues, ~ended
  PROVE  ~(worker[r].pc \in Working /\ ~worker[r].early)
BY DEF IInv, WorkersOK, WorkerIs, LeaseIs

LEMMA TrainingKeeps ==
  ASSUME IInv, (\E c \in Checkpoints : TrainingAccepts(c)) \/ TrainingRestarts \/ TrainingEnds
  PROVE  IInv'
<1>1. /\ UNCHANGED <<evaluations, receipt, projection, wandbs, queue, ledger, worker, slipped,
                     faults>>
      /\ UNCHANGED <<prepared, expired, calls, result, verified, wandb, points, rows, sent, job,
                     asked, requests>>
      /\ ~ended
  BY DEF TrainingAccepts, TrainingRestarts, TrainingStops, TrainingResumes, TrainingEnds,
     evaluations, records, wandbs, queue, ledger
<1>2. /\ auto \subseteq Checkpoints /\ auto' \subseteq Checkpoints /\ ended' \in BOOLEAN
  BY DEF TrainingAccepts, TrainingRestarts, TrainingEnds, IInv, TypeOK, WorldType
<1>3. promotion' \in Promotions /\ (promotion # NoPromotion => promotion' = promotion)
  <2>1. CASE UNCHANGED promotion
    BY <2>1 DEF IInv, TypeOK, WorldType
  <2>2. CASE promotion = NoPromotion /\ auto # {} /\ promotion' = Accepted(Min(auto), "training")
    <3>1. auto \in SUBSET Nat
      BY <1>2
    <3>2. Min(auto) \in Checkpoints
      BY <1>2, <2>2, <3>1, MinIs
    <3> QED
      BY <2>2, <3>2 DEF Accepted, Promotions
  <2> QED
    BY <2>1, <2>2 DEF TrainingAccepts, TrainingRestarts, TrainingEnds, records
<1>4. TypeOK'
  BY <1>1, <1>2, <1>3 DEF IInv, TypeOK, WorldType, EvalType, LogType
<1>5. RecordsGrow /\ CallsStay
  <2>1. \A d \in Checkpoints : expired[d] <= expired'[d]
    BY <1>1 DEF IInv, TypeOK, EvalType
  <2> QED
    BY <1>1, <1>3, <2>1 DEF RecordsGrow, CallsStay
<1>6. ASSUME NEW r \in Queues
      PROVE  LeaseIs(r, worker[r])'
  BY <1>1, EarlyAll DEF LeaseIs
<1>7. CallOK' /\ LogOK'
  <2>1. \A d \in Checkpoints : expired[d] <= expired'[d]
    BY <1>1 DEF IInv, TypeOK, EvalType
  <2> QED
    BY <1>1, <1>4, <2>1, CallsStand, LogStands
<1> QED
  BY <1>1, <1>4, <1>5, <1>6, <1>7, WorldKeeps

LEMMA LeaseKeeps ==
  ASSUME IInv, LeaseExpires \/ \E q \in Queues : LeaseLapses(q)
  PROVE  IInv'
<1>1. /\ UNCHANGED <<ended, auto, evaluations, records, wandbs, queue, ledger, worker>>
      /\ UNCHANGED <<prepared, expired, calls, verified, promotion, projection, receipt, wandb,
                     sent, job>>
      /\ slipped' \in BOOLEAN /\ (slipped => slipped') /\ faults' \in Nat
  BY StayIs DEF LeaseExpires, LeaseLapses, evaluations, records, wandbs, queue, ledger, IInv,
     TypeOK, WorldType
<1>2. TypeOK'
  BY <1>1 DEF IInv, TypeOK, WorldType, EvalType, LogType, evaluations, records, wandbs, queue,
     ledger
<1>3. \A d \in Checkpoints : expired[d] <= expired'[d]
  BY <1>1 DEF IInv, TypeOK, EvalType
<1>4. RecordsGrow /\ CallsStay
  BY <1>1, <1>3 DEF RecordsGrow, CallsStay
<1>5. ASSUME NEW r \in Queues
      PROVE  LeaseIs(r, worker[r])'
  <2>1. LeaseIs(r, worker[r])
    BY DEF IInv, WorkersOK, WorkerIs
  <2>2. CASE LeaseExpires
    <3>1. lease = r => worker[r].pc = "idle"
      BY <2>2 DEF LeaseExpires, At
    <3> QED
      BY <1>1, <2>1, <3>1, StatusesAre DEF LeaseIs
  <2>3. CASE \E q \in Queues : LeaseLapses(q)
    BY <1>1, <2>1, <2>3 DEF LeaseIs, LeaseLapses
  <2> QED
    BY <2>2, <2>3
<1>6. CallOK' /\ LogOK'
  BY <1>1, <1>2, <1>3, CallsStand, LogStands
<1> QED
  BY <1>1, <1>2, <1>4, <1>5, <1>6, WorldKeeps

LEMMA CallsKeep ==
  ASSUME IInv, NEW c \in Checkpoints, Expire(c) \/ \E a \in Attempts : WorkerUploads(c, a)
  PROVE  IInv'
<1>1. /\ UNCHANGED <<ended, auto, lease, prepared, verified, records, wandbs, queue, ledger,
                     worker, slipped, faults>>
      /\ UNCHANGED <<promotion, projection, receipt, wandb, sent, job>>
  BY DEF Expire, WorkerUploads, records, wandbs, queue, ledger
<1>2. /\ expired' \in [Checkpoints -> Nat] /\ \A d \in Checkpoints : expired[d] <= expired'[d]
  <2>1. expired \in [Checkpoints -> Nat] /\ prepared \in [Checkpoints -> Nat]
    BY DEF IInv, TypeOK, EvalType
  <2>2. CASE expired' = expired
    BY <2>1, <2>2
  <2>3. CASE expired[c] < prepared[c] /\ expired' = [expired EXCEPT ![c] = prepared[c]]
    BY <2>1, <2>3
  <2> QED
    BY <2>2, <2>3 DEF Expire, WorkerUploads
<1>3. /\ calls' \in [Checkpoints -> [Attempts -> {None, "live", "gone", "twice"}]]
      /\ \A d \in Checkpoints, n \in Attempts :
           calls'[d][n] = calls[d][n] \/ (calls'[d][n] = "gone" /\ calls[d][n] = "live")
  <2>1. calls \in [Checkpoints -> [Attempts -> {None, "live", "gone", "twice"}]]
    BY DEF IInv, TypeOK, EvalType
  <2>2. CASE calls' = calls
    BY <2>1, <2>2
  <2>3. ASSUME NEW a \in Attempts, calls[c][a] = "live", calls' = [calls EXCEPT ![c][a] = "gone"]
        PROVE  <1>3!1 /\ <1>3!2
    <3> DEFINE one == [calls[c] EXCEPT ![a] = "gone"]
    <3>1. /\ one \in [Attempts -> {None, "live", "gone", "twice"}]
          /\ \A n \in Attempts : one[n] = IF n = a THEN "gone" ELSE calls[c][n]
      BY <2>1
    <3>2. calls' = [calls EXCEPT ![c] = one]
      BY <2>3
    <3> HIDE DEF one
    <3> QED
      BY <2>1, <2>3, <3>1, <3>2
  <2> QED
    BY <2>2, <2>3 DEF Expire, WorkerUploads
<1>4. result' \in [Checkpoints -> [attempt : Attempts, verdict : Verdicts \cup {"expired"}]
                                  \cup {NoResult}]
  <2>1. result \in [Checkpoints -> [attempt : Attempts, verdict : Verdicts \cup {"expired"}]
                                   \cup {NoResult}]
    BY DEF IInv, TypeOK, EvalType
  <2>2. CASE Expire(c)
    BY <2>1, <2>2 DEF Expire
  <2>3. CASE \E a \in Attempts : WorkerUploads(c, a)
    <3>1. PICK a \in Attempts, v \in Verdicts \cup {"expired"} :
            result' = [result EXCEPT ![c] = [attempt |-> a, verdict |-> v]]
      BY <2>3 DEF WorkerUploads
    <3> DEFINE new == [attempt |-> a, verdict |-> v]
    <3>2. new \in [attempt : Attempts, verdict : Verdicts \cup {"expired"}] \cup {NoResult}
      OBVIOUS
    <3>3. result' = [result EXCEPT ![c] = new]
      BY <3>1
    <3> HIDE DEF new
    <3> QED
      BY <2>1, <3>2, <3>3
  <2> QED
    BY <2>2, <2>3
<1>5. TypeOK'
  <2>1. EvalType'
    BY <1>1, <1>2, <1>3, <1>4 DEF IInv, TypeOK, EvalType
  <2>2. WorldType' /\ LogType' /\ worker' \in [Queues -> Workers] /\ DOMAIN receipt' = Batches
    BY <1>1 DEF IInv, TypeOK, WorldType, LogType, records, wandbs, queue, ledger
  <2> QED
    BY <2>1, <2>2 DEF TypeOK
<1>6. RecordsGrow /\ CallsStay
  <2>1. \A d \in Checkpoints, n \in Attempts : calls[d][n] = None => calls'[d][n] = None
    BY <1>3 DEF None
  <2> QED
    BY <1>1, <1>2, <2>1 DEF RecordsGrow, CallsStay
<1>7. \A r \in Queues : LeaseIs(r, worker[r])'
  BY <1>1 DEF IInv, WorkersOK, WorkerIs, LeaseIs
<1>8. CallOK'
  <2>1. "live" # "gone" /\ "gone" # "twice" /\ None # "live"
    BY DEF None
  <2>2. ASSUME NEW d \in Checkpoints, NEW n \in Attempts
        PROVE  /\ calls'[d][n] # None => n <= prepared[d]
               /\ calls'[d][n] # "twice"
               /\ calls'[d][n] = "live" /\ n < prepared[d] => n <= expired'[d]
    <3>1. /\ calls[d][n] # None => n <= prepared[d]
          /\ calls[d][n] # "twice"
          /\ calls[d][n] = "live" /\ n < prepared[d] => n <= expired[d]
      BY DEF IInv, CallOK, OneLiveEvaluation
    <3>2. n \in Int /\ expired[d] \in Nat /\ expired'[d] \in Nat /\ expired[d] <= expired'[d]
      <4>1. n \in Int
        BY DEF Attempts
      <4> QED
        BY <1>2, <4>1 DEF IInv, TypeOK, EvalType
    <3>3. CASE calls'[d][n] = calls[d][n]
      BY <3>1, <3>2, <3>3
    <3>4. CASE calls'[d][n] = "gone" /\ calls[d][n] = "live"
      BY <2>1, <3>1, <3>4
    <3> QED
      BY <1>3, <3>3, <3>4
  <2> QED
    BY <1>1, <2>2 DEF CallOK, OneLiveEvaluation
<1>9. LogOK'
  BY <1>1, LogStands
<1> QED
  BY <1>1, <1>5, <1>6, <1>7, <1>8, <1>9, WorldKeeps

LEMMA OperatorKeeps ==
  ASSUME IInv, NEW b \in Batches, RequestCancel(b) \/ Retry(b)
  PROVE  IInv'
<1>1. /\ UNCHANGED <<ended, auto, lease, evaluations, records, wandbs, ledger, worker, slipped,
                     faults>>
      /\ UNCHANGED <<prepared, expired, calls, verified, promotion, projection, receipt, wandb,
                     sent>>
  BY DEF RequestCancel, Retry, evaluations, records, wandbs, ledger
<1>2. /\ job' \in [Batches -> {"absent", "queued", "running"} \cup (Ends \ {None})]
      /\ \A d \in Batches : job'[d] = "succeeded" => job[d] = "succeeded"
      /\ asked' \in [Batches -> BOOLEAN] /\ requests' \in Nat
  <2>1. /\ job \in [Batches -> {"absent", "queued", "running"} \cup (Ends \ {None})]
        /\ asked \in [Batches -> BOOLEAN] /\ requests \in Nat
    BY DEF IInv, TypeOK, WorldType
  <2>2. PICK state \in {job[b], "canceled", "queued"} : job' = [job EXCEPT ![b] = state]
    BY DEF RequestCancel, Retry
  <2>3. {"canceled", "queued"} \subseteq {"absent", "queued", "running"} \cup (Ends \ {None})
    BY DEF Ends, None
  <2>4. requests' \in Nat
    BY <2>1 DEF RequestCancel, Retry
  <2>5. asked' \in [Batches -> BOOLEAN]
    BY <2>1 DEF RequestCancel, Retry
  <2>6. /\ job' \in [Batches -> {"absent", "queued", "running"} \cup (Ends \ {None})]
        /\ \A d \in Batches : job'[d] = job[d] \/ job'[d] \in {"canceled", "queued"}
    BY <2>1, <2>2, <2>3
  <2> QED
    BY <2>4, <2>5, <2>6
<1>3. TypeOK'
  BY <1>1, <1>2 DEF IInv, TypeOK, WorldType, EvalType, LogType, evaluations, records, wandbs,
     ledger
<1>4. \A d \in Checkpoints : expired[d] <= expired'[d]
  BY <1>1 DEF IInv, TypeOK, EvalType
<1>5. RecordsGrow /\ CallsStay
  BY <1>1, <1>4 DEF RecordsGrow, CallsStay
<1>6. \A r \in Queues : LeaseIs(r, worker[r])'
  BY <1>1 DEF IInv, WorkersOK, WorkerIs, LeaseIs
<1>7. CallOK' /\ LogOK'
  BY <1>1, <1>3, <1>4, CallsStand, LogStands
<1> QED
  BY <1>1, <1>2, <1>3, <1>5, <1>6, <1>7, WorldKeeps

-----------------------------------------------------------------------------
LEMMA Starts ==
  ASSUME Init
  PROVE  IInv
<1>1. PICK cast \in Casts :
        /\ job = [b \in Batches |-> IF b \in cast.batches THEN "queued" ELSE "absent"]
        /\ faults = cast.faults /\ requests = cast.requests
  BY DEF Init
<1>2. cast.faults \in Nat /\ cast.requests \in Nat
  OBVIOUS
<1>3. TypeOK
  <2>1. WorldType
    <3>1. job \in [Batches -> {"absent", "queued", "running"} \cup (Ends \ {None})]
      BY <1>1
    <3> QED
      BY <1>1, <1>2, <3>1, NoneIs DEF Init, WorldType
  <2>2. EvalType
    BY DEF Init, EvalType
  <2>3. LogType
    BY DEF Init, LogType
  <2>4. worker \in [Queues -> Workers] /\ DOMAIN receipt = Batches
    BY NoneIs DEF Init
  <2> QED
    BY <2>1, <2>2, <2>3, <2>4 DEF TypeOK
<1>4. \A q \in Queues : worker[q] = Idle /\ worker[q].pc = "idle" /\ worker[q].outcome = None
                        /\ \A c \in Checkpoints : worker[q].statuses[c] = None
  BY NoneIs DEF Init
<1>5. WorkersOK
  <2>1. ASSUME NEW q \in Queues
        PROVE  WorkerIs(q, worker[q])
    BY <1>4, StatusesAre DEF WorkerIs, PlaceIs, AttemptIs, LeaseIs, RowsAre, StatusIs, ChoiceIs,
       Busy, Closing, Working
  <2> QED
    BY <2>1 DEF WorkersOK
<1>6. ApartOK
  BY <1>4 DEF ApartOK, At
<1>7. CallOK
  BY DEF Init, CallOK, OneLiveEvaluation, None
<1>8. LogOK
  BY DEF Init, LogOK, ProjectedIsLogged
<1>9. SuccessOK
  BY <1>1 DEF SuccessOK
<1> QED
  BY <1>3, <1>5, <1>6, <1>7, <1>8, <1>9 DEF IInv

LEMMA IdleKeeps ==
  ASSUME IInv, UNCHANGED vars
  PROVE  IInv'
<1>1. /\ UNCHANGED <<evaluations, records, wandbs, queue, ledger>>
      /\ UNCHANGED <<ended, auto, lease, worker, slipped, faults>>
      /\ UNCHANGED <<prepared, expired, calls, verified, promotion, projection, receipt, wandb,
                     sent, job>>
  BY DEF vars, evaluations, records, wandbs, queue, ledger
<1>2. TypeOK'
  BY <1>1 DEF IInv, TypeOK, WorldType, EvalType, LogType, evaluations, records, wandbs, queue,
     ledger
<1>3. \A d \in Checkpoints : expired[d] <= expired'[d]
  BY <1>1 DEF IInv, TypeOK, EvalType
<1>4. RecordsGrow /\ CallsStay
  BY <1>1, <1>3 DEF RecordsGrow, CallsStay
<1>5. \A r \in Queues : LeaseIs(r, worker[r])'
  BY <1>1 DEF IInv, WorkersOK, WorkerIs, LeaseIs
<1>6. CallOK' /\ LogOK'
  BY <1>1, <1>2, <1>3, CallsStand, LogStands
<1> QED
  BY <1>1, <1>2, <1>4, <1>5, <1>6, WorldKeeps

LEMMA Steps ==
  ASSUME IInv, [Next]_vars
  PROVE  IInv'
<1>1. CASE \E q \in Queues : Advance(q) \/ Disturbed(q)
  <2>1. PICK q \in Queues : Advance(q) \/ Disturbed(q)
    BY <1>1
  <2>2. CASE Advance(q)
    BY <2>2, BeginKeeps, LookKeeps, VerifyKeeps, PrepareKeeps, SubmitKeeps, AppendRowKeeps,
       PublishKeeps, PublishedKeeps, RecordKeeps, ConcludeKeeps, CancelKeeps, ChooseKeeps,
       PromoteKeeps, LeaderKeeps, WriteReceiptKeeps, FinishKeeps DEF Advance
  <2>3. CASE Disturbed(q)
    BY <2>3, SubmitKeeps, PublishFailsKeeps, RemoteLagsKeeps, RaisesKeeps, WorkerDiesKeeps,
       LeaseKeeps DEF Disturbed
  <2> QED
    BY <2>1, <2>2, <2>3
<1>2. CASE \E c \in Checkpoints : TrainingAccepts(c) \/ Expire(c)
  BY <1>2, TrainingKeeps, CallsKeep
<1>3. CASE \E c \in Checkpoints, a \in Attempts : WorkerUploads(c, a)
  BY <1>3, CallsKeep
<1>4. CASE TrainingRestarts \/ TrainingEnds \/ LeaseExpires
  BY <1>4, TrainingKeeps, LeaseKeeps
<1>5. CASE \E b \in Batches : Claim(b) \/ RequestCancel(b) \/ Retry(b)
  BY <1>5, ClaimKeeps, OperatorKeeps
<1> QED
  BY <1>1, <1>2, <1>3, <1>4, <1>5, IdleKeeps DEF Next

\* The inductive invariant holds of every run (manual_evaluation.py, advance_batch).
THEOREM Inductive == Spec => []IInv
<1>1. Init => IInv
  BY Starts
<1>2. IInv /\ [Next]_vars => IInv'
  BY Steps
<1> QED
  BY <1>1, <1>2, PTL DEF Spec

\* The records, the ledgers and the workers keep their types: a status is one that
\* _status and _cancel_batch write, and an outcome one that advance_batch returns.
THEOREM TypeCorrect == Spec => []TypeOK
<1>1. IInv => TypeOK
  BY DEF IInv
<1> QED
  BY <1>1, Inductive, PTL

\* Whatever the machines do, no attempt is spawned twice, and no attempt is live once
\* a later one is prepared unless its deadline has passed (_submit_attempt).
THEOREM OneLive == Spec => []OneLiveEvaluation
<1>1. IInv => OneLiveEvaluation
  BY DEF IInv, CallOK
<1> QED
  BY <1>1, Inductive, PTL

\* A projection that is recorded has its result in W&B's history, unless an upload was
\* lost or the numbers may have been given out before (_project_result).
THEOREM ProjectedLogged == Spec => []ProjectedIsLogged
<1>1. IInv => ProjectedIsLogged
  BY DEF IInv, LogOK
<1> QED
  BY <1>1, Inductive, PTL

\* A batch that succeeded has its receipt, verdicts at W&B and in the bucket, and a
\* promotion no later than any checkpoint it accepted (advance_batch, _promote).
THEOREM SuccessBacked == Spec => []SucceededIsBacked
<1>1. IInv => SucceededIsBacked
  BY DEF IInv, SuccessOK, Backed, SucceededIsBacked
<1> QED
  BY <1>1, Inductive, PTL

\* A batch that closes before training has ended was asked to stop, or none of its
\* evaluations came back.
LEMMA ClosesEarly ==
  ASSUME IInv, NEW q \in Queues, worker[q].pc \in {"promote", "receipt"}, ~ended
  PROVE  worker[q].asked \/ \A c \in Selection[Batch(q)] : Statuses(q)[c] = "expired"
<1>1. WorkerIs(q, worker[q]) /\ Batch(q) \in Batches
  BY HomeIs DEF At, IInv, WorkersOK
<1>2. ASSUME ~worker[q].asked, NEW c \in Selection[Batch(q)]
      PROVE  Statuses(q)[c] = "expired"
  <2>1. c \in Checkpoints /\ worker[q].statuses[c] \in Final
    BY <1>1, <1>2 DEF WorkerIs, PlaceIs, Closing, Batch
  <2>2. projection[c] = 0
    BY <2>1 DEF IInv, LogOK
  <2>3. worker[q].statuses[c] \notin Told
    BY <1>1, <2>1, <2>2 DEF WorkerIs, StatusIs
  <2> QED
    BY <2>1, <2>3, StatusesAre DEF Statuses
<1> QED
  BY <1>2

LEMMA EarlyStep ==
  ASSUME IInv, ~ended, NEW q \in Queues, Advance(q) \/ Disturbed(q)
  PROVE  /\ UNCHANGED <<wandbs, projection>>
         /\ \/ UNCHANGED <<promotion, receipt>>
            \/ worker[q].pc \in {"promote", "receipt"}
<1>1. worker[q].pc \notin {"append", "publish", "record"}
  BY PublisherIs
<1> QED
  BY <1>1 DEF Advance, Disturbed, Begin, Look, Verify, Prepare, Submit, AppendRow, Publish,
     Published, Record, Conclude, Cancel, Choose, Promote, Leader, WriteReceipt, Finish,
     SubmitFails, PublishFails, UploadLost, RemoteLags, Raises, WorkerDies, LeaseLapses, At,
     records

\* While training goes on no batch writes to W&B, and one promotes or leaves a receipt
\* only when it was asked to stop or none of its evaluations came back (advance_batch).
THEOREM TrainingFirst == Spec => WaitsForTraining
<1>1. ASSUME IInv, [Next]_vars, ~ended
      PROVE  /\ UNCHANGED <<wandbs, projection>>
             /\ \/ ended'
                \/ UNCHANGED <<promotion, receipt>>
                \/ \E q \in Queues :
                     /\ worker[q].pc \in {"promote", "receipt"}
                     /\ \/ worker[q].asked
                        \/ \A c \in Selection[Batch(q)] : Statuses(q)[c] = "expired"
  <2>1. CASE \E q \in Queues : Advance(q) \/ Disturbed(q)
    BY <1>1, <2>1, EarlyStep, ClosesEarly
  <2>2. CASE TrainingEnds
    BY <2>2 DEF TrainingEnds
  <2>3. CASE \/ \E c \in Checkpoints : TrainingAccepts(c) \/ Expire(c)
             \/ \E c \in Checkpoints, a \in Attempts : WorkerUploads(c, a)
             \/ TrainingRestarts \/ LeaseExpires
             \/ \E b \in Batches : Claim(b) \/ RequestCancel(b) \/ Retry(b)
    BY <2>3 DEF TrainingAccepts, Expire, WorkerUploads, TrainingRestarts, LeaseExpires, Claim,
       RequestCancel, Retry, records
  <2>4. CASE UNCHANGED vars
    BY <2>4 DEF vars, records
  <2> QED
    BY <1>1, <2>1, <2>2, <2>3, <2>4 DEF Next
<1> QED
  BY <1>1, Inductive, PTL DEF Spec, WaitsForTraining
=============================================================================
