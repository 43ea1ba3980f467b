-------------------------- MODULE RunRecords_proofs --------------------------
(***************************************************************************)
(* Proofs about RunRecords, the goal catalog and the public index, for     *)
(* every set of writes, updaters and casts and any number of rounds.       *)
(***************************************************************************)
EXTENDS RunRecords, FiniteSetTheorems, WellFoundedInduction, TLAPS

USE NamesAssumption, PromotersAssumption, IndexBoundsAssumption, AbsentAssumption,
    CatalogBoundsAssumption, ProjectorsAssumption, CastsAssumption, PromotionsAssumption,
    LapsesAssumption

Backed(doc) ==
    doc.promotion # None =>
        /\ doc.promotion \in doc.rows
        /\ \E w \in Promoters : Names[w] = doc.promotion /\ Verified(w)

(* The index: an updater has rounds left while it runs, has read no version *)
(* that is newer than the document, and brings a promotion that is stored.  *)
RoundsLeft ==
    \A u \in Updaters : upc[u] \in {"off", "get", "head", "put"} => urounds[u] < MaxRounds
ReadsOlder ==
    \A u \in Updaters :
        /\ uread[u].version <= index.version
        /\ uread[u].version = index.version => uread[u] = index
AllBacked == Backed(index) /\ \A u \in Updaters : Backed(uread[u])
Brings == \A u \in Promoters : upc[u] \in {"get", "head", "put"} => Verified(u)

IndexInv == RoundsLeft /\ ReadsOlder /\ AllBacked /\ Brings

(* The catalog: what a projector has found is stored; while its etag is     *)
(* that of the pointer, it has or will look at all that the pointer shows.  *)
AppliedListed == pointer.applied \subseteq events
FoundStored ==
    \A p \in Projectors :
        /\ todo[p] \subseteq events /\ found[p] \subseteq events
        /\ \A w \in found[p] : Verified(w)
EtagsOlder == \A p \in Projectors : petag[p] <= pointer.version
Covers ==
    \A p \in Projectors :
        ppc[p] = "verify" /\ petag[p] = pointer.version
            => pointer.applied \subseteq todo[p] \cup found[p]
ReadShown == \A p \in Projectors : pread[p].applied \subseteq pointer.applied
AckShown == \A p \in Projectors : ppc[p] = "ack" => found[p] \subseteq pointer.applied

CatalogInv ==
    /\ ShownIsStored /\ AcknowledgedIsShown /\ AppliedListed /\ FoundStored
    /\ EtagsOlder /\ Covers /\ ReadShown /\ AckShown

(* A projector p that was started for event w carries it to the pointer.    *)
Carries(p, w) ==
    /\ ppc[p] \in Working \cup {"succeeded"} => w \in events /\ Verified(w)
    /\ ppc[p] = "verify" => w \in todo[p] \cup found[p]
    /\ ppc[p] \in {"readback", "generation", "ack"} => w \in found[p]
    /\ ppc[p] = "succeeded" => w \in pointer.applied

(* The calls: what has its event, what has its record, who carries what.    *)
Made(w) == w \in events /\ Verified(w)
EventsFirst ==
    \A w \in Writers :
        /\ wpc[w] = "record" => w \in events
        /\ wpc[w] \in {"index", "schedule", "joining"} => Made(w)
        /\ wpc[w] = "index" => w \in Promoters
JobsMade == \A w \in jobs : Made(w)
ThreadsCarry == \A w \in Writers : Carries(w, w)
WorkerCarries ==
    /\ ppc[Worker] \in Working \cup {"succeeded"} => serving \in Writers
    /\ \A w \in Writers : serving = w => Carries(Worker, w)

CallsInv == EventsFirst /\ JobsMade /\ ThreadsCarry /\ WorkerCarries /\ ReturnedIsShown

IInv == RecordsTypeOK /\ IndexInv /\ CatalogInv /\ CallsInv

(* What no step takes back.                                                 *)
Stable ==
    /\ events \subseteq events'
    /\ \A w \in Writers : Verified(w) => Verified(w)'
Grows ==
    /\ Stable
    /\ pointer.applied \subseteq pointer'.applied
    /\ pointer.version <= pointer'.version
    /\ pointer'.version = pointer.version => pointer' = pointer

-----------------------------------------------------------------------------
(* The public index                                                        *)

LEMMA DocumentsTyped ==
  ASSUME IndexTypeOK, NEW u \in Updaters
  PROVE  /\ Updated(u) \in IndexDocuments
         /\ Updated(u).version = index.version + 1
         /\ Updated(u).rows = WithRows(u)
BY DEF IndexTypeOK, IndexDocuments, Updated, WithRows

LEMMA UpdatedBacked ==
  ASSUME IndexTypeOK, AllBacked, Brings, NEW u \in Updaters, upc[u] = "put", MayPromote(u)
  PROVE  Backed(Updated(u))
<1>1. CASE u \in Promoters
  <2>1. Updated(u).promotion = Names[u] /\ Updated(u).rows = uread[u].rows
    BY <1>1 DEF Updated, WithRows
  <2>2. Names[u] \in uread[u].rows /\ Verified(u)
    BY <1>1 DEF MayPromote, Brings
  <2> QED
    BY <1>1, <2>1, <2>2 DEF Backed
<1>2. CASE u \notin Promoters
  <2>1. /\ Updated(u).promotion = uread[u].promotion
        /\ Updated(u).rows = uread[u].rows \cup {Names[u]}
    BY <1>2 DEF Updated, WithRows
  <2> QED
    BY <2>1 DEF AllBacked, Backed
<1> QED
  BY <1>1, <1>2

\* A step of an updater keeps the type and the invariant of the index.
LEMMA IndexStepKeeps ==
  ASSUME IndexTypeOK, IndexInv, NEW u \in Updaters, IndexStep(u), UNCHANGED stored
  PROVE  IndexTypeOK' /\ IndexInv'
<1> USE DEF IndexTypeOK, IndexInv, RoundsLeft, ReadsOlder, Brings, Become, Verified
<1>1. CASE IndexGet(u)
  <2>1. AllBacked'
    BY <1>1 DEF IndexGet, AllBacked, Backed
  <2> QED
    BY <1>1, <2>1 DEF IndexGet, IndexDocuments
<1>2. CASE IndexHead(u)
  <2>1. AllBacked'
    BY <1>2 DEF IndexHead, AllBacked, Backed
  <2> QED
    BY <1>2, <2>1 DEF IndexHead, IndexDocuments
<1>3. CASE IndexRefuses(u)
  <2>1. AllBacked'
    BY <1>3 DEF IndexRefuses, AllBacked, Backed
  <2> QED
    BY <1>3, <2>1 DEF IndexRefuses
<1>4. CASE IndexConflict(u)
  <2>1. AllBacked'
    BY <1>4 DEF IndexConflict, AllBacked, Backed
  <2> QED
    BY <1>4, <2>1 DEF IndexConflict, LoseRound
<1>5. CASE IndexPut(u) \/ IndexPutUnanswered(u)
  <2>1. upc[u] = "put" /\ MayPromote(u) /\ index' = Updated(u) /\ UNCHANGED <<uread, uetag>>
    BY <1>5 DEF IndexPut, IndexPutUnanswered
  <2>2. AllBacked'
    <3>1. Backed(Updated(u)) /\ \A v \in Updaters : Backed(uread[v])
      BY <2>1, UpdatedBacked DEF AllBacked
    <3> QED
      BY <2>1, <3>1 DEF AllBacked, Backed
  <2>3. ReadsOlder'
    BY <2>1, DocumentsTyped DEF IndexDocuments
  <2>4. index' \in IndexDocuments
    BY <2>1, DocumentsTyped
  <2>5. /\ upc' \in [Updaters -> {"off", "get", "head", "put", "done", "raised"}]
        /\ urounds' \in [Updaters -> 0..MaxRounds] /\ ufaults' \in 0..MaxIndexFaults
        /\ RoundsLeft' /\ Brings'
    BY <1>5, <2>1 DEF IndexPut, IndexPutUnanswered, LoseRound
  <2> QED
    BY <2>1, <2>2, <2>3, <2>4, <2>5
<1> QED
  BY <1>1, <1>2, <1>3, <1>4, <1>5 DEF IndexStep

-----------------------------------------------------------------------------
(* The goal catalog                                                        *)

LEMMA Squeezed ==
  ASSUME NEW a \in Nat, NEW b \in Nat, NEW c \in Nat, a <= b, b <= c, a = c
  PROVE  c = b
OBVIOUS

LEMMA FirstIsIn ==
  ASSUME NEW S \in SUBSET Writers, NEW w \in Writers, w = First(S)
  PROVE  w \in S
BY DEF First

\* A step that leaves the bucket alone.
LEMMA SameBucket == UNCHANGED bucket /\ CatalogTypeOK => Grows
BY DEF bucket, Grows, Stable, Verified, CatalogTypeOK, Pointers

\* A switch of the pointer shows all it showed.
LEMMA SwitchGrows ==
  ASSUME CatalogTypeOK, CatalogInv, NEW p \in Projectors, Merged(p), Switches(p),
         pointer' = NewPointer(p), UNCHANGED <<events, stored>>
  PROVE  Grows /\ pointer'.applied = found[p] /\ pointer'.version = pointer.version + 1
<1>1. pointer.applied \subseteq found[p]
  BY DEF CatalogInv, Covers, Merged, Switches
<1>2. pointer'.applied = found[p] /\ pointer'.version = pointer.version + 1
  BY DEF NewPointer
<1> QED
  BY <1>1, <1>2 DEF Grows, Stable, Verified, CatalogTypeOK, Pointers

\* A round that ends keeps what the invariant says of the projector's variables.
LEMMA RoundEnds ==
  ASSUME CatalogTypeOK, CatalogTypeOK', CatalogInv, Grows, NEW p \in Projectors, NEW phase, EndRound(p),
         ppc' = [ppc EXCEPT ![p] = phase], phase \notin {"verify", "ack"}
  PROVE  FoundStored' /\ EtagsOlder' /\ Covers' /\ ReadShown' /\ AckShown'
<1> USE DEF CatalogTypeOK, CatalogInv, Grows, Stable, EndRound, NoPointer, Pointers
<1>1. FoundStored'
  BY DEF FoundStored, Verified
<1>2. EtagsOlder'
  <2>1. pointer.version \in Nat /\ pointer'.version \in Nat /\ pointer.version <= pointer'.version
    OBVIOUS
  <2>2. \A q \in Projectors : petag[q] \in Nat /\ (petag'[q] = petag[q] \/ petag'[q] = 0)
    OBVIOUS
  <2> QED
    BY <2>1, <2>2 DEF EtagsOlder
<1>3. ReadShown' /\ AckShown'
  BY DEF ReadShown, AckShown
<1>4. Covers'
  <2> SUFFICES ASSUME NEW q \in Projectors, ppc'[q] = "verify", petag'[q] = pointer'.version
               PROVE  pointer'.applied \subseteq todo'[q] \cup found'[q]
    BY DEF Covers
  <2>1. q # p
    OBVIOUS
  <2>2. ppc'[q] = ppc[q] /\ petag'[q] = petag[q] /\ todo'[q] = todo[q] /\ found'[q] = found[q]
    BY <2>1
  <2>3. petag[q] = pointer.version /\ pointer' = pointer
    <3>1. petag[q] <= pointer.version /\ petag[q] \in Nat
      BY DEF EtagsOlder
    <3>2. pointer.version \in Nat /\ pointer'.version \in Nat /\ pointer.version <= pointer'.version
      OBVIOUS
    <3>3. petag[q] = pointer'.version
      BY <2>2
    <3>4. pointer'.version = pointer.version
      BY <3>1, <3>2, <3>3, Squeezed
    <3> QED
      BY <3>3, <3>4
  <2> QED
    BY <2>2, <2>3 DEF Covers
<1> QED
  BY <1>1, <1>2, <1>3, <1>4

\* Types.
LEMMA ReconcileTyped ==
  ASSUME CatalogTypeOK, NEW p \in Projectors, ReconcileStep(p) \/ ReconcileFault(p)
  PROVE  CatalogTypeOK'
<1> USE DEF CatalogTypeOK, Stand, End, EndRound, NoPointer, Pointers, bucket, projector, Working
<1>1. CASE PointerGet(p) \/ PointerHead(p)
  BY <1>1 DEF PointerGet, PointerHead
<1>2. CASE List(p)
  BY <1>2 DEF List
<1>3. ASSUME NEW w \in Writers, Verify(p, w) PROVE CatalogTypeOK'
  BY <1>3 DEF Verify
<1>4. ASSUME NEW w \in Writers, Acknowledge(p, w) PROVE CatalogTypeOK'
  BY <1>4 DEF Acknowledge
<1>5. CASE AlreadyProjected(p) \/ Publish(p)
  BY <1>5 DEF AlreadyProjected, Publish, NewPointer
<1>6. CASE PublishConflict(p)
  BY <1>6 DEF PublishConflict, LoseAttempt
<1>7. CASE PublishUnanswered(p)
  BY <1>7 DEF PublishUnanswered, LoseAttempt, NewPointer
<1>8. CASE ReadBackPointer(p)
  BY <1>8 DEF ReadBackPointer
<1>11. CASE ReadBackGeneration(p)
  BY <1>11 DEF ReadBackGeneration
<1>9. CASE Reconciled(p)
  BY <1>9 DEF Reconciled
<1>10. CASE ReconcileRaises(p)
  BY <1>10 DEF ReconcileRaises
<1> QED
  BY <1>1, <1>2, <1>3, <1>4, <1>5, <1>6, <1>7, <1>8, <1>9, <1>10, <1>11
     DEF ReconcileStep, ReconcileFault

\* The pointer grows.
LEMMA ReconcileGrows ==
  ASSUME CatalogTypeOK, CatalogInv, NEW p \in Projectors,
         ReconcileStep(p) \/ ReconcileFault(p)
  PROVE  Grows
<1>1. CASE Publish(p) \/ PublishUnanswered(p)
  BY <1>1, SwitchGrows DEF Publish, PublishUnanswered
<1>2. CASE UNCHANGED <<events, stored, pointer>>
  BY <1>2 DEF Grows, Stable, Verified, CatalogTypeOK, Pointers
<1>3. Publish(p) \/ PublishUnanswered(p) \/ UNCHANGED <<events, stored, pointer>>
  BY DEF ReconcileStep, ReconcileFault, PointerGet, PointerHead, List, Verify, Acknowledge,
         AlreadyProjected, PublishConflict, ReadBackPointer, ReadBackGeneration, Reconciled,
         ReconcileRaises, bucket
<1> QED
  BY <1>1, <1>2, <1>3


LEMMA ShownKept ==
  ASSUME CatalogTypeOK, CatalogInv, Grows, pointer' = pointer, acks' = acks
  PROVE  ShownIsStored' /\ AcknowledgedIsShown' /\ AppliedListed'
BY DEF CatalogTypeOK, CatalogInv, Grows, Stable, ShownIsStored, AcknowledgedIsShown,
       AppliedListed, Pointers

LEMMA ReconcileKeeps ==
  ASSUME CatalogTypeOK, CatalogInv, NEW p \in Projectors,
         ReconcileStep(p) \/ ReconcileFault(p)
  PROVE  CatalogInv'
<1>g. Grows
  BY ReconcileGrows
<1>s. pointer' = pointer /\ acks' = acks
      => ShownIsStored' /\ AcknowledgedIsShown' /\ AppliedListed'
  BY <1>g, ShownKept
<1>e. ASSUME EndRound(p), NEW phase \in {"get", "failed", "succeeded"}, Stand(p, phase)
      PROVE  FoundStored' /\ EtagsOlder' /\ Covers' /\ ReadShown' /\ AckShown'
  BY <1>g, <1>e, RoundEnds, ReconcileTyped DEF Stand
<1>l. LoseAttempt(p) \/ End(p, "failed") \/ End(p, "succeeded")
      => FoundStored' /\ EtagsOlder' /\ Covers' /\ ReadShown' /\ AckShown'
  <2>1. CASE EndRound(p) /\ Stand(p, "get")
    BY <1>e, <2>1
  <2>2. CASE End(p, "failed")
    BY <1>e, <2>2 DEF End
  <2>3. CASE End(p, "succeeded")
    BY <1>e, <2>3 DEF End
  <2> QED
    BY <2>1, <2>2, <2>3 DEF LoseAttempt
<1> USE DEF CatalogTypeOK, Pointers, bucket, projector
<1>1. CASE PointerGet(p)
  <2> USE <1>1 DEF CatalogInv, PointerGet, Stand
  <2>1. FoundStored'
    BY DEF FoundStored, Verified
  <2>2. EtagsOlder' /\ Covers'
    BY DEF EtagsOlder, Covers
  <2>3. ReadShown' /\ AckShown'
    BY DEF ReadShown, AckShown
  <2> QED
    BY <1>s, <2>1, <2>2, <2>3
<1>2. CASE PointerHead(p)
  <2> USE <1>2 DEF CatalogInv, PointerHead, Stand
  <2>1. FoundStored'
    BY DEF FoundStored, Verified
  <2>2. EtagsOlder' /\ Covers'
    BY DEF EtagsOlder, Covers
  <2>3. ReadShown' /\ AckShown'
    BY DEF ReadShown, AckShown
  <2> QED
    BY <1>s, <2>1, <2>2, <2>3
<1>3. CASE List(p)
  <2> USE <1>3 DEF CatalogInv, List, Stand
  <2>1. FoundStored'
    BY DEF FoundStored, Verified
  <2>2. EtagsOlder' /\ Covers'
    BY DEF EtagsOlder, Covers, AppliedListed
  <2>3. ReadShown' /\ AckShown'
    BY DEF ReadShown, AckShown
  <2> QED
    BY <1>s, <2>1, <2>2, <2>3
<1>4. ASSUME NEW w \in Writers, Verify(p, w) PROVE CatalogInv'
  <2> USE <1>4 DEF CatalogInv, Verify
  <2>1. FoundStored'
    <3>1. w \in todo[p]
      BY FirstIsIn
    <3> QED
      BY <3>1 DEF FoundStored, Verified
  <2>2. EtagsOlder' /\ Covers'
    BY DEF EtagsOlder, Covers, ShownIsStored
  <2>3. ReadShown' /\ AckShown'
    BY DEF ReadShown, AckShown
  <2> QED
    BY <1>s, <2>1, <2>2, <2>3
<1>5. ASSUME NEW w \in Writers, Acknowledge(p, w) PROVE CatalogInv'
  <2> USE <1>5 DEF CatalogInv, Acknowledge
  <2>1. w \in found[p]
    BY FirstIsIn
  <2>2. AcknowledgedIsShown'
    BY <2>1 DEF AcknowledgedIsShown, AckShown
  <2>3. /\ ShownIsStored' /\ AppliedListed' /\ FoundStored' /\ EtagsOlder' /\ Covers'
        /\ ReadShown' /\ AckShown'
    BY DEF ShownIsStored, AppliedListed, FoundStored, EtagsOlder, Covers, ReadShown,
           AckShown, Verified
  <2> QED
    BY <2>2, <2>3
<1>6. CASE AlreadyProjected(p)
  <2> USE <1>6 DEF CatalogInv, AlreadyProjected, Stand
  <2>1. FoundStored'
    BY DEF FoundStored, Verified
  <2>2. EtagsOlder' /\ Covers'
    BY DEF EtagsOlder, Covers
  <2>3. ReadShown' /\ AckShown'
    BY DEF ReadShown, AckShown, Projected
  <2> QED
    BY <1>s, <2>1, <2>2, <2>3
<1>7. CASE Publish(p) \/ PublishUnanswered(p)
  <2>1. /\ Merged(p) /\ Switches(p) /\ pointer' = NewPointer(p)
        /\ UNCHANGED <<events, stored, acks>>
    BY <1>7 DEF Publish, PublishUnanswered
  <2>2. pointer'.applied = found[p] /\ pointer'.version = pointer.version + 1
    BY <2>1, SwitchGrows
  <2>3. ShownIsStored' /\ AcknowledgedIsShown' /\ AppliedListed'
    BY <1>g, <2>1, <2>2 DEF CatalogInv, Grows, ShownIsStored, AcknowledgedIsShown,
       AppliedListed, FoundStored, Verified
  <2>4. CASE Publish(p)
    <3> USE <2>4 DEF CatalogInv, Publish, Stand
    <3>1. FoundStored'
      BY DEF FoundStored, Verified
    <3>2. EtagsOlder' /\ Covers'
      BY <2>2 DEF EtagsOlder, Covers
    <3>3. ReadShown' /\ AckShown'
      BY <1>g DEF ReadShown, AckShown, Grows
    <3> QED
      BY <2>3, <3>1, <3>2, <3>3
  <2>5. CASE PublishUnanswered(p)
    BY <1>l, <2>3, <2>5 DEF PublishUnanswered, CatalogInv
  <2> QED
    BY <1>7, <2>4, <2>5
<1>8. CASE PublishConflict(p)
  BY <1>l, <1>s, <1>8 DEF PublishConflict, CatalogInv
<1>9. CASE ReadBackPointer(p)
  <2>1. CASE pointer.version = petag[p] + 1
    BY <1>9, <1>s, <2>1 DEF ReadBackPointer, Stand, CatalogInv, FoundStored, EtagsOlder,
       Covers, ReadShown, AckShown, Verified
  <2>2. CASE pointer.version # petag[p] + 1
    BY <1>9, <1>l, <1>s, <2>2 DEF ReadBackPointer, CatalogInv
  <2> QED
    BY <2>1, <2>2
<1>10. CASE ReadBackGeneration(p)
  <2>1. CASE pointer.applied = found[p]
    BY <1>10, <1>s, <2>1 DEF ReadBackGeneration, Stand, CatalogInv, FoundStored, EtagsOlder,
       Covers, ReadShown, AckShown, Verified
  <2>2. CASE pointer.applied # found[p]
    BY <1>10, <1>l, <1>s, <2>2 DEF ReadBackGeneration, CatalogInv
  <2> QED
    BY <2>1, <2>2
<1>11. CASE Reconciled(p)
  BY <1>l, <1>s, <1>11 DEF Reconciled, CatalogInv
<1>12. CASE ReconcileRaises(p)
  BY <1>l, <1>s, <1>12 DEF ReconcileRaises, CatalogInv
<1> QED
  BY <1>1, <1>2, <1>3, <1>4, <1>5, <1>6, <1>7, <1>8, <1>9, <1>10, <1>11, <1>12
     DEF ReconcileStep, ReconcileFault

\* Another projector's step leaves a projector with what it carries.
LEMMA OthersCarry ==
  ASSUME CatalogTypeOK, Grows, NEW q \in Projectors, NEW w \in Writers, Carries(q, w),
         ppc'[q] = ppc[q], todo'[q] = todo[q], found'[q] = found[q]
  PROVE  Carries(q, w)'
BY DEF Carries, Grows, Stable, CatalogTypeOK, Pointers

LEMMA ReconcileCarries ==
  ASSUME CatalogTypeOK, CatalogInv, NEW p \in Projectors, NEW q \in Projectors,
         NEW w \in Writers, Carries(q, w), ReconcileStep(p) \/ ReconcileFault(p)
  PROVE  Carries(q, w)'
<1>g. Grows
  BY ReconcileGrows
<1>1. CASE q # p
  <2>1. ppc'[q] = ppc[q] /\ todo'[q] = todo[q] /\ found'[q] = found[q]
    BY <1>1 DEF ReconcileStep, ReconcileFault, PointerGet, PointerHead, List, Verify,
       Acknowledge, AlreadyProjected, Publish, PublishConflict, PublishUnanswered,
       ReadBackPointer, ReadBackGeneration, Reconciled, ReconcileRaises, LoseAttempt, End,
       EndRound, Stand, CatalogTypeOK, projector, bucket
  <2> QED
    BY <1>g, <2>1, OthersCarry
<1>2. CASE q = p
  <2>k. ppc[p] \in Working => w \in events' /\ Verified(w)'
    BY <1>2, <1>g DEF Carries, Grows, Stable
  <2> USE <1>2 DEF CatalogTypeOK, Carries, Working
  <2>1. CASE PointerGet(p) \/ PointerHead(p)
    BY <2>1, <2>k DEF PointerGet, PointerHead, Stand
  <2>2. CASE List(p)
    BY <2>2, <2>k DEF List, Stand, bucket
  <2>3. ASSUME NEW v \in Writers, Verify(p, v) PROVE Carries(q, w)'
    BY <2>3, <2>k DEF Verify, bucket
  <2>4. ASSUME NEW v \in Writers, Acknowledge(p, v) PROVE Carries(q, w)'
    BY <2>4, <2>k DEF Acknowledge, projector
  <2>5. CASE AlreadyProjected(p) \/ Publish(p)
    BY <2>5, <2>k DEF AlreadyProjected, Publish, Merged, Stand
  <2>6. CASE PublishConflict(p) \/ PublishUnanswered(p)
    <3>1. ppc'[p] \in {"get", "failed"}
      BY <2>6 DEF PublishConflict, PublishUnanswered, LoseAttempt, End, Stand
    <3>2. ppc[p] \in Working
      BY <2>6 DEF PublishConflict, PublishUnanswered, Merged
    <3> QED
      BY <2>k, <3>1, <3>2
  <2>7. CASE ReadBackPointer(p) \/ ReadBackGeneration(p)
    <3>1. ppc'[p] = "failed" \/ (ppc'[p] \in {"generation", "ack"} /\ found' = found)
      BY <2>7 DEF ReadBackPointer, ReadBackGeneration, End, Stand
    <3>2. ppc[p] \in {"readback", "generation"}
      BY <2>7 DEF ReadBackPointer, ReadBackGeneration
    <3> QED
      BY <2>k, <3>1, <3>2
  <2>8. CASE Reconciled(p)
    <3>1. w \in pointer.applied
      BY <2>8 DEF Reconciled, CatalogInv, AcknowledgedIsShown
    <3>2. ppc'[p] = "succeeded" /\ pointer' = pointer
      BY <2>8 DEF Reconciled, End, Stand, bucket
    <3>3. ppc[p] = "ack"
      BY <2>8 DEF Reconciled
    <3> QED
      BY <2>k, <3>1, <3>2, <3>3
  <2>9. CASE ReconcileRaises(p)
    <3>1. ppc'[p] = "failed"
      BY <2>9 DEF ReconcileRaises, End, Stand
    <3> QED
      BY <3>1
  <2> QED
    BY <2>1, <2>2, <2>3, <2>4, <2>5, <2>6, <2>7, <2>8, <2>9 DEF ReconcileStep, ReconcileFault
<1> QED
  BY <1>1, <1>2

-----------------------------------------------------------------------------
(* Steps of the calls                                                      *)

CallsTypeOK ==
    /\ cast \in Casts
    /\ wpc \in [Writers -> {"off", "ready", "record", "index", "schedule", "joining",
                              "returned", "raised", "ended"}]
    /\ jobs \subseteq Writers /\ lapsed \subseteq Writers
    /\ serving \in Writers \cup {None}
    /\ lapses \in 0..MaxLapses /\ lean \subseteq Writers

LEMMA TypeParts == RecordsTypeOK <=> CatalogTypeOK /\ IndexTypeOK /\ CallsTypeOK
BY DEF RecordsTypeOK, CallsTypeOK

\* A step that makes records or moves a projector to the start or out keeps the catalog.
LEMMA QuietKeeps ==
  ASSUME CatalogTypeOK, CatalogTypeOK', CatalogInv, Stable,
         UNCHANGED <<pointer, acks, pread, petag, todo, found>>,
         \A q \in Projectors : ppc'[q] = ppc[q] \/ ppc'[q] \in {"get", "off", "failed"}
  PROVE  CatalogInv' /\ Grows
<1> USE DEF CatalogTypeOK, Pointers, CatalogInv
<1>1. Grows
  BY DEF Grows
<1>2. ShownIsStored' /\ AcknowledgedIsShown' /\ AppliedListed'
  BY <1>1, ShownKept
<1>3. FoundStored'
  BY DEF FoundStored, Stable
<1>4. EtagsOlder' /\ Covers'
  BY DEF EtagsOlder, Covers
<1>5. ReadShown' /\ AckShown'
  BY DEF ReadShown, AckShown
<1> QED
  BY <1>1, <1>2, <1>3, <1>4, <1>5

LEMMA SameCatalog ==
  ASSUME CatalogTypeOK, CatalogInv, UNCHANGED catalogVars
  PROVE  CatalogTypeOK' /\ CatalogInv' /\ Grows
<1>1. CatalogTypeOK'
  BY DEF CatalogTypeOK, catalogVars, bucket, projector, Pointers, Working
<1>2. Stable
  BY DEF Stable, Verified, catalogVars, bucket
<1> QED
  BY <1>1, <1>2, QuietKeeps DEF catalogVars, bucket, projector

LEMMA SameIndex ==
  ASSUME IndexTypeOK, IndexInv, Stable, UNCHANGED indexVars
  PROVE  IndexTypeOK' /\ IndexInv'
<1>1. IndexTypeOK'
  BY DEF IndexTypeOK, IndexDocuments, indexVars
<1>2. RoundsLeft' /\ ReadsOlder' /\ Brings'
  BY DEF IndexInv, RoundsLeft, ReadsOlder, Brings, Stable, indexVars
<1>3. AllBacked'
  BY DEF IndexInv, AllBacked, Backed, Stable, indexVars
<1> QED
  BY <1>1, <1>2, <1>3 DEF IndexInv

LEMMA StartKeeps ==
  ASSUME IndexTypeOK, IndexInv, NEW u, StartUpdate(u), u \in Promoters => Verified(u),
         UNCHANGED stored
  PROVE  IndexTypeOK' /\ IndexInv'
<1> USE DEF StartUpdate, Become, IndexTypeOK, IndexInv
<1>1. IndexTypeOK'
  BY DEF IndexDocuments
<1>2. RoundsLeft' /\ ReadsOlder' /\ Brings'
  BY DEF RoundsLeft, ReadsOlder, Brings, Verified
<1>3. AllBacked'
  BY DEF AllBacked, Backed, Verified
<1> QED
  BY <1>1, <1>2, <1>3

\* Whoever carries an event goes on with it while others act.
LEMMA CarriersStay ==
  ASSUME CatalogTypeOK, Grows, ThreadsCarry, WorkerCarries,
         UNCHANGED <<ppc, todo, found, serving>>
  PROVE  ThreadsCarry' /\ WorkerCarries'
<1>1. ThreadsCarry'
  BY OthersCarry DEF ThreadsCarry
<1>2. ASSUME NEW w \in Writers, serving' = w PROVE Carries(Worker, w)'
  BY <1>2, OthersCarry DEF WorkerCarries
<1>3. ppc'[Worker] \in Working \cup {"succeeded"} => serving' \in Writers
  BY DEF WorkerCarries
<1> QED
  BY <1>1, <1>2, <1>3 DEF WorkerCarries

\* What is made stays made.
LEMMA MadeStays ==
  ASSUME Stable, NEW w \in Writers, Made(w)
  PROVE  Made(w)'
BY DEF Made, Stable

\* The document of a write that may be stored replaces no other.
LEMMA StoreIsStable ==
  ASSUME CatalogTypeOK, NEW w \in Writers, MayStore(w), StoreDocument(w), UNCHANGED projector
  PROVE  Stable /\ Verified(w)' /\ CatalogTypeOK'
<1>1. stored' \in [Keys -> Documents \cup {Absent}]
  BY DEF CatalogTypeOK, StoreDocument, Documents, Keys
<1>2. Verified(w)'
  BY DEF CatalogTypeOK, StoreDocument, Verified, Keys
<1>3. ASSUME NEW v \in Writers, Verified(v) PROVE Verified(v)'
  <2>1. Write[v].document # Absent /\ Write[v].key \in Keys
    BY DEF Documents, Keys
  <2> QED
    BY <1>3, <2>1 DEF CatalogTypeOK, StoreDocument, MayStore, Verified
<1>4. CatalogTypeOK'
  BY <1>1 DEF CatalogTypeOK, StoreDocument, projector, Pointers, Working
<1> QED
  BY <1>2, <1>3, <1>4 DEF Stable, StoreDocument

\* A projector that stands at the start carries what is made, one that is out nothing.
LEMMA OutCarries ==
  ASSUME NEW q \in Projectors, NEW w \in Writers, ppc'[q] \in {"get", "off", "failed"},
         ppc'[q] = "get" => Made(w)'
  PROVE  Carries(q, w)'
BY DEF Carries, Working, Made

\* A call that goes on has its event, and later its record.
LEMMA GoKeeps ==
  ASSUME CallsTypeOK, Stable, EventsFirst, NEW w \in Writers, NEW phase, Go(w, phase),
         phase = "record" => w \in events',
         phase \in {"index", "schedule", "joining"} => Made(w)',
         phase = "index" => w \in Promoters
  PROVE  EventsFirst'
<1> SUFFICES ASSUME NEW v \in Writers
             PROVE  /\ wpc'[v] = "record" => v \in events'
                    /\ wpc'[v] \in {"index", "schedule", "joining"} => Made(v)'
                    /\ wpc'[v] = "index" => v \in Promoters
  BY DEF EventsFirst
<1>1. CASE v = w
  <2>1. wpc'[v] = phase
    BY <1>1 DEF Go, CallsTypeOK
  <2> QED
    BY <1>1, <2>1
<1>2. CASE v # w
  <2>1. wpc'[v] = wpc[v]
    BY <1>2 DEF Go, CallsTypeOK
  <2>2. Made(v) => Made(v)'
    BY MadeStays
  <2> QED
    BY <2>1, <2>2 DEF EventsFirst, Stable
<1> QED
  BY <1>1, <1>2

LEMMA JobsStay ==
  ASSUME CallsTypeOK, Stable, JobsMade, jobs' \subseteq jobs
  PROVE  JobsMade'
BY MadeStays DEF JobsMade, CallsTypeOK

LEMMA Together ==
  ASSUME CatalogTypeOK', IndexTypeOK', CallsTypeOK', IndexInv', CatalogInv',
         EventsFirst', JobsMade', ThreadsCarry', WorkerCarries', ReturnedIsShown'
  PROVE  IInv'
BY DEF IInv, RecordsTypeOK, CallsTypeOK, CallsInv

\* What the invariant says, in the parts the steps need.
LEMMA Apart ==
  ASSUME IInv
  PROVE  /\ CatalogTypeOK /\ IndexTypeOK /\ CallsTypeOK /\ IndexInv /\ CatalogInv
         /\ EventsFirst /\ JobsMade /\ ThreadsCarry /\ WorkerCarries /\ ReturnedIsShown
BY TypeParts DEF IInv, CallsInv

\* The steps of a call that leave the catalog alone, and nearly all the others.
LEMMA CatalogUntouched ==
  ASSUME IInv, UNCHANGED catalogVars, serving' = serving
  PROVE  /\ CatalogTypeOK' /\ CatalogInv' /\ Grows
         /\ ThreadsCarry' /\ WorkerCarries'
<1>1. CatalogTypeOK' /\ CatalogInv' /\ Grows
  BY Apart, SameCatalog
<1>2. UNCHANGED <<ppc, todo, found, serving>>
  BY DEF catalogVars, projector
<1> QED
  BY <1>1, <1>2, Apart, CarriersStay

-----------------------------------------------------------------------------
(* Every action                                                            *)

LEMMA RecordEventKeeps ==
  ASSUME IInv, NEW w \in Writers, RecordEvent(w)
  PROVE  IInv' /\ Grows
<1>0. /\ events' = events \cup {w} /\ UNCHANGED <<stored, pointer, acks>>
      /\ UNCHANGED <<projector, indexVars, cast, jobs, serving, lapsed, lapses, lean>>
      /\ Go(w, "record")
  BY DEF RecordEvent, PutEvent
<1>1. Stable
  BY <1>0 DEF Stable, Verified
<1>2. CatalogTypeOK'
  BY <1>0, Apart DEF CatalogTypeOK, projector, Pointers, Working
<1>3. CatalogInv' /\ Grows
  BY <1>0, <1>1, <1>2, Apart, QuietKeeps DEF projector
<1>4. IndexTypeOK' /\ IndexInv'
  BY <1>0, <1>1, Apart, SameIndex
<1>5. ThreadsCarry' /\ WorkerCarries'
  BY <1>0, <1>3, Apart, CarriersStay DEF projector
<1>6. EventsFirst' /\ JobsMade'
  BY <1>0, <1>1, Apart, GoKeeps, JobsStay
<1>7. CallsTypeOK' /\ ReturnedIsShown'
  BY <1>0, Apart DEF CallsTypeOK, ReturnedIsShown, Go
<1> QED
  BY <1>2, <1>3, <1>4, <1>5, <1>6, <1>7, Together

LEMMA RecordStoredKeeps ==
  ASSUME IInv, NEW w \in Writers, RecordStored(w)
  PROVE  IInv' /\ Grows
<1>0. PICK phase \in {"index", "schedule"} :
        /\ MayStore(w) /\ StoreDocument(w) /\ wpc[w] = "record" /\ Go(w, phase)
        /\ phase = "index" => w \in Promoters
        /\ UNCHANGED <<projector, indexVars, cast, jobs, serving, lapsed, lapses, lean>>
  BY DEF RecordStored
<1>1. Stable /\ Verified(w)' /\ CatalogTypeOK'
  BY <1>0, Apart, StoreIsStable
<1>2. UNCHANGED <<events, pointer, acks>>
  BY <1>0 DEF StoreDocument
<1>3. CatalogInv' /\ Grows
  BY <1>0, <1>1, <1>2, Apart, QuietKeeps DEF projector
<1>4. IndexTypeOK' /\ IndexInv'
  BY <1>0, <1>1, Apart, SameIndex
<1>5. ThreadsCarry' /\ WorkerCarries'
  BY <1>0, <1>3, Apart, CarriersStay DEF projector
<1>6. EventsFirst' /\ JobsMade'
  <2>1. Made(w)'
    BY <1>0, <1>1, <1>2, Apart DEF EventsFirst, Made
  <2>2. EventsFirst'
    BY <1>0, <1>1, <2>1, Apart, GoKeeps
  <2> QED
    BY <1>0, <1>1, <2>2, Apart, JobsStay
<1>7. CallsTypeOK' /\ ReturnedIsShown'
  BY <1>0, <1>2, Apart DEF CallsTypeOK, ReturnedIsShown, Go
<1> QED
  BY <1>1, <1>3, <1>4, <1>5, <1>6, <1>7, Together

\* The steps that only move a call.
LEMMA MoveKeeps ==
  ASSUME IInv, NEW w \in Writers,
         EventConflict(w) \/ RecordConflict(w) \/ IndexEnds(w) \/ Joined(w) \/ Enqueue(w) \/ EnqueueFails(w)
  PROVE  IInv' /\ Grows
<1>0. UNCHANGED <<catalogVars, indexVars, cast, serving, lean>>
  BY DEF EventConflict, RecordConflict, IndexEnds, Joined, Enqueue, EnqueueFails
<1>1. CatalogTypeOK' /\ CatalogInv' /\ Grows /\ ThreadsCarry' /\ WorkerCarries'
  BY <1>0, CatalogUntouched
<1>2. IndexTypeOK' /\ IndexInv'
  BY <1>0, <1>1, Apart, SameIndex DEF Grows
<1>3. PICK phase \in {"schedule", "returned", "raised"} :
        /\ Go(w, phase)
        /\ phase = "schedule" => wpc[w] = "index"
  BY DEF EventConflict, RecordConflict, IndexEnds, Joined, Enqueue, EnqueueFails
<1>4. EventsFirst'
  <2>1. phase = "schedule" => Made(w)'
    BY <1>1, <1>3, Apart, MadeStays DEF EventsFirst, Grows
  <2> QED
    BY <1>1, <1>3, <2>1, Apart, GoKeeps DEF Grows
<1>5. jobs' \subseteq jobs \cup {w} /\ (jobs' = jobs \/ wpc[w] = "joining")
      /\ lapsed \subseteq lapsed' /\ jobs \subseteq jobs'
  BY DEF EventConflict, RecordConflict, IndexEnds, Joined, Enqueue, EnqueueFails
<1>6. JobsMade'
  <2>1. wpc[w] = "joining" => Made(w)'
    BY <1>1, Apart, MadeStays DEF EventsFirst, Grows
  <2>2. \A v \in Writers : Made(v) => Made(v)'
    BY <1>1, MadeStays DEF Grows
  <2> QED
    BY <1>5, <2>1, <2>2, Apart DEF JobsMade, CallsTypeOK
<1>7. CallsTypeOK'
  BY <1>0, Apart DEF CallsTypeOK, Go, EventConflict, RecordConflict, IndexEnds, Joined, Enqueue, EnqueueFails
<1>8. wpc'[w] = "returned" => w \in pointer.applied \cup jobs' \cup lapsed'
  <2>1. CASE Joined(w)
    BY <2>1, Apart DEF Joined, ThreadsCarry, Carries
  <2>2. CASE Enqueue(w) \/ EnqueueFails(w)
    BY <2>2 DEF Enqueue, EnqueueFails
  <2>3. CASE EventConflict(w) \/ RecordConflict(w) \/ IndexEnds(w)
    BY <2>3, Apart DEF EventConflict, RecordConflict, IndexEnds, Go, CallsTypeOK
  <2> QED
    BY <2>1, <2>2, <2>3
<1>9. ReturnedIsShown'
  <2>1. pointer' = pointer
    BY <1>0 DEF catalogVars, bucket
  <2>2. \A v \in Writers : v # w => wpc'[v] = wpc[v]
    BY <1>3, Apart DEF Go, CallsTypeOK
  <2> QED
    BY <1>5, <1>8, <2>1, <2>2, Apart DEF ReturnedIsShown
<1> QED
  BY <1>1, <1>2, <1>4, <1>6, <1>7, <1>9, Together

\* The steps of an update of the index.
LEMMA IndexKeeps ==
  ASSUME IInv, NEW u \in Updaters,
         \/ u \in Writers /\ UpdateIndex(u)
         \/ IndexCallStep(u) \/ PublishRow(u)
  PROVE  IInv' /\ Grows
<1>0. UNCHANGED <<catalogVars, calls>>
  BY DEF UpdateIndex, IndexCallStep, PublishRow
<1>1. CatalogTypeOK' /\ CatalogInv' /\ Grows /\ ThreadsCarry' /\ WorkerCarries'
  BY <1>0, CatalogUntouched DEF calls
<1>2. stored' = stored
  BY <1>0 DEF catalogVars, bucket
<1>3. IndexTypeOK' /\ IndexInv'
  <2>1. CASE u \in Writers /\ UpdateIndex(u)
    <3>1. Verified(u) /\ StartUpdate(u)
      BY <2>1, Apart DEF UpdateIndex, EventsFirst, Made
    <3> QED
      BY <1>2, <3>1, Apart, StartKeeps
  <2>2. CASE PublishRow(u)
    <3>1. u \notin Promoters /\ StartUpdate(u)
      BY <2>2 DEF PublishRow
    <3> QED
      BY <1>2, <3>1, Apart, StartKeeps
  <2>3. CASE IndexCallStep(u)
    <3>1. IndexStep(u)
      BY <2>3 DEF IndexCallStep
    <3> QED
      BY <1>2, <3>1, Apart, IndexStepKeeps
  <2> QED
    BY <2>1, <2>2, <2>3
<1>4. CallsTypeOK'
  BY <1>0, Apart DEF CallsTypeOK, calls
<1>5. EventsFirst' /\ JobsMade'
  <2>1. \A v \in Writers : Made(v) => Made(v)'
    BY <1>1, MadeStays DEF Grows
  <2> QED
    BY <1>0, <1>1, <2>1, Apart DEF EventsFirst, JobsMade, Grows, Stable, calls, CallsTypeOK
<1>6. ReturnedIsShown'
  BY <1>0, Apart DEF ReturnedIsShown, calls, catalogVars, bucket
<1> QED
  BY <1>1, <1>3, <1>4, <1>5, <1>6, Together

LEMMA ScheduleKeeps ==
  ASSUME IInv, NEW w \in Writers, Schedule(w)
  PROVE  IInv' /\ Grows
<1>0. /\ wpc[w] = "schedule" /\ Stand(w, "get") /\ Go(w, "joining")
      /\ UNCHANGED <<bucket, pread, petag, todo, found, prounds, pfaults, indexVars,
                     cast, jobs, serving, lapsed, lapses, lean>>
  BY DEF Schedule
<1>1. Stable
  BY <1>0 DEF Stable, Verified, bucket
<1>2. CatalogTypeOK'
  BY <1>0, Apart DEF CatalogTypeOK, Stand, bucket, Pointers, Working
<1>3. CatalogInv' /\ Grows
  BY <1>0, <1>1, <1>2, Apart, QuietKeeps DEF Stand, bucket, CatalogTypeOK
<1>4. IndexTypeOK' /\ IndexInv'
  BY <1>0, <1>1, Apart, SameIndex
<1>5. Made(w)'
  BY <1>0, <1>1, Apart, MadeStays DEF EventsFirst
<1>6. \A q \in Projectors : q # w =>
         ppc'[q] = ppc[q] /\ todo'[q] = todo[q] /\ found'[q] = found[q]
  BY <1>0, Apart DEF Stand, CatalogTypeOK
<1>7. ThreadsCarry'
  <2> SUFFICES ASSUME NEW v \in Writers PROVE Carries(v, v)'
    BY DEF ThreadsCarry
  <2>1. CASE v = w
    <3>1. ppc'[v] = "get"
      BY <1>0, <2>1, Apart DEF Stand, CatalogTypeOK
    <3> QED
      BY <1>5, <2>1, <3>1, OutCarries
  <2>2. CASE v # w
    BY <1>3, <1>6, <2>2, Apart, OthersCarry DEF ThreadsCarry
  <2> QED
    BY <2>1, <2>2
<1>8. WorkerCarries'
  <2>1. \A v \in Writers : serving' = v => Carries(Worker, v)'
    BY <1>0, <1>3, <1>6, Apart, OthersCarry DEF WorkerCarries
  <2>2. ppc'[Worker] \in Working \cup {"succeeded"} => serving' \in Writers
    BY <1>0, <1>6, Apart DEF WorkerCarries
  <2> QED
    BY <2>1, <2>2 DEF WorkerCarries
<1>9. EventsFirst' /\ JobsMade'
  BY <1>0, <1>1, <1>5, Apart, GoKeeps, JobsStay
<1>10. CallsTypeOK' /\ ReturnedIsShown'
  BY <1>0, Apart DEF CallsTypeOK, ReturnedIsShown, Go, bucket
<1> QED
  BY <1>2, <1>3, <1>4, <1>7, <1>8, <1>9, <1>10, Together

LEMMA EndKeeps ==
  ASSUME IInv, NEW w \in Writers, ProcessEnds(w)
  PROVE  IInv' /\ Grows
<1>0. /\ Go(w, "ended") /\ End(w, "off") /\ jobs' \in {jobs, jobs \ {w}}
      /\ lapses' = lapses + 1 /\ lapses < MaxLapses
      /\ upc' = [u \in Updaters |-> IF u = w THEN "raised" ELSE upc[u]]
      /\ lapsed' = IF w \in jobs' THEN lapsed ELSE lapsed \cup {w}
      /\ UNCHANGED <<bucket, pfaults, index, uread, uetag, urounds, ufaults, cast, serving,
                     lean>>
  BY DEF ProcessEnds
<1>1. Stable
  BY <1>0 DEF Stable, Verified, bucket
<1>2. CatalogTypeOK'
  BY <1>0, Apart DEF CatalogTypeOK, End, EndRound, Stand, bucket, NoPointer, Pointers, Working
<1>3. Grows
  BY <1>0, Apart, SameBucket
<1>4. CatalogInv'
  <2>1. ShownIsStored' /\ AcknowledgedIsShown' /\ AppliedListed'
    BY <1>0, <1>3, Apart, ShownKept DEF bucket
  <2>2. FoundStored' /\ EtagsOlder' /\ Covers' /\ ReadShown' /\ AckShown'
    <3>1. PICK phase \in {"off"} : EndRound(w) /\ ppc' = [ppc EXCEPT ![w] = phase]
      BY <1>0 DEF End, Stand
    <3>2. w \in Projectors /\ CatalogTypeOK /\ CatalogInv
      BY Apart
    <3> QED
      BY <1>2, <1>3, <3>1, <3>2, RoundEnds
  <2> QED
    BY <2>1, <2>2 DEF CatalogInv
<1>5. IndexTypeOK' /\ IndexInv'
  <2>1. IndexTypeOK'
    BY <1>0, Apart DEF IndexTypeOK, IndexDocuments
  <2>2. \A u \in Updaters : upc'[u] = upc[u] \/ upc'[u] = "raised"
    BY <1>0
  <2>3. RoundsLeft' /\ ReadsOlder' /\ Brings'
    BY <1>0, <1>1, <2>2, Apart DEF IndexInv, RoundsLeft, ReadsOlder, Brings, Stable
  <2>4. AllBacked'
    BY <1>0, <1>1, Apart DEF IndexInv, AllBacked, Backed, Stable
  <2> QED
    BY <2>1, <2>3, <2>4 DEF IndexInv
<1>6. \A q \in Projectors : q # w =>
         ppc'[q] = ppc[q] /\ todo'[q] = todo[q] /\ found'[q] = found[q]
  BY <1>0, Apart DEF End, EndRound, Stand, CatalogTypeOK
<1>7. ThreadsCarry'
  <2> SUFFICES ASSUME NEW v \in Writers PROVE Carries(v, v)'
    BY DEF ThreadsCarry
  <2>1. CASE v = w
    <3>1. ppc'[v] = "off"
      BY <1>0, <2>1, Apart DEF End, Stand, CatalogTypeOK
    <3> QED
      BY <3>1, OutCarries
  <2>2. CASE v # w
    BY <1>3, <1>6, <2>2, Apart, OthersCarry DEF ThreadsCarry
  <2> QED
    BY <2>1, <2>2
<1>8. WorkerCarries'
  <2>1. \A v \in Writers : serving' = v => Carries(Worker, v)'
    BY <1>0, <1>3, <1>6, Apart, OthersCarry DEF WorkerCarries
  <2>2. ppc'[Worker] \in Working \cup {"succeeded"} => serving' \in Writers
    BY <1>0, <1>6, Apart DEF WorkerCarries
  <2> QED
    BY <2>1, <2>2 DEF WorkerCarries
<1>9. EventsFirst' /\ JobsMade'
  BY <1>0, <1>1, Apart, GoKeeps, JobsStay
<1>10. CallsTypeOK' /\ ReturnedIsShown'
  BY <1>0, Apart DEF CallsTypeOK, ReturnedIsShown, Go, bucket
<1> QED
  BY <1>2, <1>3, <1>4, <1>5, <1>7, <1>8, <1>9, <1>10, Together

\* The worker and the operator, whose projectors are no thread of a call.
LEMMA ServiceKeeps ==
  ASSUME IInv,
         (\E w \in Writers : WorkerClaims(w)) \/ WorkerFinishes \/ Rebuild \/ RebuildConflict
  PROVE  IInv' /\ Grows
<1> DEFINE Quiet == /\ events \subseteq events' /\ events' \subseteq Writers
                    /\ lean' \subseteq Writers
                    /\ UNCHANGED <<stored, pointer, acks, pread, petag, todo, found, prounds,
                                   pfaults, indexVars, cast, wpc, lapsed, lapses>>
                    /\ jobs' \subseteq jobs
<1>0. PICK p \in {Worker, Operator}, phase \in {"get", "off", "failed"} :
        /\ Stand(p, phase)
        /\ Quiet
        /\ p = Operator => serving' = serving
        /\ p = Worker => phase # "failed"
        /\ p = Worker /\ phase = "get" => serving' \in jobs
        /\ p = Worker /\ phase = "off" => serving' = None
  <2>1. ASSUME NEW w \in Writers, WorkerClaims(w)
        PROVE  Stand(Worker, "get") /\ Quiet /\ serving' \in jobs
    BY <2>1, Apart DEF WorkerClaims, bucket, CatalogTypeOK, CallsTypeOK
  <2>2. ASSUME WorkerFinishes
        PROVE  Stand(Worker, "off") /\ Quiet /\ serving' = None
    BY <2>2, Apart DEF WorkerFinishes, bucket, CatalogTypeOK, CallsTypeOK
  <2>3. ASSUME Rebuild
        PROVE  Stand(Operator, "get") /\ Quiet /\ serving' = serving
    BY <2>3, Apart DEF Rebuild, Rebuilt, CatalogTypeOK, CallsTypeOK
  <2>4. ASSUME RebuildConflict
        PROVE  Stand(Operator, "failed") /\ Quiet /\ serving' = serving
    BY <2>4, Apart DEF RebuildConflict, Rebuilt, Present, CatalogTypeOK, CallsTypeOK
  <2> HIDE DEF Quiet
  <2> QED
    BY <2>1, <2>2, <2>3, <2>4
<1>1. Stable
  BY <1>0 DEF Stable, Verified
<1>2. CatalogTypeOK'
  BY <1>0, Apart DEF CatalogTypeOK, Stand, Pointers, Working
<1>3. CatalogInv' /\ Grows
  BY <1>0, <1>1, <1>2, Apart, QuietKeeps DEF Stand, CatalogTypeOK
<1>4. IndexTypeOK' /\ IndexInv'
  BY <1>0, <1>1, Apart, SameIndex
<1>5. \A q \in Projectors : q # p =>
         ppc'[q] = ppc[q] /\ todo'[q] = todo[q] /\ found'[q] = found[q]
  BY <1>0, Apart DEF Stand, CatalogTypeOK
<1>6. ThreadsCarry'
  <2>1. \A v \in Writers : v # p
    BY <1>0
  <2> QED
    BY <1>3, <1>5, <2>1, Apart, OthersCarry DEF ThreadsCarry
<1>7. WorkerCarries'
  <2>1. CASE p = Operator
    <3>1. \A v \in Writers : serving' = v => Carries(Worker, v)'
      BY <1>0, <1>3, <1>5, <2>1, Apart, OthersCarry DEF WorkerCarries
    <3>2. ppc'[Worker] \in Working \cup {"succeeded"} => serving' \in Writers
      BY <1>0, <1>5, <2>1, Apart DEF WorkerCarries
    <3> QED
      BY <3>1, <3>2 DEF WorkerCarries
  <2>2. CASE p = Worker
    <3>1. ppc'[Worker] = phase /\ phase # "failed"
      BY <1>0, <2>2, Apart DEF Stand, CatalogTypeOK
    <3>2. phase = "get" => serving' \in jobs
      BY <1>0, <2>2
    <3>3. \A v \in jobs : Made(v)'
      BY <1>1, Apart, MadeStays DEF JobsMade, CallsTypeOK
    <3>4. \A v \in Writers : serving' = v => Carries(Worker, v)'
      BY <1>0, <3>1, <3>2, <3>3, OutCarries
    <3>5. ppc'[Worker] \in Working \cup {"succeeded"} => serving' \in Writers
      BY <1>0, <3>1, <3>2, Apart DEF CallsTypeOK, Working
    <3> QED
      BY <3>4, <3>5 DEF WorkerCarries
  <2> QED
    BY <1>0, <2>1, <2>2
<1>8. JobsMade'
  BY <1>0, <1>1, Apart, JobsStay
<1>9. EventsFirst'
  <2>1. \A v \in Writers : Made(v) => Made(v)'
    BY <1>1, MadeStays
  <2> QED
    BY <1>0, <1>1, <2>1, Apart DEF EventsFirst, Stable
<1>10. CallsTypeOK'
  BY <1>0, Apart DEF CallsTypeOK
<1>11. ReturnedIsShown'
  <2>1. CASE WorkerFinishes
    <3>1. ppc[Worker] = "succeeded" => serving \in pointer.applied
      BY Apart DEF WorkerCarries, Carries
    <3> QED
      BY <1>0, <2>1, <3>1, Apart DEF WorkerFinishes, ReturnedIsShown
  <2>2. CASE ~WorkerFinishes
    <3>1. jobs' = jobs
      BY <2>2 DEF WorkerClaims, Rebuild, RebuildConflict
    <3> QED
      BY <1>0, <3>1, Apart DEF ReturnedIsShown
  <2> QED
    BY <2>1, <2>2
<1> QED
  BY <1>2, <1>3, <1>4, <1>6, <1>7, <1>8, <1>9, <1>10, <1>11, Together

LEMMA ReconcilingKeeps ==
  ASSUME IInv, NEW p \in Projectors,
         CatalogStep(p) \/ (ReconcileFault(p) /\ UNCHANGED <<indexVars, calls>>)
  PROVE  IInv' /\ Grows
<1>0. (ReconcileStep(p) \/ ReconcileFault(p)) /\ UNCHANGED <<indexVars, calls>>
  BY DEF CatalogStep
<1>1. CatalogTypeOK' /\ CatalogInv' /\ Grows
  BY <1>0, Apart, ReconcileTyped, ReconcileKeeps, ReconcileGrows
<1>2. IndexTypeOK' /\ IndexInv'
  BY <1>0, <1>1, Apart, SameIndex DEF Grows
<1>3. ThreadsCarry'
  BY <1>0, Apart, ReconcileCarries DEF ThreadsCarry
<1>4. WorkerCarries'
  <2>1. \A v \in Writers : serving' = v => Carries(Worker, v)'
    BY <1>0, Apart, ReconcileCarries DEF WorkerCarries, calls
  <2>2. ppc'[Worker] \in Working \cup {"succeeded"} => ppc[Worker] \in Working \cup {"succeeded"}
    BY <1>0, Apart DEF ReconcileStep, ReconcileFault, PointerGet, PointerHead, List, Verify,
       Acknowledge, AlreadyProjected, Publish, PublishConflict, PublishUnanswered, Merged,
       ReadBackPointer, ReadBackGeneration, Reconciled, ReconcileRaises, LoseAttempt, End,
       EndRound, Stand, CatalogTypeOK, projector, bucket, Working
  <2> QED
    BY <1>0, <2>1, <2>2, Apart DEF WorkerCarries, calls
<1>5. EventsFirst' /\ JobsMade'
  <2>1. \A v \in Writers : Made(v) => Made(v)'
    BY <1>1, MadeStays DEF Grows
  <2> QED
    BY <1>0, <1>1, <2>1, Apart DEF EventsFirst, JobsMade, Grows, Stable, calls, CallsTypeOK
<1>6. CallsTypeOK'
  BY <1>0, Apart DEF CallsTypeOK, calls
<1>7. ReturnedIsShown'
  BY <1>0, <1>1, Apart DEF ReturnedIsShown, calls, Grows
<1> QED
  BY <1>1, <1>2, <1>3, <1>4, <1>5, <1>6, <1>7, Together

LEMMA StutterKeeps ==
  ASSUME IInv, UNCHANGED vars
  PROVE  IInv' /\ Grows
<1>0. UNCHANGED <<catalogVars, indexVars, calls>>
  BY DEF vars
<1>1. CatalogTypeOK' /\ CatalogInv' /\ Grows /\ ThreadsCarry' /\ WorkerCarries'
  BY <1>0, CatalogUntouched DEF calls
<1>2. IndexTypeOK' /\ IndexInv'
  BY <1>0, <1>1, Apart, SameIndex DEF Grows
<1>3. EventsFirst' /\ JobsMade'
  <2>1. \A v \in Writers : Made(v) => Made(v)'
    BY <1>1, MadeStays DEF Grows
  <2> QED
    BY <1>0, <1>1, <2>1, Apart DEF EventsFirst, JobsMade, Grows, Stable, calls, CallsTypeOK
<1>4. CallsTypeOK' /\ ReturnedIsShown'
  BY <1>0, Apart DEF CallsTypeOK, ReturnedIsShown, calls, catalogVars, bucket
<1> QED
  BY <1>1, <1>2, <1>3, <1>4, Together

LEMMA NextKeeps == IInv /\ [Next]_vars => IInv' /\ Grows
<1> SUFFICES ASSUME IInv, [Next]_vars PROVE IInv' /\ Grows
  OBVIOUS
<1>1. ASSUME NEW w \in Writers, CallStep(w) \/ EnqueueFails(w) \/ ProcessEnds(w)
      PROVE  IInv' /\ Grows
  <2>1. UpdateIndex(w) => w \in Updaters
    BY Apart DEF UpdateIndex, EventsFirst
  <2> QED
    BY <1>1, <2>1, RecordEventKeeps, RecordStoredKeeps, MoveKeeps, IndexKeeps, ScheduleKeeps,
       EndKeeps DEF CallStep
<1>2. ASSUME NEW u \in Updaters, IndexCallStep(u) \/ PublishRow(u) PROVE IInv' /\ Grows
  BY <1>2, IndexKeeps
<1>3. CASE (\E w \in Writers : WorkerClaims(w)) \/ WorkerFinishes \/ Rebuild \/ RebuildConflict
  BY <1>3, ServiceKeeps
<1>4. ASSUME NEW p \in Projectors,
             CatalogStep(p) \/ (ReconcileFault(p) /\ UNCHANGED <<indexVars, calls>>)
      PROVE  IInv' /\ Grows
  BY <1>4, ReconcilingKeeps
<1>5. CASE UNCHANGED vars
  BY <1>5, StutterKeeps
<1> QED
  BY <1>1, <1>2, <1>3, <1>4, <1>5 DEF Next

-----------------------------------------------------------------------------
(* The initial states                                                      *)

LEMMA InitKeeps == Init => IInv
<1> SUFFICES ASSUME Init PROVE IInv
  OBVIOUS
<1> DEFINE past == cast.past
<1>1. /\ past \subseteq Writers /\ cast \in Casts
      /\ \A v, w \in past : Write[v].key = Write[w].key => Write[v].document = Write[w].document
  BY DEF Init
<1>2. CatalogInit(past) /\ IndexInit
  BY DEF Init
<1>3. /\ wpc = [w \in Writers |-> IF w \in cast.calls THEN "ready" ELSE "off"]
      /\ jobs = {} /\ serving = None /\ lapsed = {} /\ lapses = 0 /\ lean = {}
  BY DEF Init
<1> HIDE DEF past
<1>4. \A w \in past : Verified(w)
  <2> SUFFICES ASSUME NEW w \in past PROVE Verified(w)
    OBVIOUS
  <2>1. PICK v \in past : /\ v = CHOOSE u \in past : Write[u].key = Write[w].key
                          /\ Write[v].key = Write[w].key
    OBVIOUS
  <2>2. Write[v].document = Write[w].document
    BY <1>1, <2>1
  <2>3. Write[w].key \in Keys
    BY <1>1 DEF Keys
  <2>4. stored[Write[w].key] = Write[CHOOSE u \in past : Write[u].key = Write[w].key].document
    BY <1>2, <2>3 DEF CatalogInit
  <2> QED
    BY <2>1, <2>2, <2>4 DEF Verified
<1>5. stored \in [Keys -> Documents \cup {Absent}]
  <2> SUFFICES ASSUME NEW k \in Keys
               PROVE  (IF \E w \in past : Write[w].key = k
                       THEN Write[CHOOSE w \in past : Write[w].key = k].document
                       ELSE Absent) \in Documents \cup {Absent}
    BY <1>2 DEF CatalogInit
  <2>1. CASE \E w \in past : Write[w].key = k
    <3>1. (CHOOSE w \in past : Write[w].key = k) \in Writers
      BY <1>1, <2>1
    <3> QED
      BY <2>1, <3>1 DEF Documents
  <2> QED
    BY <2>1
<1>6. CatalogTypeOK
  BY <1>1, <1>2, <1>5 DEF CatalogInit, CatalogTypeOK, NoPointer, Pointers
<1>7. CatalogInv
  <2>1. events = past /\ acks = past /\ pointer.applied = past /\ pointer.version \in Nat
    BY <1>2 DEF CatalogInit
  <2>2. \A p \in Projectors : /\ ppc[p] = "off" /\ pread[p].applied = {} /\ petag[p] = 0
                              /\ todo[p] = {} /\ found[p] = {}
    BY <1>2 DEF CatalogInit, NoPointer
  <2> QED
    BY <1>4, <2>1, <2>2 DEF CatalogInv, ShownIsStored, AcknowledgedIsShown, AppliedListed,
       FoundStored, EtagsOlder, Covers, ReadShown, AckShown
<1>8. IndexTypeOK
  BY <1>2 DEF IndexInit, IndexTypeOK, IndexDocuments, NoIndex
<1>9. IndexInv
  BY <1>2 DEF IndexInit, IndexInv, RoundsLeft, ReadsOlder, AllBacked, Backed, Brings, NoIndex
<1>10. CallsTypeOK
  BY <1>1, <1>3 DEF CallsTypeOK
<1>11. EventsFirst /\ JobsMade /\ ReturnedIsShown
  BY <1>3 DEF EventsFirst, JobsMade, ReturnedIsShown
<1>12. ThreadsCarry /\ WorkerCarries
  <2>1. \A p \in Projectors : ppc[p] = "off"
    BY <1>2 DEF CatalogInit
  <2> QED
    BY <2>1 DEF ThreadsCarry, WorkerCarries, Carries, Working
<1> QED
  BY <1>6, <1>7, <1>8, <1>9, <1>10, <1>11, <1>12, TypeParts DEF IInv, CallsInv

LEMMA Inductive == Spec => []IInv
<1>1. Init => IInv
  BY InitKeeps
<1>2. IInv /\ [Next]_vars => IInv'
  BY NextKeeps
<1> QED
  BY <1>1, <1>2, PTL DEF Spec

-----------------------------------------------------------------------------
(* Wherever the events of an attempt are, its manifest is with them: whoever *)
(* puts another event has found the manifest stored.                        *)

Led(s) ==
  \A w \in s : ~IsManifest(w) => \E v \in s : IsManifest(v) /\ SameAttempt(v, w) /\ Verified(v)

StoredHasEvent ==
  \A k \in Keys : stored[k] # Absent =>
    \E u \in events : Write[u].key = k /\ Write[u].document = stored[k]

LedInv ==
  /\ StoredHasEvent /\ Led(events) /\ Led(pointer.applied)
  /\ \A p \in Projectors : Led(todo[p] \cup found[p])

LEMMA LedStays ==
  ASSUME CatalogTypeOK, Stable, NEW s \in SUBSET Writers, Led(s)
  PROVE  \A w \in s : ~IsManifest(w) =>
            \E v \in s : IsManifest(v) /\ SameAttempt(v, w) /\ Verified(v)'
BY DEF Led, Stable

\* A step of a projector.
LEMMA ReconcileLeads ==
  ASSUME CatalogTypeOK, CatalogInv, LedInv, NEW p \in Projectors,
         ReconcileStep(p) \/ ReconcileFault(p)
  PROVE  LedInv'
<1>1. Grows /\ CatalogTypeOK'
  BY ReconcileGrows, ReconcileTyped
<1>2. UNCHANGED <<events, stored>>
  BY DEF ReconcileStep, ReconcileFault, PointerGet, PointerHead, List, Verify, Acknowledge,
     AlreadyProjected, Publish, PublishConflict, PublishUnanswered, ReadBackPointer,
     ReadBackGeneration, Reconciled, ReconcileRaises, bucket
<1>3. \A s : Led(s) <=> Led(s)'
  BY <1>2 DEF Led, Verified
<1>4. StoredHasEvent' /\ Led(events)'
  BY <1>2, <1>3 DEF LedInv, StoredHasEvent
<1>5. Led(pointer'.applied)
  <2>1. CASE Publish(p) \/ PublishUnanswered(p)
    <3>1. pointer'.applied = found[p] /\ todo[p] = {}
      BY <2>1 DEF Publish, PublishUnanswered, NewPointer, Merged
    <3>2. todo[p] \cup found[p] = found[p]
      BY <3>1
    <3> QED
      BY <3>1, <3>2 DEF LedInv
  <2>2. CASE ~(Publish(p) \/ PublishUnanswered(p))
    <3>1. pointer' = pointer
      BY <2>2 DEF ReconcileStep, ReconcileFault, PointerGet, PointerHead, List, Verify,
         Acknowledge, AlreadyProjected, PublishConflict, ReadBackPointer,
         ReadBackGeneration, Reconciled, ReconcileRaises, bucket
    <3> QED
      BY <3>1 DEF LedInv
  <2> QED
    BY <2>1, <2>2
<1>6. ASSUME NEW q \in Projectors PROVE Led(todo'[q] \cup found'[q])
  <2>1. CASE todo'[q] = todo[q] /\ found'[q] = found[q]
    BY <2>1 DEF LedInv
  <2>2. CASE todo'[q] = {} /\ found'[q] = {}
    BY <2>2 DEF Led
  <2>3. CASE List(p)
    <3>1. q = p => todo'[q] \cup found'[q] = events
      BY <2>3 DEF List, CatalogTypeOK
    <3>2. q # p => todo'[q] = todo[q] /\ found'[q] = found[q]
      BY <2>3 DEF List, CatalogTypeOK
    <3> QED
      BY <2>1, <3>1, <3>2 DEF LedInv
  <2>4. ASSUME NEW w \in Writers, Verify(p, w) PROVE Led(todo'[q] \cup found'[q])
    <3>1. w \in todo[p]
      BY <2>4, FirstIsIn DEF Verify, CatalogTypeOK
    <3>2. CASE q = p
      <4>1. /\ todo'[q] = todo[q] \ {w}
            /\ found'[q] = IF Verified(w) THEN found[q] \cup {w} ELSE found[q]
        BY <2>4, <3>2 DEF Verify, CatalogTypeOK
      <4>2. \A v \in todo[q] \cup found[q] :
               v \in todo'[q] \cup found'[q] \/ (v = w /\ ~Verified(v))
        BY <4>1
      <4>3. todo'[q] \cup found'[q] \subseteq todo[q] \cup found[q]
        BY <3>1, <3>2, <4>1
      <4>4. Led(todo[q] \cup found[q])
        BY DEF LedInv
      <4> QED
        BY <4>2, <4>3, <4>4 DEF Led
    <3>3. CASE q # p
      BY <2>1, <2>4, <3>3 DEF Verify, CatalogTypeOK
    <3> QED
      BY <3>2, <3>3
  <2>5. \/ todo'[q] = todo[q] /\ found'[q] = found[q]
        \/ todo'[q] = {} /\ found'[q] = {}
        \/ List(p)
        \/ \E w \in Writers : Verify(p, w)
    BY DEF ReconcileStep, ReconcileFault, PointerGet, PointerHead, Acknowledge,
       AlreadyProjected, Publish, PublishConflict, PublishUnanswered, ReadBackPointer,
       ReadBackGeneration, Reconciled, ReconcileRaises, LoseAttempt, End, EndRound,
       CatalogTypeOK, projector
  <2> QED
    BY <2>1, <2>2, <2>3, <2>4, <2>5
<1>7. Led(pointer'.applied) => Led(pointer.applied)'
  BY <1>2 DEF Led, Verified
<1>8. \A q \in Projectors : Led(todo'[q] \cup found'[q]) => Led(todo[q] \cup found[q])'
  BY <1>2 DEF Led, Verified
<1> QED
  BY <1>4, <1>5, <1>6, <1>7, <1>8 DEF LedInv

\* A step that adds events whose manifest is stored.
LEMMA EventsLead ==
  ASSUME CatalogTypeOK, LedInv, NEW more \in SUBSET Writers, events' = events \cup more,
         \A w \in more : IsManifest(w) \/ ManifestKnown(w),
         UNCHANGED <<stored, pointer, todo, found>>
  PROVE  LedInv'
<1>1. ASSUME NEW w \in Writers, ManifestKnown(w)
      PROVE  \E u \in events : IsManifest(u) /\ SameAttempt(u, w) /\ Verified(u)
  <2>1. PICK v \in Writers : IsManifest(v) /\ SameAttempt(v, w) /\ Verified(v)
    BY <1>1 DEF ManifestKnown
  <2>2. Write[v].key \in Keys /\ stored[Write[v].key] # Absent
    BY <2>1 DEF Keys, Verified, Documents
  <2>3. PICK u \in events : Write[u].key = Write[v].key
                              /\ Write[u].document = stored[Write[v].key]
    BY <2>2 DEF LedInv, StoredHasEvent
  <2>4. u \in Writers
    BY DEF CatalogTypeOK
  <2> QED
    BY <2>1, <2>3, <2>4, ManifestsAssumption DEF Verified, SameAttempt
<1>2. Led(events)'
  BY <1>1 DEF LedInv, Led, Verified
<1>3. StoredHasEvent'
  BY DEF LedInv, StoredHasEvent
<1>4. Led(pointer.applied)' /\ \A p \in Projectors : Led(todo[p] \cup found[p])'
  BY DEF LedInv, Led, Verified
<1> QED
  BY <1>2, <1>3, <1>4 DEF LedInv

LEMMA LedKeeps == IInv /\ LedInv /\ [Next]_vars => LedInv'
<1> SUFFICES ASSUME IInv, LedInv, [Next]_vars PROVE LedInv'
  OBVIOUS
<1>1. ASSUME UNCHANGED <<events, stored, pointer, todo, found>> PROVE LedInv'
  BY <1>1 DEF LedInv, Led, StoredHasEvent, Verified
<1>2. ASSUME NEW w \in Writers, RecordEvent(w) PROVE LedInv'
  <2>1. events' = events \cup {w} /\ UNCHANGED <<stored, pointer, todo, found>>
    BY <1>2 DEF RecordEvent, PutEvent, projector
  <2>2. IsManifest(w) \/ ManifestKnown(w)
    BY <1>2 DEF RecordEvent, MayWrite, OfNewest
  <2>3. {w} \in SUBSET Writers /\ \A v \in {w} : IsManifest(v) \/ ManifestKnown(v)
    BY <2>2
  <2> QED
    BY <2>1, <2>3, Apart, EventsLead
<1>3. ASSUME NEW w \in Writers, RecordStored(w) PROVE LedInv'
  <2>1. /\ StoreDocument(w) /\ MayStore(w) /\ UNCHANGED projector
        /\ UNCHANGED <<events, pointer, todo, found>> /\ w \in events
    BY <1>3, Apart DEF RecordStored, StoreDocument, projector, EventsFirst
  <2>2. Stable
    BY <2>1, Apart, StoreIsStable
  <2>3. StoredHasEvent'
    BY <2>1, Apart DEF LedInv, StoredHasEvent, StoreDocument, CatalogTypeOK
  <2>4. Led(events)' /\ Led(pointer.applied)'
    BY <2>1, <2>2, Apart, LedStays DEF LedInv, Led, CatalogTypeOK, Pointers
  <2>5. ASSUME NEW p \in Projectors PROVE Led(todo[p] \cup found[p])'
    <3>1. todo[p] \cup found[p] \in SUBSET Writers /\ Led(todo[p] \cup found[p])
      BY Apart DEF CatalogTypeOK, LedInv
    <3> QED
      BY <2>1, <2>2, <3>1, Apart, LedStays DEF Led
  <2> QED
    BY <2>3, <2>4, <2>5 DEF LedInv
<1>4. ASSUME NEW w \in Writers, ProcessEnds(w) PROVE LedInv'
  <2>1. UNCHANGED bucket
        /\ \A q \in Projectors : \/ todo'[q] = todo[q] /\ found'[q] = found[q]
                                 \/ todo'[q] = {} /\ found'[q] = {}
    BY <1>4, Apart DEF ProcessEnds, End, EndRound, CatalogTypeOK
  <2>2. ASSUME NEW q \in Projectors PROVE Led(todo[q] \cup found[q])'
    BY <2>1, <2>2 DEF LedInv, Led, Verified, bucket
  <2>3. StoredHasEvent' /\ Led(events)' /\ Led(pointer.applied)'
    BY <2>1 DEF LedInv, Led, StoredHasEvent, Verified, bucket
  <2> QED
    BY <2>2, <2>3 DEF LedInv
<1>5. CASE Rebuild \/ RebuildConflict
  <2>1. PICK more \in SUBSET Rebuilt : events' = events \cup more
    <3>1. ASSUME Rebuild PROVE \E more \in SUBSET Rebuilt : events' = events \cup more
      BY <3>1 DEF Rebuild
    <3>2. ASSUME RebuildConflict
          PROVE  \E more \in SUBSET Rebuilt : events' = events \cup more
      <4>1. PICK w \in Present :
              \E before \in SUBSET {v \in Rebuilt \ Present : Write[v].phase = Write[w].phase} :
                 events' = events \cup before \cup {v \in Rebuilt : Write[v].phase < Write[w].phase}
        BY <3>2 DEF RebuildConflict
      <4>2. PICK before \in SUBSET Rebuilt :
              events' = events \cup before \cup {v \in Rebuilt : Write[v].phase < Write[w].phase}
        BY <4>1
      <4> DEFINE more == before \cup {v \in Rebuilt : Write[v].phase < Write[w].phase}
      <4>3. more \in SUBSET Rebuilt /\ events' = events \cup more
        BY <4>2
      <4> QED
        BY <4>3
    <3> QED
      BY <1>5, <3>1, <3>2
  <2>2. UNCHANGED <<stored, pointer, todo, found>>
    BY <1>5 DEF Rebuild, RebuildConflict
  <2>3. more \in SUBSET Writers /\ \A w \in more : ManifestKnown(w)
    BY DEF Rebuilt, OfNewest
  <2> QED
    BY <2>1, <2>2, <2>3, Apart, EventsLead
<1>6. ASSUME NEW p \in Projectors, ReconcileStep(p) \/ ReconcileFault(p) PROVE LedInv'
  BY <1>6, Apart, ReconcileLeads
<1>7. \/ UNCHANGED <<events, stored, pointer, todo, found>>
      \/ \E w \in Writers : RecordEvent(w) \/ RecordStored(w) \/ ProcessEnds(w)
      \/ Rebuild \/ RebuildConflict
      \/ \E p \in Projectors : ReconcileStep(p) \/ ReconcileFault(p)
  BY DEF Next, vars, CallStep, RecordConflict, EventConflict, UpdateIndex, IndexEnds, Schedule,
     Joined, Enqueue, EnqueueFails, WorkerClaims, WorkerFinishes, CatalogStep, IndexCallStep,
     PublishRow, catalogVars, bucket, projector
<1> QED
  BY <1>1, <1>2, <1>3, <1>4, <1>5, <1>6, <1>7

LEMMA InitLeads == Init => LedInv
<1> SUFFICES ASSUME Init PROVE LedInv
  OBVIOUS
<1>1. IInv
  BY InitKeeps
<1>2. /\ events = cast.past /\ pointer.applied = cast.past /\ cast \in Casts
      /\ \A p \in Projectors : todo[p] = {} /\ found[p] = {}
      /\ CatalogInit(cast.past)
  BY DEF Init, CatalogInit
<1>3. \A w \in cast.past : Verified(w) /\ w \in Writers
  BY <1>1, <1>2, Apart DEF CatalogInv, ShownIsStored, CatalogTypeOK
<1>4. Led(cast.past)
  BY <1>2, <1>3 DEF Led
<1>5. StoredHasEvent
  <2> SUFFICES ASSUME NEW k \in Keys, stored[k] # Absent
               PROVE  \E u \in cast.past : Write[u].key = k /\ Write[u].document = stored[k]
    BY <1>2 DEF StoredHasEvent
  <2>1. \E u \in cast.past : Write[u].key = k
    BY <1>2 DEF CatalogInit
  <2>2. PICK u \in cast.past : Write[u].key = k
    BY <2>1
  <2> QED
    BY <1>3, <2>2 DEF Verified
<1>6. \A p \in Projectors : Led(todo[p] \cup found[p])
  BY <1>2 DEF Led
<1> QED
  BY <1>2, <1>4, <1>5, <1>6 DEF LedInv

LEMMA AlwaysLed == Spec => []LedInv
<1>1. Init => LedInv
  BY InitLeads
<1>2. IInv /\ LedInv /\ [Next]_vars => LedInv'
  BY LedKeeps
<1> QED
  BY <1>1, <1>2, Inductive, PTL DEF Spec

-----------------------------------------------------------------------------
(* The row of a run: merged in order, the events of a set make the row that *)
(* RowIsComplete describes.  Its recursion over sets has that row for its   *)
(* only solution: a smallest set on which it differed would have a last     *)
(* event, and Merge adds it to the row of the others.                       *)

LEMMA SmallestOf ==
  ASSUME NEW C \in SUBSET SUBSET Writers, C # {}
  PROVE  \E s \in C : \A x \in s : s \ {x} \notin C
<1> DEFINE Sizes == {Cardinality(s) : s \in C}
           Less == {p \in Nat \X Nat : p[1] < p[2]}
<1>1. \A s \in C : IsFiniteSet(s) /\ Cardinality(s) \in Nat
  BY WritesAssumption, FS_Subset, FS_CardinalityType
<1>2. IsWellFoundedOn(Less, Nat)
  BY NatLessThanWellFounded DEF OpToRel
<1>3. Sizes \in SUBSET Nat /\ Sizes # {}
  BY <1>1
<1>4. PICK n \in Sizes : \A m \in Sizes : <<m, n>> \notin Less
  <2> HIDE DEF Less, Sizes
  <2> QED
    BY <1>2, <1>3, WFMin, Zenon
<1>5. PICK s \in C : Cardinality(s) = n
  BY <1>4
<1>6. ASSUME NEW x \in s, s \ {x} \in C
      PROVE  FALSE
  <2>1. Cardinality(s \ {x}) = Cardinality(s) - 1
    BY <1>1, <1>5, FS_RemoveElement
  <2>2. Cardinality(s \ {x}) \in Sizes /\ Cardinality(s \ {x}) \in Nat
    BY <1>1, <1>6
  <2>3. n \in Nat /\ Cardinality(s \ {x}) < n
    BY <1>1, <1>5, <2>1, <2>2
  <2>4. <<Cardinality(s \ {x}), n>> \in Less
    BY <2>2, <2>3
  <2> HIDE DEF Less, Sizes
  <2> QED
    BY <1>4, <2>2, <2>4
<1> QED
  BY <1>5, <1>6

LEMMA PrecedesIs ==
  ASSUME NEW u \in Writers, NEW v \in Writers, NEW w \in Writers
  PROVE  /\ ~Precedes(w, w)
         /\ Precedes(u, v) /\ Precedes(v, w) => Precedes(u, w)
BY WritesAssumption DEF Precedes

\* A set of events has a last one.
LEMMA LastIs ==
  ASSUME NEW s \in SUBSET Writers, s # {}
  PROVE  LastOf(s) \in s /\ \A v \in s : ~Precedes(LastOf(s), v)
<1> DEFINE C == {t \in SUBSET Writers : t # {} /\ ~ \E w \in t : \A v \in t : ~Precedes(w, v)}
<1>1. C = {}
  <2> SUFFICES ASSUME C # {} PROVE FALSE
    OBVIOUS
  <2>1. PICK t \in C : \A x \in t : t \ {x} \notin C
    <3>1. C \in SUBSET SUBSET Writers
      OBVIOUS
    <3> HIDE DEF C
    <3> QED
      BY <3>1, SmallestOf
  <2>2. PICK x \in t : TRUE
    OBVIOUS
  <2>3. CASE t \ {x} = {}
    BY <2>2, <2>3, PrecedesIs
  <2>4. CASE t \ {x} # {}
    <3>1. PICK y \in t \ {x} : \A v \in t \ {x} : ~Precedes(y, v)
      BY <2>1, <2>2, <2>4
    <3>2. CASE Precedes(y, x)
      BY <2>2, <3>1, <3>2, PrecedesIs
    <3>3. CASE ~Precedes(y, x)
      BY <2>2, <3>1, <3>3
    <3> QED
      BY <3>2, <3>3
  <2> QED
    BY <2>3, <2>4
<1>2. \E w \in s : \A v \in s : ~Precedes(w, v)
  BY <1>1
<1> QED
  BY <1>2 DEF LastOf

\* The row of a set of events: an evaluation that is the first event of its attempt is not
\* among the row's evaluations.
Complete(s) ==
  [attempt |-> IF s = {} THEN 0 ELSE Write[LastOf(s)].attempt,
   ended |-> \E w \in Newest(s) : IsTerminal(w),
   evaluations |-> {w \in LastEvaluations(Newest(s)) : \E v \in Newest(s) : Precedes(v, w)},
   promotion |-> LastPromotion(Newest(s))]

\* Merge adds the last event to the complete row of the others.
LEMMA MergeCompletes ==
  ASSUME NEW s \in SUBSET Writers, s # {}
  PROVE  Complete(s) = Merge(Complete(s \ {LastOf(s)}), LastOf(s))
<1> DEFINE last == LastOf(s)
           rest == s \ {last}
           before == Newest(rest)
<1>1. last \in s /\ last \in Writers /\ \A v \in s : ~Precedes(last, v)
  BY LastIs
<1>2. rest # {} => LastOf(rest) \in rest /\ \A v \in rest : ~Precedes(LastOf(rest), v)
  BY LastIs
<1>a. Complete(s).attempt = Write[last].attempt
  BY DEF Complete
<1> HIDE DEF last
<1>3. \A v \in s : Write[v].attempt <= Write[last].attempt
  BY <1>1, WritesAssumption DEF Precedes
<1>4. \A v \in rest : Write[v].attempt <= Write[LastOf(rest)].attempt
  <2> SUFFICES ASSUME NEW v \in rest
               PROVE  Write[v].attempt <= Write[LastOf(rest)].attempt
    OBVIOUS
  <2>1. LastOf(rest) \in Writers /\ v \in Writers /\ ~Precedes(LastOf(rest), v)
    BY <1>2
  <2> QED
    BY <2>1, WritesAssumption DEF Precedes
<1>5. \A v \in s : Write[v].attempt = Write[last].attempt => Write[v].phase <= Write[last].phase
  BY <1>1, WritesAssumption DEF Precedes
<1>6. last \in Newest(s)
  BY <1>1, <1>3 DEF Newest
<1>c. Complete(s) = [attempt |-> Complete(s).attempt, ended |-> Complete(s).ended,
                     evaluations |-> Complete(s).evaluations,
                     promotion |-> Complete(s).promotion]
  BY DEF Complete
<1>7. CASE rest # {} /\ Write[LastOf(rest)].attempt = Write[last].attempt
  <2>1. Newest(s) = before \cup {last}
    BY <1>1, <1>2, <1>3, <1>4, <1>7, WritesAssumption DEF Newest
  <2>2. \A v \in before : /\ v \in rest /\ v \in Writers
                          /\ Write[v].attempt = Write[last].attempt
                          /\ Write[v].phase <= Write[last].phase
                          /\ Write[v].phase = Write[last].phase => Write[v].at < Write[last].at
                          /\ Precedes(v, last) /\ ~Precedes(last, v)
    <3> SUFFICES ASSUME NEW v \in before
                 PROVE  /\ v \in rest /\ v \in Writers
                        /\ Write[v].attempt = Write[last].attempt
                        /\ Write[v].phase <= Write[last].phase
                        /\ Write[v].phase = Write[last].phase => Write[v].at < Write[last].at
                        /\ Precedes(v, last) /\ ~Precedes(last, v)
      OBVIOUS
    <3>1. v \in rest /\ v \in Writers /\ v # last /\ ~Precedes(last, v)
      BY <1>1 DEF Newest
    <3>2. Write[v].attempt = Write[last].attempt
      BY <1>1, <1>2, <1>3, <1>4, <1>7, <3>1, WritesAssumption DEF Newest
    <3>3. Write[v].phase <= Write[last].phase
      BY <1>5, <3>1, <3>2
    <3>4. Write[v].phase = Write[last].phase => Write[v].at # Write[last].at
      BY <1>1, <3>1, <3>2, WritesAssumption
    <3>5. Write[v].phase = Write[last].phase => Write[v].at < Write[last].at
      BY <1>1, <3>1, <3>2, <3>4, WritesAssumption DEF Precedes
    <3>6. Precedes(v, last)
      BY <1>1, <3>1, <3>2, <3>3, <3>5, WritesAssumption DEF Precedes
    <3> QED
      BY <3>1, <3>2, <3>3, <3>5, <3>6
  <2>3. Complete(rest).attempt = Write[last].attempt
    BY <1>7 DEF Complete
  <2>4. ~Precedes(last, last) /\ LastOf(rest) \in before
    <3>1. ~Precedes(last, last)
      BY <1>1, PrecedesIs
    <3>2. LastOf(rest) \in rest
      BY <1>2, <1>7
    <3> QED
      BY <1>4, <3>1, <3>2 DEF Newest
  <2>d. Complete(rest) = [attempt |-> Complete(rest).attempt, ended |-> Complete(rest).ended,
                          evaluations |-> Complete(rest).evaluations,
                          promotion |-> Complete(rest).promotion]
    BY DEF Complete
  <2>e. /\ Complete(s).ended = (\E w \in Newest(s) : IsTerminal(w))
        /\ Complete(rest).ended = (\E w \in before : IsTerminal(w))
        /\ Complete(s).promotion = LastPromotion(Newest(s))
        /\ Complete(rest).promotion = LastPromotion(before)
        /\ Complete(s).evaluations =
             {w \in LastEvaluations(Newest(s)) : \E v \in Newest(s) : Precedes(v, w)}
        /\ Complete(rest).evaluations =
             {w \in LastEvaluations(before) : \E v \in before : Precedes(v, w)}
    BY DEF Complete
  <2>f. \A w \in before : (\E v \in Newest(s) : Precedes(v, w))
                            <=> (\E v \in before : Precedes(v, w))
    BY <2>1, <2>2
  <2> DEFINE old == Complete(rest)
             new == Complete(s)
  <2>h. new.attempt = Write[last].attempt /\ old.attempt = Write[last].attempt
    BY <1>a, <2>3
  <2>i. /\ old = [attempt |-> old.attempt, ended |-> old.ended,
                  evaluations |-> old.evaluations, promotion |-> old.promotion]
        /\ new = [attempt |-> new.attempt, ended |-> new.ended,
                  evaluations |-> new.evaluations, promotion |-> new.promotion]
    BY <1>c, <2>d
  <2> HIDE DEF before, old, new
  <2>5. CASE IsEvaluation(last)
    <3>1. Enriches(last) /\ ~IsTerminal(last) /\ ~IsPromotion(last)
      BY <2>5 DEF Enriches, IsTerminal, IsEvaluation, IsPromotion
    <3>2. new.ended = old.ended
      BY <2>1, <2>e, <3>1 DEF new, old
    <3>3. new.promotion = old.promotion
      <4>1. LastPromotion(Newest(s)) = LastPromotion(before)
        BY <2>1, <3>1 DEF LastPromotion
      <4> QED
        BY <2>e, <4>1 DEF new, old
    <3>4. \A v \in before : IsEvaluation(v) => Write[v].at < Write[last].at
      BY <2>2, <2>5 DEF IsEvaluation
    <3>5. LastEvaluations(before \cup {last}) =
            {v \in LastEvaluations(before) : Write[v].checkpoint # Write[last].checkpoint}
              \cup {last}
      <4>1. Write[last].at \in Nat /\ \A v \in before : Write[v].at \in Nat
        BY <1>1, <2>2, WritesAssumption
      <4>2. ASSUME NEW w \in before, IsEvaluation(w)
            PROVE  ~(Write[last].at <= Write[w].at) /\ Write[w].at <= Write[last].at
        BY <3>4, <4>1, <4>2
      <4>3. last \in LastEvaluations(before \cup {last})
        BY <2>5, <4>1, <4>2 DEF LastEvaluations
      <4>4. ASSUME NEW w \in before
            PROVE  w \in LastEvaluations(before \cup {last})
                     <=> /\ w \in LastEvaluations(before)
                         /\ Write[w].checkpoint # Write[last].checkpoint
        BY <2>5, <4>2 DEF LastEvaluations
      <4>5. LastEvaluations(before \cup {last}) \subseteq before \cup {last}
              /\ LastEvaluations(before) \subseteq before /\ last \notin before
        BY <2>2 DEF LastEvaluations
      <4> QED
        BY <4>3, <4>4, <4>5
    <3>6. new.evaluations =
            {v \in old.evaluations : Write[v].checkpoint # Write[last].checkpoint}
              \cup {last}
      <4>1. \E v \in Newest(s) : Precedes(v, last)
        BY <2>1, <2>2, <2>4
      <4>2. \A w \in LastEvaluations(before) : w \in before /\ w # last
        BY <2>2 DEF LastEvaluations
      <4> QED
        BY <2>1, <2>e, <2>f, <3>5, <4>1, <4>2 DEF new, old
    <3>7. Merge(old, last) =
            [old EXCEPT
               !.evaluations = {v \in @ : Write[v].checkpoint # Write[last].checkpoint}
                                 \cup {last},
               !.promotion = @]
      BY <2>h, <2>5, <3>1 DEF Merge
    <3>8. Merge(old, last) = new
      BY <2>h, <2>i, <3>2, <3>3, <3>6, <3>7
    <3> QED
      BY <3>8 DEF new, old, last
  <2>6. CASE IsPromotion(last)
    <3>1. Enriches(last) /\ ~IsTerminal(last) /\ ~IsEvaluation(last)
      BY <2>6 DEF Enriches, IsTerminal, IsEvaluation, IsPromotion
    <3>2. new.ended = old.ended
      BY <2>1, <2>e, <3>1 DEF new, old
    <3>3. \A v \in before : IsPromotion(v) => Write[v].at < Write[last].at
      BY <2>2, <2>6 DEF IsPromotion
    <3>4. new.promotion = {last}
      <4>1. Write[last].at \in Nat /\ \A v \in before : Write[v].at \in Nat
        BY <1>1, <2>2, WritesAssumption
      <4>2. ASSUME NEW w \in before, IsPromotion(w)
            PROVE  ~(Write[last].at <= Write[w].at) /\ Write[w].at <= Write[last].at
        BY <3>3, <4>1, <4>2
      <4>3. last \in LastPromotion(before \cup {last})
        BY <2>6, <4>1, <4>2 DEF LastPromotion
      <4>4. \A w \in before : w \notin LastPromotion(before \cup {last})
        BY <2>6, <4>2 DEF LastPromotion
      <4>5. LastPromotion(before \cup {last}) \subseteq before \cup {last}
        BY DEF LastPromotion
      <4>6. LastPromotion(before \cup {last}) = {last}
        BY <4>3, <4>4, <4>5
      <4> QED
        BY <2>1, <2>e, <4>6 DEF new
    <3>5. LastEvaluations(Newest(s)) = LastEvaluations(before)
      BY <2>1, <3>1 DEF LastEvaluations
    <3>6. new.evaluations = old.evaluations
      <4>1. \A w \in LastEvaluations(before) : w \in before
        BY DEF LastEvaluations
      <4> QED
        BY <2>e, <2>f, <3>5, <4>1 DEF new, old
    <3>7. Merge(old, last) = [old EXCEPT !.evaluations = @, !.promotion = {last}]
      BY <2>h, <2>6, <3>1 DEF Merge
    <3>8. Merge(old, last) = new
      BY <2>h, <2>i, <3>2, <3>4, <3>6, <3>7
    <3> QED
      BY <3>8 DEF new, old, last
  <2>7. CASE ~Enriches(last)
    <3>1. Write[last].phase \in {1, 2}
      BY <1>1, <2>7, WritesAssumption DEF Enriches, IsEvaluation, IsPromotion
    <3>2. \A v \in Newest(s) : ~IsEvaluation(v) /\ ~IsPromotion(v)
      <4>1. \A v \in before : Write[v].phase \in 1..4 /\ Write[v].phase <= Write[last].phase
        BY <2>2, WritesAssumption
      <4> QED
        BY <2>1, <3>1, <4>1 DEF IsEvaluation, IsPromotion
    <3>3. (\E w \in Newest(s) : IsTerminal(w)) <=> IsTerminal(last)
      <4>1. \A v \in before : Write[v].phase \in 1..4 /\ Write[v].phase <= Write[last].phase
        BY <2>2, WritesAssumption
      <4> QED
        BY <2>1, <3>1, <4>1 DEF IsTerminal
    <3>4. Merge(old, last) = Fresh(last)
      BY <2>7 DEF Merge
    <3>5. new.evaluations = {} /\ new.promotion = {}
      BY <3>2, <2>e DEF LastEvaluations, LastPromotion, new
    <3>6. ~IsPromotion(last)
      BY <3>2, <1>6
    <3>7. new.ended = IsTerminal(last)
      BY <3>3, <2>e DEF IsTerminal, new
    <3>8. new = Fresh(last)
      BY <2>h, <2>i, <3>5, <3>6, <3>7 DEF Fresh
    <3> QED
      BY <3>4, <3>8 DEF new, old, last
  <2> QED
    BY <2>5, <2>6, <2>7 DEF Enriches
<1>8. CASE rest = {} \/ Write[LastOf(rest)].attempt # Write[last].attempt
  <2>1. Newest(s) = {last}
    <3> SUFFICES ASSUME NEW v \in rest
                 PROVE  Write[v].attempt < Write[last].attempt
      BY <1>1, <1>3, WritesAssumption DEF Newest
    <3>1. LastOf(rest) \in rest /\ Write[v].attempt <= Write[LastOf(rest)].attempt
      BY <1>2, <1>4
    <3>2. Write[LastOf(rest)].attempt < Write[last].attempt
      BY <1>1, <1>3, <1>8, <3>1, WritesAssumption
    <3> QED
      BY <1>1, <3>1, <3>2, WritesAssumption
  <2>2. Complete(s).evaluations = {}
    BY <1>1, <2>1, PrecedesIs DEF Complete, LastEvaluations
  <2>3. Complete(s).promotion = Fresh(last).promotion
    BY <1>1, <2>1, WritesAssumption DEF Complete, LastPromotion, Fresh
  <2>4. Complete(s).ended = IsTerminal(last)
    BY <2>1 DEF Complete, IsTerminal
  <2>5. Complete(s) = Fresh(last)
    BY <1>a, <1>c, <2>2, <2>3, <2>4 DEF Fresh
  <2>6. Complete(rest).attempt # Write[last].attempt
    BY <1>1, <1>8, WritesAssumption DEF Complete
  <2> QED
    BY <2>5, <2>6 DEF Merge, last
<1> QED
  BY <1>7, <1>8 DEF last

LEMMA RowOfEvents ==
  ASSUME NEW applied \in SUBSET Writers
  PROVE  RunRow(applied) = Complete(applied)
<1> DEFINE Row(f, s) ==
             IF s = {} THEN NoRow ELSE Merge(f[s \ {LastOf(s)}], LastOf(s))
           Solves(f) == f = [s \in SUBSET applied |-> Row(f, s)]
           row == CHOOSE f : Solves(f)
           complete == [s \in SUBSET applied |-> Complete(s)]
<1>1. Solves(complete)
  <2>1. ASSUME NEW s \in SUBSET applied
        PROVE  Complete(s) = Row(complete, s)
    <3>1. CASE s = {}
      BY <3>1 DEF Complete, NoRow, Newest, LastEvaluations, LastPromotion
    <3>2. CASE s # {}
      <4>1. complete[s \ {LastOf(s)}] = Complete(s \ {LastOf(s)})
        OBVIOUS
      <4> HIDE DEF complete
      <4> QED
        BY <3>2, <4>1, MergeCompletes
    <3> QED
      BY <3>1, <3>2
  <2> HIDE DEF Row
  <2> QED
    BY <2>1
<1>2. Solves(row)
  <2> HIDE DEF Solves
  <2> QED
    BY <1>1
<1>3. \A s \in SUBSET applied : row[s] = Row(row, s)
  <2> HIDE DEF row, Row
  <2> QED
    BY <1>2
<1> HIDE DEF row
<1> DEFINE C == {s \in SUBSET applied : row[s] # Complete(s)}
<1>4. C = {}
  <2> SUFFICES ASSUME C # {} PROVE FALSE
    OBVIOUS
  <2>1. PICK s \in C : \A x \in s : s \ {x} \notin C
    <3>1. C \in SUBSET SUBSET Writers
      OBVIOUS
    <3> HIDE DEF C
    <3> QED
      BY <3>1, SmallestOf
  <2>2. CASE s = {}
    BY <1>3, <2>2 DEF Complete, NoRow, Newest, LastEvaluations, LastPromotion
  <2>3. CASE s # {}
    <3>1. LastOf(s) \in s
      BY <2>3, LastIs
    <3>2. row[s \ {LastOf(s)}] = Complete(s \ {LastOf(s)})
      BY <2>1, <3>1
    <3>3. row[s] = Merge(Complete(s \ {LastOf(s)}), LastOf(s))
      BY <1>3, <2>3, <3>2
    <3> QED
      BY <2>3, <3>3, MergeCompletes
  <2> QED
    BY <2>2, <2>3
<1>5. RunRow(applied) = row[applied]
  BY DEF RunRow, row
<1> QED
  BY <1>4, <1>5

LEMMA CompleteIs ==
  ASSUME pointer.applied \in SUBSET Writers, Led(pointer.applied)
  PROVE  RowIsComplete
<1>1. RunRow(pointer.applied) = Complete(pointer.applied)
  BY RowOfEvents
<1>2. ASSUME pointer.applied # {}, NEW w \in Newest(pointer.applied)
      PROVE  Complete(pointer.applied).attempt = Write[w].attempt
  <2>1. LastOf(pointer.applied) \in pointer.applied
    BY <1>2, LastIs
  <2>2. Write[w].attempt <= Write[LastOf(pointer.applied)].attempt
    BY <1>2, <2>1, LastIs, WritesAssumption DEF Newest, Precedes
  <2> QED
    BY <1>2, <2>1, <2>2, WritesAssumption DEF Newest, Complete
<1>3. ASSUME NEW w \in LastEvaluations(Newest(pointer.applied))
      PROVE  \E v \in Newest(pointer.applied) : Precedes(v, w)
  <2>1. w \in pointer.applied /\ w \in Newest(pointer.applied) /\ IsEvaluation(w)
    BY <1>3 DEF LastEvaluations, Newest
  <2>2. PICK v \in pointer.applied : IsManifest(v) /\ SameAttempt(v, w)
    BY <2>1 DEF Led, IsManifest, IsEvaluation
  <2> QED
    BY <2>1, <2>2, WritesAssumption
       DEF Newest, Precedes, SameAttempt, IsManifest, IsEvaluation
<1>4. Complete(pointer.applied).evaluations = LastEvaluations(Newest(pointer.applied))
  BY <1>3 DEF Complete
<1> QED
  BY <1>1, <1>2, <1>4 DEF RowIsComplete, Complete

-----------------------------------------------------------------------------
(* The theorems                                                            *)

\* Every variable stays within its type: in particular no call runs past the rounds of its
\* compare-and-swap loop and no record is replaced by something that no call wrote.
THEOREM TypeCorrect == Spec => []RecordsTypeOK
<1>1. IInv => RecordsTypeOK
  BY DEF IInv
<1> QED
  BY <1>1, Inductive, PTL

\* What a generation shows has its record, with the content its event named (reconcile
\* verifies each event before it merges it, and records are create-only).
THEOREM ShownHasRecord == Spec => []ShownIsStored
<1>1. IInv => ShownIsStored
  BY DEF IInv, CatalogInv
<1> QED
  BY <1>1, Inductive, PTL

\* An acknowledged event stays in the generation the pointer names, however many projectors
\* race for the pointer.
THEOREM AcknowledgedStaysShown == Spec => []AcknowledgedIsShown
<1>1. IInv => AcknowledgedIsShown
  BY DEF IInv, CatalogInv
<1> QED
  BY <1>1, Inductive, PTL

\* The promotion of the public index names a listed checkpoint and has its receipt, although
\* _update_public_index reads the document and its etag in two calls.
THEOREM PromotionHasReceipt == Spec => []PromotionIsBacked
<1>1. IInv => PromotionIsBacked
  BY DEF IInv, IndexInv, AllBacked, Backed, PromotionIsBacked
<1> QED
  BY <1>1, Inductive, PTL

\* The row the catalog shows of a run has the attempt, the end, the last evaluation of each
\* checkpoint and the promotion of its newest attempt, in whatever order the events were made
\* and listed (merge_goal_catalog_events).
THEOREM RowTellsAll == Spec => []RowIsComplete
<1>1. IInv /\ LedInv => RowIsComplete
  BY CompleteIs DEF IInv, LedInv, RecordsTypeOK, CatalogTypeOK, Pointers
<1> QED
  BY <1>1, Inductive, AlwaysLed, PTL

\* A call that returned is shown in the catalog, or a job or a lapse of its machine stands
\* for it.
THEOREM ReturnedStaysShown == Spec => []ReturnedIsShown
<1>1. IInv => ReturnedIsShown
  BY DEF IInv, CallsInv
<1> QED
  BY <1>1, Inductive, PTL

\* No step takes an event out of the catalog: a projector whose etag is that of the pointer
\* listed its events after the pointer's were there.
THEOREM CatalogNeverShrinks == Spec => CatalogGrows
<1>1. IInv /\ [Next]_vars => [pointer.applied \subseteq pointer'.applied]_catalogVars
  BY NextKeeps DEF Grows
<1> QED
  BY <1>1, Inductive, PTL DEF Spec, CatalogGrows

\* A row or a promotion of the public index is lost only by an update that pairs a document
\* with the etag of a later one.
THEOREM IndexLosesOnlyUnread == Spec => LostOnlyUnread
<1> DEFINE Kept == /\ index.rows \subseteq index'.rows
                   /\ index.promotion # None => index'.promotion # None
           Lost == \E u \in Updaters : Unread(u) /\ index'.rows = WithRows(u)
<1>1. ASSUME IInv, [Next]_vars PROVE [Kept \/ Lost]_indexVars
  <2>1. CASE index' = index
    BY <2>1
  <2>2. ASSUME NEW u \in Updaters, IndexCallStep(u), index' # index PROVE Kept \/ Lost
    <3>1. /\ upc[u] = "put" /\ MayPromote(u) /\ uetag[u] = index.version
          /\ index' = Updated(u)
      BY <2>2 DEF IndexCallStep, IndexStep, IndexGet, IndexHead, IndexRefuses, IndexConflict,
         IndexPut, IndexPutUnanswered, Matches
    <3>2. CASE uread[u].version # uetag[u]
      BY <3>1, <3>2 DEF Unread, Updated
    <3>3. CASE uread[u].version = uetag[u]
      <4>1. uread[u] = index
        BY <1>1, <3>1, <3>3, Apart DEF IndexInv, ReadsOlder
      <4>2. Names[u] \in Rows
        OBVIOUS
      <4> QED
        BY <3>1, <4>1, <4>2 DEF Updated, WithRows
    <3> QED
      BY <3>2, <3>3
  <2>3. index' = index \/ \E u \in Updaters : IndexCallStep(u)
    BY <1>1 DEF Next, vars, CallStep, RecordEvent, RecordStored, RecordConflict, UpdateIndex,
       StartUpdate, IndexEnds, Schedule, Joined, Enqueue, EnqueueFails, ProcessEnds,
       WorkerClaims, WorkerFinishes, Rebuild, RebuildConflict, EventConflict, CatalogStep, PublishRow, indexVars
  <2> QED
    BY <2>1, <2>2, <2>3
<1> QED
  BY <1>1, Inductive, PTL DEF Spec, LostOnlyUnread

=============================================================================
