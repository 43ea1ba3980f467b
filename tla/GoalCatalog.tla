---------------------------- MODULE GoalCatalog ----------------------------
(***************************************************************************)
(* The catalog of a goal (goal_catalog_projection.py, goal_catalog.py).    *)
(*                                                                         *)
(* Whoever writes a record of a run (a manifest, a receipt, a verified     *)
(* evaluation, a promotion) puts an event beside it.  A projector lists    *)
(* the events, keeps those whose record is in the bucket with the content  *)
(* the event names, rebuilds the catalog from them and switches a pointer  *)
(* with compare-and-swap; then it acknowledges the events.  Any number of  *)
(* projectors run at once.  Pages and generations have their digest for a  *)
(* key and nobody reads them before a pointer names them, so a generation  *)
(* is the set of the events it applies.                                    *)
(***************************************************************************)
EXTENDS Naturals, FiniteSets

CONSTANTS Writers,          \* writes of records, each with its event
          Write,            \* what each writes: [key, document, attempt, phase, checkpoint,
                            \* at]; at ranks the time, and the id where times are equal
          Projectors,       \* runs of reconcile, some of them started again
          MaxAttempts,      \* rounds of the compare-and-swap loop (8 in the code)
          MaxCatalogFaults, \* bound: calls of a projector that raise
          Absent

Keys == {Write[w].key : w \in Writers}
Documents == {Write[w].document : w \in Writers}

ASSUME AbsentAssumption == Absent \notin Documents /\ Absent \notin Writers
ASSUME WritesAssumption ==
    /\ IsFiniteSet(Writers)
    /\ \A w \in Writers :
          /\ Write[w].attempt \in Nat \ {0} /\ Write[w].phase \in 1..4
          /\ Write[w].at \in Nat
    /\ \A v, w \in Writers :
          Write[v].attempt = Write[w].attempt /\ Write[v].phase = Write[w].phase
          /\ Write[v].at = Write[w].at => v = w
ASSUME CatalogBoundsAssumption == MaxAttempts \in Nat \ {0} /\ MaxCatalogFaults \in Nat

VARIABLES
    events,     \* the events in the bucket
    stored,     \* the document under each key, or Absent
    pointer,    \* the goal's pointer: its version and the events of its generation
    acks,       \* acknowledged events
    ppc,        \* where each projector stands
    pread,      \* the pointer its GET returned
    petag,      \* the version its HEAD returned, 0 for "create only"
    todo,       \* listed events it has not verified yet
    found,      \* verified events
    prounds,    \* rounds it has lost
    pfaults     \* calls that raised so far

bucket == <<events, stored, pointer, acks>>
projector == <<ppc, pread, petag, todo, found, prounds, pfaults>>
catalogVars == <<bucket, projector>>

NoPointer == [version |-> 0, applied |-> {}]

Verified(w) == stored[Write[w].key] = Write[w].document
-----------------------------------------------------------------------------
(* What a generation shows of a run (merge_goal_catalog_events)            *)

IsTerminal(w) == Write[w].phase = 2
IsEvaluation(w) == Write[w].phase = 3
IsPromotion(w) == Write[w].phase = 4
Enriches(w) == IsEvaluation(w) \/ IsPromotion(w)

\* By attempt, phase and time.  (The mutant sorts an attempt's events by time.)
BuggyPrecedes(v, w) ==
    \/ Write[v].attempt < Write[w].attempt
    \/ Write[v].attempt = Write[w].attempt /\ Write[v].at < Write[w].at
Precedes(v, w) ==
    \/ Write[v].attempt < Write[w].attempt
    \/ /\ Write[v].attempt = Write[w].attempt
       /\ \/ Write[v].phase < Write[w].phase
          \/ Write[v].phase = Write[w].phase /\ Write[v].at < Write[w].at

NoRow == [attempt |-> 0, ended |-> FALSE, evaluations |-> {}, promotion |-> {}]

\* A row that an event makes of its own has no evaluations, even if it is that of one.
Fresh(w) ==
    [attempt |-> Write[w].attempt,
     ended |-> IsTerminal(w),
     evaluations |-> {},
     promotion |-> IF IsPromotion(w) THEN {w} ELSE {}]

\* A later event replaces the row, except that an evaluation or a promotion goes into the
\* row of its attempt: evaluations by checkpoint, the later one in place of the earlier.
Merge(row, w) ==
    IF row.attempt = Write[w].attempt /\ Enriches(w)
    THEN [row EXCEPT
            !.evaluations =
                IF IsEvaluation(w)
                THEN {v \in @ : Write[v].checkpoint # Write[w].checkpoint} \cup {w} ELSE @,
            !.promotion = IF IsPromotion(w) THEN {w} ELSE @]
    ELSE Fresh(w)

LastOf(s) == CHOOSE w \in s : \A v \in s : ~Precedes(w, v)

\* In order: the last event of a set is merged into the row of the others.
RunRow(applied) ==
    LET row[s \in SUBSET applied] ==
            IF s = {} THEN NoRow
            ELSE LET last == LastOf(s) IN Merge(row[s \ {last}], last)
    IN  row[applied]
-----------------------------------------------------------------------------
(* reconcile                                                               *)

Stand(p, phase) == ppc' = [ppc EXCEPT ![p] = phase]

\* The variables of a round end with it.
EndRound(p) ==
    /\ pread' = [pread EXCEPT ![p] = NoPointer]
    /\ petag' = [petag EXCEPT ![p] = 0]
    /\ todo' = [todo EXCEPT ![p] = {}]
    /\ found' = [found EXCEPT ![p] = {}]

End(p, outcome) ==
    /\ Stand(p, outcome)
    /\ prounds' = [prounds EXCEPT ![p] = 0]
    /\ EndRound(p)

PointerGet(p) ==
    /\ ppc[p] = "get"
    /\ pread' = [pread EXCEPT ![p] = pointer]
    /\ petag' = [petag EXCEPT ![p] = 0]
    /\ Stand(p, IF pointer = NoPointer THEN "list" ELSE "head")
    /\ UNCHANGED <<bucket, todo, found, prounds, pfaults>>

PointerHead(p) ==
    /\ ppc[p] = "head"
    /\ petag' = [petag EXCEPT ![p] = pointer.version]
    /\ Stand(p, "list")
    /\ UNCHANGED <<bucket, pread, todo, found, prounds, pfaults>>

\* (The mutant lists once, before its first look at the pointer, and keeps the list.)
BuggyList(p) ==
    /\ ppc[p] = "list"
    /\ IF prounds[p] = 0
       THEN todo' = [todo EXCEPT ![p] = events] /\ found' = [found EXCEPT ![p] = {}]
       ELSE UNCHANGED <<todo, found>>
    /\ Stand(p, "verify")
    /\ UNCHANGED <<bucket, pread, petag, prounds, pfaults>>
List(p) ==
    /\ ppc[p] = "list"
    /\ todo' = [todo EXCEPT ![p] = events]
    /\ found' = [found EXCEPT ![p] = {}]
    /\ Stand(p, "verify")
    /\ UNCHANGED <<bucket, pread, petag, prounds, pfaults>>

\* Listings are in the order of the keys: any fixed order will do.
First(S) == IF S = {} THEN Absent ELSE CHOOSE w \in S : TRUE

\* An event whose record is missing or differs is an orphan.  (The mutant keeps it.)
BuggyVerify(p, w) ==
    /\ ppc[p] = "verify" /\ w = First(todo[p])
    /\ todo' = [todo EXCEPT ![p] = @ \ {w}]
    /\ found' = [found EXCEPT ![p] = @ \cup {w}]
    /\ UNCHANGED <<bucket, ppc, pread, petag, prounds, pfaults>>
Verify(p, w) ==
    /\ ppc[p] = "verify" /\ w = First(todo[p])
    /\ todo' = [todo EXCEPT ![p] = @ \ {w}]
    /\ found' = [found EXCEPT ![p] = IF Verified(w) THEN @ \cup {w} ELSE @]
    /\ UNCHANGED <<bucket, ppc, pread, petag, prounds, pfaults>>

Merged(p) == ppc[p] = "verify" /\ todo[p] = {}

\* The pointer's generation shows these events already.
Projected(p) == pread[p] # NoPointer /\ pread[p].applied = found[p]

AlreadyProjected(p) ==
    /\ Merged(p) /\ Projected(p)
    /\ Stand(p, "ack")
    /\ UNCHANGED <<bucket, pread, petag, todo, found, prounds, pfaults>>

Switches(p) == petag[p] = pointer.version

NewPointer(p) == [version |-> pointer.version + 1, applied |-> found[p]]

Publish(p) ==
    /\ Merged(p) /\ ~Projected(p) /\ Switches(p)
    /\ pointer' = NewPointer(p)
    /\ Stand(p, "readback")
    /\ UNCHANGED <<events, stored, acks, pread, petag, todo, found, prounds, pfaults>>

LoseAttempt(p) ==
    IF prounds[p] + 1 < MaxAttempts
    THEN /\ prounds' = [prounds EXCEPT ![p] = @ + 1]
         /\ Stand(p, "get")
         /\ EndRound(p)
    ELSE End(p, "failed")

PublishConflict(p) ==
    /\ Merged(p) /\ ~Projected(p) /\ ~Switches(p)
    /\ LoseAttempt(p)
    /\ UNCHANGED <<bucket, pfaults>>

\* The PUT took effect, its answer was lost and the repeated PUT conflicts.
PublishUnanswered(p) ==
    /\ Merged(p) /\ ~Projected(p) /\ Switches(p)
    /\ pfaults < MaxCatalogFaults
    /\ pfaults' = pfaults + 1
    /\ pointer' = NewPointer(p)
    /\ LoseAttempt(p)
    /\ UNCHANGED <<events, stored, acks>>

\* Another projector may publish before either read: then the verification fails, though
\* what this one published was there.
ReadBackPointer(p) ==
    /\ ppc[p] = "readback"
    /\ IF pointer.version = petag[p] + 1
       THEN /\ Stand(p, "generation")
            /\ UNCHANGED <<pread, petag, todo, found, prounds>>
       ELSE End(p, "failed")
    /\ UNCHANGED <<bucket, pfaults>>

ReadBackGeneration(p) ==
    /\ ppc[p] = "generation"
    /\ IF pointer.applied = found[p]
       THEN /\ Stand(p, "ack")
            /\ UNCHANGED <<pread, petag, todo, found, prounds>>
       ELSE End(p, "failed")
    /\ UNCHANGED <<bucket, pfaults>>

\* (The mutant acknowledges what it listed.)
BuggyAcknowledge(p, w) ==
    /\ ppc[p] = "ack" /\ w = First(events \ acks)
    /\ acks' = acks \cup {w}
    /\ UNCHANGED <<events, stored, pointer, projector>>
Acknowledge(p, w) ==
    /\ ppc[p] = "ack" /\ w = First(found[p] \ acks)
    /\ acks' = acks \cup {w}
    /\ UNCHANGED <<events, stored, pointer, projector>>

Reconciled(p) ==
    /\ ppc[p] = "ack" /\ found[p] \subseteq acks
    /\ End(p, "succeeded")
    /\ UNCHANGED <<bucket, pfaults>>

Working == {"get", "head", "list", "verify", "readback", "generation", "ack"}

\* A call of a projector raises.
ReconcileRaises(p) ==
    /\ ppc[p] \in Working
    /\ pfaults < MaxCatalogFaults
    /\ pfaults' = pfaults + 1
    /\ End(p, "failed")
    /\ UNCHANGED bucket

ReconcileStep(p) ==
    \/ PointerGet(p) \/ PointerHead(p) \/ List(p)
    \/ \E w \in Writers : Verify(p, w) \/ Acknowledge(p, w)
    \/ AlreadyProjected(p) \/ Publish(p) \/ PublishConflict(p)
    \/ ReadBackPointer(p) \/ ReadBackGeneration(p) \/ Reconciled(p)

ReconcileFault(p) == PublishUnanswered(p) \/ ReconcileRaises(p)
-----------------------------------------------------------------------------
(* The writer's side of the bucket                                         *)

\* The key of an event has the digest of its record.
PutEvent(w) == events' = events \cup {w} /\ UNCHANGED <<stored, pointer, acks>>

\* Create-only: the same document again is no conflict.
MayStore(w) == stored[Write[w].key] \in {Absent, Write[w].document}
StoreDocument(w) ==
    /\ stored' = [stored EXCEPT ![Write[w].key] = Write[w].document]
    /\ UNCHANGED <<events, pointer, acks>>

\* The records in past were made, shown and acknowledged before.
CatalogInit(past) ==
    /\ events = past /\ acks = past
    /\ stored = [k \in Keys |->
                    IF \E w \in past : Write[w].key = k
                    THEN Write[CHOOSE w \in past : Write[w].key = k].document
                    ELSE Absent]
    /\ pointer = [version |-> IF past = {} THEN 0 ELSE 1, applied |-> past]
    /\ ppc = [p \in Projectors |-> "off"]
    /\ pread = [p \in Projectors |-> NoPointer]
    /\ petag = [p \in Projectors |-> 0]
    /\ todo = [p \in Projectors |-> {}]
    /\ found = [p \in Projectors |-> {}]
    /\ prounds = [p \in Projectors |-> 0]
    /\ pfaults = 0
-----------------------------------------------------------------------------
(* Properties                                                              *)

Pointers == [version : Nat, applied : SUBSET Writers]

CatalogTypeOK ==
    /\ events \subseteq Writers /\ acks \subseteq Writers
    /\ stored \in [Keys -> Documents \cup {Absent}]
    /\ pointer \in Pointers
    /\ ppc \in [Projectors -> Working \cup {"off", "succeeded", "failed"}]
    /\ pread \in [Projectors -> Pointers]
    /\ petag \in [Projectors -> Nat]
    /\ todo \in [Projectors -> SUBSET Writers]
    /\ found \in [Projectors -> SUBSET Writers]
    /\ prounds \in [Projectors -> 0..MaxAttempts]
    /\ pfaults \in 0..MaxCatalogFaults

\* What the catalog shows is backed by a record with the content the event named: a writer
\* that put its event and then died, or lost to another document under the same key, is
\* never shown.
ShownIsStored == \A w \in pointer.applied : Verified(w)

\* An acknowledged event is in the generation the pointer names, whichever projectors
\* published in the meantime.
AcknowledgedIsShown == acks \subseteq pointer.applied

\* The catalog never takes back an event it has shown: a projector that lists the events
\* before another's PUT does not win over it, though its pointer and its etag come from two
\* calls.
CatalogGrows == [][pointer.applied \subseteq pointer'.applied]_catalogVars

Newest(s) == {w \in s : \A v \in s : Write[v].attempt <= Write[w].attempt}

\* Of the evaluations of one checkpoint (training's, a batch's) the last counts.
LastEvaluations(s) ==
    {w \in s : /\ IsEvaluation(w)
               /\ \A v \in s :
                     IsEvaluation(v) /\ Write[v].checkpoint = Write[w].checkpoint
                         => Write[v].at <= Write[w].at}

LastPromotion(s) ==
    {w \in s : IsPromotion(w) /\ \A v \in s : IsPromotion(v) => Write[v].at <= Write[w].at}

\* The row of a run tells all there is about its newest attempt: its end, the last
\* evaluation of each of its checkpoints and its promotion, in whatever order the records
\* were made and listed.
RowIsComplete ==
    LET row == RunRow(pointer.applied)
        newest == Newest(pointer.applied)
    IN  pointer.applied # {} =>
            /\ \A w \in newest : row.attempt = Write[w].attempt
            /\ row.ended = (\E w \in newest : IsTerminal(w))
            /\ row.evaluations = LastEvaluations(newest)
            /\ row.promotion = LastPromotion(newest)
=============================================================================
