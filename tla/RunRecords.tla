----------------------------- MODULE RunRecords -----------------------------
(***************************************************************************)
(* The records of a run and the two views built from them (RunAuthority).  *)
(*                                                                         *)
(* create_manifest, create_attempt_terminal, put_verified_eval_result and  *)
(* create_promotion put the catalog event first, then the record, a        *)
(* promotion also into the public index; then they project the catalog on  *)
(* a thread they wait two seconds for, and leave a job for the queue if    *)
(* that was not enough.  Several of these calls run at once: supervisor,   *)
(* batch evaluator and operator are different machines.                    *)
(***************************************************************************)
EXTENDS GoalCatalog, PublicIndex

CONSTANTS Worker,      \* the projector that serves the catalog jobs
          Operator,    \* the projector of "rebuild"
          Casts,       \* what a behaviour starts from and is made of:
                       \* [past : records, calls : calls, queue : is there a job queue?]
          MaxLapses    \* bound: processes that end, queues that cannot be written

ASSUME ProjectorsAssumption ==
    /\ Projectors = Writers \cup {Worker, Operator}
    /\ Worker # Operator /\ Worker \notin Writers /\ Operator \notin Writers

IsManifest(w) == Write[w].phase = 1
SameAttempt(v, w) == Write[v].attempt = Write[w].attempt

\* The key of a manifest names its attempt.
ASSUME ManifestsAssumption ==
    \A v, w \in Writers : Write[v].key = Write[w].key /\ IsManifest(v)
                            => IsManifest(w) /\ SameAttempt(v, w)
ASSUME CastsAssumption ==
    /\ Casts \subseteq [past : SUBSET Writers,
                        calls : SUBSET (Writers \cup Updaters \cup {Operator}),
                        queue : BOOLEAN]
    /\ \A c \in Casts : \A v, w \in c.past :
          Write[v].key = Write[w].key => Write[v].document = Write[w].document
    /\ \A c \in Casts : \A w \in c.past : \E v \in c.past : IsManifest(v) /\ SameAttempt(v, w)
ASSUME PromotionsAssumption == Promoters = Writers \cap Updaters
ASSUME LapsesAssumption == MaxLapses \in Nat

VARIABLES
    cast,      \* the calls that are made
    wpc,       \* where each call that writes a record stands
    jobs,      \* catalog jobs of these calls that are not done
    serving,   \* the job the worker has claimed, or None
    lapsed,    \* history: calls whose process ended, or that could leave no job
    lapses,    \* how often that happened
    lean       \* events that a rebuild has put

calls == <<cast, wpc, jobs, serving, lapsed, lapses, lean>>
vars == <<catalogVars, indexVars, calls>>

\* An event carries a manifest: an end that of its attempt, an evaluation or a promotion
\* the newest there is; a record that is written again under a newer attempt is a write of
\* its own.
ManifestKnown(w) ==
    \E v \in Writers : IsManifest(v) /\ SameAttempt(v, w) /\ Verified(v)
OfNewest(w) ==
    /\ ManifestKnown(w)
    /\ \A v \in Writers : IsManifest(v) /\ Verified(v) => Write[v].attempt <= Write[w].attempt
MayWrite(w) ==
    \/ IsManifest(w)
    \/ IsTerminal(w) /\ ManifestKnown(w)
    \/ Enriches(w) /\ OfNewest(w)

\* An evaluation's event is made leaner by a rebuild, without the criteria; that of an end
\* has no metrics then, and may have had none before.
AlwaysDiffers(w) == IsEvaluation(w)
MayDiffer(w) == IsEvaluation(w) \/ IsTerminal(w)

Go(w, phase) == wpc' = [wpc EXCEPT ![w] = phase]

RecordEvent(w) ==
    /\ wpc[w] = "ready" /\ MayWrite(w)
    /\ w \in lean => ~AlwaysDiffers(w)
    /\ PutEvent(w)
    /\ Go(w, "record")
    /\ UNCHANGED <<projector, indexVars, cast, jobs, serving, lapsed, lapses, lean>>

\* put_event: another event is there under this key, and the call raises.
EventConflict(w) ==
    /\ wpc[w] = "ready" /\ MayWrite(w)
    /\ w \in lean /\ MayDiffer(w)
    /\ Go(w, "raised")
    /\ UNCHANGED <<catalogVars, indexVars, cast, jobs, serving, lapsed, lapses, lean>>

RecordStored(w) ==
    /\ wpc[w] = "record" /\ MayStore(w)
    /\ StoreDocument(w)
    /\ Go(w, IF w \in Promoters THEN "index" ELSE "schedule")
    /\ UNCHANGED <<projector, indexVars, cast, jobs, serving, lapsed, lapses, lean>>

\* Another document is there: the call raises and leaves its event an orphan.
RecordConflict(w) ==
    /\ wpc[w] = "record" /\ ~MayStore(w)
    /\ Go(w, "raised")
    /\ UNCHANGED <<catalogVars, indexVars, cast, jobs, serving, lapsed, lapses, lean>>

UpdateIndex(w) ==
    /\ wpc[w] = "index"
    /\ StartUpdate(w)
    /\ UNCHANGED <<catalogVars, calls>>

IndexEnds(w) ==
    /\ wpc[w] = "index" /\ upc[w] \in {"done", "raised"}
    /\ Go(w, IF upc[w] = "done" THEN "schedule" ELSE "raised")
    /\ UNCHANGED <<catalogVars, indexVars, cast, jobs, serving, lapsed, lapses, lean>>

Schedule(w) ==
    /\ wpc[w] = "schedule"
    /\ Stand(w, "get")
    /\ Go(w, "joining")
    /\ UNCHANGED <<bucket, pread, petag, todo, found, prounds, pfaults, indexVars,
                   cast, jobs, serving, lapsed, lapses, lean>>

Joined(w) ==
    /\ wpc[w] = "joining" /\ ppc[w] = "succeeded"
    /\ Go(w, "returned")
    /\ UNCHANGED <<catalogVars, indexVars, cast, jobs, serving, lapsed, lapses, lean>>

\* The thread failed or takes more than two seconds (it goes on).  (The mutant leaves a job
\* only for one that failed.)
BuggyEnqueue(w) ==
    /\ wpc[w] = "joining" /\ ppc[w] # "succeeded" /\ cast.queue
    /\ jobs' = IF ppc[w] = "failed" THEN jobs \cup {w} ELSE jobs
    /\ Go(w, "returned")
    /\ UNCHANGED <<catalogVars, indexVars, cast, serving, lapsed, lapses, lean>>
Enqueue(w) ==
    /\ wpc[w] = "joining" /\ ppc[w] # "succeeded" /\ cast.queue
    /\ jobs' = jobs \cup {w}
    /\ Go(w, "returned")
    /\ UNCHANGED <<catalogVars, indexVars, cast, serving, lapsed, lapses, lean>>

\* The queue cannot be written: nobody is told.
EnqueueFails(w) ==
    /\ wpc[w] = "joining" /\ ppc[w] # "succeeded"
    /\ cast.queue => lapses < MaxLapses
    /\ lapses' = IF cast.queue THEN lapses + 1 ELSE lapses
    /\ lapsed' = lapsed \cup {w}
    /\ Go(w, "returned")
    /\ UNCHANGED <<catalogVars, indexVars, cast, jobs, serving, lean>>

\* Publication of a checkpoint ends with its row in the index.
PublishRow(u) ==
    /\ u \in (cast.calls \cap Updaters) \ Writers
    /\ StartUpdate(u)
    /\ UNCHANGED <<catalogVars, calls>>

\* A process ends, its threads with it; its machine's queue stays or goes too.
ProcessEnds(w) ==
    /\ \/ wpc[w] \in {"record", "index", "schedule", "joining"}
       \/ wpc[w] = "returned" /\ (ppc[w] \in Working \/ w \in jobs)
    /\ lapses < MaxLapses
    /\ lapses' = lapses + 1
    /\ Go(w, "ended")
    /\ End(w, "off")
    /\ upc' = [u \in Updaters |-> IF u = w THEN "raised" ELSE upc[u]]
    /\ jobs' \in {jobs, jobs \ {w}}
    /\ lapsed' = IF w \in jobs' THEN lapsed ELSE lapsed \cup {w}
    /\ UNCHANGED <<bucket, pfaults, index, uread, uetag, urounds, ufaults, cast, serving, lean>>

WorkerClaims(w) ==
    /\ w \in jobs /\ ppc[Worker] = "off"
    /\ Stand(Worker, "get")
    /\ serving' = w
    /\ UNCHANGED <<bucket, pread, petag, todo, found, prounds, pfaults, indexVars,
                   cast, wpc, jobs, lapsed, lapses, lean>>

\* A job whose reconcile failed waits and is claimed again.
WorkerFinishes ==
    /\ ppc[Worker] \in {"succeeded", "failed"}
    /\ jobs' = IF ppc[Worker] = "succeeded" THEN jobs \ {serving} ELSE jobs
    /\ serving' = None
    /\ Stand(Worker, "off")
    /\ UNCHANGED <<bucket, pread, petag, todo, found, prounds, pfaults, indexVars,
                   cast, wpc, lapsed, lapses, lean>>

\* The operator puts the events of the newest attempt and of all evaluations and the
\* promotion under it, phase after phase, and reconciles; an event that differs from the
\* one that is there ends it (immutable goal catalog event conflicts with storage).
Rebuilt == {w \in Writers : Verified(w) /\ OfNewest(w)}
Present == Rebuilt \cap (events \ lean)
Rebuild ==
    /\ Operator \in cast.calls /\ ppc[Operator] = "off"
    /\ \A w \in Present : ~AlwaysDiffers(w)
    /\ events' = events \cup Rebuilt
    /\ lean' = lean \cup (Rebuilt \ events)
    /\ Stand(Operator, "get")
    /\ UNCHANGED <<stored, pointer, acks, pread, petag, todo, found, prounds, pfaults,
                   indexVars, cast, wpc, jobs, serving, lapsed, lapses>>

RebuildConflict ==
    /\ Operator \in cast.calls /\ ppc[Operator] = "off"
    /\ \E w \in {v \in Present : MayDiffer(v)} :
       \E before \in SUBSET {v \in Rebuilt \ Present : Write[v].phase = Write[w].phase} :
          /\ events' = events \cup before \cup {v \in Rebuilt : Write[v].phase < Write[w].phase}
          /\ lean' = lean \cup (events' \ events)
    /\ Stand(Operator, "failed")
    /\ UNCHANGED <<stored, pointer, acks, pread, petag, todo, found, prounds, pfaults,
                   indexVars, cast, wpc, jobs, serving, lapsed, lapses>>

Init ==
    /\ cast \in Casts
    /\ CatalogInit(cast.past) /\ IndexInit
    /\ wpc = [w \in Writers |-> IF w \in cast.calls THEN "ready" ELSE "off"]
    /\ jobs = {} /\ serving = None /\ lapsed = {} /\ lapses = 0 /\ lean = {}

CallStep(w) ==
    \/ RecordEvent(w) \/ EventConflict(w) \/ RecordStored(w) \/ RecordConflict(w)
    \/ UpdateIndex(w) \/ IndexEnds(w)
    \/ Schedule(w) \/ Joined(w) \/ Enqueue(w)

CatalogStep(p) == ReconcileStep(p) /\ UNCHANGED <<indexVars, calls>>
IndexCallStep(u) == IndexStep(u) /\ UNCHANGED <<catalogVars, calls>>

Next ==
    \/ \E w \in Writers :
          CallStep(w) \/ EnqueueFails(w) \/ ProcessEnds(w) \/ WorkerClaims(w)
    \/ \E u \in Updaters : IndexCallStep(u) \/ PublishRow(u)
    \/ \E p \in Projectors :
          \/ CatalogStep(p)
          \/ ReconcileFault(p) /\ UNCHANGED <<indexVars, calls>>
    \/ WorkerFinishes
    \/ Rebuild \/ RebuildConflict

Spec == Init /\ [][Next]_vars
-----------------------------------------------------------------------------
(* Properties                                                              *)

RecordsTypeOK ==
    /\ CatalogTypeOK /\ IndexTypeOK
    /\ cast \in Casts
    /\ wpc \in [Writers -> {"off", "ready", "record", "index", "schedule", "joining",
                              "returned", "raised", "ended"}]
    /\ jobs \subseteq Writers /\ lapsed \subseteq Writers
    /\ serving \in Writers \cup {None}
    /\ lapses \in 0..MaxLapses /\ lean \subseteq Writers

\* The promotion of the public index has its receipt and names a checkpoint that the index
\* lists, also after updates that overwrote each other.
PromotionIsBacked ==
    index.promotion # None =>
        /\ index.promotion \in index.rows
        /\ \E w \in Promoters : Names[w] = index.promotion /\ Verified(w)

\* A call that returned has its record shown in the catalog, or a job that stands for it:
\* even if its thread lost every round, was too slow or failed its verification.  Only a
\* process that ended with its machine's queue, or could not write to it, owes nothing.
ReturnedIsShown ==
    \A w \in Writers :
        wpc[w] = "returned" => w \in pointer.applied \cup jobs \cup lapsed
=============================================================================
