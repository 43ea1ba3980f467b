---------------------------- MODULE PublicIndex ----------------------------
(***************************************************************************)
(* index.json of a run: the checkpoints anyone may play and the one that   *)
(* was promoted (RunAuthority._update_public_index).  The supervisor adds  *)
(* a row for each checkpoint it publishes; the supervisor, a later attempt *)
(* or the batch evaluator adds the promotion.                              *)
(*                                                                         *)
(* An update reads the document with GET and its etag with a later HEAD,   *)
(* adds what it brings and writes with If-Match.  A step is one call.      *)
(***************************************************************************)
EXTENDS Naturals

CONSTANTS Updaters,         \* one call of _update_public_index each
          Rows,             \* checkpoints
          Names,            \* the checkpoint an updater adds or promotes
          Promoters,        \* the updaters that bring a promotion
          MaxRounds,        \* rounds of the compare-and-swap loop (8 in the code)
          MaxIndexFaults,   \* bound: answers of PUTs that are lost
          None

ASSUME NamesAssumption == Names \in [Updaters -> Rows]
ASSUME PromotersAssumption == Promoters \subseteq Updaters /\ None \notin Rows
ASSUME IndexBoundsAssumption == MaxRounds \in Nat \ {0} /\ MaxIndexFaults \in Nat

VARIABLES
    index,     \* index.json; updated_at makes each version's etag its own
    upc,       \* where each updater stands
    uread,     \* the document its GET returned
    uetag,     \* the version its HEAD returned, 0 for "create only"
    urounds,   \* rounds it has lost
    ufaults    \* answers lost so far

indexVars == <<index, upc, uread, uetag, urounds, ufaults>>

NoIndex == [version |-> 0, rows |-> {}, promotion |-> None]

Become(u, phase) == upc' = [upc EXCEPT ![u] = phase]

StartUpdate(u) ==
    /\ upc[u] = "off"
    /\ Become(u, "get")
    /\ UNCHANGED <<index, uread, uetag, urounds, ufaults>>

\* Without a document there is no etag to read.
IndexGet(u) ==
    /\ upc[u] = "get"
    /\ uread' = [uread EXCEPT ![u] = index]
    /\ uetag' = [uetag EXCEPT ![u] = 0]
    /\ Become(u, IF index = NoIndex THEN "put" ELSE "head")
    /\ UNCHANGED <<index, urounds, ufaults>>

IndexHead(u) ==
    /\ upc[u] = "head"
    /\ uetag' = [uetag EXCEPT ![u] = index.version]
    /\ Become(u, "put")
    /\ UNCHANGED <<index, uread, urounds, ufaults>>

\* A checkpoint adds its row, a promotion takes a row that is there.
WithRows(u) ==
    IF u \in Promoters THEN uread[u].rows ELSE uread[u].rows \cup {Names[u]}

\* (The mutant does not look for the row.)
BuggyMayPromote(u) == TRUE
MayPromote(u) == u \in Promoters => Names[u] \in uread[u].rows

Updated(u) ==
    [version |-> index.version + 1,
     rows |-> WithRows(u),
     promotion |-> IF u \in Promoters THEN Names[u] ELSE uread[u].promotion]

IndexRefuses(u) ==
    /\ upc[u] = "put" /\ ~MayPromote(u)
    /\ Become(u, "raised")
    /\ UNCHANGED <<index, uread, uetag, urounds, ufaults>>

\* (The mutant writes without a condition.)
BuggyMatches(u) == TRUE
Matches(u) == uetag[u] = index.version

IndexPut(u) ==
    /\ upc[u] = "put" /\ MayPromote(u) /\ Matches(u)
    /\ index' = Updated(u)
    /\ Become(u, "done")
    /\ UNCHANGED <<uread, uetag, urounds, ufaults>>

\* A lost round: the next one, or the loop has not converged.
LoseRound(u) ==
    /\ urounds' = [urounds EXCEPT ![u] = @ + 1]
    /\ Become(u, IF urounds[u] + 1 < MaxRounds THEN "get" ELSE "raised")

IndexConflict(u) ==
    /\ upc[u] = "put" /\ MayPromote(u) /\ ~Matches(u)
    /\ LoseRound(u)
    /\ UNCHANGED <<index, uread, uetag, ufaults>>

\* The PUT took effect and its answer was lost: the client library asks again and is told
\* of a conflict, or the call raises.
IndexPutUnanswered(u) ==
    /\ upc[u] = "put" /\ MayPromote(u) /\ Matches(u)
    /\ ufaults < MaxIndexFaults
    /\ ufaults' = ufaults + 1
    /\ index' = Updated(u)
    /\ \/ LoseRound(u)
       \/ Become(u, "raised") /\ UNCHANGED urounds
    /\ UNCHANGED <<uread, uetag>>

IndexStep(u) ==
    \/ IndexGet(u) \/ IndexHead(u) \/ IndexRefuses(u)
    \/ IndexPut(u) \/ IndexConflict(u) \/ IndexPutUnanswered(u)

IndexInit ==
    /\ index = NoIndex
    /\ upc = [u \in Updaters |-> "off"]
    /\ uread = [u \in Updaters |-> NoIndex]
    /\ uetag = [u \in Updaters |-> 0]
    /\ urounds = [u \in Updaters |-> 0]
    /\ ufaults = 0

IndexDocuments ==
    [version : Nat, rows : SUBSET Rows, promotion : Rows \cup {None}]

IndexTypeOK ==
    /\ index \in IndexDocuments
    /\ upc \in [Updaters -> {"off", "get", "head", "put", "done", "raised"}]
    /\ uread \in [Updaters -> IndexDocuments]
    /\ uetag \in [Updaters -> Nat]
    /\ urounds \in [Updaters -> 0..MaxRounds]
    /\ ufaults \in 0..MaxIndexFaults

\* An update that carries the etag of a document it has not read.
Unread(u) == upc[u] = "put" /\ uread[u].version # uetag[u]

\* A row or a promotion that was published disappears only in an update whose GET and HEAD
\* met different versions; the conditional PUT, lost answers and repeated rounds lose
\* nothing.
LostOnlyUnread ==
    [][\/ /\ index.rows \subseteq index'.rows
          /\ index.promotion # None => index'.promotion # None
       \/ \E u \in Updaters : Unread(u) /\ index'.rows = WithRows(u)]_indexVars
=============================================================================
