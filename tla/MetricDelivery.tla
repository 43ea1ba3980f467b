--------------------------- MODULE MetricDelivery ---------------------------
(***************************************************************************)
(* The metrics of a run on their way to the bucket and to W&B              *)
(* (metric_store.py, supervisor_ledger.py, wandb_publisher.py,             *)
(* run_supervisor.py).                                                     *)
(*                                                                         *)
(* Learner and supervisor append events to a ledger on the task's disk; an *)
(* event's row number is its step at W&B.  The supervisor seals rows into  *)
(* segments of a journal in the bucket, logs them to W&B, and at the end   *)
(* moves the journal to a prefix that expires.  A task may die anywhere,   *)
(* with its disk or without; the next attempt rebuilds the ledger from the *)
(* journal or resumes the one it finds, while W&B keeps what it was sent.  *)
(***************************************************************************)
EXTENDS Naturals, SequencesExt

CONSTANTS Events,         \* what can be measured; an event is its content
          EvalEvents,     \* those that are results of evaluations
          SegmentEvents,  \* rows of a segment, at most (1000 in the code)
          BatchFrames,    \* rows of a publication, at most (250 in the code)
          MaxAttempts,    \* bound: attempts of the run
          MaxFaults,      \* bound: W&B calls that raise, samples that repeat
          Nothing

ASSUME LimitsAssumption ==
    /\ BatchFrames \in Nat \ {0} /\ SegmentEvents \in Nat
    /\ 2 * BatchFrames <= SegmentEvents
ASSUME BoundsAssumption == MaxAttempts \in Nat \ {0} /\ MaxFaults \in Nat
ASSUME EventsAssumption ==
    IsFiniteSet(Events) /\ EvalEvents \subseteq Events /\ Nothing \notin Events

VARIABLES
    attempt,    \* the attempt that runs
    stage,      \* where its supervisor stands
    mode,       \* "active", "drain" and the "last" drain
    rows,       \* metric_frames: the event of each row number, Nothing if it has no row
    published,  \* the last row whose status is "published"; no earlier one is pending
    sealed,     \* metric_segments: the last row of the last one
    batch,      \* rows of a segment or of a publication that is under way
    copying,    \* the segment archive_metric_journals has copied, or Nothing
    results,    \* verified results in the bucket
    journal,    \* the segments in the bucket
    sdk,        \* what the W&B client has logged and not yet sent
    history,    \* what W&B has: steps and events, in the order of the steps
    secured,    \* history: the events that were sealed
    ahead,      \* history: the last step of W&B, if the rebuilt ledger did not agree with it
    lost,       \* history: events marked as published whose client died before it sent them
    faults      \* W&B calls that raised and samples that repeated so far

ledger == <<rows, published, sealed>>
wandb == <<sdk, history>>
metricVars == <<attempt, stage, mode, ledger, batch, copying, results, journal, wandb, secured,
                ahead, lost, faults>>

Go(next) == stage' = next
High(numbers) == Max(numbers \cup {0})

\* event_id is unique and AUTOINCREMENT: an insert of an event that is there changes
\* nothing, but uses up a row number.
Enqueue(events, e) == Append(events, IF Contains(events, e) THEN Nothing ELSE e)

AtWandb(e) == \E i \in DOMAIN history : history[i].event = e

\* A measurement is not made a second time: its timings differ.
Fresh == {e \in Events \ EvalEvents : ~Contains(rows, e) /\ ~AtWandb(e)}
-----------------------------------------------------------------------------
(* Recovery (_recover_durable_state)                                       *)

\* Segments are read in the order of their attempts and then of their keys: the expiring
\* prefix comes first, the numbers of the rows next.
KeyPrecedes(s, t) ==
    \/ s.attempt < t.attempt
    \/ /\ s.attempt = t.attempt
       /\ \/ s.expiring /\ ~t.expiring
          \/ s.expiring = t.expiring /\ s.first < t.first

\* The elements of a set as a relation orders them.
InOrder(S, R) ==
    [n \in 1..Cardinality(S) |->
        CHOOSE x \in S : Cardinality({y \in S : <<y, x>> \in R}) = n - 1]

\* The entries of the journal: a segment and a position in it.
Entries == UNION {{s} \X DOMAIN s.events : s \in journal}
EventOf(entry) == entry[1].events[entry[2]]
EntryPrecedes(p, q) ==
    KeyPrecedes(p[1], q[1]) \/ (p[1] = q[1] /\ p[2] < q[2])
Journaled ==
    LET order == InOrder(Entries, {r \in Entries \X Entries : EntryPrecedes(r[1], r[2])})
    IN  [n \in DOMAIN order |-> EventOf(order[n])]

\* Inserted one after the other: a row that is not there stays away.
Inserted(events) ==
    [i \in DOMAIN events |->
        IF \E j \in 1..(i - 1) : events[j] = events[i] THEN Nothing ELSE events[i]]

\* The journal is inserted into the ledger that was found, and then the metrics of every
\* verified result.
Recovered == Inserted(rows \o Journaled \o SetToSeq(results))

LastStep(log) == IF log = <<>> THEN 0 ELSE log[Len(log)].step

\* The rebuilt ledger reaches the last step of W&B and has no event up to there that W&B
\* has not.
Agrees ==
    /\ LastStep(history) <= Len(Recovered)
    /\ \A row \in 1..LastStep(history) : Recovered[row] = Nothing \/ AtWandb(Recovered[row])

\* In a ledger that is new the rows are pending again and no segment is recorded.
Recover ==
    /\ stage = "start"
    /\ rows' = Recovered
    /\ ahead' = IF rows = <<>> /\ ~Agrees THEN LastStep(history) ELSE ahead
    /\ Go("seal")
    /\ UNCHANGED <<attempt, mode, published, sealed, batch, copying, results, journal,
                   wandb, secured, lost, faults>>
-----------------------------------------------------------------------------
(* An iteration: seal, look at evaluations, publish                        *)

\* The learner appends whenever it likes.
Learn(e) ==
    /\ mode = "active" /\ stage # "start"
    /\ e \in Fresh
    /\ rows' = Enqueue(rows, e)
    /\ UNCHANGED <<attempt, stage, mode, published, sealed, batch, copying, results,
                   journal, wandb, secured, ahead, lost, faults>>

\* Two samples of a run that stands still are one event.
Repeat(e) ==
    /\ mode = "active" /\ stage # "start" /\ faults < MaxFaults
    /\ e \in Events \ EvalEvents /\ Contains(rows, e)
    /\ faults' = faults + 1
    /\ rows' = Enqueue(rows, e)
    /\ UNCHANGED <<attempt, stage, mode, published, sealed, batch, copying, results,
                   journal, wandb, secured, ahead, lost>>

\* The numbers of the rows after a mark, and the first of them.
After(events, mark) == {i \in DOMAIN events : i > mark /\ events[i] # Nothing}
FirstAfter(events, mark, limit) ==
    {i \in After(events, mark) :
        Cardinality({j \in After(events, mark) : j <= i}) <= limit}
Unsealed == FirstAfter(rows, sealed, SegmentEvents)

Segment ==
    LET numbers == InOrder(Unsealed, {p \in Unsealed \X Unsealed : p[1] < p[2]})
    IN  [attempt |-> attempt, first |-> numbers[1],
         events |-> [k \in DOMAIN numbers |-> rows[numbers[k]]],
         expiring |-> FALSE]

SealMetrics ==
    /\ stage = "seal" /\ Unsealed # {}
    /\ journal' = journal \cup {Segment}
    /\ secured' = secured \cup {rows[i] : i \in Unsealed}
    /\ batch' = Unsealed
    /\ Go("record")
    /\ UNCHANGED <<attempt, mode, ledger, copying, results, wandb, ahead, lost, faults>>

\* A segment that is not full waits five seconds, except in a drain.
SealNothing ==
    /\ stage = "seal"
    /\ Unsealed = {} \/ (mode = "active" /\ Cardinality(Unsealed) < SegmentEvents)
    /\ Go("poll")
    /\ UNCHANGED <<attempt, mode, ledger, batch, copying, results, journal, wandb,
                   secured, ahead, lost, faults>>

\* (The mutant is off by one.)
BuggyHighWater == High(batch) + 1
HighWater == High(batch)
RecordSegment ==
    /\ stage = "record"
    /\ sealed' = HighWater
    /\ batch' = {}
    /\ Go("poll")
    /\ UNCHANGED <<attempt, mode, rows, published, copying, results, journal, wandb,
                   secured, ahead, lost, faults>>

\* The result of an evaluation is verified and its metrics recorded, until the evaluations
\* are settled.
PollEvals ==
    /\ stage = "poll"
    /\ \/ UNCHANGED <<rows, results>>
       \/ /\ mode # "last"
          /\ \E e \in EvalEvents \ results :
                rows' = Enqueue(rows, e) /\ results' = results \cup {e}
    /\ batch' = FirstAfter(rows', published, BatchFrames)
    /\ Go("publish")
    /\ UNCHANGED <<attempt, mode, published, sealed, copying, journal, wandb, secured,
                   ahead, lost, faults>>

\* The client takes a step that is past those the run has, and drops others.
SdkHigh == IF sdk = <<>> THEN LastStep(history) ELSE LastStep(sdk)
Log(row) ==
    sdk' = IF row > SdkHigh THEN Append(sdk, [step |-> row, event |-> rows[row]]) ELSE sdk

PublishFrame ==
    /\ stage = "publish"
    /\ \E row \in batch :
          /\ \A other \in batch : row <= other
          /\ Log(row)
          /\ published' = row
          /\ batch' = batch \ {row}
    /\ UNCHANGED <<attempt, stage, mode, rows, sealed, copying, results, journal, history,
                   secured, ahead, lost, faults>>

\* The call raised: the row will be tried again, and the rest of the batch after it.
PublishFails ==
    /\ stage = "publish" /\ batch # {} /\ faults < MaxFaults
    /\ faults' = faults + 1
    /\ batch' = {}
    /\ UNCHANGED <<attempt, stage, mode, ledger, copying, results, journal, wandb, secured,
                   ahead, lost>>

\* The row was logged, and the process fails before it marks it: the row is "publishing"
\* until the next attempt resets it.
Interrupted ==
    /\ stage = "publish"
    /\ \E row \in batch : (\A other \in batch : row <= other) /\ Log(row)
    /\ batch' = {}
    /\ Go("interrupted")
    /\ UNCHANGED <<attempt, mode, ledger, copying, results, journal, history, secured,
                   ahead, lost, faults>>

Published == stage = "publish" /\ batch = {}

\* The learner has exited, or supervision goes on.
Supervise ==
    /\ Published /\ mode = "active"
    /\ mode' \in {"active", "drain"}
    /\ Go("seal")
    /\ UNCHANGED <<attempt, ledger, batch, copying, results, journal, wandb, secured,
                   ahead, lost, faults>>

Pending == After(rows, published) # {}

DrainOn ==
    /\ Published /\ mode # "active"
    /\ Pending \/ mode = "drain"
    /\ Go("seal")
    /\ UNCHANGED <<attempt, mode, ledger, batch, copying, results, journal, wandb,
                   secured, ahead, lost, faults>>

\* Nothing is pending and the evaluations are settled: one more event, the idle time of the
\* learner's machine, and one more drain.  (The mutant finishes at once.)
BuggyDrained ==
    /\ Published /\ mode = "drain" /\ ~Pending
    /\ \E e \in Fresh : rows' = Enqueue(rows, e)
    /\ mode' = "last" /\ Go("finish")
    /\ UNCHANGED <<attempt, published, sealed, batch, copying, results, journal, wandb,
                   secured, ahead, lost, faults>>
Drained ==
    /\ Published /\ mode = "drain" /\ ~Pending
    /\ \E e \in Fresh : rows' = Enqueue(rows, e)
    /\ mode' = "last" /\ Go("seal")
    /\ UNCHANGED <<attempt, published, sealed, batch, copying, results, journal, wandb,
                   secured, ahead, lost, faults>>

DrainedAgain ==
    /\ Published /\ mode = "last" /\ ~Pending
    /\ Go("finish")
    /\ UNCHANGED <<attempt, mode, ledger, batch, copying, results, journal, wandb,
                   secured, ahead, lost, faults>>
-----------------------------------------------------------------------------
(* The end of an attempt                                                   *)

\* Closing the W&B run sends what is left; then the remote high-water mark is awaited.
FinishWandb ==
    /\ stage = "finish" /\ sdk = <<>>
    /\ LastStep(history) >= published
    /\ Go("archive")
    /\ UNCHANGED <<attempt, mode, ledger, batch, copying, results, journal, wandb,
                   secured, ahead, lost, faults>>

Active == {s \in journal : ~s.expiring}
Moved(s) == [s EXCEPT !.expiring = TRUE]

\* archive_metric_journals, segment by segment.
Oldest(s) == \A t \in Active : s = t \/ KeyPrecedes(s, t)

\* (The mutant deletes what it has not copied.)
BuggyCopySegment(s) ==
    /\ stage = "archive" /\ copying = Nothing
    /\ s \in Active /\ Oldest(s)
    /\ copying' = s
    /\ UNCHANGED <<attempt, stage, mode, ledger, batch, results, journal, wandb, secured,
                   ahead, lost, faults>>
CopySegment(s) ==
    /\ stage = "archive" /\ copying = Nothing
    /\ s \in Active /\ Oldest(s)
    /\ journal' = journal \cup {Moved(s)}
    /\ copying' = s
    /\ UNCHANGED <<attempt, stage, mode, ledger, batch, results, wandb, secured, ahead, lost,
                   faults>>

DeleteSegment ==
    /\ stage = "archive" /\ copying # Nothing
    /\ journal' = journal \ {copying}
    /\ copying' = Nothing
    /\ UNCHANGED <<attempt, stage, mode, ledger, batch, results, wandb, secured, ahead, lost,
                   faults>>

\* The receipt is refused unless the marks of the journal and of W&B are equal.
CreateTerminal ==
    /\ stage = "archive" /\ copying = Nothing /\ Active = {}
    /\ sealed = published
    /\ Go("done")
    /\ UNCHANGED <<attempt, mode, ledger, batch, copying, results, journal, wandb,
                   secured, ahead, lost, faults>>

\* What the W&B client still holds of the rows that are marked as published.
Buffered == {rows[row] : row \in {row \in DOMAIN rows :
              row <= published /\ \E k \in DOMAIN sdk : sdk[k].step = row}}

\* (The mutant takes the row that was being published for published.)
BuggyMarks == UNCHANGED sealed /\ published' = Max({published} \cup batch)
Marks == UNCHANGED <<published, sealed>>

\* The task is lost, or the attempt fails.  Another one starts on another machine, or
\* where it finds the ledger; what the client had buffered is lost either way.
Die ==
    /\ stage # "done" /\ attempt < MaxAttempts
    /\ attempt' = attempt + 1
    /\ stage' = "start" /\ mode' = "active"
    /\ batch' = {} /\ copying' = Nothing
    /\ sdk' = <<>>
    /\ \/ /\ rows' = <<>> /\ published' = 0 /\ sealed' = 0
          /\ ahead' = 0 /\ lost' = {}
       \/ /\ Marks
          /\ lost' = lost \cup Buffered
          /\ UNCHANGED <<rows, ahead>>
    /\ UNCHANGED <<results, journal, history, secured, faults>>

\* The client sends in the order of the steps.
Upload ==
    /\ sdk # <<>>
    /\ history' = Append(history, Head(sdk))
    /\ sdk' = Tail(sdk)
    /\ UNCHANGED <<attempt, stage, mode, ledger, batch, copying, results, journal, secured,
                   ahead, lost, faults>>

MetricInit ==
    /\ attempt = 1 /\ stage = "start" /\ mode = "active"
    /\ rows = <<>> /\ published = 0 /\ sealed = 0
    /\ batch = {} /\ copying = Nothing
    /\ results = {} /\ journal = {}
    /\ sdk = <<>> /\ history = <<>>
    /\ secured = {} /\ ahead = 0 /\ lost = {} /\ faults = 0

MetricNext ==
    \/ Recover \/ SealMetrics \/ SealNothing \/ RecordSegment \/ PollEvals
    \/ PublishFrame \/ PublishFails \/ Interrupted
    \/ Supervise \/ DrainOn \/ Drained \/ DrainedAgain
    \/ FinishWandb \/ DeleteSegment \/ CreateTerminal \/ Die \/ Upload
    \/ \E e \in Events : Learn(e) \/ Repeat(e)
    \/ \E s \in Active : CopySegment(s)

MetricSpec == MetricInit /\ [][MetricNext]_metricVars
-----------------------------------------------------------------------------
(* Properties                                                              *)

Stages == {"start", "seal", "record", "poll", "publish", "interrupted", "finish",
           "archive", "done"}
Segments ==
    [attempt : 1..MaxAttempts, first : Nat \ {0}, events : Seq(Events), expiring : BOOLEAN]
Points == [step : Nat, event : Events]

MetricTypeOK ==
    /\ attempt \in 1..MaxAttempts
    /\ stage \in Stages /\ mode \in {"active", "drain", "last"}
    /\ rows \in Seq(Events \cup {Nothing})
    /\ published \in 0..Len(rows) /\ sealed \in 0..Len(rows)
    /\ batch \subseteq DOMAIN rows
    /\ journal \subseteq Segments /\ copying \in Segments \cup {Nothing}
    /\ results \subseteq EvalEvents
    /\ sdk \in Seq(Points) /\ history \in Seq(Points)
    /\ secured \subseteq Events /\ ahead \in Nat
    /\ lost \subseteq Events /\ faults \in 0..MaxFaults

RowOf(e) == CHOOSE i \in DOMAIN rows : rows[i] = e

\* Nothing that was sealed is lost, whichever attempt sealed it and whoever died where in
\* the middle of an archive: it is in the rebuilt ledger, and the events of a segment have
\* kept their order.
JournalIsKept ==
    stage # "start" =>
        /\ \A e \in secured : Contains(rows, e)
        /\ \A s \in journal : \A i \in 2..Len(s.events) :
              RowOf(s.events[i - 1]) < RowOf(s.events[i])

\* An attempt that archives its journal has sealed every row there is and published every
\* row: the second drain makes the two marks meet.  W&B then has every event, with two
\* exceptions.  Where a ledger was rebuilt with other row numbers than W&B had for steps,
\* W&B may have dropped rows up to the last of those steps; and where a ledger outlived
\* its process, what was marked as published and not yet sent is not published again.
CompleteIsDelivered ==
    stage \in {"archive", "done"} =>
        /\ sealed = High(After(rows, 0)) /\ published = sealed
        /\ \A row \in After(rows, 0) :
              AtWandb(rows[row]) \/ row <= ahead \/ rows[row] \in lost

=============================================================================
