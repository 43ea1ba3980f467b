------------------------- MODULE PlaybackHost_proofs -------------------------
(***************************************************************************)
(* Proofs about PlaybackHost, for any number of sources, commands and any  *)
(* limit of the queue.                                                     *)
(***************************************************************************)
EXTENDS PlaybackHost, TLAPS

USE HostAssumption

(* Where the loader is, a report on its way counted as the place it returns to.   *)
At(pc) == loader.pc = pc \/ (loader.pc = "report" /\ loader.back = pc)

LoaderPlaced ==
  /\ loader.pc = "idle" => loader.load = None
  /\ loader.pc # "idle" => loader.load = loads /\ loads # 0
  /\ loader.pc # "replace" => loader.previous = None
  /\ loader.pc = "report" =>
       \/ loader.back \in {"prepare", "activate"} /\ loader.next = "loading"
       \/ loader.back = "idle" /\ loader.next \in {"selecting", "error", "active"}

CallsPlaced == calls.pc # "close" => calls.closing = None

(* The session of a load that is not built yet, or never was.                 *)
Unbuilt(l) == runner[l].env = "none" /\ l \notin unstarted
FreshOK ==
  /\ At("prepare") \/ At("activate") => Unbuilt(loader.load)
  /\ \A l \in Loads : l > loads => Unbuilt(l)

(* The three parts of SessionsAreOwned, with what they need to be inductive.  *)
OpenIsHeld ==
  \A l \in Loads \ unstarted :
    runner[l].env = "open" <=>
      \/ l \in {active, calls.closing, loader.previous}
      \/ loader.pc = "built" /\ loader.load = l
HeldOnce ==
  /\ active # None =>
       /\ active \notin {calls.closing, loader.previous}
       /\ loader.pc = "built" => loader.load # active
  /\ calls.closing # None =>
       /\ calls.closing # loader.previous
       /\ loader.pc = "built" => loader.load # calls.closing
StagedOK ==
  /\ staged \subseteq {loader.load}
  /\ candidate # None => candidate \in staged /\ ~loader.stale
  /\ At("prepare") => staged = {}
  /\ At("idle") \/ loader.pc = "replace" => candidate = None

(* The phase, while commands and loader are at work.                          *)
PhaseOK ==
  /\ phase = "active" /\ ~late /\ ~stopped => active # None
  /\ phase = "loading" /\ ~late /\ ~stopped =>
       ~loader.stale /\ loader.pc \notin {"idle", "replace"}
  /\ loader.pc = "report" /\ loader.next = "active" /\ ~loader.stale => active # None

IInv ==
  /\ HostTypeOK /\ LoaderPlaced /\ CallsPlaced /\ FreshOK
  /\ OpenIsHeld /\ HeldOnce /\ StagedOK /\ PhaseOK

-----------------------------------------------------------------------------
(* What a step does to the fields of the records                           *)

LEMMA NoLoaderIs ==
  /\ NoLoader \in LoaderStates
  /\ NoLoader.pc = "idle" /\ NoLoader.load = None /\ ~NoLoader.stale
  /\ NoLoader.next = "none" /\ NoLoader.back = "none" /\ NoLoader.previous = None
BY DEF NoLoader, LoaderStates

SameSessions ==
  /\ runner' \in [Loads -> Runners]
  /\ \A k \in Loads : runner'[k].env = runner[k].env /\ runner'[k].epoch = runner[k].epoch

LEMMA QuietSessions ==
  ASSUME HostTypeOK, UNCHANGED runner
  PROVE  SameSessions
BY DEF HostTypeOK, SameSessions

\* A step of a session's thread leaves its environment and its epoch alone.
LEMMA ThreadSteps ==
  ASSUME HostTypeOK, NEW l \in Loads, Run(l)
  PROVE  /\ SameSessions /\ reply' \in [Commands -> Replies]
         /\ UNCHANGED <<host, calls, loader, loads, staged, ghosts>>
<1> DEFINE Thread(t) == [runner[l] EXCEPT !.thread = t]
           One == [runner[l] EXCEPT !.pauses = @ - 1]
<1>1. ASSUME NEW t \in {"idle", "busy", "ended", "broken"}
      PROVE  Thread(t) \in Runners /\ Thread(t).env = runner[l].env /\ Thread(t).epoch = runner[l].epoch
  BY DEF HostTypeOK, Runners
<1>2. runner[l].pauses > 0 =>
        One \in Runners /\ One.env = runner[l].env /\ One.epoch = runner[l].epoch
  BY DEF HostTypeOK, Runners
<1>3. ASSUME NEW t \in {"idle", "busy", "ended", "broken"}, runner' = [runner EXCEPT ![l] = Thread(t)]
      PROVE  SameSessions
  <2> HIDE DEF Thread
  <2> QED
    BY <1>1, <1>3 DEF HostTypeOK, SameSessions
<1>4. CASE RunnerEnds(l)
  BY <1>3, <1>4 DEF RunnerEnds, HostTypeOK, host, data, ghosts
<1>5. CASE Works(l)
  BY <1>3, <1>5 DEF Works, HostTypeOK, host, data, ghosts
<1>6. CASE HasWorked(l)
  BY <1>3, <1>6 DEF HasWorked, HostTypeOK, host, data, ghosts
<1>8. CASE Breaks(l)
  BY <1>3, <1>8 DEF Breaks, HostTypeOK, host, data, ghosts
<1>7. CASE Applies(l)
  <2>1. CASE Queued(l) # {}
    <3>1. runner' = runner /\ reply' = [reply EXCEPT ![Min(Queued(l))].at = "answered"]
      BY <1>7, <2>1 DEF Applies
    <3>2. reply' \in [Commands -> Replies]
      BY <3>1 DEF HostTypeOK, Replies
    <3> QED
      BY <1>7, <3>1, <3>2, QuietSessions DEF Applies
  <2>2. CASE Queued(l) = {}
    <3>1. runner[l].pauses > 0 /\ runner' = [runner EXCEPT ![l] = One] /\ reply' = reply
      BY <1>7, <2>2 DEF Applies
    <3>2. SameSessions
      <4> HIDE DEF One
      <4> QED
        BY <1>2, <3>1 DEF HostTypeOK, SameSessions
    <3> QED
      BY <1>7, <3>1, <3>2 DEF Applies, HostTypeOK
  <2> QED
    BY <2>1, <2>2
<1> QED
  BY <1>4, <1>5, <1>6, <1>7, <1>8 DEF Run

LEMMA StopKeeps ==
  ASSUME HostTypeOK, NEW l \in Loads, runner' = [runner EXCEPT ![l] = AskedToStop(@)]
  PROVE  SameSessions
<1>1. AskedToStop(runner[l]) \in Runners /\ AskedToStop(runner[l]).env = runner[l].env
      /\ AskedToStop(runner[l]).epoch = runner[l].epoch
  BY DEF HostTypeOK, Runners, AskedToStop
<1> QED
  BY <1>1 DEF HostTypeOK, SameSessions

\* One environment is set to a state, the epochs stay.
OneSet(l, state) ==
  /\ runner' \in [Loads -> Runners] /\ runner'[l].env = state
  /\ \A k \in Loads : runner'[k].epoch = runner[k].epoch
  /\ \A k \in Loads \ {l} : runner'[k].env = runner[k].env

LEMMA CloseDoes ==
  ASSUME HostTypeOK, NEW l \in Loads, runner' = [runner EXCEPT ![l] = Closed(@)]
  PROVE  OneSet(l, "closed")
<1>1. Closed(runner[l]) \in Runners /\ Closed(runner[l]).env = "closed"
      /\ Closed(runner[l]).epoch = runner[l].epoch
  BY DEF HostTypeOK, Runners, Closed
<1> QED
  BY <1>1 DEF HostTypeOK, OneSet

LEMMA BuiltDoes ==
  ASSUME HostTypeOK, NEW l \in Loads, runner' = [runner EXCEPT ![l].env = "open"]
  PROVE  OneSet(l, "open")
<1> DEFINE r == [runner[l] EXCEPT !.env = "open"]
<1>1. r \in Runners /\ r.env = "open" /\ r.epoch = runner[l].epoch
  BY DEF HostTypeOK, Runners
<1> HIDE DEF r
<1>2. runner' = [runner EXCEPT ![l] = r]
  BY DEF r
<1> QED
  BY <1>1, <1>2 DEF HostTypeOK, OneSet

Overtaken ==
  /\ loader' \in LoaderStates
  /\ loader'.pc = loader.pc /\ loader'.load = loader.load /\ loader'.previous = loader.previous
  /\ loader'.next = loader.next /\ loader'.back = loader.back
  /\ loader'.stale <=> loader.pc # "idle"

LEMMA OvertakeDoes ==
  ASSUME HostTypeOK, Overtake
  PROVE  Overtaken
BY DEF HostTypeOK, LoaderStates, Overtake, Overtaken

LEMMA OpenSourceDoes ==
  ASSUME HostTypeOK, NEW c \in Commands, OpenSource(c)
  PROVE  /\ UNCHANGED <<active, epoch, change, stopped, calls, unstarted>>
         /\ SameSessions
         /\ \/ UNCHANGED <<phase, candidate, loader, loads, staged, late>>
            \/ /\ loader.pc = "idle" /\ loads < MaxLoads /\ loads' = loads + 1
               /\ loader' \in LoaderStates /\ loader'.pc = "prepare" /\ loader'.load = loads'
               /\ (loader'.stale <=> stopped) /\ loader'.previous = None /\ loader'.back = "none"
               /\ phase' = "loading" /\ candidate' = None /\ staged' = staged \ {candidate}
               /\ late' = FALSE
<1>1. CASE loader.pc # "idle"
  BY <1>1, QuietSessions DEF OpenSource, host
<1>2. CASE loader.pc = "idle"
  <2>1. loads < MaxLoads /\ loads' \in Loads
    BY <1>2 DEF OpenSource, HostTypeOK, Loads
  <2>2. ASSUME NEW k \in Loads
        PROVE  LET r == [runner[k] EXCEPT !.pauses = @ + 1]
               IN  r \in Runners /\ r.env = runner[k].env /\ r.epoch = runner[k].epoch
    BY DEF HostTypeOK, Runners
  <2>3. ASSUME NEW k \in Loads
        PROVE  /\ runner'[k] \in Runners
               /\ runner'[k].env = runner[k].env /\ runner'[k].epoch = runner[k].epoch
    <3>1. \/ runner'[k] = [runner[k] EXCEPT !.pauses = @ + 1]
          \/ runner'[k] = runner[k]
      BY <1>2 DEF OpenSource
    <3>2. CASE runner'[k] = [runner[k] EXCEPT !.pauses = @ + 1]
      BY <2>2, <3>2
    <3> QED
      BY <3>1, <3>2 DEF HostTypeOK
  <2>4. SameSessions
    <3>1. runner' = [k \in Loads |-> runner'[k]]
      BY <1>2 DEF OpenSource
    <3> QED
      BY <2>3, <3>1 DEF SameSessions
  <2>5. /\ loader' = [NoLoader EXCEPT !.pc = "prepare", !.load = loads + 1, !.stale = stopped]
        /\ loads' = loads + 1
        /\ phase' = "loading" /\ candidate' = None /\ staged' = staged \ {candidate}
        /\ late' = FALSE
        /\ UNCHANGED <<active, epoch, change, stopped, calls, unstarted>>
    BY <1>2 DEF OpenSource
  <2>6. /\ loader' \in LoaderStates /\ loader'.pc = "prepare" /\ loader'.load = loads + 1
        /\ (loader'.stale <=> stopped) /\ loader'.previous = None /\ loader'.back = "none"
    BY <2>1, <2>5 DEF NoLoader, LoaderStates, HostTypeOK
  <2> QED
    BY <1>2, <2>1, <2>4, <2>5, <2>6
<1> QED
  BY <1>1, <1>2

\* browse_sources, and what cancel_source does to the loader.
\* The first half of closing a session.
LEMMA StopStepDoes ==
  ASSUME HostTypeOK, StopsSession \/ StopsPrevious
  PROVE  /\ SameSessions /\ reply' \in [Commands -> Replies]
         /\ UNCHANGED <<host, calls, loader, loads, staged, ghosts>>
<1>1. ASSUME NEW l \in Loads \cup {None}, runner' = [runner EXCEPT ![l] = AskedToStop(@)]
      PROVE  SameSessions
  <2>1. CASE l \in Loads
    BY <1>1, <2>1, StopKeeps
  <2>2. CASE l \notin Loads
    BY <1>1, <2>2, QuietSessions DEF HostTypeOK
  <2> QED
    BY <2>1, <2>2
<1>2. calls.closing \in Loads \cup {None} /\ loader.previous \in Loads \cup {None}
  BY DEF HostTypeOK, CallStates, LoaderStates
<1>3. CASE StopsSession
  BY <1>1, <1>2, <1>3 DEF StopsSession, data, HostTypeOK
<1>4. CASE StopsPrevious
  BY <1>1, <1>2, <1>4 DEF StopsPrevious, data, HostTypeOK
<1> QED
  BY <1>3, <1>4

LEMMA BrowseDoes ==
  ASSUME HostTypeOK, NEW c \in Commands, Browse(c)
  PROVE  /\ Overtaken /\ SameSessions /\ calls.pc = "serve" /\ calls' \in CallStates
         /\ active' = None /\ candidate' = None /\ staged' = staged \ {candidate}
         /\ phase' = "selecting" /\ late' = FALSE /\ change' \in Nat
         /\ UNCHANGED <<epoch, stopped, loads, unstarted>>
         /\ \/ active = None /\ calls' = calls
            \/ active # None /\ calls'.pc = "close" /\ calls'.closing = active
<1>1. Overtaken
  BY OvertakeDoes DEF Browse
<1>2. CASE active = None
  BY <1>1, <1>2, QuietSessions DEF Browse, IsServing, HostTypeOK
<1>3. CASE active # None
  <2>1. active \in Loads
    BY <1>3 DEF HostTypeOK
  <2>2. SameSessions
    BY QuietSessions DEF Browse
  <2>3. calls' \in CallStates /\ calls'.pc = "close" /\ calls'.closing = active
    BY <1>3, <2>1 DEF Browse, HostTypeOK, CallStates
  <2> QED
    BY <1>1, <1>3, <2>2, <2>3 DEF Browse, IsServing, HostTypeOK
<1> QED
  BY <1>2, <1>3

TakesDown ==
  /\ SameSessions /\ calls.pc = "serve" /\ calls' \in CallStates
  /\ UNCHANGED <<phase, epoch, change, loads, ghosts>>
  /\ \/ /\ UNCHANGED <<active, candidate, stopped, loader, staged>>
        /\ calls'.pc # "close" /\ calls'.closing = calls.closing
     \/ /\ Overtaken
        /\ stopped' = TRUE /\ active' = None /\ candidate' = None /\ staged' = staged \ {candidate}
        /\ \/ active = None /\ calls'.pc = "join" /\ calls'.closing = None
           \/ active # None /\ calls'.pc = "close" /\ calls'.closing = active

LEMMA TakeDownDoes ==
  ASSUME HostTypeOK, IsServing, NEW exits \in BOOLEAN, NEW told \in BOOLEAN,
         TakeDown(exits, told), UNCHANGED <<runner, loads, ghosts>>
  PROVE  TakesDown
<1> DEFINE stopping == [calls EXCEPT !.stops = TRUE, !.exits = exits, !.told = told]
<1>1. ASSUME NEW p \in {"serve", "close", "join", "ended"}
      PROVE  LET s == [stopping EXCEPT !.pc = p]
             IN  s \in CallStates /\ s.pc = p /\ s.closing = calls.closing
  BY DEF HostTypeOK, CallStates
<1>2. CASE stopped
  <2>1. PICK p \in {"serve", "ended"} : calls' = [stopping EXCEPT !.pc = p]
    <3>1. CASE exits
      BY <1>2, <3>1 DEF TakeDown
    <3>2. CASE ~exits
      BY <1>2, <3>2 DEF TakeDown
    <3> QED
      BY <3>1, <3>2
  <2>2. calls' \in CallStates /\ calls'.pc = p /\ calls'.closing = calls.closing
    BY <1>1, <2>1
  <2>3. UNCHANGED <<host, loader, staged>>
    BY <1>2 DEF TakeDown
  <2> QED
    BY <2>2, <2>3, QuietSessions DEF TakesDown, IsServing, host
<1>3. CASE ~stopped /\ active = None
  <2>1. calls' = [stopping EXCEPT !.pc = "join", !.closing = None]
    BY <1>3 DEF TakeDown
  <2>2. calls' \in CallStates /\ calls'.pc = "join" /\ calls'.closing = None
    BY <2>1 DEF HostTypeOK, CallStates
  <2>3. Overtaken
    BY <1>3, OvertakeDoes DEF TakeDown
  <2>4. /\ stopped' = TRUE /\ active' = None /\ candidate' = None /\ staged' = staged \ {candidate}
        /\ UNCHANGED <<phase, epoch, change>>
    BY <1>3 DEF TakeDown
  <2> QED
    BY <1>3, <2>1, <2>2, <2>3, <2>4, QuietSessions DEF TakesDown, IsServing
<1>4. CASE ~stopped /\ active # None
  <2>1. active \in Loads
    BY <1>4 DEF HostTypeOK
  <2>2. calls' = [stopping EXCEPT !.pc = "close", !.closing = active]
    BY <1>4 DEF TakeDown
  <2>3. calls' \in CallStates /\ calls'.pc = "close" /\ calls'.closing = active
    BY <2>1, <2>2 DEF HostTypeOK, CallStates
  <2>4. Overtaken
    BY <1>4, OvertakeDoes DEF TakeDown
  <2>5. /\ stopped' = TRUE /\ active' = None /\ candidate' = None /\ staged' = staged \ {candidate}
        /\ UNCHANGED <<phase, epoch, change>>
    BY <1>4 DEF TakeDown
  <2>6. SameSessions
    BY QuietSessions
  <2> QED
    BY <1>4, <2>3, <2>4, <2>5, <2>6 DEF TakesDown, IsServing
<1> QED
  BY <1>2, <1>3, <1>4

LEMMA StopDoes ==
  ASSUME HostTypeOK, \/ CloseWorker
                     \/ \E c \in Commands : Stop(c) \/ Submit(c)
  PROVE  TakesDown
<1>1. CASE CloseWorker
  BY <1>1, TakeDownDoes DEF CloseWorker
<1>2. ASSUME NEW c \in Commands, Stop(c) PROVE TakesDown
  BY <1>2, TakeDownDoes DEF Stop
<1>3. ASSUME NEW c \in Commands, Submit(c) PROVE TakesDown
  <2>1. CASE UNCHANGED <<host, calls, loader, staged>>
    BY <1>3, <2>1, QuietSessions DEF Submit, TakesDown, IsServing, HostTypeOK, host
  <2>2. CASE TakeDown(TRUE, FALSE)
    BY <1>3, <2>2, TakeDownDoes DEF Submit
  <2> QED
    BY <1>3, <2>1, <2>2 DEF Submit
<1> QED
  BY <1>1, <1>2, <1>3

LoaderGoes(p) ==
  /\ loader' \in LoaderStates /\ loader'.pc = p
  /\ loader'.load = loader.load /\ loader'.stale = loader.stale
  /\ loader'.previous = loader.previous

LEMMA Loaded ==
  ASSUME HostTypeOK, LoaderPlaced, loader.pc # "idle"
  PROVE  loader.load \in Loads /\ loader.load = loads
BY DEF HostTypeOK, LoaderPlaced, Loads

LEMMA ProgressDoes ==
  ASSUME HostTypeOK, Progress
  PROVE  /\ loader.pc \in {"prepare", "activate"} /\ ~loader.stale
         /\ LoaderGoes("report") /\ loader'.next = "loading" /\ loader'.back = loader.pc
         /\ SameSessions /\ UNCHANGED <<host, calls, data, ghosts>>
<1>1. loader.pc \in {"prepare", "activate"} /\ ~loader.stale
  BY DEF Progress, LoaderAt
<1>2. LoaderGoes("report") /\ loader'.next = "loading" /\ loader'.back = loader.pc
  BY <1>1 DEF Progress, HostTypeOK, LoaderGoes, LoaderStates, Phases
<1> QED
  BY <1>1, <1>2, QuietSessions DEF Progress

LEMMA ReportDoes ==
  ASSUME HostTypeOK, LoaderPlaced, Report
  PROVE  /\ loader.pc = "report" /\ phase' = loader.next /\ phase' \in Phases
         /\ late' = (late \/ loader.stale) /\ late' \in BOOLEAN
         /\ SameSessions
         /\ UNCHANGED <<active, candidate, epoch, change, stopped, calls, loads, reply, unstarted>>
         /\ \/ /\ loader.back = "idle" /\ loader' = NoLoader
               /\ staged' = staged \ {loader.load}
            \/ /\ loader.back \in {"prepare", "activate"} /\ LoaderGoes(loader.back)
               /\ loader'.next = "none" /\ loader'.back = "none" /\ UNCHANGED staged
<1>1. loader.pc = "report" /\ phase' \in Phases
  BY DEF Report, LoaderPlaced, LoaderAt, Phases
<1>0. late' = (late \/ loader.stale) /\ late' \in BOOLEAN
  BY DEF Report
<1>2. CASE loader.back = "idle"
  BY <1>0, <1>1, <1>2, QuietSessions DEF Report, LoaderEnds
<1>3. CASE loader.back # "idle"
  <2>1. LoaderGoes(loader.back) /\ loader'.next = "none" /\ loader'.back = "none"
    BY <1>1, <1>3 DEF Report, HostTypeOK, LoaderPlaced, LoaderGoes, LoaderStates
  <2> QED
    BY <1>0, <1>1, <1>3, <2>1, QuietSessions DEF Report, LoaderPlaced
<1> QED
  BY <1>2, <1>3

LEMMA PreparedDoes ==
  ASSUME HostTypeOK, LoaderPlaced, Prepared
  PROVE  /\ loader.pc = "prepare" /\ SameSessions
         /\ UNCHANGED <<phase, active, epoch, change, stopped, calls, loads, reply, ghosts>>
         /\ \/ loader.stale /\ loader' = NoLoader /\ UNCHANGED <<candidate, staged>>
            \/ /\ ~loader.stale /\ loader.load \in Loads /\ candidate' = loader.load
               /\ staged' = staged \cup {loader.load}
               /\ LoaderGoes("activate") /\ loader'.back = loader.back
<1>1. CASE loader.stale
  BY <1>1, QuietSessions DEF Prepared, LoaderAt, LoaderEnds
<1>2. CASE ~loader.stale
  <2>1. loader.load \in Loads /\ LoaderGoes("activate") /\ loader'.back = loader.back
    BY <1>2, Loaded DEF Prepared, HostTypeOK, LoaderAt, LoaderGoes, LoaderStates
  <2> QED
    BY <1>2, <2>1, QuietSessions DEF Prepared, LoaderAt
<1> QED
  BY <1>1, <1>2

LEMMA PrepareFailsDoes ==
  ASSUME HostTypeOK, PrepareFails
  PROVE  /\ loader.pc = "prepare" /\ SameSessions /\ UNCHANGED <<host, calls, data, ghosts>>
         /\ \/ loader.stale /\ loader' = NoLoader
            \/ /\ ~loader.stale /\ LoaderGoes("report")
               /\ loader'.next \in {"selecting", "error"} /\ loader'.back = "idle"
<1>1. CASE loader.stale
  BY <1>1, QuietSessions DEF PrepareFails, LoaderAt, LoaderEnds
<1>2. CASE ~loader.stale
  <2>1. PICK p \in {"selecting", "error"} :
          loader' = [loader EXCEPT !.pc = "report", !.next = p, !.back = "idle"]
    BY <1>2 DEF PrepareFails
  <2>2. LoaderGoes("report") /\ loader'.next = p /\ loader'.back = "idle"
    BY <2>1 DEF HostTypeOK, LoaderGoes, LoaderStates, Phases
  <2> QED
    BY <1>2, <2>2, QuietSessions DEF PrepareFails, LoaderAt
<1> QED
  BY <1>1, <1>2

LEMMA BuiltSteps ==
  ASSUME HostTypeOK, LoaderPlaced, Built
  PROVE  /\ loader.pc = "activate" /\ loader.load \in Loads /\ OneSet(loader.load, "open")
         /\ LoaderGoes("built") /\ loader'.next = loader.next /\ loader'.back = loader.back
         /\ UNCHANGED <<host, calls, data, ghosts>>
<1>1. loader.pc = "activate" /\ loader.load \in Loads
  BY Loaded DEF Built, LoaderAt
<1>2. OneSet(loader.load, "open")
  BY <1>1, BuiltDoes DEF Built
<1>3. LoaderGoes("built") /\ loader'.next = loader.next /\ loader'.back = loader.back
  BY DEF Built, HostTypeOK, LoaderGoes, LoaderStates
<1> QED
  BY <1>1, <1>2, <1>3 DEF Built

LEMMA BuildFailsDoes ==
  ASSUME HostTypeOK, BuildFails
  PROVE  /\ loader.pc = "activate" /\ LoaderGoes("raised")
         /\ SameSessions /\ UNCHANGED <<host, calls, data, ghosts>>
BY QuietSessions DEF BuildFails, HostTypeOK, LoaderAt, LoaderGoes, LoaderStates

LEMMA DiscardDoes ==
  ASSUME HostTypeOK, LoaderPlaced, Discard
  PROVE  /\ loader.pc = "built" /\ loader.stale /\ loader.load \in Loads
         /\ OneSet(loader.load, "closed") /\ loader' = NoLoader
         /\ staged' = staged \ {loader.load}
         /\ UNCHANGED <<host, calls, loads, reply, ghosts>>
<1>1. loader.pc = "built" /\ loader.load \in Loads
  BY Loaded DEF Discard, LoaderAt
<1> QED
  BY <1>1, CloseDoes DEF Discard, LoaderEnds

LEMMA InstallDoes ==
  ASSUME HostTypeOK, LoaderPlaced, HeldOnce, Install
  PROVE  /\ loader.pc = "built" /\ ~loader.stale /\ loader.load \in Loads
         /\ runner' \in [Loads -> Runners]
         /\ \A k \in Loads : runner'[k].env = runner[k].env
         /\ epoch' = epoch + 1 /\ runner'[loader.load].epoch = epoch'
         /\ active' = loader.load /\ candidate' = None /\ phase' = "active"
         /\ change' = change + 1 /\ late' = FALSE
         /\ loader' \in LoaderStates /\ loader'.pc = "replace" /\ loader'.load = loader.load
         /\ loader'.previous = active /\ loader'.stale = loader.stale
         /\ UNCHANGED <<stopped, calls, data, unstarted>>
<1>1. loader.pc = "built" /\ loader.load \in Loads /\ ~loader.stale
  BY Loaded DEF Install, LoaderAt
<1>2. ASSUME NEW r \in Runners
      PROVE  /\ Started(r, epoch + 1) \in Runners /\ Started(r, epoch + 1).env = r.env
             /\ Started(r, epoch + 1).epoch = epoch + 1
  <2>1. epoch + 1 \in Nat
    BY DEF HostTypeOK
  <2> QED
    BY <2>1 DEF Runners, Started
<1>3. runner' = [runner EXCEPT ![loader.load] = Started(@, epoch + 1)]
  BY DEF Install
<1>7. ASSUME NEW k \in Loads
      PROVE  /\ runner'[k] \in Runners /\ runner'[k].env = runner[k].env
             /\ k = loader.load => runner'[k].epoch = epoch + 1
  <2>1. runner[k] \in Runners
    BY DEF HostTypeOK
  <2>2. CASE k = loader.load
    <3>1. runner'[k] = Started(runner[k], epoch + 1)
      BY <1>3, <2>2 DEF HostTypeOK
    <3> QED
      BY <1>2, <2>1, <3>1
  <2>3. CASE k # loader.load
    <3>1. runner'[k] = runner[k]
      BY <1>3, <2>3 DEF HostTypeOK
    <3> QED
      BY <2>1, <2>3, <3>1
  <2> QED
    BY <2>2, <2>3
<1>4. /\ loader' \in LoaderStates /\ loader'.pc = "replace" /\ loader'.load = loader.load
      /\ loader'.previous = active /\ loader'.stale = loader.stale
  BY DEF Install, HostTypeOK, LoaderStates
<1>5. /\ active' = loader.load /\ candidate' = None /\ phase' = "active" /\ epoch' = epoch + 1
      /\ change' = change + 1 /\ late' = FALSE
      /\ UNCHANGED <<stopped, calls, data, unstarted>>
  BY DEF Install
<1>6. runner' \in [Loads -> Runners]
  <2>1. runner' = [k \in Loads |-> runner'[k]]
    BY <1>3 DEF HostTypeOK
  <2> QED
    BY <1>7, <2>1
<1> QED
  BY <1>1, <1>4, <1>5, <1>6, <1>7

LEMMA StartFailsDoes ==
  ASSUME HostTypeOK, LoaderPlaced, StartFails
  PROVE  /\ loader.pc = "built" /\ loader.load \in Loads
         /\ runner' \in [Loads -> Runners] /\ epoch' = epoch + 1
         /\ \A k \in Loads : runner'[k].env = runner[k].env
         /\ \A k \in Loads \ {loader.load} : runner'[k].epoch = runner[k].epoch
         /\ unstarted' = unstarted \cup {loader.load} /\ LoaderGoes("raised")
         /\ UNCHANGED <<phase, active, candidate, change, stopped, calls, data, late>>
<1> DEFINE r == [runner[loader.load] EXCEPT !.epoch = epoch + 1]
<1>1. loader.pc = "built" /\ loader.load \in Loads
  BY Loaded DEF StartFails, LoaderAt
<1>2. r \in Runners /\ r.env = runner[loader.load].env
  BY <1>1 DEF HostTypeOK, Runners
<1>3. LoaderGoes("raised")
  BY DEF StartFails, HostTypeOK, LoaderGoes, LoaderStates
<1>4. /\ runner' = [runner EXCEPT ![loader.load] = r] /\ epoch' = epoch + 1
      /\ unstarted' = unstarted \cup {loader.load}
      /\ UNCHANGED <<phase, active, candidate, change, stopped, calls, data, late>>
  BY DEF StartFails
<1> HIDE DEF r
<1>5. /\ runner' \in [Loads -> Runners]
      /\ \A k \in Loads : runner'[k].env = runner[k].env
      /\ \A k \in Loads \ {loader.load} : runner'[k].epoch = runner[k].epoch
  BY <1>1, <1>2, <1>4 DEF HostTypeOK
<1> QED
  BY <1>1, <1>3, <1>4, <1>5

LEMMA RaisedDoes ==
  ASSUME HostTypeOK, Raised
  PROVE  /\ loader.pc = "raised" /\ SameSessions
         /\ UNCHANGED <<phase, active, epoch, change, stopped, calls, loads, reply, ghosts>>
         /\ \/ /\ loader.stale /\ loader' = NoLoader /\ UNCHANGED candidate
               /\ staged' = staged \ {loader.load}
            \/ /\ ~loader.stale /\ LoaderGoes("report") /\ loader'.back = "idle"
               /\ candidate' = None /\ UNCHANGED staged
               /\ \/ active # None /\ loader'.next = "active"
                  \/ active = None /\ loader'.next = "error"
<1>1. CASE loader.stale
  BY <1>1, QuietSessions DEF Raised, LoaderAt, LoaderEnds
<1>2. CASE ~loader.stale
  <2>1. PICK p \in {"active", "error"} :
          /\ loader' = [loader EXCEPT !.pc = "report", !.back = "idle", !.next = p]
          /\ (active # None /\ p = "active") \/ (active = None /\ p = "error")
    BY <1>2 DEF Raised
  <2>2. LoaderGoes("report") /\ loader'.next = p /\ loader'.back = "idle"
    BY <2>1 DEF HostTypeOK, LoaderGoes, LoaderStates, Phases
  <2> QED
    BY <1>2, <2>1, <2>2, QuietSessions DEF Raised, LoaderAt
<1> QED
  BY <1>1, <1>2

LEMMA ReplacedDoes ==
  ASSUME HostTypeOK, Replaced
  PROVE  /\ loader.pc = "replace" /\ loader' = NoLoader
         /\ staged' = staged \ {loader.load} /\ UNCHANGED <<host, calls, loads, reply, ghosts>>
         /\ \/ loader.previous = None /\ SameSessions
            \/ loader.previous \in Loads /\ OneSet(loader.previous, "closed")
<1>1. CASE loader.previous = None
  BY <1>1, QuietSessions DEF Replaced, LoaderAt, LoaderEnds
<1>2. CASE loader.previous # None
  <2>1. loader.previous \in Loads
    BY <1>2 DEF HostTypeOK, LoaderStates
  <2> QED
    BY <1>2, <2>1, CloseDoes DEF Replaced, Close, LoaderAt, LoaderEnds
<1> QED
  BY <1>1, <1>2

\* The rest of browse_sources and stop().
LEMMA CallGoesOn ==
  ASSUME HostTypeOK, ClosesSession \/ JoinsLoader
  PROVE  /\ calls' \in CallStates /\ calls'.pc # "close"
         /\ UNCHANGED <<host, loader, data, ghosts>>
         /\ \/ calls.pc # "close" /\ calls'.closing = calls.closing /\ SameSessions
            \/ calls.pc = "close" /\ calls'.closing = None /\ calls.closing = None /\ SameSessions
            \/ /\ calls.pc = "close" /\ calls'.closing = None
               /\ calls.closing \in Loads /\ OneSet(calls.closing, "closed")
<1>1. CASE JoinsLoader
  <2>1. PICK p \in {"serve", "ended"} : calls' = [calls EXCEPT !.pc = p, !.stops = FALSE]
    <3>1. CASE calls.exits
      BY <1>1, <3>1 DEF JoinsLoader
    <3>2. CASE ~calls.exits
      BY <1>1, <3>2 DEF JoinsLoader
    <3> QED
      BY <3>1, <3>2
  <2>2. calls' \in CallStates /\ calls'.pc # "close" /\ calls'.closing = calls.closing
    BY <2>1 DEF HostTypeOK, CallStates
  <2> QED
    BY <1>1, <2>2, QuietSessions DEF JoinsLoader
<1>2. CASE ClosesSession
  <2>1. PICK p \in {"serve", "join"} : calls' = [calls EXCEPT !.pc = p, !.closing = None]
    <3>1. CASE calls.stops
      BY <1>2, <3>1 DEF ClosesSession
    <3>2. CASE ~calls.stops
      BY <1>2, <3>2 DEF ClosesSession
    <3> QED
      BY <3>1, <3>2
  <2>2. calls' \in CallStates /\ calls'.pc # "close" /\ calls'.closing = None
    BY <2>1 DEF HostTypeOK, CallStates
  <2>3. CASE calls.closing = None
    <3>1. runner' = runner
      BY <1>2, <2>3 DEF ClosesSession, Close, HostTypeOK, None, Loads
    <3> QED
      BY <1>2, <2>2, <2>3, <3>1, QuietSessions DEF ClosesSession
  <2>4. CASE calls.closing # None
    <3>1. calls.closing \in Loads
      BY <2>4 DEF HostTypeOK, CallStates
    <3> QED
      BY <1>2, <2>2, <3>1, CloseDoes DEF ClosesSession, Close
  <2> QED
    BY <2>3, <2>4
<1> QED
  BY <1>1, <1>2

-----------------------------------------------------------------------------
(* Answers to commands                                                      *)

LEMMA AnswerTyped ==
  ASSUME HostTypeOK, NEW c \in Commands, Answer(c)
  PROVE  reply' \in [Commands -> Replies]
BY DEF HostTypeOK, Answer, Replies

LEMMA PollTyped ==
  ASSUME HostTypeOK, PollResponse
  PROVE  /\ reply' \in [Commands -> Replies] /\ SameSessions
         /\ UNCHANGED <<host, calls, loader, loads, staged, ghosts>>
<1>1. PICK c \in Commands : reply' = [reply EXCEPT ![c].at = "delivered"]
  BY DEF PollResponse
<1> QED
  BY <1>1, QuietSessions DEF PollResponse, HostTypeOK, Replies

LEMMA CancelSourceDoes ==
  ASSUME HostTypeOK, NEW c \in Commands, CancelSource(c)
  PROVE  /\ Overtaken /\ SameSessions
         /\ candidate' = None /\ staged' = staged \ {candidate} /\ late' = FALSE
         /\ \/ active # None /\ phase' = "active"
            \/ active = None /\ phase' = "selecting"
         /\ UNCHANGED <<active, epoch, change, stopped, calls, loads, unstarted>>
BY OvertakeDoes, QuietSessions DEF CancelSource

LEMMA SubmitDoes ==
  ASSUME HostTypeOK, NEW c \in Commands, Submit(c)
  PROVE  /\ reply' \in [Commands -> Replies]
         /\ \/ TakesDown
            \/ SameSessions /\ UNCHANGED <<host, calls, loader, loads, staged, ghosts>>
<1>1. CASE phase # "active" \/ active = None
  BY <1>1, AnswerTyped, QuietSessions DEF Submit
<1>2. CASE phase = "active" /\ active # None
  <2>1. CASE reply' = [reply EXCEPT ![c] = [at |-> "queued", of |-> active]]
             /\ UNCHANGED <<host, calls, loader, staged>>
    <3>1. [at |-> "queued", of |-> active] \in Replies
      BY DEF HostTypeOK, Replies
    <3> HIDE DEF Replies
    <3>2. reply' \in [Commands -> Replies]
      BY <2>1, <3>1 DEF HostTypeOK
    <3> QED
      BY <2>1, <3>2, QuietSessions DEF Submit
  <2>2. CASE /\ reply' = [reply EXCEPT ![c] = [at |-> "refused", of |-> active]]
             /\ TakeDown(TRUE, FALSE)
    <3>1. TakesDown
      BY <2>2, TakeDownDoes DEF Submit
    <3>2. [at |-> "refused", of |-> active] \in Replies
      BY DEF HostTypeOK, Replies
    <3> HIDE DEF Replies
    <3>3. reply' \in [Commands -> Replies]
      BY <2>2, <3>2 DEF HostTypeOK
    <3> QED
      BY <3>1, <3>3
  <2> QED
    BY <1>2, <2>1, <2>2 DEF Submit
<1> QED
  BY <1>1, <1>2

-----------------------------------------------------------------------------
(* No step breaks the invariant                                              *)

\* A thread of a session, a poll, a command that is queued or refused.
LEMMA QuietKeeps ==
  ASSUME IInv, SameSessions, reply' \in [Commands -> Replies],
         UNCHANGED <<host, calls, loader, loads, staged, ghosts>>
  PROVE  IInv'
<1> USE DEF IInv
<1>0. /\ SameSessions /\ reply' \in [Commands -> Replies]
      /\ UNCHANGED <<host, calls, loader, loads, staged, ghosts>>
  OBVIOUS
<1>1. HostTypeOK'
  BY <1>0 DEF HostTypeOK, Phases, SameSessions, host, ghosts
<1>2. LoaderPlaced'
  BY <1>0 DEF HostTypeOK, LoaderPlaced, host
<1>3. CallsPlaced'
  BY <1>0 DEF CallsPlaced
<1>4. FreshOK'
  BY <1>0 DEF HostTypeOK, LoaderPlaced, FreshOK, Unbuilt, At, None, Loads, SameSessions, ghosts
<1>5. OpenIsHeld'
  BY <1>0 DEF LoaderPlaced, OpenIsHeld, SameSessions, host, ghosts
<1>6. HeldOnce'
  BY <1>0 DEF LoaderPlaced, HeldOnce, SameSessions, host
<1>7. StagedOK'
  BY <1>0 DEF LoaderPlaced, StagedOK, At, host
<1>8. PhaseOK'
  BY <1>0 DEF LoaderPlaced, PhaseOK, host, ghosts
<1> QED
  BY <1>1, <1>2, <1>3, <1>4, <1>5, <1>6, <1>7, <1>8

LEMMA OpenSourceKeeps ==
  ASSUME IInv, NEW c \in Commands, OpenSource(c)
  PROVE  IInv'
<1> USE DEF IInv
<1>1. /\ SameSessions /\ reply' \in [Commands -> Replies]
      /\ UNCHANGED <<active, epoch, change, stopped, calls, unstarted>>
  BY OpenSourceDoes, AnswerTyped DEF OpenSource
<1>2. CASE UNCHANGED <<phase, candidate, loader, loads, staged, late>>
  BY <1>1, <1>2, QuietKeeps DEF host, ghosts
<1>3. CASE ~UNCHANGED <<phase, candidate, loader, loads, staged, late>>
  <2>1. /\ loader.pc = "idle" /\ loads < MaxLoads /\ loads' = loads + 1
        /\ loader' \in LoaderStates /\ loader'.pc = "prepare" /\ loader'.load = loads'
        /\ (loader'.stale <=> stopped) /\ loader'.previous = None /\ loader'.back = "none"
        /\ phase' = "loading" /\ candidate' = None /\ staged' = staged \ {candidate}
        /\ late' = FALSE
    BY <1>3, OpenSourceDoes
  <2>2. loads' \in 0..MaxLoads /\ loads' # 0 /\ loads' \in Loads /\ loads' > loads
    <3>1. loads \in 0..MaxLoads
      BY DEF HostTypeOK
    <3>2. loads < MaxLoads /\ loads' = loads + 1
      BY <2>1
    <3> QED
      BY <3>1, <3>2 DEF Loads
  <2>3. HostTypeOK'
    <3>1. staged' \subseteq Loads /\ {active', candidate'} \subseteq Loads \cup {None}
      BY <1>1, <2>1 DEF HostTypeOK
    <3> QED
      BY <1>1, <2>1, <2>2, <3>1 DEF HostTypeOK, Phases, SameSessions
  <2>4. LoaderPlaced' /\ CallsPlaced'
    BY <1>1, <2>1, <2>2 DEF LoaderPlaced, CallsPlaced
  <2>5. FreshOK'
    <3>1. \A l \in Loads : Unbuilt(l) => Unbuilt(l)'
      BY <1>1 DEF SameSessions, Unbuilt
    <3>2. Unbuilt(loads')
      BY <2>2 DEF FreshOK
    <3>3. ASSUME NEW l \in Loads, l > loads'
          PROVE  Unbuilt(l)
      BY <2>1, <3>3 DEF FreshOK, HostTypeOK, Loads
    <3> QED
      BY <2>1, <2>2, <3>1, <3>2, <3>3 DEF FreshOK, At
  <2>6. OpenIsHeld'
    <3>1. loader.previous = None
      BY <2>1 DEF LoaderPlaced
    <3> QED
      BY <1>1, <2>1, <3>1 DEF OpenIsHeld, SameSessions
  <2>7. HeldOnce'
    BY <1>1, <2>1 DEF LoaderPlaced, HeldOnce
  <2>8. StagedOK'
    <3>1. staged \subseteq {None} /\ staged \subseteq Loads
      BY <2>1 DEF StagedOK, LoaderPlaced, HostTypeOK
    <3> QED
      BY <2>1, <3>1 DEF StagedOK, At, None, Loads
  <2>9. PhaseOK'
    BY <1>1, <2>1 DEF PhaseOK, HostTypeOK, SameSessions, None, Loads
  <2> QED
    BY <2>3, <2>4, <2>5, <2>6, <2>7, <2>8, <2>9
<1> QED
  BY <1>2, <1>3

LEMMA BrowseKeeps ==
  ASSUME IInv, NEW c \in Commands, Browse(c)
  PROVE  IInv'
<1> USE DEF IInv
<1>0. /\ Overtaken /\ SameSessions /\ calls.pc = "serve" /\ calls' \in CallStates
      /\ active' = None /\ candidate' = None /\ staged' = staged \ {candidate}
      /\ phase' = "selecting" /\ late' = FALSE /\ change' \in Nat
      /\ UNCHANGED <<epoch, stopped, loads, unstarted>>
      /\ \/ active = None /\ calls' = calls
         \/ active # None /\ calls'.pc = "close" /\ calls'.closing = active
      /\ reply' \in [Commands -> Replies]
  BY BrowseDoes, AnswerTyped DEF Browse
<1>1. HostTypeOK'
  BY <1>0 DEF HostTypeOK, Phases, SameSessions, Overtaken
<1>2. LoaderPlaced'
  BY <1>0 DEF HostTypeOK, LoaderPlaced, Overtaken
<1>3. CallsPlaced'
  BY <1>0 DEF CallsPlaced
<1>4. FreshOK'
  BY <1>0 DEF HostTypeOK, LoaderPlaced, FreshOK, Unbuilt, At, None, Loads, SameSessions,
    Overtaken
<1>5. OpenIsHeld'
  BY <1>0 DEF HostTypeOK, LoaderPlaced, CallsPlaced, FreshOK, OpenIsHeld, HeldOnce, Unbuilt,
    At, None, Loads, SameSessions, Overtaken
<1>6. HeldOnce'
  BY <1>0 DEF LoaderPlaced, HeldOnce, SameSessions, Overtaken
<1>7. StagedOK'
  BY <1>0 DEF LoaderPlaced, StagedOK, At, Overtaken
<1>8. PhaseOK'
  BY <1>0 DEF LoaderPlaced, PhaseOK, Overtaken
<1> QED
  BY <1>1, <1>2, <1>3, <1>4, <1>5, <1>6, <1>7, <1>8

LEMMA CancelSourceKeeps ==
  ASSUME IInv, NEW c \in Commands, CancelSource(c)
  PROVE  IInv'
<1> USE DEF IInv
<1>0. /\ Overtaken /\ SameSessions
      /\ candidate' = None /\ staged' = staged \ {candidate} /\ late' = FALSE
      /\ \/ active # None /\ phase' = "active"
         \/ active = None /\ phase' = "selecting"
      /\ UNCHANGED <<active, epoch, change, stopped, calls, loads, unstarted>>
      /\ reply' \in [Commands -> Replies]
  BY CancelSourceDoes, AnswerTyped DEF CancelSource
<1>1. HostTypeOK'
  BY <1>0 DEF HostTypeOK, Phases, SameSessions, Overtaken
<1>2. LoaderPlaced'
  BY <1>0 DEF HostTypeOK, LoaderPlaced, Overtaken
<1>3. CallsPlaced'
  BY <1>0 DEF CallsPlaced
<1>4. FreshOK'
  BY <1>0 DEF HostTypeOK, LoaderPlaced, FreshOK, Unbuilt, At, None, Loads, SameSessions,
    Overtaken
<1>5. OpenIsHeld'
  BY <1>0 DEF LoaderPlaced, OpenIsHeld, SameSessions, Overtaken
<1>6. HeldOnce'
  BY <1>0 DEF LoaderPlaced, HeldOnce, SameSessions, Overtaken
<1>7. StagedOK'
  BY <1>0 DEF LoaderPlaced, StagedOK, At, Overtaken
<1>8. PhaseOK'
  BY <1>0 DEF LoaderPlaced, PhaseOK, Overtaken
<1> QED
  BY <1>1, <1>2, <1>3, <1>4, <1>5, <1>6, <1>7, <1>8

\* stop, the end of the server, and a full queue.
LEMMA TakeDownKeeps ==
  ASSUME IInv, TakesDown, reply' \in [Commands -> Replies]
  PROVE  IInv'
<1> USE DEF IInv
<1>0. TakesDown /\ reply' \in [Commands -> Replies]
  OBVIOUS
<1>1. HostTypeOK'
  BY <1>0 DEF HostTypeOK, Phases, TakesDown, Overtaken, SameSessions, host, ghosts
<1>2. LoaderPlaced'
  BY <1>0 DEF HostTypeOK, LoaderPlaced, TakesDown, Overtaken, host
<1>3. CallsPlaced'
  BY <1>0 DEF CallsPlaced, TakesDown
<1>4. FreshOK'
  <2>1. \A l \in Loads : Unbuilt(l) => Unbuilt(l)'
    BY <1>0 DEF TakesDown, Unbuilt, SameSessions, ghosts
  <2>2. /\ loader'.pc = loader.pc /\ loader'.back = loader.back /\ loader'.load = loader.load
        /\ loads' = loads
    BY <1>0 DEF TakesDown, Overtaken
  <2> QED
    BY <2>1, <2>2 DEF FreshOK, At, HostTypeOK, LoaderPlaced, Loads
<1>5. OpenIsHeld'
  BY <1>0 DEF HostTypeOK, LoaderPlaced, CallsPlaced, FreshOK, OpenIsHeld, HeldOnce, Unbuilt,
    At, None, Loads, TakesDown, Overtaken, SameSessions, host, ghosts
<1>6. HeldOnce'
  BY <1>0 DEF LoaderPlaced, HeldOnce, TakesDown, Overtaken, SameSessions, host
<1>7. StagedOK'
  BY <1>0 DEF LoaderPlaced, StagedOK, At, TakesDown, Overtaken, host
<1>8. PhaseOK'
  BY <1>0 DEF LoaderPlaced, PhaseOK, TakesDown, Overtaken, host, ghosts
<1> QED
  BY <1>1, <1>2, <1>3, <1>4, <1>5, <1>6, <1>7, <1>8

LEMMA CallGoesOnKeeps ==
  ASSUME IInv, ClosesSession \/ JoinsLoader
  PROVE  IInv'
<1> USE DEF IInv
<1>0. /\ calls' \in CallStates /\ calls'.pc # "close"
      /\ UNCHANGED <<host, loader, data, ghosts>>
      /\ \/ calls.pc # "close" /\ calls'.closing = calls.closing /\ SameSessions
         \/ calls.pc = "close" /\ calls'.closing = None /\ calls.closing = None /\ SameSessions
         \/ /\ calls.pc = "close" /\ calls'.closing = None
            /\ calls.closing \in Loads /\ OneSet(calls.closing, "closed")
  BY CallGoesOn
<1>1. HostTypeOK'
  BY <1>0 DEF HostTypeOK, Phases, SameSessions, host, data, ghosts, OneSet
<1>2. LoaderPlaced'
  BY <1>0 DEF HostTypeOK, LoaderPlaced, host, data
<1>3. CallsPlaced'
  BY <1>0 DEF CallsPlaced, data
<1>4. FreshOK'
  <2>1. \A l \in Loads : Unbuilt(l) => l # calls.closing
    BY DEF OpenIsHeld, Unbuilt
  <2>2. \A l \in Loads : Unbuilt(l) => Unbuilt(l)'
    BY <1>0, <2>1 DEF Unbuilt, SameSessions, OneSet, ghosts
  <2>3. loader' = loader /\ loads' = loads
    BY <1>0 DEF data
  <2> QED
    BY <2>2, <2>3 DEF FreshOK, At, HostTypeOK, LoaderPlaced, Loads
<1>5. OpenIsHeld'
  BY <1>0 DEF HostTypeOK, LoaderPlaced, CallsPlaced, FreshOK, OpenIsHeld, HeldOnce, Unbuilt,
    At, None, Loads, SameSessions, host, ghosts, OneSet
<1>6. HeldOnce'
  BY <1>0 DEF LoaderPlaced, HeldOnce, SameSessions, host, OneSet
<1>7. StagedOK'
  BY <1>0 DEF LoaderPlaced, StagedOK, At, host, data
<1>8. PhaseOK'
  BY <1>0 DEF LoaderPlaced, PhaseOK, host, ghosts
<1> QED
  BY <1>1, <1>2, <1>3, <1>4, <1>5, <1>6, <1>7, <1>8

LEMMA ProgressKeeps ==
  ASSUME IInv, Progress
  PROVE  IInv'
<1> USE DEF IInv
<1>0. /\ loader.pc \in {"prepare", "activate"} /\ ~loader.stale
      /\ LoaderGoes("report") /\ loader'.next = "loading" /\ loader'.back = loader.pc
      /\ SameSessions /\ UNCHANGED <<host, calls, data, ghosts>>
  BY ProgressDoes
<1>1. HostTypeOK'
  BY <1>0 DEF HostTypeOK, Phases, LoaderGoes, SameSessions, host, data, ghosts
<1>2. LoaderPlaced'
  BY <1>0 DEF HostTypeOK, LoaderPlaced, LoaderGoes, host, data
<1>3. CallsPlaced'
  BY <1>0 DEF CallsPlaced, data
<1>4. FreshOK'
  BY <1>0 DEF HostTypeOK, LoaderPlaced, FreshOK, Unbuilt, At, None, Loads, LoaderGoes,
    SameSessions, data, ghosts
<1>5. OpenIsHeld'
  BY <1>0 DEF LoaderPlaced, OpenIsHeld, LoaderGoes, SameSessions, host, ghosts
<1>6. HeldOnce'
  BY <1>0 DEF LoaderPlaced, HeldOnce, LoaderGoes, SameSessions, host
<1>7. StagedOK'
  BY <1>0 DEF LoaderPlaced, StagedOK, At, LoaderGoes, host, data
<1>8. PhaseOK'
  BY <1>0 DEF LoaderPlaced, PhaseOK, LoaderGoes, host, ghosts
<1> QED
  BY <1>1, <1>2, <1>3, <1>4, <1>5, <1>6, <1>7, <1>8

LEMMA ReportKeeps ==
  ASSUME IInv, Report
  PROVE  IInv'
<1> USE DEF IInv
<1>0. /\ loader.pc = "report" /\ phase' = loader.next /\ phase' \in Phases
      /\ late' = (late \/ loader.stale) /\ late' \in BOOLEAN
      /\ SameSessions
      /\ UNCHANGED <<active, candidate, epoch, change, stopped, calls, loads, reply, unstarted>>
      /\ \/ /\ loader.back = "idle" /\ loader' = NoLoader
            /\ staged' = staged \ {loader.load}
         \/ /\ loader.back \in {"prepare", "activate"} /\ LoaderGoes(loader.back)
            /\ loader'.next = "none" /\ loader'.back = "none" /\ UNCHANGED staged
  BY ReportDoes
<1>1. HostTypeOK'
  BY <1>0, NoLoaderIs DEF HostTypeOK, Phases, LoaderGoes, SameSessions
<1>2. LoaderPlaced'
  BY <1>0, NoLoaderIs DEF HostTypeOK, LoaderPlaced, LoaderGoes
<1>3. CallsPlaced'
  BY <1>0, NoLoaderIs DEF CallsPlaced
<1>4. FreshOK'
  BY <1>0, NoLoaderIs DEF HostTypeOK, LoaderPlaced, FreshOK, Unbuilt, At, None, Loads,
    LoaderGoes, SameSessions
<1>5. OpenIsHeld'
  BY <1>0, NoLoaderIs DEF LoaderPlaced, OpenIsHeld, LoaderGoes, SameSessions
<1>6. HeldOnce'
  BY <1>0, NoLoaderIs DEF LoaderPlaced, HeldOnce, LoaderGoes, SameSessions
<1>7. StagedOK'
  BY <1>0, NoLoaderIs DEF LoaderPlaced, StagedOK, At, LoaderGoes
<1>8. PhaseOK'
  BY <1>0, NoLoaderIs DEF LoaderPlaced, PhaseOK, LoaderGoes
<1> QED
  BY <1>1, <1>2, <1>3, <1>4, <1>5, <1>6, <1>7, <1>8

LEMMA PreparedKeeps ==
  ASSUME IInv, Prepared
  PROVE  IInv'
<1> USE DEF IInv
<1>0. /\ loader.pc = "prepare" /\ SameSessions
      /\ UNCHANGED <<phase, active, epoch, change, stopped, calls, loads, reply, ghosts>>
      /\ \/ loader.stale /\ loader' = NoLoader /\ UNCHANGED <<candidate, staged>>
         \/ /\ ~loader.stale /\ loader.load \in Loads /\ candidate' = loader.load
            /\ staged' = staged \cup {loader.load}
            /\ LoaderGoes("activate") /\ loader'.back = loader.back
  BY PreparedDoes
<1>1. HostTypeOK'
  BY <1>0, NoLoaderIs DEF HostTypeOK, Phases, LoaderGoes, SameSessions, host, ghosts
<1>2. LoaderPlaced'
  BY <1>0, NoLoaderIs DEF HostTypeOK, LoaderPlaced, LoaderGoes, host
<1>3. CallsPlaced'
  BY <1>0, NoLoaderIs DEF CallsPlaced
<1>4. FreshOK'
  BY <1>0, NoLoaderIs DEF LoaderPlaced, FreshOK, Unbuilt, At, LoaderGoes, SameSessions, ghosts
<1>5. OpenIsHeld'
  BY <1>0, NoLoaderIs DEF LoaderPlaced, OpenIsHeld, LoaderGoes, SameSessions, host, ghosts
<1>6. HeldOnce'
  BY <1>0, NoLoaderIs DEF LoaderPlaced, HeldOnce, LoaderGoes, SameSessions, host
<1>7. StagedOK'
  BY <1>0, NoLoaderIs DEF LoaderPlaced, StagedOK, At, LoaderGoes, host
<1>8. PhaseOK'
  BY <1>0, NoLoaderIs DEF LoaderPlaced, PhaseOK, LoaderGoes, host, ghosts
<1> QED
  BY <1>1, <1>2, <1>3, <1>4, <1>5, <1>6, <1>7, <1>8

LEMMA PrepareFailsKeeps ==
  ASSUME IInv, PrepareFails
  PROVE  IInv'
<1> USE DEF IInv
<1>0. /\ loader.pc = "prepare" /\ SameSessions /\ UNCHANGED <<host, calls, data, ghosts>>
      /\ \/ loader.stale /\ loader' = NoLoader
         \/ /\ ~loader.stale /\ LoaderGoes("report")
            /\ loader'.next \in {"selecting", "error"} /\ loader'.back = "idle"
  BY PrepareFailsDoes
<1>1. HostTypeOK'
  BY <1>0, NoLoaderIs DEF HostTypeOK, Phases, LoaderGoes, SameSessions, host, data, ghosts
<1>2. LoaderPlaced'
  BY <1>0, NoLoaderIs DEF HostTypeOK, LoaderPlaced, LoaderGoes, host, data
<1>3. CallsPlaced'
  BY <1>0, NoLoaderIs DEF CallsPlaced, data
<1>4. FreshOK'
  BY <1>0, NoLoaderIs DEF LoaderPlaced, FreshOK, Unbuilt, At, LoaderGoes, SameSessions, data,
    ghosts
<1>5. OpenIsHeld'
  BY <1>0, NoLoaderIs DEF LoaderPlaced, OpenIsHeld, LoaderGoes, SameSessions, host, ghosts
<1>6. HeldOnce'
  BY <1>0, NoLoaderIs DEF LoaderPlaced, HeldOnce, LoaderGoes, SameSessions, host
<1>7. StagedOK'
  BY <1>0, NoLoaderIs DEF LoaderPlaced, StagedOK, At, LoaderGoes, host, data
<1>8. PhaseOK'
  BY <1>0, NoLoaderIs DEF LoaderPlaced, PhaseOK, LoaderGoes, host, ghosts
<1> QED
  BY <1>1, <1>2, <1>3, <1>4, <1>5, <1>6, <1>7, <1>8

LEMMA BuiltKeeps ==
  ASSUME IInv, Built
  PROVE  IInv'
<1> USE DEF IInv
<1>0. /\ loader.pc = "activate" /\ loader.load \in Loads /\ OneSet(loader.load, "open")
      /\ LoaderGoes("built") /\ loader'.next = loader.next /\ loader'.back = loader.back
      /\ UNCHANGED <<host, calls, data, ghosts>>
  BY BuiltSteps
<1>1. HostTypeOK'
  BY <1>0 DEF HostTypeOK, Phases, LoaderGoes, OneSet, SameSessions, host, data, ghosts
<1>2. LoaderPlaced'
  BY <1>0 DEF HostTypeOK, LoaderPlaced, LoaderGoes, host, data
<1>3. CallsPlaced'
  BY <1>0 DEF CallsPlaced, data
<1>4. FreshOK'
  BY <1>0 DEF HostTypeOK, LoaderPlaced, FreshOK, Unbuilt, At, None, Loads, LoaderGoes, OneSet,
    SameSessions, data, ghosts
<1>5. OpenIsHeld'
  BY <1>0 DEF LoaderPlaced, OpenIsHeld, LoaderGoes, OneSet, SameSessions, host, ghosts
<1>6. HeldOnce'
  BY <1>0 DEF HostTypeOK, LoaderPlaced, CallsPlaced, FreshOK, OpenIsHeld, HeldOnce, Unbuilt,
    At, None, Loads, LoaderGoes, OneSet, SameSessions, host
<1>7. StagedOK'
  BY <1>0 DEF LoaderPlaced, StagedOK, At, LoaderGoes, host, data
<1>8. PhaseOK'
  BY <1>0 DEF LoaderPlaced, PhaseOK, LoaderGoes, host, ghosts
<1> QED
  BY <1>1, <1>2, <1>3, <1>4, <1>5, <1>6, <1>7, <1>8

LEMMA BuildFailsKeeps ==
  ASSUME IInv, BuildFails
  PROVE  IInv'
<1> USE DEF IInv
<1>0. /\ loader.pc = "activate" /\ LoaderGoes("raised")
      /\ SameSessions /\ UNCHANGED <<host, calls, data, ghosts>>
  BY BuildFailsDoes
<1>1. HostTypeOK'
  BY <1>0 DEF HostTypeOK, Phases, LoaderGoes, SameSessions, host, data, ghosts
<1>2. LoaderPlaced'
  BY <1>0 DEF HostTypeOK, LoaderPlaced, LoaderGoes, host, data
<1>3. CallsPlaced'
  BY <1>0 DEF CallsPlaced, data
<1>4. FreshOK'
  BY <1>0 DEF LoaderPlaced, FreshOK, Unbuilt, At, LoaderGoes, SameSessions, data, ghosts
<1>5. OpenIsHeld'
  BY <1>0 DEF LoaderPlaced, OpenIsHeld, LoaderGoes, SameSessions, host, ghosts
<1>6. HeldOnce'
  BY <1>0 DEF LoaderPlaced, HeldOnce, LoaderGoes, SameSessions, host
<1>7. StagedOK'
  BY <1>0 DEF LoaderPlaced, StagedOK, At, LoaderGoes, host, data
<1>8. PhaseOK'
  BY <1>0 DEF LoaderPlaced, PhaseOK, LoaderGoes, host, ghosts
<1> QED
  BY <1>1, <1>2, <1>3, <1>4, <1>5, <1>6, <1>7, <1>8

LEMMA DiscardKeeps ==
  ASSUME IInv, Discard
  PROVE  IInv'
<1> USE DEF IInv
<1>0. /\ loader.pc = "built" /\ loader.stale /\ loader.load \in Loads
      /\ OneSet(loader.load, "closed") /\ loader' = NoLoader
      /\ staged' = staged \ {loader.load}
      /\ UNCHANGED <<host, calls, loads, reply, ghosts>>
  BY DiscardDoes
<1>1. HostTypeOK'
  BY <1>0, NoLoaderIs DEF HostTypeOK, Phases, OneSet, SameSessions, host, ghosts
<1>2. LoaderPlaced'
  BY <1>0, NoLoaderIs DEF HostTypeOK, LoaderPlaced, host
<1>3. CallsPlaced'
  BY <1>0, NoLoaderIs DEF CallsPlaced
<1>4. FreshOK'
  BY <1>0, NoLoaderIs DEF HostTypeOK, LoaderPlaced, FreshOK, Unbuilt, At, None, Loads, OneSet,
    SameSessions, ghosts
<1>5. OpenIsHeld'
  BY <1>0, NoLoaderIs DEF HostTypeOK, LoaderPlaced, CallsPlaced, FreshOK, OpenIsHeld,
    HeldOnce, Unbuilt, At, None, Loads, OneSet, SameSessions, host, ghosts
<1>6. HeldOnce'
  BY <1>0, NoLoaderIs DEF LoaderPlaced, HeldOnce, OneSet, SameSessions, host
<1>7. StagedOK'
  BY <1>0, NoLoaderIs DEF LoaderPlaced, StagedOK, At, host
<1>8. PhaseOK'
  BY <1>0, NoLoaderIs DEF LoaderPlaced, PhaseOK, host, ghosts
<1> QED
  BY <1>1, <1>2, <1>3, <1>4, <1>5, <1>6, <1>7, <1>8

LEMMA InstallKeeps ==
  ASSUME IInv, Install
  PROVE  IInv'
<1> USE DEF IInv
<1>0. /\ loader.pc = "built" /\ ~loader.stale /\ loader.load \in Loads
      /\ runner' \in [Loads -> Runners]
      /\ \A k \in Loads : runner'[k].env = runner[k].env
      /\ epoch' = epoch + 1 /\ runner'[loader.load].epoch = epoch'
      /\ active' = loader.load /\ candidate' = None /\ phase' = "active"
      /\ change' = change + 1 /\ late' = FALSE
      /\ loader' \in LoaderStates /\ loader'.pc = "replace" /\ loader'.load = loader.load
      /\ loader'.previous = active /\ loader'.stale = loader.stale
      /\ UNCHANGED <<stopped, calls, data, unstarted>>
  BY InstallDoes
<1>1. HostTypeOK'
  <2>1. epoch' \in Nat /\ change' \in Nat
    BY <1>0 DEF HostTypeOK
  <2> QED
    BY <1>0, <2>1 DEF HostTypeOK, Phases, data
<1>2. LoaderPlaced'
  BY <1>0 DEF HostTypeOK, LoaderPlaced, data
<1>3. CallsPlaced'
  BY <1>0 DEF CallsPlaced, data
<1>4. FreshOK'
  BY <1>0 DEF LoaderPlaced, FreshOK, Unbuilt, At, SameSessions, data
<1>5. OpenIsHeld'
  BY <1>0 DEF HostTypeOK, LoaderPlaced, CallsPlaced, FreshOK, OpenIsHeld, HeldOnce, Unbuilt,
    At, None, Loads, SameSessions
<1>6. HeldOnce'
  BY <1>0 DEF LoaderPlaced, HeldOnce, SameSessions
<1>7. StagedOK'
  BY <1>0 DEF LoaderPlaced, StagedOK, At, data
<1>8. PhaseOK'
  BY <1>0 DEF HostTypeOK, LoaderPlaced, PhaseOK, None, Loads
<1> QED
  BY <1>1, <1>2, <1>3, <1>4, <1>5, <1>6, <1>7, <1>8

LEMMA StartFailsKeeps ==
  ASSUME IInv, StartFails
  PROVE  IInv'
<1> USE DEF IInv
<1>0. /\ loader.pc = "built" /\ loader.load \in Loads
      /\ runner' \in [Loads -> Runners] /\ epoch' = epoch + 1
      /\ \A k \in Loads : runner'[k].env = runner[k].env
      /\ \A k \in Loads \ {loader.load} : runner'[k].epoch = runner[k].epoch
      /\ unstarted' = unstarted \cup {loader.load} /\ LoaderGoes("raised")
      /\ UNCHANGED <<phase, active, candidate, change, stopped, calls, data, late>>
  BY StartFailsDoes
<1>1. HostTypeOK'
  BY <1>0 DEF HostTypeOK, Phases, LoaderGoes, SameSessions, data
<1>2. LoaderPlaced'
  BY <1>0 DEF HostTypeOK, LoaderPlaced, LoaderGoes, data
<1>3. CallsPlaced'
  BY <1>0 DEF CallsPlaced, data
<1>4. FreshOK'
  <2>1. \A l \in Loads \ {loader.load} : Unbuilt(l) => Unbuilt(l)'
    BY <1>0 DEF Unbuilt
  <2> QED
    BY <1>0, <2>1 DEF FreshOK, At, LoaderGoes, LoaderPlaced, HostTypeOK, Loads, data
<1>5. OpenIsHeld'
  BY <1>0 DEF LoaderPlaced, OpenIsHeld, LoaderGoes, SameSessions
<1>6. HeldOnce'
  BY <1>0 DEF LoaderPlaced, HeldOnce, LoaderGoes, SameSessions
<1>7. StagedOK'
  BY <1>0 DEF LoaderPlaced, StagedOK, At, LoaderGoes, data
<1>8. PhaseOK'
  BY <1>0 DEF LoaderPlaced, PhaseOK, LoaderGoes
<1> QED
  BY <1>1, <1>2, <1>3, <1>4, <1>5, <1>6, <1>7, <1>8

LEMMA RaisedKeeps ==
  ASSUME IInv, Raised
  PROVE  IInv'
<1> USE DEF IInv
<1>0. /\ loader.pc = "raised" /\ SameSessions
      /\ UNCHANGED <<phase, active, epoch, change, stopped, calls, loads, reply, ghosts>>
      /\ \/ /\ loader.stale /\ loader' = NoLoader /\ UNCHANGED candidate
            /\ staged' = staged \ {loader.load}
         \/ /\ ~loader.stale /\ LoaderGoes("report") /\ loader'.back = "idle"
            /\ candidate' = None /\ UNCHANGED staged
            /\ \/ active # None /\ loader'.next = "active"
               \/ active = None /\ loader'.next = "error"
  BY RaisedDoes
<1>1. HostTypeOK'
  BY <1>0, NoLoaderIs DEF HostTypeOK, Phases, LoaderGoes, SameSessions, host, ghosts
<1>2. LoaderPlaced'
  BY <1>0, NoLoaderIs DEF HostTypeOK, LoaderPlaced, LoaderGoes, host
<1>3. CallsPlaced'
  BY <1>0, NoLoaderIs DEF CallsPlaced
<1>4. FreshOK'
  BY <1>0, NoLoaderIs DEF LoaderPlaced, FreshOK, Unbuilt, At, LoaderGoes, SameSessions, ghosts
<1>5. OpenIsHeld'
  BY <1>0, NoLoaderIs DEF LoaderPlaced, OpenIsHeld, LoaderGoes, SameSessions, host, ghosts
<1>6. HeldOnce'
  BY <1>0, NoLoaderIs DEF LoaderPlaced, HeldOnce, LoaderGoes, SameSessions, host
<1>7. StagedOK'
  BY <1>0, NoLoaderIs DEF LoaderPlaced, StagedOK, At, LoaderGoes, host
<1>8. PhaseOK'
  BY <1>0, NoLoaderIs DEF LoaderPlaced, PhaseOK, LoaderGoes, host, ghosts
<1> QED
  BY <1>1, <1>2, <1>3, <1>4, <1>5, <1>6, <1>7, <1>8

LEMMA ReplacedKeeps ==
  ASSUME IInv, Replaced
  PROVE  IInv'
<1> USE DEF IInv
<1>0. /\ loader.pc = "replace" /\ loader' = NoLoader
      /\ staged' = staged \ {loader.load} /\ UNCHANGED <<host, calls, loads, reply, ghosts>>
      /\ \/ loader.previous = None /\ SameSessions
         \/ loader.previous \in Loads /\ OneSet(loader.previous, "closed")
  BY ReplacedDoes
<1>1. HostTypeOK'
  BY <1>0, NoLoaderIs DEF HostTypeOK, Phases, OneSet, SameSessions, host, ghosts
<1>2. LoaderPlaced'
  BY <1>0, NoLoaderIs DEF HostTypeOK, LoaderPlaced, host
<1>3. CallsPlaced'
  BY <1>0, NoLoaderIs DEF CallsPlaced
<1>4. FreshOK'
  <2>1. \A l \in Loads : Unbuilt(l) => l # loader.previous
    BY DEF OpenIsHeld, Unbuilt
  <2>2. \A l \in Loads : Unbuilt(l) => Unbuilt(l)'
    BY <1>0, <2>1 DEF Unbuilt, SameSessions, OneSet, ghosts
  <2> QED
    BY <1>0, <2>2, NoLoaderIs DEF FreshOK, At
<1>5. OpenIsHeld'
  BY <1>0, NoLoaderIs DEF HostTypeOK, LoaderPlaced, CallsPlaced, FreshOK, OpenIsHeld,
    HeldOnce, Unbuilt, At, None, Loads, OneSet, SameSessions, host, ghosts
<1>6. HeldOnce'
  BY <1>0, NoLoaderIs DEF LoaderPlaced, HeldOnce, OneSet, SameSessions, host
<1>7. StagedOK'
  BY <1>0, NoLoaderIs DEF LoaderPlaced, StagedOK, At, host
<1>8. PhaseOK'
  BY <1>0, NoLoaderIs DEF LoaderPlaced, PhaseOK, host, ghosts
<1> QED
  BY <1>1, <1>2, <1>3, <1>4, <1>5, <1>6, <1>7, <1>8

-----------------------------------------------------------------------------
(* The invariant holds in every state                                       *)

LEMMA InitOK == Init => IInv
<1> SUFFICES ASSUME Init PROVE IInv
  OBVIOUS
<1>0. /\ phase = "selecting" /\ active = None /\ candidate = None /\ epoch = 0 /\ change = 0
      /\ stopped = FALSE /\ calls = Serving /\ loader = NoLoader
      /\ runner = [l \in Loads |-> NoRunner] /\ loads = 0 /\ staged = {}
      /\ reply = [c \in Commands |-> Unsent] /\ late = FALSE /\ unstarted = {}
  BY DEF Init
<1>1. /\ Serving \in CallStates /\ Serving.pc = "serve" /\ Serving.closing = None
  BY DEF Serving, CallStates
<1>2. NoRunner \in Runners /\ NoRunner.env = "none"
  BY DEF NoRunner, Runners
<1>3. Unsent \in Replies
  BY DEF Unsent, Replies
<1>4. HostTypeOK
  <2>1. /\ calls \in CallStates /\ loader \in LoaderStates
        /\ runner \in [Loads -> Runners] /\ reply \in [Commands -> Replies]
    BY <1>0, <1>1, <1>2, <1>3, NoLoaderIs
  <2>2. phase \in Phases /\ {active, candidate} \subseteq Loads \cup {None}
    BY <1>0 DEF Phases
  <2>3. epoch \in Nat /\ change \in Nat /\ loads \in 0..MaxLoads
    BY <1>0
  <2>4. stopped \in BOOLEAN /\ late \in BOOLEAN
    BY <1>0
  <2>5. staged \subseteq Loads /\ unstarted \subseteq Loads
    BY <1>0
  <2> QED
    BY <2>1, <2>2, <2>3, <2>4, <2>5 DEF HostTypeOK
<1>5. LoaderPlaced /\ CallsPlaced
  BY <1>0, <1>1, NoLoaderIs DEF LoaderPlaced, CallsPlaced
<1>6. FreshOK
  BY <1>0, <1>2, NoLoaderIs DEF FreshOK, At, Unbuilt
<1>7. OpenIsHeld /\ HeldOnce
  BY <1>0, <1>1, <1>2, NoLoaderIs DEF OpenIsHeld, HeldOnce, None, Loads
<1>8. StagedOK /\ PhaseOK
  BY <1>0, NoLoaderIs DEF StagedOK, PhaseOK
<1> QED
  BY <1>4, <1>5, <1>6, <1>7, <1>8 DEF IInv

LEMMA StutterOK ==
  ASSUME IInv, UNCHANGED vars
  PROVE  IInv'
BY DEF vars, host, data, ghosts, IInv, HostTypeOK, LoaderPlaced, CallsPlaced, FreshOK, At,
       Unbuilt, OpenIsHeld, HeldOnce, StagedOK, PhaseOK

LEMMA StepOK == IInv /\ [Next]_vars => IInv'
<1> SUFFICES ASSUME IInv, [Next]_vars PROVE IInv'
  OBVIOUS
<1>0. HostTypeOK
  BY DEF IInv
<1>1. ASSUME NEW c \in Commands, Stop(c)
      PROVE  IInv'
  <2>1. TakesDown
    BY <1>0, <1>1, TakeDownDoes DEF Stop
  <2>2. reply' \in [Commands -> Replies]
    BY <1>0, <1>1, AnswerTyped DEF Stop
  <2> QED
    BY <2>1, <2>2, TakeDownKeeps
<1>2. ASSUME NEW c \in Commands, Submit(c)
      PROVE  IInv'
  BY <1>0, <1>2, SubmitDoes, TakeDownKeeps, QuietKeeps
<1>3. ASSUME NEW c \in Commands, Command(c)
      PROVE  IInv'
  BY <1>1, <1>2, <1>3, OpenSourceKeeps, BrowseKeeps, CancelSourceKeeps DEF Command
<1>4. CASE PollResponse
  BY <1>0, <1>4, PollTyped, QuietKeeps
<1>5. CASE CloseWorker
  <2>1. TakesDown
    BY <1>0, <1>5, TakeDownDoes DEF CloseWorker
  <2>2. reply' \in [Commands -> Replies]
    BY <1>0, <1>5 DEF CloseWorker, HostTypeOK
  <2> QED
    BY <2>1, <2>2, TakeDownKeeps
<1>6. CASE ClosesSession \/ JoinsLoader
  BY <1>6, CallGoesOnKeeps
<1>10. CASE StopsSession \/ StopsPrevious
  BY <1>0, <1>10, StopStepDoes, QuietKeeps
<1>7. CASE Load
  BY <1>7, <1>10, ProgressKeeps, ReportKeeps, PreparedKeeps, PrepareFailsKeeps, BuiltKeeps,
     BuildFailsKeeps, DiscardKeeps, InstallKeeps, StartFailsKeeps, RaisedKeeps, ReplacedKeeps
     DEF Load
<1>8. ASSUME NEW l \in Loads, Run(l)
      PROVE  IInv'
  BY <1>0, <1>8, ThreadSteps, QuietKeeps
<1>9. CASE UNCHANGED vars
  BY <1>9, StutterOK
<1> QED
  BY <1>3, <1>4, <1>5, <1>6, <1>7, <1>8, <1>9, <1>10 DEF Next

LEMMA Inductive == Spec => []IInv
BY InitOK, StepOK, PTL DEF Spec

-----------------------------------------------------------------------------
(* What follows                                                             *)

\* The shape of the host's state: in particular the loader's and the loop's places,
\* and the answers, stay what the threads that read them expect.
THEOREM TypeCorrect == Spec => []HostTypeOK
<1>1. IInv => HostTypeOK
  BY DEF IInv
<1> QED
  BY <1>1, Inductive, PTL

\* Whatever commands overtake the loader, and wherever it fails, every open
\* environment has exactly one owner that will close it (_activate_candidate,
\* browse_sources, stop), and the staged model of a candidate is there.
THEOREM SessionsOwned == Spec => []SessionsAreOwned
<1>1. IInv => SessionsAreOwned
  <2> SUFFICES ASSUME IInv PROVE SessionsAreOwned
    OBVIOUS
  <2>1. /\ DOMAIN Held = {"host", "calls", "replaced", "built"}
        /\ Held["host"] = active /\ Held["calls"] = calls.closing
        /\ Held["replaced"] = loader.previous
        /\ loader.pc = "built" => Held["built"] = loader.load
        /\ loader.pc # "built" => Held["built"] = None
    BY DEF Held
  <2>2. ASSUME NEW l \in Loads \ unstarted
        PROVE  runner[l].env = "open" <=> \E h \in DOMAIN Held : Held[h] = l
    <3>1. runner[l].env = "open" <=>
            \/ l \in {active, calls.closing, loader.previous}
            \/ loader.pc = "built" /\ loader.load = l
      BY DEF IInv, OpenIsHeld
    <3> QED
      BY <2>1, <3>1 DEF None, Loads
  <2>3. ASSUME NEW g \in DOMAIN Held, NEW h \in DOMAIN Held, g # h, Held[g] = Held[h]
        PROVE  Held[g] = None
    BY <2>1, <2>3 DEF IInv, HeldOnce, LoaderPlaced
  <2>4. /\ staged \subseteq {loader.load}
        /\ candidate # None => candidate \in staged /\ ~loader.stale
    BY DEF IInv, StagedOK
  <2> QED
    BY <2>2, <2>3, <2>4 DEF SessionsAreOwned
<1> QED
  BY <1>1, Inductive, PTL

\* Once loader and commands have come to rest, the phase the browser is told is one
\* that the session accounts for: nothing stays "loading" for ever.
THEOREM PhaseTrue == Spec => []PhaseIsTrue
<1>1. IInv => PhaseIsTrue
  BY DEF IInv, PhaseOK, PhaseIsTrue
<1> QED
  BY <1>1, Inductive, PTL

=============================================================================
