---------------------------- MODULE PlaybackHost ----------------------------
(***************************************************************************)
(* The process that plays a checkpoint for the browser (gradlab play).     *)
(* The web server keeps policy and environment in a worker process and     *)
(* calls it over a pipe; the worker answers one call after the other       *)
(* (_worker_main).  In the worker a PlaybackHost holds at most one session *)
(* (ActivePlayback): three kinds of threads share it.                      *)
(*                                                                         *)
(*   calls    the loop of _worker_main: the user's commands and polls;     *)
(*   loader   resolves a source, builds a session and puts it in place of  *)
(*            the one that plays; it is not interrupted, a command that    *)
(*            overtakes it makes its generation stale;                     *)
(*   runners  one thread per session, the only one to use the environment. *)
(*                                                                         *)
(* The lock of the host covers each action that says "with the lock"; the  *)
(* code between two such sections is an action of its own.                 *)
(***************************************************************************)
EXTENDS Integers, FiniteSets, FiniteSetsExt

CONSTANTS
  MaxLoads,     \* bound on the sources that are opened
  MaxCommands,  \* bound on the commands of the user
  QueueLimit    \* COMMAND_QUEUE_LIMIT

ASSUME HostAssumption ==
  MaxLoads \in Nat \ {0} /\ MaxCommands \in Nat /\ QueueLimit \in Nat \ {0}

VARIABLES
  \* PlaybackHost
  phase,      \* what the browser is told
  active,     \* the session that plays, None when there is none
  candidate,  \* the load that was prepared and is being activated
  epoch,      \* session_epoch
  change,     \* session_change
  stopped,
  \* threads
  calls,      \* the loop of the worker
  loader,
  runner,     \* runner[l]: the session built by load l
  \* the rest
  loads,      \* sources opened so far
  staged,     \* loads whose staged copy of the model is on disk
  reply,      \* reply[c]: where command c, or the answer to it, is
  \* what the properties except
  late,       \* the phase was set by a loader that had gone stale
  unstarted   \* sessions whose start failed

host == <<phase, active, candidate, epoch, change, stopped>>
data == <<loads, staged, reply>>
ghosts == <<late, unstarted>>
vars == <<host, calls, loader, runner, data, ghosts>>

None == 0
Loads == 1..MaxLoads
Commands == 1..MaxCommands

\* pc "serve": recv; "close": active.close(); "join": worker.join(); "ended".  stops
\* and exits: within host.stop(), and on the way out of _worker_main.  told: the
\* server asked for that.
Serving == [pc |-> "serve", closing |-> None, stops |-> FALSE, exits |-> FALSE,
            told |-> FALSE]

\* stale: generation != self._generation or self._stopped.  next: the phase it sets
\* after the lock is released; back: where a report of progress returns to.
NoLoader == [pc |-> "idle", load |-> None, stale |-> FALSE, next |-> "none",
             back |-> "none", previous |-> None]

\* pauses: the commands that _begin_prepare puts in the queue itself.
NoRunner == [thread |-> "none", stop |-> FALSE, env |-> "none", epoch |-> 0,
             pauses |-> 0]

\* A command is unsent, queued at a session, answered there or by the host (of None),
\* or the server has its answer; or it met the full queue of a session (refused).
Unsent == [at |-> "unsent", of |-> None]

Queued(l) == {c \in Commands : reply[c] = [at |-> "queued", of |-> l]}
Backlog(l) == Cardinality(Queued(l)) + runner[l].pauses

-----------------------------------------------------------------------------
(* Sessions: WebPlaybackRunner, ActivePlayback *)

\* runner.stop() asks the thread to end and waits ten seconds for it, then the
\* environment is closed, whether the thread has ended or not.
Started(r, e) == [r EXCEPT !.epoch = e, !.thread = "idle"]
AskedToStop(r) == [r EXCEPT !.stop = TRUE]
Closed(r) == [r EXCEPT !.env = "closed"]
Close(l) == runner' = [runner EXCEPT ![l] = Closed(@)]

\* The head of the loop.
RunnerEnds(l) ==
  /\ runner[l].thread = "idle" /\ runner[l].stop
  /\ runner' = [runner EXCEPT ![l].thread = "ended"]
  /\ UNCHANGED <<host, calls, loader, data, ghosts>>

\* _drain_commands does not look at the stop flag between two commands.
Applies(l) ==
  /\ runner[l].thread = "idle"
  /\ IF Queued(l) # {}
     THEN /\ reply' = [reply EXCEPT ![Min(Queued(l))].at = "answered"]
          /\ UNCHANGED runner
     ELSE /\ runner[l].pauses > 0
          /\ runner' = [runner EXCEPT ![l].pauses = @ - 1]
          /\ UNCHANGED reply
  /\ UNCHANGED <<host, calls, loader, loads, staged, ghosts>>

\* A step of the session.
Works(l) ==
  /\ runner[l].thread = "idle" /\ ~runner[l].stop
  /\ runner' = [runner EXCEPT ![l].thread = "busy"]
  /\ UNCHANGED <<host, calls, loader, data, ghosts>>

HasWorked(l) ==
  /\ runner[l].thread = "busy"
  /\ runner' = [runner EXCEPT ![l].thread = "idle"]
  /\ UNCHANGED <<host, calls, loader, data, ghosts>>

\* Recording or publishing the transition raises, outside of the try of _step_once:
\* the thread ends, and nobody looks at it; the session stays as it is.
Breaks(l) ==
  /\ runner[l].thread = "busy"
  /\ runner' = [runner EXCEPT ![l].thread = "broken"]
  /\ UNCHANGED <<host, calls, loader, data, ghosts>>

-----------------------------------------------------------------------------
(* The loader: _prepare_worker, _activate_candidate *)

LoaderAt(pc) == loader.pc = pc /\ calls.pc # "ended"
LoaderEnds == loader' = NoLoader

\* _progress looks at the generation with the lock ...
Progress ==
  /\ LoaderAt("prepare") \/ LoaderAt("activate")
  /\ ~loader.stale
  /\ loader' = [loader EXCEPT !.pc = "report", !.next = "loading", !.back = loader.pc]
  /\ UNCHANGED <<host, calls, runner, data, ghosts>>

\* ... and sets the phase after it has released it, as the paths of a failure do.
Report ==
  /\ LoaderAt("report")
  /\ phase' = loader.next
  /\ late' = (late \/ loader.stale)
  /\ IF loader.back = "idle"
     THEN /\ staged' = staged \ {loader.load}
          /\ LoaderEnds
     ELSE /\ loader' = [loader EXCEPT !.pc = loader.back, !.next = "none", !.back = "none"]
          /\ UNCHANGED staged
  /\ UNCHANGED <<active, candidate, epoch, change, stopped, calls, runner, loads, reply, unstarted>>

\* With the lock: the prepared source becomes the candidate, or is thrown away.
Prepared ==
  /\ LoaderAt("prepare")
  /\ IF loader.stale
     THEN LoaderEnds /\ UNCHANGED <<candidate, staged>>
     ELSE /\ candidate' = loader.load
          /\ staged' = staged \cup {loader.load}
          /\ loader' = [loader EXCEPT !.pc = "activate"]
  /\ UNCHANGED <<phase, active, epoch, change, stopped, calls, runner, loads, reply, ghosts>>

\* The source cannot be resolved; a run without a checkpoint to play leaves the
\* user where one is selected.
PrepareFails ==
  /\ LoaderAt("prepare")
  /\ IF loader.stale
     THEN LoaderEnds
     ELSE \E p \in {"selecting", "error"} :
            loader' = [loader EXCEPT !.pc = "report", !.next = p, !.back = "idle"]
  /\ UNCHANGED <<host, calls, runner, data, ghosts>>

Built ==
  /\ LoaderAt("activate")
  /\ loader' = [loader EXCEPT !.pc = "built"]
  /\ runner' = [runner EXCEPT ![loader.load].env = "open"]
  /\ UNCHANGED <<host, calls, data, ghosts>>

BuildFails ==
  /\ LoaderAt("activate")
  /\ loader' = [loader EXCEPT !.pc = "raised"]
  /\ UNCHANGED <<host, calls, runner, data, ghosts>>

\* A plausible bug: the stale result is dropped, and its environment stays open.
BuggyDiscard ==
  /\ LoaderAt("built") /\ loader.stale
  /\ staged' = staged \ {loader.load}
  /\ LoaderEnds
  /\ UNCHANGED <<host, calls, runner, loads, reply, ghosts>>

\* With the lock: a session that nobody waits for any more is closed at once.
Discard ==
  /\ LoaderAt("built") /\ loader.stale
  /\ runner' = [runner EXCEPT ![loader.load] = Closed(@)]
  /\ staged' = staged \ {loader.load}
  /\ LoaderEnds
  /\ UNCHANGED <<host, calls, loads, reply, ghosts>>

\* With the lock: the new session starts and takes the place of the previous one,
\* which is closed without the lock.
Install ==
  /\ LoaderAt("built") /\ ~loader.stale
  /\ epoch' = epoch + 1
  /\ runner' = [runner EXCEPT ![loader.load] = Started(@, epoch + 1)]
  /\ active' = loader.load /\ candidate' = None
  /\ phase' = "active" /\ change' = change + 1
  /\ loader' = [loader EXCEPT !.pc = "replace", !.previous = active]
  /\ late' = FALSE
  /\ UNCHANGED <<stopped, calls, data, unstarted>>

\* The start of the new session raises, with its epoch already counted.
StartFails ==
  /\ LoaderAt("built") /\ ~loader.stale
  /\ epoch' = epoch + 1
  /\ runner' = [runner EXCEPT ![loader.load].epoch = epoch + 1]
  /\ unstarted' = unstarted \cup {loader.load}
  /\ loader' = [loader EXCEPT !.pc = "raised"]
  /\ UNCHANGED <<phase, active, candidate, change, stopped, calls, data, late>>

\* With the lock, after an exception: what will the phase be?
Raised ==
  /\ LoaderAt("raised")
  /\ IF loader.stale
     THEN /\ staged' = staged \ {loader.load}
          /\ LoaderEnds /\ UNCHANGED candidate
     ELSE /\ candidate' = None
          /\ loader' = [loader EXCEPT !.pc = "report", !.back = "idle",
                          !.next = IF active # None THEN "active" ELSE "error"]
          /\ UNCHANGED staged
  /\ UNCHANGED <<phase, active, epoch, change, stopped, calls, runner, loads, reply, ghosts>>

\* previous.close(): its thread is asked to stop and waited for; then its environment
\* is closed, and the candidate cleaned up.
StopsPrevious ==
  /\ LoaderAt("replace")
  /\ loader.previous # None /\ ~runner[loader.previous].stop
  /\ runner' = [runner EXCEPT ![loader.previous] = AskedToStop(@)]
  /\ UNCHANGED <<host, calls, loader, data, ghosts>>

Replaced ==
  /\ LoaderAt("replace")
  /\ loader.previous # None => runner[loader.previous].stop
  /\ IF loader.previous = None THEN UNCHANGED runner ELSE Close(loader.previous)
  /\ staged' = staged \ {loader.load}
  /\ LoaderEnds
  /\ UNCHANGED <<host, calls, loads, reply, ghosts>>

-----------------------------------------------------------------------------
(* Calls of the server: _worker_main, PlaybackHost.submit *)

IsServing == calls.pc = "serve"
NextCommand(c) == reply[c] = Unsent /\ \A d \in 1..(c - 1) : reply[d] # Unsent
Answer(c) == reply' = [reply EXCEPT ![c] = [at |-> "answered", of |-> None]]
Overtake == loader' = [loader EXCEPT !.stale = loader.pc # "idle"]

\* select_source, retry_source, set_contract_mode: one loader at a time.
OpenSource(c) ==
  /\ IsServing /\ NextCommand(c)
  /\ loader.pc = "idle" => loads < MaxLoads
  /\ Answer(c)
  /\ IF loader.pc # "idle"
     THEN UNCHANGED <<host, loader, runner, loads, staged, late>>
     ELSE /\ loads' = loads + 1
          /\ loader' = [NoLoader EXCEPT !.pc = "prepare", !.load = loads + 1,
                          !.stale = stopped]
          /\ phase' = "loading" /\ candidate' = None /\ staged' = staged \ {candidate}
          /\ runner' = [l \in Loads |->
               IF l = active /\ Backlog(l) < QueueLimit
               THEN [runner[l] EXCEPT !.pauses = @ + 1] ELSE runner[l]]
          /\ late' = FALSE
          /\ UNCHANGED <<active, epoch, change, stopped>>
  /\ UNCHANGED <<calls, unstarted>>

\* browse_sources: with the lock, the session is taken off; then it is closed.
Browse(c) ==
  /\ IsServing /\ NextCommand(c)
  /\ Answer(c)
  /\ Overtake
  /\ candidate' = None /\ active' = None /\ phase' = "selecting"
  /\ staged' = staged \ {candidate}
  /\ change' = IF active # None THEN change + 1 ELSE change
  /\ late' = FALSE
  /\ calls' = IF active = None THEN calls
              ELSE [calls EXCEPT !.pc = "close", !.closing = active]
  /\ UNCHANGED <<epoch, stopped, runner, loads, unstarted>>

\* A plausible bug: the phase is "active" whether or not a session is left.
BuggyCancelSource(c) ==
  /\ IsServing /\ NextCommand(c)
  /\ Answer(c)
  /\ Overtake
  /\ candidate' = None /\ staged' = staged \ {candidate}
  /\ phase' = "active"
  /\ late' = FALSE
  /\ UNCHANGED <<active, epoch, change, stopped, calls, runner, loads, unstarted>>

\* cancel_source: back to the session that still plays.
CancelSource(c) ==
  /\ IsServing /\ NextCommand(c)
  /\ Answer(c)
  /\ Overtake
  /\ candidate' = None /\ staged' = staged \ {candidate}
  /\ phase' = IF active # None THEN "active" ELSE "selecting"
  /\ late' = FALSE
  /\ UNCHANGED <<active, epoch, change, stopped, calls, runner, loads, unstarted>>

\* host.stop(): with the lock, session and candidate are taken off.
TakeDown(exits, told) ==
  LET stopping == [calls EXCEPT !.stops = TRUE, !.exits = exits, !.told = told]
  IN IF stopped
     THEN /\ calls' = [stopping EXCEPT !.pc = IF exits THEN "ended" ELSE "serve"]
          /\ UNCHANGED <<host, loader, staged>>
     ELSE /\ stopped' = TRUE
          /\ Overtake
          /\ active' = None /\ candidate' = None /\ staged' = staged \ {candidate}
          /\ calls' = [stopping EXCEPT !.pc = IF active = None THEN "join" ELSE "close",
                                       !.closing = active]
          /\ UNCHANGED <<phase, epoch, change>>

\* stop
Stop(c) ==
  /\ IsServing /\ NextCommand(c)
  /\ Answer(c)
  /\ TakeDown(FALSE, FALSE)
  /\ UNCHANGED <<runner, loads, ghosts>>

\* Every other command is queued at the session, while one is active.  A full queue
\* raises in the loop of the worker, and an exception is the end of the worker: the
\* server is told of the exception, the command is not answered.
Submit(c) ==
  /\ IsServing /\ NextCommand(c)
  /\ \/ /\ phase # "active" \/ active = None
        /\ Answer(c)
        /\ UNCHANGED <<host, calls, loader, staged>>
     \/ /\ phase = "active" /\ active # None /\ Backlog(active) < QueueLimit
        /\ reply' = [reply EXCEPT ![c] = [at |-> "queued", of |-> active]]
        /\ UNCHANGED <<host, calls, loader, staged>>
     \/ /\ phase = "active" /\ active # None /\ Backlog(active) = QueueLimit
        /\ reply' = [reply EXCEPT ![c] = [at |-> "refused", of |-> active]]
        /\ TakeDown(TRUE, FALSE)
  /\ UNCHANGED <<runner, loads, ghosts>>

\* A plausible bug: the answers of the session are not looked for.
BuggyPollResponse ==
  /\ IsServing
  /\ \E c \in Commands :
       /\ reply[c] = [at |-> "answered", of |-> None]
       /\ reply' = [reply EXCEPT ![c].at = "delivered"]
  /\ UNCHANGED <<host, calls, loader, runner, loads, staged, ghosts>>

\* poll_response: the answers of the host, then those of the active session.
PollResponse ==
  /\ IsServing
  /\ \E c \in Commands :
       /\ reply[c].at = "answered" /\ reply[c].of \in {None, active}
       /\ reply' = [reply EXCEPT ![c].at = "delivered"]
  /\ UNCHANGED <<host, calls, loader, runner, loads, staged, ghosts>>

\* The server ends: "close", or the pipe is closed.
CloseWorker ==
  /\ IsServing
  /\ TakeDown(TRUE, TRUE)
  /\ UNCHANGED <<runner, loads, reply, ghosts>>

\* The rest of browse_sources and of stop(), where the thread of the loader is
\* waited for, for fifteen seconds at most.
StopsSession ==
  /\ calls.pc = "close" /\ ~runner[calls.closing].stop
  /\ runner' = [runner EXCEPT ![calls.closing] = AskedToStop(@)]
  /\ UNCHANGED <<host, calls, loader, data, ghosts>>

ClosesSession ==
  /\ calls.pc = "close" /\ runner[calls.closing].stop
  /\ Close(calls.closing)
  /\ calls' = [calls EXCEPT !.pc = IF calls.stops THEN "join" ELSE "serve", !.closing = None]
  /\ UNCHANGED <<host, loader, data, ghosts>>

JoinsLoader ==
  /\ calls.pc = "join"
  /\ calls' = [calls EXCEPT !.pc = IF calls.exits THEN "ended" ELSE "serve",
                            !.stops = FALSE]
  /\ UNCHANGED <<host, loader, runner, data, ghosts>>

-----------------------------------------------------------------------------
Init ==
  /\ phase = "selecting" /\ active = None /\ candidate = None
  /\ epoch = 0 /\ change = 0 /\ stopped = FALSE
  /\ calls = Serving /\ loader = NoLoader
  /\ runner = [l \in Loads |-> NoRunner]
  /\ loads = 0 /\ staged = {} /\ reply = [c \in Commands |-> Unsent]
  /\ late = FALSE /\ unstarted = {}

Command(c) == OpenSource(c) \/ Browse(c) \/ CancelSource(c) \/ Stop(c) \/ Submit(c)

Load ==
  \/ Progress \/ Report \/ Prepared \/ PrepareFails \/ Built \/ BuildFails
  \/ Discard \/ Install \/ StartFails \/ Raised \/ StopsPrevious \/ Replaced

Run(l) == RunnerEnds(l) \/ Applies(l) \/ Works(l) \/ HasWorked(l) \/ Breaks(l)

Next ==
  \/ \E c \in Commands : Command(c)
  \/ PollResponse \/ CloseWorker \/ StopsSession \/ ClosesSession \/ JoinsLoader
  \/ Load
  \/ \E l \in Loads : Run(l)

Spec == Init /\ [][Next]_vars

\* The server keeps polling (pump), the threads go on: a step ends one way or the
\* other, and so does what the loader waits for; a thread that has not broken drains
\* its commands at the head of its loop.  No user has to give a command.
Fairness ==
  /\ SF_vars(PollResponse)
  /\ WF_vars(StopsSession) /\ WF_vars(ClosesSession) /\ WF_vars(JoinsLoader)
  /\ WF_vars(Load)
  /\ \A l \in Loads :
       SF_vars(Applies(l)) /\ WF_vars(HasWorked(l) \/ Breaks(l)) /\ WF_vars(RunnerEnds(l))

FairSpec == Spec /\ Fairness

-----------------------------------------------------------------------------
(* Properties *)

Phases == {"selecting", "loading", "active", "error"}

CallStates ==
  [pc : {"serve", "close", "join", "ended"}, closing : Loads \cup {None},
   stops : BOOLEAN, exits : BOOLEAN, told : BOOLEAN]
LoaderStates ==
  [pc : {"idle", "prepare", "report", "activate", "built", "raised", "replace"},
   load : Loads \cup {None}, stale : BOOLEAN, next : Phases \cup {"none"},
   back : {"none", "prepare", "activate", "idle"}, previous : Loads \cup {None}]
Runners ==
  [thread : {"none", "idle", "busy", "ended", "broken"}, stop : BOOLEAN,
   env : {"none", "open", "closed"}, epoch : Nat, pauses : Nat]
Replies ==
  [at : {"unsent", "queued", "answered", "delivered", "refused"}, of : Loads \cup {None}]

HostTypeOK ==
  /\ phase \in Phases /\ {active, candidate} \subseteq Loads \cup {None}
  /\ epoch \in Nat /\ change \in Nat /\ stopped \in BOOLEAN
  /\ calls \in CallStates /\ loader \in LoaderStates /\ runner \in [Loads -> Runners]
  /\ loads \in 0..MaxLoads /\ staged \subseteq Loads /\ reply \in [Commands -> Replies]
  /\ late \in BOOLEAN /\ unstarted \subseteq Loads

Up == calls.pc # "ended"

\* Who has to close which session: the host the one that plays, the loop the one it
\* took off, the loader the one it built and the one it replaces.
Held == [host |-> active, calls |-> calls.closing, replaced |-> loader.previous,
         built |-> IF loader.pc = "built" THEN loader.load ELSE None]

\* An open environment has exactly one owner that is going to close it, unless its
\* session could not be started; a staged model is the loader's, and what the host
\* calls its candidate is staged.  Commands and loader take sessions from each other
\* at any moment.
SessionsAreOwned ==
  Up => /\ \A l \in Loads \ unstarted :
              runner[l].env = "open" <=> \E h \in DOMAIN Held : Held[h] = l
        /\ \A g, h \in DOMAIN Held : g # h /\ Held[g] = Held[h] => Held[g] = None
        /\ staged \subseteq {loader.load}
        /\ candidate # None => candidate \in staged /\ ~loader.stale

\* With no loader at work and no command under way the browser is not told that
\* something is loading, nor that a session plays when there is none, unless a
\* loader that was overtaken had the last word.
PhaseIsTrue ==
  calls.pc = "serve" /\ ~stopped /\ loader.pc = "idle" /\ ~late =>
    /\ phase # "loading"
    /\ phase = "active" => active # None

\* How a command may stay without an answer: its session has been replaced or closed;
\* the thread of its session broke (_step_once); a command met the full queue of a
\* session and ended the worker with all that was queued (submit); the server asked the
\* worker to end.
SessionGone(c) == reply[c].of \notin {None, active}
SessionBroke(c) == reply[c].of # None /\ runner[reply[c].of].thread = "broken"
Overflowed == \E d \in Commands : reply[d].at = "refused"

\* Every command that was sent is answered, but for these four: no stop, no replacement
\* of a session and no exit of its thread overtakes a command or an answer that is on
\* its way, and the worker ends for no other reason.
CommandsAreAnswered ==
  \A c \in Commands :
    reply[c].at # "unsent" ~>
      reply[c].at = "delivered" \/ SessionGone(c) \/ SessionBroke(c) \/ Overflowed \/ calls.told

=============================================================================
