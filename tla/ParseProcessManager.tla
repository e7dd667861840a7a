------------------------- MODULE ParseProcessManager -------------------------
(***************************************************************************)
(* src/docmirror/server/parse_process_manager.py: every granted slot of    *)
(* ParseAdmission carries one monitor task, and every monitor one parser   *)
(* process.  The monitor spawns the process, waits for it under a hard     *)
(* timeout, terminates it (SIGTERM, a grace period, SIGKILL) and gives the *)
(* slot back; shutdown() terminates whatever is registered and waits for   *)
(* the monitors.                                                           *)
(*                                                                         *)
(* The monitor suspends only while it spawns, in process.wait() and while  *)
(* it terminates; the code between two of these is one step.  A caller     *)
(* that waits for its monitor (wait=true) passes its own cancellation on,  *)
(* so a cancellation may arrive at every one of these points.              *)
(*                                                                         *)
(* _closing of the manager and of its queue are written in the same step   *)
(* by startup() and by shutdown(), so the variable closing is both.        *)
(* An operator X_Slip next to X is X with a plausible slip of the code, as *)
(* in ParseAdmission.                                                      *)
(***************************************************************************)
EXTENDS ParseAdmission

CONSTANTS
  EarlyCancel,   \* may a monitor be cancelled before its first step?
  RepeatCancel,  \* may it be cancelled again while it handles the first one?
  UnlinkFails    \* may the removal of the request file raise?

ASSUME CancelAssumption ==
  EarlyCancel \in BOOLEAN /\ RepeatCancel \in BOOLEAN /\ UnlinkFails \in BOOLEAN

VARIABLES
  monitor,     \* where the _run_reserved task of each request stands
  goal,        \* why it terminates its process
  answer,      \* what the task returned or raised
  process,     \* the parser process of each request
  registered,  \* the keys of self._processes
  stage,       \* of shutdown(): "open" before, "closed" after
  sweep,       \* how far shutdown() is with each process it listed
  awaited      \* the tasks that shutdown() listed

managerVars == <<monitor, goal, answer, process, registered, stage, sweep, awaited>>
shutdownVars == <<stage, sweep, awaited>>
allVars == <<vars, managerVars>>

Terminating == {"asking", "killing"}
LivePoints  == {"created", "spawning", "running"} \cup Terminating
Alive       == {"running", "asked", "killed"}
Answers     == {"result", "PARSE_TIMEOUT", "WORKER_CRASHED", "WORKER_INCOMPLETE",
                "WORKER_START_FAILED", "cancelled", "raised"}

LiveMonitors == {r \in Requests : monitor[r] \in LivePoints}
LiveProcesses == {r \in Requests : process[r] \in Alive}
-----------------------------------------------------------------------------
ManagerInit ==
  /\ Init
  /\ monitor = [r \in Requests |-> "none"]
  /\ goal = [r \in Requests |-> "none"]
  /\ answer = [r \in Requests |-> "none"]
  /\ process = [r \in Requests |-> "none"]
  /\ registered = {}
  /\ stage = "open"
  /\ sweep = [r \in Requests |-> "none"]
  /\ awaited = {}

At(r, point) == monitor' = [monitor EXCEPT ![r] = point]

(* -------------------------------- start() ------------------------------ *)
\* create_task in the step in which acquire() returned the slot.
Launch(r) ==
  /\ At(r, "created")
  /\ UNCHANGED <<goal, answer, process, registered, shutdownVars>>

StartAtOnce(r) == AcquireNow(r) /\ Launch(r)

\* Slip: _closing is not checked again after the wait.
StartAfterWait_Unchecked(r) ==
  /\ future[r] = "result"
  /\ ResumeResolved(r) \/ ResumeTooLate(r) \/ ResumeCancelDropped(r)
  /\ Launch(r)

StartAfterWait(r) ==
  /\ ~closing
  /\ future[r] = "result"
  /\ ResumeResolved(r) \/ ResumeTooLate(r) \/ ResumeCancelDropped(r)
  /\ Launch(r)

\* The slot was granted, but shutdown() came before start() ran again: the
\* slot goes back and the caller gets ParseManagerShuttingDownError.
StartRefused(r) ==
  /\ closing
  /\ pc[r] = Waiting
  /\ future[r] = "result"
  /\ ReleaseSlot
  /\ Goto(r, "refused")
  /\ UNCHANGED <<closing, wake, ticket, managerVars>>

\* acquire() suspends, goes on waiting or raises: no monitor is created.
StartWaitsOrFails(r) ==
  /\ \/ AcquireRefused(r)
     \/ AcquireFull(r)
     \/ AcquireQueue(r)
     \/ Expire(r)
     \/ Cancel(r)
     \/ ResumeTimedOut(r)
     \/ ResumeCancelled(r)
     \/ /\ future[r] = "exception"
        /\ ResumeResolved(r) \/ ResumeTooLate(r) \/ ResumeCancelDropped(r)
  /\ UNCHANGED managerVars

Start(r) ==
  \/ StartAtOnce(r)
  \/ StartAfterWait(r)
  \/ StartRefused(r)
  \/ StartWaitsOrFails(r)

(* ---------------------------- _run_reserved() -------------------------- *)
\* Slip: no release in the finally block.
Finish_KeepsSlot(r, what) ==
  /\ At(r, "done")
  /\ answer' = [answer EXCEPT ![r] = what]
  /\ registered' = registered \ {r}
  /\ UNCHANGED <<vars, goal, shutdownVars>>

\* Slip: the counter is decremented, the queue is not looked at.
Finish_NoHandOver(r, what) ==
  /\ At(r, "done")
  /\ answer' = [answer EXCEPT ![r] = what]
  /\ registered' = registered \ {r}
  /\ activeSlots' = Freed
  /\ Goto(r, "released")
  /\ UNCHANGED <<waiters, future, closing, wake, ticket, goal, shutdownVars>>

\* The finally block; its locks are free, so it does not suspend.
FinallyBlock(r, what) ==
  /\ At(r, "done")
  /\ answer' = [answer EXCEPT ![r] = what]
  /\ registered' = registered \ {r}
  /\ ReleaseSlot
  /\ Goto(r, "released")
  /\ UNCHANGED <<closing, wake, ticket, goal, shutdownVars>>

\* unlink() raises, and the rest of the block is skipped.
FinallyRaises(r) ==
  /\ UnlinkFails
  /\ At(r, "done")
  /\ answer' = [answer EXCEPT ![r] = "raised"]
  /\ UNCHANGED <<vars, goal, registered, shutdownVars>>

Finish(r, what) == FinallyBlock(r, what) \/ FinallyRaises(r)

\* A monitor that goes on keeps its slot and its caller where they are.
Proceed(r, point) ==
  /\ At(r, point)
  /\ UNCHANGED <<vars, answer, shutdownVars>>

Signal(r, state) ==
  process' = [process EXCEPT ![r] = IF @ = "killed" THEN @ ELSE state]

\* _terminate_process_group up to its first suspension.
Terminate(r, why, what) ==
  \/ /\ process[r] \notin Alive
     /\ Finish(r, what)
     /\ UNCHANGED process
  \/ /\ process[r] \in Alive
     /\ Proceed(r, "asking")
     /\ Signal(r, "asked")
     /\ goal' = [goal EXCEPT ![r] = why]
     /\ UNCHANGED registered

\* The first step: write the request file and fork the worker.
Spawn(r) ==
  /\ monitor[r] = "created"
  /\ Proceed(r, "spawning")
  /\ process' = [process EXCEPT ![r] = "running"]
  /\ UNCHANGED <<goal, registered>>

SpawnFails(r) ==
  /\ monitor[r] = "created"
  /\ Finish(r, "WORKER_START_FAILED")
  /\ UNCHANGED process

\* create_subprocess_exec returns: register the process.
Register(r) ==
  /\ monitor[r] = "spawning"
  /\ ~closing
  /\ Proceed(r, "running")
  /\ registered' = registered \cup {r}
  /\ UNCHANGED <<goal, process>>

\* ... or, when shutdown() has started meanwhile, terminate it unregistered.
RegisterRefused(r) ==
  /\ monitor[r] = "spawning"
  /\ closing
  /\ Terminate(r, "closing", "cancelled")

\* process.wait() returns an exit code; after exit 0 the manifest may still
\* be running, or be unreadable.
ExitSeen(r) ==
  /\ monitor[r] = "running"
  /\ \/ process[r] = "succeeded" /\ Finish(r, "result")
     \/ process[r] = "succeeded" /\ Finish(r, "WORKER_INCOMPLETE")
     \/ process[r] \in {"succeeded", "crashed"} /\ Finish(r, "WORKER_CRASHED")
  /\ UNCHANGED process

\* The hard timeout, which also wins when the process has just exited.
ParseTimeout(r) ==
  /\ monitor[r] = "running"
  /\ Terminate(r, "timeout", "PARSE_TIMEOUT")

Ending(r) == IF goal[r] = "timeout" THEN "PARSE_TIMEOUT" ELSE "cancelled"

\* The process is gone: termination is over.
Reaped(r) ==
  /\ monitor[r] \in Terminating
  /\ process[r] \notin Alive
  /\ Finish(r, Ending(r))
  /\ UNCHANGED process

\* Slip: nothing is done after the grace period ...
GraceExpires_GivesUp(r) ==
  /\ monitor[r] = "asking"
  /\ process[r] \in Alive
  /\ Finish(r, Ending(r))
  /\ UNCHANGED process

\* ... or SIGTERM is sent once more.
GraceExpires_AsksAgain(r) ==
  /\ monitor[r] = "asking"
  /\ process[r] \in Alive
  /\ Proceed(r, "killing")
  /\ UNCHANGED <<goal, registered, process>>

\* The grace period is over: SIGKILL, then wait without a timeout.
GraceExpires(r) ==
  /\ monitor[r] = "asking"
  /\ process[r] \in Alive
  /\ Proceed(r, "killing")
  /\ Signal(r, "killed")
  /\ UNCHANGED <<goal, registered>>

(* ----------------------- a cancelled _run_reserved --------------------- *)
\* Before its first step: the body never runs and neither does its finally,
\* so the slot is not released.
CancelBeforeStart(r) ==
  /\ EarlyCancel
  /\ monitor[r] = "created"
  /\ At(r, "done")
  /\ answer' = [answer EXCEPT ![r] = "cancelled"]
  /\ UNCHANGED <<vars, goal, process, registered, shutdownVars>>

\* In create_subprocess_exec: asyncio kills the child and waits for it.
CancelSpawn(r) ==
  /\ monitor[r] = "spawning"
  /\ \/ /\ process[r] \notin Alive
        /\ Finish(r, "cancelled")
        /\ UNCHANGED process
     \/ /\ process[r] \in Alive
        /\ Proceed(r, "killing")
        /\ Signal(r, "killed")
        /\ goal' = [goal EXCEPT ![r] = "cancel"]
        /\ UNCHANGED registered

\* In process.wait(), or while terminating for another reason: terminate
\* (again) from the CancelledError handler.
CancelMonitor(r) ==
  /\ \/ monitor[r] = "running"
     \/ monitor[r] \in Terminating /\ goal[r] # "cancel"
  /\ Terminate(r, "cancel", "cancelled")

\* While terminating because of a cancellation: the handler is left at once.
CancelAgain(r) ==
  /\ RepeatCancel
  /\ monitor[r] \in Terminating
  /\ goal[r] = "cancel"
  /\ Finish(r, "cancelled")
  /\ UNCHANGED process

MonitorCancelled(r) ==
  \/ CancelBeforeStart(r)
  \/ CancelSpawn(r)
  \/ CancelMonitor(r)
  \/ CancelAgain(r)

MonitorRuns(r) ==
  \/ Spawn(r)
  \/ SpawnFails(r)
  \/ Register(r)
  \/ RegisterRefused(r)
  \/ ExitSeen(r)
  \/ Reaped(r)

(* --------------------------- the parser process ------------------------ *)
ProcessExits(r) ==
  /\ \/ /\ process[r] \in {"running", "asked"}
        /\ process' = [process EXCEPT ![r] = "succeeded"]
     \/ /\ process[r] \in Alive
        /\ process' = [process EXCEPT ![r] = "crashed"]
  /\ UNCHANGED <<vars, monitor, goal, answer, registered, shutdownVars>>

(* -------------------------- shutdown(), startup() ---------------------- *)
\* Slip: only the tasks whose process is registered are awaited.
BeginShutdown_RegisteredOnly ==
  /\ stage = "open"
  /\ CloseQueue
  /\ stage' = "closing"
  /\ sweep' = [r \in Requests |-> IF r \in registered THEN "listed" ELSE "none"]
  /\ awaited' = registered
  /\ UNCHANGED <<pc, wake, ticket, monitor, goal, answer, process, registered>>

BeginShutdown ==
  /\ stage = "open"
  /\ CloseQueue
  /\ stage' = "closing"
  /\ sweep' = [r \in Requests |-> IF r \in registered THEN "listed" ELSE "none"]
  /\ awaited' = LiveMonitors
  /\ UNCHANGED <<pc, wake, ticket, monitor, goal, answer, process, registered>>

SweepTo(r, point) ==
  /\ sweep' = [sweep EXCEPT ![r] = point]
  /\ UNCHANGED <<vars, monitor, goal, answer, registered, stage, awaited>>

\* shutdown() deals with one process after the other.
HasTurn(r) ==
  /\ sweep[r] # "none"
  /\ \A q \in Requests \ {r} : sweep[q] \notin Terminating

\* The next listed process; the order of the list is left open.
ShutdownTerminates(r) ==
  /\ HasTurn(r)
  /\ sweep[r] = "listed"
  /\ process[r] \in Alive
  /\ SweepTo(r, "asking")
  /\ Signal(r, "asked")

ShutdownGraceExpires(r) ==
  /\ sweep[r] = "asking"
  /\ process[r] \in Alive
  /\ SweepTo(r, "killing")
  /\ Signal(r, "killed")

\* Slip: `if process.returncode` for `is not None`: 0 counts as running.
ShutdownPasses_Truthy(r) ==
  /\ HasTurn(r)
  /\ process[r] = "crashed"
  /\ SweepTo(r, "none")
  /\ UNCHANGED process

\* The process is found, or has become, dead.
ShutdownPasses(r) ==
  /\ HasTurn(r)
  /\ process[r] \notin Alive
  /\ SweepTo(r, "none")
  /\ UNCHANGED process

\* Slip: the monitors are not gathered.
EndShutdown_NoGather ==
  /\ stage = "closing"
  /\ \A r \in Requests : sweep[r] = "none"
  /\ stage' = "closed"
  /\ awaited' = {}
  /\ UNCHANGED <<vars, monitor, goal, answer, process, registered, sweep>>

\* The list is done and gather() returns.
EndShutdown ==
  /\ stage = "closing"
  /\ \A r \in Requests : sweep[r] = "none"
  /\ awaited \cap LiveMonitors = {}
  /\ stage' = "closed"
  /\ awaited' = {}
  /\ UNCHANGED <<vars, monitor, goal, answer, process, registered, sweep>>

ManagerStartup ==
  /\ stage = "closed"
  /\ stage' = "open"
  /\ Startup
  /\ UNCHANGED <<monitor, goal, answer, process, registered, sweep, awaited>>

ManagerNext ==
  \/ \E r \in Requests :
       \/ Start(r)
       \/ MonitorRuns(r)
       \/ ParseTimeout(r)
       \/ GraceExpires(r)
       \/ MonitorCancelled(r)
       \/ ProcessExits(r)
       \/ ShutdownTerminates(r)
       \/ ShutdownGraceExpires(r)
       \/ ShutdownPasses(r)
  \/ BeginShutdown
  \/ EndShutdown
  \/ ManagerStartup

ManagerSpec == ManagerInit /\ [][ManagerNext]_allVars
-----------------------------------------------------------------------------
(* Fairness.  The event loop runs what is ready and fires timers that are  *)
(* due, and the operating system ends a process that got SIGKILL.  Nothing *)
(* is assumed of a process that got no signal or SIGTERM only, nobody has  *)
(* to submit, to cancel or to shut down.                                   *)
Runnable(r) ==
  \/ StartAfterWait(r)
  \/ StartRefused(r)
  \/ StartWaitsOrFails(r) /\ pc[r] = Waiting /\ pc'[r] # Waiting
  \/ MonitorRuns(r)

Due(r) == ParseTimeout(r) \/ GraceExpires(r)

FairSpec ==
  /\ ManagerSpec
  /\ \A r \in Requests :
       /\ WF_allVars(Runnable(r))
       /\ WF_allVars(Due(r))
       /\ WF_allVars(ShutdownTerminates(r))
       /\ WF_allVars(ShutdownPasses(r))
       /\ WF_allVars(ShutdownGraceExpires(r))
       /\ WF_allVars(process[r] = "killed" /\ ProcessExits(r))
  /\ WF_allVars(EndShutdown)
-----------------------------------------------------------------------------
\* Type invariant.
ManagerTypeOK ==
  /\ monitor \in [Requests -> {"none", "done"} \cup LivePoints]
  /\ goal \in [Requests -> {"none", "closing", "timeout", "cancel"}]
  /\ answer \in [Requests -> {"none"} \cup Answers]
  /\ process \in [Requests -> {"none", "succeeded", "crashed"} \cup Alive]
  /\ registered \subseteq Requests
  /\ stage \in {"open", "closing", "closed"}
  /\ sweep \in [Requests -> {"none", "listed"} \cup Terminating]
  /\ awaited \subseteq Requests

\* Granted slots whose start() has not run again yet.
Granted == {r \in Requests : pc[r] = Waiting /\ future[r] = "result"}

\* Monitors cancelled before their first step: nothing of them has run.
CutShort ==
  {r \in Requests : monitor[r] = "done" /\ answer[r] = "cancelled" /\ process[r] = "none"}

\* Monitors that ended in, or after, the handling of a cancellation.
Interrupted == {r \in Requests : monitor[r] = "done" /\ goal[r] = "cancel"}

\* Monitors whose finally block raised: they gave nothing back.
Uncleaned == {r \in Requests : monitor[r] = "done" /\ answer[r] = "raised"}

\* Every slot that is taken has a live monitor that will give it back, or a
\* caller that is about to create one: no way out of _run_reserved or of
\* start() leaks a slot or returns one that is still in use.  Only a monitor
\* that never took its first step, or whose finally block raised, keeps it.
SlotsAreMonitored == Holders = Granted \cup LiveMonitors \cup CutShort \cup Uncleaned

\* Nobody gives a slot back while its parser process is still alive: every
\* live process has a live monitor, unless that was cancelled, which may
\* happen a second time while it terminates the process.
NoOrphan == LiveProcesses \subseteq LiveMonitors \cup Interrupted

\* At most DOCMIRROR_MAX_ACTIVE_PARSES parser processes exist at a time, those
\* not counted that have got their SIGKILL and are as good as gone.
ProcessesWithinLimit ==
  MaxActive > 0 =>
    Cardinality({r \in Requests : process[r] \in {"running", "asked"}}) <= MaxActive

\* shutdown() can find every process it has to terminate: one that runs
\* unattended (its monitor is in process.wait()) is registered, and one that
\* shutdown() did not list is being terminated by its own monitor.
NoneMissedByShutdown ==
  \A r \in Requests :
    /\ monitor[r] = "running" => r \in registered
    /\ stage = "closing" /\ monitor[r] = "running" /\ process[r] = "running" => sweep[r] = "listed"

\* When shutdown() has returned there is no monitor, the registry has only
\* entries that nobody could remove, and no parser process is left but those
\* of interrupted monitors.
ShutdownIsComplete ==
  stage = "closed" =>
    LiveMonitors = {} /\ LiveProcesses \subseteq Interrupted /\ registered \subseteq Uncleaned

\* Once shutdown() has returned, and the callers it overtook have been told,
\* no slot is taken.
ShutdownFreesSlots == stage = "closed" /\ Granted = {} => activeSlots = 0

\* The inductive invariant behind these properties.  It holds whatever
\* cancellation the event loop delivers.
MonitorsHoldSlots == \A r \in LiveMonitors \cup Uncleaned : pc[r] = "held"

BeforeTheMonitor ==
  \A r \in Requests :
    /\ pc[r] \notin {"held", "released"} => monitor[r] = "none"
    /\ monitor[r] \in {"none", "created"} => process[r] = "none"
    /\ monitor[r] \in LivePoints \ {"created"} => process[r] # "none"

ShutdownBookkeeping ==
  /\ \A r \in registered : monitor[r] \in {"running"} \cup Terminating \/ r \in Uncleaned
  /\ closing <=> stage # "open"
  /\ stage = "closing" => LiveMonitors \subseteq awaited
  /\ stage = "closed" => LiveMonitors = {}

SupervisionInv ==
  /\ AdmissionInv
  /\ ManagerTypeOK
  /\ MonitorsHoldSlots
  /\ BeforeTheMonitor
  /\ ShutdownBookkeeping
  /\ NoneMissedByShutdown

\* No monitor is created after shutdown() has started.
NoMonitorWhileClosing == [][closing => LiveMonitors' \subseteq LiveMonitors]_allVars

\* Seen without its signals, timers and suspensions, the manager keeps one
\* process and one monitor per request as MonitoredParse says.
MonitorSeen(point, why) ==
  CASE point = "none" -> "none"
    [] point \in Terminating -> "ending"
    [] point = "done" -> IF why = "cancel" THEN "interrupted" ELSE "over"
    [] OTHER -> "watching"

ProcessSeen(state) ==
  CASE state = "none" -> "none"
    [] state \in Alive -> "alive"
    [] OTHER -> "gone"

Parse == INSTANCE MonitoredParse WITH
  monitor <- [r \in Requests |-> MonitorSeen(monitor[r], goal[r])],
  process <- [r \in Requests |-> ProcessSeen(process[r])]

ImplementsMonitoredParse == Parse!MSpec

\* The hard timeout and the two signals end every parse, also when the
\* process ignores SIGTERM, so every slot comes back.
SlotsComeBack == \A r \in Requests : pc[r] = "held" ~> pc[r] = "released"

\* shutdown() returns, whatever the processes and the callers do.
ShutdownReturns == stage = "closing" ~> stage = "closed"
=============================================================================
