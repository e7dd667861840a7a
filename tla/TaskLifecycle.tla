---------------------------- MODULE TaskLifecycle -----------------------------
(***************************************************************************)
(* The life of tasks across the whole service: src/docmirror/server/       *)
(* task_api.py (submission, refusal, polling), the outcomes of the process *)
(* manager's monitors with its table of runtime results, the workers, and  *)
(* a service that may be shut down, crash and be started again.            *)
(*                                                                         *)
(* A task's truth is in two places: the manifest on disk, which only the   *)
(* worker writes once the task is accepted, and the table of failures in   *)
(* the memory of the service, which is bounded and lost with the process.  *)
(*                                                                         *)
(* Admission is a choice (ParseAdmission and ParseProcessManager say how   *)
(* it is made), and so is the moment of a timeout.  The worker of a task   *)
(* is ParseWorker, which TaskExecution implements.                         *)
(*                                                                         *)
(* An operator X_Slip next to X is X with a plausible slip of the code: it *)
(* takes no part in the specification and serves to confirm that the       *)
(* properties below notice such a slip.                                    *)
(***************************************************************************)
EXTENDS Naturals, Sequences, SequencesExt

CONSTANTS Tasks,
          Singles,    \* the tasks of one document
          MaxResults  \* _MAX_RUNTIME_RESULTS

ASSUME LifeAssumption == Singles \subseteq Tasks /\ MaxResults \in Nat \ {0}

VARIABLES
  service,     \* the process of the API: up, closing, down
  handler,     \* submit_upload_task, where it stands for each task
  told,        \* the last answer about the task that a client has got
  folder,      \* tasks whose directory exists
  manifest,    \* status in manifest.json
  monitor,     \* _run_reserved of each task, and how it ended
  worker,      \* the parser process of each task
  remembered,  \* _runtime_results: tasks, oldest first
  failures     \* history: every task that was put into this table, in order

requestVars == <<handler, told>>
diskVars == <<folder, manifest>>
table == <<remembered, failures>>
vars == <<service, requestVars, diskVars, monitor, worker, table>>

Terminal == {"success", "partial", "failed"}
Statuses == {"running", "failure"} \cup Terminal

\* A monitor that has not ended: it forks the process, is in process.wait(),
\* or waits for the end of a process it has told to end.
Ending == {"timing out", "cancelling"}
LiveMonitor == {"created", "spawning", "watching"} \cup Ending

\* The process has ended, or was never started.
Quiet == {"none", "exited", "dead"}

Init ==
  /\ service = "up"
  /\ handler = [t \in Tasks |-> "idle"]
  /\ told = [t \in Tasks |-> "nothing"]
  /\ folder = {}
  /\ manifest = [t \in Tasks |-> "none"]
  /\ monitor = [t \in Tasks |-> "none"]
  /\ worker = [t \in Tasks |-> "none"]
  /\ remembered = <<>>
  /\ failures = <<>>
-----------------------------------------------------------------------------
(* ---------------------------- submission ------------------------------- *)
HandlerAt(t, point) == handler' = [handler EXCEPT ![t] = point]
Tell(t, what) == told' = [told EXCEPT ![t] = what]

\* A valid request: _store_uploads creates the directory.
Submit(t) ==
  /\ service = "up"
  /\ handler[t] = "idle"
  /\ HandlerAt(t, "storing")
  /\ folder' = folder \cup {t}
  /\ UNCHANGED <<service, told, manifest, monitor, worker, table>>

\* Before the manifest exists anything may fail; only the uploads go.
StoreFails(t) ==
  /\ service # "down"
  /\ handler[t] = "storing"
  /\ HandlerAt(t, "ended")
  /\ Tell(t, "error")
  /\ UNCHANGED <<service, diskVars, monitor, worker, table>>

\* initialize_task_manifest; then start() asks for a slot.
InitializeManifest(t) ==
  /\ service # "down"
  /\ handler[t] = "storing"
  /\ HandlerAt(t, "starting")
  /\ manifest' = [manifest EXCEPT ![t] = "running"]
  /\ UNCHANGED <<service, told, folder, monitor, worker, table>>

\* start() raises (queue full, wait timeout, shutdown, cancellation): the
\* directory is removed.
Refuse(t) ==
  /\ service # "down"
  /\ handler[t] = "starting"
  /\ HandlerAt(t, "ended")
  /\ Tell(t, "refused")
  /\ folder' = folder \ {t}
  /\ manifest' = [manifest EXCEPT ![t] = "none"]
  /\ UNCHANGED <<service, monitor, worker, table>>

\* start() returns the monitor.  The request awaits it, or is answered at
\* once with what the manifest says.
Start(t) ==
  /\ service = "up"
  /\ handler[t] = "starting"
  /\ monitor' = [monitor EXCEPT ![t] = "created"]
  /\ \/ HandlerAt(t, "awaiting") /\ UNCHANGED told
     \/ HandlerAt(t, "ended") /\ Tell(t, manifest[t])
  /\ UNCHANGED <<service, diskVars, worker, table>>

(* ------------------------------- worker -------------------------------- *)
Process(t) == INSTANCE ParseWorker WITH
                Alone <- t \in Singles, status <- manifest[t], phase <- worker[t]

WorkerStep(t) ==
  /\ \E status \in Statuses, phase \in {"working", "finished", "dead"} :
       /\ manifest' = [manifest EXCEPT ![t] = status]
       /\ worker' = [worker EXCEPT ![t] = phase]
  /\ Process(t)!WNext
  /\ UNCHANGED <<service, requestVars, folder, monitor, table>>

\* run_worker returns 0 and the interpreter exits; at this point, too, the
\* process may still be killed.
WorkerExits(t) ==
  /\ worker[t] = "finished"
  /\ worker' = [worker EXCEPT ![t] = "exited"]
  /\ UNCHANGED <<service, requestVars, diskVars, monitor, table>>

WorkerKilled(t) ==
  /\ worker[t] = "finished"
  /\ worker' = [worker EXCEPT ![t] = "dead"]
  /\ UNCHANGED <<service, requestVars, diskVars, monitor, table>>

(* ------------------------------- monitor ------------------------------- *)
MonitorAt(t, point) ==
  /\ monitor' = [monitor EXCEPT ![t] = point]
  /\ UNCHANGED <<service, requestVars, diskVars, table>>

\* The process runs before create_subprocess_exec returns.
Spawn(t) ==
  /\ monitor[t] = "created"
  /\ worker' = [worker EXCEPT ![t] = "working"]
  /\ MonitorAt(t, "spawning")

\* The process is registered, unless the service is closing by then.
Register(t) ==
  /\ monitor[t] = "spawning"
  /\ MonitorAt(t, IF service = "closing" THEN "cancelling" ELSE "watching")
  /\ UNCHANGED worker

\* The monitor ends; a request that awaits it gets its answer.
MonitorEnds(t, how, answer) ==
  /\ monitor' = [monitor EXCEPT ![t] = how]
  /\ \/ handler[t] = "awaiting" /\ HandlerAt(t, "ended") /\ Tell(t, answer)
     \/ handler[t] # "awaiting" /\ UNCHANGED requestVars
  /\ UNCHANGED <<service, worker>>

\* Slip: popitem(last=True).
Remembering_PopsLast(t) ==
  LET all == Append(remembered, t)
  IN  IF Len(all) > MaxResults THEN Front(all) ELSE all

\* The table after _remember_runtime_failure: the oldest entry makes room.
Remembering(t) ==
  LET all == Append(remembered, t)
  IN  IF Len(all) > MaxResults THEN Tail(all) ELSE all

\* Slip: the failure is written to disk as well.
Remember_WritesManifest(t) ==
  \/ /\ manifest[t] # "failure"
     /\ remembered' = Remembering(t)
     /\ failures' = Append(failures, t)
     /\ manifest' = [manifest EXCEPT ![t] = "failed"]
     /\ MonitorEnds(t, "ended", "failed")
     /\ UNCHANGED folder
  \/ /\ manifest[t] = "failure"
     /\ MonitorEnds(t, "raised", "error")
     /\ UNCHANGED <<table, diskVars>>

\* _remember_runtime_failure: TaskResult does not accept the status "failure"
\* that write_outputs may have left, and then the monitor raises.
Remember(t) ==
  \/ /\ manifest[t] # "failure"
     /\ remembered' = Remembering(t)
     /\ failures' = Append(failures, t)
     /\ MonitorEnds(t, "ended", "failed")
     /\ UNCHANGED diskVars
  \/ /\ manifest[t] = "failure"
     /\ MonitorEnds(t, "raised", "error")
     /\ UNCHANGED <<table, diskVars>>

SpawnFails(t) ==
  /\ monitor[t] = "created"
  /\ Remember(t)

\* Slip: the manifest is looked at instead of the exit code.
SeeExit_Early(t) ==
  /\ monitor[t] = "watching"
  /\ worker[t] \in {"working", "finished", "exited"}
  /\ manifest[t] \in Terminal
  /\ MonitorEnds(t, "ended", manifest[t])
  /\ UNCHANGED <<diskVars, table>>

\* Exit code 0: the result is what the manifest says, if that can be read and
\* is terminal.
SeeExit(t) ==
  /\ monitor[t] = "watching"
  /\ worker[t] = "exited"
  /\ IF manifest[t] \in Terminal
     THEN MonitorEnds(t, "ended", manifest[t]) /\ UNCHANGED <<diskVars, table>>
     ELSE Remember(t)

\* Slip: the exit code is not looked at.
SeeCrash_TrustsManifest(t) ==
  /\ monitor[t] = "watching"
  /\ worker[t] = "dead"
  /\ MonitorEnds(t, "ended", manifest[t])
  /\ UNCHANGED <<diskVars, table>>

\* Any other exit code.
SeeCrash(t) ==
  /\ monitor[t] = "watching"
  /\ worker[t] = "dead"
  /\ Remember(t)

\* The hard timeout: the process is told to end.
ParseTimeout(t) ==
  /\ monitor[t] = "watching"
  /\ MonitorAt(t, "timing out")
  /\ UNCHANGED worker

\* Slip: the end of the process is not waited for.
TimedOut_AtOnce(t) ==
  /\ monitor[t] = "timing out"
  /\ Remember(t)

\* Whatever the process still wrote, the task has failed.
TimedOut(t) ==
  /\ monitor[t] = "timing out"
  /\ worker[t] \in Quiet
  /\ Remember(t)

\* Slip: a cancelled request removes the directory, as a refused one does.
CancelMonitor_RemovesTask(t) ==
  /\ handler[t] = "awaiting"
  /\ monitor[t] \in LiveMonitor \ {"cancelling"}
  /\ monitor' = [monitor EXCEPT ![t] = "cancelling"]
  /\ folder' = folder \ {t}
  /\ manifest' = [manifest EXCEPT ![t] = "none"]
  /\ UNCHANGED <<service, requestVars, worker, table>>

\* The request that awaits the monitor is cancelled and passes it on.  (What
\* a second cancellation does is in ParseProcessManager.)
CancelMonitor(t) ==
  /\ handler[t] = "awaiting"
  /\ monitor[t] \in LiveMonitor \ {"cancelling"}
  /\ MonitorAt(t, "cancelling")
  /\ UNCHANGED worker

\* A cancelled monitor remembers nothing.
Cancelled(t) ==
  /\ monitor[t] = "cancelling"
  /\ worker[t] \in Quiet
  /\ MonitorEnds(t, "cancelled", "error")
  /\ UNCHANGED <<diskVars, table>>

(* ------------------------------- polling ------------------------------- *)
\* get_task: 404 without a manifest, then the table, then the manifest.
Shown(t) ==
  IF manifest[t] = "none" THEN "nothing"
  ELSE IF t \in ToSet(remembered) THEN "failed"
  ELSE IF manifest[t] = "failure" THEN "error"
  ELSE manifest[t]

GetTask(t) ==
  /\ service = "up"
  /\ Shown(t) # "nothing"
  /\ Tell(t, Shown(t))
  /\ UNCHANGED <<service, handler, diskVars, monitor, worker, table>>

(* ------------------------------- service ------------------------------- *)
Shutdown ==
  /\ service = "up"
  /\ service' = "closing"
  /\ UNCHANGED <<requestVars, diskVars, monitor, worker, table>>

\* The process is gone, with its coroutines and its table.  Workers have
\* sessions of their own and go on.
Gone ==
  /\ service' = "down"
  /\ handler' = [t \in Tasks |-> IF handler[t] = "idle" THEN "idle" ELSE "ended"]
  /\ monitor' = [t \in Tasks |-> IF monitor[t] = "none" THEN "none" ELSE "past"]
  /\ remembered' = <<>>
  /\ failures' = <<>>
  /\ UNCHANGED <<told, diskVars, worker>>

\* shutdown() has waited for every monitor.
Exit ==
  /\ service = "closing"
  /\ \A t \in Tasks : monitor[t] \notin LiveMonitor
  /\ Gone

Crash ==
  /\ service # "down"
  /\ Gone

Boot ==
  /\ service = "down"
  /\ service' = "up"
  /\ UNCHANGED <<requestVars, diskVars, monitor, worker, table>>

RequestStep(t) ==
  \/ Submit(t)
  \/ StoreFails(t)
  \/ InitializeManifest(t)
  \/ Refuse(t)
  \/ Start(t)
  \/ GetTask(t)

ProcessStep(t) ==
  \/ WorkerStep(t)
  \/ WorkerExits(t)
  \/ WorkerKilled(t)

\* What the event loop does for a monitor whose wait is over.
MonitorRuns(t) ==
  \/ Spawn(t)
  \/ SpawnFails(t)
  \/ Register(t)
  \/ SeeExit(t)
  \/ SeeCrash(t)
  \/ TimedOut(t)
  \/ Cancelled(t)

Next ==
  \/ \E t \in Tasks :
       \/ RequestStep(t)
       \/ ProcessStep(t)
       \/ MonitorRuns(t)
       \/ ParseTimeout(t)
       \/ CancelMonitor(t)
  \/ Shutdown
  \/ Exit
  \/ Crash
  \/ Boot

Spec == Init /\ [][Next]_vars

(* Fairness.  The event loop runs what is ready, the hard timeout fires,   *)
(* and a process that is told to end does end (ParseProcessManager shows   *)
(* how).  Nobody has to submit, to poll, or to start the service again.    *)
Ends(t) ==
  /\ monitor[t] \in Ending
  /\ WorkerStep(t) \/ WorkerKilled(t)
  /\ worker'[t] = "dead"

FairSpec ==
  /\ Spec
  /\ \A t \in Tasks :
       /\ WF_vars(MonitorRuns(t))
       /\ WF_vars(ParseTimeout(t))
       /\ WF_vars(Ends(t))
-----------------------------------------------------------------------------
\* Type invariant.
LifeTypeOK ==
  /\ service \in {"up", "closing", "down"}
  /\ handler \in [Tasks -> {"idle", "storing", "starting", "awaiting", "ended"}]
  /\ told \in [Tasks -> {"nothing", "running", "refused", "error"} \cup Terminal]
  /\ folder \subseteq Tasks
  /\ manifest \in [Tasks -> {"none"} \cup Statuses]
  /\ monitor \in [Tasks -> {"none", "ended", "raised", "cancelled", "past"} \cup LiveMonitor]
  /\ worker \in [Tasks -> {"none", "working", "finished", "exited", "dead"}]
  /\ remembered \in Seq(Tasks)
  /\ Len(remembered) <= MaxResults
  /\ failures \in Seq(Tasks)

\* A request that is refused leaves nothing behind and starts nothing.
RefusedLeavesNothing ==
  \A t \in Tasks : told[t] = "refused" =>
    /\ t \notin folder /\ manifest[t] = "none"
    /\ monitor[t] = "none" /\ worker[t] = "none"

\* Nobody works on a task whose directory has been removed, whatever becomes
\* of the request that submitted it.
WorkHasAHome ==
  \A t \in Tasks :
    monitor[t] \in LiveMonitor \/ worker[t] # "none" => t \in folder /\ manifest[t] # "none"

\* The table had to forget the failure of the task: as many tasks as it has
\* room for have failed since.
Forgotten(t) == \E i \in 1 .. Len(failures) - MaxResults : failures[i] = t

\* As long as the service lives, a monitor that has ended without being
\* cancelled shows up as a terminal status: a failure, too, is shown as long
\* as the table has room for the failures that came after it.
EndIsReported ==
  \A t \in Tasks : monitor[t] = "ended" => Shown(t) \in Terminal \/ Forgotten(t)

\* What a worker has decided is never changed: not by a timeout or a crash
\* that comes after it, not by a shutdown, not by a restart.
VerdictStays ==
  [][\A t \in Tasks : worker[t] \in {"finished", "exited"} => manifest'[t] = manifest[t]]_vars

\* Once a monitor has returned, what a client is told stands, until the
\* service goes down or the table, being full, forgets this very failure as
\* its oldest.  (Before that it need not: see ToldIsDurable.)
AnswerStands ==
  [][\A t \in Tasks :
       monitor[t] = "ended" /\ Shown(t)' # Shown(t) =>
         \/ service' = "down"
         \/ Len(remembered) = MaxResults /\ t = Head(remembered)]_vars

\* With a single wait for the end of a process, the monitors and the workers
\* keep what MonitoredParse says, as those of ParseProcessManager do.
MonitorSeen(point) ==
  CASE point = "none" -> "none"
    [] point \in Ending -> "ending"
    [] point \in {"ended", "raised", "cancelled"} -> "over"
    [] point = "past" -> "lost"
    [] OTHER -> "watching"

ProcessSeen(phase) ==
  CASE phase = "none" -> "none"
    [] phase \in {"working", "finished"} -> "alive"
    [] OTHER -> "gone"

Parse == INSTANCE MonitoredParse WITH
  Requests <- Tasks,
  monitor <- [t \in Tasks |-> MonitorSeen(monitor[t])],
  process <- [t \in Tasks |-> ProcessSeen(worker[t])]

ImplementsMonitoredParse == Parse!MSpec

\* Every parse that the service monitors ends with a terminal status, unless
\* it is cancelled, unreadable, or the service goes down.
AcceptedEnds ==
  \A t \in Tasks :
    monitor[t] \in LiveMonitor ~>
      \/ monitor[t] \in {"cancelled", "raised", "past"}
      \/ Shown(t) \in Terminal

\* "Durable REST Task API routes": a terminal status that a client was told
\* is the status it is told ever after.
ToldIsDurable ==
  [][\A t \in Tasks : told[t] \in Terminal => told'[t] = told[t]]_vars

-----------------------------------------------------------------------------
(* The inductive invariant.                                                *)

\* Until start() has returned there is no monitor, and until the monitor forks
\* no process; what the request has stored by then is there.
NothingBeforeStart ==
  \A t \in Tasks :
    /\ handler[t] \in {"idle", "storing", "starting"} => monitor[t] = "none" /\ told[t] # "refused"
    /\ handler[t] \in {"storing", "starting"} => t \in folder
    /\ handler[t] = "starting" => manifest[t] = "running"
    /\ monitor[t] \in {"none", "created"} => worker[t] = "none"

\* The process of a monitor that has returned has ended.
EndedIsQuiet == \A t \in Tasks : monitor[t] = "ended" => worker[t] \in Quiet

\* The table is the end of the history.
TableIsRecent ==
  /\ Len(remembered) <= Len(failures)
  /\ Len(remembered) \in {Len(failures), MaxResults}
  /\ \A i \in 1 .. Len(remembered) :
       remembered[i] = failures[Len(failures) - Len(remembered) + i]

\* execute_parse_task returns after it has written a terminal status.
VerdictIsTerminal ==
  \A t \in Tasks : worker[t] \in {"finished", "exited"} => manifest[t] \in Terminal

LifeInv ==
  /\ LifeTypeOK
  /\ RefusedLeavesNothing
  /\ WorkHasAHome
  /\ EndIsReported
  /\ NothingBeforeStart
  /\ EndedIsQuiet
  /\ TableIsRecent
  /\ VerdictIsTerminal
=============================================================================
