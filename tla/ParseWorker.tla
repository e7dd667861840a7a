----------------------------- MODULE ParseWorker ------------------------------
(***************************************************************************)
(* What the process manager and a client can see of one worker process:    *)
(* the status in the manifest on disk and whether the process still works. *)
(* TaskExecution is shown to implement it, and TaskLifecycle is built on   *)
(* it.                                                                     *)
(***************************************************************************)
CONSTANT Alone  \* the task has one document, which shares its directory

VARIABLES status,  \* in manifest.json
          phase    \* working, finished (execute_parse_task has returned), dead

wvars == <<status, phase>>

WInit == status = "running" /\ phase = "working"

\* write_outputs of a single document puts the status of the parse result
\* into the task's manifest.
ShowOutputs ==
  /\ phase = "working"
  /\ Alone
  /\ status' \in {"success", "partial", "failure"}
  /\ UNCHANGED phase

\* execute_parse_task writes the final manifest and returns.
Conclude ==
  /\ phase = "working"
  /\ status' \in {"success", "failed"} \cup (IF Alone THEN {} ELSE {"partial"})
  /\ phase' = "finished"

\* The process is killed, or an exception ends it.
Fall ==
  /\ phase = "working"
  /\ phase' = "dead"
  /\ UNCHANGED status

WNext == ShowOutputs \/ Conclude \/ Fall

WSpec == WInit /\ [][WNext]_wvars
=============================================================================
