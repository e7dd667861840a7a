---------------------------- MODULE MonitoredParse ----------------------------
(***************************************************************************)
(* One monitor and one process per parse, whatever the signals, timers and *)
(* coroutines between them: a process is forked once, and only while its   *)
(* monitor watches; a monitor that has told it to end does not change its  *)
(* mind; and a monitor does not return before its process has ended,       *)
(* unless it is cut short or the service goes down under it.               *)
(*                                                                         *)
(* ParseProcessManager is shown to implement it with all its signals, and  *)
(* TaskLifecycle with a single wait for the end of the process: two models *)
(* of the same _run_reserved that agree on what this module says.          *)
(***************************************************************************)
CONSTANT Requests

VARIABLES monitor,  \* none, watching, ending, over, interrupted, lost
          process   \* none, alive, gone

mvars == <<monitor, process>>

MInit ==
  /\ monitor = [r \in Requests |-> "none"]
  /\ process = [r \in Requests |-> "none"]

MonitorTo(r, point) ==
  /\ monitor' = [monitor EXCEPT ![r] = point]
  /\ UNCHANGED process

ProcessTo(r, state) ==
  /\ process' = [process EXCEPT ![r] = state]
  /\ UNCHANGED monitor

Watch(r) == monitor[r] = "none" /\ MonitorTo(r, "watching")

Fork(r) == monitor[r] = "watching" /\ process[r] = "none" /\ ProcessTo(r, "alive")

\* By itself, by a signal, or killed from outside; monitored or not.
End(r) == process[r] = "alive" /\ ProcessTo(r, "gone")

\* A timeout, a cancellation or a shutdown.
TellToEnd(r) == monitor[r] = "watching" /\ MonitorTo(r, "ending")

Return(r) ==
  /\ monitor[r] \in {"watching", "ending"}
  /\ process[r] # "alive"
  /\ MonitorTo(r, "over")

\* A cancellation ends the monitor, with its process or without.
Interrupt(r) == monitor[r] = "ending" /\ MonitorTo(r, "interrupted")

\* The service goes down: its monitors are lost, its processes go on.
Lose ==
  /\ monitor' = [r \in Requests |-> IF monitor[r] = "none" THEN "none" ELSE "lost"]
  /\ UNCHANGED process

MNext ==
  \/ \E r \in Requests :
       Watch(r) \/ Fork(r) \/ End(r) \/ TellToEnd(r) \/ Return(r) \/ Interrupt(r)
  \/ Lose

MSpec == MInit /\ [][MNext]_mvars
-----------------------------------------------------------------------------
\* What follows from it: a monitor that has returned leaves no process behind,
\* and there is no process that no monitor has watched.
MInv ==
  /\ monitor \in [Requests -> {"none", "watching", "ending", "over", "interrupted", "lost"}]
  /\ process \in [Requests -> {"none", "alive", "gone"}]
  /\ \A r \in Requests :
       /\ monitor[r] = "over" => process[r] # "alive"
       /\ monitor[r] = "none" => process[r] = "none"
=============================================================================
