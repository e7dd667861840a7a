------------------------------- MODULE PlanRun --------------------------------
(***************************************************************************)
(* What execute_plan of src/docmirror/runtime/scheduler.py promises of a   *)
(* plan, without attempts, workers and the ledger: the units run in        *)
(* rounds, each with all the units whose dependencies have succeeded; a    *)
(* unit runs once and its result stands; when no round can follow, the     *)
(* verdict is drawn from the results, once.                                *)
(***************************************************************************)
VARIABLES dependsOn,  \* the plan
          result,     \* of each unit: pending, running, succeeded, failed
          verdict     \* none, success, partial, failed

run == <<dependsOn, result, verdict>>

Units == DOMAIN dependsOn

PlanInit ==
  /\ result = [u \in Units |-> "pending"]
  /\ verdict = "none"

Having(state) == {u \in Units : result[u] = state}

Startable ==
  {u \in Having("pending") : dependsOn[u] \subseteq Having("succeeded")}

RoundIsOver == verdict = "none" /\ Having("running") = {}

StartRound ==
  /\ RoundIsOver
  /\ Startable # {}
  /\ result' = [u \in Units |-> IF u \in Startable THEN "running" ELSE result[u]]
  /\ UNCHANGED <<dependsOn, verdict>>

EndUnit(u) ==
  /\ result[u] = "running"
  /\ \E how \in {"succeeded", "failed"} : result' = [result EXCEPT ![u] = how]
  /\ UNCHANGED <<dependsOn, verdict>>

\* Units that never ran do not count.
VerdictOfResults ==
  IF Having("failed") = {} THEN "success"
  ELSE IF Having("succeeded") # {} THEN "partial"
  ELSE "failed"

Conclude ==
  /\ RoundIsOver
  /\ Startable = {}
  /\ verdict' = VerdictOfResults
  /\ UNCHANGED <<dependsOn, result>>

PlanNext == StartRound \/ Conclude \/ \E u \in Units : EndUnit(u)

PlanSpec == PlanInit /\ [][PlanNext]_run
-----------------------------------------------------------------------------
\* What follows from it: a unit runs only after all it depends on, and what is
\* returned is true of the results then and ever after.
PlanInv ==
  /\ result \in [Units -> {"pending", "running", "succeeded", "failed"}]
  /\ \A u \in Units : result[u] # "pending" => dependsOn[u] \subseteq Having("succeeded")
  /\ verdict # "none" =>
       /\ Having("running") = {}
       /\ Startable = {}
       /\ verdict = VerdictOfResults
=============================================================================
