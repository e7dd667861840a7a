--------------------------- MODULE RuntimeScheduler ---------------------------
(***************************************************************************)
(* src/docmirror/runtime/scheduler.py: one call of execute_plan.           *)
(*                                                                         *)
(* Everything runs on one asyncio event loop, which execute_unit gives     *)
(* away only while it waits for a semaphore, runs the handler or sleeps    *)
(* before a retry.  execute_plan runs the units whose dependencies have    *)
(* succeeded, waits for all of them, and looks again.                      *)
(*                                                                         *)
(* The ledger is the environment: any write may fail, before or after its  *)
(* line has reached the file (os.write, then os.fsync).  The handler may   *)
(* raise, or return a result whose status is anything.                     *)
(*                                                                         *)
(* An operator X_Slip next to X is X with a plausible slip of the code: it *)
(* takes no part in the specification.                                     *)
(***************************************************************************)
EXTENDS Naturals, FiniteSets, WorkUnitPlanner

CONSTANTS Plans,           \* the plans execute_plan may be called with
          MaxFileWorkers,  \* SchedulerConfig.max_file_workers
          MaxPageWorkers,  \* SchedulerConfig.max_page_workers
          MaxAttempts      \* RetryControl.max_attempts

ASSUME SchedulerAssumption ==
  /\ MaxFileWorkers \in Nat \ {0}
  /\ MaxPageWorkers \in Nat \ {0}
  /\ MaxAttempts \in Nat \ {0}

VARIABLES
  dependsOn,  \* the plan: depends_on of every unit
  stage,      \* where execute_unit stands with each unit
  tries,      \* the loop variable `attempt` of execute_unit
  attempt,    \* unit.attempt
  status,     \* unit.status
  journal,    \* the status in the unit's last line of the ledger
  outcome,    \* the status of the result of execute_unit
  verdict,    \* the aggregate status execute_plan returns
  returned,   \* history: the units whose handler has returned once
  lost        \* history: the units for which a write has failed

unitVars == <<stage, tries, attempt, status, journal, outcome, returned, lost>>
vars == <<dependsOn, unitVars, verdict>>

Units == DOMAIN dependsOn

Stages == {"idle", "ready", "waiting", "handling", "sleeping", "done"}
Statuses == {"pending", "running", "succeeded", "failed_retryable", "failed_final"}
\* "other": the handler returned a dict with another status.
Results == {"none", "succeeded", "other", "failed_final"}

Init ==
  /\ dependsOn \in Plans
  /\ stage = [u \in Units |-> "idle"]
  /\ tries = [u \in Units |-> 0]
  /\ attempt = [u \in Units |-> 0]
  /\ status = [u \in Units |-> "pending"]
  /\ journal = [u \in Units |-> "none"]
  /\ outcome = [u \in Units |-> "none"]
  /\ verdict = "none"
  /\ returned = {}
  /\ lost = {}
-----------------------------------------------------------------------------
(* ------------------------------ the ledger ----------------------------- *)
\* write_progress and write_work_unit succeed.
Written(u, line) == journal' = [journal EXCEPT ![u] = line]

\* One of them raises; the unit's line may have been written all the same.
WriteFails(u, before, line) ==
  /\ \E last \in {before, line} : journal' = [journal EXCEPT ![u] = last]
  /\ lost' = lost \cup {u}

Goto(u, place) == stage' = [stage EXCEPT ![u] = place]

\* execute_unit ends; gather(return_exceptions=True) keeps an exception that
\* leaves it, and execute_plan makes a failure of that.
Leave(u, result) ==
  /\ Goto(u, "done")
  /\ outcome' = [outcome EXCEPT ![u] = result]

(* ----------------------------- execute_unit ---------------------------- *)
\* One round of the loop up to the semaphore.  mark_running counts the
\* attempt the loop has just set once more.
Begin(u) ==
  /\ stage[u] \in {"ready", "sleeping"}
  /\ tries' = [tries EXCEPT ![u] = @ + 1]
  /\ attempt' = [attempt EXCEPT ![u] = tries[u] + 2]
  /\ status' = [status EXCEPT ![u] = "running"]
  /\ \/ Written(u, "running") /\ Goto(u, "waiting") /\ UNCHANGED <<outcome, lost>>
     \/ WriteFails(u, journal[u], "running") /\ Leave(u, "failed_final")
  /\ UNCHANGED <<dependsOn, verdict, returned>>

\* The holders of _page_semaphore (TRUE) and of _semaphore (FALSE).
Holders(concurrent) ==
  {u \in Units : stage[u] = "handling" /\ IsConcurrent(u) = concurrent}

Enter(u) ==
  /\ stage[u] = "waiting"
  /\ Cardinality(Holders(IsConcurrent(u)))
       < (IF IsConcurrent(u) THEN MaxPageWorkers ELSE MaxFileWorkers)
  /\ Goto(u, "handling")
  /\ UNCHANGED <<dependsOn, tries, attempt, status, journal, outcome, verdict,
                 returned, lost>>

\* The except branch, with the last line written so far and the units that
\* have lost one.  The backoff is a stage, not a time.
Failed(u, before, losing) ==
  LET retryable == tries[u] < MaxAttempts
      line == IF retryable THEN "failed_retryable" ELSE "failed_final"
  IN /\ status' = [status EXCEPT ![u] = line]
     /\ \/ WriteFails(u, before, line) /\ Leave(u, "failed_final")
        \/ /\ Written(u, line)
           /\ lost' = losing
           /\ IF retryable THEN Goto(u, "sleeping") /\ UNCHANGED outcome
                           ELSE Leave(u, "failed_final")

HandlerRaises(u) ==
  /\ stage[u] = "handling"
  /\ Failed(u, journal[u], lost)
  /\ UNCHANGED <<dependsOn, tries, attempt, verdict, returned>>

\* Slip: a write that fails after the handler's success is passed over.
HandlerReturns_Unwritten(u) ==
  /\ stage[u] = "handling"
  /\ returned' = returned \cup {u}
  /\ status' = [status EXCEPT ![u] = "succeeded"]
  /\ \E result \in {"succeeded", "other"} : Leave(u, result)
  /\ \/ Written(u, "succeeded") /\ UNCHANGED lost
     \/ WriteFails(u, journal[u], "succeeded")
  /\ UNCHANGED <<dependsOn, tries, attempt, verdict>>

\* The success is written inside the try block: when that fails, the unit
\* has failed.
HandlerReturns(u) ==
  /\ stage[u] = "handling"
  /\ returned' = returned \cup {u}
  /\ \/ /\ status' = [status EXCEPT ![u] = "succeeded"]
        /\ Written(u, "succeeded")
        /\ \E result \in {"succeeded", "other"} : Leave(u, result)
        /\ UNCHANGED lost
     \/ \E before \in {journal[u], "succeeded"} : Failed(u, before, lost \cup {u})
  /\ UNCHANGED <<dependsOn, tries, attempt, verdict>>

(* ----------------------------- execute_plan ---------------------------- *)
Succeeded(u) == u \in Units /\ stage[u] = "done" /\ outcome[u] = "succeeded"

\* `ready`: pending units whose dependencies have all succeeded.
Ready ==
  {u \in Units : stage[u] = "idle" /\ \A d \in dependsOn[u] : Succeeded(d)}

\* Slip: the loop goes on with the first unit that ends, not with the last.
BatchIsOver_First ==
  /\ verdict = "none"
  /\ \E u \in Units : stage[u] \in {"idle", "done"}

\* gather has returned: every unit is pending or has a result.
BatchIsOver ==
  /\ verdict = "none"
  /\ \A u \in Units : stage[u] \in {"idle", "done"}

NextBatch ==
  /\ BatchIsOver
  /\ Ready # {}
  /\ stage' = [u \in Units |-> IF u \in Ready THEN "ready" ELSE stage[u]]
  /\ UNCHANGED <<dependsOn, tries, attempt, status, journal, outcome, verdict,
                 returned, lost>>

\* Slip: every result that is not a failure counts as a success.
Aggregate_NotFailed ==
  LET finished == {u \in Units : stage[u] = "done"}
  IN IF \A u \in finished : outcome[u] # "failed_final" THEN "success"
     ELSE IF \E u \in finished : outcome[u] = "succeeded" THEN "partial"
     ELSE "failed"

\* all_succeeded and any_succeeded look at the results only, and a unit that
\* never ran has none.
Aggregate ==
  LET finished == {u \in Units : stage[u] = "done"}
  IN IF \A u \in finished : outcome[u] = "succeeded" THEN "success"
     ELSE IF \E u \in finished : outcome[u] = "succeeded" THEN "partial"
     ELSE "failed"

\* Slip: no break when nothing is ready, so the loop goes round for ever.
Conclude_NoBreak ==
  /\ BatchIsOver
  /\ Ready = {}
  /\ status' = [u \in Units |-> IF stage[u] = "idle" THEN "failed_final" ELSE status[u]]
  /\ verdict' = IF \A u \in Units : stage[u] = "done" THEN Aggregate ELSE verdict
  /\ UNCHANGED <<dependsOn, stage, tries, attempt, journal, outcome, returned, lost>>

\* The units left are marked dependency_failed, without a line in the ledger.
Conclude ==
  /\ BatchIsOver
  /\ Ready = {}
  /\ status' = [u \in Units |-> IF stage[u] = "idle" THEN "failed_final" ELSE status[u]]
  /\ verdict' = Aggregate
  /\ UNCHANGED <<dependsOn, stage, tries, attempt, journal, outcome, returned, lost>>

\* execute_plan has returned.
Finished == verdict # "none" /\ UNCHANGED vars
-----------------------------------------------------------------------------
HandlerEnds(u) == HandlerReturns(u) \/ HandlerRaises(u)

UnitStep(u) == Begin(u) \/ Enter(u) \/ HandlerEnds(u)

Next ==
  \/ \E u \in Units : UnitStep(u)
  \/ NextBatch
  \/ Conclude
  \/ Finished

Spec == Init /\ [][Next]_vars

AllUnits == UNION {DOMAIN plan : plan \in Plans}

\* The event loop runs what is ready, sleeps end, and so does every handler:
\* execute_unit sets no time limit.
Fairness ==
  /\ \A u \in AllUnits : WF_vars(u \in Units /\ UnitStep(u))
  /\ WF_vars(NextBatch \/ Conclude)

FairSpec == Spec /\ Fairness
-----------------------------------------------------------------------------
\* The types of the variables.
TypeOK ==
  /\ dependsOn \in Plans
  /\ stage \in [Units -> Stages]
  /\ tries \in [Units -> 0 .. MaxAttempts]
  /\ attempt \in [Units -> Nat]
  /\ status \in [Units -> Statuses]
  /\ journal \in [Units -> {"none"} \cup Statuses]
  /\ outcome \in [Units -> Results]
  /\ verdict \in {"none", "success", "partial", "failed"}
  /\ returned \subseteq Units
  /\ lost \subseteq Units

\* A set of units that keep each other from running: each depends on a unit of
\* the set, or on one that the plan does not have.
Entangled(plan, set) ==
  \A u \in set : \E d \in plan[u] : d \in set \/ d \notin DOMAIN plan

\* The units of a plan that can never run.
Stuck(plan) == UNION {set \in SUBSET DOMAIN plan : Entangled(plan, set)}

\* A plan that can be carried out.
Orderly(plan) == Stuck(plan) = {}

\* Units are marked dependency_failed without a result, and "success" looks at
\* the results only.  It is returned although units never ran, but only when
\* they are those the plan itself keeps from running, through a circle or a
\* missing unit: every other unit has run and succeeded.
SuccessMeansAll ==
  verdict = "success" => \A u \in Units : Succeeded(u) <=> u \notin Stuck(dependsOn)

\* The ledger and the results agree.  A unit reported as succeeded has its
\* success in the ledger; a unit of which no write was lost has its status
\* there; and a handler that has returned is called again only after a write
\* was lost.
LedgerAgrees ==
  \A u \in Units :
    /\ outcome[u] = "succeeded" => journal[u] = "succeeded" /\ status[u] = "succeeded"
    /\ u \notin lost /\ stage[u] \notin {"idle", "ready"} => journal[u] = status[u]
    /\ u \in returned \ lost => stage[u] = "done"

\* A unit is begun only after all its dependencies have succeeded.
DependenciesFirst ==
  \A u \in Units : stage[u] # "idle" => \A d \in dependsOn[u] : Succeeded(d)

\* A unit that can never run has not been begun.
StuckStayIdle == \A u \in Stuck(dependsOn) : stage[u] = "idle"

\* No unit is tried more often than max_attempts; unit.attempt is one ahead.
AttemptsCounted ==
  \A u \in Units :
    /\ tries[u] = 0 <=> stage[u] \in {"idle", "ready"}
    /\ stage[u] = "sleeping" => tries[u] < MaxAttempts
    /\ tries[u] > 0 => attempt[u] = tries[u] + 1

\* A verdict is final: nothing runs, nothing could be begun, and it is the
\* aggregate of the results.
VerdictIsDue ==
  verdict # "none" =>
    /\ \A u \in Units : stage[u] \in {"idle", "done"}
    /\ Ready = {}
    /\ verdict = Aggregate

\* A unit has a result exactly when execute_unit has ended.
ResultsAreFinal ==
  \A u \in Units : outcome[u] # "none" <=> stage[u] = "done"

\* The inductive invariant of the proofs.
SchedulerInv ==
  /\ TypeOK
  /\ DependenciesFirst
  /\ StuckStayIdle
  /\ AttemptsCounted
  /\ LedgerAgrees
  /\ ResultsAreFinal
  /\ VerdictIsDue

\* Without attempts, semaphores and the ledger, execute_plan runs a plan as
\* PlanRun says: a retry is part of a run, and a result is given once.
ResultSeen(point, how) ==
  IF point = "idle" THEN "pending"
  ELSE IF point # "done" THEN "running"
  ELSE IF how = "succeeded" THEN "succeeded" ELSE "failed"

PlanAsSeen == INSTANCE PlanRun WITH
  result <- [u \in Units |-> ResultSeen(stage[u], outcome[u])]

ImplementsPlanRun == PlanAsSeen!PlanSpec

\* execute_plan returns, whatever fails and whatever plan it is given.
PlanEnds == <>(verdict # "none")
=============================================================================
