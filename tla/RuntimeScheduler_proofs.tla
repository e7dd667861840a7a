----------------------- MODULE RuntimeScheduler_proofs ------------------------
(***************************************************************************)
(* Proofs about RuntimeScheduler for every plan, finite or not, and every  *)
(* number of workers and attempts.                                         *)
(***************************************************************************)
EXTENDS RuntimeScheduler, WellFoundedInduction, TLAPS

(* ---------------------- units that can never run ----------------------- *)
\* The units that can never run are entangled with each other.
LEMMA StuckIsEntangled ==
  ASSUME NEW plan
  PROVE  Stuck(plan) \subseteq DOMAIN plan /\ Entangled(plan, Stuck(plan))
<1>1. ASSUME NEW u \in Stuck(plan)
      PROVE  \E d \in plan[u] : d \in Stuck(plan) \/ d \notin DOMAIN plan
  <2>1. PICK set \in SUBSET DOMAIN plan : Entangled(plan, set) /\ u \in set
    BY DEF Stuck
  <2>2. set \subseteq Stuck(plan)
    BY <2>1 DEF Stuck
  <2> QED
    BY <2>1, <2>2 DEF Entangled
<1> QED
  BY <1>1 DEF Stuck, Entangled

\* A unit that can never run is not ready while its like have not begun.
LEMMA StuckNotReady ==
  ASSUME StuckStayIdle PROVE Ready \cap Stuck(dependsOn) = {}
<1> SUFFICES ASSUME NEW u \in Ready, u \in Stuck(dependsOn) PROVE FALSE
  OBVIOUS
<1>1. PICK d \in dependsOn[u] : d \in Stuck(dependsOn) \/ d \notin Units
  BY StuckIsEntangled DEF Entangled, Units
<1>2. ~Succeeded(d)
  BY <1>1 DEF StuckStayIdle, Succeeded
<1> QED
  BY <1>2 DEF Ready

(* -------------------------- one unit at a time ------------------------- *)
\* What a step of unit u may do to the unit's own part of the state.
UnitKeeps(u) ==
  /\ stage'[u] \in Stages \ {"idle"}
  /\ tries'[u] \in 0 .. MaxAttempts
  /\ attempt'[u] \in Nat
  /\ status'[u] \in Statuses
  /\ journal'[u] \in {"none"} \cup Statuses
  /\ outcome'[u] \in Results
  /\ tries'[u] = 0 <=> stage'[u] = "ready"
  /\ stage'[u] = "sleeping" => tries'[u] < MaxAttempts
  /\ tries'[u] > 0 => attempt'[u] = tries'[u] + 1
  /\ outcome'[u] = "succeeded" => journal'[u] = "succeeded" /\ status'[u] = "succeeded"
  /\ u \notin lost' /\ stage'[u] # "ready" => journal'[u] = status'[u]
  /\ u \in returned' \ lost' => stage'[u] = "done"
  /\ outcome'[u] # "none" <=> stage'[u] = "done"

\* A step that changes nothing but one unit which is being executed keeps the
\* invariant, if it keeps the unit's own part.
LEMMA OneUnit ==
  ASSUME SchedulerInv, NEW u \in Units, stage[u] \notin {"idle", "done"},
         stage' = [stage EXCEPT ![u] = stage'[u]],
         tries' = [tries EXCEPT ![u] = tries'[u]],
         attempt' = [attempt EXCEPT ![u] = attempt'[u]],
         status' = [status EXCEPT ![u] = status'[u]],
         journal' = [journal EXCEPT ![u] = journal'[u]],
         outcome' = [outcome EXCEPT ![u] = outcome'[u]],
         returned \subseteq returned', returned' \subseteq returned \cup {u},
         lost \subseteq lost', lost' \subseteq lost \cup {u},
         dependsOn' = dependsOn, verdict' = verdict,
         UnitKeeps(u)
  PROVE  SchedulerInv'
<1> USE DEF SchedulerInv
<1>1. Units' = Units /\ verdict = "none" /\ verdict' = "none"
  BY DEF VerdictIsDue, Units, TypeOK
<1>2. TypeOK'
  BY <1>1 DEF TypeOK, UnitKeeps
<1>3. /\ stage'[u] # "idle"
      /\ \A v \in Units \ {u} :
           /\ stage'[v] = stage[v] /\ tries'[v] = tries[v] /\ attempt'[v] = attempt[v]
           /\ status'[v] = status[v] /\ journal'[v] = journal[v]
           /\ outcome'[v] = outcome[v]
           /\ v \in lost' <=> v \in lost
           /\ v \in returned' <=> v \in returned
  BY DEF TypeOK, UnitKeeps
<1>4. DependenciesFirst'
  <2> SUFFICES ASSUME NEW v \in Units, stage'[v] # "idle", NEW d \in dependsOn[v]
               PROVE  Succeeded(d)'
    BY <1>1 DEF DependenciesFirst
  <2>1. stage[v] # "idle"
    BY <1>3
  <2>2. Succeeded(d)
    BY <2>1 DEF DependenciesFirst
  <2> QED
    BY <2>2, <1>1, <1>3 DEF Succeeded
<1>5. AttemptsCounted'
  BY <1>1, <1>3 DEF AttemptsCounted, UnitKeeps
<1>6. LedgerAgrees'
  BY <1>1, <1>3 DEF LedgerAgrees, UnitKeeps
<1>7. ResultsAreFinal'
  BY <1>1, <1>3 DEF ResultsAreFinal, UnitKeeps
<1>8. VerdictIsDue'
  BY <1>1 DEF VerdictIsDue
<1>9. StuckStayIdle'
  BY <1>3, StuckIsEntangled DEF StuckStayIdle, Units
<1> QED
  BY <1>2, <1>4, <1>5, <1>6, <1>7, <1>8, <1>9

LEMMA BeginKeeps ==
  ASSUME SchedulerInv, NEW u \in Units, Begin(u) PROVE SchedulerInv'
<1>1. tries[u] \in Nat /\ tries[u] < MaxAttempts /\ MaxAttempts \in Nat
  BY SchedulerAssumption DEF SchedulerInv, TypeOK, AttemptsCounted, Begin
<1>2. /\ tries'[u] = tries[u] + 1 /\ attempt'[u] = tries[u] + 2
      /\ status'[u] = "running"
  BY DEF Begin, SchedulerInv, TypeOK
<1>3. outcome[u] = "none" /\ u \notin returned \ lost
  BY DEF SchedulerInv, TypeOK, ResultsAreFinal, LedgerAgrees, Begin
<1>4. journal[u] \in {"none"} \cup Statuses
  BY DEF SchedulerInv, TypeOK
<1>5. UnitKeeps(u) /\ lost \subseteq lost' /\ lost' \subseteq lost \cup {u}
  <2>1. CASE /\ Written(u, "running") /\ Goto(u, "waiting")
             /\ UNCHANGED <<outcome, lost>>
    <3>1. stage'[u] = "waiting" /\ journal'[u] = "running" /\ outcome'[u] = "none"
          /\ lost' = lost
      BY <2>1, <1>3 DEF Written, Goto, SchedulerInv, TypeOK
    <3> QED
      BY <3>1, <1>1, <1>2, <1>3 DEF UnitKeeps, Stages, Statuses, Results, Begin
  <2>2. CASE WriteFails(u, journal[u], "running") /\ Leave(u, "failed_final")
    <3>1. stage'[u] = "done" /\ outcome'[u] = "failed_final"
          /\ lost' = lost \cup {u} /\ journal'[u] \in {journal[u], "running"}
      BY <2>2 DEF WriteFails, Leave, Goto, SchedulerInv, TypeOK
    <3> QED
      BY <3>1, <1>1, <1>2, <1>4 DEF UnitKeeps, Stages, Statuses, Results
  <2> QED
    BY <2>1, <2>2 DEF Begin
<1>6. /\ stage' = [stage EXCEPT ![u] = stage'[u]]
      /\ journal' = [journal EXCEPT ![u] = journal'[u]]
      /\ outcome' = [outcome EXCEPT ![u] = outcome'[u]]
  BY DEF Begin, Written, WriteFails, Leave, Goto, SchedulerInv, TypeOK
<1>7. /\ tries' = [tries EXCEPT ![u] = tries'[u]]
      /\ attempt' = [attempt EXCEPT ![u] = attempt'[u]]
      /\ status' = [status EXCEPT ![u] = status'[u]]
  BY <1>2 DEF Begin, SchedulerInv, TypeOK
<1> QED
  BY <1>5, <1>6, <1>7, OneUnit DEF Begin

LEMMA EnterKeeps ==
  ASSUME SchedulerInv, NEW u \in Units, Enter(u) PROVE SchedulerInv'
<1>1. stage'[u] = "handling" /\ stage' = [stage EXCEPT ![u] = stage'[u]]
  BY DEF Enter, Goto, SchedulerInv, TypeOK
<1>2. UnitKeeps(u)
  BY <1>1 DEF UnitKeeps, Enter, SchedulerInv, TypeOK, AttemptsCounted,
              LedgerAgrees, ResultsAreFinal, Stages
<1> QED
  BY <1>1, <1>2, OneUnit DEF Enter, SchedulerInv, TypeOK

\* The except branch, whatever has been written and lost before it.
LEMMA FailedKeeps ==
  ASSUME SchedulerInv, NEW u \in Units, stage[u] = "handling",
         NEW before \in {"none"} \cup Statuses,
         NEW losing, lost \subseteq losing, losing \subseteq lost \cup {u},
         Failed(u, before, losing),
         returned \subseteq returned', returned' \subseteq returned \cup {u},
         u \in returned' => u \in losing,
         UNCHANGED <<dependsOn, tries, attempt, verdict>>
  PROVE  SchedulerInv'
<1> DEFINE line == IF tries[u] < MaxAttempts THEN "failed_retryable" ELSE "failed_final"
<1>1. tries[u] \in 1 .. MaxAttempts /\ attempt[u] = tries[u] + 1 /\ attempt[u] \in Nat
  BY SchedulerAssumption DEF SchedulerInv, TypeOK, AttemptsCounted
<1>2. outcome[u] = "none"
  BY DEF SchedulerInv, TypeOK, ResultsAreFinal
<1>3. status' = [status EXCEPT ![u] = line] /\ status'[u] = line /\ line \in Statuses
  BY DEF Failed, SchedulerInv, TypeOK, Statuses
<1>4. CASE WriteFails(u, before, line) /\ Leave(u, "failed_final")
  <2>1. /\ stage'[u] = "done" /\ outcome'[u] = "failed_final"
        /\ journal'[u] \in {before, line}
        /\ lost' = lost \cup {u}
        /\ stage' = [stage EXCEPT ![u] = stage'[u]]
        /\ journal' = [journal EXCEPT ![u] = journal'[u]]
        /\ outcome' = [outcome EXCEPT ![u] = outcome'[u]]
    BY <1>4 DEF WriteFails, Leave, Goto, SchedulerInv, TypeOK
  <2>2. UnitKeeps(u)
    BY <2>1, <1>1, <1>3 DEF UnitKeeps, Stages, Results
  <2> QED
    BY <2>1, <2>2, <1>3, OneUnit DEF SchedulerInv, TypeOK
<1>5. CASE /\ Written(u, line)
           /\ lost' = losing
           /\ IF tries[u] < MaxAttempts THEN Goto(u, "sleeping") /\ UNCHANGED outcome
                                        ELSE Leave(u, "failed_final")
  <2>1. /\ journal'[u] = line
        /\ stage' = [stage EXCEPT ![u] = stage'[u]]
        /\ journal' = [journal EXCEPT ![u] = journal'[u]]
        /\ outcome' = [outcome EXCEPT ![u] = outcome'[u]]
        /\ IF tries[u] < MaxAttempts THEN stage'[u] = "sleeping" /\ outcome'[u] = "none"
             ELSE stage'[u] = "done" /\ outcome'[u] = "failed_final"
    BY <1>5, <1>2 DEF Written, Leave, Goto, SchedulerInv, TypeOK
  <2>2. UnitKeeps(u)
    BY <2>1, <1>1, <1>3, <1>5 DEF UnitKeeps, Stages, Results
  <2> QED
    BY <2>1, <2>2, <1>3, <1>5, OneUnit DEF SchedulerInv, TypeOK
<1> QED
  BY <1>4, <1>5 DEF Failed

LEMMA RaisesKeeps ==
  ASSUME SchedulerInv, NEW u \in Units, HandlerRaises(u) PROVE SchedulerInv'
<1>1. /\ journal[u] \in {"none"} \cup Statuses
      /\ u \in returned => u \in lost
  BY DEF SchedulerInv, TypeOK, LedgerAgrees, HandlerRaises
<1> QED
  BY <1>1, FailedKeeps DEF HandlerRaises

LEMMA ReturnsKeeps ==
  ASSUME SchedulerInv, NEW u \in Units, HandlerReturns(u) PROVE SchedulerInv'
<1>1. CASE /\ status' = [status EXCEPT ![u] = "succeeded"]
           /\ Written(u, "succeeded")
           /\ \E result \in {"succeeded", "other"} : Leave(u, result)
           /\ UNCHANGED lost
  <2>1. /\ stage'[u] = "done" /\ outcome'[u] \in {"succeeded", "other"}
        /\ journal'[u] = "succeeded" /\ status'[u] = "succeeded"
        /\ stage' = [stage EXCEPT ![u] = stage'[u]]
        /\ journal' = [journal EXCEPT ![u] = journal'[u]]
        /\ outcome' = [outcome EXCEPT ![u] = outcome'[u]]
        /\ status' = [status EXCEPT ![u] = status'[u]]
    BY <1>1 DEF Written, Leave, Goto, SchedulerInv, TypeOK
  <2>2. /\ tries[u] \in 1 .. MaxAttempts /\ attempt[u] = tries[u] + 1
        /\ attempt[u] \in Nat
    BY SchedulerAssumption DEF SchedulerInv, TypeOK, AttemptsCounted, HandlerReturns
  <2>3. UnitKeeps(u)
    BY <2>1, <2>2 DEF UnitKeeps, Stages, Results, Statuses, HandlerReturns
  <2> QED
    BY <1>1, <2>1, <2>3, OneUnit DEF HandlerReturns, SchedulerInv, TypeOK
<1>2. ASSUME NEW before \in {journal[u], "succeeded"}, Failed(u, before, lost \cup {u})
      PROVE  SchedulerInv'
  <2>1. before \in {"none"} \cup Statuses
    BY DEF SchedulerInv, TypeOK, Statuses
  <2> QED
    BY <1>2, <2>1, FailedKeeps DEF HandlerReturns
<1> QED
  BY <1>1, <1>2 DEF HandlerReturns

(* ------------------------------- the plan ------------------------------ *)
LEMMA NextBatchKeeps ==
  ASSUME SchedulerInv, NextBatch PROVE SchedulerInv'
<1> USE DEF SchedulerInv
<1>1. /\ Units' = Units /\ verdict' = "none"
      /\ \A u \in Units : stage'[u] = IF u \in Ready THEN "ready" ELSE stage[u]
      /\ \A u \in Ready : stage[u] = "idle"
      /\ Ready \subseteq Units
  BY DEF NextBatch, BatchIsOver, Units, Ready
<1>2. TypeOK'
  BY <1>1 DEF NextBatch, TypeOK, Stages
<1>3. DependenciesFirst'
  <2> SUFFICES ASSUME NEW v \in Units, stage'[v] # "idle", NEW d \in dependsOn[v]
               PROVE  Succeeded(d)'
    BY <1>1 DEF DependenciesFirst, NextBatch
  <2>1. Succeeded(d)
    BY <1>1 DEF DependenciesFirst, Ready
  <2> QED
    BY <1>1, <2>1 DEF Succeeded, NextBatch
<1>4. AttemptsCounted'
  BY <1>1 DEF AttemptsCounted, NextBatch
<1>5. LedgerAgrees'
  BY <1>1 DEF LedgerAgrees, NextBatch
<1>6. ResultsAreFinal'
  BY <1>1 DEF ResultsAreFinal, NextBatch
<1>7. VerdictIsDue'
  BY <1>1 DEF VerdictIsDue
<1>8. StuckStayIdle'
  <2> SUFFICES ASSUME NEW u \in Stuck(dependsOn) PROVE stage'[u] = "idle"
    BY DEF StuckStayIdle, NextBatch
  <2>1. u \in Units /\ u \notin Ready /\ stage[u] = "idle"
    BY StuckIsEntangled, StuckNotReady DEF StuckStayIdle, Units
  <2> QED
    BY <2>1, <1>1
<1> QED
  BY <1>2, <1>3, <1>4, <1>5, <1>6, <1>7, <1>8

\* The aggregate is a status.
LEMMA AggregateType == Aggregate \in {"success", "partial", "failed"}
BY DEF Aggregate

LEMMA ConcludeKeeps ==
  ASSUME SchedulerInv, Conclude PROVE SchedulerInv'
<1> USE DEF SchedulerInv
<1>1. /\ Units' = Units /\ verdict' = Aggregate
      /\ \A u \in Units :
           status'[u] = IF stage[u] = "idle" THEN "failed_final" ELSE status[u]
      /\ UNCHANGED <<dependsOn, stage, tries, attempt, journal, outcome, returned, lost>>
  BY DEF Conclude, Units
<1>2. TypeOK'
  BY <1>1, AggregateType DEF Conclude, TypeOK, Statuses
<1>3. DependenciesFirst'
  BY <1>1 DEF DependenciesFirst, Succeeded
<1>4. AttemptsCounted' /\ ResultsAreFinal'
  BY <1>1 DEF AttemptsCounted, ResultsAreFinal
<1>5. LedgerAgrees'
  BY <1>1 DEF LedgerAgrees, ResultsAreFinal
<1>6. Aggregate' = Aggregate /\ Ready' = Ready
  BY <1>1 DEF Aggregate, Ready, Succeeded
<1>7. VerdictIsDue'
  BY <1>1, <1>6 DEF VerdictIsDue, Conclude, BatchIsOver
<1>8. StuckStayIdle'
  BY <1>1 DEF StuckStayIdle
<1> QED
  BY <1>2, <1>3, <1>4, <1>5, <1>7, <1>8

LEMMA StutterKeeps ==
  ASSUME SchedulerInv, UNCHANGED vars PROVE SchedulerInv'
BY DEF vars, unitVars, SchedulerInv, TypeOK, DependenciesFirst, StuckStayIdle, AttemptsCounted,
       LedgerAgrees, ResultsAreFinal, VerdictIsDue, Units, Succeeded, Ready, Aggregate

\* SchedulerInv always holds: a unit is begun only after its dependencies have
\* succeeded, attempts are bounded, the ledger agrees with the results, and a
\* verdict is given only when nothing runs and nothing more could be begun.
THEOREM SchedulerCorrect == Spec => []SchedulerInv
<1>1. Init => SchedulerInv
  <2> SUFFICES ASSUME Init PROVE SchedulerInv
    OBVIOUS
  <2>1. TypeOK
    BY SchedulerAssumption DEF Init, TypeOK, Stages, Statuses, Results
  <2>2. StuckStayIdle
    BY StuckIsEntangled DEF Init, StuckStayIdle, Units
  <2> QED
    BY <2>1, <2>2 DEF Init, SchedulerInv, DependenciesFirst, AttemptsCounted,
                      LedgerAgrees, ResultsAreFinal, VerdictIsDue
<1>2. SchedulerInv /\ [Next]_vars => SchedulerInv'
  <2> SUFFICES ASSUME SchedulerInv, [Next]_vars PROVE SchedulerInv'
    OBVIOUS
  <2>1. ASSUME NEW u \in Units, UnitStep(u) PROVE SchedulerInv'
    BY <2>1, BeginKeeps, EnterKeeps, RaisesKeeps, ReturnsKeeps
       DEF UnitStep, HandlerEnds
  <2>2. CASE NextBatch
    BY <2>2, NextBatchKeeps
  <2>3. CASE Conclude
    BY <2>3, ConcludeKeeps
  <2>4. CASE Finished \/ UNCHANGED vars
    BY <2>4, StutterKeeps DEF Finished
  <2> QED
    BY <2>1, <2>2, <2>3, <2>4 DEF Next
<1> QED
  BY <1>1, <1>2, PTL DEF Spec

\* The ledger agrees with the results, whichever of its writes fail.
THEOREM LedgerCorrect == Spec => []LedgerAgrees
<1>1. SchedulerInv => LedgerAgrees
  BY DEF SchedulerInv
<1> QED
  BY <1>1, SchedulerCorrect, PTL

(* ---------------------------- what success means ----------------------- *)
\* When all results are successes and nothing is ready, every pending unit
\* waits for a pending or a missing one: the pending units are entangled.
LEMMA LeftIsStuck ==
  ASSUME SchedulerInv, verdict = "success"
  PROVE  \A u \in Units : Succeeded(u) <=> u \notin Stuck(dependsOn)
<1> DEFINE left == {u \in Units : stage[u] = "idle"}
<1>1. /\ \A u \in Units : stage[u] \in {"idle", "done"}
      /\ Ready = {} /\ Aggregate = "success"
  BY DEF SchedulerInv, VerdictIsDue
<1>2. \A u \in Units : stage[u] = "done" => Succeeded(u)
  BY <1>1 DEF Aggregate, Succeeded
<1>3. ASSUME NEW u \in left
      PROVE  \E d \in dependsOn[u] : d \in left \/ d \notin DOMAIN dependsOn
  <2>1. PICK d \in dependsOn[u] : ~Succeeded(d)
    BY <1>1 DEF Ready
  <2> QED
    BY <2>1, <1>1, <1>2 DEF Units
<1>4. left \subseteq Stuck(dependsOn)
  BY <1>3 DEF Stuck, Entangled, Units
<1>5. Stuck(dependsOn) \subseteq left
  BY StuckIsEntangled DEF SchedulerInv, StuckStayIdle, Units
<1> QED
  BY <1>1, <1>2, <1>4, <1>5 DEF Succeeded

\* execute_plan returns "success" only if every unit but those that the plan
\* itself keeps from running has succeeded; and none of those has run.
THEOREM SuccessIsComplete == Spec => []SuccessMeansAll
<1>1. SchedulerInv => SuccessMeansAll
  BY LeftIsStuck DEF SuccessMeansAll
<1> QED
  BY <1>1, SchedulerCorrect, PTL

(* ------------------------------ the planner ---------------------------- *)
\* A plan whose dependencies all lie on a lower level is orderly.
LEMMA LevelsAreOrderly ==
  ASSUME NEW plan, NEW level \in [DOMAIN plan -> Nat],
         \A u \in DOMAIN plan : \A d \in plan[u] :
           d \in DOMAIN plan /\ level[d] < level[u]
  PROVE  Orderly(plan)
<1> DEFINE set == Stuck(plan)
<1> SUFFICES ASSUME set # {} PROVE FALSE
  BY DEF Orderly
<1>0. set \subseteq DOMAIN plan /\ Entangled(plan, set)
  BY StuckIsEntangled
<1> HIDE DEF set
<1> DEFINE taken == {level[u] : u \in set}
<1>1. taken \subseteq Nat /\ taken # {}
  BY <1>0
<1>2. PICK n \in taken : \A m \in taken : <<m, n>> \notin OpToRel(<, Nat)
  <2> HIDE DEF taken
  <2> QED
    BY <1>1, NatLessThanWellFounded, WFMin
<1>3. PICK u \in set : level[u] = n
  OBVIOUS
<1>4. \A v \in set : ~(level[v] < level[u])
  BY <1>0, <1>1, <1>2, <1>3 DEF OpToRel
<1>5. PICK d \in plan[u] : d \in set \/ d \notin DOMAIN plan
  BY <1>0, <1>3 DEF Entangled
<1> QED
  BY <1>0, <1>3, <1>4, <1>5

\* Every plan of the planner is orderly: the units of a long document are
\* chained page by page, and everything else comes after them.
THEOREM PlannerIsOrderly ==
  ASSUME NEW pages \in Nat, NEW docSize, NEW profile
  PROVE  Orderly(Plan(pages, docSize, profile))
<1> DEFINE plan == Plan(pages, docSize, profile)
           n == Batches(pages, docSize)
           body == Body(pages, docSize, profile)
           level == [u \in DOMAIN plan |->
                      IF u[1] = "input_intake" THEN 0
                      ELSE IF u[1] = "format_route" THEN 1
                      ELSE IF u[1] = "page_extract" THEN 2 * u[2]
                      ELSE IF u[1] = "page_enrich" THEN 2 * u[2] + 1
                      ELSE IF u[1] = "cross_page_merge" THEN 2 * n + 2
                      ELSE IF u[1] = "finalize" THEN 2 * n + 4
                      ELSE 2 * n + 3]
<1>1. n \in Nat
  BY DEF Batches
<1>2. DOMAIN plan = body \cup {Finalize}
  BY DEF Plan
<1>3. \A u \in body :
        \/ u = Intake \/ u = Route
        \/ u = Merge /\ pages > 1
        \/ \E p \in 1 .. n : u = Extract(p) \/ u = Enrich(p)
        \/ u[1] \in {"edition_project", "chunk_project", "evidence_project"}
  <2>1. \A u \in Projections(profile) :
          u[1] \in {"edition_project", "chunk_project", "evidence_project"}
    BY DEF Projections, Edition, Chunk, Evidence
  <2> QED
    BY <2>1 DEF Body
<1>4. /\ Intake \in body /\ Route \in body
      /\ pages > 1 => Merge \in body
      /\ \A p \in 1 .. n : Extract(p) \in body /\ Enrich(p) \in body
  BY DEF Body
<1>5. LastRead(pages, docSize) \in body /\ Prior(pages, docSize) \in body
  BY <1>1, <1>4 DEF LastRead, Prior
<1> HIDE DEF body, n
<1>6. /\ level[Intake] = 0 /\ level[Route] = 1
      /\ pages > 1 => level[Merge] = 2 * n + 2
      /\ \A p \in 1 .. n : level[Extract(p)] = 2 * p /\ level[Enrich(p)] = 2 * p + 1
      /\ level[Finalize] = 2 * n + 4
  BY <1>2, <1>4 DEF Intake, Route, Merge, Extract, Enrich, Finalize
<1>7. \A u \in DOMAIN plan :
        u[1] \in {"edition_project", "chunk_project", "evidence_project"}
          => level[u] = 2 * n + 3
  OBVIOUS
<1> HIDE DEF level
<1>8. /\ level[LastRead(pages, docSize)] < 2 * n + 2
      /\ level[Prior(pages, docSize)] < 2 * n + 3
  <2>1. LastRead(pages, docSize) = IF n = 0 THEN Route ELSE Enrich(n)
    BY DEF LastRead, n
  <2>2. level[LastRead(pages, docSize)] < 2 * n + 2
    BY <2>1, <1>1, <1>6
  <2>3. Prior(pages, docSize) = IF pages > 1 THEN Merge ELSE LastRead(pages, docSize)
    BY DEF Prior
  <2>4. level[LastRead(pages, docSize)] < 2 * n + 3
    <3>1. level[LastRead(pages, docSize)] \in Int
      BY <2>1, <1>1, <1>6
    <3> QED
      BY <3>1, <2>2, <1>1
  <2>5. pages > 1 => level[Merge] < 2 * n + 3
    BY <1>1, <1>6
  <2> QED
    BY <2>2, <2>3, <2>4, <2>5
<1>9. ASSUME NEW u \in body PROVE level[u] \in Nat /\ level[u] < 2 * n + 4
  <2>1. CASE u = Intake \/ u = Route \/ (u = Merge /\ pages > 1)
    BY <2>1, <1>1, <1>6
  <2>2. CASE \E p \in 1 .. n : u = Extract(p) \/ u = Enrich(p)
    BY <2>2, <1>1, <1>6
  <2>3. CASE u[1] \in {"edition_project", "chunk_project", "evidence_project"}
    BY <2>3, <1>1, <1>2, <1>7
  <2> QED
    BY <2>1, <2>2, <2>3, <1>3
<1>10. level \in [DOMAIN plan -> Nat]
  BY <1>1, <1>2, <1>6, <1>9 DEF level
<1>11. ASSUME NEW u \in DOMAIN plan, NEW d \in plan[u]
       PROVE  d \in DOMAIN plan /\ level[d] < level[u]
  <2>1. CASE u = Intake
    BY <2>1, <1>2 DEF Plan, Intake
  <2>2. CASE u = Route
    <3>1. d = Intake
      BY <2>2, <1>2 DEF Plan, Route
    <3> QED
      BY <2>2, <3>1, <1>2, <1>4, <1>6
  <2>3. ASSUME NEW p \in 1 .. n, u = Extract(p)
        PROVE  d \in DOMAIN plan /\ level[d] < level[u]
    <3>1. d = IF p = 1 THEN Route ELSE Enrich(p - 1)
      BY <2>3, <1>2 DEF Plan, Extract
    <3>2. level[u] = 2 * p
      BY <2>3, <1>6
    <3>3. CASE p = 1
      BY <3>1, <3>2, <3>3, <1>2, <1>4, <1>6
    <3>4. CASE p # 1
      <4>1. p - 1 \in 1 .. n /\ d = Enrich(p - 1)
        BY <3>1, <3>4, <1>1
      <4>2. level[d] = 2 * (p - 1) + 1 /\ d \in body
        BY <4>1, <1>4, <1>6
      <4> QED
        BY <4>2, <3>2, <1>1, <1>2
    <3> QED
      BY <3>3, <3>4
  <2>4. ASSUME NEW p \in 1 .. n, u = Enrich(p)
        PROVE  d \in DOMAIN plan /\ level[d] < level[u]
    <3>1. d = Extract(p)
      BY <2>4, <1>2 DEF Plan, Enrich
    <3> QED
      BY <2>4, <3>1, <1>1, <1>2, <1>4, <1>6, 2 * p < 2 * p + 1
  <2>5. CASE u = Merge /\ pages > 1
    <3>1. d = LastRead(pages, docSize)
      BY <2>5, <1>2 DEF Plan, Merge
    <3> QED
      BY <2>5, <3>1, <1>1, <1>2, <1>5, <1>6, <1>8, <1>9
  <2>6. CASE u[1] \in {"edition_project", "chunk_project", "evidence_project"}
    <3>1. d = Prior(pages, docSize)
      BY <2>6, <1>2 DEF Plan
    <3> QED
      BY <2>6, <3>1, <1>1, <1>2, <1>5, <1>7, <1>8, <1>9
  <2>7. CASE u = Finalize
    <3>1. d \in body
      BY <2>7, <1>2 DEF Plan, Finalize, body
    <3> QED
      BY <2>7, <3>1, <1>2, <1>6, <1>9
  <2> QED
    BY <2>1, <2>2, <2>3, <2>4, <2>5, <2>6, <2>7, <1>2, <1>3
<1> HIDE DEF plan
<1> QED
  BY <1>10, <1>11, LevelsAreOrderly DEF plan

\* For the plans of the planner, success means that every unit has succeeded.
THEOREM PlannedSuccessIsComplete ==
  ASSUME \A plan \in Plans :
           \E pages \in Nat : \E docSize, profile : plan = Plan(pages, docSize, profile)
  PROVE  Spec => [](verdict = "success" => \A u \in Units : Succeeded(u))
<1>1. SchedulerInv => (verdict = "success" => \A u \in Units : Succeeded(u))
  <2> SUFFICES ASSUME SchedulerInv, verdict = "success"
               PROVE  \A u \in Units : Succeeded(u)
    OBVIOUS
  <2>1. Orderly(dependsOn)
    BY PlannerIsOrderly DEF SchedulerInv, TypeOK
  <2> QED
    BY <2>1, LeftIsStuck DEF Orderly
<1> QED
  BY <1>1, SchedulerCorrect, PTL
(* ------------------------------ refinement ----------------------------- *)
\* How PlanRun sees the units.
Seen == [u \in Units |-> ResultSeen(stage[u], outcome[u])]

LEMMA ResultTable ==
  /\ \A how : ResultSeen("idle", how) = "pending"
  /\ \A how : \A point \in Stages \ {"idle", "done"} : ResultSeen(point, how) = "running"
  /\ ResultSeen("done", "succeeded") = "succeeded"
  /\ \A how : how # "succeeded" => ResultSeen("done", how) = "failed"
BY DEF ResultSeen

\* The units by their results.
LEMMA HavingSeen ==
  ASSUME SchedulerInv
  PROVE  /\ PlanAsSeen!Having("pending") = {u \in Units : stage[u] = "idle"}
         /\ PlanAsSeen!Having("running") = {u \in Units : stage[u] \notin {"idle", "done"}}
         /\ PlanAsSeen!Having("succeeded") = {u \in Units : Succeeded(u)}
         /\ PlanAsSeen!Having("failed") = {u \in Units : stage[u] = "done" /\ ~Succeeded(u)}
         /\ PlanAsSeen!Startable = Ready
<1>1. \A u \in Units :
        /\ ResultSeen(stage[u], outcome[u]) = "pending" <=> stage[u] = "idle"
        /\ ResultSeen(stage[u], outcome[u]) = "running" <=> stage[u] \notin {"idle", "done"}
        /\ ResultSeen(stage[u], outcome[u]) = "succeeded" <=> Succeeded(u)
        /\ ResultSeen(stage[u], outcome[u]) = "failed" <=> stage[u] = "done" /\ ~Succeeded(u)
  BY DEF ResultSeen, Succeeded
<1>2. /\ PlanAsSeen!Having("pending") = {u \in Units : stage[u] = "idle"}
      /\ PlanAsSeen!Having("running") = {u \in Units : stage[u] \notin {"idle", "done"}}
      /\ PlanAsSeen!Having("succeeded") = {u \in Units : Succeeded(u)}
      /\ PlanAsSeen!Having("failed") = {u \in Units : stage[u] = "done" /\ ~Succeeded(u)}
  BY <1>1 DEF PlanAsSeen!Having, PlanAsSeen!Units, Units
<1>3. \A u \in Units :
        dependsOn[u] \subseteq {d \in Units : Succeeded(d)} <=> \A d \in dependsOn[u] : Succeeded(d)
  BY DEF Succeeded
<1>4. PlanAsSeen!Startable = Ready
  BY <1>2, <1>3 DEF PlanAsSeen!Startable, Ready
<1> QED
  BY <1>2, <1>4

\* A step of execute_unit is a part of the unit's run, or ends it.
LEMMA UnitRuns ==
  ASSUME SchedulerInv, NEW u \in Units, UnitStep(u)
  PROVE  PlanAsSeen!PlanNext \/ UNCHANGED <<dependsOn, Seen, verdict>>
<1>1. /\ stage[u] \in Stages \ {"idle", "done"}
      /\ stage \in [Units -> Stages] /\ outcome \in [Units -> Results]
  BY DEF UnitStep, Begin, Enter, HandlerEnds, HandlerReturns, HandlerRaises, Stages,
         SchedulerInv, TypeOK
<1>2. /\ UNCHANGED <<dependsOn, verdict>>
      /\ \/ \E point \in Stages \ {"idle", "done"} :
              stage' = [stage EXCEPT ![u] = point] /\ UNCHANGED outcome
         \/ \E how \in Results :
              stage' = [stage EXCEPT ![u] = "done"] /\ outcome' = [outcome EXCEPT ![u] = how]
  BY DEF UnitStep, Begin, Enter, HandlerEnds, HandlerReturns, HandlerRaises, Failed, Leave,
         Goto, Stages, Results
<1>3. Units' = Units
  BY <1>2 DEF Units
<1>4. ASSUME NEW point \in Stages \ {"idle", "done"},
             stage' = [stage EXCEPT ![u] = point], UNCHANGED outcome
      PROVE  UNCHANGED Seen
  <2>1. \A v \in Units : ResultSeen(stage'[v], outcome'[v]) = ResultSeen(stage[v], outcome[v])
    BY <1>1, <1>4, ResultTable
  <2> QED
    BY <1>3, <2>1 DEF Seen
<1>5. ASSUME NEW how \in Results,
             stage' = [stage EXCEPT ![u] = "done"], outcome' = [outcome EXCEPT ![u] = how]
      PROVE  PlanAsSeen!PlanNext
  <2>1. ResultSeen(stage[u], outcome[u]) = "running"
    BY <1>1, ResultTable
  <2>2. PICK next \in {"succeeded", "failed"} : ResultSeen("done", how) = next
    BY ResultTable
  <2>3. \A v \in Units : ResultSeen(stage'[v], outcome'[v]) =
                           IF v = u THEN next ELSE ResultSeen(stage[v], outcome[v])
    BY <1>1, <1>5, <2>2
  <2>4. [v \in Units' |-> ResultSeen(stage'[v], outcome'[v])]
          = [[v \in Units |-> ResultSeen(stage[v], outcome[v])] EXCEPT ![u] = next]
    BY <1>3, <2>3
  <2>5. PlanAsSeen!EndUnit(u)
    BY <1>2, <2>1, <2>4 DEF PlanAsSeen!EndUnit
  <2> QED
    BY <2>5 DEF PlanAsSeen!PlanNext, PlanAsSeen!Units, Units
<1> QED
  BY <1>2, <1>4, <1>5

LEMMA RoundStarts ==
  ASSUME SchedulerInv, NextBatch
  PROVE  PlanAsSeen!StartRound
<1>1. Units' = Units /\ UNCHANGED <<dependsOn, verdict, outcome>> /\ verdict = "none"
  BY DEF NextBatch, BatchIsOver, Units
<1>2. PlanAsSeen!Startable = Ready /\ PlanAsSeen!Having("running") = {}
  BY HavingSeen DEF NextBatch, BatchIsOver
<1>3. \A u \in Units : ResultSeen(stage'[u], outcome'[u]) =
                         IF u \in Ready THEN "running" ELSE ResultSeen(stage[u], outcome[u])
  BY <1>1, ResultTable DEF NextBatch, Stages
<1>4. [u \in Units' |-> ResultSeen(stage'[u], outcome'[u])]
        = [u \in Units |-> IF u \in Ready THEN "running" ELSE ResultSeen(stage[u], outcome[u])]
  BY <1>1, <1>3
<1> QED
  BY <1>1, <1>2, <1>4
     DEF NextBatch, PlanAsSeen!StartRound, PlanAsSeen!RoundIsOver, PlanAsSeen!Units, Units

LEMMA VerdictDrawn ==
  ASSUME SchedulerInv, Conclude
  PROVE  PlanAsSeen!Conclude
<1>1. Units' = Units /\ UNCHANGED <<dependsOn, stage, outcome>> /\ verdict = "none"
  BY DEF Conclude, BatchIsOver, Units
<1>2. PlanAsSeen!Startable = {} /\ PlanAsSeen!Having("running") = {}
  BY HavingSeen DEF Conclude, BatchIsOver
<1>3. /\ PlanAsSeen!Having("failed") = {} <=>
           \A u \in {v \in Units : stage[v] = "done"} : outcome[u] = "succeeded"
      /\ PlanAsSeen!Having("succeeded") # {} <=>
           \E u \in {v \in Units : stage[v] = "done"} : outcome[u] = "succeeded"
  BY HavingSeen DEF Succeeded
<1>4. verdict' = PlanAsSeen!VerdictOfResults
  BY <1>3 DEF Conclude, Aggregate, PlanAsSeen!VerdictOfResults
<1>5. UNCHANGED Seen
  BY <1>1 DEF Seen
<1> QED
  BY <1>1, <1>2, <1>4, <1>5 DEF PlanAsSeen!Conclude, PlanAsSeen!RoundIsOver, Seen

\* Whatever the handlers, the ledger and the retries do, execute_plan runs its
\* plan as PlanRun says: a unit begins only in a round that its dependencies
\* have earned it, its result is given once, and nothing follows the verdict.
THEOREM PlanRunImplemented == Spec => ImplementsPlanRun
<1>1. Init => PlanAsSeen!PlanInit
  BY ResultTable DEF Init, PlanAsSeen!PlanInit, PlanAsSeen!Units, Units
<1>2. SchedulerInv /\ [Next]_vars =>
        PlanAsSeen!PlanNext \/ UNCHANGED <<dependsOn, Seen, verdict>>
  <2> SUFFICES ASSUME SchedulerInv, [Next]_vars
               PROVE  PlanAsSeen!PlanNext \/ UNCHANGED <<dependsOn, Seen, verdict>>
    OBVIOUS
  <2>1. ASSUME UNCHANGED vars PROVE UNCHANGED <<dependsOn, Seen, verdict>>
    BY <2>1 DEF vars, unitVars, Seen, Units
  <2> QED
    BY <2>1, UnitRuns, RoundStarts, VerdictDrawn DEF Next, Finished, PlanAsSeen!PlanNext
<1>3. SchedulerInv /\ [Next]_vars => [PlanAsSeen!PlanNext]_(PlanAsSeen!run)
  BY <1>2 DEF PlanAsSeen!run, Seen
<1> QED
  BY <1>1, <1>3, SchedulerCorrect, PTL DEF Spec, ImplementsPlanRun, PlanAsSeen!PlanSpec

\* What PlanRun promises is kept by each of its steps.
LEMMA PlanKeeps ==
  ASSUME PlanAsSeen!PlanInv, [PlanAsSeen!PlanNext]_(PlanAsSeen!run)
  PROVE  PlanAsSeen!PlanInv'
<1> DEFINE Results4 == {"pending", "running", "succeeded", "failed"}
           Have(state) == {u \in Units : Seen[u] = state}
           May == {u \in Have("pending") : dependsOn[u] \subseteq Have("succeeded")}
           Drawn == IF Have("failed") = {} THEN "success"
                   ELSE IF Have("succeeded") # {} THEN "partial"
                   ELSE "failed"
           Kept ==
             /\ Seen \in [Units -> Results4]
             /\ \A u \in Units : Seen[u] # "pending" => dependsOn[u] \subseteq Have("succeeded")
             /\ verdict # "none" => Have("running") = {} /\ May = {} /\ verdict = Drawn
<1> USE DEF Units
<1>1. PlanAsSeen!PlanInv <=> Kept
  BY DEF PlanAsSeen!PlanInv, PlanAsSeen!Units, PlanAsSeen!Having, PlanAsSeen!Startable,
         PlanAsSeen!VerdictOfResults, Seen
<1>2. PlanAsSeen!PlanInv' <=> Kept'
  BY DEF PlanAsSeen!PlanInv, PlanAsSeen!Units, PlanAsSeen!Having, PlanAsSeen!Startable,
         PlanAsSeen!VerdictOfResults, Seen
<1>3. CASE UNCHANGED PlanAsSeen!run
  <2>1. UNCHANGED <<dependsOn, Seen, verdict>>
    BY <1>3 DEF PlanAsSeen!run, Seen
  <2> QED
    BY <1>1, <1>2, <2>1
<1>4. CASE PlanAsSeen!StartRound
  <2>1. /\ verdict = "none" /\ UNCHANGED <<dependsOn, verdict>>
        /\ Seen' = [u \in Units |-> IF u \in May THEN "running" ELSE Seen[u]]
    BY <1>4 DEF PlanAsSeen!StartRound, PlanAsSeen!RoundIsOver, PlanAsSeen!Startable,
                PlanAsSeen!Having, PlanAsSeen!Units, Seen
  <2>2. Have("succeeded")' = Have("succeeded")
    BY <2>1
  <2> QED
    BY <1>1, <1>2, <2>1, <2>2
<1>5. CASE PlanAsSeen!Conclude
  <2>1. /\ UNCHANGED <<dependsOn, Seen>>
        /\ Have("running") = {} /\ May = {} /\ verdict' = Drawn
    BY <1>5 DEF PlanAsSeen!Conclude, PlanAsSeen!RoundIsOver, PlanAsSeen!Startable,
                PlanAsSeen!Having, PlanAsSeen!Units, PlanAsSeen!VerdictOfResults, Seen
  <2> QED
    BY <1>1, <1>2, <2>1
<1>6. ASSUME NEW u \in Units, PlanAsSeen!EndUnit(u) PROVE Kept'
  <2>1. /\ Seen[u] = "running" /\ UNCHANGED <<dependsOn, verdict>>
        /\ \E how \in {"succeeded", "failed"} : Seen' = [Seen EXCEPT ![u] = how]
    BY <1>6 DEF PlanAsSeen!EndUnit, Seen
  <2>2. Have("succeeded") \subseteq Have("succeeded")'
    BY <2>1, <1>1
  <2>3. verdict = "none"
    BY <2>1, <1>1
  <2> QED
    BY <1>1, <2>1, <2>2, <2>3
<1> QED
  BY <1>2, <1>3, <1>4, <1>5, <1>6 DEF PlanAsSeen!PlanNext, PlanAsSeen!Units

\* In every reachable state of the scheduler a unit that was begun had all it
\* depends on behind it, and a verdict is that of the results, also later.
THEOREM ResultsRespectPlan == Spec => []PlanAsSeen!PlanInv
<1>1. PlanAsSeen!PlanInit => PlanAsSeen!PlanInv
  BY DEF PlanAsSeen!PlanInit, PlanAsSeen!PlanInv
<1> QED
  BY <1>1, PlanKeeps, PlanRunImplemented, PTL DEF ImplementsPlanRun, PlanAsSeen!PlanSpec
=============================================================================
