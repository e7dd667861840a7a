-------------------------- MODULE SlotService_proofs --------------------------
(***************************************************************************)
(* ParseAdmission and ParseProcessManager implement SlotService, for every *)
(* number of requests and every limit: each of their steps is one step of  *)
(* the service or leaves its holders, its line and its door as they are.   *)
(***************************************************************************)
EXTENDS ParseProcessManager_proofs

\* The library operators that the instance brings along are the same ones.
LEMMA SameOperators ==
  /\ \A S : Service!Cardinality(S) = Cardinality(S)
  /\ \A s : Service!ToSet(s) = ToSet(s)
  /\ \A s, i : Service!RemoveAt(s, i) = RemoveAt(s, i)
<1>1. ASSUME NEW S PROVE Service!Cardinality(S) = Cardinality(S)
  BY DEF Service!Cardinality, Cardinality
<1>2. ASSUME NEW s PROVE Service!ToSet(s) = ToSet(s)
  BY DEF Service!ToSet, ToSet
<1>3. ASSUME NEW s, NEW i PROVE Service!RemoveAt(s, i) = RemoveAt(s, i)
  BY DEF Service!RemoveAt, RemoveAt
<1> QED
  BY <1>1, <1>2, <1>3

LEMMA ServiceInit == Init => Service!SInit
<1> SUFFICES ASSUME Init PROVE Service!SInit
  OBVIOUS
<1>1. Holders = {}
  BY DEF Init, Holders, Waiting
<1> QED
  BY <1>1 DEF Service!SInit, Init

\* A free slot is taken at once.
LEMMA ServiceTake ==
  ASSUME AdmissionInv, NEW r \in Requests, AcquireNow(r)
  PROVE  Service!Take(r)
<1>1. Holders' = Holders \cup {r} /\ r \notin Holders /\ waiters = <<>>
  BY AcquireNowStep
<1>2. r \notin ToSet(waiters)
  BY <1>1 DEF ToSet
<1>3. MaxActive = 0 \/ Cardinality(Holders) < MaxActive
  BY DEF AcquireNow, CanGrantAtOnce, AdmissionInv, SlotsAccounted
<1> QED
  BY <1>1, <1>2, <1>3, SameOperators DEF Service!Take, Service!HasRoom, AcquireNow

\* Nobody who could be served joins the line.
LEMMA ServiceJoin ==
  ASSUME AdmissionInv, NEW r \in Requests, AcquireQueue(r)
  PROVE  Service!Join(r)
<1>1. Holders' = Holders /\ r \notin Holders /\ r \notin ToSet(waiters)
  BY AcquireQueueStep DEF Queued
<1>2. MaxActive # 0 /\ ~(activeSlots < MaxActive)
  BY LimitsAssumption
  DEF AcquireQueue, CanGrantAtOnce, AdmissionInv, NoIdleSlot, TypeOK
<1>3. ~(MaxActive = 0 \/ Cardinality(Holders) < MaxActive)
  BY <1>2 DEF AdmissionInv, SlotsAccounted
<1> QED
  BY <1>1, <1>3, SameOperators DEF Service!Join, Service!HasRoom, AcquireQueue

\* A caller that gives up leaves the line wherever it stands in it.
LEMMA ServiceLeave ==
  ASSUME AdmissionInv, NEW r \in Requests, RemoveWaiter(r),
         NEW out \in {"timeout", "cancelled"}, Goto(r, out),
         UNCHANGED <<closing, wake, ticket>>
  PROVE  Service!Leave(r)
<1>1. Holders' = Holders
  BY LeaveQueueStep
<1> QED
  BY <1>1, SameOperators DEF Service!Leave, RemoveWaiter

\* A slot that comes back goes to the head of the line in the same step.
LEMMA ServiceGiveBack ==
  ASSUME AdmissionInv, NEW h \in Holders, ReleaseSlot,
         NEW out \in {"released", "refused", "cancelled"}, Goto(h, out),
         UNCHANGED <<closing, wake, ticket>>
  PROVE  Service!GiveBack(h)
<1>0. waiters \in Seq(Requests)
  BY DEF AdmissionInv, TypeOK
<1>1. Holders' = IF waiters = <<>> THEN Holders \ {h}
                 ELSE (Holders \ {h}) \cup {waiters[1]}
  BY GiveBackStep
<1>2. CASE waiters = <<>>
  <2>1. waiters' = waiters
    BY <1>2, ReleaseFreesOrHandsOver
  <2> QED BY <1>1, <1>2, <2>1 DEF Service!GiveBack
<1>3. CASE waiters # <<>>
  <2>1. waiters' = RemoveAt(waiters, 1)
    BY <1>3, ReleaseFreesOrHandsOver
  <2>2. waiters' = Tail(waiters) /\ waiters[1] = Head(waiters)
    BY <1>0, <1>3, <2>1, PopHead
  <2> QED BY <1>1, <1>3, <2>2 DEF Service!GiveBack
<1> QED
  BY <1>2, <1>3

LEMMA ServiceStep ==
  ASSUME AdmissionInv, [Next]_vars
  PROVE  [Service!SNext]_<<Holders, waiters, ~closing>>
<1> USE DEF Waiting
<1>0. TypeOK
  BY DEF AdmissionInv
<1>1. ASSUME UNCHANGED <<waiters, closing>>, Holders' = Holders
      PROVE  [Service!SNext]_<<Holders, waiters, ~closing>>
  BY <1>1
<1>2. ASSUME NEW r \in Requests,
             Service!Take(r) \/ Service!Join(r) \/ Service!Leave(r) \/ Service!GiveBack(r)
      PROVE  [Service!SNext]_<<Holders, waiters, ~closing>>
  BY <1>2 DEF Service!SNext
<1>3. ASSUME NEW r \in Requests, Acquire(r)
      PROVE  [Service!SNext]_<<Holders, waiters, ~closing>>
  <2>1. CASE AcquireRefused(r) \/ AcquireFull(r)
    <3>1. Holders' = Holders
      BY <1>0, <2>1 DEF AcquireRefused, AcquireFull, queueVars, Goto, TypeOK, Holders
    <3> QED BY <1>1, <2>1, <3>1 DEF AcquireRefused, AcquireFull, queueVars
  <2>2. CASE AcquireNow(r)
    BY <1>2, <2>2, ServiceTake
  <2>3. CASE AcquireQueue(r)
    BY <1>2, <2>3, ServiceJoin
  <2> QED BY <1>3, <2>1, <2>2, <2>3 DEF Acquire
<1>4. ASSUME NEW r \in Requests, Expire(r) \/ Cancel(r)
      PROVE  [Service!SNext]_<<Holders, waiters, ~closing>>
  BY <1>1, <1>4 DEF Expire, Cancel, queueVars, Holders
<1>5. ASSUME NEW r \in Requests, Resume(r)
      PROVE  [Service!SNext]_<<Holders, waiters, ~closing>>
  <2>1. CASE ResumeResolved(r) \/ ResumeTooLate(r) \/ ResumeCancelDropped(r)
    <3>1. /\ pc[r] = Waiting
          /\ Goto(r, IF future[r] = "result" THEN "held" ELSE "refused")
          /\ UNCHANGED <<queueVars, closing, wake, ticket>>
      BY <2>1 DEF ResumeResolved, ResumeTooLate, ResumeCancelDropped
    <3>2. Holders' = Holders
      BY <1>0, <3>1 DEF queueVars, Goto, TypeOK, Holders
    <3> QED BY <1>1, <3>1, <3>2 DEF queueVars
  <2>2. CASE ResumeTimedOut(r)
    BY <1>2, <2>2, ServiceLeave DEF ResumeTimedOut
  <2>3. CASE ResumeCancelled(r)
    <3>1. CASE RemoveWaiter(r)
      BY <1>2, <2>3, <3>1, ServiceLeave DEF ResumeCancelled
    <3>2. CASE future[r] = "result" /\ ReleaseSlot
      <4>1. r \in Holders
        BY <2>3, <3>2 DEF ResumeCancelled, Holders
      <4> QED BY <1>2, <2>3, <3>2, <4>1, ServiceGiveBack DEF ResumeCancelled
    <3>3. CASE future[r] # "result" /\ UNCHANGED queueVars
      <4>1. Holders' = Holders
        BY <1>0, <2>3, <3>3 DEF ResumeCancelled, queueVars, Goto, TypeOK, Holders
      <4> QED BY <1>1, <2>3, <3>3, <4>1 DEF ResumeCancelled, queueVars
    <3> QED BY <2>3, <3>1, <3>2, <3>3 DEF ResumeCancelled
  <2> QED BY <1>5, <2>1, <2>2, <2>3 DEF Resume
<1>6. ASSUME NEW r \in Requests, Release(r)
      PROVE  [Service!SNext]_<<Holders, waiters, ~closing>>
  <2>1. r \in Holders
    BY <1>6 DEF Release, Holders
  <2> QED BY <1>2, <1>6, <2>1, ServiceGiveBack DEF Release
<1>7. CASE Shutdown
  <2>1. Service!Close
    BY <1>7, ShutdownStep DEF Service!Close, Shutdown, CloseQueue
  <2> QED BY <2>1 DEF Service!SNext
<1>8. CASE Startup
  <2>1. Service!Open
    BY <1>8 DEF Service!Open, Startup, queueVars, Holders
  <2> QED BY <2>1 DEF Service!SNext
<1>9. CASE UNCHANGED vars
  BY <1>1, <1>9 DEF vars, Holders
<1> QED
  BY <1>3, <1>4, <1>5, <1>6, <1>7, <1>8, <1>9 DEF Next

\* The admission queue implements the slot service.
THEOREM AdmissionImplementsService == Spec => ImplementsSlotService
<1>1. Spec => Service!SInit
  BY ServiceInit DEF Spec
<1>2. AdmissionInv /\ [Next]_vars => [Service!SNext]_<<Holders, waiters, ~closing>>
  BY ServiceStep
<1> QED
  BY <1>1, <1>2, AdmissionCorrect, PTL
  DEF Spec, ImplementsSlotService, Service!SSpec, Service!svars
-----------------------------------------------------------------------------
\* To the queue, the manager is one more user: what it does to the queue is
\* what some caller may do, but for one thing, a start() that hands back a
\* slot it was granted while the manager closed.
LEMMA ManagerUsesQueue ==
  ASSUME SupervisionInv, [ManagerNext]_allVars
  PROVE  [Next]_vars \/ \E r \in Requests : StartRefused(r)
<1>1. ASSUME NEW r \in Requests, Start(r)
      PROVE  Next \/ StartRefused(r)
  <2>1. CASE StartAtOnce(r)
    BY <2>1 DEF StartAtOnce, Next, Acquire
  <2>2. CASE StartAfterWait(r)
    BY <2>2 DEF StartAfterWait, Next, Resume
  <2>3. CASE StartWaitsOrFails(r)
    BY <2>3 DEF StartWaitsOrFails, Next, Acquire, Resume
  <2> QED BY <1>1, <2>1, <2>2, <2>3 DEF Start
<1>2. ASSUME NEW r \in LiveMonitors, NEW what, Finish(r, what)
      PROVE  Next \/ UNCHANGED vars
  <2>1. r \in Requests /\ pc[r] = "held"
    BY DEF SupervisionInv, MonitorsHoldSlots, LiveMonitors
  <2>2. CASE FinallyBlock(r, what)
    <3>1. Release(r)
      BY <2>1, <2>2 DEF FinallyBlock, Release
    <3> QED BY <2>1, <3>1 DEF Next
  <2>3. CASE FinallyRaises(r)
    BY <2>3 DEF FinallyRaises
  <2> QED BY <1>2, <2>2, <2>3 DEF Finish
<1>3. ASSUME NEW r \in LiveMonitors, NEW why, NEW what, Terminate(r, why, what)
      PROVE  Next \/ UNCHANGED vars
  BY <1>2, <1>3 DEF Terminate, Proceed
<1>4. ASSUME NEW r \in Requests, MonitorRuns(r) \/ ParseTimeout(r) \/ GraceExpires(r)
      PROVE  Next \/ UNCHANGED vars
  <2>1. r \in LiveMonitors
    BY <1>4 DEF MonitorRuns, Spawn, SpawnFails, Register, RegisterRefused, ExitSeen, Reaped,
                ParseTimeout, GraceExpires, LiveMonitors, LivePoints, Terminating
  <2>2. CASE Spawn(r) \/ Register(r) \/ GraceExpires(r)
    BY <2>2 DEF Spawn, Register, GraceExpires, Proceed
  <2>3. CASE SpawnFails(r) \/ ExitSeen(r) \/ Reaped(r)
    BY <1>2, <2>1, <2>3 DEF SpawnFails, ExitSeen, Reaped
  <2>4. CASE RegisterRefused(r) \/ ParseTimeout(r)
    BY <1>3, <2>1, <2>4 DEF RegisterRefused, ParseTimeout
  <2> QED BY <1>4, <2>2, <2>3, <2>4 DEF MonitorRuns
<1>5. ASSUME NEW r \in Requests, MonitorCancelled(r)
      PROVE  Next \/ UNCHANGED vars
  <2>1. r \in LiveMonitors
    BY <1>5 DEF MonitorCancelled, CancelBeforeStart, CancelSpawn, CancelMonitor, CancelAgain,
                LiveMonitors, LivePoints
  <2>2. CASE CancelBeforeStart(r)
    BY <2>2 DEF CancelBeforeStart
  <2>3. CASE CancelSpawn(r) \/ CancelAgain(r)
    BY <1>2, <2>1, <2>3 DEF CancelSpawn, CancelAgain, Proceed
  <2>4. CASE CancelMonitor(r)
    BY <1>3, <2>1, <2>4 DEF CancelMonitor
  <2> QED BY <1>5, <2>2, <2>3, <2>4 DEF MonitorCancelled
<1>6. ASSUME NEW r \in Requests,
             \/ ProcessExits(r) \/ ShutdownTerminates(r)
             \/ ShutdownGraceExpires(r) \/ ShutdownPasses(r)
      PROVE  UNCHANGED vars
  BY <1>6 DEF ProcessExits, ShutdownTerminates, ShutdownGraceExpires, ShutdownPasses, SweepTo
<1>7. CASE BeginShutdown
  <2>1. Shutdown
    BY <1>7 DEF BeginShutdown, Shutdown, SupervisionInv, ShutdownBookkeeping
  <2> QED BY <2>1 DEF Next
<1>8. CASE EndShutdown \/ ManagerStartup
  BY <1>8 DEF EndShutdown, ManagerStartup, Next
<1>9. CASE UNCHANGED allVars
  BY <1>9 DEF allVars
<1> QED
  BY <1>1, <1>4, <1>5, <1>6, <1>7, <1>8, <1>9 DEF ManagerNext

LEMMA RefusedGivesBack ==
  ASSUME AdmissionInv, NEW r \in Requests, StartRefused(r)
  PROVE  Service!GiveBack(r)
<1>1. r \in Holders
  BY DEF StartRefused, Holders
<1> QED
  BY <1>1, ServiceGiveBack DEF StartRefused

\* The queue under the manager implements the slot service, whatever
\* cancellation is delivered: also a leaked slot is a slot that its holder
\* has not given back.
THEOREM ManagerImplementsService == ManagerSpec => ImplementsSlotService
<1>1. ManagerInit => Service!SInit
  BY ServiceInit DEF ManagerInit
<1>2. SupervisionInv /\ [ManagerNext]_allVars
        => [Service!SNext]_<<Holders, waiters, ~closing>>
  <2> SUFFICES ASSUME SupervisionInv, [ManagerNext]_allVars
               PROVE  [Service!SNext]_<<Holders, waiters, ~closing>>
    OBVIOUS
  <2>1. AdmissionInv
    BY DEF SupervisionInv
  <2>2. CASE [Next]_vars
    BY <2>1, <2>2, ServiceStep
  <2>3. ASSUME NEW r \in Requests, StartRefused(r)
        PROVE  Service!SNext
    BY <2>1, <2>3, RefusedGivesBack DEF Service!SNext
  <2> QED BY <2>2, <2>3, ManagerUsesQueue
<1> QED
  BY <1>1, <1>2, SupervisionCorrect, PTL
  DEF ManagerSpec, ImplementsSlotService, Service!SSpec, Service!svars

\* Under the manager, too, callers are served strictly in the order in which
\* acquire() accepted them.
THEOREM ManagerFirstComeFirstServed == ManagerSpec => []FifoOrder
<1>1. ManagerInit => FifoInv
  BY FifoInit DEF ManagerInit
<1>2. SupervisionInv /\ FifoInv /\ [ManagerNext]_allVars => FifoInv'
  <2> SUFFICES ASSUME SupervisionInv, FifoInv, [ManagerNext]_allVars
               PROVE  FifoInv'
    OBVIOUS
  <2>1. AdmissionInv
    BY DEF SupervisionInv
  <2>2. ASSUME NEW r \in Requests, StartRefused(r)
        PROVE  FifoInv'
    <3>1. r \in Holders
      BY <2>2 DEF StartRefused, Holders
    <3> QED BY <2>1, <2>2, <3>1, FifoGiveBack DEF StartRefused
  <2> QED BY <2>1, <2>2, FifoStep, ManagerUsesQueue
<1>3. FifoInv => FifoOrder
  BY DEF FifoInv
<1> QED
  BY <1>1, <1>2, <1>3, SupervisionCorrect, PTL DEF ManagerSpec
===============================================================================
