--------------------- MODULE ParseProcessManager_proofs ---------------------
(***************************************************************************)
(* What is proved about ParseProcessManager for every number of requests   *)
(* and every limit.  The steps of the manager fall into a few kinds, by    *)
(* what they do to the slots and to the monitors; there is one lemma for   *)
(* each kind, and the admission queue's own lemmas are reused for what     *)
(* happens to the slots.                                                   *)
(***************************************************************************)
EXTENDS ParseProcessManager, ParseAdmission_proofs

\* What a step does not do: leave a slot without a monitor, leave a process
\* without one, create a monitor.  Two cancellations and a finally block that
\* raises excepted.
NoNewLeak ==
  \A q \in Requests :
    pc'[q] = "held" /\ q \notin LiveMonitors' =>
      \/ pc[q] = "held" /\ q \notin LiveMonitors
      \/ CancelBeforeStart(q)
      \/ UnlinkFails /\ q \in Uncleaned'

NoNewOrphan ==
  \A q \in LiveProcesses' \ LiveMonitors' :
    q \in LiveProcesses \ LiveMonitors \/ CancelAgain(q)

NoNewMonitor == LiveMonitors' \subseteq LiveMonitors

\* Moving one monitor adds it to the live ones or takes it away.
LEMMA LiveAfterMove ==
  ASSUME ManagerTypeOK, NEW r \in Requests, NEW point, At(r, point)
  PROVE  /\ LiveMonitors' = IF point \in LivePoints THEN LiveMonitors \cup {r}
                            ELSE LiveMonitors \ {r}
         /\ monitor'[r] = point
         /\ \A q \in Requests \ {r} : monitor'[q] = monitor[q]
<1>1. /\ monitor'[r] = point
      /\ \A q \in Requests \ {r} : monitor'[q] = monitor[q]
  BY DEF At, ManagerTypeOK
<1> QED
  BY <1>1 DEF LiveMonitors

\* create_task: a caller that has just got its slot becomes a live monitor.
LEMMA LaunchStep ==
  ASSUME SupervisionInv, AdmissionInv', NEW r \in Requests,
         ~closing, UNCHANGED closing,
         pc[r] \in {"new", Waiting}, Goto(r, "held"), Launch(r)
  PROVE  SupervisionInv' /\ NoNewLeak /\ NoNewOrphan
<1> USE DEF Launch, shutdownVars
<1>0. /\ TypeOK /\ ManagerTypeOK
      /\ pc'[r] = "held"
      /\ \A q \in Requests \ {r} : pc'[q] = pc[q]
  BY DEF SupervisionInv, AdmissionInv, TypeOK, Goto
<1>1. /\ LiveMonitors' = LiveMonitors \cup {r}
      /\ monitor'[r] = "created"
      /\ \A q \in Requests \ {r} : monitor'[q] = monitor[q]
  BY <1>0, LiveAfterMove DEF LivePoints
<1>2. monitor[r] = "none" /\ process[r] = "none"
  BY DEF SupervisionInv, BeforeTheMonitor, Waiting
<1>3. ManagerTypeOK'
  <2>1. monitor' \in [Requests -> {"none", "done"} \cup LivePoints]
    BY <1>0 DEF ManagerTypeOK, At, LivePoints
  <2> QED BY <1>0, <2>1 DEF ManagerTypeOK
<1>u. Uncleaned' = Uncleaned
  BY <1>1, <1>2 DEF Uncleaned
<1>4. MonitorsHoldSlots'
  BY <1>0, <1>1, <1>2, <1>u DEF SupervisionInv, MonitorsHoldSlots, LiveMonitors, Uncleaned
<1>5. BeforeTheMonitor'
  BY <1>0, <1>1, <1>2 DEF SupervisionInv, BeforeTheMonitor
<1>6. ShutdownBookkeeping'
  <2>1. \A q \in registered : q \in Requests /\ q # r
    BY <1>0, <1>2 DEF SupervisionInv, ShutdownBookkeeping, ManagerTypeOK, Terminating, Uncleaned
  <2> QED BY <1>1, <1>u, <2>1 DEF SupervisionInv, ShutdownBookkeeping
<1>7. NoneMissedByShutdown'
  BY <1>1 DEF SupervisionInv, NoneMissedByShutdown
<1>8. NoNewLeak
  BY <1>0, <1>1 DEF NoNewLeak
<1>9. NoNewOrphan
  BY <1>1 DEF NoNewOrphan, LiveProcesses
<1> QED
  BY <1>3, <1>4, <1>5, <1>6, <1>7, <1>8, <1>9 DEF SupervisionInv

\* A caller waits, or fails to get a slot: the monitors do not notice.
LEMMA CallerOnlyStep ==
  ASSUME SupervisionInv, AdmissionInv', UNCHANGED closing, UNCHANGED managerVars,
         \A q \in Requests : /\ pc'[q] = "held" <=> pc[q] = "held"
                             /\ pc'[q] = "released" <=> pc[q] = "released"
  PROVE  SupervisionInv' /\ NoNewLeak /\ NoNewOrphan /\ NoNewMonitor
<1> USE DEF managerVars
<1>1. LiveMonitors' = LiveMonitors /\ Uncleaned' = Uncleaned
  BY DEF LiveMonitors, Uncleaned
<1>2. ManagerTypeOK' /\ NoneMissedByShutdown'
  BY DEF SupervisionInv, ManagerTypeOK, NoneMissedByShutdown
<1>3. MonitorsHoldSlots'
  BY <1>1 DEF SupervisionInv, MonitorsHoldSlots, LiveMonitors, Uncleaned
<1>4. BeforeTheMonitor'
  BY DEF SupervisionInv, BeforeTheMonitor
<1>5. ShutdownBookkeeping'
  BY <1>1 DEF SupervisionInv, ShutdownBookkeeping
<1>6. NoNewLeak /\ NoNewOrphan /\ NoNewMonitor
  BY <1>1 DEF NoNewLeak, NoNewOrphan, NoNewMonitor, LiveProcesses
<1> QED
  BY <1>2, <1>3, <1>4, <1>5, <1>6 DEF SupervisionInv

\* The finally block ends a live monitor and gives its slot back.
LEMMA FinallyBlockStep ==
  ASSUME SupervisionInv, NEW r \in LiveMonitors, NEW what \in Answers \ {"raised"},
         FinallyBlock(r, what), UNCHANGED process
  PROVE  /\ SupervisionInv' /\ NoNewLeak /\ NoNewMonitor
         /\ process[r] \notin Alive \/ CancelAgain(r) => NoNewOrphan
<1> USE DEF FinallyBlock, shutdownVars
<1>0. /\ r \in Requests
      /\ pc[r] = "held"
      /\ AdmissionInv /\ TypeOK /\ ManagerTypeOK
  BY DEF SupervisionInv, AdmissionInv, MonitorsHoldSlots, LiveMonitors
<1>1. r \in Holders
  BY <1>0 DEF Holders
<1>2. AdmissionInv'
  BY <1>0, <1>1, GiveBackStep
<1>3. /\ pc'[r] = "released"
      /\ \A q \in Requests \ {r} : pc'[q] = pc[q]
  BY <1>0 DEF Goto, TypeOK
<1>4. /\ LiveMonitors' = LiveMonitors \ {r}
      /\ monitor'[r] = "done"
      /\ \A q \in Requests \ {r} : monitor'[q] = monitor[q]
  BY <1>0, LiveAfterMove DEF LivePoints, Terminating
<1>5. ManagerTypeOK'
  BY <1>0 DEF ManagerTypeOK, At
<1>u. Uncleaned' = Uncleaned /\ r \notin Uncleaned
  BY <1>0, <1>4 DEF Uncleaned, ManagerTypeOK, LiveMonitors, LivePoints, Terminating
<1>6. MonitorsHoldSlots'
  BY <1>3, <1>4, <1>u DEF SupervisionInv, MonitorsHoldSlots, LiveMonitors, Uncleaned
<1>7. BeforeTheMonitor'
  BY <1>3, <1>4 DEF SupervisionInv, BeforeTheMonitor, LivePoints, Terminating
<1>8. ShutdownBookkeeping'
  <2>1. \A q \in registered' : q \in registered /\ q \in Requests /\ q # r
    BY <1>0 DEF ManagerTypeOK
  <2> QED BY <1>4, <1>u, <2>1 DEF SupervisionInv, ShutdownBookkeeping
<1>9. NoneMissedByShutdown'
  BY <1>4 DEF SupervisionInv, NoneMissedByShutdown
<1>10. NoNewLeak /\ NoNewMonitor
  BY <1>3, <1>4 DEF NoNewLeak, NoNewMonitor
<1>11. process[r] \notin Alive \/ CancelAgain(r) => NoNewOrphan
  BY <1>4 DEF NoNewOrphan, LiveProcesses
<1> QED
  BY <1>2, <1>5, <1>6, <1>7, <1>8, <1>9, <1>10, <1>11 DEF SupervisionInv

\* It raises: a live monitor ends and keeps its slot and its entry.
LEMMA FinallyRaisesStep ==
  ASSUME SupervisionInv, NEW r \in LiveMonitors, FinallyRaises(r), UNCHANGED process
  PROVE  /\ SupervisionInv' /\ NoNewLeak /\ NoNewMonitor
         /\ process[r] \notin Alive \/ CancelAgain(r) => NoNewOrphan
<1> USE DEF FinallyRaises, shutdownVars
<1>0. /\ r \in Requests
      /\ pc[r] = "held"
      /\ ManagerTypeOK
      /\ UNCHANGED vars
      /\ UNCHANGED <<activeSlots, waiters, closing, future, pc, wake, ticket>>
  BY DEF SupervisionInv, MonitorsHoldSlots, LiveMonitors, vars
<1>1. /\ LiveMonitors' = LiveMonitors \ {r}
      /\ monitor'[r] = "done"
      /\ \A q \in Requests \ {r} : monitor'[q] = monitor[q]
  BY <1>0, LiveAfterMove DEF LivePoints, Terminating
<1>2. Uncleaned' = Uncleaned \cup {r}
  BY <1>0, <1>1 DEF Uncleaned, ManagerTypeOK
<1>3. AdmissionInv'
  BY <1>0, AdmissionStep DEF SupervisionInv
<1>4. ManagerTypeOK'
  BY <1>0 DEF ManagerTypeOK, At, Answers
<1>5. MonitorsHoldSlots'
  BY <1>0, <1>1, <1>2 DEF SupervisionInv, MonitorsHoldSlots
<1>6. BeforeTheMonitor'
  BY <1>0, <1>1 DEF SupervisionInv, BeforeTheMonitor, LivePoints, Terminating
<1>7. ShutdownBookkeeping'
  <2>1. \A q \in registered : q \in Requests
    BY <1>0 DEF ManagerTypeOK
  <2> QED BY <1>0, <1>1, <1>2, <2>1 DEF SupervisionInv, ShutdownBookkeeping
<1>8. NoneMissedByShutdown'
  BY <1>1 DEF SupervisionInv, NoneMissedByShutdown
<1>9. NoNewLeak /\ NoNewMonitor
  BY <1>0, <1>1, <1>2 DEF NoNewLeak, NoNewMonitor
<1>10. process[r] \notin Alive \/ CancelAgain(r) => NoNewOrphan
  BY <1>1 DEF NoNewOrphan, LiveProcesses
<1> QED
  BY <1>3, <1>4, <1>5, <1>6, <1>7, <1>8, <1>9, <1>10 DEF SupervisionInv

\* Either way a live monitor ends.
LEMMA FinishStep ==
  ASSUME SupervisionInv, NEW r \in LiveMonitors, NEW what \in Answers \ {"raised"},
         Finish(r, what), UNCHANGED process
  PROVE  /\ SupervisionInv' /\ NoNewLeak /\ NoNewMonitor
         /\ process[r] \notin Alive \/ CancelAgain(r) => NoNewOrphan
BY FinallyBlockStep, FinallyRaisesStep DEF Finish

\* A live monitor goes on; only a monitor that has registered its process,
\* and only before a shutdown, gets to process.wait().
LEMMA ProceedStep ==
  ASSUME SupervisionInv, NEW r \in LiveMonitors,
         NEW point \in LivePoints \ {"created"}, Proceed(r, point),
         ManagerTypeOK',
         registered' = registered \/ registered' = registered \cup {r},
         r \in registered' => point \in {"running"} \cup Terminating,
         point = "running" => r \in registered' /\ ~closing,
         process'[r] # "none",
         \A q \in Requests \ {r} : process'[q] = process[q]
  PROVE  SupervisionInv' /\ NoNewLeak /\ NoNewOrphan /\ NoNewMonitor
<1> USE DEF Proceed, shutdownVars
<1>0. /\ r \in Requests
      /\ ManagerTypeOK
      /\ UNCHANGED vars
      /\ UNCHANGED <<activeSlots, waiters, closing, future, pc, wake, ticket>>
  BY DEF SupervisionInv, LiveMonitors, vars
<1>1. /\ LiveMonitors' = LiveMonitors
      /\ monitor'[r] = point
      /\ \A q \in Requests \ {r} : monitor'[q] = monitor[q]
  BY <1>0, LiveAfterMove
<1>2. AdmissionInv'
  BY <1>0, AdmissionStep DEF SupervisionInv
<1>u. Uncleaned' = Uncleaned
  BY <1>0, <1>1 DEF Uncleaned, LiveMonitors, LivePoints, Terminating
<1>3. MonitorsHoldSlots'
  BY <1>0, <1>1, <1>u DEF SupervisionInv, MonitorsHoldSlots
<1>4. BeforeTheMonitor'
  BY <1>0, <1>1 DEF SupervisionInv, BeforeTheMonitor, MonitorsHoldSlots, LivePoints, Terminating
<1>5. ShutdownBookkeeping'
  <2>1. \A q \in registered' \ {r} : q \in registered /\ q \in Requests
    BY <1>0 DEF ManagerTypeOK
  <2>2. \A q \in registered' :
          monitor'[q] \in {"running"} \cup Terminating \/ q \in Uncleaned'
    BY <1>1, <1>u, <2>1 DEF SupervisionInv, ShutdownBookkeeping
  <2> QED BY <1>0, <1>1, <2>2 DEF SupervisionInv, ShutdownBookkeeping
<1>6. NoneMissedByShutdown'
  BY <1>0, <1>1, <1>5 DEF SupervisionInv, NoneMissedByShutdown, ShutdownBookkeeping
<1>7. NoNewLeak /\ NoNewMonitor
  BY <1>0, <1>1 DEF NoNewLeak, NoNewMonitor
<1>8. NoNewOrphan
  BY <1>1 DEF NoNewOrphan, LiveProcesses
<1> QED
  BY <1>2, <1>3, <1>4, <1>5, <1>6, <1>7, <1>8 DEF SupervisionInv

\* The world outside the monitors: a process exits, or shutdown() deals with
\* one that it listed.
LEMMA WorldStep ==
  ASSUME SupervisionInv, NEW r \in Requests, ManagerTypeOK',
         UNCHANGED <<vars, monitor, goal, answer, registered, stage, awaited>>,
         process[r] = "none" <=> process'[r] = "none",
         process'[r] \in Alive => process[r] \in Alive,
         process'[r] = "running" => process[r] = "running" /\ sweep'[r] = sweep[r],
         \A q \in Requests \ {r} : process'[q] = process[q] /\ sweep'[q] = sweep[q]
  PROVE  SupervisionInv' /\ NoNewLeak /\ NoNewOrphan /\ NoNewMonitor
<1>0. /\ LiveMonitors' = LiveMonitors /\ Uncleaned' = Uncleaned
      /\ UNCHANGED <<activeSlots, waiters, closing, future, pc, wake, ticket>>
      /\ UNCHANGED vars
  BY DEF LiveMonitors, Uncleaned, vars
<1>1. AdmissionInv'
  BY <1>0, AdmissionStep DEF SupervisionInv
<1>2. MonitorsHoldSlots' /\ ShutdownBookkeeping'
  BY <1>0 DEF SupervisionInv, MonitorsHoldSlots, ShutdownBookkeeping
<1>3. BeforeTheMonitor'
  BY <1>0 DEF SupervisionInv, BeforeTheMonitor
<1>4. NoneMissedByShutdown'
  BY DEF SupervisionInv, NoneMissedByShutdown
<1>5. NoNewLeak /\ NoNewMonitor
  BY <1>0 DEF NoNewLeak, NoNewMonitor
<1>6. NoNewOrphan
  BY <1>0 DEF NoNewOrphan, LiveProcesses
<1> QED
  BY <1>1, <1>2, <1>3, <1>4, <1>5, <1>6 DEF SupervisionInv

\* shutdown() starts: the queue is closed, the processes are listed.
LEMMA BeginShutdownStep ==
  ASSUME SupervisionInv, BeginShutdown
  PROVE  SupervisionInv' /\ NoNewLeak /\ NoNewOrphan /\ NoNewMonitor
<1> USE DEF BeginShutdown
<1>0. /\ ManagerTypeOK
      /\ closing' = TRUE
      /\ LiveMonitors' = LiveMonitors /\ Uncleaned' = Uncleaned
  BY DEF SupervisionInv, CloseQueue, LiveMonitors, Uncleaned
<1>1. AdmissionInv'
  <2>1. Shutdown
    BY DEF Shutdown, SupervisionInv, ShutdownBookkeeping
  <2> QED BY <2>1, ShutdownStep DEF SupervisionInv
<1>2. ManagerTypeOK'
  <2>1. sweep' \in [Requests -> {"none", "listed"} \cup Terminating]
    OBVIOUS
  <2>2. awaited' \subseteq Requests
    BY DEF LiveMonitors
  <2> QED BY <1>0, <2>1, <2>2 DEF ManagerTypeOK
<1>3. MonitorsHoldSlots' /\ BeforeTheMonitor' /\ ShutdownBookkeeping'
  BY <1>0 DEF SupervisionInv, MonitorsHoldSlots, BeforeTheMonitor, ShutdownBookkeeping
<1>4. NoneMissedByShutdown'
  BY DEF SupervisionInv, NoneMissedByShutdown
<1>5. NoNewLeak /\ NoNewOrphan /\ NoNewMonitor
  BY <1>0 DEF NoNewLeak, NoNewOrphan, NoNewMonitor, LiveProcesses
<1> QED
  BY <1>1, <1>2, <1>3, <1>4, <1>5 DEF SupervisionInv

\* shutdown() returns, startup() reopens: the monitors do not move.
LEMMA StageStep ==
  ASSUME SupervisionInv, EndShutdown \/ ManagerStartup
  PROVE  SupervisionInv' /\ NoNewLeak /\ NoNewOrphan /\ NoNewMonitor
<1> USE DEF EndShutdown, ManagerStartup
<1>0. /\ LiveMonitors' = LiveMonitors /\ Uncleaned' = Uncleaned
      /\ UNCHANGED <<pc, monitor, process, registered, sweep>>
  BY DEF LiveMonitors, Uncleaned, Startup, vars
<1>1. AdmissionInv'
  <2>1. [Next]_vars
    BY DEF Next
  <2> QED BY <2>1, AdmissionStep DEF SupervisionInv
<1>2. ManagerTypeOK'
  BY DEF SupervisionInv, ManagerTypeOK
<1>3. MonitorsHoldSlots' /\ BeforeTheMonitor'
  BY <1>0 DEF SupervisionInv, MonitorsHoldSlots, BeforeTheMonitor
<1>4. ShutdownBookkeeping'
  BY <1>0 DEF SupervisionInv, ShutdownBookkeeping, Startup, vars
<1>5. NoneMissedByShutdown'
  BY <1>0 DEF SupervisionInv, NoneMissedByShutdown
<1>6. NoNewLeak /\ NoNewOrphan /\ NoNewMonitor
  BY <1>0 DEF NoNewLeak, NoNewOrphan, NoNewMonitor, LiveProcesses
<1> QED
  BY <1>1, <1>2, <1>3, <1>4, <1>5, <1>6 DEF SupervisionInv

\* Cancelled before its first step: the one step that leaks a slot.
LEMMA CancelBeforeStartStep ==
  ASSUME SupervisionInv, NEW r \in Requests, CancelBeforeStart(r)
  PROVE  SupervisionInv' /\ NoNewLeak /\ NoNewOrphan /\ NoNewMonitor
<1>a. NoNewLeak
  <2>1. UNCHANGED pc /\ LiveMonitors' = LiveMonitors \ {r}
    BY LiveAfterMove DEF CancelBeforeStart, vars, SupervisionInv, LivePoints, Terminating
  <2> QED BY <2>1 DEF NoNewLeak
<1> USE DEF CancelBeforeStart, shutdownVars
<1>0. /\ ManagerTypeOK
      /\ UNCHANGED vars
      /\ UNCHANGED <<activeSlots, waiters, closing, future, pc, wake, ticket>>
      /\ pc[r] = "held"
      /\ process[r] = "none"
  BY DEF SupervisionInv, MonitorsHoldSlots, BeforeTheMonitor, LiveMonitors, LivePoints, vars
<1>1. /\ LiveMonitors' = LiveMonitors \ {r}
      /\ monitor'[r] = "done"
      /\ \A q \in Requests \ {r} : monitor'[q] = monitor[q]
  BY <1>0, LiveAfterMove DEF LivePoints, Terminating
<1>2. AdmissionInv'
  BY <1>0, AdmissionStep DEF SupervisionInv
<1>3. ManagerTypeOK'
  BY <1>0 DEF ManagerTypeOK, At, Answers
<1>u. Uncleaned' = Uncleaned
  BY <1>0, <1>1 DEF Uncleaned, ManagerTypeOK
<1>4. MonitorsHoldSlots' /\ BeforeTheMonitor'
  BY <1>0, <1>1, <1>u DEF SupervisionInv, MonitorsHoldSlots, BeforeTheMonitor, LiveMonitors
<1>5. ShutdownBookkeeping'
  <2>1. \A q \in registered : q \in Requests /\ q # r
    BY <1>0 DEF SupervisionInv, ShutdownBookkeeping, ManagerTypeOK, Terminating, Uncleaned
  <2> QED BY <1>0, <1>1, <1>u, <2>1 DEF SupervisionInv, ShutdownBookkeeping
<1>6. NoneMissedByShutdown'
  BY <1>1 DEF SupervisionInv, NoneMissedByShutdown
<1>7. NoNewOrphan /\ NoNewMonitor
  BY <1>0, <1>1 DEF NoNewOrphan, NoNewMonitor, LiveProcesses, Alive
<1> QED
  BY <1>a, <1>2, <1>3, <1>4, <1>5, <1>6, <1>7 DEF SupervisionInv
-----------------------------------------------------------------------------
\* start(), whichever way acquire() goes.
LEMMA StartStep ==
  ASSUME SupervisionInv, NEW r \in Requests, Start(r)
  PROVE  SupervisionInv' /\ NoNewLeak /\ NoNewOrphan /\ (closing => NoNewMonitor)
<1>0. AdmissionInv /\ TypeOK
  BY DEF SupervisionInv, AdmissionInv
<1>1. CASE StartAtOnce(r)
  <2>1. AdmissionInv'
    BY <1>0, <1>1, AcquireNowStep DEF StartAtOnce
  <2> QED BY <1>1, <2>1, LaunchStep DEF StartAtOnce, AcquireNow
<1>2. CASE StartAfterWait(r)
  <2>1. AdmissionInv'
    BY <1>0, <1>2, CallerStep DEF StartAfterWait, Resume
  <2>2. /\ ~closing
        /\ UNCHANGED closing
        /\ pc[r] = Waiting
        /\ Goto(r, "held")
        /\ Launch(r)
    BY <1>2 DEF StartAfterWait, ResumeResolved, ResumeTooLate, ResumeCancelDropped
  <2> QED BY <2>1, <2>2, LaunchStep
<1>3. CASE StartRefused(r)
  <2>1. r \in Holders
    BY <1>3 DEF StartRefused, Holders
  <2>2. AdmissionInv'
    BY <1>0, <1>3, <2>1, GiveBackStep DEF StartRefused
  <2>3. \A q \in Requests : /\ pc'[q] = "held" <=> pc[q] = "held"
                            /\ pc'[q] = "released" <=> pc[q] = "released"
    BY <1>0, <1>3 DEF StartRefused, Goto, TypeOK, Waiting
  <2> QED BY <1>3, <2>2, <2>3, CallerOnlyStep DEF StartRefused
<1>4. CASE StartWaitsOrFails(r)
  <2>1. AdmissionInv'
    BY <1>0, <1>4, CallerStep DEF StartWaitsOrFails, Acquire, Resume
  <2>2. ASSUME NEW out, out \notin {"held", "released"},
               pc[r] \in {"new", Waiting}, Goto(r, out)
        PROVE  \A q \in Requests : /\ pc'[q] = "held" <=> pc[q] = "held"
                                   /\ pc'[q] = "released" <=> pc[q] = "released"
    BY <1>0, <2>2 DEF Goto, TypeOK, Waiting
  <2>3. UNCHANGED closing /\ UNCHANGED managerVars
    BY <1>4 DEF StartWaitsOrFails, AcquireRefused, AcquireFull, AcquireQueue, Expire,
                Cancel, ResumeTimedOut, ResumeCancelled, ResumeResolved, ResumeTooLate,
                ResumeCancelDropped
  <2>4. CASE Expire(r) \/ Cancel(r)
    BY <2>1, <2>3, <2>4, CallerOnlyStep DEF Expire, Cancel
  <2>5. CASE AcquireRefused(r) \/ AcquireFull(r) \/ AcquireQueue(r)
             \/ ResumeTimedOut(r) \/ ResumeCancelled(r)
    <3>1. \E out \in {"refused", "full", Waiting, "timeout", "cancelled"} :
            pc[r] \in {"new", Waiting} /\ Goto(r, out)
      BY <2>5 DEF AcquireRefused, AcquireFull, AcquireQueue, ResumeTimedOut, ResumeCancelled
    <3> QED BY <2>1, <2>2, <2>3, <3>1, CallerOnlyStep DEF Waiting
  <2>6. CASE /\ future[r] = "exception"
             /\ ResumeResolved(r) \/ ResumeTooLate(r) \/ ResumeCancelDropped(r)
    <3>1. pc[r] \in {"new", Waiting} /\ Goto(r, "refused")
      BY <2>6 DEF ResumeResolved, ResumeTooLate, ResumeCancelDropped
    <3> QED BY <2>1, <2>2, <2>3, <3>1, CallerOnlyStep
  <2> QED BY <1>4, <2>4, <2>5, <2>6 DEF StartWaitsOrFails
<1> QED
  BY <1>1, <1>2, <1>3, <1>4 DEF Start

\* A monitor sends a signal and waits for what comes of it.
LEMMA SignalStep ==
  ASSUME SupervisionInv, NEW r \in LiveMonitors, NEW point \in Terminating,
         NEW state \in {"asked", "killed"}, Proceed(r, point), Signal(r, state),
         goal' \in [Requests -> {"none", "closing", "timeout", "cancel"}],
         UNCHANGED registered
  PROVE  SupervisionInv' /\ NoNewLeak /\ NoNewOrphan /\ NoNewMonitor
<1>0. ManagerTypeOK /\ r \in Requests
  BY DEF SupervisionInv, LiveMonitors
<1>1. process' \in [Requests -> {"none", "succeeded", "crashed"} \cup Alive]
  BY <1>0 DEF ManagerTypeOK, Signal, Alive
<1>2. monitor' \in [Requests -> {"none", "done"} \cup LivePoints]
  BY <1>0 DEF ManagerTypeOK, Proceed, At, LivePoints
<1>3. ManagerTypeOK'
  BY <1>0, <1>1, <1>2 DEF ManagerTypeOK, Proceed, shutdownVars
<1>4. \A q \in Requests \ {r} : process'[q] = process[q]
  BY <1>0 DEF ManagerTypeOK, Signal
<1>5. point \in LivePoints \ {"created"} /\ point # "running"
  BY DEF LivePoints, Terminating
<1>6. process'[r] # "none"
  BY <1>0 DEF ManagerTypeOK, Signal
<1> QED
  BY <1>3, <1>4, <1>5, <1>6, ProceedStep

\* Termination: it is over at once, or the monitor goes on.
LEMMA TerminateStep ==
  ASSUME SupervisionInv, NEW r \in LiveMonitors,
         NEW why \in {"closing", "timeout", "cancel"}, NEW what \in Answers \ {"raised"},
         Terminate(r, why, what)
  PROVE  SupervisionInv' /\ NoNewLeak /\ NoNewOrphan /\ NoNewMonitor
<1>1. CASE process[r] \notin Alive /\ Finish(r, what) /\ UNCHANGED process
  BY <1>1, FinishStep
<1>2. CASE /\ Proceed(r, "asking")
           /\ Signal(r, "asked")
           /\ goal' = [goal EXCEPT ![r] = why]
           /\ UNCHANGED registered
  <2>1. goal' \in [Requests -> {"none", "closing", "timeout", "cancel"}]
    BY <1>2 DEF SupervisionInv, ManagerTypeOK
  <2> QED BY <1>2, <2>1, SignalStep DEF Terminating
<1> QED
  BY <1>1, <1>2 DEF Terminate

\* Every step of a monitor.
LEMMA MonitorStep ==
  ASSUME SupervisionInv, NEW r \in Requests,
         \/ MonitorRuns(r) \/ ParseTimeout(r) \/ GraceExpires(r)
         \/ CancelSpawn(r) \/ CancelMonitor(r) \/ CancelAgain(r)
  PROVE  SupervisionInv' /\ NoNewLeak /\ NoNewOrphan /\ NoNewMonitor
<1>0. ManagerTypeOK
  BY DEF SupervisionInv
<1>1. CASE Spawn(r)
  <2>1. r \in LiveMonitors /\ r \notin registered
    BY <1>1 DEF Spawn, LiveMonitors, LivePoints, SupervisionInv, ShutdownBookkeeping, Terminating,
                Uncleaned
  <2>2. ManagerTypeOK'
    <3>1. process' \in [Requests -> {"none", "succeeded", "crashed"} \cup Alive]
      BY <1>0, <1>1 DEF Spawn, ManagerTypeOK, Alive
    <3>2. monitor' \in [Requests -> {"none", "done"} \cup LivePoints]
      BY <1>0, <1>1 DEF Spawn, ManagerTypeOK, Proceed, At, LivePoints
    <3> QED BY <1>0, <1>1, <3>1, <3>2 DEF Spawn, ManagerTypeOK, Proceed, shutdownVars
  <2>3. /\ \A q \in Requests \ {r} : process'[q] = process[q]
        /\ process'[r] # "none"
        /\ "spawning" \in LivePoints \ {"created"}
    BY <1>0, <1>1 DEF Spawn, ManagerTypeOK, LivePoints
  <2> QED BY <1>1, <2>1, <2>2, <2>3, ProceedStep DEF Spawn
<1>2. CASE SpawnFails(r)
  <2>1. r \in LiveMonitors /\ process[r] \notin Alive
    BY <1>2 DEF SpawnFails, LiveMonitors, LivePoints, SupervisionInv, BeforeTheMonitor, Alive
  <2> QED BY <1>2, <2>1, FinishStep DEF SpawnFails, Answers
<1>3. CASE Register(r)
  <2>1. r \in LiveMonitors /\ process[r] # "none"
    BY <1>3 DEF Register, LiveMonitors, LivePoints, SupervisionInv, BeforeTheMonitor
  <2>2. ManagerTypeOK'
    <3>1. monitor' \in [Requests -> {"none", "done"} \cup LivePoints]
      BY <1>0, <1>3 DEF Register, ManagerTypeOK, Proceed, At, LivePoints
    <3> QED BY <1>0, <1>3, <3>1 DEF Register, ManagerTypeOK, Proceed, shutdownVars
  <2> QED BY <1>3, <2>1, <2>2, ProceedStep DEF Register, LivePoints
<1>4. CASE RegisterRefused(r)
  <2>1. r \in LiveMonitors
    BY <1>4 DEF RegisterRefused, LiveMonitors, LivePoints
  <2> QED BY <1>4, <2>1, TerminateStep DEF RegisterRefused, Answers
<1>5. CASE ExitSeen(r)
  <2>1. r \in LiveMonitors /\ process[r] \notin Alive
    BY <1>5 DEF ExitSeen, LiveMonitors, LivePoints, Alive
  <2>2. PICK what \in Answers \ {"raised"} : Finish(r, what)
    BY <1>5 DEF ExitSeen, Answers
  <2> QED BY <1>5, <2>1, <2>2, FinishStep DEF ExitSeen
<1>6. CASE Reaped(r)
  <2>1. r \in LiveMonitors /\ Ending(r) \in Answers \ {"raised"}
    BY <1>6 DEF Reaped, LiveMonitors, LivePoints, Ending, Answers
  <2> QED BY <1>6, <2>1, FinishStep DEF Reaped
<1>7. CASE ParseTimeout(r)
  <2>1. r \in LiveMonitors
    BY <1>7 DEF ParseTimeout, LiveMonitors, LivePoints
  <2> QED BY <1>7, <2>1, TerminateStep DEF ParseTimeout, Answers
<1>8. CASE GraceExpires(r)
  <2>1. r \in LiveMonitors
    BY <1>8 DEF GraceExpires, LiveMonitors, LivePoints, Terminating
  <2>2. goal' \in [Requests -> {"none", "closing", "timeout", "cancel"}]
    BY <1>0, <1>8 DEF GraceExpires, ManagerTypeOK
  <2> QED BY <1>8, <2>1, <2>2, SignalStep DEF GraceExpires, Terminating
<1>9. CASE CancelSpawn(r)
  <2>1. r \in LiveMonitors
    BY <1>9 DEF CancelSpawn, LiveMonitors, LivePoints
  <2>2. CASE process[r] \notin Alive /\ Finish(r, "cancelled") /\ UNCHANGED process
    BY <2>1, <2>2, FinishStep DEF Answers
  <2>3. CASE /\ Proceed(r, "killing")
             /\ Signal(r, "killed")
             /\ goal' = [goal EXCEPT ![r] = "cancel"]
             /\ UNCHANGED registered
    <3>1. goal' \in [Requests -> {"none", "closing", "timeout", "cancel"}]
      BY <1>0, <2>3 DEF ManagerTypeOK
    <3> QED BY <2>1, <2>3, <3>1, SignalStep DEF Terminating
  <2> QED BY <1>9, <2>2, <2>3 DEF CancelSpawn
<1>10. CASE CancelMonitor(r)
  <2>1. r \in LiveMonitors
    BY <1>10 DEF CancelMonitor, LiveMonitors, LivePoints
  <2> QED BY <1>10, <2>1, TerminateStep DEF CancelMonitor, Answers
<1>11. CASE CancelAgain(r)
  <2>1. r \in LiveMonitors
    BY <1>11 DEF CancelAgain, LiveMonitors, LivePoints
  <2> QED BY <1>11, <2>1, FinishStep DEF CancelAgain, Answers
<1> QED
  BY <1>1, <1>2, <1>3, <1>4, <1>5, <1>6, <1>7, <1>8, <1>9, <1>10, <1>11 DEF MonitorRuns

\* Every step of the processes and of the sweep of shutdown().
LEMMA OutsideStep ==
  ASSUME SupervisionInv, NEW r \in Requests,
         \/ ProcessExits(r) \/ ShutdownTerminates(r)
         \/ ShutdownGraceExpires(r) \/ ShutdownPasses(r)
  PROVE  SupervisionInv' /\ NoNewLeak /\ NoNewOrphan /\ NoNewMonitor
<1> USE DEF Alive
<1>0. ManagerTypeOK
  BY DEF SupervisionInv
<1>1. ASSUME NEW state \in {"asked", "killed", "succeeded", "crashed"},
             process[r] \in Alive,
             process' = [process EXCEPT ![r] = state],
             sweep' \in [Requests -> {"none", "listed"} \cup Terminating],
             \A q \in Requests \ {r} : sweep'[q] = sweep[q],
             UNCHANGED <<vars, monitor, goal, answer, registered, stage, awaited>>
      PROVE  SupervisionInv' /\ NoNewLeak /\ NoNewOrphan /\ NoNewMonitor
  <2>1. process' \in [Requests -> {"none", "succeeded", "crashed"} \cup Alive]
    BY <1>0, <1>1 DEF ManagerTypeOK
  <2>2. ManagerTypeOK'
    BY <1>0, <1>1, <2>1 DEF ManagerTypeOK
  <2>3. process'[r] = state /\ \A q \in Requests \ {r} : process'[q] = process[q]
    BY <1>0, <1>1 DEF ManagerTypeOK
  <2> QED BY <1>1, <2>2, <2>3, WorldStep
<1>2. CASE ProcessExits(r)
  <2>1. UNCHANGED <<vars, monitor, goal, answer, registered, stage, sweep, awaited>>
    BY <1>2 DEF ProcessExits, shutdownVars
  <2>2. process[r] \in Alive
    BY <1>2 DEF ProcessExits
  <2> QED BY <1>0, <1>1, <1>2, <2>1, <2>2 DEF ProcessExits, ManagerTypeOK
<1>3. CASE ShutdownTerminates(r) \/ ShutdownGraceExpires(r)
  <2>1. \E state \in {"asked", "killed"} : process' = [process EXCEPT ![r] = state]
    BY <1>3 DEF ShutdownTerminates, ShutdownGraceExpires, Signal
  <2>2. \E point \in Terminating : SweepTo(r, point)
    BY <1>3 DEF ShutdownTerminates, ShutdownGraceExpires, Terminating
  <2>3. /\ sweep' \in [Requests -> {"none", "listed"} \cup Terminating]
        /\ \A q \in Requests \ {r} : sweep'[q] = sweep[q]
    BY <1>0, <2>2 DEF SweepTo, ManagerTypeOK
  <2>4. process[r] \in Alive
    BY <1>3 DEF ShutdownTerminates, ShutdownGraceExpires
  <2> QED BY <1>1, <2>1, <2>2, <2>3, <2>4 DEF SweepTo
<1>4. CASE ShutdownPasses(r)
  <2>1. /\ sweep' \in [Requests -> {"none", "listed"} \cup Terminating]
        /\ \A q \in Requests \ {r} : sweep'[q] = sweep[q]
    BY <1>0, <1>4 DEF ShutdownPasses, SweepTo, ManagerTypeOK
  <2>2. ManagerTypeOK'
    BY <1>0, <1>4, <2>1 DEF ShutdownPasses, SweepTo, ManagerTypeOK
  <2> QED BY <1>4, <2>1, <2>2, WorldStep DEF ShutdownPasses, SweepTo
<1> QED
  BY <1>2, <1>3, <1>4

\* Every step keeps the invariant.
LEMMA SupervisionStep ==
  ASSUME SupervisionInv, [ManagerNext]_allVars
  PROVE  SupervisionInv' /\ NoNewLeak /\ NoNewOrphan /\ (closing => NoNewMonitor)
<1>1. CASE UNCHANGED allVars
  <2>1. UNCHANGED managerVars /\ UNCHANGED vars /\ UNCHANGED <<pc, closing>>
    BY <1>1 DEF allVars, vars
  <2>2. AdmissionInv'
    BY <2>1, AdmissionStep DEF SupervisionInv
  <2> QED BY <2>1, <2>2, CallerOnlyStep
<1> QED
  BY <1>1, StartStep, MonitorStep, OutsideStep, BeginShutdownStep, StageStep,
     CancelBeforeStartStep
  DEF ManagerNext, MonitorCancelled

LEMMA SupervisionInit == ManagerInit => SupervisionInv
<1> SUFFICES ASSUME ManagerInit PROVE SupervisionInv
  OBVIOUS
<1> USE DEF ManagerInit
<1>1. AdmissionInv
  BY AdmissionInit
<1>2. ManagerTypeOK
  BY DEF ManagerTypeOK
<1>3. LiveMonitors = {} /\ Uncleaned = {}
  BY DEF LiveMonitors, Uncleaned, LivePoints, Terminating
<1>4. ~closing
  BY DEF Init
<1> QED
  BY <1>1, <1>2, <1>3, <1>4
  DEF SupervisionInv, MonitorsHoldSlots, BeforeTheMonitor, ShutdownBookkeeping,
      NoneMissedByShutdown, LivePoints, Terminating
-----------------------------------------------------------------------------
\* The invariant of the supervision, whatever cancellation is delivered.
THEOREM SupervisionCorrect == ManagerSpec => []SupervisionInv
<1>1. SupervisionInv /\ [ManagerNext]_allVars => SupervisionInv'
  BY SupervisionStep
<1> QED
  BY <1>1, SupervisionInit, PTL DEF ManagerSpec

\* shutdown() misses no process, whatever cancellation is delivered.
THEOREM ShutdownMissesNothing == ManagerSpec => []NoneMissedByShutdown
<1>1. SupervisionInv => NoneMissedByShutdown
  BY DEF SupervisionInv
<1> QED
  BY <1>1, SupervisionCorrect, PTL

\* No monitor starts once shutdown() has begun, whatever cancellation is
\* delivered.
THEOREM ClosingStartsNothing == ManagerSpec => NoMonitorWhileClosing
<1>1. SupervisionInv /\ [ManagerNext]_allVars
        => [closing => LiveMonitors' \subseteq LiveMonitors]_allVars
  BY SupervisionStep DEF NoNewMonitor
<1> QED
  BY <1>1, SupervisionCorrect, PTL DEF ManagerSpec, NoMonitorWhileClosing

\* What has happened to a monitor that is done stays as it is.
LEMMA DoneStays ==
  ASSUME SupervisionInv, [ManagerNext]_allVars, NEW q \in Requests, monitor[q] = "done"
  PROVE  /\ monitor'[q] = "done"
         /\ goal'[q] = goal[q]
         /\ answer'[q] = answer[q]
         /\ pc'[q] = pc[q]
         /\ process[q] = "none" <=> process'[q] = "none"
<1> DEFINE Stays == /\ monitor'[q] = "done"
                    /\ goal'[q] = goal[q]
                    /\ answer'[q] = answer[q]
                    /\ pc'[q] = pc[q]
                    /\ process[q] = "none" <=> process'[q] = "none"
<1>0. /\ ManagerTypeOK /\ TypeOK
      /\ pc[q] \in {"held", "released"}
  BY DEF SupervisionInv, AdmissionInv, BeforeTheMonitor
<1>1. ASSUME NEW r \in Requests, Start(r)
      PROVE  Stays
  <2>1. ASSUME pc[r] \in {"new", Waiting}, NEW out, Goto(r, out)
        PROVE  q # r /\ pc'[q] = pc[q]
    BY <1>0, <2>1 DEF Goto, TypeOK, Waiting
  <2>2. CASE StartAtOnce(r) \/ StartAfterWait(r)
    <3>1. pc[r] \in {"new", Waiting} /\ Goto(r, "held")
      BY <2>2 DEF StartAtOnce, StartAfterWait, AcquireNow, ResumeResolved, ResumeTooLate,
                  ResumeCancelDropped
    <3> QED BY <1>0, <2>1, <2>2, <3>1
            DEF StartAtOnce, StartAfterWait, Launch, At, ManagerTypeOK
  <2>3. CASE StartRefused(r)
    BY <2>1, <2>3 DEF StartRefused, managerVars
  <2>4. CASE StartWaitsOrFails(r)
    <3>1. UNCHANGED pc \/ \E out : pc[r] \in {"new", Waiting} /\ Goto(r, out)
      BY <2>4 DEF StartWaitsOrFails, AcquireRefused, AcquireFull, AcquireQueue, Expire, Cancel,
                  ResumeTimedOut, ResumeCancelled, ResumeResolved, ResumeTooLate,
                  ResumeCancelDropped
    <3> QED BY <1>0, <2>1, <2>4, <3>1 DEF StartWaitsOrFails, managerVars
  <2> QED BY <1>1, <2>2, <2>3, <2>4 DEF Start
<1>2. ASSUME NEW r \in Requests, monitor[r] \in LivePoints,
             \/ \E what : Finish(r, what) /\ UNCHANGED process
             \/ \E point : At(r, point) /\ UNCHANGED <<vars, answer>>
             \/ CancelBeforeStart(r)
      PROVE  /\ q # r /\ monitor'[q] = "done" /\ answer'[q] = answer[q] /\ pc'[q] = pc[q]
  <2>1. q # r
    BY <1>2 DEF LivePoints, Terminating
  <2> QED BY <1>0, <1>2, <2>1 DEF Finish, FinallyBlock, FinallyRaises, CancelBeforeStart, At, Goto, vars, ManagerTypeOK, TypeOK
<1>3. ASSUME NEW r \in Requests,
             \/ MonitorRuns(r) \/ ParseTimeout(r) \/ GraceExpires(r) \/ MonitorCancelled(r)
      PROVE  Stays
  <2>1. monitor[r] \in LivePoints
    BY <1>3 DEF MonitorRuns, Spawn, SpawnFails, Register, RegisterRefused, ExitSeen, Reaped,
                ParseTimeout, GraceExpires, MonitorCancelled, CancelBeforeStart, CancelSpawn,
                CancelMonitor, CancelAgain, LivePoints, Terminating
  <2>2. \/ \E what : Finish(r, what) /\ UNCHANGED process
        \/ \E point : At(r, point) /\ UNCHANGED <<vars, answer>>
        \/ CancelBeforeStart(r)
    BY <1>3 DEF MonitorRuns, Spawn, SpawnFails, Register, RegisterRefused, ExitSeen, Reaped,
                ParseTimeout, GraceExpires, MonitorCancelled, CancelSpawn,
                CancelMonitor, CancelAgain, Terminate, Proceed
  <2>3. /\ process' = process \/ \E state : process' = [process EXCEPT ![r] = state]
        /\ goal' = goal \/ \E why : goal' = [goal EXCEPT ![r] = why]
    BY <1>3 DEF MonitorRuns, Spawn, SpawnFails, Register, RegisterRefused, ExitSeen, Reaped,
                ParseTimeout, GraceExpires, MonitorCancelled, CancelBeforeStart, CancelSpawn,
                CancelMonitor, CancelAgain, Terminate, Proceed, Finish, FinallyBlock,
                FinallyRaises, Signal
  <2> QED BY <1>0, <1>2, <2>1, <2>2, <2>3 DEF ManagerTypeOK
<1>4. ASSUME NEW r \in Requests,
             \/ ProcessExits(r) \/ ShutdownTerminates(r)
             \/ ShutdownGraceExpires(r) \/ ShutdownPasses(r)
      PROVE  Stays
  <2>1. \/ process' = process
        \/ /\ process[r] # "none"
           /\ \E state \in {"asked", "killed", "succeeded", "crashed"} :
                process' = [process EXCEPT ![r] = state]
    BY <1>4 DEF ProcessExits, ShutdownTerminates, ShutdownGraceExpires, ShutdownPasses,
                Signal, Alive
  <2>2. UNCHANGED <<vars, monitor, goal, answer>>
    BY <1>4 DEF ProcessExits, ShutdownTerminates, ShutdownGraceExpires, ShutdownPasses, SweepTo
  <2> QED BY <1>0, <2>1, <2>2 DEF ManagerTypeOK, vars
<1>5. CASE BeginShutdown \/ EndShutdown \/ ManagerStartup \/ UNCHANGED allVars
  BY <1>5 DEF BeginShutdown, EndShutdown, ManagerStartup, Startup, allVars, managerVars, vars
<1> QED
  BY <1>1, <1>3, <1>4, <1>5 DEF ManagerNext

\* A monitor that has taken its first step releases its slot when it ends.
LEMMA EndsWithRelease ==
  ASSUME SupervisionInv, [ManagerNext]_allVars, NEW q \in Requests,
         monitor[q] # "done", monitor'[q] = "done"
  PROVE  \/ q \notin CutShort'
         \/ CancelBeforeStart(q)
<1> SUFFICES ASSUME q \in CutShort' PROVE CancelBeforeStart(q)
  OBVIOUS
<1>0. /\ ManagerTypeOK
      /\ answer'[q] = "cancelled" /\ process'[q] = "none"
      /\ monitor[q] \in LivePoints \ {"created"} => process[q] # "none"
  BY DEF SupervisionInv, BeforeTheMonitor, CutShort
<1>1. ASSUME NEW r \in Requests, Start(r)
      PROVE  FALSE
  <2>1. monitor' = monitor \/ At(r, "created")
    BY <1>1 DEF Start, StartAtOnce, StartAfterWait, StartRefused, StartWaitsOrFails, Launch,
                managerVars
  <2> QED BY <1>0, <2>1 DEF At, ManagerTypeOK
<1>2. ASSUME NEW r \in Requests,
             \/ MonitorRuns(r) \/ ParseTimeout(r) \/ GraceExpires(r) \/ MonitorCancelled(r)
      PROVE  CancelBeforeStart(q)
  <2>1. \E point : At(r, point)
    BY <1>2 DEF MonitorRuns, Spawn, SpawnFails, Register, RegisterRefused, ExitSeen, Reaped,
                ParseTimeout, GraceExpires, MonitorCancelled, CancelBeforeStart, CancelSpawn,
                CancelMonitor, CancelAgain, Terminate, Proceed, Finish, FinallyBlock,
                FinallyRaises, At
  <2>2. q = r
    BY <1>0, <2>1 DEF At, ManagerTypeOK
  <2>3. CASE CancelBeforeStart(r)
    BY <2>2, <2>3
  <2>4. CASE SpawnFails(r)
    BY <1>0, <2>2, <2>4 DEF SpawnFails, Finish, FinallyBlock, FinallyRaises, ManagerTypeOK
  <2>5. CASE Spawn(r)
    BY <1>0, <2>2, <2>5 DEF Spawn, ManagerTypeOK
  <2>6. CASE \/ Register(r) \/ RegisterRefused(r) \/ ExitSeen(r) \/ Reaped(r) \/ ParseTimeout(r)
             \/ GraceExpires(r) \/ CancelSpawn(r) \/ CancelMonitor(r) \/ CancelAgain(r)
    <3>1. process[r] # "none"
      BY <1>0, <2>2, <2>6
      DEF Register, RegisterRefused, ExitSeen, Reaped, ParseTimeout, GraceExpires, CancelSpawn,
          CancelMonitor, CancelAgain, LivePoints, Terminating
    <3>2. \/ process' = process
          \/ \E state \in {"asked", "killed"} : Signal(r, state)
      BY <2>6 DEF Register, RegisterRefused, ExitSeen, Reaped, ParseTimeout, GraceExpires,
                  CancelSpawn, CancelMonitor, CancelAgain, Terminate
    <3> QED BY <1>0, <2>2, <3>1, <3>2 DEF Signal, ManagerTypeOK
  <2> QED BY <1>2, <2>3, <2>4, <2>5, <2>6 DEF MonitorRuns, MonitorCancelled
<1>3. CASE \/ BeginShutdown \/ EndShutdown \/ ManagerStartup \/ UNCHANGED allVars
           \/ \E r \in Requests : \/ ProcessExits(r) \/ ShutdownTerminates(r)
                                 \/ ShutdownGraceExpires(r) \/ ShutdownPasses(r)
  BY <1>3 DEF BeginShutdown, EndShutdown, ManagerStartup, allVars, managerVars, ProcessExits,
              ShutdownTerminates, ShutdownGraceExpires, ShutdownPasses, SweepTo
<1> QED
  BY <1>1, <1>2, <1>3 DEF ManagerNext

\* Every slot that is taken is watched over, whatever cancellation is
\* delivered, but for those of monitors that never took a step or whose
\* finally block raised.
THEOREM SlotsMonitored == ManagerSpec => []SlotsAreMonitored
<1> DEFINE HeldIsMonitored == \A q \in Requests : pc[q] = "held" <=> q \in LiveMonitors \cup CutShort \cup Uncleaned
<1>1. ManagerInit => HeldIsMonitored
  BY DEF ManagerInit, Init, LiveMonitors, LivePoints, Terminating, CutShort, Uncleaned
<1>2. SupervisionInv /\ HeldIsMonitored /\ [ManagerNext]_allVars => HeldIsMonitored'
  <2> SUFFICES ASSUME SupervisionInv, HeldIsMonitored, [ManagerNext]_allVars, NEW q \in Requests
               PROVE  pc'[q] = "held" <=> q \in LiveMonitors' \cup CutShort' \cup Uncleaned'
    OBVIOUS
  <2>1. CASE monitor[q] = "done"
    <3>1. /\ q \notin LiveMonitors /\ q \notin LiveMonitors'
          /\ q \in CutShort <=> q \in CutShort'
          /\ q \in Uncleaned <=> q \in Uncleaned'
          /\ pc'[q] = pc[q]
      BY <2>1, DoneStays DEF LiveMonitors, LivePoints, Terminating, CutShort, Uncleaned
    <3> QED BY <3>1
  <2>2. CASE monitor[q] # "done" /\ CancelBeforeStart(q)
    <3>1. /\ pc[q] = "held" /\ process[q] = "none" /\ UNCHANGED vars /\ UNCHANGED process
          /\ monitor'[q] = "done" /\ answer'[q] = "cancelled"
      BY <2>2 DEF CancelBeforeStart, SupervisionInv, MonitorsHoldSlots, BeforeTheMonitor,
                  LiveMonitors, LivePoints, ManagerTypeOK, At
    <3> QED BY <3>1 DEF CutShort, vars
  <2>3. CASE monitor[q] # "done" /\ ~CancelBeforeStart(q)
    <3>1. q \notin CutShort /\ q \notin CutShort' /\ q \notin Uncleaned
      BY <2>3, EndsWithRelease DEF CutShort, Uncleaned
    <3>2. q \in LiveMonitors' \cup Uncleaned' => pc'[q] = "held"
      BY SupervisionStep DEF SupervisionInv, MonitorsHoldSlots
    <3>3. pc'[q] = "held" => q \in LiveMonitors' \cup Uncleaned'
      BY <2>3, <3>1, SupervisionStep DEF NoNewLeak
    <3> QED BY <3>1, <3>2, <3>3
  <2> QED BY <2>1, <2>2, <2>3
<1>3. HeldIsMonitored => SlotsAreMonitored
  BY DEF SlotsAreMonitored, Holders, Granted, LiveMonitors, CutShort, Uncleaned
<1> HIDE DEF HeldIsMonitored
<1> QED
  BY <1>1, <1>2, <1>3, SupervisionCorrect, PTL DEF ManagerSpec

\* No slot is given back before its process is dead, but by a monitor whose
\* cancellation was repeated.
THEOREM NoProcessOrphaned == ManagerSpec => []NoOrphan
<1>1. ManagerInit => NoOrphan
  BY DEF ManagerInit, NoOrphan, LiveProcesses, Alive
<1>2. SupervisionInv /\ NoOrphan /\ [ManagerNext]_allVars => NoOrphan'
  <2> SUFFICES ASSUME SupervisionInv, NoOrphan, [ManagerNext]_allVars,
                      NEW q \in LiveProcesses', q \notin LiveMonitors'
               PROVE  q \in Interrupted'
    BY DEF NoOrphan
  <2>0. q \in Requests
    BY DEF LiveProcesses
  <2>1. CASE q \in LiveProcesses \ LiveMonitors
    BY <2>0, <2>1, DoneStays DEF NoOrphan, Interrupted
  <2>2. CASE CancelAgain(q)
    BY <2>0, <2>2 DEF CancelAgain, Finish, FinallyBlock, FinallyRaises, At, SupervisionInv, ManagerTypeOK, Interrupted
  <2> QED BY <2>1, <2>2, SupervisionStep DEF NoNewOrphan
<1> QED
  BY <1>1, <1>2, SupervisionCorrect, PTL DEF ManagerSpec

\* Unless a cancellation is repeated, the limit on the slots is a limit on
\* the parser processes, those included that got SIGKILL and are not gone yet.
THEOREM ProcessLimit ==
  ~RepeatCancel /\ ManagerSpec =>
    [](MaxActive > 0 => Cardinality(LiveProcesses) <= MaxActive)
<1> DEFINE Attended == LiveProcesses \subseteq LiveMonitors
           Few == MaxActive > 0 => Cardinality(LiveProcesses) <= MaxActive
<1>1. ManagerInit => Attended
  BY DEF ManagerInit, LiveProcesses, Alive
<1>2. SupervisionInv /\ Attended /\ [ManagerNext]_allVars /\ ~RepeatCancel => Attended'
  BY SupervisionStep DEF NoNewOrphan, CancelAgain
<1>3. SupervisionInv /\ Attended => Few
  <2> SUFFICES ASSUME SupervisionInv, Attended, MaxActive > 0
               PROVE  Cardinality(LiveProcesses) <= MaxActive
    OBVIOUS
  <2>1. LiveProcesses \subseteq Holders
    BY DEF SupervisionInv, MonitorsHoldSlots, LiveMonitors, Holders
  <2>2. IsFiniteSet(Holders) /\ Cardinality(Holders) <= MaxActive
    BY DEF SupervisionInv, AdmissionInv, WithinLimit
  <2>3. /\ Cardinality(LiveProcesses) <= Cardinality(Holders)
        /\ Cardinality(LiveProcesses) \in Nat
        /\ Cardinality(Holders) \in Nat
    BY <2>1, <2>2, FS_Subset, FS_CardinalityType
  <2> QED BY <2>2, <2>3, LimitsAssumption
<1> HIDE DEF Attended
<1>4. CASE RepeatCancel
  BY <1>4, PTL
<1>5. CASE ~RepeatCancel
  <2>1. SupervisionInv /\ Attended /\ [ManagerNext]_allVars => Attended'
    BY <1>2, <1>5
  <2> QED BY <1>1, <1>3, <2>1, SupervisionCorrect, PTL DEF ManagerSpec
<1> QED
  BY <1>4, <1>5

\* When shutdown() returns nothing is left of any parse, but the processes
\* of monitors whose cancellation was repeated, and the registry's entries of
\* those whose finally block raised.
THEOREM ShutdownComplete == ManagerSpec => []ShutdownIsComplete
<1>1. SupervisionInv /\ NoOrphan => ShutdownIsComplete
  BY DEF SupervisionInv, ShutdownBookkeeping, ManagerTypeOK, NoOrphan, ShutdownIsComplete,
         LiveMonitors, LivePoints
<1> QED
  BY <1>1, SupervisionCorrect, NoProcessOrphaned, PTL

\* Unless a monitor is cancelled before its first step, or its finally block
\* raises, shutdown() gets back every slot but those whose callers have not
\* run again yet.
THEOREM SlotsFreedByShutdown == ~EarlyCancel /\ ~UnlinkFails /\ ManagerSpec => []ShutdownFreesSlots
<1> DEFINE HeldIsMonitored == \A q \in Requests : pc[q] = "held" => q \in LiveMonitors
<1>1. ManagerInit => HeldIsMonitored
  BY DEF ManagerInit, Init
<1>2. SupervisionInv /\ HeldIsMonitored /\ [ManagerNext]_allVars /\ ~EarlyCancel /\ ~UnlinkFails
        => HeldIsMonitored'
  BY SupervisionStep DEF NoNewLeak, CancelBeforeStart
<1>3. SupervisionInv /\ HeldIsMonitored => ShutdownFreesSlots
  <2> SUFFICES ASSUME SupervisionInv, HeldIsMonitored, stage = "closed", Granted = {}
               PROVE  activeSlots = 0
    BY DEF ShutdownFreesSlots
  <2>1. Holders = {}
    BY DEF SupervisionInv, ShutdownBookkeeping, Holders, Granted
  <2> QED BY <2>1, FS_EmptySet DEF SupervisionInv, AdmissionInv, SlotsAccounted
<1> HIDE DEF HeldIsMonitored
<1>4. CASE EarlyCancel \/ UnlinkFails
  BY <1>4, PTL
<1>5. CASE ~EarlyCancel /\ ~UnlinkFails
  <2>1. SupervisionInv /\ HeldIsMonitored /\ [ManagerNext]_allVars => HeldIsMonitored'
    BY <1>2, <1>5
  <2> QED BY <1>1, <1>3, <2>1, SupervisionCorrect, PTL DEF ManagerSpec
<1> QED
  BY <1>4, <1>5
-----------------------------------------------------------------------------
(* ---------------------- monitors and their processes ------------------- *)
\* Only a monitor that has told its process to end has a reason for it.
ReasonMeansEnd ==
  \A r \in Requests : goal[r] # "none" => monitor[r] \in Terminating \cup {"done"}

\* Where a step of a monitor leads, and what it says about the reason.
LEMMA MonitorMoves ==
  ASSUME SupervisionInv, NEW r \in Requests,
         \/ StartAtOnce(r) \/ StartAfterWait(r)
         \/ MonitorRuns(r) \/ ParseTimeout(r) \/ GraceExpires(r) \/ MonitorCancelled(r)
  PROVE  \E point \in {"done"} \cup LivePoints :
           /\ At(r, point)
           /\ monitor[r] \in Terminating => point \in Terminating \cup {"done"}
           /\ monitor[r] # "done"
           /\ \/ goal' = goal
              \/ /\ point \in Terminating
                 /\ \E why \in {"closing", "timeout", "cancel"} : goal' = [goal EXCEPT ![r] = why]
<1> USE DEF LivePoints, Terminating
<1>1. CASE StartAtOnce(r) \/ StartAfterWait(r)
  <2>1. pc[r] \notin {"held", "released"} /\ Launch(r)
    BY <1>1 DEF StartAtOnce, StartAfterWait, AcquireNow, ResumeResolved, ResumeTooLate,
                ResumeCancelDropped, Waiting
  <2>2. monitor[r] = "none"
    BY <2>1 DEF SupervisionInv, BeforeTheMonitor
  <2> QED BY <2>1, <2>2 DEF Launch
<1>2. ASSUME monitor[r] # "done", NEW what, Finish(r, what)
      PROVE  At(r, "done") /\ goal' = goal
  BY <1>2 DEF Finish, FinallyBlock, FinallyRaises
<1>3. CASE Spawn(r) \/ Register(r)
  BY <1>3 DEF Spawn, Register, Proceed
<1>4. CASE SpawnFails(r) \/ ExitSeen(r) \/ Reaped(r) \/ CancelBeforeStart(r) \/ CancelAgain(r)
  <2>1. monitor[r] # "done"
    BY <1>4 DEF SpawnFails, ExitSeen, Reaped, CancelBeforeStart, CancelAgain
  <2>2. At(r, "done") /\ goal' = goal
    BY <1>2, <1>4, <2>1 DEF SpawnFails, ExitSeen, Reaped, CancelBeforeStart, CancelAgain
  <2> QED BY <2>1, <2>2
<1>5. ASSUME monitor[r] # "done", NEW why \in {"closing", "timeout", "cancel"}, NEW what,
             Terminate(r, why, what)
      PROVE  \/ At(r, "done") /\ goal' = goal
             \/ At(r, "asking") /\ goal' = [goal EXCEPT ![r] = why]
  BY <1>2, <1>5 DEF Terminate, Proceed
<1>6. CASE RegisterRefused(r) \/ ParseTimeout(r) \/ CancelMonitor(r)
  <2>1. monitor[r] # "done"
    BY <1>6 DEF RegisterRefused, ParseTimeout, CancelMonitor
  <2>2. \E why \in {"closing", "timeout", "cancel"}, what \in Answers : Terminate(r, why, what)
    BY <1>6 DEF RegisterRefused, ParseTimeout, CancelMonitor, Answers
  <2> QED BY <1>5, <2>1, <2>2
<1>7. CASE GraceExpires(r)
  BY <1>7 DEF GraceExpires, Proceed
<1>8. CASE CancelSpawn(r)
  BY <1>2, <1>8 DEF CancelSpawn, Proceed
<1> QED
  BY <1>1, <1>3, <1>4, <1>6, <1>7, <1>8 DEF MonitorRuns, MonitorCancelled

\* Every other step leaves the monitors and their reasons alone.
OtherStep ==
  \/ \E r \in Requests :
       \/ StartRefused(r) \/ StartWaitsOrFails(r) \/ ProcessExits(r)
       \/ ShutdownTerminates(r) \/ ShutdownGraceExpires(r) \/ ShutdownPasses(r)
  \/ BeginShutdown \/ EndShutdown \/ ManagerStartup \/ UNCHANGED allVars

LEMMA OtherStepMovesNone == OtherStep => UNCHANGED <<monitor, goal>>
BY DEF OtherStep, StartRefused, StartWaitsOrFails, ProcessExits, ShutdownTerminates,
       ShutdownGraceExpires, ShutdownPasses, SweepTo, BeginShutdown, EndShutdown,
       ManagerStartup, allVars, managerVars

LEMMA StepsOfTheManager ==
  [ManagerNext]_allVars =>
    \/ \E r \in Requests :
         \/ StartAtOnce(r) \/ StartAfterWait(r)
         \/ MonitorRuns(r) \/ ParseTimeout(r) \/ GraceExpires(r) \/ MonitorCancelled(r)
    \/ OtherStep
BY DEF ManagerNext, Start, OtherStep

LEMMA ReasonStep ==
  SupervisionInv /\ ReasonMeansEnd /\ [ManagerNext]_allVars => ReasonMeansEnd'
<1> SUFFICES ASSUME SupervisionInv, ReasonMeansEnd, [ManagerNext]_allVars PROVE ReasonMeansEnd'
  OBVIOUS
<1>0. ManagerTypeOK
  BY DEF SupervisionInv
<1>1. ASSUME NEW r \in Requests,
             \/ StartAtOnce(r) \/ StartAfterWait(r)
             \/ MonitorRuns(r) \/ ParseTimeout(r) \/ GraceExpires(r) \/ MonitorCancelled(r)
      PROVE  ReasonMeansEnd'
  <2>1. PICK point \in {"done"} \cup LivePoints :
           /\ At(r, point)
           /\ monitor[r] \in Terminating => point \in Terminating \cup {"done"}
           /\ monitor[r] # "done"
           /\ \/ goal' = goal
              \/ /\ point \in Terminating
                 /\ \E why \in {"closing", "timeout", "cancel"} : goal' = [goal EXCEPT ![r] = why]
    BY <1>1, MonitorMoves
  <2>2. /\ monitor'[r] = point
        /\ \A q \in Requests \ {r} : monitor'[q] = monitor[q] /\ goal'[q] = goal[q]
    BY <1>0, <2>1 DEF At, ManagerTypeOK
  <2>3. goal'[r] # "none" => point \in Terminating \cup {"done"}
    BY <2>1 DEF ReasonMeansEnd
  <2> QED BY <2>2, <2>3 DEF ReasonMeansEnd
<1>2. CASE OtherStep
  BY <1>2, OtherStepMovesNone DEF ReasonMeansEnd
<1> QED
  BY <1>1, <1>2, StepsOfTheManager

LEMMA ReasonInit == ManagerInit => ReasonMeansEnd
BY DEF ManagerInit, ReasonMeansEnd

\* What MonitoredParse sees of the steps that can be taken.
SeenMonitors == [r \in Requests |-> MonitorSeen(monitor[r], goal[r])]
SeenProcesses == [r \in Requests |-> ProcessSeen(process[r])]

LEMMA ManagerParseInit == ManagerInit => Parse!MInit
<1>1. MonitorSeen("none", "none") = "none" /\ ProcessSeen("none") = "none"
  BY DEF MonitorSeen, ProcessSeen, Terminating, Alive
<1> QED
  BY <1>1 DEF ManagerInit, Parse!MInit

\* A monitor moves: to watching, to ending or to its end, if it is seen to
\* move at all.
LEMMA SeenMonitorMove ==
  ASSUME ManagerTypeOK, NEW r \in Requests, NEW point, At(r, point),
         \/ goal' = goal
         \/ \E why \in {"closing", "timeout", "cancel"} : goal' = [goal EXCEPT ![r] = why]
  PROVE  /\ SeenMonitors' = [SeenMonitors EXCEPT ![r] = MonitorSeen(point, goal'[r])]
         /\ SeenMonitors[r] = MonitorSeen(monitor[r], goal[r])
<1>1. /\ monitor'[r] = point
      /\ \A q \in Requests \ {r} : monitor'[q] = monitor[q] /\ goal'[q] = goal[q]
  BY DEF At, ManagerTypeOK
<1> QED
  BY <1>1 DEF SeenMonitors

\* A process moves on its own or is sent a signal: it is seen to end or not
\* to move.
LEMMA SeenProcessMove ==
  ASSUME ManagerTypeOK, NEW r \in Requests, process[r] \in Alive,
         NEW state \in Alive \cup {"succeeded", "crashed"},
         process' = [process EXCEPT ![r] = state]
  PROVE  /\ SeenProcesses[r] = "alive"
         /\ SeenProcesses' = [SeenProcesses EXCEPT ![r] = ProcessSeen(state)]
         /\ state \in Alive => SeenProcesses' = SeenProcesses
         /\ state \notin Alive => ProcessSeen(state) = "gone"
<1>1. SeenProcesses[r] = "alive"
  BY DEF SeenProcesses, ProcessSeen, Alive
<1>2. SeenProcesses' = [SeenProcesses EXCEPT ![r] = ProcessSeen(state)]
  BY DEF SeenProcesses, ManagerTypeOK
<1>3. state \in Alive => ProcessSeen(state) = "alive"
  BY DEF ProcessSeen, Alive
<1>4. SeenProcesses = [SeenProcesses EXCEPT ![r] = SeenProcesses[r]]
  BY DEF SeenProcesses
<1>5. state \notin Alive => ProcessSeen(state) = "gone"
  BY DEF ProcessSeen, Alive
<1> QED
  BY <1>1, <1>2, <1>3, <1>4, <1>5

\* The steps of MonitoredParse in terms of what is seen.
LEMMA SeenMonitorSteps ==
  ASSUME NEW r \in Requests, UNCHANGED SeenProcesses,
         \/ SeenMonitors[r] = "none" /\ SeenMonitors' = [SeenMonitors EXCEPT ![r] = "watching"]
         \/ SeenMonitors[r] = "watching" /\ SeenMonitors' = [SeenMonitors EXCEPT ![r] = "ending"]
         \/ /\ SeenMonitors[r] \in {"watching", "ending"} /\ SeenProcesses[r] # "alive"
            /\ SeenMonitors' = [SeenMonitors EXCEPT ![r] = "over"]
         \/ SeenMonitors[r] = "ending" /\ SeenMonitors' = [SeenMonitors EXCEPT ![r] = "interrupted"]
         \/ UNCHANGED SeenMonitors
  PROVE  [Parse!MNext]_(Parse!mvars)
<1> USE DEF SeenMonitors, SeenProcesses, Parse!MonitorTo
<1>1. CASE SeenMonitors[r] = "none" /\ SeenMonitors' = [SeenMonitors EXCEPT ![r] = "watching"]
  <2>1. Parse!Watch(r)
    BY <1>1 DEF Parse!Watch
  <2> QED BY <2>1 DEF Parse!MNext
<1>2. CASE SeenMonitors[r] = "watching" /\ SeenMonitors' = [SeenMonitors EXCEPT ![r] = "ending"]
  <2>1. Parse!TellToEnd(r)
    BY <1>2 DEF Parse!TellToEnd
  <2> QED BY <2>1 DEF Parse!MNext
<1>3. CASE /\ SeenMonitors[r] \in {"watching", "ending"} /\ SeenProcesses[r] # "alive"
           /\ SeenMonitors' = [SeenMonitors EXCEPT ![r] = "over"]
  <2>1. Parse!Return(r)
    BY <1>3 DEF Parse!Return
  <2> QED BY <2>1 DEF Parse!MNext
<1>4. CASE SeenMonitors[r] = "ending" /\ SeenMonitors' = [SeenMonitors EXCEPT ![r] = "interrupted"]
  <2>1. Parse!Interrupt(r)
    BY <1>4 DEF Parse!Interrupt
  <2> QED BY <2>1 DEF Parse!MNext
<1>5. CASE UNCHANGED SeenMonitors
  BY <1>5 DEF Parse!mvars
<1> QED
  BY <1>1, <1>2, <1>3, <1>4, <1>5

LEMMA SeenProcessSteps ==
  ASSUME NEW r \in Requests, UNCHANGED SeenMonitors,
         \/ /\ SeenMonitors[r] = "watching" /\ SeenProcesses[r] = "none"
            /\ SeenProcesses' = [SeenProcesses EXCEPT ![r] = "alive"]
         \/ SeenProcesses[r] = "alive" /\ SeenProcesses' = [SeenProcesses EXCEPT ![r] = "gone"]
         \/ UNCHANGED SeenProcesses
  PROVE  [Parse!MNext]_(Parse!mvars)
<1> USE DEF SeenMonitors, SeenProcesses, Parse!ProcessTo
<1>1. CASE /\ SeenMonitors[r] = "watching" /\ SeenProcesses[r] = "none"
           /\ SeenProcesses' = [SeenProcesses EXCEPT ![r] = "alive"]
  <2>1. Parse!Fork(r)
    BY <1>1 DEF Parse!Fork
  <2> QED BY <2>1 DEF Parse!MNext
<1>2. CASE SeenProcesses[r] = "alive" /\ SeenProcesses' = [SeenProcesses EXCEPT ![r] = "gone"]
  <2>1. Parse!End(r)
    BY <1>2 DEF Parse!End
  <2> QED BY <2>1 DEF Parse!MNext
<1>3. CASE UNCHANGED SeenProcesses
  BY <1>3 DEF Parse!mvars
<1> QED
  BY <1>1, <1>2, <1>3

\* A monitor that ends when its process has ended returns; one that is
\* cancelled once more is interrupted.
LEMMA FinishImplements ==
  ASSUME SupervisionInv, ReasonMeansEnd, NEW r \in LiveMonitors, NEW what,
         Finish(r, what), UNCHANGED process,
         process[r] \notin Alive \/ CancelAgain(r)
  PROVE  [Parse!MNext]_(Parse!mvars)
<1>0. /\ r \in Requests /\ ManagerTypeOK
      /\ At(r, "done") /\ goal' = goal
      /\ monitor[r] \in LivePoints
  BY DEF SupervisionInv, LiveMonitors, Finish, FinallyBlock, FinallyRaises
<1>1. /\ SeenMonitors' = [SeenMonitors EXCEPT ![r] = MonitorSeen("done", goal[r])]
      /\ SeenMonitors[r] = MonitorSeen(monitor[r], goal[r])
      /\ UNCHANGED SeenProcesses
  BY <1>0, SeenMonitorMove DEF SeenProcesses
<1>2. CASE goal[r] = "cancel"
  <2>1. monitor[r] \in Terminating
    BY <1>0, <1>2 DEF ReasonMeansEnd, LivePoints, Terminating
  <2>2. /\ MonitorSeen("done", goal[r]) = "interrupted"
        /\ MonitorSeen(monitor[r], goal[r]) = "ending"
    BY <1>2, <2>1 DEF MonitorSeen, Terminating
  <2> QED BY <1>0, <1>1, <2>2, SeenMonitorSteps
<1>3. CASE goal[r] # "cancel"
  <2>1. process[r] \notin Alive
    BY <1>3 DEF CancelAgain
  <2>2. /\ MonitorSeen("done", goal[r]) = "over"
        /\ MonitorSeen(monitor[r], goal[r]) \in {"watching", "ending"}
        /\ SeenProcesses[r] # "alive"
    BY <1>0, <1>3, <2>1 DEF MonitorSeen, Terminating, LivePoints, SeenProcesses, ProcessSeen
  <2> QED BY <1>0, <1>1, <2>2, SeenMonitorSteps
<1> QED
  BY <1>2, <1>3

\* A monitor that signals its process tells it to end, or has done so before.
LEMMA SignalImplements ==
  ASSUME SupervisionInv, NEW r \in LiveMonitors, process[r] \in Alive,
         monitor[r] # "created",
         NEW point \in Terminating, NEW state \in {"asked", "killed"},
         Proceed(r, point), Signal(r, state),
         \/ goal' = goal
         \/ \E why \in {"closing", "timeout", "cancel"} : goal' = [goal EXCEPT ![r] = why]
  PROVE  [Parse!MNext]_(Parse!mvars)
<1>0. /\ r \in Requests /\ ManagerTypeOK /\ At(r, point)
      /\ monitor[r] \in LivePoints
  BY DEF SupervisionInv, LiveMonitors, Proceed
<1>1. /\ SeenMonitors' = [SeenMonitors EXCEPT ![r] = MonitorSeen(point, goal'[r])]
      /\ SeenMonitors[r] = MonitorSeen(monitor[r], goal[r])
  BY <1>0, SeenMonitorMove
<1>2. SeenProcesses' = SeenProcesses
  <2>1. PICK after \in {"asked", "killed"} : process' = [process EXCEPT ![r] = after]
    BY DEF Signal
  <2> QED BY <1>0, <2>1, SeenProcessMove DEF Alive
<1>3. /\ MonitorSeen(point, goal'[r]) = "ending"
      /\ MonitorSeen(monitor[r], goal[r]) \in {"watching", "ending"}
  BY <1>0 DEF MonitorSeen, Terminating, LivePoints
<1>4. SeenMonitors = [SeenMonitors EXCEPT ![r] = SeenMonitors[r]]
  BY DEF SeenMonitors
<1> QED
  BY <1>0, <1>1, <1>2, <1>3, <1>4, SeenMonitorSteps

LEMMA TerminateImplements ==
  ASSUME SupervisionInv, ReasonMeansEnd, NEW r \in LiveMonitors, monitor[r] # "created",
         NEW why \in {"closing", "timeout", "cancel"}, NEW what, Terminate(r, why, what)
  PROVE  [Parse!MNext]_(Parse!mvars)
BY FinishImplements, SignalImplements DEF Terminate, Terminating

\* What a monitor does is a step, or no step, of MonitoredParse.
LEMMA MonitorImplements ==
  ASSUME SupervisionInv, ReasonMeansEnd, NEW r \in Requests,
         \/ StartAtOnce(r) \/ StartAfterWait(r)
         \/ MonitorRuns(r) \/ ParseTimeout(r) \/ GraceExpires(r) \/ MonitorCancelled(r)
  PROVE  [Parse!MNext]_(Parse!mvars)
<1>0. ManagerTypeOK
  BY DEF SupervisionInv
<1>1. CASE StartAtOnce(r) \/ StartAfterWait(r)
  <2>1. pc[r] \notin {"held", "released"} /\ Launch(r)
    BY <1>1 DEF StartAtOnce, StartAfterWait, AcquireNow, ResumeResolved, ResumeTooLate,
                ResumeCancelDropped, Waiting
  <2>2. monitor[r] = "none" /\ At(r, "created") /\ goal' = goal /\ UNCHANGED process
    BY <2>1 DEF SupervisionInv, BeforeTheMonitor, Launch
  <2>3. MonitorSeen("none", goal[r]) = "none" /\ MonitorSeen("created", goal[r]) = "watching"
    BY DEF MonitorSeen, Terminating
  <2>4. /\ SeenMonitors[r] = "none" /\ SeenMonitors' = [SeenMonitors EXCEPT ![r] = "watching"]
        /\ UNCHANGED SeenProcesses
    BY <1>0, <2>2, <2>3, SeenMonitorMove DEF SeenProcesses
  <2> QED BY <2>4, SeenMonitorSteps
<1>2. CASE Spawn(r) \/ Register(r)
  <2>1. PICK point \in {"spawning", "running"} : At(r, point) /\ goal' = goal
    BY <1>2 DEF Spawn, Register, Proceed
  <2>2. /\ MonitorSeen(monitor[r], goal[r]) = "watching" /\ MonitorSeen(point, goal[r]) = "watching"
    BY <1>2 DEF Spawn, Register, MonitorSeen, Terminating
  <2>3. SeenMonitors[r] = "watching" /\ UNCHANGED SeenMonitors
    <3>1. SeenMonitors' = [SeenMonitors EXCEPT ![r] = "watching"] /\ SeenMonitors[r] = "watching"
      BY <1>0, <2>1, <2>2, SeenMonitorMove
    <3>2. SeenMonitors = [SeenMonitors EXCEPT ![r] = SeenMonitors[r]]
      BY DEF SeenMonitors
    <3> QED BY <3>1, <3>2
  <2>4. CASE Register(r)
    <3>1. UNCHANGED SeenProcesses
      BY <2>4 DEF Register, SeenProcesses
    <3> QED BY <2>3, <3>1, SeenProcessSteps
  <2>5. CASE Spawn(r)
    <3>1. process[r] = "none" /\ process' = [process EXCEPT ![r] = "running"]
      BY <2>5 DEF Spawn, SupervisionInv, BeforeTheMonitor
    <3>2. ProcessSeen("none") = "none" /\ ProcessSeen("running") = "alive"
      BY DEF ProcessSeen, Alive
    <3>3. SeenProcesses[r] = "none" /\ SeenProcesses' = [SeenProcesses EXCEPT ![r] = "alive"]
      BY <1>0, <3>1, <3>2 DEF SeenProcesses, ManagerTypeOK
    <3> QED BY <2>3, <3>3, SeenProcessSteps
  <2> QED BY <1>2, <2>4, <2>5
<1>3. CASE SpawnFails(r) \/ CancelBeforeStart(r)
  <2>1. /\ r \in LiveMonitors /\ monitor[r] = "created"
        /\ process[r] = "none" /\ process[r] \notin Alive
    BY <1>3 DEF SpawnFails, CancelBeforeStart, LiveMonitors, LivePoints, SupervisionInv,
                BeforeTheMonitor, Alive
  <2>2. CASE SpawnFails(r)
    BY <2>1, <2>2, FinishImplements DEF SpawnFails
  <2>3. CASE CancelBeforeStart(r)
    <3>1. goal[r] = "none"
      BY <1>0, <2>1 DEF ReasonMeansEnd, Terminating
    <3>2. /\ MonitorSeen("done", goal[r]) = "over" /\ MonitorSeen("created", goal[r]) = "watching"
          /\ ProcessSeen("none") # "alive"
      BY <3>1 DEF MonitorSeen, Terminating, ProcessSeen, Alive
    <3>3. At(r, "done") /\ goal' = goal /\ process' = process
      BY <2>3 DEF CancelBeforeStart
    <3>4. /\ SeenMonitors[r] = "watching" /\ SeenMonitors' = [SeenMonitors EXCEPT ![r] = "over"]
          /\ UNCHANGED SeenProcesses /\ SeenProcesses[r] # "alive"
      BY <1>0, <2>1, <3>2, <3>3, SeenMonitorMove DEF SeenProcesses
    <3> QED BY <3>4, SeenMonitorSteps
  <2> QED BY <1>3, <2>2, <2>3
<1>4. CASE ExitSeen(r) \/ Reaped(r) \/ CancelAgain(r)
  <2>1. r \in LiveMonitors
    BY <1>4 DEF ExitSeen, Reaped, CancelAgain, LiveMonitors, LivePoints
  <2>2. process[r] \notin Alive \/ CancelAgain(r)
    BY <1>4 DEF ExitSeen, Reaped, Alive
  <2>3. \E what : Finish(r, what) /\ UNCHANGED process
    BY <1>4 DEF ExitSeen, Reaped, CancelAgain
  <2> QED BY <2>1, <2>2, <2>3, FinishImplements
<1>5. CASE RegisterRefused(r) \/ ParseTimeout(r) \/ CancelMonitor(r)
  <2>1. r \in LiveMonitors /\ monitor[r] # "created"
    BY <1>5 DEF RegisterRefused, ParseTimeout, CancelMonitor, LiveMonitors, LivePoints,
                Terminating
  <2>2. \E why \in {"closing", "timeout", "cancel"} : \E what : Terminate(r, why, what)
    BY <1>5 DEF RegisterRefused, ParseTimeout, CancelMonitor
  <2> QED BY <2>1, <2>2, TerminateImplements
<1>6. CASE GraceExpires(r)
  <2>1. /\ r \in LiveMonitors /\ monitor[r] # "created" /\ process[r] \in Alive
        /\ goal' = goal /\ Proceed(r, "killing") /\ Signal(r, "killed")
    BY <1>6 DEF GraceExpires, LiveMonitors, LivePoints, Terminating
  <2> QED BY <2>1, SignalImplements DEF Terminating
<1>7. CASE CancelSpawn(r)
  <2>1. r \in LiveMonitors /\ monitor[r] # "created"
    BY <1>7 DEF CancelSpawn, LiveMonitors, LivePoints
  <2>2. CASE process[r] \notin Alive /\ Finish(r, "cancelled") /\ UNCHANGED process
    BY <2>1, <2>2, FinishImplements
  <2>3. CASE /\ process[r] \in Alive /\ Proceed(r, "killing") /\ Signal(r, "killed")
             /\ goal' = [goal EXCEPT ![r] = "cancel"]
    BY <2>1, <2>3, SignalImplements DEF Terminating
  <2> QED BY <1>7, <2>2, <2>3 DEF CancelSpawn
<1> QED
  BY <1>1, <1>2, <1>3, <1>4, <1>5, <1>6, <1>7 DEF MonitorRuns, MonitorCancelled

\* So is everything else: of the processes one may end, and shutdown() sends
\* its signals to living ones.
LEMMA OtherImplements ==
  ASSUME SupervisionInv, OtherStep
  PROVE  [Parse!MNext]_(Parse!mvars)
<1>0. ManagerTypeOK
  BY DEF SupervisionInv
<1>1. UNCHANGED SeenMonitors
  BY OtherStepMovesNone DEF SeenMonitors
<1>2. CASE UNCHANGED process
  BY <1>1, <1>2 DEF SeenMonitors, SeenProcesses, Parse!mvars
<1>3. ASSUME NEW r \in Requests,
             ProcessExits(r) \/ ShutdownTerminates(r) \/ ShutdownGraceExpires(r)
      PROVE  [Parse!MNext]_(Parse!mvars)
  <2>1. process[r] \in Alive
    BY <1>3 DEF ProcessExits, ShutdownTerminates, ShutdownGraceExpires, Alive
  <2>2. PICK state \in Alive \cup {"succeeded", "crashed"} :
          process' = [process EXCEPT ![r] = state]
    BY <1>3 DEF ProcessExits, ShutdownTerminates, ShutdownGraceExpires, Signal, Alive
  <2> QED BY <1>0, <1>1, <2>1, <2>2, SeenProcessMove, SeenProcessSteps
<1>4. \/ UNCHANGED process
      \/ \E r \in Requests : ProcessExits(r) \/ ShutdownTerminates(r) \/ ShutdownGraceExpires(r)
  BY DEF OtherStep, StartRefused, StartWaitsOrFails, ShutdownPasses, BeginShutdown,
         EndShutdown, ManagerStartup, allVars, managerVars
<1> QED
  BY <1>2, <1>3, <1>4

\* With all its signals, timers and cancellations the manager forks one
\* process per request, while its monitor watches, and no monitor returns
\* before its process has ended unless it is cancelled.
THEOREM MonitoredParseImplemented == ManagerSpec => ImplementsMonitoredParse
<1>1. SupervisionInv /\ ReasonMeansEnd /\ [ManagerNext]_allVars => [Parse!MNext]_(Parse!mvars)
  BY StepsOfTheManager, MonitorImplements, OtherImplements
<1> QED
  BY <1>1, ManagerParseInit, ReasonInit, ReasonStep, SupervisionCorrect, PTL
  DEF ManagerSpec, ImplementsMonitoredParse, Parse!MSpec
\* What MonitoredParse promises is kept by each of its steps.
LEMMA ParseKeeps ==
  ASSUME Parse!MInv, [Parse!MNext]_(Parse!mvars)
  PROVE  Parse!MInv'
<1> DEFINE Kept ==
  /\ SeenMonitors \in [Requests -> {"none", "watching", "ending", "over", "interrupted", "lost"}]
  /\ SeenProcesses \in [Requests -> {"none", "alive", "gone"}]
  /\ \A r \in Requests :
       /\ SeenMonitors[r] = "over" => SeenProcesses[r] # "alive"
       /\ SeenMonitors[r] = "none" => SeenProcesses[r] = "none"
<1>1. Parse!MInv <=> Kept
  BY DEF Parse!MInv, SeenMonitors, SeenProcesses
<1>2. Parse!MInv' <=> Kept'
  BY DEF Parse!MInv, SeenMonitors, SeenProcesses
<1>3. CASE UNCHANGED Parse!mvars
  <2>1. UNCHANGED <<SeenMonitors, SeenProcesses>>
    BY <1>3 DEF Parse!mvars, SeenMonitors, SeenProcesses
  <2> QED
    BY <1>1, <1>2, <2>1
<1>4. CASE Parse!Lose
  <2>1. /\ SeenMonitors' = [r \in Requests |-> IF SeenMonitors[r] = "none" THEN "none" ELSE "lost"]
        /\ SeenProcesses' = SeenProcesses
    BY <1>4 DEF Parse!Lose, SeenMonitors, SeenProcesses
  <2> QED
    BY <1>1, <1>2, <2>1
<1>5. ASSUME NEW r \in Requests,
             \/ Parse!Watch(r) \/ Parse!Fork(r) \/ Parse!End(r)
             \/ Parse!TellToEnd(r) \/ Parse!Return(r) \/ Parse!Interrupt(r)
      PROVE  Kept'
  <2>1. CASE Parse!Fork(r) \/ Parse!End(r)
    <3>1. /\ SeenMonitors' = SeenMonitors
          /\ \/ SeenMonitors[r] = "watching" /\ SeenProcesses' = [SeenProcesses EXCEPT ![r] = "alive"]
             \/ SeenProcesses[r] = "alive" /\ SeenProcesses' = [SeenProcesses EXCEPT ![r] = "gone"]
      BY <2>1 DEF Parse!Fork, Parse!End, Parse!ProcessTo, SeenMonitors, SeenProcesses
    <3> QED
      BY <1>1, <3>1
  <2>2. CASE Parse!Watch(r) \/ Parse!TellToEnd(r) \/ Parse!Return(r) \/ Parse!Interrupt(r)
    <3>1. PICK point \in {"watching", "ending", "over", "interrupted"} :
            /\ SeenMonitors' = [SeenMonitors EXCEPT ![r] = point]
            /\ SeenProcesses' = SeenProcesses
            /\ point = "over" => SeenProcesses[r] # "alive"
      BY <2>2 DEF Parse!Watch, Parse!TellToEnd, Parse!Return, Parse!Interrupt,
                  Parse!MonitorTo, SeenMonitors, SeenProcesses
    <3> QED
      BY <1>1, <3>1
  <2> QED
    BY <1>5, <2>1, <2>2
<1> QED
  BY <1>2, <1>3, <1>4, <1>5 DEF Parse!MNext

\* A monitor that has returned, and was not cancelled, leaves no process
\* behind: neither the timeout nor a shutdown gives up on one.
THEOREM ReturnedLeavesNothing == ManagerSpec => []Parse!MInv
<1>1. Parse!MInit => Parse!MInv
  BY DEF Parse!MInit, Parse!MInv
<1> QED
  BY <1>1, ParseKeeps, MonitoredParseImplemented, PTL DEF ImplementsMonitoredParse, Parse!MSpec
=============================================================================
