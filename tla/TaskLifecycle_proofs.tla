------------------------ MODULE TaskLifecycle_proofs --------------------------
(***************************************************************************)
(* Proofs about TaskLifecycle for every set of tasks and every size of the *)
(* table of runtime results.                                               *)
(***************************************************************************)
EXTENDS TaskLifecycle, SequenceTheorems, TLAPS

USE DEF table

(* ------------------------------- the table ----------------------------- *)
\* Remembering a failure keeps the table in bounds and has the failure in it;
\* the older entries follow as the end of the history does.
LEMMA RememberingCorrect ==
  ASSUME NEW t \in Tasks, remembered \in Seq(Tasks), Len(remembered) <= MaxResults
  PROVE  LET r == Remembering(t)
             n == Len(remembered)
         IN  /\ r \in Seq(Tasks)
             /\ t \in ToSet(r)
             /\ n < MaxResults => /\ Len(r) = n + 1
                                 /\ \A i \in 1 .. n : r[i] = remembered[i]
             /\ n = MaxResults => /\ Len(r) = n
                                 /\ \A i \in 1 .. n - 1 : r[i] = remembered[i + 1]
             /\ r[Len(r)] = t
<1> DEFINE all == Append(remembered, t)
           n == Len(remembered)
           r == Remembering(t)
<1>0. /\ n \in Nat /\ MaxResults \in Nat /\ MaxResults > 0 /\ n <= MaxResults
      /\ DOMAIN remembered = 1 .. n
  BY LifeAssumption, LenProperties
<1>1. /\ all \in Seq(Tasks)
      /\ Len(all) = n + 1
      /\ \A i \in 1 .. n : all[i] = remembered[i]
      /\ all[n + 1] = t
  BY AppendProperties
<1>2. DOMAIN all = 1 .. n + 1 /\ all # <<>>
  BY <1>0, <1>1, LenProperties, EmptySeq
<1>3. r = IF n + 1 > MaxResults THEN Tail(all) ELSE all
  BY <1>1 DEF Remembering
<1> HIDE DEF all, n, r
<1> SUFFICES /\ r \in Seq(Tasks)
             /\ t \in ToSet(r)
             /\ n < MaxResults => /\ Len(r) = n + 1
                                 /\ \A i \in 1 .. n : r[i] = remembered[i]
             /\ n = MaxResults => /\ Len(r) = n
                                 /\ \A i \in 1 .. n - 1 : r[i] = remembered[i + 1]
             /\ r[Len(r)] = t
  BY Zenon DEF n, r
<1>4. CASE n < MaxResults
  <2>1. r = all
    BY <1>0, <1>3, <1>4
  <2>2. t \in ToSet(all)
    BY <1>0, <1>1, <1>2 DEF ToSet
  <2> QED
    BY <1>0, <1>1, <1>4, <2>1, <2>2
<1>5. CASE n = MaxResults
  <2>1. r = Tail(all)
    BY <1>0, <1>3, <1>5
  <2>2. /\ Tail(all) \in Seq(Tasks)
        /\ Len(Tail(all)) = n
        /\ \A i \in 1 .. n : Tail(all)[i] = all[i + 1]
    BY <1>0, <1>1, <1>2, HeadTailProperties
  <2>3. n \in DOMAIN Tail(all) /\ Tail(all)[n] = t
    BY <1>0, <1>1, <1>5, <2>2, LenProperties
  <2>4. t \in ToSet(Tail(all))
    BY <2>3 DEF ToSet
  <2>5. \A i \in 1 .. n - 1 : Tail(all)[i] = remembered[i + 1]
    BY <1>0, <1>1, <2>2
  <2> QED
    BY <1>0, <1>5, <2>1, <2>2, <2>3, <2>4, <2>5
<1>6. n < MaxResults \/ n = MaxResults
  BY <1>0
<1> QED
  BY <1>4, <1>5, <1>6

\* What a new failure takes away from the table is its oldest entry, and that
\* only when it is full; what it adds is itself.
LEMMA RememberingForgets ==
  ASSUME NEW t \in Tasks, remembered \in Seq(Tasks), Len(remembered) <= MaxResults
  PROVE  /\ ToSet(Remembering(t)) \subseteq ToSet(remembered) \cup {t}
         /\ \A u \in ToSet(remembered) \ ToSet(Remembering(t)) :
              Len(remembered) = MaxResults /\ u = Head(remembered)
<1> DEFINE all == Append(remembered, t)
           n == Len(remembered)
<1>0. /\ n \in Nat /\ MaxResults \in Nat /\ MaxResults > 0 /\ n <= MaxResults
      /\ DOMAIN remembered = 1 .. n
  BY LifeAssumption, LenProperties
<1>1. /\ all \in Seq(Tasks)
      /\ Len(all) = n + 1
      /\ \A i \in 1 .. n : all[i] = remembered[i]
      /\ all[n + 1] = t
  BY AppendProperties
<1>2. DOMAIN all = 1 .. n + 1 /\ all # <<>>
  BY <1>0, <1>1, LenProperties, EmptySeq
<1>3. Remembering(t) = IF n + 1 > MaxResults THEN Tail(all) ELSE all
  BY <1>1 DEF Remembering
<1>4. n > 0 => remembered[1] = Head(remembered)
  BY <1>0
<1>5. n = MaxResults =>
        /\ Tail(all) \in Seq(Tasks)
        /\ Len(Tail(all)) = n
        /\ \A i \in 1 .. n : Tail(all)[i] = all[i + 1]
  BY <1>0, <1>1, <1>2, HeadTailProperties
<1> HIDE DEF all, n
<1>6. CASE n < MaxResults
  <2>1. Remembering(t) = all
    BY <1>0, <1>3, <1>6
  <2>2. ToSet(all) \subseteq ToSet(remembered) \cup {t}
    BY <1>0, <1>1, <1>2 DEF ToSet
  <2>3. ToSet(remembered) \subseteq ToSet(all)
    <3> SUFFICES ASSUME NEW i \in 1 .. n PROVE remembered[i] \in ToSet(all)
      BY <1>0 DEF ToSet
    <3>1. i \in DOMAIN all /\ all[i] = remembered[i]
      BY <1>0, <1>1, <1>2
    <3> QED
      BY <3>1 DEF ToSet
  <2> QED
    BY <2>1, <2>2, <2>3
<1>7. CASE n = MaxResults
  <2> DEFINE tail == Tail(all)
  <2>1. Remembering(t) = tail
    BY <1>0, <1>3, <1>7
  <2>2. /\ tail \in Seq(Tasks)
        /\ Len(tail) = n
        /\ \A i \in 1 .. n : tail[i] = all[i + 1]
    BY <1>5, <1>7
  <2> HIDE DEF tail
  <2>3. DOMAIN tail = 1 .. n
    BY <2>2, LenProperties
  <2>4. n > 0 /\ remembered[1] = Head(remembered)
    BY <1>0, <1>4, <1>7
  <2>5. ToSet(tail) \subseteq ToSet(remembered) \cup {t}
    <3> SUFFICES ASSUME NEW i \in 1 .. n PROVE tail[i] \in ToSet(remembered) \cup {t}
      BY <2>3 DEF ToSet
    <3>1. tail[i] = all[i + 1]
      BY <2>2
    <3>2. CASE i = n
      BY <1>1, <3>1, <3>2
    <3>3. CASE i # n
      <4>1. i + 1 \in 1 .. n
        BY <1>0, <3>3
      <4>2. tail[i] = remembered[i + 1] /\ i + 1 \in DOMAIN remembered
        BY <1>0, <1>1, <3>1, <4>1
      <4> QED
        BY <4>2 DEF ToSet
    <3> QED
      BY <3>2, <3>3
  <2>6. ASSUME NEW u \in ToSet(remembered), u \notin ToSet(tail) PROVE u = Head(remembered)
    <3>1. PICK i \in 1 .. n : u = remembered[i]
      BY <1>0 DEF ToSet
    <3>2. CASE i = 1
      BY <2>4, <3>1, <3>2
    <3>3. CASE i # 1
      <4>1. i - 1 \in 1 .. n /\ (i - 1) + 1 = i
        BY <1>0, <3>3
      <4>2. tail[i - 1] = all[(i - 1) + 1]
        BY <2>2, <4>1
      <4>3. tail[i - 1] = u /\ i - 1 \in DOMAIN tail
        BY <1>1, <2>3, <3>1, <4>1, <4>2
      <4> QED
        BY <2>6, <4>3 DEF ToSet
    <3> QED
      BY <3>2, <3>3
  <2> QED
    BY <1>7, <2>1, <2>5, <2>6 DEF n
<1> QED
  BY <1>0, <1>6, <1>7

\* A failure that is put into the table and into the history: the table stays
\* the end of the history, and what leaves it has been overtaken.
LEMMA TableStep ==
  ASSUME NEW t \in Tasks, LifeTypeOK, TableIsRecent,
         remembered' = Remembering(t), failures' = Append(failures, t)
  PROVE  /\ remembered' \in Seq(Tasks) /\ Len(remembered') <= MaxResults
         /\ failures' \in Seq(Tasks)
         /\ t \in ToSet(remembered')
         /\ TableIsRecent'
         /\ \A u \in Tasks : Forgotten(u) => Forgotten(u)'
         /\ \A u \in ToSet(remembered) \ ToSet(remembered') : Forgotten(u)'
<1> DEFINE n == Len(remembered)
           m == Len(failures)
<1>0. /\ n \in Nat /\ m \in Nat /\ MaxResults \in Nat /\ MaxResults > 0
      /\ n <= MaxResults /\ n <= m /\ n \in {m, MaxResults}
      /\ \A i \in 1 .. n : remembered[i] = failures[m - n + i]
  BY LifeAssumption, LenProperties DEF LifeTypeOK, TableIsRecent
<1>1. /\ failures' \in Seq(Tasks)
      /\ Len(failures') = m + 1
      /\ \A i \in 1 .. m : failures'[i] = failures[i]
      /\ failures'[m + 1] = t
  BY AppendProperties DEF LifeTypeOK
<1>2. /\ remembered' \in Seq(Tasks)
      /\ t \in ToSet(remembered')
      /\ n < MaxResults => /\ Len(remembered') = n + 1
                          /\ \A i \in 1 .. n : remembered'[i] = remembered[i]
      /\ n = MaxResults => /\ Len(remembered') = n
                          /\ \A i \in 1 .. n - 1 : remembered'[i] = remembered[i + 1]
      /\ remembered'[Len(remembered')] = t
  BY RememberingCorrect, <1>0 DEF LifeTypeOK
<1>3. \A u \in ToSet(remembered) \ ToSet(remembered') : n = MaxResults /\ u = Head(remembered)
  BY RememberingForgets DEF LifeTypeOK
<1>4. n > 0 => remembered[1] = Head(remembered)
  BY DEF LifeTypeOK
<1> HIDE DEF n, m
<1>5. TableIsRecent'
  <2>1. CASE n < MaxResults
    <3>1. n = m /\ Len(remembered') = n + 1
      BY <1>0, <1>2, <2>1
    <3>2. ASSUME NEW i \in 1 .. n + 1 PROVE remembered'[i] = failures'[(m + 1) - (n + 1) + i]
      <4>1. (m + 1) - (n + 1) + i = i
        BY <1>0, <3>1
      <4>2. remembered'[i] = failures'[i]
        BY <1>0, <1>1, <1>2, <2>1, <3>1
      <4> QED
        BY <4>1, <4>2
    <3>3. Len(remembered') <= Len(failures') /\ Len(remembered') = Len(failures')
      BY <1>0, <1>1, <3>1
    <3> QED
      BY <1>1, <3>1, <3>2, <3>3, Zenon DEF TableIsRecent
  <2>2. CASE n = MaxResults
    <3>1. Len(remembered') = n
      BY <1>2, <2>2
    <3>2. ASSUME NEW i \in 1 .. n PROVE remembered'[i] = failures'[(m + 1) - n + i]
      <4>1. CASE i = n
        BY <1>0, <1>1, <1>2, <3>1, <4>1
      <4>2. CASE i # n
        <5>1. i \in 1 .. n - 1 /\ i + 1 \in 1 .. n
          BY <1>0, <4>2
        <5>2. remembered'[i] = failures[m - n + (i + 1)]
          BY <1>0, <1>2, <2>2, <5>1
        <5>3. (m + 1) - n + i \in 1 .. m /\ m - n + (i + 1) = (m + 1) - n + i
          BY <1>0, <5>1
        <5> QED
          BY <1>1, <5>2, <5>3
      <4> QED
        BY <4>1, <4>2
    <3>3. Len(remembered') <= Len(failures')
      BY <1>0, <1>1, <3>1
    <3> QED
      BY <1>1, <2>2, <3>1, <3>2, <3>3, Zenon DEF TableIsRecent
  <2> QED
    BY <1>0, <2>1, <2>2
<1>6. Len(remembered') <= MaxResults
  BY <1>0, <1>2
<1>7. ASSUME NEW u \in Tasks, Forgotten(u) PROVE Forgotten(u)'
  <2>1. PICK i \in 1 .. m - MaxResults : failures[i] = u
    BY <1>7 DEF Forgotten, m
  <2>2. i \in 1 .. (m + 1) - MaxResults /\ failures'[i] = u
    BY <1>0, <1>1, <2>1
  <2> QED
    BY <1>1, <2>2 DEF Forgotten
<1>8. ASSUME NEW u \in ToSet(remembered), u \notin ToSet(remembered') PROVE Forgotten(u)'
  <2>1. n = MaxResults /\ u = remembered[1]
    BY <1>0, <1>3, <1>4, <1>8
  <2>2. u = failures[(m - n) + 1]
    BY <1>0, <2>1
  <2>3. (m - n) + 1 \in 1 .. (m + 1) - MaxResults /\ failures'[(m - n) + 1] = u
    BY <1>0, <1>1, <2>1, <2>2
  <2> QED
    BY <1>1, <2>3 DEF Forgotten
<1> QED
  BY <1>1, <1>2, <1>5, <1>6, <1>7, <1>8

(* ------------------------------- invariant ----------------------------- *)
\* The invariant holds when the service starts for the first time.
LEMMA InitCorrect == Init => LifeInv
<1> SUFFICES ASSUME Init PROVE LifeInv
  OBVIOUS
<1>1. LifeTypeOK
  <2>1. /\ remembered \in Seq(Tasks) /\ Len(remembered) <= MaxResults
        /\ failures \in Seq(Tasks)
    BY LifeAssumption, EmptySeq DEF Init
  <2> QED
    BY <2>1 DEF Init, LifeTypeOK
<1>2. RefusedLeavesNothing /\ WorkHasAHome
  BY DEF Init, RefusedLeavesNothing, WorkHasAHome, LiveMonitor, Ending
<1>3. EndIsReported /\ NothingBeforeStart
  BY DEF Init, EndIsReported, NothingBeforeStart
<1>4. EndedIsQuiet /\ TableIsRecent /\ VerdictIsTerminal
  BY DEF Init, EndedIsQuiet, TableIsRecent, VerdictIsTerminal
<1> QED
  BY <1>1, <1>2, <1>3, <1>4 DEF LifeInv

\* Up to the moment when start() is asked for a slot, and when it says no.
LEMMA SubmissionStep ==
  ASSUME LifeInv, NEW t \in Tasks,
         Submit(t) \/ StoreFails(t) \/ InitializeManifest(t) \/ Refuse(t)
  PROVE  LifeInv'
<1> USE DEF Submit, StoreFails, InitializeManifest, Refuse, HandlerAt, Tell, diskVars
<1>0. /\ monitor[t] = "none" /\ worker[t] = "none"
      /\ handler[t] \in {"idle", "storing", "starting"}
  BY DEF LifeInv, NothingBeforeStart
<1>1. LifeTypeOK'
  BY DEF LifeInv, LifeTypeOK, Statuses
<1>2. RefusedLeavesNothing'
  BY <1>0 DEF LifeInv, LifeTypeOK, RefusedLeavesNothing, NothingBeforeStart
<1>3. WorkHasAHome'
  BY <1>0 DEF LifeInv, LifeTypeOK, WorkHasAHome, LiveMonitor, Ending
<1>4. EndIsReported'
  BY <1>0 DEF LifeInv, LifeTypeOK, EndIsReported, Shown, Forgotten
<1>5. NothingBeforeStart'
  BY <1>0 DEF LifeInv, LifeTypeOK, NothingBeforeStart
<1>6. EndedIsQuiet' /\ TableIsRecent' /\ VerdictIsTerminal'
  BY <1>0 DEF LifeInv, LifeTypeOK, EndedIsQuiet, TableIsRecent, VerdictIsTerminal
<1> QED
  BY <1>1, <1>2, <1>3, <1>4, <1>5, <1>6 DEF LifeInv

\* start() returns a monitor.
LEMMA StartStep == ASSUME LifeInv, NEW t \in Tasks, Start(t) PROVE LifeInv'
<1> USE DEF Start, HandlerAt, Tell, diskVars
<1>0. /\ monitor[t] = "none" /\ worker[t] = "none" /\ told[t] # "refused"
      /\ t \in folder /\ manifest[t] = "running"
  BY DEF LifeInv, NothingBeforeStart
<1>1. LifeTypeOK'
  BY <1>0 DEF LifeInv, LifeTypeOK, LiveMonitor
<1>2. RefusedLeavesNothing'
  BY <1>0 DEF LifeInv, LifeTypeOK, RefusedLeavesNothing
<1>3. WorkHasAHome'
  BY <1>0 DEF LifeInv, LifeTypeOK, WorkHasAHome
<1>4. EndIsReported'
  BY DEF LifeInv, LifeTypeOK, EndIsReported, Shown, Forgotten
<1>5. NothingBeforeStart'
  BY <1>0 DEF LifeInv, LifeTypeOK, NothingBeforeStart
<1>6. EndedIsQuiet' /\ TableIsRecent' /\ VerdictIsTerminal'
  BY DEF LifeInv, LifeTypeOK, EndedIsQuiet, TableIsRecent, VerdictIsTerminal
<1> QED
  BY <1>1, <1>2, <1>3, <1>4, <1>5, <1>6 DEF LifeInv

\* A client asks for the state of a task.
LEMMA GetTaskStep == ASSUME LifeInv, NEW t \in Tasks, GetTask(t) PROVE LifeInv'
<1> USE DEF GetTask, Tell, diskVars
<1>0. /\ Shown(t) \in {"running", "error"} \cup Terminal
      /\ manifest[t] # "none"
  BY DEF LifeInv, LifeTypeOK, Shown, Statuses, Terminal
<1>1. LifeTypeOK'
  BY <1>0 DEF LifeInv, LifeTypeOK
<1>2. RefusedLeavesNothing'
  BY <1>0 DEF LifeInv, LifeTypeOK, RefusedLeavesNothing, Terminal
<1>3. WorkHasAHome'
  BY DEF LifeInv, WorkHasAHome
<1>4. EndIsReported'
  BY DEF LifeInv, EndIsReported, Shown, Forgotten
<1>5. NothingBeforeStart'
  BY <1>0 DEF LifeInv, LifeTypeOK, NothingBeforeStart, Terminal
<1>6. EndedIsQuiet' /\ TableIsRecent' /\ VerdictIsTerminal'
  BY DEF LifeInv, EndedIsQuiet, TableIsRecent, VerdictIsTerminal
<1> QED
  BY <1>1, <1>2, <1>3, <1>4, <1>5, <1>6 DEF LifeInv

\* What one step of a worker may do to the status and to the process.
LEMMA WorkerChanges ==
  ASSUME NEW t \in Tasks, WorkerStep(t)
  PROVE  /\ worker[t] = "working"
         /\ \E status \in Statuses, phase \in {"working", "finished", "dead"} :
              /\ manifest' = [manifest EXCEPT ![t] = status]
              /\ worker' = [worker EXCEPT ![t] = phase]
         /\ worker'[t] = "finished" => manifest'[t] \in Terminal
<1>1. worker[t] = "working"
  BY DEF WorkerStep, Process!WNext, Process!ShowOutputs, Process!Conclude, Process!Fall
<1>2. worker'[t] = "finished" => manifest'[t] \in Terminal
  BY <1>1 DEF WorkerStep, Process!WNext, Process!ShowOutputs, Process!Conclude,
              Process!Fall, Terminal
<1> QED
  BY <1>1, <1>2 DEF WorkerStep

\* A process works, ends or is killed.
LEMMA ProcessCorrect ==
  ASSUME LifeInv, NEW t \in Tasks, ProcessStep(t)
  PROVE  LifeInv'
<1> USE DEF requestVars, diskVars
<1>1. PICK status \in {"none"} \cup Statuses, phase \in {"working", "finished", "exited", "dead"} :
        /\ manifest' = [manifest EXCEPT ![t] = status]
        /\ worker' = [worker EXCEPT ![t] = phase]
        /\ worker[t] # "working" => status = manifest[t] /\ worker[t] = "finished"
        /\ worker[t] = "working" => status \in Statuses
        /\ phase \in {"finished", "exited"} => status \in Terminal
  <2>1. CASE WorkerStep(t)
    <3>1. PICK status \in Statuses, phase \in {"working", "finished", "dead"} :
            /\ manifest' = [manifest EXCEPT ![t] = status]
            /\ worker' = [worker EXCEPT ![t] = phase]
      BY <2>1, WorkerChanges
    <3>2. phase = "finished" => status \in Terminal
      BY <2>1, <3>1, WorkerChanges DEF LifeInv, LifeTypeOK
    <3>3. worker[t] = "working"
      BY <2>1, WorkerChanges
    <3> QED
      BY <3>1, <3>2, <3>3
  <2>2. CASE WorkerExits(t)
    <3>1. manifest' = [manifest EXCEPT ![t] = manifest[t]] /\ manifest[t] \in Terminal
      BY <2>2 DEF WorkerExits, LifeInv, LifeTypeOK, VerdictIsTerminal
    <3> QED
      BY <2>2, <3>1 DEF WorkerExits, Statuses
  <2>3. CASE WorkerKilled(t)
    <3>1. manifest' = [manifest EXCEPT ![t] = manifest[t]] /\ manifest[t] \in Terminal
      BY <2>3 DEF WorkerKilled, LifeInv, LifeTypeOK, VerdictIsTerminal
    <3> QED
      BY <2>3, <3>1 DEF WorkerKilled, Statuses
  <2> QED
    BY <2>1, <2>2, <2>3 DEF ProcessStep
<1>2. UNCHANGED <<service, handler, told, folder, monitor, table>>
  BY DEF ProcessStep, WorkerStep, WorkerExits, WorkerKilled
<1>3. worker[t] \in {"working", "finished"} /\ monitor[t] \notin {"none", "created", "ended"}
  BY <1>1 DEF LifeInv, LifeTypeOK, NothingBeforeStart, EndedIsQuiet, Quiet
<1>4. t \in folder /\ manifest[t] # "none" /\ status # "none"
  BY <1>1, <1>3 DEF LifeInv, WorkHasAHome, Statuses, Terminal
<1>5. LifeTypeOK'
  BY <1>1, <1>2 DEF LifeInv, LifeTypeOK
<1>6. RefusedLeavesNothing'
  BY <1>1, <1>2, <1>3 DEF LifeInv, LifeTypeOK, RefusedLeavesNothing
<1>7. WorkHasAHome'
  BY <1>1, <1>2, <1>4 DEF LifeInv, LifeTypeOK, WorkHasAHome
<1>8. EndIsReported'
  BY <1>1, <1>2, <1>3 DEF LifeInv, LifeTypeOK, EndIsReported, Shown, Forgotten
<1>9. NothingBeforeStart'
  BY <1>1, <1>2, <1>3 DEF LifeInv, LifeTypeOK, NothingBeforeStart
<1>10. EndedIsQuiet' /\ TableIsRecent' /\ VerdictIsTerminal'
  BY <1>1, <1>2, <1>3 DEF LifeInv, LifeTypeOK, EndedIsQuiet, TableIsRecent, VerdictIsTerminal
<1> QED
  BY <1>5, <1>6, <1>7, <1>8, <1>9, <1>10 DEF LifeInv

\* A monitor that has not ended moves on without ending.
LEMMA MonitorMoves ==
  ASSUME LifeInv, NEW t \in Tasks,
         Spawn(t) \/ Register(t) \/ ParseTimeout(t) \/ CancelMonitor(t)
  PROVE  LifeInv'
<1>1. PICK point \in LiveMonitor \ {"created"}, phase \in {"none", "working", "finished", "exited", "dead"} :
        /\ monitor' = [monitor EXCEPT ![t] = point]
        /\ worker' = [worker EXCEPT ![t] = phase]
        /\ phase = worker[t] \/ phase = "working"
  <2>1. worker' = worker \/ worker' = [worker EXCEPT ![t] = "working"]
    BY DEF Spawn, Register, ParseTimeout, CancelMonitor
  <2>2. worker = [worker EXCEPT ![t] = worker[t]]
        /\ worker[t] \in {"none", "working", "finished", "exited", "dead"}
    BY DEF LifeInv, LifeTypeOK
  <2>3. \E point \in LiveMonitor \ {"created"} : monitor' = [monitor EXCEPT ![t] = point]
    BY DEF Spawn, Register, ParseTimeout, CancelMonitor, MonitorAt, LiveMonitor, Ending
  <2> QED
    BY <2>1, <2>2, <2>3
<1>2. UNCHANGED <<service, handler, told, folder, manifest, table>>
  BY DEF Spawn, Register, ParseTimeout, CancelMonitor, MonitorAt, requestVars, diskVars
<1>3. monitor[t] \in LiveMonitor
  BY DEF Spawn, Register, ParseTimeout, CancelMonitor, LiveMonitor, Ending
<1>4. /\ monitor[t] # "none" /\ monitor[t] # "ended" /\ told[t] # "refused"
      /\ point # "none" /\ point # "ended"
      /\ t \in folder /\ manifest[t] # "none"
      /\ handler[t] \notin {"idle", "storing", "starting"}
  BY <1>3 DEF LiveMonitor, Ending, LifeInv, RefusedLeavesNothing, WorkHasAHome,
              NothingBeforeStart
<1>5. LifeTypeOK'
  BY <1>1, <1>2 DEF LifeInv, LifeTypeOK
<1>6. RefusedLeavesNothing'
  BY <1>1, <1>2, <1>4 DEF LifeInv, LifeTypeOK, RefusedLeavesNothing
<1>7. WorkHasAHome'
  BY <1>1, <1>2, <1>4 DEF LifeInv, LifeTypeOK, WorkHasAHome
<1>8. EndIsReported'
  BY <1>1, <1>2, <1>4 DEF LifeInv, LifeTypeOK, EndIsReported, Shown, Forgotten
<1>9. NothingBeforeStart'
  BY <1>1, <1>2, <1>4 DEF LifeInv, LifeTypeOK, NothingBeforeStart
<1>10. EndedIsQuiet' /\ TableIsRecent' /\ VerdictIsTerminal'
  BY <1>1, <1>2, <1>4 DEF LifeInv, LifeTypeOK, EndedIsQuiet, TableIsRecent, VerdictIsTerminal
<1> QED
  BY <1>5, <1>6, <1>7, <1>8, <1>9, <1>10 DEF LifeInv

\* A monitor ends, however it ends, and whatever it adds to the table.
LEMMA MonitorEndsCorrect ==
  ASSUME LifeInv, NEW t \in Tasks,
         NEW how \in {"ended", "raised", "cancelled"}, NEW answer \in Terminal \cup {"error"},
         monitor[t] \in LiveMonitor,
         MonitorEnds(t, how, answer),
         UNCHANGED diskVars,
         \/ UNCHANGED table /\ (how = "ended" => manifest[t] \in Terminal)
         \/ remembered' = Remembering(t) /\ failures' = Append(failures, t),
         how = "ended" => worker[t] \in Quiet
  PROVE  LifeInv'
<1>0. /\ monitor[t] # "none" /\ told[t] # "refused"
      /\ t \in folder /\ manifest[t] # "none"
      /\ handler[t] \notin {"idle", "storing", "starting"}
  BY DEF LiveMonitor, Ending, LifeInv, RefusedLeavesNothing, WorkHasAHome, NothingBeforeStart
<1>1. /\ monitor' = [monitor EXCEPT ![t] = how]
      /\ UNCHANGED <<service, folder, manifest, worker>>
  BY DEF MonitorEnds, diskVars
<1>2. /\ \A u \in Tasks : told'[u] = "refused" => told[u] = "refused"
      /\ told' \in [Tasks -> {"nothing", "running", "refused", "error"} \cup Terminal]
      /\ told'[t] # "refused"
  BY <1>0 DEF MonitorEnds, Tell, requestVars, LifeInv, LifeTypeOK, Terminal
<1>3. /\ handler' \in [Tasks -> {"idle", "storing", "starting", "awaiting", "ended"}]
      /\ \A u \in Tasks : handler'[u] = handler[u] \/ u = t
      /\ handler'[t] \notin {"idle", "storing", "starting"}
  BY <1>0 DEF MonitorEnds, HandlerAt, requestVars, LifeInv, LifeTypeOK
<1>4. /\ remembered' \in Seq(Tasks) /\ Len(remembered') <= MaxResults
      /\ failures' \in Seq(Tasks)
      /\ TableIsRecent'
      /\ \A u \in Tasks : Forgotten(u) => Forgotten(u)'
      /\ \A u \in ToSet(remembered) \ ToSet(remembered') : Forgotten(u)'
      /\ how = "ended" => manifest[t] \in Terminal \/ t \in ToSet(remembered')
  <2>1. LifeTypeOK /\ TableIsRecent
    BY DEF LifeInv
  <2>2. CASE UNCHANGED table /\ (how = "ended" => manifest[t] \in Terminal)
    BY <2>1, <2>2 DEF LifeTypeOK, TableIsRecent, Forgotten
  <2>3. CASE remembered' = Remembering(t) /\ failures' = Append(failures, t)
    BY <2>1, <2>3, TableStep
  <2> QED
    BY <2>2, <2>3
<1>5. LifeTypeOK'
  BY <1>1, <1>2, <1>3, <1>4 DEF LifeInv, LifeTypeOK
<1>6. RefusedLeavesNothing'
  BY <1>0, <1>1, <1>2 DEF LifeInv, LifeTypeOK, RefusedLeavesNothing
<1>7. WorkHasAHome'
  BY <1>0, <1>1 DEF LifeInv, LifeTypeOK, WorkHasAHome
<1>8. EndIsReported'
  <2>1. SUFFICES ASSUME NEW u \in Tasks, monitor'[u] = "ended", ~Forgotten(u)'
                 PROVE  Shown(u)' \in Terminal
    BY DEF EndIsReported
  <2>2. u \in ToSet(remembered) => u \in ToSet(remembered')
    BY <1>4, <2>1
  <2>3. CASE u = t
    BY <1>0, <1>1, <1>4, <2>1, <2>3 DEF LifeInv, LifeTypeOK, Shown, Terminal
  <2>4. CASE u # t
    <3>1. Shown(u) \in Terminal
      BY <1>1, <1>4, <2>1, <2>4 DEF LifeInv, LifeTypeOK, EndIsReported
    <3> QED
      BY <1>1, <2>2, <3>1 DEF Shown, Terminal
  <2> QED
    BY <2>3, <2>4
<1>9. NothingBeforeStart'
  <2>1. SUFFICES ASSUME NEW u \in Tasks
        PROVE /\ handler'[u] \in {"idle", "storing", "starting"} => monitor'[u] = "none" /\ told'[u] # "refused"
              /\ handler'[u] \in {"storing", "starting"} => u \in folder'
              /\ handler'[u] = "starting" => manifest'[u] = "running"
              /\ monitor'[u] \in {"none", "created"} => worker'[u] = "none"
    BY DEF NothingBeforeStart
  <2> QED
    BY <1>0, <1>1, <1>2, <1>3 DEF LifeInv, LifeTypeOK, NothingBeforeStart
<1>10. EndedIsQuiet' /\ TableIsRecent' /\ VerdictIsTerminal'
  BY <1>1, <1>4 DEF LifeInv, LifeTypeOK, EndedIsQuiet, TableIsRecent, VerdictIsTerminal
<1> QED
  BY <1>5, <1>6, <1>7, <1>8, <1>9, <1>10 DEF LifeInv

\* The outcomes of a monitor.
LEMMA OutcomeStep ==
  ASSUME LifeInv, NEW t \in Tasks,
         SpawnFails(t) \/ SeeExit(t) \/ SeeCrash(t) \/ TimedOut(t) \/ Cancelled(t)
  PROVE  LifeInv'
<1>0. LifeTypeOK /\ VerdictIsTerminal /\ NothingBeforeStart
  BY DEF LifeInv
<1>1. monitor[t] \in LiveMonitor
  BY DEF SpawnFails, SeeExit, SeeCrash, TimedOut, Cancelled, LiveMonitor, Ending
<1>2. ASSUME Remember(t), worker[t] \in Quiet PROVE LifeInv'
  <2>1. CASE /\ remembered' = Remembering(t)
             /\ failures' = Append(failures, t)
             /\ MonitorEnds(t, "ended", "failed")
             /\ UNCHANGED diskVars
    BY <1>1, <1>2, <2>1, MonitorEndsCorrect DEF Terminal
  <2>2. CASE MonitorEnds(t, "raised", "error") /\ UNCHANGED <<table, diskVars>>
    BY <1>1, <2>2, MonitorEndsCorrect
  <2> QED
    BY <1>2, <2>1, <2>2 DEF Remember
<1>3. CASE SpawnFails(t)
  <2>1. worker[t] \in Quiet
    <3>1. monitor[t] = "created"
      BY <1>3 DEF SpawnFails
    <3> QED
      BY <1>0, <3>1 DEF NothingBeforeStart, Quiet
  <2> QED
    BY <1>2, <1>3, <2>1 DEF SpawnFails
<1>4. CASE SeeExit(t)
  <2>1. manifest[t] \in Terminal /\ worker[t] \in Quiet
    BY <1>0, <1>4 DEF SeeExit, VerdictIsTerminal, Quiet
  <2>2. MonitorEnds(t, "ended", manifest[t]) /\ UNCHANGED <<table, diskVars>>
    BY <1>4, <2>1 DEF SeeExit
  <2> QED
    BY <1>1, <2>1, <2>2, MonitorEndsCorrect
<1>5. CASE SeeCrash(t) \/ TimedOut(t)
  BY <1>2, <1>5 DEF SeeCrash, TimedOut, Quiet
<1>6. CASE Cancelled(t)
  BY <1>1, <1>6, MonitorEndsCorrect DEF Cancelled
<1> QED
  BY <1>3, <1>4, <1>5, <1>6

\* The process of the service goes away, is told to, or comes back.
LEMMA ServiceStep ==
  ASSUME LifeInv, Shutdown \/ Exit \/ Crash \/ Boot
  PROVE  LifeInv'
<1> USE DEF requestVars, diskVars
<1>1. CASE Shutdown \/ Boot
  <2>1. UNCHANGED <<requestVars, diskVars, monitor, worker, table>>
        /\ service' \in {"up", "closing"}
    BY <1>1 DEF Shutdown, Boot
  <2>2. LifeTypeOK' /\ RefusedLeavesNothing' /\ WorkHasAHome'
    BY <2>1 DEF LifeInv, LifeTypeOK, RefusedLeavesNothing, WorkHasAHome
  <2>3. EndIsReported' /\ NothingBeforeStart' /\ EndedIsQuiet' /\ TableIsRecent' /\ VerdictIsTerminal'
    BY <2>1 DEF LifeInv, EndIsReported, Shown, Forgotten, NothingBeforeStart, EndedIsQuiet,
                TableIsRecent, VerdictIsTerminal
  <2> QED
    BY <2>2, <2>3 DEF LifeInv
<1>2. CASE Gone
  <2> USE <1>2 DEF Gone
  <2>1. /\ \A t \in Tasks : monitor'[t] \in {"none", "past"}
        /\ \A t \in Tasks : monitor'[t] = "none" <=> monitor[t] = "none"
        /\ \A t \in Tasks : handler'[t] \in {"idle", "ended"}
        /\ \A t \in Tasks : handler'[t] = "idle" => handler[t] = "idle"
    OBVIOUS
  <2>2. /\ remembered' \in Seq(Tasks) /\ Len(remembered') <= MaxResults
        /\ failures' \in Seq(Tasks)
        /\ TableIsRecent'
    BY LifeAssumption, EmptySeq DEF TableIsRecent
  <2>3. LifeTypeOK'
    BY <2>1, <2>2 DEF LifeInv, LifeTypeOK
  <2>4. RefusedLeavesNothing' /\ WorkHasAHome'
    BY <2>1 DEF LifeInv, RefusedLeavesNothing, WorkHasAHome, LiveMonitor, Ending
  <2>5. EndIsReported' /\ EndedIsQuiet' /\ TableIsRecent' /\ VerdictIsTerminal'
    BY <2>1, <2>2 DEF LifeInv, EndIsReported, EndedIsQuiet, TableIsRecent, VerdictIsTerminal
  <2>6. NothingBeforeStart'
    BY <2>1 DEF LifeInv, NothingBeforeStart
  <2> QED
    BY <2>3, <2>4, <2>5, <2>6 DEF LifeInv
<1> QED
  BY <1>1, <1>2 DEF Exit, Crash

\* Every step keeps the invariant.
LEMMA NextCorrect == LifeInv /\ [Next]_vars => LifeInv'
<1> SUFFICES ASSUME LifeInv, [Next]_vars PROVE LifeInv'
  OBVIOUS
<1>1. ASSUME NEW t \in Tasks, RequestStep(t) PROVE LifeInv'
  BY <1>1, SubmissionStep, StartStep, GetTaskStep DEF RequestStep
<1>2. ASSUME NEW t \in Tasks, ProcessStep(t) PROVE LifeInv'
  BY <1>2, ProcessCorrect
<1>3. ASSUME NEW t \in Tasks, MonitorRuns(t) \/ ParseTimeout(t) \/ CancelMonitor(t)
      PROVE  LifeInv'
  BY <1>3, MonitorMoves, OutcomeStep DEF MonitorRuns
<1>4. CASE Shutdown \/ Exit \/ Crash \/ Boot
  BY <1>4, ServiceStep
<1>5. CASE UNCHANGED vars
  <2> USE <1>5 DEF vars, requestVars, diskVars
  <2>1. LifeTypeOK' /\ RefusedLeavesNothing' /\ WorkHasAHome'
    BY DEF LifeInv, LifeTypeOK, RefusedLeavesNothing, WorkHasAHome
  <2>2. EndIsReported' /\ NothingBeforeStart' /\ EndedIsQuiet' /\ TableIsRecent' /\ VerdictIsTerminal'
    BY DEF LifeInv, EndIsReported, Shown, Forgotten, NothingBeforeStart, EndedIsQuiet, TableIsRecent, VerdictIsTerminal
  <2> QED
    BY <2>1, <2>2 DEF LifeInv
<1> QED
  BY <1>1, <1>2, <1>3, <1>4, <1>5 DEF Next

\* The invariant holds in every state the service reaches.
THEOREM LifeCorrect == Spec => []LifeInv
BY InitCorrect, NextCorrect, PTL DEF Spec

(* ------------------------------ properties ----------------------------- *)
\* A refused request leaves no directory, no monitor and no process.
THEOREM RefusalCorrect == Spec => []RefusedLeavesNothing
<1>1. LifeInv => RefusedLeavesNothing
  BY DEF LifeInv
<1> QED
  BY <1>1, LifeCorrect, PTL

\* No process and no monitor is left without the task's directory.
THEOREM HomeCorrect == Spec => []WorkHasAHome
<1>1. LifeInv => WorkHasAHome
  BY DEF LifeInv
<1> QED
  BY <1>1, LifeCorrect, PTL

\* A client can see that a parse has ended: until as many tasks have failed
\* after it as the table has room for, its own failure is shown.
THEOREM ReportCorrect == Spec => []EndIsReported
<1>1. LifeInv => EndIsReported
  BY DEF LifeInv
<1> QED
  BY <1>1, LifeCorrect, PTL

\* Only the worker writes the manifest once it runs, and only until it has
\* decided: no timeout, crash, shutdown or restart changes a verdict.
THEOREM VerdictCorrect == Spec => VerdictStays
<1> DEFINE Stays == \A t \in Tasks : worker[t] \in {"finished", "exited"} => manifest'[t] = manifest[t]
<1>1. LifeInv /\ [Next]_vars => Stays
  <2> SUFFICES ASSUME LifeInv, [Next]_vars,
                      NEW t \in Tasks, worker[t] \in {"finished", "exited"}
               PROVE  manifest'[t] = manifest[t]
    OBVIOUS
  <2> USE DEF diskVars, requestVars
  <2>0. monitor[t] # "none" /\ LifeTypeOK
    BY DEF LifeInv, NothingBeforeStart
  <2>1. ASSUME NEW u \in Tasks, RequestStep(u) PROVE manifest'[t] = manifest[t]
    <3>1. CASE InitializeManifest(u) \/ Refuse(u)
      <4>1. u # t
        BY <2>0, <3>1 DEF InitializeManifest, Refuse, LifeInv, NothingBeforeStart
      <4> QED
        BY <2>0, <3>1, <4>1 DEF InitializeManifest, Refuse, LifeTypeOK
    <3>2. CASE Submit(u) \/ StoreFails(u) \/ Start(u) \/ GetTask(u)
      BY <3>2 DEF Submit, StoreFails, Start, GetTask
    <3> QED
      BY <2>1, <3>1, <3>2 DEF RequestStep
  <2>2. ASSUME NEW u \in Tasks, ProcessStep(u) PROVE manifest'[t] = manifest[t]
    <3>1. CASE WorkerStep(u)
      <4>1. u # t
        BY <3>1, WorkerChanges
      <4> QED
        BY <2>0, <3>1, <4>1, WorkerChanges DEF LifeTypeOK
    <3> QED
      BY <2>2, <3>1 DEF ProcessStep, WorkerExits, WorkerKilled
  <2>3. ASSUME NEW u \in Tasks, MonitorRuns(u) \/ ParseTimeout(u) \/ CancelMonitor(u)
        PROVE  manifest'[t] = manifest[t]
    BY <2>3 DEF MonitorRuns, Spawn, SpawnFails, Register, SeeExit, SeeCrash, TimedOut,
                Cancelled, ParseTimeout, CancelMonitor, MonitorAt, Remember
  <2>4. CASE Shutdown \/ Exit \/ Crash \/ Boot \/ UNCHANGED vars
    BY <2>4 DEF Shutdown, Exit, Crash, Boot, Gone, vars
  <2> QED
    BY <2>1, <2>2, <2>3, <2>4 DEF Next
<1>2. LifeInv /\ [Next]_vars => [Stays]_vars
  BY <1>1
<1> QED
  BY <1>2, LifeCorrect, PTL DEF Spec, VerdictStays

\* What is told of a parse whose monitor has returned changes only when the
\* table goes with the service, or is full and drops this parse as its oldest.
THEOREM AnswerCorrect == Spec => AnswerStands
<1> DEFINE Gives(t) == \/ service' = "down"
                       \/ Len(remembered) = MaxResults /\ t = Head(remembered)
           Stands == \A t \in Tasks :
                       monitor[t] = "ended" /\ Shown(t)' # Shown(t) => Gives(t)
<1>1. LifeInv /\ [Next]_vars => Stands
  <2> SUFFICES ASSUME LifeInv, [Next]_vars,
                      NEW t \in Tasks, monitor[t] = "ended"
               PROVE  Shown(t)' = Shown(t) \/ Gives(t)
    OBVIOUS
  <2> HIDE DEF Gives
  <2> USE DEF diskVars, requestVars
  <2>0. /\ LifeTypeOK
        /\ worker[t] \in Quiet
        /\ handler[t] \notin {"idle", "storing", "starting"}
    BY DEF LifeInv, EndedIsQuiet, NothingBeforeStart
  <2>1. manifest'[t] = manifest[t]
    <3>1. ASSUME NEW u \in Tasks, RequestStep(u) PROVE manifest'[t] = manifest[t]
      <4>1. CASE InitializeManifest(u) \/ Refuse(u)
        <5>1. u # t
          BY <2>0, <4>1 DEF InitializeManifest, Refuse
        <5> QED
          BY <2>0, <4>1, <5>1 DEF InitializeManifest, Refuse, LifeTypeOK
      <4>2. CASE Submit(u) \/ StoreFails(u) \/ Start(u) \/ GetTask(u)
        BY <4>2 DEF Submit, StoreFails, Start, GetTask
      <4> QED
        BY <3>1, <4>1, <4>2 DEF RequestStep
    <3>2. ASSUME NEW u \in Tasks, ProcessStep(u) PROVE manifest'[t] = manifest[t]
      <4>1. CASE WorkerStep(u)
        <5>1. u # t
          BY <2>0, <4>1, WorkerChanges DEF Quiet
        <5> QED
          BY <2>0, <4>1, <5>1, WorkerChanges DEF LifeTypeOK
      <4> QED
        BY <3>2, <4>1 DEF ProcessStep, WorkerExits, WorkerKilled
    <3>3. ASSUME NEW u \in Tasks, MonitorRuns(u) \/ ParseTimeout(u) \/ CancelMonitor(u)
          PROVE  manifest'[t] = manifest[t]
      BY <3>3 DEF MonitorRuns, Spawn, SpawnFails, Register, SeeExit, SeeCrash, TimedOut,
                  Cancelled, ParseTimeout, CancelMonitor, MonitorAt, Remember
    <3>4. CASE Shutdown \/ Exit \/ Crash \/ Boot \/ UNCHANGED vars
      BY <3>4 DEF Shutdown, Exit, Crash, Boot, Gone, vars
    <3> QED
      BY <3>1, <3>2, <3>3, <3>4 DEF Next
  <2>2. CASE remembered' = remembered
    BY <2>1, <2>2 DEF Shown
  <2>3. ASSUME NEW u \in Tasks, Remember(u), monitor[u] \in LiveMonitor,
               remembered' # remembered
        PROVE  Shown(t)' = Shown(t) \/ Gives(t)
    <3>1. u # t /\ remembered' = Remembering(u)
      BY <2>3 DEF Remember, LiveMonitor, Ending
    <3>2. /\ ToSet(Remembering(u)) \subseteq ToSet(remembered) \cup {u}
          /\ \A v \in ToSet(remembered) \ ToSet(Remembering(u)) :
               Len(remembered) = MaxResults /\ v = Head(remembered)
      BY <2>0, RememberingForgets DEF LifeTypeOK
    <3>3. CASE t \in ToSet(remembered) <=> t \in ToSet(remembered')
      BY <2>1, <3>3 DEF Shown
    <3>4. CASE t \in ToSet(remembered) /\ t \notin ToSet(remembered')
      BY <3>1, <3>2, <3>4 DEF Gives
    <3> QED
      BY <3>1, <3>2, <3>3, <3>4
  <2>4. ASSUME NEW u \in Tasks, MonitorRuns(u), remembered' # remembered
        PROVE  Shown(t)' = Shown(t) \/ Gives(t)
    BY <2>3, <2>4 DEF MonitorRuns, Spawn, SpawnFails, Register, SeeExit, SeeCrash, TimedOut,
                      Cancelled, MonitorAt, LiveMonitor, Ending
  <2>5. CASE Exit \/ Crash
    BY <2>5 DEF Exit, Crash, Gone, Gives
  <2>6. ASSUME NEW u \in Tasks, RequestStep(u) \/ ProcessStep(u) PROVE remembered' = remembered
    BY <2>6 DEF RequestStep, Submit, StoreFails, InitializeManifest, Refuse, Start, GetTask,
                ProcessStep, WorkerStep, WorkerExits, WorkerKilled
  <2>7. ASSUME NEW u \in Tasks, ParseTimeout(u) \/ CancelMonitor(u) PROVE remembered' = remembered
    BY <2>7 DEF ParseTimeout, CancelMonitor, MonitorAt
  <2>8. CASE Shutdown \/ Boot \/ UNCHANGED vars
    BY <2>2, <2>8 DEF Shutdown, Boot, vars
  <2> QED
    BY <2>2, <2>4, <2>5, <2>6, <2>7, <2>8 DEF Next
<1>2. LifeInv /\ [Next]_vars => [Stands]_vars
  BY <1>1
<1> QED
  BY <1>2, LifeCorrect, PTL DEF Spec, AnswerStands

(* ---------------------- monitors and their processes ------------------- *)
\* What MonitoredParse sees of a monitor that moves and of a process that does.
LEMMA SeenAfterMove ==
  ASSUME LifeTypeOK, NEW t \in Tasks
  PROVE  /\ \A point : monitor' = [monitor EXCEPT ![t] = point] =>
              [u \in Tasks |-> MonitorSeen(monitor'[u])]
                = [[u \in Tasks |-> MonitorSeen(monitor[u])] EXCEPT ![t] = MonitorSeen(point)]
         /\ \A phase : worker' = [worker EXCEPT ![t] = phase] =>
              [u \in Tasks |-> ProcessSeen(worker'[u])]
                = [[u \in Tasks |-> ProcessSeen(worker[u])] EXCEPT ![t] = ProcessSeen(phase)]
BY DEF LifeTypeOK

\* A step that leaves the monitors, or the workers, as they are.
LEMMA SeenUnchanged ==
  /\ monitor' = monitor =>
       [t \in Tasks |-> MonitorSeen(monitor'[t])] = [t \in Tasks |-> MonitorSeen(monitor[t])]
  /\ worker' = worker =>
       [t \in Tasks |-> ProcessSeen(worker'[t])] = [t \in Tasks |-> ProcessSeen(worker[t])]
OBVIOUS

LEMMA ParseInit == Init => Parse!MInit
<1>1. MonitorSeen("none") = "none" /\ ProcessSeen("none") = "none"
  BY DEF MonitorSeen, ProcessSeen, Ending
<1> QED
  BY <1>1 DEF Init, Parse!MInit

\* What a monitor does to itself and to its process is a step, or no step, of
\* MonitoredParse.
LEMMA MonitorImplements ==
  ASSUME LifeInv, NEW t \in Tasks,
         \/ Start(t) \/ MonitorRuns(t) \/ ParseTimeout(t) \/ CancelMonitor(t)
  PROVE  [Parse!MNext]_(Parse!mvars)
<1> DEFINE m == [u \in Tasks |-> MonitorSeen(monitor[u])]
           p == [u \in Tasks |-> ProcessSeen(worker[u])]
<1>0. /\ LifeTypeOK /\ NothingBeforeStart /\ VerdictIsTerminal
      /\ m[t] = MonitorSeen(monitor[t]) /\ p[t] = ProcessSeen(worker[t])
  BY DEF LifeInv
<1>1. ASSUME NEW point, monitor' = [monitor EXCEPT ![t] = point]
      PROVE  m' = [m EXCEPT ![t] = MonitorSeen(point)]
  BY <1>0, <1>1, SeenAfterMove
<1>2. worker' = worker => p' = p
  BY SeenUnchanged
<1>3. m = [m EXCEPT ![t] = m[t]]
  OBVIOUS
<1>4. ASSUME \/ Parse!Watch(t) \/ Parse!Fork(t) \/ Parse!TellToEnd(t) \/ Parse!Return(t)
             \/ UNCHANGED <<m, p>>
      PROVE  [Parse!MNext]_(Parse!mvars)
  BY <1>4 DEF Parse!MNext, Parse!mvars
<1>5. ASSUME worker' = worker, worker[t] \in Quiet,
             monitor[t] \in LiveMonitor,
             NEW how \in {"ended", "raised", "cancelled"},
             monitor' = [monitor EXCEPT ![t] = how]
      PROVE  [Parse!MNext]_(Parse!mvars)
  <2>1. MonitorSeen(how) = "over" /\ MonitorSeen(monitor[t]) \in {"watching", "ending"}
    BY <1>5 DEF MonitorSeen, LiveMonitor, Ending
  <2>2. ProcessSeen(worker[t]) # "alive"
    BY <1>5 DEF ProcessSeen, Quiet
  <2>3. m' = [m EXCEPT ![t] = "over"] /\ p' = p
    BY <1>1, <1>2, <1>5, <2>1
  <2>4. Parse!Return(t)
    BY <1>0, <2>1, <2>2, <2>3 DEF Parse!Return, Parse!MonitorTo
  <2> QED
    BY <1>4, <2>4
<1>6. CASE Start(t)
  <2>1. monitor[t] = "none" /\ monitor' = [monitor EXCEPT ![t] = "created"] /\ worker' = worker
    BY <1>0, <1>6 DEF Start, NothingBeforeStart
  <2>2. MonitorSeen("none") = "none" /\ MonitorSeen("created") = "watching"
    BY DEF MonitorSeen, Ending
  <2>3. Parse!Watch(t)
    BY <1>0, <1>1, <1>2, <2>1, <2>2 DEF Parse!Watch, Parse!MonitorTo
  <2> QED
    BY <1>4, <2>3
<1>7. CASE Spawn(t)
  <2>1. /\ monitor[t] = "created" /\ monitor' = [monitor EXCEPT ![t] = "spawning"]
        /\ worker[t] = "none" /\ worker' = [worker EXCEPT ![t] = "working"]
    BY <1>0, <1>7 DEF Spawn, MonitorAt, NothingBeforeStart
  <2>2. /\ MonitorSeen("created") = "watching" /\ MonitorSeen("spawning") = "watching"
        /\ ProcessSeen("none") = "none" /\ ProcessSeen("working") = "alive"
    BY DEF MonitorSeen, ProcessSeen, Ending
  <2>3. m' = m /\ p' = [p EXCEPT ![t] = "alive"]
    <3>1. m' = [m EXCEPT ![t] = "watching"] /\ m[t] = "watching"
      BY <1>0, <1>1, <2>1, <2>2
    <3>2. p' = [p EXCEPT ![t] = ProcessSeen("working")]
      BY <1>0, <2>1, SeenAfterMove
    <3> QED
      BY <1>3, <2>2, <3>1, <3>2
  <2>4. Parse!Fork(t)
    BY <1>0, <2>1, <2>2, <2>3 DEF Parse!Fork, Parse!ProcessTo
  <2> QED
    BY <1>4, <2>4
<1>8. CASE Register(t) \/ ParseTimeout(t) \/ CancelMonitor(t)
  <2>1. PICK point \in Ending \cup {"watching"} :
          monitor' = [monitor EXCEPT ![t] = point] /\ worker' = worker
    BY <1>8 DEF Register, ParseTimeout, CancelMonitor, MonitorAt, Ending
  <2>2. /\ MonitorSeen(monitor[t]) \in {"watching", "ending"}
        /\ MonitorSeen(monitor[t]) = "ending" => point \in Ending
    BY <1>0, <1>8, <2>1 DEF Register, ParseTimeout, CancelMonitor, MonitorAt, MonitorSeen,
                            LiveMonitor, Ending, LifeTypeOK
  <2>3. MonitorSeen(point) = IF point \in Ending THEN "ending" ELSE "watching"
    BY <2>1 DEF MonitorSeen, Ending
  <2>4. m' = [m EXCEPT ![t] = MonitorSeen(point)] /\ p' = p
    BY <1>1, <1>2, <2>1
  <2>5. CASE MonitorSeen(point) = MonitorSeen(monitor[t])
    BY <1>0, <1>3, <1>4, <2>4, <2>5
  <2>6. CASE MonitorSeen(monitor[t]) = "watching" /\ MonitorSeen(point) = "ending"
    <3>1. Parse!TellToEnd(t)
      BY <1>0, <2>4, <2>6 DEF Parse!TellToEnd, Parse!MonitorTo
    <3> QED
      BY <1>4, <3>1
  <2> QED
    BY <2>2, <2>3, <2>5, <2>6
<1>9. CASE SpawnFails(t) \/ SeeExit(t) \/ SeeCrash(t) \/ TimedOut(t) \/ Cancelled(t)
  <2>1. worker[t] \in Quiet /\ monitor[t] \in LiveMonitor
    BY <1>0, <1>9 DEF SpawnFails, SeeExit, SeeCrash, TimedOut, Cancelled, NothingBeforeStart,
                      Quiet, LiveMonitor, Ending
  <2>2. \E how \in {"ended", "raised", "cancelled"} :
          monitor' = [monitor EXCEPT ![t] = how] /\ worker' = worker
    BY <1>9 DEF SpawnFails, SeeExit, SeeCrash, TimedOut, Cancelled, Remember, MonitorEnds
  <2> QED
    BY <1>5, <2>1, <2>2
<1> QED
  BY <1>6, <1>7, <1>8, <1>9 DEF MonitorRuns

\* So is what a process does, whoever watches it.
LEMMA WorkerImplements ==
  ASSUME LifeInv, NEW t \in Tasks, ProcessStep(t)
  PROVE  [Parse!MNext]_(Parse!mvars)
<1> DEFINE m == [u \in Tasks |-> MonitorSeen(monitor[u])]
           p == [u \in Tasks |-> ProcessSeen(worker[u])]
<1>0. LifeTypeOK /\ p[t] = ProcessSeen(worker[t])
  BY DEF LifeInv
<1>1. worker[t] \in {"working", "finished"} /\ monitor' = monitor
  BY WorkerChanges DEF ProcessStep, WorkerStep, WorkerExits, WorkerKilled
<1>2. PICK phase \in {"working", "finished", "exited", "dead"} :
        worker' = [worker EXCEPT ![t] = phase]
  BY WorkerChanges DEF ProcessStep, WorkerExits, WorkerKilled
<1>3. /\ ProcessSeen(worker[t]) = "alive"
      /\ ProcessSeen(phase) \in {"alive", "gone"}
  BY <1>1 DEF ProcessSeen
<1>4. m' = m /\ p' = [p EXCEPT ![t] = ProcessSeen(phase)]
  BY <1>0, <1>1, <1>2, SeenAfterMove, SeenUnchanged
<1>5. CASE ProcessSeen(phase) = "alive"
  <2>1. p' = p
    BY <1>0, <1>3, <1>4, <1>5
  <2> QED
    BY <1>4, <2>1 DEF Parse!mvars
<1>6. CASE ProcessSeen(phase) = "gone"
  <2>1. Parse!End(t)
    BY <1>0, <1>3, <1>4, <1>6 DEF Parse!End, Parse!ProcessTo
  <2> QED
    BY <2>1 DEF Parse!MNext
<1> QED
  BY <1>3, <1>5, <1>6

\* So is the end of the service.
LEMMA GoneImplements == ASSUME LifeInv, Gone PROVE [Parse!MNext]_(Parse!mvars)
<1> DEFINE m == [u \in Tasks |-> MonitorSeen(monitor[u])]
           p == [u \in Tasks |-> ProcessSeen(worker[u])]
<1>1. p' = p
  BY SeenUnchanged DEF Gone
<1>2. \A t \in Tasks : MonitorSeen(monitor'[t]) =
                         IF MonitorSeen(monitor[t]) = "none" THEN "none" ELSE "lost"
  BY DEF Gone, LifeInv, LifeTypeOK, MonitorSeen, LiveMonitor, Ending
<1>3. m' = [t \in Tasks |-> IF m[t] = "none" THEN "none" ELSE "lost"]
  BY <1>2
<1>4. Parse!Lose
  BY <1>1, <1>3 DEF Parse!Lose
<1> QED
  BY <1>4 DEF Parse!MNext

\* The service, with its shutdowns and crashes, forks one process per task,
\* and no monitor returns while its process lives.
THEOREM MonitoredParseImplemented == Spec => ImplementsMonitoredParse
<1>1. LifeInv /\ [Next]_vars => [Parse!MNext]_(Parse!mvars)
  <2> SUFFICES ASSUME LifeInv, [Next]_vars PROVE [Parse!MNext]_(Parse!mvars)
    OBVIOUS
  <2>1. ASSUME monitor' = monitor, worker' = worker PROVE [Parse!MNext]_(Parse!mvars)
    BY <2>1, SeenUnchanged DEF Parse!mvars
  <2>2. ASSUME NEW t \in Tasks,
               \/ Submit(t) \/ StoreFails(t) \/ InitializeManifest(t) \/ Refuse(t) \/ GetTask(t)
        PROVE  [Parse!MNext]_(Parse!mvars)
    BY <2>1, <2>2 DEF Submit, StoreFails, InitializeManifest, Refuse, GetTask
  <2>3. CASE Shutdown \/ Boot \/ UNCHANGED vars
    BY <2>1, <2>3 DEF Shutdown, Boot, vars
  <2>4. CASE Exit \/ Crash
    BY <2>4, GoneImplements DEF Exit, Crash
  <2>5. ASSUME NEW t \in Tasks,
               \/ Start(t) \/ ProcessStep(t) \/ MonitorRuns(t) \/ ParseTimeout(t)
               \/ CancelMonitor(t)
        PROVE  [Parse!MNext]_(Parse!mvars)
    BY <2>5, MonitorImplements, WorkerImplements
  <2> QED
    BY <2>2, <2>3, <2>4, <2>5 DEF Next, RequestStep
<1> QED
  BY <1>1, ParseInit, LifeCorrect, PTL DEF Spec, ImplementsMonitoredParse, Parse!MSpec
\* The monitors and the processes as MonitoredParse sees them.
SeenMonitors == [t \in Tasks |-> MonitorSeen(monitor[t])]
SeenProcesses == [t \in Tasks |-> ProcessSeen(worker[t])]

\* What MonitoredParse promises is kept by each of its steps.
LEMMA ParseKeeps ==
  ASSUME Parse!MInv, [Parse!MNext]_(Parse!mvars)
  PROVE  Parse!MInv'
<1> DEFINE Kept ==
  /\ SeenMonitors \in [Tasks -> {"none", "watching", "ending", "over", "interrupted", "lost"}]
  /\ SeenProcesses \in [Tasks -> {"none", "alive", "gone"}]
  /\ \A r \in Tasks :
       /\ SeenMonitors[r] = "over" => SeenProcesses[r] # "alive"
       /\ SeenMonitors[r] = "none" => SeenProcesses[r] = "none"
<1>1. Parse!MInv <=> Kept
  BY DEF Parse!MInv, SeenMonitors, SeenProcesses
<1>2. Parse!MInv' <=> Kept'
  BY DEF Parse!MInv, SeenMonitors, SeenProcesses
<1>3. CASE UNCHANGED Parse!mvars
  <2>1. UNCHANGED <<SeenMonitors, SeenProcesses>>
    BY <1>3 DEF Parse!mvars, SeenMonitors, SeenProcesses
  <2> QED
    BY <1>1, <1>2, <2>1
<1>4. CASE Parse!Lose
  <2>1. /\ SeenMonitors' = [r \in Tasks |-> IF SeenMonitors[r] = "none" THEN "none" ELSE "lost"]
        /\ SeenProcesses' = SeenProcesses
    BY <1>4 DEF Parse!Lose, SeenMonitors, SeenProcesses
  <2> QED
    BY <1>1, <1>2, <2>1
<1>5. ASSUME NEW r \in Tasks,
             \/ Parse!Watch(r) \/ Parse!Fork(r) \/ Parse!End(r)
             \/ Parse!TellToEnd(r) \/ Parse!Return(r) \/ Parse!Interrupt(r)
      PROVE  Kept'
  <2>1. CASE Parse!Fork(r) \/ Parse!End(r)
    <3>1. /\ SeenMonitors' = SeenMonitors
          /\ \/ SeenMonitors[r] = "watching" /\ SeenProcesses' = [SeenProcesses EXCEPT ![r] = "alive"]
             \/ SeenProcesses[r] = "alive" /\ SeenProcesses' = [SeenProcesses EXCEPT ![r] = "gone"]
      BY <2>1 DEF Parse!Fork, Parse!End, Parse!ProcessTo, SeenMonitors, SeenProcesses
    <3> QED
      BY <1>1, <3>1
  <2>2. CASE Parse!Watch(r) \/ Parse!TellToEnd(r) \/ Parse!Return(r) \/ Parse!Interrupt(r)
    <3>1. PICK point \in {"watching", "ending", "over", "interrupted"} :
            /\ SeenMonitors' = [SeenMonitors EXCEPT ![r] = point]
            /\ SeenProcesses' = SeenProcesses
            /\ point = "over" => SeenProcesses[r] # "alive"
      BY <2>2 DEF Parse!Watch, Parse!TellToEnd, Parse!Return, Parse!Interrupt,
                  Parse!MonitorTo, SeenMonitors, SeenProcesses
    <3> QED
      BY <1>1, <3>1
  <2> QED
    BY <1>5, <2>1, <2>2
<1> QED
  BY <1>2, <1>3, <1>4, <1>5 DEF Parse!MNext

\* A monitor of the service that has returned leaves no worker process behind.
THEOREM ReturnedLeavesNothing == Spec => []Parse!MInv
<1>1. Parse!MInit => Parse!MInv
  BY DEF Parse!MInit, Parse!MInv
<1> QED
  BY <1>1, ParseKeeps, MonitoredParseImplemented, PTL DEF ImplementsMonitoredParse, Parse!MSpec
=============================================================================
