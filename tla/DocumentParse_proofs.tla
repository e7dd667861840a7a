------------------------- MODULE DocumentParse_proofs -------------------------
(***************************************************************************)
(* For any documents and editions: what PageExtraction_proofs shows of the *)
(* slots and the pages holds inside the task executor too, where a         *)
(* document may be given up while its thread goes on, and what is          *)
(* delivered is whole.                                                     *)
(***************************************************************************)
EXTENDS DocumentParse, PageExtraction_proofs

(* ---------------------------- the projections -------------------------- *)
\* EditionsAnswered, edition by edition.
Answered ==
  \A j \in Jobs : \A e \in Editions :
    /\ build[j] = "none" => offer[j][e] = "none"
    /\ build[j] = "built" => offer[j][e] # "none"
    /\ offer[j][e] = "answer" => projector[j][e] = "answer"
    /\ offer[j][e] = "projector_failed" /\ TimeoutIsBuiltin =>
         \E other \in Editions : projector[j][other] = "raised"

ProjectionsInv ==
  /\ build \in [Jobs -> {"none", "building", "built", "failed"}]
  /\ projector \in [Jobs -> [Editions -> {"none", "running", "answer", "raised"}]]
  /\ offer \in [Jobs -> [Editions ->
                  {"none", "answer", "projector_failed", "projector_timeout"}]]
  /\ Answered

LEMMA AnsweredIsEditionsAnswered ==
  ASSUME TimeoutIsBuiltin, ProjectionsInv
  PROVE  Projecting!EditionsAnswered
  BY DEF ProjectionsInv, Answered, Projecting!EditionsAnswered, Projecting!ReasonsAreTrue,
         Projecting!Remaining

\* A build begins: nothing has been offered, so nothing is contradicted.
LEMMA StartBuildKeeps ==
  ASSUME ProjectionsInv, NEW j \in Jobs, Projecting!StartBuild(j)
  PROVE  ProjectionsInv'
<1>1. build[j] = "none" /\ UNCHANGED offer
  BY DEF Projecting!StartBuild
<1>2. /\ \A i \in Jobs : i # j => build'[i] = build[i] /\ projector'[i] = projector[i]
      /\ build'[j] \in {"building", "failed"}
  BY DEF Projecting!StartBuild, ProjectionsInv
<1>3. /\ build' \in [Jobs -> {"none", "building", "built", "failed"}]
      /\ projector' \in [Jobs -> [Editions -> {"none", "running", "answer", "raised"}]]
  <2>1. build' \in [Jobs -> {"none", "building", "built", "failed"}]
    BY DEF Projecting!StartBuild, ProjectionsInv
  <2>2. [e \in Editions |-> "running"]
          \in [Editions -> {"none", "running", "answer", "raised"}]
    OBVIOUS
  <2>3. projector' \in [Jobs -> [Editions -> {"none", "running", "answer", "raised"}]]
    BY <2>2 DEF Projecting!StartBuild, ProjectionsInv
  <2> QED
    BY <2>1, <2>3
<1>4. Answered'
  BY <1>1, <1>2 DEF ProjectionsInv, Answered
<1> QED
  BY <1>1, <1>3, <1>4 DEF ProjectionsInv

\* The projector of an edition answers or raises, if only too late.
LEMMA ProjectorEndsKeeps ==
  ASSUME ProjectionsInv, NEW j \in Jobs, NEW e \in Editions,
         Projecting!ProjectorEnds(j, e)
  PROVE  ProjectionsInv'
<1>1. PICK ending \in {"answer", "raised"} :
        projector' = [projector EXCEPT ![j][e] = ending]
  BY DEF Projecting!ProjectorEnds, Projecting!Endings
<1>2. UNCHANGED <<build, offer>> /\ projector[j][e] = "running"
  BY DEF Projecting!ProjectorEnds
<1>3. \A i \in Jobs : \A f \in Editions :
        projector[i][f] # "running" => projector'[i][f] = projector[i][f]
  BY <1>1, <1>2 DEF ProjectionsInv
<1>4. projector' \in [Jobs -> [Editions -> {"none", "running", "answer", "raised"}]]
  BY <1>1 DEF ProjectionsInv
<1>5. Answered'
  BY <1>2, <1>3 DEF ProjectionsInv, Answered
<1> QED
  BY <1>2, <1>4, <1>5 DEF ProjectionsInv

\* The caller collects an answer, or leaves the loop with a reason for the rest.
LEMMA CallerKeeps ==
  ASSUME ProjectionsInv, NEW j \in Jobs, Projecting!Caller(j)
  PROVE  ProjectionsInv' /\ build[j] = "building"
<1>1. ASSUME NEW e \in Editions, Projecting!Collect(j, e)
      PROVE  ProjectionsInv' /\ build[j] = "building"
  <2>1. /\ build[j] = "building" /\ projector[j][e] = "answer" /\ UNCHANGED projector
        /\ offer' = [offer EXCEPT ![j][e] = "answer"]
        /\ build' = [build EXCEPT ![j] = IF Projecting!Remaining(j) = {e}
                                          THEN "built" ELSE build[j]]
    BY <1>1 DEF Projecting!Collect
  <2>2. /\ \A i \in Jobs : i # j => offer'[i] = offer[i] /\ build'[i] = build[i]
        /\ offer'[j][e] = "answer"
        /\ \A f \in Editions : f # e => offer'[j][f] = offer[j][f]
    BY <2>1 DEF ProjectionsInv
  <2>3. /\ build' \in [Jobs -> {"none", "building", "built", "failed"}]
        /\ offer' \in [Jobs -> [Editions ->
                        {"none", "answer", "projector_failed", "projector_timeout"}]]
    BY <2>1 DEF ProjectionsInv
  <2>4. /\ build'[j] \in {"building", "built"}
        /\ build'[j] = "built" => \A f \in Editions : f # e => offer[j][f] # "none"
    BY <2>1 DEF ProjectionsInv, Projecting!Remaining
  <2>5. Answered'
    BY <2>1, <2>2, <2>4 DEF ProjectionsInv, Answered
  <2> QED
    BY <2>1, <2>3, <2>5 DEF ProjectionsInv
<1>2. ASSUME NEW reason \in {"projector_failed", "projector_timeout"},
             Projecting!GiveUpOn(j, reason), UNCHANGED projector,
             build[j] = "building",
             reason = "projector_failed" /\ TimeoutIsBuiltin =>
               \E e \in Editions : projector[j][e] = "raised"
      PROVE  ProjectionsInv'
  <2>1. /\ \A i \in Jobs : i # j => offer'[i] = offer[i] /\ build'[i] = build[i]
        /\ build'[j] = "built"
        /\ \A e \in Editions :
             offer'[j][e] = IF offer[j][e] = "none" THEN reason ELSE offer[j][e]
    BY <1>2 DEF Projecting!GiveUpOn, Projecting!Remaining, ProjectionsInv
  <2>2. /\ build' \in [Jobs -> {"none", "building", "built", "failed"}]
        /\ offer' \in [Jobs -> [Editions ->
                        {"none", "answer", "projector_failed", "projector_timeout"}]]
    BY <1>2 DEF Projecting!GiveUpOn, ProjectionsInv
  <2>3. Answered'
    BY <1>2, <2>1 DEF ProjectionsInv, Answered
  <2> QED
    BY <1>2, <2>2, <2>3 DEF ProjectionsInv
<1>3. ASSUME NEW e \in Editions, Projecting!CollectRaised(j, e)
      PROVE  ProjectionsInv' /\ build[j] = "building"
  BY <1>2, <1>3 DEF Projecting!CollectRaised
<1>4. ASSUME Projecting!Deadline(j)
      PROVE  ProjectionsInv' /\ build[j] = "building"
  BY <1>2, <1>4 DEF Projecting!Deadline
<1> QED
  BY <1>1, <1>3, <1>4 DEF Projecting!Caller
-----------------------------------------------------------------------------
(* ----------------------------- the documents --------------------------- *)
\* What is being projected or delivered has left its thread behind.
FileInv ==
  /\ file \in [Jobs -> {"queued", "parsing", "projecting", "delivered", "failed"}]
  /\ \A j \in Jobs :
       /\ file[j] = "delivered" => build[j] = "built"
       /\ file[j] \in {"projecting", "delivered"} => place[j] = "ended"

ParseInv == SlotsInv /\ PagesInv /\ ProjectionsInv /\ FileInv

\* At the start every document is queued.
LEMMA ParseInit == Init => ParseInv
<1> SUFFICES ASSUME Init PROVE ParseInv
  OBVIOUS
<1>1. SlotsInv /\ PagesInv
  BY SlotsInit, PagesInit DEF Init
<1>2. ProjectionsInv
  BY DEF Init, ProjectionsInv, Answered, Projecting!ProjectionsInit
<1>3. FileInv
  BY DEF Init, FileInv
<1> QED
  BY <1>1, <1>2, <1>3 DEF ParseInv

\* A thread that has ended does nothing more.
LEMMA EndedStays ==
  ASSUME SlotsInv, PagesInv, NEW j \in Jobs, place[j] = "ended",
         \/ Reconfigure
         \/ \E i \in Jobs : OpenDocument(i) \/ ThreadStep(i) \/ ChunkEnds(i)
  PROVE  place'[j] = "ended"
<1>1. CASE Reconfigure
  BY <1>1 DEF Reconfigure
<1>2. ASSUME NEW i \in Jobs, OpenDocument(i) \/ ThreadStep(i) \/ ChunkEnds(i)
      PROVE  place'[j] = "ended"
  <2>1. UNCHANGED place \/ (place[i] # "ended" /\ \E next : MoveTo(i, next))
    BY <1>2 DEF OpenDocument, ReadFrom, ChunkEnds, ThreadStep, GetSemaphore, TakeSlot,
                NoMoreSlots, SlotAtLast, GiveBack, StartPages, ReadPage, FillWindow,
                TakeHead, AllConsumed, EndPool, Stop
  <2> QED
    BY <2>1 DEF MoveTo, SlotsInv
<1> QED
  BY <1>1, <1>2

\* Every step keeps the invariant.
LEMMA ParseStep == ParseInv /\ [Next]_vars => ParseInv'
<1> SUFFICES ASSUME ParseInv, [Next]_vars PROVE ParseInv'
  OBVIOUS
<1>0. SlotsInv /\ PagesInv /\ ProjectionsInv /\ FileInv
  BY DEF ParseInv
<1>1. CASE UNCHANGED vars
  <2>1. SlotsInv' /\ PagesInv' /\ UNCHANGED place
    BY <1>0, <1>1, SlotsStep, PagesStep DEF vars, pagingVars
  <2>2. ProjectionsInv' /\ UNCHANGED build
    BY <1>0, <1>1 DEF vars, projectionVars, ProjectionsInv, Answered
  <2> QED
    BY <1>0, <1>1, <2>1, <2>2 DEF vars, ParseInv, FileInv
<1>2. ASSUME NEW j \in Jobs, BeginFile(j) PROVE ParseInv'
  <2>1. SlotsInv' /\ PagesInv'
    BY <1>0, <1>2, SlotsStep, PagesStep DEF BeginFile, PagingNext
  <2>2. ProjectionsInv' /\ UNCHANGED build
    BY <1>0, <1>2 DEF BeginFile, projectionVars, ProjectionsInv, Answered
  <2>3. \A i \in Jobs : place[i] = "ended" => place'[i] = "ended"
    BY <1>0, <1>2, EndedStays DEF BeginFile
  <2>4. FileInv'
    BY <1>0, <1>2, <2>2, <2>3 DEF BeginFile, SetFile, FileInv
  <2> QED
    BY <2>1, <2>2, <2>4 DEF ParseInv
<1>3. ASSUME NEW j \in Jobs, ExtractionReturns(j) PROVE ParseInv'
  <2>1. SlotsInv' /\ PagesInv' /\ UNCHANGED place
    BY <1>0, <1>3, SlotsStep, PagesStep DEF ExtractionReturns, pagingVars
  <2>2. ProjectionsInv'
    BY <1>0, <1>3, StartBuildKeeps DEF ExtractionReturns
  <2>3. \A i \in Jobs : build[i] = "built" => build'[i] = "built"
    BY <1>0, <1>3 DEF ExtractionReturns, Projecting!StartBuild, ProjectionsInv
  <2>4. place[j] = "ended" /\ \E next \in {"failed", "projecting"} : SetFile(j, next)
    BY <1>3 DEF ExtractionReturns
  <2>5. FileInv'
    BY <1>0, <2>1, <2>3, <2>4 DEF SetFile, FileInv
  <2> QED
    BY <2>1, <2>2, <2>5 DEF ParseInv
<1>4. ASSUME NEW j \in Jobs, TimeOutFile(j) \/ Deliver(j) PROVE ParseInv'
  <2>1. UNCHANGED pagingVars /\ UNCHANGED projectionVars
    BY <1>4 DEF TimeOutFile, Deliver
  <2>2. SlotsInv' /\ PagesInv' /\ UNCHANGED place
    BY <1>0, <2>1, SlotsStep, PagesStep DEF pagingVars
  <2>3. ProjectionsInv' /\ UNCHANGED build
    BY <1>0, <2>1 DEF projectionVars, ProjectionsInv, Answered
  <2>4. FileInv'
    BY <1>0, <1>4, <2>2, <2>3 DEF TimeOutFile, Deliver, SetFile, FileInv
  <2> QED
    BY <2>2, <2>3, <2>4 DEF ParseInv
<1>5. ASSUME NEW j \in Jobs, ProjectorsStep(j) PROVE ParseInv'
  <2>1. UNCHANGED pagingVars /\ UNCHANGED file
    BY <1>5 DEF ProjectorsStep
  <2>2. SlotsInv' /\ PagesInv' /\ UNCHANGED place
    BY <1>0, <2>1, SlotsStep, PagesStep DEF pagingVars
  <2>3. CASE Projecting!Caller(j)
    <3>1. ProjectionsInv' /\ build[j] = "building"
      BY <1>0, <2>3, CallerKeeps
    <3>2. \A i \in Jobs : i # j => build'[i] = build[i]
      BY <1>0, <2>3 DEF Projecting!Caller, Projecting!Deadline, Projecting!Collect,
           Projecting!CollectRaised, Projecting!GiveUpOn, ProjectionsInv
    <3>3. \A i \in Jobs : build[i] = "built" => build'[i] = "built"
      BY <3>1, <3>2
    <3> QED
      BY <1>0, <2>1, <2>2, <3>1, <3>3 DEF FileInv, ParseInv
  <2>4. ASSUME NEW e \in Editions, Projecting!ProjectorEnds(j, e) PROVE ParseInv'
    <3>1. ProjectionsInv' /\ UNCHANGED build
      BY <1>0, <2>4, ProjectorEndsKeeps DEF Projecting!ProjectorEnds
    <3> QED
      BY <1>0, <2>1, <2>2, <3>1 DEF FileInv, ParseInv
  <2> QED
    BY <1>5, <2>3, <2>4 DEF ProjectorsStep
<1>6. ASSUME ThreadsStep PROVE ParseInv'
  <2>1. /\ \/ Reconfigure
           \/ \E i \in Jobs : OpenDocument(i) \/ ThreadStep(i) \/ ChunkEnds(i)
        /\ UNCHANGED projectionVars /\ UNCHANGED file
    BY <1>6 DEF ThreadsStep
  <2>2. SlotsInv' /\ PagesInv'
    BY <1>0, <2>1, SlotsStep, PagesStep DEF PagingNext
  <2>3. ProjectionsInv' /\ UNCHANGED build
    BY <1>0, <2>1 DEF projectionVars, ProjectionsInv, Answered
  <2>4. \A i \in Jobs : place[i] = "ended" => place'[i] = "ended"
    BY <1>0, <2>1, EndedStays
  <2> QED
    BY <1>0, <2>1, <2>2, <2>3, <2>4 DEF ParseInv, FileInv
<1> QED
  BY <1>1, <1>2, <1>3, <1>4, <1>5, <1>6 DEF Next, LoopStep, Finished
-----------------------------------------------------------------------------
\* A delivered document's extraction has ended: with all its pages or with an
\* exception, and without a slot.
LEMMA ParseInvIsWhole ==
  ASSUME TimeoutIsBuiltin, ParseInv
  PROVE  DeliveredIsWhole
<1>1. Projecting!EditionsAnswered
  BY AnsweredIsEditionsAnswered DEF ParseInv
<1>2. ASSUME NEW j \in Jobs, file[j] \in {"projecting", "delivered"}
      PROVE  /\ held[j] = {}
             /\ \/ outcome[j] = "complete" /\ Len(emitted[j]) = pages[j]
                \/ outcome[j] = "raised"
  <2>1. place[j] = "ended" /\ JobInv(j) /\ IdleHoldNone
    BY <1>2 DEF ParseInv, FileInv, PagesInv, SlotsInv
  <2> QED
    BY <2>1 DEF JobInv, IdleHoldNone, Over
<1> QED
  BY <1>1, <1>2 DEF DeliveredIsWhole, ParseInv, FileInv

\* Also with documents given up in the middle of their extraction, slots are
\* neither lost nor lent twice.
THEOREM ParseConservesSlots == Spec => []SlotsConserved
<1>1. ParseInv => SlotsConserved
  BY SlotsInvIsConservation DEF ParseInv
<1> QED
  BY ParseInit, ParseStep, <1>1, PTL DEF Spec

\* The pages of every document of a task come out in order.
THEOREM ParseKeepsOrder == Spec => []PagesInOrder
<1>1. ParseInv => PagesInOrder
  BY PagesInvIsOrder DEF ParseInv
<1> QED
  BY ParseInit, ParseStep, <1>1, PTL DEF Spec

\* A delivered document is whole: all its pages or an error, no slot kept, and
\* a payload or a true reason for every edition; before Python 3.11 the reason
\* given after the deadline is not true.
THEOREM DeliveredIsAlwaysWhole == TimeoutIsBuiltin /\ Spec => []DeliveredIsWhole
<1>1. CASE TimeoutIsBuiltin
  <2>1. ParseInv => DeliveredIsWhole
    BY <1>1, ParseInvIsWhole
  <2> QED
    BY ParseInit, ParseStep, <2>1, PTL DEF Spec
<1>2. CASE ~TimeoutIsBuiltin
  BY <1>2, PTL
<1> QED
  BY <1>1, <1>2
-----------------------------------------------------------------------------
(* ----------------------- the threads by themselves --------------------- *)
\* The task executor starts the threads and lets them run: what it does in
\* between, also giving a document up, leaves them as they are.
THEOREM ThreadsUndisturbed == Spec => PagingSpec
<1>1. Init => PagingInit
  BY DEF Init
<1>2. [Next]_vars => [PagingNext]_pagingVars
  BY DEF Next, LoopStep, BeginFile, ExtractionReturns, TimeOutFile, Deliver, ProjectorsStep,
         ThreadsStep, Finished, vars, PagingNext
<1> QED
  BY <1>1, <1>2, PTL DEF Spec, PagingSpec

\* So nobody in a task waits for a slot that cannot come, not even for those
\* of a document that was given up.
THEOREM ParseServesWaiters == Spec => []SlotCanCome
BY ThreadsUndisturbed, WaitersAreServed, PTL
=============================================================================
