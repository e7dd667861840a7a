---------------------------- MODULE DocumentParse -----------------------------
(***************************************************************************)
(* The documents of one task inside one worker process: process_one of     *)
(* src/docmirror/server/task_executor.py over the threads that extract     *)
(* pages (PageExtraction) and the threads that build the commercial        *)
(* editions (Projections).  TaskExecution has the same steps with the      *)
(* manifest and without these threads.                                     *)
(*                                                                         *)
(* wait_for may give a document up while its thread goes on and keeps its  *)
(* slots.  build_all_projections is called on the event loop, which runs   *)
(* nothing else until it returns.                                          *)
(***************************************************************************)
EXTENDS PageExtraction

CONSTANTS FileWorkers,  \* WorkerBudget.file_workers
          Editions,     \* the commercial editions
          TimeoutIsBuiltin  \* of Projections

ASSUME ParseAssumption ==
  /\ FileWorkers \in Nat \ {0}
  /\ Editions # {}
  /\ TimeoutIsBuiltin \in BOOLEAN

VARIABLES
  file,       \* where process_one stands with each document
  build,      \* of Projections
  projector,
  offer

projectionVars == <<build, projector, offer>>
vars == <<pagingVars, projectionVars, file>>

Projecting == INSTANCE Projections WITH Snapshots <- Jobs

Init ==
  /\ PagingInit
  /\ Projecting!ProjectionsInit
  /\ file = [j \in Jobs |-> "queued"]

SetFile(j, next) == file' = [file EXCEPT ![j] = next]

Parsing == {j \in Jobs : file[j] = "parsing"}

\* build_all_projections and write_outputs do not give the event loop away.
LoopIsFree == \A j \in Jobs : file[j] # "projecting"
-----------------------------------------------------------------------------
\* async with file_semaphore; the extractor calls asyncio.to_thread.
BeginFile(j) ==
  /\ LoopIsFree
  /\ file[j] = "queued"
  /\ Cardinality(Parsing) < FileWorkers
  /\ SetFile(j, "parsing")
  /\ OpenDocument(j)
  /\ UNCHANGED projectionVars

\* perceive_document returns, with a failure when the extraction raised, and
\* write_outputs starts to build the projections of its result.
ExtractionReturns(j) ==
  /\ LoopIsFree
  /\ file[j] = "parsing"
  /\ place[j] = "ended"
  /\ Projecting!StartBuild(j)
  /\ SetFile(j, IF build'[j] = "failed" THEN "failed" ELSE "projecting")
  /\ UNCHANGED pagingVars

\* wait_for gives up; the thread does not notice.
TimeOutFile(j) ==
  /\ LoopIsFree
  /\ file[j] = "parsing"
  /\ SetFile(j, "failed")
  /\ UNCHANGED <<pagingVars, projectionVars>>

\* The rest of write_outputs: files for the payloads and the manifest with
\* the reasons; or it raises.
Deliver(j) ==
  /\ file[j] = "projecting"
  /\ build[j] = "built"
  /\ \E next \in {"delivered", "failed"} : SetFile(j, next)
  /\ UNCHANGED <<pagingVars, projectionVars>>

ThreadsStep ==
  /\ \/ Reconfigure
     \/ \E j \in Jobs : ThreadStep(j) \/ ChunkEnds(j)
  /\ UNCHANGED <<projectionVars, file>>

ProjectorsStep(j) ==
  /\ Projecting!Caller(j) \/ \E e \in Editions : Projecting!ProjectorEnds(j, e)
  /\ UNCHANGED <<pagingVars, file>>

LoopStep(j) == BeginFile(j) \/ ExtractionReturns(j) \/ Deliver(j)

\* Every document is delivered or failed and every thread has ended.
Finished ==
  /\ \A j \in Jobs :
       /\ file[j] \in {"delivered", "failed"}
       /\ place[j] = "ended"
       /\ \A e \in Editions : projector[j][e] # "running"
  /\ UNCHANGED vars

Next ==
  \/ \E j \in Jobs : LoopStep(j) \/ TimeOutFile(j) \/ ProjectorsStep(j)
  \/ ThreadsStep
  \/ Finished

Spec == Init /\ [][Next]_vars

\* The event loop runs what is ready, a deadline passes, and the threads that
\* read pages end.  No projector has to end.
Fairness ==
  \A j \in Jobs :
    /\ WF_vars(LoopStep(j))
    /\ WF_vars(Projecting!Caller(j) /\ UNCHANGED <<pagingVars, file>>)
    /\ WF_vars(ThreadStep(j) /\ UNCHANGED <<projectionVars, file>>)
    /\ WF_vars(ChunkEnds(j) /\ UNCHANGED <<projectionVars, file>>)

FairSpec == Spec /\ Fairness
-----------------------------------------------------------------------------
\* The types of the variables.
TypeOK ==
  /\ PagingTypeOK
  /\ Projecting!ProjectionsTypeOK
  /\ file \in [Jobs -> {"queued", "parsing", "projecting", "delivered", "failed"}]

\* What is delivered is whole: its extraction has ended, with all the pages
\* unless it raised, its slots are back, and every edition has a payload or
\* a reason that is true.
DeliveredIsWhole ==
  /\ Projecting!EditionsAnswered
  /\ \A j \in Jobs :
       /\ file[j] = "delivered" => build[j] = "built"
       /\ file[j] \in {"projecting", "delivered"} =>
            /\ held[j] = {}
            /\ \/ outcome[j] = "complete" /\ Len(emitted[j]) = pages[j]
               \/ outcome[j] = "raised"

\* Every document is delivered or failed although a projector may hang, and
\* every thread that extracts pages ends, also of a document that was given
\* up, however few slots there are.
ParseEnds ==
  \A j \in Jobs : <>(file[j] \in {"delivered", "failed"} /\ place[j] = "ended")
=============================================================================
