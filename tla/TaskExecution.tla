---------------------------- MODULE TaskExecution -----------------------------
(***************************************************************************)
(* src/docmirror/server/task_executor.py: one worker process parses the    *)
(* documents of one task and keeps the task's manifest.json, the only      *)
(* thing the API and its clients read, while parser threads report         *)
(* progress into the same file and the process may be killed at any point. *)
(*                                                                         *)
(* The coroutines process_one run on one event loop and suspend only while *)
(* they wait for the file semaphore and for perceive_document; from there  *)
(* to the end of process_one the loop belongs to one document, whose       *)
(* write_outputs is cut into the steps between which the process may die.  *)
(* A parser thread calls on_signal at any time; the reporter's lock makes  *)
(* it wait for other reporters, but between its reading the manifest and   *)
(* its writing it back the event loop goes on.  Every write of a file is   *)
(* one step: the ledger and the artifact writer write beside the target    *)
(* and rename.                                                             *)
(*                                                                         *)
(* An operator X_Slip next to X is X with a plausible slip of the code: it *)
(* takes no part in the specification and serves to confirm that the       *)
(* properties below notice such a slip.                                    *)
(***************************************************************************)
EXTENDS Naturals, FiniteSets

CONSTANTS Files,        \* the documents of the task
          FileWorkers,  \* budget.file_workers: documents parsed at a time
          Full          \* 100 percent, in steps coarse enough to enumerate

ASSUME TaskAssumption == /\ IsFiniteSet(Files) /\ Files # {}
                         /\ FileWorkers \in Nat \ {0}
                         /\ Full \in Nat \ {0}

VARIABLES
  worker,      \* the worker process: starting, running, done, dead
  stage,       \* where process_one stands for each document
  entry,       \* the status in each document's input entry, in memory
  report,      \* _TaskProgressReporter._files: status and pipeline percent
  threads,     \* documents whose parser thread is alive
  publishing,  \* the parser thread inside _publish_locked; it holds the lock
  seen,        \* the manifest this thread has read
  manifest,    \* manifest.json of the task, on disk
  stored,      \* documents whose artifacts are on disk
  uploads      \* documents whose uploaded file is on disk

memory == <<stage, entry, report, threads, publishing, seen>>
vars == <<worker, memory, manifest, stored, uploads>>

Terminal == {"success", "partial", "failed"}  \* _TERMINAL_STATUSES
ResultStatus == {"success", "partial", "failure"}
DocumentReports == [status : {"running", "success", "failed"}, percent : 0..Full]

\* What a manifest that does not have the key shows for it.
Missing == <<>>

\* A batch gives every document a directory of its own; a single document
\* shares the task's.
Batch == \E f, g \in Files : f # g
-----------------------------------------------------------------------------
(* initialize_task_manifest, called by the API when it accepts the task. *)
NothingParsed == [f \in Files |-> [status |-> "running", percent |-> 0]]

Accepted ==
  [status |-> "running", stage |-> "queued", progress |-> NothingParsed,
   inputs |-> [f \in Files |-> "queued"], artifacts |-> {}, errors |-> {}]

Init ==
  /\ worker = "starting"
  /\ stage = [f \in Files |-> "queued"]
  /\ entry = [f \in Files |-> "queued"]
  /\ report = NothingParsed
  /\ threads = {}
  /\ publishing = {}
  /\ seen = Accepted
  /\ manifest = Accepted
  /\ stored = {}
  /\ uploads = Files

\* The prologue of execute_parse_task, up to asyncio.gather.
ExecuteParseTask ==
  /\ worker = "starting"
  /\ manifest.status \notin Terminal
  /\ uploads = Files
  /\ worker' = "running"
  /\ entry' = [f \in Files |-> "running"]
  /\ manifest' = [manifest EXCEPT !.stage = "parsing", !.progress = NothingParsed]
  /\ UNCHANGED <<stage, report, threads, publishing, seen, stored, uploads>>

(* ------------------------------ reporter ------------------------------- *)
\* _publish_locked, once it has read the manifest m: a terminal manifest is
\* left alone, and a read or a write that fails is logged and forgotten.
PublishInto(m, states) ==
  \/ UNCHANGED manifest
  \/ /\ m.status \notin Terminal
     /\ manifest' = [m EXCEPT !.progress = states]

\* The reporter's lock is free.
Unlocked == publishing = {}

\* Slip: whatever the signal says is taken over.
Signalled_Backwards(f, percent) ==
  [report EXCEPT ![f].percent = percent]

\* Slip: the signal is taken for an increment.
Signalled_Adds(f, percent) ==
  [report EXCEPT ![f].percent = @ + percent]

\* The percentage never goes back, and 100 is kept for finished documents.
Signalled(f, percent) ==
  [report EXCEPT ![f].percent = IF percent > @ THEN percent ELSE @]

\* Slip: the status of the document is not looked at.
CountsSignals_Always(f) == TRUE

\* A document that is finished takes no more signals.
CountsSignals(f) == report[f].status = "running"

\* on_signal on a parser thread: the signal is recorded; the aggregate is
\* published unless the interval since the last write is too short.
Signal(f, percent) ==
  /\ f \in threads
  /\ Unlocked
  /\ CountsSignals(f)
  /\ report' = Signalled(f, percent)
  /\ \/ publishing' = {f} /\ seen' = manifest
     \/ UNCHANGED <<publishing, seen>>
  /\ UNCHANGED <<worker, stage, entry, threads, manifest, stored, uploads>>

\* Slip: the lock is not dropped.
PublishProgress_KeepsLock(f) ==
  /\ f \in publishing
  /\ PublishInto(seen, report)
  /\ UNCHANGED <<worker, stage, entry, report, threads, publishing, seen, stored, uploads>>

\* The same thread writes the manifest it read and drops the lock.
PublishProgress(f) ==
  /\ f \in publishing
  /\ PublishInto(seen, report)
  /\ publishing' = {}
  /\ UNCHANGED <<worker, stage, entry, report, threads, seen, stored, uploads>>

(* ----------------------------- process_one ----------------------------- *)
Parsing == {f \in Files : stage[f] = "parsing"}

Goto(f, place) == stage' = [stage EXCEPT ![f] = place]

\* Between the end of its parse and the end of process_one a document does
\* not give the event loop away.
Writing == {"parsed", "stored", "listed"}
LoopIsFree == worker = "running" /\ \A f \in Files : stage[f] \notin Writing

\* The document gets the file semaphore; the first signal of a new phase is
\* always published.
StartParse(f) ==
  /\ LoopIsFree
  /\ stage[f] = "queued"
  /\ Cardinality(Parsing) < FileWorkers
  /\ Unlocked
  /\ Goto(f, "parsing")
  /\ threads' = threads \cup {f}
  /\ PublishInto(manifest, report)
  /\ UNCHANGED <<worker, entry, report, publishing, seen, stored, uploads>>

\* perceive_document returns; it has awaited its thread.
Parsed(f) ==
  /\ LoopIsFree
  /\ stage[f] = "parsing"
  /\ f \notin publishing
  /\ threads' = threads \ {f}
  /\ Goto(f, "parsed")
  /\ UNCHANGED <<worker, entry, report, publishing, seen, manifest, stored, uploads>>

\* build_all_projections signals its phases from the event loop.
ProjectionSignal(f, percent) ==
  /\ worker = "running"
  /\ stage[f] = "parsed"
  /\ Unlocked
  /\ CountsSignals(f)
  /\ report' = Signalled(f, percent)
  /\ PublishInto(manifest, report')
  /\ UNCHANGED <<worker, stage, entry, threads, publishing, seen, stored, uploads>>

\* write_outputs writes the artifacts of the document.
StoreArtifacts(f) ==
  /\ worker = "running"
  /\ stage[f] = "parsed"
  /\ stored' = stored \cup {f}
  /\ Goto(f, "stored")
  /\ UNCHANGED <<worker, entry, report, threads, publishing, seen, manifest, uploads>>

\* The manifest of write_outputs: the status of the parse result, and none
\* of the keys a task manifest has beside the artifacts.
OutputsManifest(f, status) ==
  [status |-> status, stage |-> "", progress |-> Missing, inputs |-> Missing,
   artifacts |-> {f}, errors |-> {}]

\* Slip: the manifest is written before the artifacts.
ListArtifacts_First(f) ==
  /\ worker = "running"
  /\ stage[f] = "parsed"
  /\ Goto(f, "listed")
  /\ IF Batch
     THEN UNCHANGED manifest
     ELSE \E status \in ResultStatus : manifest' = OutputsManifest(f, status)
  /\ UNCHANGED <<worker, entry, report, threads, publishing, seen, stored, uploads>>

\* write_outputs writes manifest.json into the document's directory, which
\* is the task's when the document is alone.
ListArtifacts(f) ==
  /\ worker = "running"
  /\ stage[f] = "stored"
  /\ Goto(f, "listed")
  /\ IF Batch
     THEN UNCHANGED manifest
     ELSE \E status \in ResultStatus : manifest' = OutputsManifest(f, status)
  /\ UNCHANGED <<worker, entry, report, threads, publishing, seen, stored, uploads>>

\* _cleanup_managed_input: an upload that cannot be removed stays.
RemoveUpload(f) == uploads' \in {uploads, uploads \ {f}}

\* Slip: finish() does not take the lock.
Finish_NoLock(f, status) ==
  /\ Goto(f, "finished")
  /\ entry' = [entry EXCEPT ![f] = status]
  /\ report' = [report EXCEPT ![f] = [status |-> status, percent |-> Full]]
  /\ PublishInto(manifest, report')
  /\ RemoveUpload(f)
  /\ UNCHANGED <<worker, publishing, seen, stored>>

\* The end of process_one: the input entry, reporter.finish, which publishes
\* at once, and the removal of the uploaded file.
Finish(f, status) ==
  /\ Unlocked
  /\ Goto(f, "finished")
  /\ entry' = [entry EXCEPT ![f] = status]
  /\ report' = [report EXCEPT ![f] = [status |-> status, percent |-> Full]]
  /\ PublishInto(manifest, report')
  /\ RemoveUpload(f)
  /\ UNCHANGED <<worker, publishing, seen, stored>>

Succeed(f) ==
  /\ worker = "running"
  /\ stage[f] = "listed"
  /\ Finish(f, "success")
  /\ UNCHANGED threads

\* perceive_document raises.
ParseFails(f) ==
  /\ LoopIsFree
  /\ stage[f] = "parsing"
  /\ Finish(f, "failed")
  /\ threads' = threads \ {f}

\* asyncio.wait_for gives up on the parse: its coroutine is cancelled, its
\* thread cannot be.
TimeOut(f) ==
  /\ LoopIsFree
  /\ stage[f] = "parsing"
  /\ Finish(f, "failed")
  /\ UNCHANGED threads

\* Projections, a write, the integrity check or the quality summary raise.
OutputFails(f) ==
  /\ worker = "running"
  /\ stage[f] \in Writing
  /\ Finish(f, "failed")
  /\ UNCHANGED threads

(* --------------------------- final manifest ---------------------------- *)
Succeeded == {f \in Files : entry[f] = "success"}

AggregateStatus ==
  IF Succeeded = {} THEN "failed" ELSE IF Succeeded = Files THEN "success" ELSE "partial"

\* Slip: the artifacts of every document are listed.
FinalManifest_ListsAll ==
  [status |-> AggregateStatus,
   stage |-> "completed",
   progress |-> [f \in Files |-> [status |-> entry[f], percent |-> Full]],
   inputs |-> entry,
   artifacts |-> Files,
   errors |-> Files \ Succeeded]

FinalManifest ==
  [status |-> AggregateStatus,
   stage |-> "completed",
   progress |-> [f \in Files |-> [status |-> entry[f], percent |-> Full]],
   inputs |-> entry,
   artifacts |-> Succeeded,
   errors |-> Files \ Succeeded]

\* asyncio.gather has every outcome; execute_parse_task writes and returns.
PublishFinal ==
  /\ worker = "running"
  /\ \A f \in Files : stage[f] = "finished"
  /\ manifest' = FinalManifest
  /\ worker' = "done"
  /\ UNCHANGED <<memory, stored, uploads>>

(* -------------------------------- world -------------------------------- *)
\* The process is killed, or an exception outside process_one ends it.
Die ==
  /\ worker \in {"starting", "running"}
  /\ worker' = "dead"
  /\ threads' = {}
  /\ publishing' = {}
  /\ UNCHANGED <<stage, entry, report, seen, manifest, stored, uploads>>

\* Nothing is left to do.
Ended ==
  /\ worker \in {"done", "dead"}
  /\ UNCHANGED vars

Percents == 0..(Full - 1)

DocumentStep(f) ==
  \/ StartParse(f)
  \/ Parsed(f)
  \/ StoreArtifacts(f)
  \/ ListArtifacts(f)
  \/ Succeed(f)
  \/ ParseFails(f)
  \/ TimeOut(f)
  \/ OutputFails(f)

Next ==
  \/ ExecuteParseTask
  \/ \E f \in Files :
       \/ DocumentStep(f)
       \/ PublishProgress(f)
       \/ \E percent \in Percents : Signal(f, percent) \/ ProjectionSignal(f, percent)
  \/ PublishFinal
  \/ Die
  \/ Ended

Spec == Init /\ [][Next]_vars

(* Fairness.  The event loop runs what is ready, and asyncio.wait_for ends *)
(* a parse that does not end by itself.  Strong fairness where a step      *)
(* takes the reporter's lock: a parser thread holds it only while it       *)
(* writes one file, and however often it signals, the others get their     *)
(* turn.  Nobody has to signal, and the process does not have to die.      *)
EndParse(f) == Parsed(f) \/ ParseFails(f) \/ TimeOut(f)
WriteOutputs(f) == StoreArtifacts(f) \/ ListArtifacts(f) \/ Succeed(f) \/ OutputFails(f)

\* Nothing is assumed about whose turn it is: every document takes each of
\* these steps once.
Fairness ==
  /\ WF_vars(ExecuteParseTask)
  /\ SF_vars(\E f \in Files : StartParse(f))
  /\ SF_vars(\E f \in Files : EndParse(f))
  /\ SF_vars(\E f \in Files : WriteOutputs(f))
  /\ WF_vars(\E f \in Files : PublishProgress(f))
  /\ WF_vars(PublishFinal)

FairSpec == Spec /\ Fairness
-----------------------------------------------------------------------------
Manifests ==
  [status : {"running"} \cup Terminal \cup ResultStatus,
   stage : {"queued", "parsing", "completed", ""},
   progress : [Files -> DocumentReports] \cup {Missing},
   inputs : [Files -> {"queued", "success", "failed"}] \cup {Missing},
   artifacts : SUBSET Files,
   errors : SUBSET Files]

\* Type invariant.
ExecTypeOK ==
  /\ worker \in {"starting", "running", "done", "dead"}
  /\ stage \in [Files -> {"queued", "parsing", "finished"} \cup Writing]
  /\ entry \in [Files -> {"queued", "running", "success", "failed"}]
  /\ report \in [Files -> DocumentReports]
  /\ threads \subseteq Files
  /\ publishing \subseteq Files
  /\ seen \in Manifests
  /\ manifest \in Manifests
  /\ stored \subseteq Files
  /\ uploads \subseteq Files

\* While a parser thread is between reading and writing the manifest, nobody
\* else changes it, so no update is lost.  The event loop's own writes,
\* write_outputs and the final manifest, do not take the reporter's lock.
NoLostUpdate == publishing # {} => seen = manifest

\* Once execute_parse_task has returned, manifest.json is what it wrote last:
\* no thread of a parse that was given up writes progress over it.
FinalManifestStays == worker = "done" => manifest = FinalManifest

\* Whenever the process dies, every artifact the manifest lists is on disk.
ListedAreStored == manifest.artifacts \subseteq stored

\* States of the documents that take nothing back of earlier ones: neither a
\* percentage nor a document's being finished.
Extend(later, earlier) ==
  \A f \in Files :
    /\ later[f].percent >= earlier[f].percent
    /\ earlier[f].status = "running" \/ later[f].status = earlier[f].status

\* Progress that was shown is never taken back.  The reporter takes back
\* nothing it has recorded, and a report that is newly shown has all of it,
\* so that it extends every report shown before, also when write_outputs has
\* replaced the manifest by one without progress in between.
ProgressNeverGoesBack ==
  [][/\ Extend(report', report)
     /\ manifest.progress # Missing => Extend(report, manifest.progress)
     /\ manifest'.progress \notin {Missing, manifest.progress} =>
          Extend(manifest'.progress, report')]_vars

\* A batch shows its reader what TaskReport promises: progress that only
\* moves forward and one status, decided once, together with the last report.
Reader == INSTANCE TaskReport WITH
  status <- manifest.status,
  shown <- manifest.progress,
  over <- worker \in {"done", "dead"}

ImplementsTaskReport == Reader!RSpec

\* Seen from outside, the process is the ParseWorker TaskLifecycle relies on:
\* its status changes only while it works, and never after it has returned.
Worker == INSTANCE ParseWorker WITH
  Alone <- ~Batch,
  status <- manifest.status,
  phase <- CASE worker = "done" -> "finished" [] worker = "dead" -> "dead" [] OTHER -> "working"

ImplementsParseWorker == Worker!WSpec

\* A task whose worker is not killed gets its final manifest: nobody waits
\* for ever on the reporter's lock, on the semaphore or on another document.
TaskEnds == (worker = "starting") ~> (worker \in {"done", "dead"})

\* What tests/e2e/test_task_api_contract.py asserts of a client that polls
\* until the status is no longer "running": the progress is then 100.
FullWhenNotRunning ==
  manifest.status # "running" =>
    /\ manifest.progress # Missing
    /\ \A f \in Files : manifest.progress[f].percent = Full

-----------------------------------------------------------------------------
(* The inductive invariant: the properties above follow from where the     *)
(* documents stand.                                                        *)

\* A document is finished for the reporter and in its input entry at the same
\* time, and its upload is not removed before.
FinishedTogether ==
  \A f \in Files :
    /\ stage[f] = "finished" <=> report[f].status # "running"
    /\ stage[f] = "finished" => entry[f] = report[f].status /\ report[f].percent = Full
    /\ stage[f] # "finished" => f \in uploads

\* A parser thread can be in the reporter only while its document is parsed:
\* a parse that ends waits for the thread or for the lock.
PublishersParse ==
  /\ publishing \subseteq threads
  /\ worker = "dead" => threads = {}
  /\ \A f \in publishing : stage[f] = "parsing"
  /\ \A f \in threads : stage[f] \in {"parsing", "finished"}

\* Before execute_parse_task runs nothing has begun; after it has returned
\* everything has ended.
PhasesInOrder ==
  /\ worker = "starting" => /\ \A f \in Files : stage[f] = "queued" /\ report[f].percent = 0
                            /\ manifest = Accepted
  /\ worker = "done" => \A f \in Files : stage[f] = "finished"
  /\ Batch /\ worker # "done" => manifest.status = "running" /\ manifest.progress # Missing

\* What is listed, or about to be, is stored.
StoredFirst ==
  /\ manifest.artifacts \subseteq stored
  /\ \A f \in Files : stage[f] \in {"stored", "listed"} \/ entry[f] = "success" => f \in stored

\* The manifest never shows more than the reporter has recorded.
ShownIsRecorded ==
  manifest.progress # Missing =>
    \A f \in Files :
      /\ manifest.progress[f].percent <= report[f].percent
      /\ manifest.progress[f].status \in {"running", report[f].status}

ExecInv ==
  /\ ExecTypeOK
  /\ NoLostUpdate
  /\ FinalManifestStays
  /\ FinishedTogether
  /\ PublishersParse
  /\ PhasesInOrder
  /\ StoredFirst
  /\ ShownIsRecorded
=============================================================================
