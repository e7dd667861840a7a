------------------------ MODULE TaskExecution_proofs --------------------------
(***************************************************************************)
(* Proofs about TaskExecution for every set of documents, every number of  *)
(* file workers and every resolution of the percentage.                    *)
(***************************************************************************)
EXTENDS TaskExecution, TLAPS

(* ------------------------------ manifests ------------------------------ *)
\* A report is a function on the documents, of which there is at least one.
LEMMA NotMissing == \A states \in [Files -> DocumentReports] : states # Missing
<1> SUFFICES ASSUME NEW states \in [Files -> DocumentReports], states = Missing
             PROVE FALSE
  OBVIOUS
<1>1. DOMAIN states = Files
  OBVIOUS
<1>2. DOMAIN Missing = {}
  BY DEF Missing
<1> QED
  BY <1>1, <1>2, TaskAssumption

\* Whatever becomes of the write, publishing changes a manifest's progress at
\* most.
LEMMA ProgressOnly ==
  ASSUME manifest \in Manifests, NEW states \in [Files -> DocumentReports],
         PublishInto(manifest, states)
  PROVE /\ manifest' \in Manifests
        /\ manifest'.status = manifest.status
        /\ manifest'.artifacts = manifest.artifacts
        /\ manifest'.progress \in {manifest.progress, states}
BY DEF PublishInto, Manifests

LEMMA AcceptedIsManifest == Accepted \in Manifests
<1>1. NothingParsed \in [Files -> DocumentReports]
  BY TaskAssumption DEF NothingParsed, DocumentReports
<1> QED
  BY <1>1 DEF Accepted, Manifests

(* ------------------------------- invariant ----------------------------- *)
\* The invariant holds when the API has accepted the task.
LEMMA InitCorrect == Init => ExecInv
<1> SUFFICES ASSUME Init PROVE ExecInv
  OBVIOUS
<1> USE DEF Init
<1>1. NothingParsed \in [Files -> DocumentReports]
  BY TaskAssumption DEF NothingParsed, DocumentReports
<1>2. ExecTypeOK
  BY <1>1, AcceptedIsManifest DEF ExecTypeOK
<1>3. NoLostUpdate /\ FinalManifestStays
  BY DEF NoLostUpdate, FinalManifestStays
<1>4. FinishedTogether
  BY DEF FinishedTogether, NothingParsed
<1>5. PublishersParse
  BY DEF PublishersParse
<1>6. PhasesInOrder
  BY <1>1, NotMissing DEF PhasesInOrder, Accepted, NothingParsed
<1>7. StoredFirst
  BY DEF StoredFirst, Accepted
<1>8. ShownIsRecorded
  BY TaskAssumption DEF ShownIsRecorded, Accepted, NothingParsed
<1> QED
  BY <1>2, <1>3, <1>4, <1>5, <1>6, <1>7, <1>8 DEF ExecInv

\* The prologue of execute_parse_task.
LEMMA PrologueStep == ExecInv /\ ExecuteParseTask => ExecInv'
<1> SUFFICES ASSUME ExecInv, ExecuteParseTask PROVE ExecInv'
  OBVIOUS
<1> USE DEF ExecuteParseTask
<1>0. NothingParsed \in [Files -> DocumentReports]
  BY TaskAssumption DEF NothingParsed, DocumentReports
<1>1. /\ manifest = Accepted
      /\ \A f \in Files : stage[f] = "queued" /\ report[f].percent = 0
      /\ publishing = {}
  BY DEF ExecInv, ExecTypeOK, PhasesInOrder, PublishersParse
<1>2. /\ manifest' \in Manifests
      /\ manifest'.status = "running"
      /\ manifest'.progress = NothingParsed
      /\ manifest'.artifacts = {}
  BY <1>0, <1>1, AcceptedIsManifest DEF Accepted, Manifests
<1>3. ExecTypeOK'
  BY <1>2 DEF ExecInv, ExecTypeOK
<1>4. NoLostUpdate' /\ FinalManifestStays'
  BY <1>1 DEF NoLostUpdate, FinalManifestStays
<1>5. FinishedTogether'
  BY <1>1 DEF ExecInv, FinishedTogether
<1>6. PublishersParse'
  BY DEF ExecInv, PublishersParse
<1>7. PhasesInOrder'
  BY <1>0, <1>2, NotMissing DEF PhasesInOrder
<1>8. StoredFirst'
  BY <1>1, <1>2 DEF StoredFirst, ExecInv, ExecTypeOK
<1>9. ShownIsRecorded'
  BY <1>1, <1>2 DEF ShownIsRecorded, NothingParsed
<1> QED
  BY <1>3, <1>4, <1>5, <1>6, <1>7, <1>8, <1>9 DEF ExecInv

\* A signal is recorded: only one percentage of an unfinished document grows.
LEMMA SignalRecorded ==
  ASSUME ExecInv, NEW f \in Files, NEW percent \in Percents,
         report' = Signalled(f, percent)
  PROVE  /\ report' \in [Files -> DocumentReports]
         /\ report'[f].status = report[f].status
         /\ report'[f].percent \in 0..Full
         /\ report'[f].percent >= report[f].percent
         /\ \A g \in Files \ {f} : report'[g] = report[g]
<1>1. report[f] \in DocumentReports
  BY DEF ExecInv, ExecTypeOK
<1>2. CASE percent > report[f].percent
  <2>1. report' = [report EXCEPT ![f].percent = percent]
    BY <1>2 DEF Signalled
  <2> QED
    BY <1>1, <1>2, <2>1, TaskAssumption DEF Percents, DocumentReports, ExecInv, ExecTypeOK
<1>3. CASE ~(percent > report[f].percent)
  <2>1. report' = [report EXCEPT ![f].percent = report[f].percent]
    BY <1>3 DEF Signalled
  <2> QED
    BY <1>1, <2>1, TaskAssumption DEF DocumentReports, ExecInv, ExecTypeOK
<1> QED
  BY <1>2, <1>3

\* on_signal on a parser thread.
LEMMA SignalStep ==
  ASSUME ExecInv, NEW f \in Files, NEW percent \in Percents, Signal(f, percent)
  PROVE  ExecInv'
<1> USE DEF Signal, CountsSignals
<1>0. /\ ExecTypeOK
      /\ report' \in [Files -> DocumentReports]
      /\ \A g \in Files : report'[g].status = report[g].status /\ report'[g].percent >= report[g].percent
      /\ \A g \in Files \ {f} : report'[g] = report[g]
  BY SignalRecorded DEF ExecInv, ExecTypeOK, DocumentReports
<1>1. stage[f] = "parsing"
  BY DEF ExecInv, PublishersParse, FinishedTogether
<1>2. ExecTypeOK'
  BY <1>0 DEF ExecTypeOK
<1>3. NoLostUpdate' /\ FinalManifestStays'
  BY DEF ExecInv, NoLostUpdate, FinalManifestStays, Unlocked, FinalManifest, AggregateStatus, Succeeded
<1>4. FinishedTogether'
  BY <1>0, <1>1 DEF ExecInv, FinishedTogether
<1>5. PublishersParse'
  BY <1>1 DEF ExecInv, PublishersParse, Unlocked
<1>6. PhasesInOrder'
  BY <1>1 DEF ExecInv, PhasesInOrder
<1>7. StoredFirst'
  BY DEF ExecInv, StoredFirst
<1>8. ShownIsRecorded'
  <2> SUFFICES ASSUME manifest.progress # Missing, NEW g \in Files
               PROVE /\ manifest.progress[g].percent <= report'[g].percent
                     /\ manifest.progress[g].status \in {"running", report'[g].status}
    BY DEF ShownIsRecorded
  <2>1. manifest.progress \in [Files -> DocumentReports]
    BY <1>0 DEF ExecTypeOK, Manifests
  <2>2. /\ manifest.progress[g].percent \in 0..Full
        /\ report[g].percent \in 0..Full
        /\ report'[g].percent \in 0..Full
    BY <1>0, <2>1 DEF ExecTypeOK, DocumentReports
  <2> QED
    BY <1>0, <2>2, TaskAssumption DEF ExecInv, ShownIsRecorded
<1> QED
  BY <1>2, <1>3, <1>4, <1>5, <1>6, <1>7, <1>8 DEF ExecInv

\* Publishing the report into an unfinished task's manifest keeps what the
\* invariant says about manifests.
LEMMA Published ==
  ASSUME ExecInv, worker = "running", UNCHANGED worker,
         report' \in [Files -> DocumentReports],
         PublishInto(manifest, report'),
         manifest.progress # Missing =>
           \A f \in Files :
             /\ report'[f].percent >= report[f].percent
             /\ report[f].status = "running" \/ report'[f].status = report[f].status
  PROVE  /\ manifest' \in Manifests
         /\ manifest'.artifacts = manifest.artifacts
         /\ Batch => manifest'.status = "running" /\ manifest'.progress # Missing
         /\ ShownIsRecorded'
<1>0. manifest \in Manifests /\ ExecTypeOK
  BY DEF ExecInv, ExecTypeOK
<1>1. /\ manifest' \in Manifests
      /\ manifest'.artifacts = manifest.artifacts
      /\ manifest'.status = manifest.status
      /\ manifest'.progress \in {manifest.progress, report'}
  BY <1>0, ProgressOnly
<1>2. Batch => manifest'.status = "running" /\ manifest'.progress # Missing
  <2>1. Batch => manifest.status = "running" /\ manifest.progress # Missing
    BY DEF ExecInv, PhasesInOrder
  <2> QED
    BY <1>1, <2>1, NotMissing
<1>3. CASE manifest'.progress = report'
  BY <1>1, <1>2, <1>3, TaskAssumption DEF ShownIsRecorded, DocumentReports
<1>4. ASSUME manifest'.progress = manifest.progress
      PROVE  ShownIsRecorded'
  <2> SUFFICES ASSUME manifest.progress # Missing, NEW f \in Files
               PROVE /\ manifest.progress[f].percent <= report'[f].percent
                     /\ manifest.progress[f].status \in {"running", report'[f].status}
    BY <1>1, <1>4 DEF ShownIsRecorded
  <2>1. manifest.progress \in [Files -> DocumentReports]
    BY <1>0 DEF Manifests
  <2>2. /\ manifest.progress[f].percent \in 0..Full
        /\ report[f].percent \in 0..Full
        /\ report'[f].percent \in 0..Full
    BY <1>0, <2>1 DEF ExecTypeOK, DocumentReports
  <2>3. /\ manifest.progress[f].percent <= report[f].percent
        /\ manifest.progress[f].status \in {"running", report[f].status}
    BY DEF ExecInv, ShownIsRecorded
  <2> QED
    BY <2>2, <2>3, TaskAssumption
<1> QED
  BY <1>1, <1>2, <1>3, <1>4

\* The parser thread writes the manifest it has read.
LEMMA PublishStep ==
  ASSUME ExecInv, NEW f \in Files, PublishProgress(f)
  PROVE  ExecInv'
<1> USE DEF PublishProgress
<1>0. /\ ExecTypeOK
      /\ stage[f] = "parsing"
      /\ seen = manifest
      /\ PublishInto(manifest, report')
  BY DEF ExecInv, PublishersParse, NoLostUpdate, PublishInto
<1>1. worker = "running"
  BY <1>0 DEF ExecInv, ExecTypeOK, PublishersParse, PhasesInOrder
<1>2. /\ manifest' \in Manifests
      /\ manifest'.artifacts = manifest.artifacts
      /\ Batch => manifest'.status = "running" /\ manifest'.progress # Missing
      /\ ShownIsRecorded'
  <2>1. /\ report' \in [Files -> DocumentReports]
        /\ \A g \in Files : report'[g].percent >= report[g].percent
    BY <1>0 DEF ExecTypeOK, DocumentReports
  <2> QED
    BY <1>0, <1>1, <2>1, Published
<1>3. ExecTypeOK'
  BY <1>0, <1>2 DEF ExecTypeOK
<1>4. NoLostUpdate' /\ FinalManifestStays'
  BY <1>1 DEF NoLostUpdate, FinalManifestStays
<1>5. FinishedTogether'
  BY DEF ExecInv, FinishedTogether
<1>6. PublishersParse'
  BY DEF ExecInv, PublishersParse
<1>7. PhasesInOrder'
  BY <1>1, <1>2 DEF PhasesInOrder
<1>8. StoredFirst'
  BY <1>2 DEF ExecInv, StoredFirst
<1> QED
  BY <1>2, <1>3, <1>4, <1>5, <1>6, <1>7, <1>8 DEF ExecInv

\* A document gets the file semaphore.
LEMMA StartParseStep ==
  ASSUME ExecInv, NEW f \in Files, StartParse(f)
  PROVE  ExecInv'
<1> USE DEF StartParse, Goto
<1>0. /\ ExecTypeOK
      /\ worker = "running"
      /\ publishing = {}
      /\ stage[f] = "queued"
  BY DEF ExecInv, LoopIsFree, Unlocked
<1>1. /\ manifest' \in Manifests
      /\ manifest'.artifacts = manifest.artifacts
      /\ Batch => manifest'.status = "running" /\ manifest'.progress # Missing
      /\ ShownIsRecorded'
  <2>1. /\ report' \in [Files -> DocumentReports]
        /\ PublishInto(manifest, report')
        /\ \A g \in Files : report'[g].percent >= report[g].percent
    BY <1>0 DEF ExecTypeOK, DocumentReports
  <2> QED
    BY <1>0, <2>1, Published
<1>2. stage'[f] = "parsing" /\ \A g \in Files \ {f} : stage'[g] = stage[g]
  BY <1>0 DEF ExecTypeOK
<1>3. ExecTypeOK'
  BY <1>0, <1>1 DEF ExecTypeOK
<1>4. NoLostUpdate' /\ FinalManifestStays'
  BY <1>0 DEF NoLostUpdate, FinalManifestStays
<1>5. FinishedTogether'
  BY <1>0, <1>2 DEF ExecInv, FinishedTogether
<1>6. PublishersParse'
  BY <1>0, <1>2 DEF ExecInv, ExecTypeOK, PublishersParse
<1>7. PhasesInOrder'
  BY <1>0, <1>1 DEF PhasesInOrder
<1>8. StoredFirst'
  BY <1>0, <1>1, <1>2 DEF ExecInv, StoredFirst
<1> QED
  BY <1>1, <1>3, <1>4, <1>5, <1>6, <1>7, <1>8 DEF ExecInv

\* perceive_document returns.
LEMMA ParsedStep ==
  ASSUME ExecInv, NEW f \in Files, Parsed(f)
  PROVE  ExecInv'
<1> USE DEF Parsed, Goto
<1>0. ExecTypeOK /\ worker = "running"
  BY DEF ExecInv, LoopIsFree
<1>1. stage'[f] = "parsed" /\ \A g \in Files \ {f} : stage'[g] = stage[g]
  BY <1>0 DEF ExecTypeOK
<1>2. ExecTypeOK'
  BY <1>0 DEF ExecTypeOK, Writing
<1>3. NoLostUpdate' /\ FinalManifestStays'
  BY <1>0 DEF ExecInv, NoLostUpdate, FinalManifestStays
<1>4. FinishedTogether'
  BY <1>1 DEF ExecInv, FinishedTogether
<1>5. PublishersParse'
  BY <1>0, <1>1 DEF ExecInv, ExecTypeOK, PublishersParse
<1>6. PhasesInOrder'
  BY <1>0 DEF ExecInv, PhasesInOrder
<1>7. StoredFirst'
  BY <1>1 DEF ExecInv, StoredFirst
<1>8. ShownIsRecorded'
  BY DEF ExecInv, ShownIsRecorded
<1> QED
  BY <1>2, <1>3, <1>4, <1>5, <1>6, <1>7, <1>8 DEF ExecInv

\* build_all_projections signals from the event loop.
LEMMA ProjectionStep ==
  ASSUME ExecInv, NEW f \in Files, NEW percent \in Percents, ProjectionSignal(f, percent)
  PROVE  ExecInv'
<1> USE DEF ProjectionSignal
<1>0. /\ ExecTypeOK
      /\ worker = "running"
      /\ publishing = {}
      /\ report' \in [Files -> DocumentReports]
      /\ \A g \in Files : report'[g].status = report[g].status /\ report'[g].percent >= report[g].percent
      /\ \A g \in Files \ {f} : report'[g] = report[g]
  BY SignalRecorded DEF ExecInv, ExecTypeOK, DocumentReports, Unlocked
<1>1. /\ manifest' \in Manifests
      /\ manifest'.artifacts = manifest.artifacts
      /\ Batch => manifest'.status = "running" /\ manifest'.progress # Missing
      /\ ShownIsRecorded'
  BY <1>0, Published
<1>2. stage[f] = "parsed"
  OBVIOUS
<1>3. ExecTypeOK'
  BY <1>0, <1>1 DEF ExecTypeOK
<1>4. NoLostUpdate' /\ FinalManifestStays'
  BY <1>0 DEF NoLostUpdate, FinalManifestStays
<1>5. FinishedTogether'
  BY <1>0, <1>2 DEF ExecInv, FinishedTogether
<1>6. PublishersParse'
  BY DEF ExecInv, PublishersParse
<1>7. PhasesInOrder'
  BY <1>0, <1>1 DEF PhasesInOrder
<1>8. StoredFirst'
  BY <1>1 DEF ExecInv, StoredFirst
<1> QED
  BY <1>1, <1>3, <1>4, <1>5, <1>6, <1>7, <1>8 DEF ExecInv

\* write_outputs writes the artifacts.
LEMMA StoreStep ==
  ASSUME ExecInv, NEW f \in Files, StoreArtifacts(f)
  PROVE  ExecInv'
<1> USE DEF StoreArtifacts, Goto
<1>0. ExecTypeOK
  BY DEF ExecInv
<1>1. stage'[f] = "stored" /\ \A g \in Files \ {f} : stage'[g] = stage[g]
  BY <1>0 DEF ExecTypeOK
<1>2. ExecTypeOK'
  BY <1>0 DEF ExecTypeOK, Writing
<1>3. NoLostUpdate' /\ FinalManifestStays'
  BY DEF ExecInv, NoLostUpdate, FinalManifestStays
<1>4. FinishedTogether'
  BY <1>1 DEF ExecInv, FinishedTogether
<1>5. PublishersParse'
  BY <1>0, <1>1 DEF ExecInv, ExecTypeOK, PublishersParse
<1>6. PhasesInOrder'
  BY DEF ExecInv, PhasesInOrder
<1>7. StoredFirst'
  BY <1>1 DEF ExecInv, StoredFirst
<1>8. ShownIsRecorded'
  BY DEF ExecInv, ShownIsRecorded
<1> QED
  BY <1>2, <1>3, <1>4, <1>5, <1>6, <1>7, <1>8 DEF ExecInv

\* write_outputs writes its manifest; alone in its directory, a document has
\* no other document's thread beside it.
LEMMA ListStep ==
  ASSUME ExecInv, NEW f \in Files, ListArtifacts(f)
  PROVE  ExecInv'
<1> USE DEF ListArtifacts, Goto
<1>0. /\ ExecTypeOK
      /\ f \in stored
  BY DEF ExecInv, StoredFirst
<1>1. stage'[f] = "listed" /\ \A g \in Files \ {f} : stage'[g] = stage[g]
  BY <1>0 DEF ExecTypeOK
<1>2. /\ manifest' \in Manifests
      /\ manifest'.artifacts \subseteq stored
      /\ publishing # {} => manifest' = manifest
      /\ Batch => manifest' = manifest
      /\ ShownIsRecorded'
  <2>1. CASE Batch
    BY <1>0, <2>1 DEF ExecInv, ExecTypeOK, StoredFirst, ShownIsRecorded
  <2>2. CASE ~Batch
    <3>1. PICK status \in ResultStatus : manifest' = OutputsManifest(f, status)
      BY <2>2
    <3>2. publishing = {}
      BY <1>0, <2>2 DEF ExecInv, ExecTypeOK, PublishersParse, Batch
    <3>3. /\ manifest' \in Manifests
          /\ manifest'.artifacts = {f}
          /\ manifest'.progress = Missing
      BY <3>1 DEF OutputsManifest, Manifests
    <3> QED
      BY <1>0, <2>2, <3>2, <3>3 DEF ShownIsRecorded
  <2> QED
    BY <2>1, <2>2
<1>3. ExecTypeOK'
  BY <1>0, <1>2 DEF ExecTypeOK, Writing
<1>4. NoLostUpdate' /\ FinalManifestStays'
  BY <1>2 DEF ExecInv, NoLostUpdate, FinalManifestStays
<1>5. FinishedTogether'
  BY <1>1 DEF ExecInv, FinishedTogether
<1>6. PublishersParse'
  BY <1>0, <1>1 DEF ExecInv, ExecTypeOK, PublishersParse
<1>7. PhasesInOrder'
  BY <1>2 DEF ExecInv, PhasesInOrder
<1>8. StoredFirst'
  BY <1>0, <1>1, <1>2 DEF ExecInv, StoredFirst
<1> QED
  BY <1>2, <1>3, <1>4, <1>5, <1>6, <1>7, <1>8 DEF ExecInv

\* The end of process_one, with whatever outcome.
LEMMA FinishStep ==
  ASSUME ExecInv, NEW f \in Files, NEW status \in {"success", "failed"},
         worker = "running", stage[f] # "finished", Finish(f, status),
         status = "success" => f \in stored,
         threads' \in {threads, threads \ {f}}
  PROVE  ExecInv'
<1> USE DEF Finish, Goto, Unlocked, RemoveUpload
<1>0. ExecTypeOK /\ publishing = {} /\ report[f].status = "running"
  BY DEF ExecInv, FinishedTogether
<1>1. /\ stage'[f] = "finished" /\ \A g \in Files \ {f} : stage'[g] = stage[g]
      /\ entry'[f] = status /\ \A g \in Files \ {f} : entry'[g] = entry[g]
  BY <1>0 DEF ExecTypeOK
<1>2. /\ report' \in [Files -> DocumentReports]
      /\ report'[f].status = status /\ report'[f].percent = Full
      /\ \A g \in Files \ {f} : report'[g] = report[g]
  BY <1>0, TaskAssumption DEF ExecTypeOK, DocumentReports
<1>3. /\ manifest' \in Manifests
      /\ manifest'.artifacts = manifest.artifacts
      /\ Batch => manifest'.status = "running" /\ manifest'.progress # Missing
      /\ ShownIsRecorded'
  <2>1. \A g \in Files : report'[g].percent >= report[g].percent
    BY <1>0, <1>2, TaskAssumption DEF ExecTypeOK, DocumentReports
  <2>2. \A g \in Files : report[g].status = "running" \/ report'[g].status = report[g].status
    BY <1>0, <1>2
  <2> QED
    BY <1>2, <2>1, <2>2, Published
<1>4. ExecTypeOK'
  BY <1>0, <1>2, <1>3 DEF ExecTypeOK
<1>5. NoLostUpdate' /\ FinalManifestStays'
  BY <1>0 DEF NoLostUpdate, FinalManifestStays
<1>6. FinishedTogether'
  BY <1>0, <1>1, <1>2 DEF ExecInv, FinishedTogether
<1>7. PublishersParse'
  BY <1>0, <1>1 DEF ExecInv, ExecTypeOK, PublishersParse
<1>8. PhasesInOrder'
  BY <1>3 DEF PhasesInOrder
<1>9. StoredFirst'
  BY <1>1, <1>3 DEF ExecInv, StoredFirst
<1> QED
  BY <1>3, <1>4, <1>5, <1>6, <1>7, <1>8, <1>9 DEF ExecInv

\* Every way a document can end.
LEMMA EndSteps ==
  ASSUME ExecInv, NEW f \in Files,
         Succeed(f) \/ ParseFails(f) \/ TimeOut(f) \/ OutputFails(f)
  PROVE  ExecInv'
<1>1. CASE Succeed(f)
  <2>1. f \in stored
    BY <1>1 DEF Succeed, ExecInv, StoredFirst
  <2> QED
    BY <1>1, <2>1, FinishStep DEF Succeed
<1>2. CASE ParseFails(f)
  BY <1>2, FinishStep DEF ParseFails, LoopIsFree
<1>3. CASE TimeOut(f)
  BY <1>3, FinishStep DEF TimeOut, LoopIsFree
<1>4. CASE OutputFails(f)
  BY <1>4, FinishStep DEF OutputFails, Writing
<1> QED
  BY <1>1, <1>2, <1>3, <1>4

\* The final manifest.
LEMMA FinalStep == ExecInv /\ PublishFinal => ExecInv'
<1> SUFFICES ASSUME ExecInv, PublishFinal PROVE ExecInv'
  OBVIOUS
<1> USE DEF PublishFinal, memory
<1>0. /\ ExecTypeOK
      /\ publishing = {}
      /\ \A f \in Files : /\ entry[f] \in {"success", "failed"}
                          /\ entry[f] = report[f].status /\ report[f].percent = Full
  BY DEF ExecInv, ExecTypeOK, PublishersParse, FinishedTogether, DocumentReports
<1>1. /\ manifest' \in Manifests
      /\ manifest'.artifacts = Succeeded
      /\ manifest'.progress = [f \in Files |-> [status |-> entry[f], percent |-> Full]]
  <2>1. [f \in Files |-> [status |-> entry[f], percent |-> Full]] \in [Files -> DocumentReports]
    BY <1>0, TaskAssumption DEF DocumentReports
  <2>2. entry \in [Files -> {"queued", "success", "failed"}]
    BY <1>0 DEF ExecTypeOK
  <2>3. AggregateStatus \in Terminal
    BY DEF AggregateStatus, Terminal
  <2> QED
    BY <2>1, <2>2, <2>3 DEF FinalManifest, Manifests, Succeeded
<1>2. ExecTypeOK'
  BY <1>0, <1>1 DEF ExecTypeOK
<1>3. NoLostUpdate'
  BY <1>0 DEF NoLostUpdate
<1>4. FinalManifestStays'
  BY DEF FinalManifestStays, FinalManifest, AggregateStatus, Succeeded
<1>5. FinishedTogether'
  BY DEF ExecInv, FinishedTogether
<1>6. PublishersParse'
  BY DEF ExecInv, PublishersParse
<1>7. PhasesInOrder'
  BY DEF PhasesInOrder
<1>8. StoredFirst'
  BY <1>1 DEF ExecInv, StoredFirst, Succeeded
<1>9. ShownIsRecorded'
  BY <1>0, <1>1, TaskAssumption DEF ShownIsRecorded
<1> QED
  BY <1>2, <1>3, <1>4, <1>5, <1>6, <1>7, <1>8, <1>9 DEF ExecInv

\* The death of the process takes its memory and leaves the disk.
LEMMA DeathStep == ExecInv /\ Die => ExecInv'
<1> SUFFICES ASSUME ExecInv, Die PROVE ExecInv'
  OBVIOUS
<1> USE DEF Die
<1>1. ExecTypeOK'
  BY DEF ExecInv, ExecTypeOK
<1>2. NoLostUpdate' /\ FinalManifestStays' /\ FinishedTogether' /\ StoredFirst' /\ ShownIsRecorded'
  BY DEF ExecInv, NoLostUpdate, FinalManifestStays, FinishedTogether, StoredFirst, ShownIsRecorded
<1>3. PublishersParse'
  BY DEF PublishersParse
<1>4. PhasesInOrder'
  BY DEF ExecInv, PhasesInOrder
<1> QED
  BY <1>1, <1>2, <1>3, <1>4 DEF ExecInv

LEMMA ExecStutter == ExecInv /\ UNCHANGED vars => ExecInv'
BY DEF vars, memory, ExecInv, ExecTypeOK, NoLostUpdate, FinalManifestStays, FinalManifest,
       AggregateStatus, Succeeded, FinishedTogether, PublishersParse, PhasesInOrder,
       StoredFirst, ShownIsRecorded

\* Every step keeps the invariant.
LEMMA NextCorrect == ExecInv /\ [Next]_vars => ExecInv'
<1> SUFFICES ASSUME ExecInv, [Next]_vars PROVE ExecInv'
  OBVIOUS
<1>1. CASE ExecuteParseTask
  BY <1>1, PrologueStep
<1>2. ASSUME NEW f \in Files, DocumentStep(f) PROVE ExecInv'
  BY <1>2, StartParseStep, ParsedStep, StoreStep, ListStep, EndSteps DEF DocumentStep
<1>3. ASSUME NEW f \in Files, PublishProgress(f) PROVE ExecInv'
  BY <1>3, PublishStep
<1>4. ASSUME NEW f \in Files, NEW percent \in Percents,
             Signal(f, percent) \/ ProjectionSignal(f, percent)
      PROVE  ExecInv'
  BY <1>4, SignalStep, ProjectionStep
<1>5. CASE PublishFinal
  BY <1>5, FinalStep
<1>6. CASE Die
  BY <1>6, DeathStep
<1>7. CASE Ended \/ UNCHANGED vars
  BY <1>7, ExecStutter DEF Ended
<1> QED
  BY <1>1, <1>2, <1>3, <1>4, <1>5, <1>6, <1>7 DEF Next

\* The invariant of a task's execution holds for every set of documents and
\* every number of file workers, wherever the process dies.
THEOREM ExecutionCorrect == Spec => []ExecInv
BY InitCorrect, NextCorrect, PTL DEF Spec

\* The variables of a task's execution have their types.
THEOREM ExecutionTypes == Spec => []ExecTypeOK
BY ExecutionCorrect, PTL DEF ExecInv

\* No thread of a parse that was given up writes over the final manifest.
THEOREM FinalManifestIsLast == Spec => []FinalManifestStays
BY ExecutionCorrect, PTL DEF ExecInv

\* No progress update and no manifest of the event loop gets lost.
THEOREM NothingLost == Spec => []NoLostUpdate
BY ExecutionCorrect, PTL DEF ExecInv

\* At every moment the process may die, what the manifest lists is on disk.
THEOREM ArtifactsBeforeManifest == Spec => []ListedAreStored
<1>1. ExecInv => ListedAreStored
  BY DEF ExecInv, StoredFirst, ListedAreStored
<1> QED
  BY <1>1, ExecutionCorrect, PTL

-----------------------------------------------------------------------------
(* ------------------------------ progress ------------------------------- *)
\* The reporter takes nothing back.
RecordedForward == Extend(report', report)

\* A manifest gets its progress from the reporter or not at all.
ShownFromRecord ==
  \/ manifest'.progress = manifest.progress
  \/ manifest'.progress = Missing
  \/ manifest'.progress = report'

LEMMA SameReport == ExecTypeOK /\ UNCHANGED report => RecordedForward
BY TaskAssumption DEF RecordedForward, Extend, ExecTypeOK, DocumentReports

LEMMA PublishShown ==
  ASSUME manifest \in Manifests, PublishInto(manifest, report')
  PROVE  ShownFromRecord
BY DEF PublishInto, ShownFromRecord, Manifests

\* Every step moves both records forward only.
LEMMA StepForward == ExecInv /\ [Next]_vars => RecordedForward /\ ShownFromRecord
<1> SUFFICES ASSUME ExecInv, [Next]_vars PROVE RecordedForward /\ ShownFromRecord
  OBVIOUS
<1>0. ExecTypeOK /\ manifest \in Manifests /\ seen \in Manifests
  BY DEF ExecInv, ExecTypeOK
<1>1. CASE ExecuteParseTask
  <2>1. manifest = Accepted
    BY <1>1 DEF ExecuteParseTask, ExecInv, PhasesInOrder
  <2>2. manifest'.progress = manifest.progress
    BY <1>1, <2>1 DEF ExecuteParseTask, Accepted
  <2> QED
    BY <1>0, <1>1, <2>2, SameReport DEF ExecuteParseTask, ShownFromRecord
<1>2. ASSUME NEW f \in Files, StartParse(f)
      PROVE  RecordedForward /\ ShownFromRecord
  BY <1>0, <1>2, SameReport, PublishShown DEF StartParse
<1>3. ASSUME NEW f \in Files, Parsed(f) \/ StoreArtifacts(f)
      PROVE  RecordedForward /\ ShownFromRecord
  BY <1>0, <1>3, SameReport DEF Parsed, StoreArtifacts, ShownFromRecord
<1>4. ASSUME NEW f \in Files, ListArtifacts(f)
      PROVE  RecordedForward /\ ShownFromRecord
  <2>1. manifest' = manifest \/ manifest'.progress = Missing
    <3>1. CASE Batch
      BY <1>4, <3>1 DEF ListArtifacts
    <3>2. CASE ~Batch
      <4>1. PICK status \in ResultStatus : manifest' = OutputsManifest(f, status)
        BY <1>4, <3>2 DEF ListArtifacts
      <4> QED
        BY <4>1 DEF OutputsManifest
    <3> QED
      BY <3>1, <3>2
  <2> QED
    BY <1>0, <1>4, <2>1, SameReport DEF ListArtifacts, ShownFromRecord
<1>5. ASSUME NEW f \in Files, NEW status \in {"success", "failed"},
             stage[f] # "finished", Finish(f, status)
      PROVE  RecordedForward /\ ShownFromRecord
  <2>1. report[f].status = "running" /\ report[f].percent \in 0..Full
    BY <1>0, <1>5 DEF ExecInv, FinishedTogether, ExecTypeOK, DocumentReports
  <2>2. /\ report'[f].percent = Full
        /\ \A g \in Files \ {f} : report'[g] = report[g]
        /\ \A g \in Files : report[g].percent \in 0..Full
    BY <1>0, <1>5 DEF Finish, ExecTypeOK, DocumentReports
  <2>3. RecordedForward
    BY <2>1, <2>2, TaskAssumption DEF RecordedForward, Extend
  <2> QED
    BY <1>0, <1>5, <2>3, PublishShown DEF Finish
<1>6. ASSUME NEW f \in Files, DocumentStep(f)
      PROVE  RecordedForward /\ ShownFromRecord
  BY <1>2, <1>3, <1>4, <1>5, <1>6
     DEF DocumentStep, Succeed, ParseFails, TimeOut, OutputFails, Writing
<1>7. ASSUME NEW f \in Files, PublishProgress(f)
      PROVE  RecordedForward /\ ShownFromRecord
  <2>1. seen = manifest
    BY <1>7 DEF PublishProgress, ExecInv, NoLostUpdate
  <2>2. PublishInto(manifest, report')
    BY <1>7, <2>1 DEF PublishProgress, PublishInto
  <2> QED
    BY <1>0, <1>7, <2>2, SameReport, PublishShown DEF PublishProgress
<1>8. ASSUME NEW f \in Files, NEW percent \in Percents,
             Signal(f, percent) \/ ProjectionSignal(f, percent)
      PROVE  RecordedForward /\ ShownFromRecord
  <2>1. report' = Signalled(f, percent)
    BY <1>8 DEF Signal, ProjectionSignal
  <2>2. /\ report'[f].status = report[f].status
        /\ report'[f].percent >= report[f].percent
        /\ \A g \in Files \ {f} : report'[g] = report[g]
        /\ \A g \in Files : report[g].percent \in 0..Full
    BY <1>0, <2>1, SignalRecorded DEF ExecTypeOK, DocumentReports
  <2>3. RecordedForward
    BY <2>2, TaskAssumption DEF RecordedForward, Extend
  <2>4. manifest' = manifest \/ PublishInto(manifest, report')
    BY <1>8 DEF Signal, ProjectionSignal
  <2> QED
    BY <1>0, <2>3, <2>4, PublishShown DEF ShownFromRecord
<1>9. CASE PublishFinal
  <2>1. \A f \in Files : report[f] = [status |-> entry[f], percent |-> Full]
    <3>1. \A f \in Files : report[f].status = entry[f] /\ report[f].percent = Full
      BY <1>9 DEF PublishFinal, ExecInv, FinishedTogether
    <3>2. \A f \in Files : report[f] = [status |-> report[f].status, percent |-> report[f].percent]
      BY <1>0 DEF ExecTypeOK, DocumentReports
    <3> QED
      BY <3>1, <3>2
  <2>2. manifest'.progress = report
    BY <1>0, <1>9, <2>1 DEF PublishFinal, FinalManifest, ExecTypeOK
  <2> QED
    BY <1>0, <1>9, <2>2, SameReport DEF PublishFinal, memory, ShownFromRecord
<1>10. CASE Die \/ Ended \/ UNCHANGED vars
  BY <1>0, <1>10, SameReport DEF Die, Ended, vars, memory, ShownFromRecord
<1> QED
  BY <1>1, <1>6, <1>7, <1>8, <1>9, <1>10 DEF Next

\* What a reader has seen of the progress stays true.
LEMMA ShownForward ==
  ASSUME ExecInv, ExecInv', [Next]_vars,
         manifest.progress # Missing, manifest'.progress # Missing, NEW f \in Files
  PROVE  /\ manifest'.progress[f].percent >= manifest.progress[f].percent
         /\ \/ manifest.progress[f].status = "running"
            \/ manifest'.progress[f].status = manifest.progress[f].status
<1>1. RecordedForward /\ ShownFromRecord
  BY StepForward
<1>2. /\ manifest.progress[f].percent \in 0..Full
      /\ report[f].percent \in 0..Full
      /\ report'[f].percent \in 0..Full
  BY DEF ExecInv, ExecTypeOK, Manifests, DocumentReports
<1>3. /\ manifest.progress[f].percent <= report[f].percent
      /\ manifest.progress[f].status \in {"running", report[f].status}
  BY DEF ExecInv, ShownIsRecorded
<1>4. CASE manifest'.progress = manifest.progress
  BY <1>2, <1>4, TaskAssumption
<1>5. CASE manifest'.progress = report'
  BY <1>1, <1>2, <1>3, <1>5, TaskAssumption DEF RecordedForward, Extend
<1> QED
  BY <1>1, <1>4, <1>5 DEF ShownFromRecord

\* Progress that was shown is never taken back, for one document or many: a
\* report has all that was recorded, also the first one that follows a
\* manifest without progress.
THEOREM ProgressMonotone == Spec => ProgressNeverGoesBack
<1>1. ASSUME ExecInv, [Next]_vars
      PROVE  /\ Extend(report', report)
             /\ manifest.progress # Missing => Extend(report, manifest.progress)
             /\ manifest'.progress \notin {Missing, manifest.progress} =>
                  Extend(manifest'.progress, report')
  <2>1. Extend(report', report) /\ ShownFromRecord
    BY <1>1, StepForward DEF RecordedForward
  <2>2. report' \in [Files -> DocumentReports]
    BY <1>1, NextCorrect DEF ExecInv, ExecTypeOK
  <2>3. Extend(report', report')
    BY <2>2, TaskAssumption DEF Extend, DocumentReports
  <2>4. ASSUME manifest.progress # Missing PROVE Extend(report, manifest.progress)
    <3>1. \A f \in Files : /\ report[f].percent \in 0..Full
                           /\ manifest.progress[f].percent \in 0..Full
      BY <1>1, <2>4 DEF ExecInv, ExecTypeOK, Manifests, DocumentReports
    <3> QED
      BY <1>1, <2>4, <3>1, TaskAssumption DEF ExecInv, ShownIsRecorded, Extend
  <2> QED
    BY <2>1, <2>3, <2>4 DEF ShownFromRecord
<1>2. ExecInv /\ [Next]_vars =>
        [/\ Extend(report', report)
         /\ manifest.progress # Missing => Extend(report, manifest.progress)
         /\ manifest'.progress \notin {Missing, manifest.progress} =>
              Extend(manifest'.progress, report')]_vars
  BY <1>1
<1> QED
  BY <1>2, ExecutionCorrect, PTL DEF Spec, ProgressNeverGoesBack

(* ------------------------------ refinement ----------------------------- *)
LEMMA ReaderInit == Batch /\ Init => Reader!RInit
BY DEF Init, Accepted, NothingParsed, Reader!RInit, Reader!Untouched

\* After the worker has ended the manifest does not change.
LEMMA OverIsOver ==
  ExecInv /\ [Next]_vars /\ worker \in {"done", "dead"} => UNCHANGED <<worker, manifest>>
<1> SUFFICES ASSUME ExecInv, [Next]_vars, worker \in {"done", "dead"}
             PROVE  UNCHANGED <<worker, manifest>>
  OBVIOUS
<1>1. publishing = {}
  BY DEF ExecInv, ExecTypeOK, PublishersParse, PhasesInOrder
<1>2. ASSUME NEW f \in Files, DocumentStep(f) PROVE FALSE
  BY <1>2 DEF DocumentStep, StartParse, Parsed, StoreArtifacts, ListArtifacts, Succeed,
              ParseFails, TimeOut, OutputFails, LoopIsFree
<1> QED
  BY <1>1, <1>2 DEF Next, ExecuteParseTask, PublishProgress, Signal, ProjectionSignal,
                    PublishFinal, Die, Ended, vars

\* A batch has a running status and a report until its worker is done, and
\* only the final manifest changes the status.
LEMMA ReaderStep ==
  ASSUME Batch, ExecInv, ExecInv', [Next]_vars
  PROVE  [Reader!RNext]_(Reader!rvars)
<1> USE DEF Reader!rvars
<1>1. CASE worker \in {"done", "dead"}
  BY <1>1, OverIsOver
<1>2. CASE worker \notin {"done", "dead"}
  <2>1. manifest.status = "running" /\ manifest.progress # Missing
    BY <1>2 DEF ExecInv, PhasesInOrder
  <2>2. CASE PublishFinal
    <3>0. /\ manifest' = FinalManifest
          /\ worker' = "done"
          /\ \A f \in Files : entry[f] \in {"success", "failed"}
      <4>1. \A f \in Files : stage[f] = "finished" /\ report[f].status \in {"running", "success", "failed"}
        BY <2>2 DEF PublishFinal, ExecInv, ExecTypeOK, DocumentReports
      <4> QED
        BY <2>2, <4>1 DEF PublishFinal, ExecInv, FinishedTogether
    <3>1. manifest'.progress = [f \in Files |-> [status |-> entry[f], percent |-> Full]]
      BY <3>0 DEF FinalManifest
    <3>2. manifest'.progress \in [Files -> Reader!DocumentReports]
      BY <3>0, <3>1, TaskAssumption DEF Reader!DocumentReports
    <3>3. manifest'.progress # Missing
      BY <3>2, NotMissing DEF DocumentReports, Reader!DocumentReports
    <3>4. \A f \in Files : Reader!Extends(manifest'.progress[f], manifest.progress[f])
      BY <2>1, <3>3, ShownForward DEF Reader!Extends
    <3>5. Reader!Finished(manifest'.progress)
      BY <3>0, <3>1 DEF Reader!Finished
    <3>6. manifest'.status = Reader!Verdict(manifest'.progress)
      <4>1. {f \in Files : manifest'.progress[f].status = "success"} = Succeeded
        BY <3>1 DEF Succeeded
      <4>2. manifest'.status = AggregateStatus
        BY <3>0 DEF FinalManifest
      <4> QED
        BY <4>1, <4>2 DEF AggregateStatus, Reader!Verdict
    <3>7. Reader!Conclude
      BY <1>2, <3>0, <3>2, <3>4, <3>5, <3>6 DEF Reader!Conclude
    <3> QED
      BY <3>7 DEF Reader!RNext
  <2>3. CASE Die
    BY <1>2, <2>3 DEF Die, Reader!Abandon, Reader!RNext
  <2>4. CASE ~PublishFinal /\ ~Die
    <3>1. worker' \notin {"done", "dead"}
      <4>1. ASSUME NEW f \in Files, DocumentStep(f) PROVE worker' = worker
        BY <4>1 DEF DocumentStep, StartParse, Parsed, StoreArtifacts, ListArtifacts, Succeed,
                    ParseFails, TimeOut, OutputFails, Finish
      <4> QED
        BY <1>2, <2>4, <4>1 DEF Next, ExecuteParseTask, PublishProgress, Signal,
                                ProjectionSignal, Ended, vars
    <3>2. manifest'.status = "running" /\ manifest'.progress # Missing
      BY <3>1 DEF ExecInv, PhasesInOrder
    <3>3. manifest'.progress \in [Files -> Reader!DocumentReports]
      BY <3>2 DEF ExecInv, ExecTypeOK, Manifests, DocumentReports, Reader!DocumentReports
    <3>4. \A f \in Files : Reader!Extends(manifest'.progress[f], manifest.progress[f])
      BY <2>1, <3>2, ShownForward DEF Reader!Extends
    <3>5. Reader!Advance
      BY <1>2, <2>1, <3>1, <3>2, <3>3, <3>4 DEF Reader!Advance
    <3> QED
      BY <3>5 DEF Reader!RNext
  <2> QED
    BY <2>2, <2>3, <2>4
<1> QED
  BY <1>1, <1>2

\* A batch keeps, towards whoever reads its manifest, the promise of
\* TaskReport: its progress only moves forward and its status is decided
\* once, together with the last report.
THEOREM BatchImplementsReport == Batch => (Spec => ImplementsTaskReport)
<1>1. Batch /\ Init => Reader!RInit
  BY ReaderInit
<1>2. Batch /\ ExecInv /\ ExecInv' /\ [Next]_vars => [Reader!RNext]_(Reader!rvars)
  BY ReaderStep
<1> SUFFICES ASSUME Batch PROVE Spec => ImplementsTaskReport
  OBVIOUS
<1>3. Init => Reader!RInit
  BY <1>1
<1>4. ExecInv /\ ExecInv' /\ [Next]_vars => [Reader!RNext]_(Reader!rvars)
  BY <1>2
<1> QED
  BY <1>3, <1>4, ExecutionCorrect, PTL DEF Spec, ImplementsTaskReport, Reader!RSpec

\* What TaskReport promises is kept by each of its steps.
LEMMA ReportKeeps ==
  ASSUME Reader!RInv, [Reader!RNext]_(Reader!rvars)
  PROVE  Reader!RInv'
<1> USE DEF Reader!rvars, Reader!RInv, Reader!Finished, Reader!Verdict
<1>1. CASE UNCHANGED Reader!rvars
  BY <1>1
<1>2. CASE Reader!Advance
  BY <1>2 DEF Reader!Advance
<1>3. CASE Reader!Conclude
  BY <1>3 DEF Reader!Conclude
<1>4. CASE Reader!Abandon
  BY <1>4 DEF Reader!Abandon
<1> QED
  BY <1>1, <1>2, <1>3, <1>4 DEF Reader!RNext

\* Whoever reads the manifest of a batch at any moment, also after the worker
\* was killed, finds either a task that is running or a status that agrees
\* with the report on every document beside it.
THEOREM StatusIsTrue == Batch => (Spec => []Reader!RInv)
<1> SUFFICES ASSUME Batch PROVE Spec => []Reader!RInv
  OBVIOUS
<1>1. Spec => ImplementsTaskReport
  BY BatchImplementsReport
<1>2. Reader!RInit => Reader!RInv
  BY TaskAssumption DEF Reader!RInit, Reader!RInv, Reader!DocumentReports, Reader!Untouched
<1>3. Reader!RInv /\ [Reader!RNext]_(Reader!rvars) => Reader!RInv'
  BY ReportKeeps
<1> QED
  BY <1>1, <1>2, <1>3, PTL DEF ImplementsTaskReport, Reader!RSpec

(* -------------------------- the worker from outside --------------------- *)
LEMMA WorkerInit == Init => Worker!WInit
BY DEF Init, Accepted, Worker!WInit

\* Progress reports leave the status as it is.
LEMMA ProgressKeepsStatus ==
  ASSUME manifest \in Manifests, NEW states, PublishInto(manifest, states)
  PROVE  manifest'.status = manifest.status
BY DEF PublishInto, Manifests

LEMMA WorkerStep ==
  ASSUME ExecInv, ExecInv', [Next]_vars
  PROVE  [Worker!WNext]_(Worker!wvars)
<1> USE DEF Worker!wvars
<1>0. /\ manifest \in Manifests /\ report \in [Files -> DocumentReports]
      /\ report' \in [Files -> DocumentReports]
  BY DEF ExecInv, ExecTypeOK
<1>1. CASE worker \in {"done", "dead"}
  BY <1>1, OverIsOver
<1>2. CASE worker \notin {"done", "dead"}
  <2>1. CASE PublishFinal
    <3>1. /\ manifest'.status = AggregateStatus
          /\ worker' = "done"
      BY <2>1 DEF PublishFinal, FinalManifest
    <3>2. AggregateStatus \in {"success", "failed"} \cup (IF ~Batch THEN {} ELSE {"partial"})
      BY DEF AggregateStatus, Batch, Succeeded
    <3> QED
      BY <1>2, <3>1, <3>2 DEF Worker!Conclude, Worker!WNext
  <2>2. CASE Die
    BY <1>2, <2>2 DEF Die, Worker!Fall, Worker!WNext
  <2>3. ASSUME NEW f \in Files, ListArtifacts(f) PROVE [Worker!WNext]_(Worker!wvars)
    <3>1. CASE Batch
      BY <2>3, <3>1 DEF ListArtifacts
    <3>2. CASE ~Batch
      <4>1. PICK status \in ResultStatus : manifest' = OutputsManifest(f, status)
        BY <2>3, <3>2 DEF ListArtifacts
      <4>2. manifest'.status \in {"success", "partial", "failure"}
        BY <4>1 DEF OutputsManifest, ResultStatus
      <4>3. worker' = worker
        BY <2>3 DEF ListArtifacts
      <4> QED
        BY <1>2, <3>2, <4>2, <4>3 DEF Worker!ShowOutputs, Worker!WNext
    <3> QED
      BY <3>1, <3>2
  <2>4. CASE ~PublishFinal /\ ~Die /\ \A f \in Files : ~ListArtifacts(f)
    <3>1. manifest'.status = manifest.status
      <4>1. ASSUME NEW f \in Files, DocumentStep(f) PROVE manifest'.status = manifest.status
        BY <1>0, <2>4, <4>1, ProgressKeepsStatus
           DEF DocumentStep, StartParse, Parsed, StoreArtifacts, Succeed, ParseFails,
               TimeOut, OutputFails, Finish
      <4>2. ASSUME NEW f \in Files, PublishProgress(f) PROVE manifest'.status = manifest.status
        <5>1. seen = manifest
          BY <4>2 DEF PublishProgress, ExecInv, NoLostUpdate
        <5> QED
          BY <1>0, <4>2, <5>1, ProgressKeepsStatus DEF PublishProgress
      <4>3. ASSUME NEW f \in Files, NEW percent \in Percents,
                   Signal(f, percent) \/ ProjectionSignal(f, percent)
            PROVE  manifest'.status = manifest.status
        BY <1>0, <4>3, ProgressKeepsStatus DEF Signal, ProjectionSignal
      <4>4. CASE ExecuteParseTask
        BY <1>0, <4>4 DEF ExecuteParseTask, Manifests
      <4>5. CASE Ended \/ UNCHANGED vars
        BY <4>5 DEF Ended, vars
      <4> QED
        BY <2>4, <4>1, <4>2, <4>3, <4>4, <4>5 DEF Next
    <3>2. worker' \notin {"done", "dead"}
      <4>1. ASSUME NEW f \in Files, DocumentStep(f) PROVE worker' = worker
        BY <4>1 DEF DocumentStep, StartParse, Parsed, StoreArtifacts, ListArtifacts, Succeed,
                    ParseFails, TimeOut, OutputFails, Finish
      <4> QED
        BY <1>2, <2>4, <4>1 DEF Next, ExecuteParseTask, PublishProgress, Signal,
                                ProjectionSignal, Ended, vars
    <3> QED
      BY <1>2, <3>1, <3>2
  <2> QED
    BY <2>1, <2>2, <2>3, <2>4
<1> QED
  BY <1>1, <1>2

\* Seen from outside, the process that executes a task is a ParseWorker, for
\* one document or many: this is what TaskLifecycle takes for granted.
THEOREM ExecutionIsWorker == Spec => ImplementsParseWorker
<1>1. ExecInv /\ ExecInv' /\ [Next]_vars => [Worker!WNext]_(Worker!wvars)
  BY WorkerStep
<1> QED
  BY <1>1, WorkerInit, ExecutionCorrect, PTL DEF Spec, ImplementsParseWorker, Worker!WSpec
=============================================================================
