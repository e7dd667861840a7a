# DocMirror: TLA+ specifications and proofs

DocMirror turns documents into evidence-bearing parse results. Most of its code
is computation on one document at a time (extraction, layout, tables, OCR,
domain plugins, rendering). The part that is hard to test is the machinery
around it: an HTTP service that starts one operating-system process per parse,
bounds how many run and how many wait, kills them when they take too long, and
reports what became of them through files and memory; inside a worker, threads
that read pages with pools of processes and threads that build editions under a
deadline; and a scheduler that runs a plan of work units with retries, which so
far only the tests call. This directory specifies
that machinery in TLA+, checks it with TLC and proves its main properties with
TLAPS. Paths below are relative to `src/docmirror/` unless they start with
`docs/` or `tests/`.

Contents: 1 inventory, 2 plan, 3 the modules and the code, 4 what the runs
check, 5 fairness, 6 what is proved, 7 findings, 8 limits of the models.

## 1. Inventory

| Component | State it keeps | Operations | Talks to |
|---|---|---|---|
| Parse admission queue, `server/parse_admission_queue.py` | `_active_slots`, the deque `_waiters` with one future per waiter, `_closing` | `acquire`, `release`, `shutdown`, `startup`, `_remove_waiter`, `snapshot` | called by the process manager |
| Parse process manager, `server/parse_process_manager.py` | `_processes`, `_tasks`, `_runtime_results`, `_closing` | `start`, `_run_reserved` (one monitor task per parse), `_terminate_process_group`, `shutdown`, `startup`, `runtime_result` | admission queue, operating system, task API |
| Task executor, `server/task_executor.py`, `server/parse_worker.py`, `server/edition_outputs.py`, `runtime/progress_bus.py` | the task's `manifest.json`, progress counters | run one task or a batch in threads, report progress, write outputs and the final manifest | file system (shared with the API), scheduler |
| Task API, `server/task_api.py`, `server/api.py`, `server/task_result.py` | task directories, uploads | submit, get, result; turns a manifest or a runtime result into an answer | process manager, file system |
| SDK client, `sdk/client.py` | none | runs `execute_parse_task` in its own process, without API or manager | task executor |
| Runtime scheduler, `runtime/scheduler.py`, `runtime/work_units.py`, `runtime/control.py` | status and attempts of each work unit, journal | plan, run ready units under a concurrency limit, retry, aggregate | ledger, checkpoints |
| Event ledger and checkpoints, `runtime/ledger.py`, `runtime/checkpoint.py` | append-only journal, checkpoint files | append, replay | scheduler |
| Worker slots and budget, `configs/runtime/performance.py` | a process-wide semaphore of worker slots | reserve (partly), release, replace when the cap changes; compute a budget | pools of the extractors |
| Page extraction, `evidence/plane.py` (`_iter_native_pdf_pages`) | a pool of processes, a window of chunks in flight | read pages serially or in chunks, retry a chunk, give the slots back | worker slots, task executor (through `asyncio.to_thread`) |
| License manager, `plugins/_runtime/licensing/online.py` | key, cached license, cache file | activate, verify, deactivate, grace period | license server, file system |
| Projection builder, `server/output_builder.py` | threads under a deadline | run projectors, drop the late ones | called by the executor on its event loop |
| Orchestrator, DI container, dispatcher, `framework/` | registry of singletons | sequential pipeline | all |
| Extraction, layout, tables, OCR, geometry, topology | none across documents | pure or numerical | |
| Domain plugins, evidence, quality, output, eval, CLI, MCP | none, or a registry filled at import | pure functions and sequential drivers | |

What makes each of them correct, and what makes it hard:

* **Admission queue.** Every slot has exactly one owner; the limit holds;
  strict FIFO; no waiter sleeps beside a free slot; every waiter is answered.
  Hard, because a wait can end in three ways (future, timer, cancellation) and
  other tasks run between the end of a wait and the caller's resumption: a slot
  may be granted to a caller that has already timed out or been cancelled, and
  the queue may be shut down and reopened in that window.
* **Process manager.** Every slot is watched by one monitor; a slot comes back
  only after its process is dead; `shutdown()` leaves no process and no slot
  behind and returns. Hard, because cancellation may hit the monitor at every
  suspension point, including while it terminates the process, `shutdown()`
  terminates the same process concurrently, and a process may ignore SIGTERM.
* **Task executor.** No update of the manifest is lost, progress is never taken
  back, the final manifest stays, what it lists is on disk, status and lists
  agree with what happened to each document.
  Hard, because `manifest.json` is rewritten by the event loop, by parser
  threads (under a lock the event loop mostly does not take), by threads of
  parses that were given up, and by a process that may be killed at any point.
* **Task API.** A status a client saw as terminal stays; every accepted task
  gets one; no file of a refused task remains. Hard, because the manifest is
  shadowed by a bounded in-memory table that a restart of the API forgets.
* **Scheduler.** Dependencies are respected, a unit runs at most its allowed
  attempts, and the aggregate status reflects every unit. Hard, because of
  units whose dependencies failed, cancellation inside `gather`, and failures
  of the journal after the handler has succeeded.
* **Worker slots.** No semaphore lends more slots than its size, all of them
  come back to the one they were taken from, and pools that wait for each other
  do not deadlock. Hard, because the cap is read outside the lock and a new cap
  replaces the semaphore while slots of the old one are lent, and because slots
  are taken one by one.
* **Page extraction.** The pages come out complete and in order whatever the
  pool does, and the thread ends. Hard, because chunks end in any order, fail,
  or return other pages than asked for, and because a document that timed out
  leaves its thread, its pool and its slots behind.
* **Projection builder.** Every edition gets a payload or a reason that is true,
  and the event loop, which waits for the projectors, goes on. Hard, because of
  a deadline that races the answers, and an exception that ends the collection.
* **License manager.** After a deactivation no cached license is served; the
  grace period ends.

`PROJECT.json` lists the concrete hazards with their lines under "hazards".

## 2. Plan

1. `SlotService`, `ParseAdmission`: the promise of the admission and the queue
   that keeps it. *Done*, with proofs.
2. `ParseProcessManager`, which extends `ParseAdmission`: monitors, processes,
   shutdown. *Done*, with proofs.
3. `TaskReport`, `TaskExecution`: what a task's manifest shows, and the worker,
   its parser threads and `write_outputs` that write it, killed at any point.
   *Done*, with proofs; the journal of progress events is left out.
4. `ParseWorker`, `TaskLifecycle`: submission, refusal with removal of the
   directory, GET, the bounded table of runtime results, restart of the API.
   *Done*, with proofs. It is built on `ParseWorker`, the worker as the service
   sees it, which `TaskExecution` implements.
5. `WorkUnitPlanner`, `RuntimeScheduler`: ready units under two concurrency
   limits, retries, a ledger whose writes fail, the aggregate status. *Done*,
   with proofs.
6. `PageExtraction`: the semaphore with partial acquisition and replacement,
   together with the pool of an extraction, which is what uses it. *Done*, with
   proofs.
7. `Projections`, and `DocumentParse`, which composes it with `PageExtraction`
   and the executor's `process_one`. *Done*, with proofs.

8. `MonitoredParse`, `PlanRun`: what the detailed modules have in common, or
   promise, once the mechanics are taken away. *Done*, with refinement proofs;
   the first is implemented by two modules that model the same code at
   different levels, and so ties them together.

Dropped from the first plan: the license manager. It is a sequential cache in
front of an HTTP service, and its only caller, the command line, ends after one
call, so its stale cache has no one to mislead. The worker
budget is plain arithmetic without state.

Left for whoever goes on: the synchronous route `/v1/parse/file`, and the journal
of progress events.

The instances stay small (three or four actors, limits of one or two): every
property planned here is broken by races between two actors and one resource,
with a third actor to profit from the mistake.

## 3. The modules and the code

**`SlotService`** is what admission promises, with no event loop in it: the
owners of slots (`holders`), the line, the door. Actions `Take`, `Join`,
`Leave`, `GiveBack`, `Close`, `Open`.

**`ParseAdmission`** is `parse_admission_queue.py`. Everything runs on one
asyncio event loop, and `_state_lock` is never held across an `await`, so each
of `acquire` up to its wait, `release`, `shutdown`, `startup` and
`_remove_waiter` is one atomic step. What ends a wait and the resumption of the
task are different steps.

| Code | Specification |
|---|---|
| `_active_slots`, `_waiters`, `_closing` | `activeSlots`, `waiters`, `closing` |
| `waiter.future` | `future`: none, pending, result, exception, cancelled |
| where a caller of `acquire` stands | `pc`: new, waiting, or its outcome |
| the timer or the cancellation that ended `wait_for` before the caller ran | `wake` |
| first half of `acquire` | `AcquireRefused`, `AcquireNow`, `AcquireFull`, `AcquireQueue` |
| the timer fires, the caller is cancelled | `Expire`, `Cancel` |
| second half of `acquire` | `ResumeResolved`, `ResumeTimedOut`, `ResumeTooLate`, `ResumeCancelled`, `ResumeCancelDropped` |
| `release`, `shutdown`, `startup` | `Release` (effect `ReleaseSlot`), `Shutdown` (effect `CloseQueue`), `Startup` |

`ticket` is a history variable: the order in which `acquire` accepted its
callers. `waiter.admitted` is set together with `set_result`, so it is
`future[r] = "result"`. `ResumeCancelDropped` is `asyncio.wait_for` of Python
3.10 and 3.11, which the project supports: when the future is done, its result
is returned and the cancellation is dropped.

**`MonitoredParse`** is one monitor and one process per parse, without signals,
timers and coroutines: a process is forked once, while its monitor watches
(`Watch`, `Fork`, `End`); a monitor that has told it to end does not change its
mind (`TellToEnd`); it does not return before the process has ended (`Return`),
unless a cancellation cuts it short (`Interrupt`) or the service goes down under
it (`Lose`). `ParseProcessManager` implements it with its two signals, and
`TaskLifecycle` with one wait for the end of the process.

**`ParseProcessManager`** extends `ParseAdmission` with `parse_process_manager.py`. A request
is at once the task id, the caller of `start()`, the monitor task
`_run_reserved` and the parser process.

| Code | Specification |
|---|---|
| the points of `_run_reserved` at which it suspends | `monitor`: created, spawning, running (in `process.wait()`), asking (SIGTERM sent), killing (SIGKILL sent), done |
| why it is terminating; what the task returned | `goal`, `answer` |
| the process and the last signal it got | `process` |
| `_processes` | `registered` |
| `_tasks` | the monitors at a live point, `LiveMonitors` |
| progress of `shutdown()` | `stage`, `sweep`, `awaited` |
| `start()` | `StartAtOnce`, `StartAfterWait`, `StartRefused`, `StartWaitsOrFails`: each an admission step together with what `start()` does before it suspends |
| `_run_reserved` | `Spawn`, `SpawnFails`, `Register`, `RegisterRefused`, `ExitSeen`, `ParseTimeout`, and `Finish` for the finally block: `FinallyBlock`, or `FinallyRaises` when `unlink` does |
| `_terminate_process_group` | `Terminate`, `GraceExpires`, `Reaped`; in `shutdown()`: `ShutdownTerminates`, `ShutdownGraceExpires`, `ShutdownPasses` |
| cancellation of the monitor | `CancelBeforeStart`, `CancelSpawn`, `CancelMonitor`, `CancelAgain` |
| `shutdown()`, `startup()` | `BeginShutdown`, `EndShutdown`, `ManagerStartup` |

The constants `EarlyCancel` and `RepeatCancel` say which cancellations the
environment delivers, `UnlinkFails` whether the removal of the request file may
raise: a cancellation before the first step of the monitor, a second
one while the first is handled, and an `OSError` (a file system that became
read-only, say) that skips the rest of the finally block. All can happen:
`start(wait=true)` callers
await the task and pass their own cancellation on. They are constants because
two properties and the liveness depend on them, and the theorems name the
dependence.

**`TaskReport`** is what a task of several documents shows to whoever reads its
manifest: a report on every document that only moves forward (`Advance`), one
status that is decided once together with the last report (`Conclude`), or an
unfinished report of a worker that is gone (`Abandon`).

**`TaskExecution`** is `server/task_executor.py` with its reporter and
`write_outputs` of `server/edition_outputs.py`: one worker process and one task.

| Code | Specification |
|---|---|
| the worker process | `worker`: starting, running, done (returned), dead |
| where `process_one` stands | `stage`: queued, parsing, parsed, stored, listed, finished |
| `input_entries[i]["status"]` | `entry` |
| `_TaskProgressReporter._files` | `report` |
| threads of `perceive_document` still alive | `threads` |
| the thread inside `_publish_locked`, and the manifest it has read | `publishing` (it holds `_lock`), `seen` |
| `manifest.json`, artifacts, uploaded files on disk | `manifest`, `stored`, `uploads` |
| prologue of `execute_parse_task` | `ExecuteParseTask` |
| `on_signal` on a parser thread; its write | `Signal`, `PublishProgress` |
| `async with file_semaphore`, first signal | `StartParse` |
| `perceive_document` returns, raises, or `wait_for` gives up | `Parsed`, `ParseFails`, `TimeOut` |
| signals of `build_all_projections` | `ProjectionSignal` |
| `write_outputs`: artifacts, then its manifest | `StoreArtifacts`, `ListArtifacts` |
| `_publish_locked`; `_cleanup_managed_input` | `PublishInto`; `RemoveUpload` |
| end of `process_one`, normal or not | `Succeed`, `OutputFails` (effect `Finish`) |
| after `asyncio.gather` | `PublishFinal` (`FinalManifest`, `AggregateStatus`) |
| SIGTERM, SIGKILL, an exception outside `process_one` | `Die` |

From the end of its parse to the end of `process_one` a document does not give
the event loop away (`LoopIsFree`), so the steps in between are interleaved
only with parser threads and with the death of the process. The counts a
manifest shows are functions of the reports on the documents, so `progress`
holds those. The throttle of 0.75 s is a choice to publish or not.
`perceive_document` is external: it may return with any `ResultStatus`, raise,
or be timed out, in which case its thread lives on. At this commit every signal
is emitted on the event loop. The reporter takes a lock all the same, because
"Progress callbacks may arrive from page/projector worker threads"
(`task_executor.py:35`); the model follows that contract and lets parser threads
call it, so `NoLostUpdate` and `FinalManifestStays` say that the reporter would
keep it, not that anything calls it so today. Two failures are passed over by
the code: a read or write of the manifest that raises in `_publish_locked` leaves
the manifest as it was (`PublishInto`), and an upload that cannot be removed
stays (`RemoveUpload`), so nothing is claimed about uploads after the end. A
document in a batch has a directory of its own, so its `write_outputs` does not
touch the task's manifest; a single document shares the task's (`Batch`).

**`ParseWorker`** is one worker process as the rest of the service sees it: the
status in the manifest (`status`) and whether the process works, has finished
or is dead (`phase`). It may show the status of a single document's outputs
(`ShowOutputs`), publish its verdict and return (`Conclude`), or be killed
(`Fall`). `TaskExecution` implements it for one document or many.

**`TaskLifecycle`** is the life of all tasks: `server/task_api.py`, the
outcomes of the monitors with the table of runtime results, and a service that
may be shut down, crash and be started again. Every task has an instance of
`ParseWorker` (`Process(t)`).

| Code | Specification |
|---|---|
| the process of the API | `service`: up, closing, down |
| where `submit_upload_task` stands; the last answer about the task | `handler`, `told` |
| task directory, status in `manifest.json` | `folder`, `manifest` |
| `_run_reserved` and how it ended | `monitor` |
| the parser process | `worker` |
| `_runtime_results` | `remembered`, oldest first, at most `MaxResults` |
| `_store_uploads`, `initialize_task_manifest` | `Submit`, `StoreFails`, `InitializeManifest` |
| `_start_or_wait` | `Refuse` (removes the directory), `Start` (answers, or awaits the monitor) |
| `get_task` | `GetTask` (`Shown`: manifest or 404, table, manifest) |
| `_run_reserved`: spawn, registration, exit code, timeout, cancellation | `Spawn`, `SpawnFails`, `Register`, `SeeExit`, `SeeCrash`, `ParseTimeout` and `TimedOut`, `CancelMonitor` and `Cancelled` |
| `_remember_runtime_failure` | `Remember` (`Remembering`) |
| lifespan of the application | `Shutdown`, `Exit`, `Boot`; `Crash` |

`failures` is a history variable: every task that was put into the table since
the service came up, in order. A task is `Forgotten` when as many as the table
has room for were put into it after this one.

Whether `start()` gives a slot is a choice here (`Refuse` or `Start`); how it
is made is `ParseAdmission` and `ParseProcessManager`. A worker has a session
of its own and goes on when the service is gone.

**`WorkUnitPlanner`** is `WorkUnitPlanner.plan` of `runtime/work_units.py`: a
function from units to the units they depend on. **`RuntimeScheduler`** is one
call of `RuntimeScheduler.execute_plan` in `runtime/scheduler.py`, with the
writes of `runtime/ledger.py`. Its plan is any element of the constant `Plans`.

| Code | Specification |
|---|---|
| `unit.depends_on`, `unit.attempt`, `unit.status` | `dependsOn`, `attempt`, `status` |
| where `execute_unit` stands; its loop variable | `stage`: idle, ready, waiting, handling, sleeping, done; `tries` |
| the last line of a unit in `work_units.jsonl` | `journal` |
| the status in the result of a unit; what `execute_plan` returns | `outcome`, `verdict` |
| the loop of `execute_unit` up to the semaphore | `Begin`: `mark_running` and two writes, of which one may fail |
| `async with semaphore` | `Enter`, one limit for concurrent types and one for the others |
| the handler returns, raises | `HandlerReturns`, `HandlerRaises` (effect `Failed`, the except branch) |
| `ready`; `gather`; what is marked `dependency_failed` | `Ready`; `NextBatch`, `BatchIsOver`; `Conclude` with `Aggregate` |

A write fails before or after its line has reached the file (`WriteFails`).
`returned` and `lost` are history variables: whose handler has returned, and
for whom a write has failed. A write that fails in the except branch, or before
the handler, leaves `execute_unit`; `gather(return_exceptions=True)` keeps it.

**`PlanRun`** is what `execute_plan` promises without attempts, semaphores and the
ledger: rounds of units whose dependencies have succeeded (`StartRound`), one run
and one result per unit (`EndUnit`), and a verdict drawn once from the results
(`Conclude`). `RuntimeScheduler` implements it; a unit that is tried again is
still running.

**`PageExtraction`** is `_iter_native_pdf_pages` of `evidence/plane.py` over
`process_worker_allocation` of `configs/runtime/performance.py`, for several
documents in one process, each on its thread.

| Code | Specification |
|---|---|
| the configured cap; `_PROCESS_WORKER_SEMAPHORE` and the ones before it | `cap`; `semaphores`, of which the last is in force, `permits` |
| where the thread stands | `place` |
| the cap it has read; its semaphore; its slots | `capRead`; `home`; `held` |
| `pending`, `next_start`, the pages yielded | `pending`, `upTo`, `emitted` |
| how the iteration ends | `outcome`: complete, raised |
| the test for a pool; the cap read outside the lock | `OpenDocument` |
| `_process_worker_semaphore`, under the lock | `GetSemaphore` |
| `acquire(blocking=False)` in a loop, then `acquire()` | `TakeSlot`, `NoMoreSlots`, `SlotAtLast` |
| `submit_next`, the window, the head of the deque | `SubmitNext`, `FillWindow`, `TakeHead`, `AllConsumed` |
| a process of the pool ends a chunk | `ChunkEnds` |
| reading in this process | `ReadPage` |
| the finally blocks | `EndPool` (waits for running chunks), `GiveBack` |

A permit is told apart by its semaphore and a number, so that a slot given to
the wrong semaphore shows. A chunk's answer is right or wrong: an exception, a
broken pool and an answer with other pages take the same branch, which reads
the chunk again without the pool.

**`Projections`** is `build_all_projections` of `server/output_builder.py`:
`StartBuild` (the mirror and the community edition, and the threads),
`ProjectorEnds`, the loop over `as_completed` (`Collect`, `CollectRaised`), its
`Deadline`. `offer` is what is recorded for an edition, `Remaining` the set
`remaining` of the code.

**`DocumentParse`** runs both for the documents of one task: `file` is where
`process_one` stands. `BeginFile` takes the file semaphore and starts the
thread, `ExtractionReturns` goes on with the projections, `TimeOutFile` is
`wait_for` giving up, `Deliver` the rest of `write_outputs`. While a document is
projected the event loop runs nothing else (`LoopIsFree`). `TaskExecution` has
the same steps with the manifest and without the threads' insides.

**Slips.** An operator `X_Slip` next to `X` is `X` with a plausible mistake in
the code (a guard dropped, `pop` for `popleft`, a release forgotten). It takes
no part in the specification. Each property was confirmed to fail when the
operator is replaced by its slip; `PROJECT.json` lists the pairs under
"mutants". So every property is known to be about the code and not about the
shape of the model.

**`MCParseAdmission`, `MCParseProcessManager`** add the symmetry set for TLC,
**`MCRuntimeScheduler`** the plans. The modules **`*_proofs`** hold the theorems.

## 4. What the runs check

| Run (`.cfg`) | Instance | Shows |
|---|---|---|
| `AdmissionSafety` | 5 callers, 2 slots, queue of 2 | `AdmissionInv`, the inductive invariant of the proofs (slot accounting, the limit, the queue's content, no idle slot); FIFO, no grant while closing; the queue implements `SlotService` |
| `ManagerSafety` | 3 requests, 1 slot, queue of 2, every cancellation, finally blocks that raise | slots and processes are supervised, but for those of a cancellation of section 7 and of a finally block that raised; a finished shutdown leaves nothing; manager and queue implement `SlotService`, and the manager implements `MonitoredParse`; `SupervisionInv`, with shutdown missing nothing |
| `ManagerLiveness` | 2 requests, 1 slot, queue of 1, repeated cancellations | slots come back, every caller of `acquire` is answered although no timer of the queue fires, `shutdown()` returns |
| `ManagerRepeatCancel`, `ManagerEarlyCancel` | 2 requests, 1 slot | the first two findings of section 7, as violations |
| `ExecutionBatch` | 3 documents, 2 parsed at a time, percentages 0..2 | with progress writes and removals of uploads that may fail: no lost update, the final manifest stays and lists only what is stored, the batch implements `TaskReport`; the task ends |
| `ExecutionSingle` | 1 document, percentages 0..4 | what the manifest of `write_outputs`, and then the final one, lists is stored; the reporter takes nothing back, and what is newly shown has all that was recorded, also after a manifest without progress; the process implements `ParseWorker`; `ExecInv`, the inductive invariant of the proofs |
| `ExecutionPolledProgress` | 1 document | the third finding of section 7, as a violation |
| `LifecycleSafety` | 2 tasks (one of one document, one batch), a table of one failure | what has ended is reported until the table had to forget this very failure, an answer stands once the monitor has returned, a verdict stays, the monitors and workers implement `MonitoredParse`, every monitored parse ends; `LifeInv`, the inductive invariant of the proofs (a refused request leaves nothing, nobody works without a directory) |
| `LifecycleDurable` | 1 task | the fourth finding of section 7, as a violation |
| `SchedulerPlans` | every plan of 3 units, with dependencies among 4 (one is in no plan), and the planner's for a short document; limits of 1, 2 attempts | success means that every unit has succeeded but those that a circle or a missing unit keeps from running (`Stuck`), and that none of those has run; the scheduler implements `PlanRun`; `SchedulerInv`, the inductive invariant of the proofs (the ledger agrees with the results, dependencies, attempts); `execute_plan` returns whatever plan it is given |
| `DocumentParse` | 2 documents of no or 3 pages, chunks of one page, 2 in flight, a cap of 1 or 2 that changes, 1 document parsed at a time, 2 editions | no slot is lost or lent twice; who waits for a slot waits for one that can come; the pages come out in order; what is delivered is whole; every document ends, and so does the thread of one that was given up |

An invariant that is a conjunct of an inductive invariant (`SlotsAccounted`,
`WithinLimit` and `NoIdleSlot` of `AdmissionInv`, `NoneMissedByShutdown` of
`SupervisionInv`, `RefusedLeavesNothing` and `WorkHasAHome` of `LifeInv`,
`LedgerAgrees` of `SchedulerInv`) is checked with it and has its theorem, but is
not listed a second time.

*Bounds.* Two slots and five callers are the smallest instance in which two
slots are handed over in either order while the queue overflows. One slot with
three requests is the smallest in which a slot that is given back wrongly is
taken by a second request while a third waits. Shutdown and startup may repeat
without limit, timers and cancellations may hit every wait, so nothing else is
bounded: the state spaces are finite without a state constraint. Three
documents with two places are the smallest batch in which one waits for the
semaphore while another one's thread outlives its timeout and holds the
reporter's lock. Percentages are 0..`Full` in coarse steps: two are enough for
a signal that is late, four for one document. Two tasks and a table with
room for one failure are the smallest instance in which a failure is forgotten;
the service may crash and start again without limit. Three units are the
smallest plan with a chain, a diamond's half and a cycle, and every one of
their plans is an initial state. With one document parsed at a time two threads
still overlap, because a document that times out leaves its thread behind; three pages and two
chunks in flight make a chunk end before its predecessor while a third has not
been submitted; with a cap of one or two a thread gets all, some or none of the
slots it asks for, and a semaphore is replaced while its slots are lent. `SerialBelow` is 2 there
for 4 in the code. Symmetry is
used for safety and for the refinement (both treat requests alike) and never
with liveness. Deadlock checking is on in every run.

## 5. Fairness

* `Runnable`, `EndShutdown`, the sweep of `shutdown()`: the event loop runs
  every task that is ready. The disjunct `StartWaitsOrFails` of `Runnable`
  counts only where it ends a wait.
* `Due`, `ShutdownGraceExpires`: `wait_for` always has a timeout
  (`parse_timeout_seconds` and `parse_kill_grace_seconds` are positive), so a
  timer fires unless the wait ends before. The queue's own timer may fire at
  any time but is not relied on.
* `process[r] = "killed" /\ ProcessExits(r)`: the operating system ends a
  process that got SIGKILL. Nothing is assumed of a process that got no signal
  or only SIGTERM.
* `Fairness` of `TaskExecution`: the event loop runs what is ready and
  `wait_for` ends a parse that does not end by itself. Fairness is strong where
  a step takes the reporter's lock (`StartParse`, `EndParse`, `WriteOutputs`): a
  parser thread holds it only while it writes one file, and however often it
  signals, a thread that waits for the lock gets it in the end. Which document
  comes first is left open. Nobody has to
  signal, and the process may die.
* `FairSpec` of `TaskLifecycle`: the event loop runs a monitor whose wait is
  over (`MonitorRuns`), the hard timeout fires (`ParseTimeout`), and a process
  that is told to end dies (`Ends`; with SIGKILL, which `ParseProcessManager`
  shows in detail). The worker itself may work for ever, and a worker that has
  published its verdict need not exit (`WorkerExits` has no fairness): the
  interpreter waits for a projector's thread, and that may hang.
* `Fairness` of `RuntimeScheduler`: the event loop runs what is ready, a sleep
  ends, a unit that waits for a semaphore gets it, and every handler ends. The
  last is an assumption on the handlers: `execute_unit` sets no time limit, and
  with a handler that hangs `execute_plan` does not return.
* `Fairness` of `DocumentParse`: the event loop runs what is ready, the deadline
  of the projectors passes, the operating system runs the threads, and every
  chunk ends somehow (an exception and a broken pool included). No projector has
  to end and no document has to time out. The cap may change as long as some
  thread has not started; afterwards nobody reads it.
* No fairness for the actions of clients and operators: nobody has to submit,
  cancel, shut down or start up.

## 6. What is proved

Every theorem holds for an arbitrary set of requests (also an infinite one) and
all values of the constants. The assumptions are `LimitsAssumption` (both
limits are natural numbers, `_non_negative_int_env`) and `CancelAssumption`
(the three switches are Booleans).

`ParseAdmission_proofs`. `AdmissionInv` is the inductive invariant. Slot
accounting alone is not inductive: a release hands over to the head of the
deque, and the new owner is counted correctly only if that head is a caller
that still waits; this is `QueueIsTheWaiting`. No lost wake-up needs in
addition that a closing queue is empty (`ClosedIsEmpty`), or a reopened queue
could have waiters beside free slots. `ReleaseFreesOrHandsOver` reduces the
loop in `release()` to two cases, and `GiveBackStep`, `LeaveQueueStep`,
`AcquireNowStep`, `AcquireQueueStep`, `ShutdownStep` and `ResolvedStep` each
treat one effect; the steps of `Next` are combinations of these. FIFO needs
`FifoInv`: the deque is sorted by ticket, tickets are issued increasingly, and
whoever is served has a smaller ticket than everybody in the deque.
Theorems: `AdmissionCorrect`, `SlotConservation`, `LimitHolds`, `NoLostWakeup`,
`QueueCorrect`, `FirstComeFirstServed`, and the action property
`ClosingGrantsNothing`: the hand-over of a release finds an empty queue while it
is closing (`ClosedIsEmpty` again), and nobody else is granted a slot then.

`ParseProcessManager_proofs`. `SupervisionInv` says that a live monitor owns
the slot of its request, that there is no process before the monitor's first
step, that only monitors which have a process are registered, and that a
running `shutdown()` awaits every live monitor and has listed every process
that runs unattended. It is proved whatever cancellation is delivered
(`SupervisionCorrect`, `ShutdownMissesNothing`, `ClosingStartsNothing`), and so
are, with their exact exceptions, `SlotsMonitored` (a slot that is taken has a
monitor or a caller about to make one, unless the monitor was cancelled before
its first step, `CutShort`, or its finally block raised, `Uncleaned`), `NoProcessOrphaned` (a live process has a live
monitor, unless that was cancelled, `Interrupted`) and `ShutdownComplete`.
Without a repeated cancellation the limit bounds the processes themselves
(`ProcessLimit`, for `~RepeatCancel`), and without one before the first step,
and without a finally block that raises, `shutdown()` gets every slot back
(`SlotsFreedByShutdown`, for `~EarlyCancel` and `~UnlinkFails`): the two
cancellations of section 7 and that exception are the only ways to break these
two.

`MonitoredParseImplemented` shows that the manager implements `MonitoredParse`.
The mapping reads "interrupted" off the reason of a monitor that is done, so it
needs `ReasonMeansEnd`: only a monitor that has told its process to end, or is
done, has a reason. That a monitor with the reason "timeout" returns only after the process
has ended is where SIGTERM, its grace period and SIGKILL have to be right.
`ParseKeeps` is the invariant `MInv` of the abstract specification, and
`ReturnedLeavesNothing` carries it back: a monitor that has returned has left no
process.

`SlotService_proofs`. `AdmissionImplementsService` and
`ManagerImplementsService`: every step of the queue, and of the manager over
it, is a step of `SlotService` or leaves it unchanged, under the mapping
`holders <- Holders` (a slot belongs to the caller whose future has been
resolved, not to the one that has resumed), `line <- waiters`,
`open <- ~closing`. `ManagerUsesQueue` shows that the manager uses the queue as
any caller may, but for the slot that `start()` hands back, so FIFO carries
over (`ManagerFirstComeFirstServed`).

`TaskExecution_proofs` holds for every finite set of documents, every number of
file workers and every `Full` (`TaskAssumption`). `ExecInv` is inductive. The
event loop writes `manifest.json` without the reporter's lock in
`ListArtifacts` and `PublishFinal`, so that no update is lost has to come from
where the documents stand: a thread inside `_publish_locked` belongs to a
document that is parsed (`PublishersParse`, because every end of a parse waits
for the thread or takes the lock), while those two writes happen when the
single document, or every document, is past that. `FinishedTogether` carries
that a finished document takes no signal and an unfinished one still has its
upload; `PhasesInOrder` that nothing has begun before the prologue and everything has ended after the
return; `StoredFirst` and `ShownIsRecorded` give the listed artifacts and the
progress. Theorems: `ExecutionCorrect`, `NothingLost`, `FinalManifestIsLast`,
`ArtifactsBeforeManifest`, `ProgressMonotone`, and
`BatchImplementsReport`: with at least two documents, every step is a step of
`TaskReport` under `status <- manifest.status`, `shown <- manifest.progress`,
`over <- worker \in {"done", "dead"}`. `StatusIsTrue` is what follows (`RInv`): a
reader finds a batch running, or a status that agrees with the report on every
document, wherever the worker is killed.

`ExecutionIsWorker`: for one document or many, every step is a step of
`ParseWorker` under `status <- manifest.status` and the phase of the process;
a thread's write keeps the status because it has read the manifest it writes
over (`NoLostUpdate`).

`TaskLifecycle_proofs` holds for every set of tasks and every positive size of
the table (`LifeAssumption`). `LifeInv` is inductive. A refused request has
left nothing because no monitor exists before `start()` returns
(`NothingBeforeStart`). `EndIsReported` needs that the process of a monitor
that returned has ended (`EndedIsQuiet`), so that its manifest does not change
any more, that exit code 0 means a terminal manifest (`VerdictIsTerminal`), and
that the table holds the latest failures (`TableIsRecent`, `TableStep`): whoever
is not among the last `MaxResults` failures is not forgotten before that many
others have failed. Theorems: `LifeCorrect`, `RefusalCorrect`, `HomeCorrect`,
`ReportCorrect`, `VerdictCorrect`; and `AnswerCorrect`: once a monitor has
returned, the answer to a client changes only when the service goes down or the
full table forgets this very failure. It needs that the manifest of a process
that has ended is not written any more, and that the table, before it is full,
only grows. `MonitoredParseImplemented` and `ReturnedLeavesNothing` are the
same theorems as for the process manager: the two models of `_run_reserved`, one
with signals and the other with a single wait, agree on what `MonitoredParse`
says. One consequence of `LifeInv` is that the branch for a
worker that exits with code 0 and a manifest still running
(`WORKER_INCOMPLETE`) is never taken.

`RuntimeScheduler_proofs` holds for every set of plans, also infinite ones, and
positive limits (`SchedulerAssumption`, which includes at least one attempt).
`SchedulerInv` is inductive: `OneUnit` says once what a step of one unit has to
keep, and each action is checked against it. Theorems: `SchedulerCorrect`,
`LedgerCorrect`, and `SuccessIsComplete`: the verdict looks only at the units
that have run, so which ones were left out has to come from the plan. When all
results are successes and nothing is ready, every pending unit waits for a
pending or a missing one, so the pending units are a set that keeps itself from
running (`LeftIsStuck`, `Entangled`). Conversely no such unit was ever begun
(`StuckStayIdle`, a part of the inductive invariant), because what it waits for
has not been begun either (`StuckNotReady`). 
`PlanRunImplemented` shows the refinement of `PlanRun`: attempts, semaphores and
writes of the ledger leave the results alone (`ResultTable`, `HavingSeen`,
`UnitRuns`), a round starts as a whole and only when the one before is over
(`RoundStarts`), and the verdict is the one of the results (`VerdictDrawn`).
`ResultsRespectPlan` carries the invariant `PlanInv` of `PlanRun` back: what was
begun had all it depends on behind it, and a verdict stays true of the results. `PlannerIsOrderly` shows,
with a level for every unit, that no unit of the planner's plans is `Stuck`, for every
number of pages, so `PlannedSuccessIsComplete`.

`PageExtraction_proofs` holds for every set of documents and page counts, all
caps and chunk sizes (`ExtractionAssumption`). `SlotsInv` says where each permit
is (`Accounted`, `Exclusive`, `IdleHoldNone`); it gives `SlotsAlwaysConserved`.
`PagesInv` says that the chunks in flight are a chain from the last page yielded
to the first not submitted (`ChainOf`); appending a chunk keeps it, and taking
the head moves its start, which with `IndicesConcat` is the order of the pages
(`PagesAlwaysInOrder`).
`WaitersAreServed` is freedom from deadlock as an invariant, `SlotCanCome`: a
blocked thread's semaphore has a slot that is free, or one lent to a thread that
is not blocked. It follows from `SlotsInv`, by which a slot is nowhere else and
blocked threads hold none, and `WaitInv`: a thread that takes slots has got a
semaphore, and every semaphore, also a replaced one, has at least one slot.

`DocumentParse_proofs` adds what is recorded for the editions
(`ProjectionsInv`) and that a document is projected only after its thread has
ended (`FileInv`), and carries all over to the composition:
`ParseConservesSlots`, `ParseKeepsOrder`, and `DeliveredIsAlwaysWhole` for
`TimeoutIsBuiltin` (see the last remark of section 7). `ThreadsUndisturbed` says
why that works: inside the executor the threads make the steps of `PagingSpec`
and no others, so that `ParseServesWaiters` is `WaitersAreServed` carried over.

*Only model-checked:* the liveness properties `EveryCallerAnswered`,
`SlotsComeBack`, `ShutdownReturns`, `TaskEnds`, `AcceptedEnds`, `PlanEnds` and `ParseEnds` (temporal reasoning about
fairness is out of the prover's reach).

## 7. Findings

1. *A repeated cancellation frees the slot of a live process*
   (`ManagerRepeatCancel`). `_run_reserved` terminates its process in the
   handler of `CancelledError` (`parse_process_manager.py:230`). A second
   cancellation leaves that handler at its `await`, the finally block releases
   the slot, and the next parse starts beside a process that is still alive: in
   the run it has got SIGTERM, and nobody is left to send it SIGKILL
   (`ProcessesWithinLimit` does not count processes that have got one).
   `docs/deployment.md:35` describes the limit as the "Maximum isolated parser
   processes".
2. *A monitor cancelled before its first step leaks its slot*
   (`ManagerEarlyCancel`). `start()` reserves the slot and creates the task
   (`parse_process_manager.py:124`); asyncio does not run the body, nor its
   finally block, of a task that is cancelled before its first step. The slot
   stays counted after `shutdown()` and `startup()`, where
   `tests/unit/test_parse_process_manager.py:118` expects `snapshot.active == 0`.
3. *A single-file task shows a terminal manifest too early*
   (`ExecutionPolledProgress`). A single document shares the task's directory,
   so `write_outputs` replaces the task's `manifest.json` by one with the status
   of the parse result and without progress (`edition_outputs.py:208`), before
   the integrity check and before the executor's final manifest.
   `tests/e2e/test_task_api_contract.py:185-191` polls until the status is not
   `running` and then asserts a progress of 100. A poll between the two writes
   finds none, for good if the worker dies there; and the status it reads may
   still change (partial to success, or success to failed). This is why the
   refinement of `TaskReport` is stated for batches. It also contradicts the
   docstring at `task_executor.py:248`, "atomically publish a terminal
   manifest".

4. *A failure the client was told of is forgotten* (`LifecycleDurable`). A
   spawn failure, a hard timeout and a crash of the worker are remembered in
   `_runtime_results` only, which holds at most 1000 entries and is lost with
   the process; the manifest keeps its status. `get_task` prefers the table
   (`task_api.py:189`), so a task that was failed is, after a restart of the API
   or 1000 more failures, running again, for ever, or success when the timeout
   came after the verdict. `task_api.py:4` calls the routes "Durable REST Task
   API routes", and `task_api.py:185` promises "the current durable task
   manifest"; the docstring of `runtime_result` does say "non-persistent".
   `VerdictStays` and `EndIsReported` are what does hold.

Two remarks. `perceive_document` turns an exception into a result with status
FAILURE, and `process_one` records such a document as success when its outputs
can be built; a single-file manifest may then even carry the status `failure`,
which `TaskResult` does not accept: if the worker dies there, the monitor raises
instead of remembering a failure, and `GET` answers with an error.

`except TimeoutError` at `output_builder.py:527` names the builtin exception.
Before Python 3.11 `as_completed` raises `concurrent.futures.TimeoutError`, which
is another class, so on Python 3.10, which `pyproject.toml:58` admits, a deadline
goes to `except Exception`: the editions left are reported as `projector_failed`
although no projector raised, where
`tests/contract/test_plugin_chaos_stability.py:80` expects `projector_timeout`.
The other modules of `server/` catch `asyncio.TimeoutError` by its name. The
constant `TimeoutIsBuiltin` tells the versions apart: with `FALSE` in
`DocumentParse.cfg` TLC finds `DeliveredIsWhole` violated (its part
`ReasonsAreTrue`), and the theorem names the condition.

## 8. Limits of the models

* The limits are constants; the code reads the environment again at every call,
  and a limit that changes at run time is not modelled.
* `snapshot()` only reads and has no action.
* An exception from `_terminate_process_group` other than those it handles is
  not modelled. One from `request_path.unlink` in the finally block is in
  `ParseProcessManager` only, not in `TaskLifecycle`; the slot it loses never
  comes back, so `ManagerLiveness` is checked without it.
* `TaskLifecycle`: a repeated cancellation is in `ParseProcessManager` only;
  errors of `rmtree` (ignored by the code) and validation of a request are left
  out, and so is the route `/v1/parse/file` of `server/api.py`, which starts a
  parse without a manifest of the API's own. Starting the service means a new
  process, with an empty table.
* `os.killpg` signals the process group; the model has one process per parse
  and does not follow its children.
* Exit code, manifest and error text are abstracted to the answer's code.
* `TaskExecution` has one run of one task: the branch that returns the existing
  manifest of a finished task, the journal of progress events and the fallback
  of a document's name are left out, as are the texts of a report. The removal
  of an uploaded file is one step with the end of its document. Two processes
  that execute the same task are not modelled; the process manager starts one.
* `RuntimeScheduler`: with `max_attempts` of 0 the code runs no attempt and
  reports a failure; the model takes at least one. The cancellation of
  `execute_plan` and a handler that raises `CancelledError` (which `gather`
  returns as a result that is no `Exception`) are left out; no handler does.
  The lengths of the backoff are not modelled. Only tests call the scheduler;
  the worker runs `process_one` instead.
* `PageExtraction`: what is read from a page, the text layers and the images are
  left out; the loop over pages is. A wrong answer of a chunk stands for an
  exception, a broken pool and other pages alike. The other user of the
  slots, `layout/segment/layout_analysis.py:252`, takes them the same way and is
  not composed with it; only tests call it.
* `Projections`: payloads and progress callbacks are left out, and so is the
  reason an unavailable edition carries by itself. The queue of the default
  executor behind `asyncio.to_thread` is taken as long enough.
* `DocumentParse` has no manifest (`TaskExecution` has), no integrity check and
  no other stage of `perceive_document`. `perceive_document` turns an exception
  of the extraction into a result, so that projections are built then too.
* *Not modelled:* the license manager (section 2); checkpoints and the batch
  ledger, which have no caller outside the tests; the SDK client, the
  orchestrator, the command line and MCP, which are sequential drivers of the
  components above; extraction of content, layout, tables, OCR, plugins,
  evidence, quality, rendering and evaluation, which compute on one document
  and keep no protocol state. These last are by far the most of the
  repository's lines (the domain plugins' schemas, tables and field maps), so the
  modules here cover a small share of it: they cover the part in which the order
  of events decides. `PROJECT.json` has the list with a reason for each.
