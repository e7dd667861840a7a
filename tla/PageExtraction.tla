---------------------------- MODULE PageExtraction ----------------------------
(***************************************************************************)
(* The extraction of native PDF pages, _iter_native_pdf_pages of           *)
(* src/docmirror/evidence/plane.py, and the process-wide slots its pools   *)
(* take, process_worker_allocation of configs/runtime/performance.py.      *)
(*                                                                         *)
(* Each extraction runs on a thread of its own (asyncio.to_thread) and     *)
(* hands chunks of pages to a pool of processes.  The semaphore is         *)
(* replaced when its size is configured anew; a thread keeps the one it    *)
(* has got.  Permits are told apart, <<semaphore, number>>, so that it     *)
(* shows where each of them is.                                            *)
(*                                                                         *)
(* An operator X_Slip next to X is X with a plausible slip of the code: it *)
(* takes no part in the specification.                                     *)
(***************************************************************************)
EXTENDS Integers, Sequences, FiniteSets

CONSTANTS Jobs,             \* the extractions of one process
          PageCounts,       \* the page counts a document may have
          Requested,        \* workers asked for, bounded as in the code
          Caps,             \* what resolve_max_process_workers may return
          SerialBelow,      \* fewer pages are read without a pool: 4
          ChunkLimit,       \* pages of a chunk, at most: 4
          ChunksPerWorker   \* chunks in flight per worker: 2

ASSUME ExtractionAssumption ==
  /\ PageCounts \subseteq Nat
  /\ Requested \in Nat \ {0}
  /\ Caps \subseteq Nat \ {0}
  /\ SerialBelow \in Nat
  /\ ChunkLimit \in Nat \ {0}
  /\ ChunksPerWorker \in Nat \ {0}

VARIABLES
  cap,         \* the configured cap
  semaphores,  \* the sizes of the semaphores made so far; the last is in use
  permits,     \* the free permits of all semaphores
  pages,       \* page_count of each document
  place,       \* where each thread stands
  capRead,     \* the cap a thread has read before it takes the lock
  home,        \* the semaphore a thread got
  held,        \* the permits it holds; `granted` is their number
  pending,     \* the deque of chunks in flight
  upTo,        \* the first page that has not been submitted
  emitted,     \* the indices of the pages yielded so far
  outcome      \* how the iteration ended

slotVars == <<cap, semaphores, permits, capRead, home, held>>
pageVars == <<pages, pending, upTo, emitted, outcome>>
pagingVars == <<slotVars, pageVars, place>>

Places == {"new", "resolving", "taking", "blocked", "granted", "reading",
           "filling", "consuming", "ending", "releasing", "ended"}
Answers == {"running", "right", "wrong"}

Least(m, n) == IF m <= n THEN m ELSE n
Most(m, n) == IF m >= n THEN m ELSE n

PermitsOf(n) == {n} \X (1 .. semaphores[n])
AllPermits == UNION {PermitsOf(n) : n \in DOMAIN semaphores}
FreeFor(j) == {p \in permits : p[1] = home[j]}

PagingInit ==
  /\ cap \in Caps
  /\ semaphores = <<>>
  /\ permits = {}
  /\ pages \in [Jobs -> PageCounts]
  /\ place = [j \in Jobs |-> "new"]
  /\ capRead = [j \in Jobs |-> 0]
  /\ home = [j \in Jobs |-> 0]
  /\ held = [j \in Jobs |-> {}]
  /\ pending = [j \in Jobs |-> <<>>]
  /\ upTo = [j \in Jobs |-> 0]
  /\ emitted = [j \in Jobs |-> <<>>]
  /\ outcome = [j \in Jobs |-> "none"]

MoveTo(j, next) == place' = [place EXCEPT ![j] = next]
-----------------------------------------------------------------------------
(* ------------------------------- the slots ----------------------------- *)
\* The environment variable or the configuration file changes; after the last
\* thread has read the cap this makes no difference any more.
Reconfigure ==
  /\ \E j \in Jobs : place[j] = "new"
  /\ cap' \in Caps \ {cap}
  /\ UNCHANGED <<semaphores, permits, capRead, home, held, pageVars, place>>

Wanted(j) == Least(Requested, Most(1, pages[j]))

\* Without a pool; an empty document is done at once.
ReadFrom(j) == MoveTo(j, IF pages[j] = 0 THEN "ending" ELSE "reading")

\* The thread starts; with an allocation, it reads the cap outside the lock.
OpenDocument(j) ==
  /\ place[j] = "new"
  /\ IF Wanted(j) <= 1 \/ pages[j] < SerialBelow
       THEN ReadFrom(j) /\ UNCHANGED capRead
       ELSE MoveTo(j, "resolving") /\ capRead' = [capRead EXCEPT ![j] = cap]
  /\ outcome' = [outcome EXCEPT ![j] = IF pages[j] = 0 THEN "complete" ELSE @]
  /\ UNCHANGED <<cap, semaphores, permits, home, held, pages, pending, upTo, emitted>>

InForce(size) == semaphores # <<>> /\ semaphores[Len(semaphores)] = size

\* _process_worker_semaphore, under its lock.
GetSemaphore(j) ==
  /\ place[j] = "resolving"
  /\ IF InForce(capRead[j])
       THEN UNCHANGED <<semaphores, permits>>
       ELSE /\ semaphores' = Append(semaphores, capRead[j])
            /\ permits' = permits \cup ({Len(semaphores) + 1} \X (1 .. capRead[j]))
  /\ home' = [home EXCEPT ![j] = Len(semaphores')]
  /\ MoveTo(j, "taking")
  /\ UNCHANGED <<cap, capRead, held, pageVars>>

\* acquire(blocking=False) succeeds.
TakeSlot(j) ==
  /\ place[j] = "taking"
  /\ \E p \in FreeFor(j) :
       /\ permits' = permits \ {p}
       /\ held' = [held EXCEPT ![j] = @ \cup {p}]
       /\ MoveTo(j, IF Cardinality(held[j]) + 1 = Wanted(j) THEN "granted" ELSE "taking")
  /\ UNCHANGED <<cap, semaphores, capRead, home, pageVars>>

\* Slip: a thread that got fewer slots than it asked for waits for the rest.
NoMoreSlots_Waits(j) ==
  /\ place[j] = "taking"
  /\ FreeFor(j) = {}
  /\ UNCHANGED <<slotVars, pageVars, place>>

\* Slip: it keeps its slots while it waits for another one.
NoMoreSlots_Holds(j) ==
  /\ place[j] = "taking"
  /\ FreeFor(j) = {}
  /\ MoveTo(j, "blocked")
  /\ UNCHANGED <<slotVars, pageVars>>

\* It fails: the thread goes on with what it has, or waits for one slot.
NoMoreSlots(j) ==
  /\ place[j] = "taking"
  /\ FreeFor(j) = {}
  /\ MoveTo(j, IF held[j] = {} THEN "blocked" ELSE "granted")
  /\ UNCHANGED <<slotVars, pageVars>>

\* acquire(blocking=True) returns.
SlotAtLast(j) ==
  /\ place[j] = "blocked"
  /\ \E p \in FreeFor(j) :
       /\ permits' = permits \ {p}
       /\ held' = [held EXCEPT ![j] = {p}]
  /\ MoveTo(j, "granted")
  /\ UNCHANGED <<cap, semaphores, capRead, home, pageVars>>

\* Slip: the slot is given to the semaphore in use now.
GiveBack_ToNew(j) ==
  /\ place[j] = "releasing"
  /\ IF held[j] = {}
       THEN MoveTo(j, "ended") /\ UNCHANGED <<permits, held>>
       ELSE /\ \E p \in held[j] :
                 /\ permits' = permits \cup {<<Len(semaphores), p[2]>>}
                 /\ held' = [held EXCEPT ![j] = @ \ {p}]
            /\ UNCHANGED place
  /\ UNCHANGED <<cap, semaphores, capRead, home, pageVars>>

\* One release() of the finally block, or its end.
GiveBack(j) ==
  /\ place[j] = "releasing"
  /\ IF held[j] = {}
       THEN MoveTo(j, "ended") /\ UNCHANGED <<permits, held>>
       ELSE /\ \E p \in held[j] :
                 /\ permits' = permits \cup {p}
                 /\ held' = [held EXCEPT ![j] = @ \ {p}]
            /\ UNCHANGED place
  /\ UNCHANGED <<cap, semaphores, capRead, home, pageVars>>

(* ------------------------------- the pages ----------------------------- *)
Granted(j) == Cardinality(held[j])

\* The indices first .. last - 1.
Indices(first, last) == [i \in 1 .. last - first |-> first + i - 1]

\* One slot is no gain, and the pool may not start.
StartPages(j) ==
  /\ place[j] = "granted"
  /\ \/ ReadFrom(j)
     \/ Granted(j) > 1 /\ MoveTo(j, "filling")
  /\ UNCHANGED <<slotVars, pageVars>>

Stop(j, how) ==
  /\ outcome' = [outcome EXCEPT ![j] = how]
  /\ MoveTo(j, "ending")

\* The next page without a pool: it is yielded, or reading it raises.
ReadPage(j) ==
  /\ place[j] = "reading"
  /\ \/ /\ emitted' = [emitted EXCEPT ![j] = Append(@, Len(@))]
        /\ IF Len(emitted[j]) + 1 = pages[j]
             THEN Stop(j, "complete")
             ELSE UNCHANGED <<outcome, place>>
     \/ Stop(j, "raised") /\ UNCHANGED emitted
  /\ UNCHANGED <<slotVars, pages, pending, upTo>>

ChunkSize(j) ==
  Least(ChunkLimit, Most(1, (pages[j] + Granted(j) - 1) \div Granted(j)))

NextChunk(j) ==
  [first |-> upTo[j], last |-> Least(upTo[j] + ChunkSize(j), pages[j]),
   answer |-> "running"]

\* submit_next on a deque; a submission that raises leaves a future that has
\* raised, which is a chunk that ends at once.
SubmitNext(j, chunks) ==
  IF upTo[j] < pages[j]
    THEN /\ pending' = [pending EXCEPT ![j] = Append(chunks, NextChunk(j))]
         /\ upTo' = [upTo EXCEPT ![j] = NextChunk(j).last]
    ELSE /\ pending' = [pending EXCEPT ![j] = chunks]
         /\ UNCHANGED upTo

\* Chunks are submitted until the window is full or there are no more.
FillWindow(j) ==
  /\ place[j] = "filling"
  /\ IF Len(pending[j]) < ChunksPerWorker * Granted(j) /\ upTo[j] < pages[j]
       THEN SubmitNext(j, pending[j]) /\ UNCHANGED place
       ELSE MoveTo(j, "consuming") /\ UNCHANGED <<pending, upTo>>
  /\ UNCHANGED <<slotVars, pages, emitted, outcome>>

\* A process ends a chunk, in whichever order: with its pages; or else with
\* other pages or an exception, also because the pool is broken or has
\* cancelled it.
ChunkEnds(j) ==
  /\ \E i \in DOMAIN pending[j] :
       /\ pending[j][i].answer = "running"
       /\ \E answer \in {"right", "wrong"} :
            pending' = [pending EXCEPT ![j][i].answer = answer]
  /\ UNCHANGED <<slotVars, pages, upTo, emitted, outcome, place>>

\* The indices in an answer; a wrong one lacks the first page.
Returned(chunk) ==
  IF chunk.answer = "wrong" THEN Indices(chunk.first + 1, chunk.last)
                            ELSE Indices(chunk.first, chunk.last)

Yield(j, indices) == emitted' = [emitted EXCEPT ![j] = @ \o indices]

\* Slip: the pages of an answer are not compared with the chunk's range.
TakeHead_Unchecked(j) ==
  /\ place[j] = "consuming"
  /\ pending[j] # <<>>
  /\ Head(pending[j]).answer # "running"
  /\ Yield(j, Returned(Head(pending[j])))
  /\ SubmitNext(j, Tail(pending[j]))
  /\ UNCHANGED <<slotVars, pages, outcome, place>>

\* The head of the deque is awaited.  A chunk that did not return its very
\* pages is read again here, without the pool, which may raise.
TakeHead(j) ==
  /\ place[j] = "consuming"
  /\ pending[j] # <<>>
  /\ LET head == Head(pending[j])
         range == Indices(head.first, head.last)
     IN /\ head.answer # "running"
        /\ \/ /\ Yield(j, range)
              /\ SubmitNext(j, Tail(pending[j]))
              /\ UNCHANGED <<outcome, place>>
           \/ /\ Returned(head) # range
              /\ Stop(j, "raised")
              /\ UNCHANGED <<pending, upTo, emitted>>
  /\ UNCHANGED <<slotVars, pages>>

AllConsumed(j) ==
  /\ place[j] = "consuming"
  /\ pending[j] = <<>>
  /\ Stop(j, "complete")
  /\ UNCHANGED <<slotVars, pages, pending, upTo, emitted>>

\* The finally block: pool.shutdown(wait=True, cancel_futures=True).
EndPool(j) ==
  /\ place[j] = "ending"
  /\ \A i \in DOMAIN pending[j] : pending[j][i].answer # "running"
  /\ pending' = [pending EXCEPT ![j] = <<>>]
  /\ MoveTo(j, "releasing")
  /\ UNCHANGED <<slotVars, pages, upTo, emitted, outcome>>
-----------------------------------------------------------------------------
\* The thread of a job once it has started.
ThreadStep(j) ==
  \/ GetSemaphore(j) \/ TakeSlot(j) \/ NoMoreSlots(j) \/ SlotAtLast(j)
  \/ StartPages(j) \/ ReadPage(j) \/ FillWindow(j)
  \/ TakeHead(j) \/ AllConsumed(j) \/ EndPool(j) \/ GiveBack(j)

PagingNext ==
  \/ Reconfigure
  \/ \E j \in Jobs : OpenDocument(j) \/ ThreadStep(j) \/ ChunkEnds(j)

PagingSpec == PagingInit /\ [][PagingNext]_pagingVars
-----------------------------------------------------------------------------
Chunks == [first : Nat, last : Nat, answer : Answers]

\* The types of the variables.
PagingTypeOK ==
  /\ cap \in Caps
  /\ semaphores \in Seq(Caps)
  /\ permits \subseteq AllPermits
  /\ pages \in [Jobs -> PageCounts]
  /\ place \in [Jobs -> Places]
  /\ capRead \in [Jobs -> Caps \cup {0}]
  /\ home \in [Jobs -> {0} \cup DOMAIN semaphores]
  /\ held \in [Jobs -> SUBSET AllPermits]
  /\ pending \in [Jobs -> Seq(Chunks)]
  /\ upTo \in [Jobs -> Nat]
  /\ emitted \in [Jobs -> Seq(Nat)]
  /\ outcome \in [Jobs -> {"none", "complete", "raised"}]

\* Every permit of every semaphore, also of one that has been replaced, is
\* free or held by one thread, which holds none when it has ended: so no
\* semaphore lends more slots than its size, and none is lost.
SlotsConserved ==
  /\ permits \cup UNION {held[j] : j \in Jobs} = AllPermits
  /\ \A j \in Jobs :
       /\ held[j] \cap permits = {}
       /\ \A p \in held[j] : p[1] = home[j]
       /\ \A other \in Jobs \ {j} : held[j] \cap held[other] = {}
       /\ place[j] \in {"new", "resolving", "blocked", "ended"} => held[j] = {}

\* What a thread waits for can come: the semaphore it has got, even one that
\* has been replaced, has a slot that is free or lent to a thread that does
\* not wait itself.  So threads never wait for each other in a circle, however
\* the cap changes between their reading it and their taking slots.
SlotCanCome ==
  \A j \in Jobs : place[j] = "blocked" =>
    \/ FreeFor(j) # {}
    \/ \E other \in Jobs :
         /\ place[other] \notin {"blocked", "ended"}
         /\ \E p \in held[other] : p[1] = home[j]

\* The pages come out in the order of the document, without gap or repetition,
\* whatever the pool does, and all of them unless the iteration raised.
PagesInOrder ==
  \A j \in Jobs :
    /\ emitted[j] = Indices(0, Len(emitted[j]))
    /\ Len(emitted[j]) <= pages[j]
    /\ outcome[j] = "complete" => Len(emitted[j]) = pages[j]
=============================================================================
