---------------------------- MODULE ParseAdmission ----------------------------
(***************************************************************************)
(* src/docmirror/server/parse_admission_queue.py: the process-local FIFO   *)
(* queue that grants parser-process slots to the requests of one API       *)
(* worker.                                                                 *)
(*                                                                         *)
(* Everything runs on one asyncio event loop.  _state_lock is never held   *)
(* across an await, so acquiring it never suspends and each of acquire,    *)
(* release, shutdown, startup and _remove_waiter is one atomic step.  The  *)
(* only suspension point is `await wait_for(shield(waiter.future))`: what  *)
(* ends the wait (the future, the timer, a cancellation of the calling     *)
(* task) and the task's resumption are different steps, and every other    *)
(* task may run between them.                                              *)
(*                                                                         *)
(* An operator X_Slip next to X is X with a plausible slip of the code: it *)
(* takes no part in the specification and serves to confirm that the       *)
(* properties below notice such a slip.                                    *)
(***************************************************************************)
EXTENDS Naturals, Sequences, FiniteSets, SequencesExt

CONSTANTS Requests,    \* the calls of acquire(), one per task id
          MaxActive,   \* DOCMIRROR_MAX_ACTIVE_PARSES; 0 is unlimited
          MaxQueued    \* DOCMIRROR_MAX_QUEUED_PARSES

ASSUME LimitsAssumption == MaxActive \in Nat /\ MaxQueued \in Nat

VARIABLES
  activeSlots,  \* self._active_slots
  waiters,      \* self._waiters
  closing,      \* self._closing
  future,       \* waiter.future of each request: "none" before it queues
  pc,           \* where each caller of acquire() stands
  wake,         \* what else ended its wait_for before it resumed
  ticket        \* history: the order in which acquire() accepted callers

queueVars == <<activeSlots, waiters, future>>
vars == <<activeSlots, waiters, closing, future, pc, wake, ticket>>

Futures == {"none", "pending", "result", "exception", "cancelled"}
Waiting == "waiting"
Outcomes == {"held", "released", "full", "timeout", "refused", "cancelled"}
-----------------------------------------------------------------------------
Init ==
  /\ activeSlots = 0
  /\ waiters = <<>>
  /\ closing = FALSE
  /\ future = [r \in Requests |-> "none"]
  /\ pc = [r \in Requests |-> "new"]
  /\ wake = [r \in Requests |-> "none"]
  /\ ticket = [r \in Requests |-> 0]

Goto(r, place) == pc' = [pc EXCEPT ![r] = place]

TakeTicket(r) ==
  ticket' = [ticket EXCEPT ![r] = 1 + Cardinality({q \in Requests : ticket[q] > 0})]

(* ------------------------- acquire: first half ------------------------- *)
CanGrantAtOnce ==
  \/ MaxActive = 0
  \/ activeSlots < MaxActive /\ waiters = <<>>

\* acquire() of a queue that is shutting down raises.
AcquireRefused(r) ==
  /\ pc[r] = "new"
  /\ closing
  /\ Goto(r, "refused")
  /\ UNCHANGED <<queueVars, closing, wake, ticket>>

\* Slip: the flag _closing is not looked at.
AcquireNow_Open(r) ==
  /\ pc[r] = "new"
  /\ CanGrantAtOnce
  /\ activeSlots' = activeSlots + 1
  /\ Goto(r, "held")
  /\ TakeTicket(r)
  /\ UNCHANGED <<waiters, closing, future, wake>>

\* acquire() takes a free slot and returns without suspending.
AcquireNow(r) ==
  /\ pc[r] = "new"
  /\ ~closing
  /\ CanGrantAtOnce
  /\ activeSlots' = activeSlots + 1
  /\ Goto(r, "held")
  /\ TakeTicket(r)
  /\ UNCHANGED <<waiters, closing, future, wake>>

\* acquire() raises ParseQueueFullError.
AcquireFull(r) ==
  /\ pc[r] = "new"
  /\ ~closing
  /\ ~CanGrantAtOnce
  /\ Len(waiters) >= MaxQueued
  /\ Goto(r, "full")
  /\ UNCHANGED <<queueVars, closing, wake, ticket>>

\* acquire() appends a waiter and suspends.
AcquireQueue(r) ==
  /\ pc[r] = "new"
  /\ ~closing
  /\ ~CanGrantAtOnce
  /\ Len(waiters) < MaxQueued
  /\ waiters' = Append(waiters, r)
  /\ future' = [future EXCEPT ![r] = "pending"]
  /\ Goto(r, Waiting)
  /\ TakeTicket(r)
  /\ UNCHANGED <<activeSlots, closing, wake>>

(* --------------------- what may end the wait early --------------------- *)
\* The wait_for timer fires, perhaps after the future was resolved but
\* before the caller ran again.
Expire(r) ==
  /\ pc[r] = Waiting
  /\ wake[r] = "none"
  /\ wake' = [wake EXCEPT ![r] = "timeout"]
  /\ UNCHANGED <<queueVars, closing, pc, ticket>>

\* The calling task is cancelled; a cancellation from outside wins over the
\* timer, which then reports CancelledError and not TimeoutError.
Cancel(r) ==
  /\ pc[r] = Waiting
  /\ wake[r] # "cancel"
  /\ wake' = [wake EXCEPT ![r] = "cancel"]
  /\ UNCHANGED <<queueVars, closing, pc, ticket>>

(* --------------- effects shared by acquire and release ----------------- *)
Freed == IF activeSlots = 0 THEN 0 ELSE activeSlots - 1

MayHandOver == ~closing /\ (MaxActive = 0 \/ Freed < MaxActive)

\* The first waiter whose future is not done: the loop skips the others.
IsNextWaiter(i) ==
  /\ future[waiters[i]] = "pending"
  /\ \A j \in 1 .. (i - 1) : future[waiters[j]] # "pending"

\* Slip: pop() for popleft().
ReleaseSlot_Pop ==
  \/ /\ MayHandOver /\ waiters # <<>>
     /\ waiters' = Front(waiters)
     /\ future' = [future EXCEPT ![Last(waiters)] = "result"]
     /\ UNCHANGED activeSlots
  \/ /\ ~MayHandOver \/ waiters = <<>>
     /\ activeSlots' = Freed
     /\ UNCHANGED <<waiters, future>>

\* release(): the slot goes straight to the FIFO head, or is freed.
ReleaseSlot ==
  \/ /\ ~MayHandOver
     /\ activeSlots' = Freed
     /\ UNCHANGED <<waiters, future>>
  \/ /\ MayHandOver
     /\ ~ \E i \in DOMAIN waiters : IsNextWaiter(i)
     /\ activeSlots' = Freed
     /\ waiters' = <<>>
     /\ UNCHANGED future
  \/ /\ MayHandOver
     /\ \E i \in DOMAIN waiters :
          /\ IsNextWaiter(i)
          /\ waiters' = SubSeq(waiters, i + 1, Len(waiters))
          /\ future' = [future EXCEPT ![waiters[i]] = "result"]
     /\ activeSlots' = Freed + 1

Queued == ToSet(waiters)
InQueue(r) == r \in Queued

\* _remove_waiter() of a waiter that is still in the queue.
RemoveWaiter(r) ==
  /\ \E i \in DOMAIN waiters :
       /\ waiters[i] = r
       /\ waiters' = RemoveAt(waiters, i)
  /\ future' = [future EXCEPT ![r] = IF @ = "pending" THEN "cancelled" ELSE @]
  /\ UNCHANGED activeSlots

(* ------------------------- acquire: second half ------------------------ *)
\* wait_for returns what the future holds: a slot, or the shutdown error.
ResumeResolved(r) ==
  /\ pc[r] = Waiting
  /\ wake[r] = "none"
  /\ future[r] \in {"result", "exception"}
  /\ Goto(r, IF future[r] = "result" THEN "held" ELSE "refused")
  /\ UNCHANGED <<queueVars, closing, wake, ticket>>

\* TimeoutError while still queued: leave the queue and raise.
ResumeTimedOut(r) ==
  /\ pc[r] = Waiting
  /\ wake[r] = "timeout"
  /\ InQueue(r)
  /\ RemoveWaiter(r)
  /\ Goto(r, "timeout")
  /\ UNCHANGED <<closing, wake, ticket>>

\* Slip: the error of a shutdown is not expected here.
ResumeTooLate_ResultOnly(r) ==
  /\ pc[r] = Waiting
  /\ wake[r] = "timeout"
  /\ ~InQueue(r)
  /\ future[r] = "result"
  /\ Goto(r, "held")
  /\ UNCHANGED <<queueVars, closing, wake, ticket>>

\* Slip: a timeout is a timeout, whatever was granted meanwhile.
ResumeTooLate_Dropped(r) ==
  /\ pc[r] = Waiting
  /\ wake[r] = "timeout"
  /\ ~InQueue(r)
  /\ Goto(r, "timeout")
  /\ UNCHANGED <<queueVars, closing, wake, ticket>>

\* TimeoutError, but the waiter was popped meanwhile: `await waiter.future`
\* finds it done, so the caller keeps the slot or gets the shutdown error.
ResumeTooLate(r) ==
  /\ pc[r] = Waiting
  /\ wake[r] = "timeout"
  /\ ~InQueue(r)
  /\ Goto(r, IF future[r] = "result" THEN "held" ELSE "refused")
  /\ UNCHANGED <<queueVars, closing, wake, ticket>>

\* Slip: a slot granted meanwhile is not returned.
ResumeCancelled_Leaks(r) ==
  /\ pc[r] = Waiting
  /\ wake[r] = "cancel"
  /\ IF InQueue(r) THEN RemoveWaiter(r) ELSE UNCHANGED queueVars
  /\ Goto(r, "cancelled")
  /\ UNCHANGED <<closing, wake, ticket>>

\* CancelledError: leave the queue, or return a slot granted meanwhile.
ResumeCancelled(r) ==
  /\ pc[r] = Waiting
  /\ wake[r] = "cancel"
  /\ \/ InQueue(r) /\ RemoveWaiter(r)
     \/ ~InQueue(r) /\ future[r] = "result" /\ ReleaseSlot
     \/ ~InQueue(r) /\ future[r] # "result" /\ UNCHANGED queueVars
  /\ Goto(r, "cancelled")
  /\ UNCHANGED <<closing, wake, ticket>>

\* Before Python 3.12 (3.10 and 3.11 are supported) wait_for returns the
\* result of a future that is already done and drops the cancellation.
ResumeCancelDropped(r) ==
  /\ pc[r] = Waiting
  /\ wake[r] = "cancel"
  /\ future[r] \in {"result", "exception"}
  /\ Goto(r, IF future[r] = "result" THEN "held" ELSE "refused")
  /\ UNCHANGED <<queueVars, closing, wake, ticket>>

Resume(r) ==
  \/ ResumeResolved(r)
  \/ ResumeTimedOut(r)
  \/ ResumeTooLate(r)
  \/ ResumeCancelled(r)
  \/ ResumeCancelDropped(r)

(* ---------------------- release, shutdown, startup --------------------- *)
Release(r) ==
  /\ pc[r] = "held"
  /\ ReleaseSlot
  /\ Goto(r, "released")
  /\ UNCHANGED <<closing, wake, ticket>>

\* shutdown(): refuse newcomers and fail everyone still queued.
CloseQueue ==
  /\ closing' = TRUE
  /\ waiters' = <<>>
  /\ future' = [r \in Requests |->
                  IF InQueue(r) /\ future[r] = "pending" THEN "exception" ELSE future[r]]
  /\ UNCHANGED activeSlots

Shutdown ==
  /\ ~closing
  /\ CloseQueue
  /\ UNCHANGED <<pc, wake, ticket>>

Startup ==
  /\ closing
  /\ closing' = FALSE
  /\ UNCHANGED <<queueVars, pc, wake, ticket>>

Acquire(r) ==
  \/ AcquireRefused(r)
  \/ AcquireNow(r)
  \/ AcquireFull(r)
  \/ AcquireQueue(r)

Next ==
  \/ \E r \in Requests :
       Acquire(r) \/ Expire(r) \/ Cancel(r) \/ Resume(r) \/ Release(r)
  \/ Shutdown
  \/ Startup

Spec == Init /\ [][Next]_vars
-----------------------------------------------------------------------------
\* The owners of a slot: callers that run, and callers whose future was
\* resolved with a slot but which have not resumed yet.
Holders == {r \in Requests : pc[r] = "held" \/ (pc[r] = Waiting /\ future[r] = "result")}

\* Type invariant.
TypeOK ==
  /\ activeSlots \in Nat
  /\ waiters \in Seq(Requests)
  /\ closing \in BOOLEAN
  /\ future \in [Requests -> Futures]
  /\ pc \in [Requests -> {"new", Waiting} \cup Outcomes]
  /\ wake \in [Requests -> {"none", "timeout", "cancel"}]
  /\ ticket \in [Requests -> Nat]

\* The counter _active_slots counts exactly the owners of a slot: no race of
\* a grant with a timeout, a cancellation or a shutdown leaks a slot or
\* returns one twice (which `max(0, ...)` in release would hide).
SlotsAccounted == activeSlots = Cardinality(Holders)

\* At most DOCMIRROR_MAX_ACTIVE_PARSES slots are ever given out.
WithinLimit == MaxActive > 0 => Cardinality(Holders) <= MaxActive

\* The queue holds each caller that still hopes for a slot exactly once:
\* nobody is forgotten and no abandoned waiter takes up a place.
QueueIsTheWaiting ==
  /\ IsInjective(waiters)
  /\ Queued = {r \in Requests : pc[r] = Waiting /\ future[r] = "pending"}
  /\ Len(waiters) <= MaxQueued

\* No lost wake-up: somebody waits only while every slot is taken.
NoIdleSlot == waiters # <<>> => MaxActive > 0 /\ activeSlots >= MaxActive

\* Strict FIFO: whoever owns or owned a slot asked for it before everybody
\* who is still waiting.
Served == {r \in Requests : pc[r] \in {"held", "released"} \/ future[r] = "result"}
FifoOrder == \A r \in Served, w \in Queued : ticket[r] < ticket[w]

\* While the queue is closing nobody becomes the owner of a slot.
NoGrantWhileClosing == [][closing => Holders' \subseteq Holders]_vars

\* A caller that waits is answered, also when its slot, its timer, its
\* cancellation and a shutdown race each other.  (The fairness it needs is
\* that of the process manager, which gives the slots back.)
EveryCallerAnswered == \A r \in Requests : pc[r] = Waiting ~> pc[r] \in Outcomes

\* A closing queue is empty, so nobody is left behind when it reopens.
ClosedIsEmpty == closing => waiters = <<>>

\* The callers that acquire() accepted: at once or into the queue.
Ticketed == {r \in Requests : ticket[r] > 0}

\* The inductive invariant behind the slot properties above ...
AdmissionInv ==
  /\ TypeOK
  /\ QueueIsTheWaiting
  /\ ClosedIsEmpty
  /\ NoIdleSlot
  /\ IsFiniteSet(Holders)
  /\ SlotsAccounted
  /\ WithinLimit
  /\ IsFiniteSet(Ticketed)

\* ... and, on top of it, the one behind FifoOrder.
TicketsIssued ==
  \A r \in Requests :
    /\ ticket[r] <= Cardinality(Ticketed)
    /\ pc[r] = "new" => ticket[r] = 0 /\ future[r] = "none"

QueueInTicketOrder ==
  \A i, j \in DOMAIN waiters : i < j => ticket[waiters[i]] < ticket[waiters[j]]

FifoInv == TicketsIssued /\ QueueInTicketOrder /\ FifoOrder

(* The queue implements the slot service: a granted future is already the  *)
(* hand-over of the slot, and resuming the caller changes nothing.         *)
Service == INSTANCE SlotService
             WITH holders <- Holders, line <- waiters, open <- ~closing
ImplementsSlotService == Service!SSpec
=============================================================================
