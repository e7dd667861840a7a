------------------------ MODULE ParseAdmission_proofs ------------------------
(***************************************************************************)
(* Proofs about ParseAdmission, for every set of requests and every limit. *)
(***************************************************************************)
EXTENDS ParseAdmission, FiniteSetTheorems, SequenceTheorems, TLAPS

LEMMA RemoveAtProperties ==
  ASSUME NEW S, NEW s \in Seq(S), NEW i \in DOMAIN s
  PROVE  /\ RemoveAt(s, i) \in Seq(S)
         /\ Len(RemoveAt(s, i)) = Len(s) - 1
         /\ \A j \in 1 .. Len(s) - 1 :
              RemoveAt(s, i)[j] = IF j < i THEN s[j] ELSE s[j + 1]
<1> DEFINE front == SubSeq(s, 1, i - 1)
           back  == SubSeq(s, i + 1, Len(s))
<1>0. DOMAIN s = 1 .. Len(s) /\ Len(s) \in Nat
  BY LenProperties
<1>1. /\ front \in Seq(S)
      /\ Len(front) = i - 1
      /\ \A j \in 1 .. i - 1 : front[j] = s[j]
  BY <1>0, SubSeqProperties, ElementOfSeq
<1>2. /\ back \in Seq(S)
      /\ Len(back) = Len(s) - i
      /\ \A j \in 1 .. Len(s) - i : back[j] = s[j + i]
  BY <1>0, SubSeqProperties, ElementOfSeq
<1>3. RemoveAt(s, i) = front \o back
  BY DEF RemoveAt
<1> HIDE DEF front, back
<1>4. /\ front \o back \in Seq(S)
      /\ Len(front \o back) = Len(s) - 1
      /\ \A j \in 1 .. Len(s) - 1 :
           (front \o back)[j] = IF j <= i - 1 THEN front[j] ELSE back[j - (i - 1)]
  <2>1. Len(front) + Len(back) = Len(s) - 1
    BY <1>0, <1>1, <1>2
  <2>2. /\ front \o back \in Seq(S)
        /\ Len(front \o back) = Len(front) + Len(back)
        /\ \A j \in 1 .. Len(front) + Len(back) :
             (front \o back)[j] = IF j <= Len(front) THEN front[j]
                                  ELSE back[j - Len(front)]
    BY <1>1, <1>2, ConcatProperties
  <2>3. Len(front) = i - 1
    BY <1>1
  <2> QED BY <2>1, <2>2, <2>3
<1>5. ASSUME NEW j \in 1 .. Len(s) - 1
      PROVE  (front \o back)[j] = IF j < i THEN s[j] ELSE s[j + 1]
  <2>1. CASE j < i
    BY <2>1, <1>0, <1>1, <1>4
  <2>2. CASE ~(j < i)
    <3>1. j - (i - 1) \in 1 .. Len(s) - i /\ (j - (i - 1)) + i = j + 1
      BY <2>2, <1>0
    <3>2. back[j - (i - 1)] = s[j + 1]
      BY <3>1, <1>2
    <3> QED BY <2>2, <3>2, <1>0, <1>4
  <2> QED BY <2>1, <2>2
<1> QED
  BY <1>3, <1>4, <1>5

\* The members of a sequence without repetitions, when one is appended ...
LEMMA AppendMember ==
  ASSUME NEW S, NEW s \in Seq(S), NEW x \in S,
         IsInjective(s), x \notin ToSet(s)
  PROVE  /\ Append(s, x) \in Seq(S)
         /\ Len(Append(s, x)) = Len(s) + 1
         /\ IsInjective(Append(s, x))
         /\ ToSet(Append(s, x)) = ToSet(s) \cup {x}
<1> DEFINE t == Append(s, x)
<1>1. /\ Len(s) \in Nat
      /\ DOMAIN s = 1 .. Len(s)
  BY LenProperties
<1>2. /\ t \in Seq(S)
      /\ Len(t) = Len(s) + 1
      /\ \A i \in 1 .. Len(s) : t[i] = s[i]
      /\ t[Len(s) + 1] = x
  BY AppendProperties
<1>3. DOMAIN t = 1 .. Len(s) + 1
  BY <1>2, LenProperties
<1> HIDE DEF t
<1>4. IsInjective(t)
  BY <1>1, <1>2, <1>3 DEF IsInjective, ToSet
<1>5. ToSet(t) = ToSet(s) \cup {x}
  BY <1>1, <1>2, <1>3 DEF ToSet
<1> QED
  BY <1>2, <1>4, <1>5 DEF t

\* ... and when one is removed.
LEMMA RemoveMember ==
  ASSUME NEW S, NEW s \in Seq(S), NEW k \in DOMAIN s, IsInjective(s)
  PROVE  /\ RemoveAt(s, k) \in Seq(S)
         /\ Len(RemoveAt(s, k)) = Len(s) - 1
         /\ IsInjective(RemoveAt(s, k))
         /\ ToSet(RemoveAt(s, k)) = ToSet(s) \ {s[k]}
<1> DEFINE t == RemoveAt(s, k)
<1>1. /\ Len(s) \in Nat
      /\ DOMAIN s = 1 .. Len(s)
  BY LenProperties
<1>2. /\ t \in Seq(S)
      /\ Len(t) = Len(s) - 1
      /\ \A j \in 1 .. Len(s) - 1 : t[j] = IF j < k THEN s[j] ELSE s[j + 1]
  BY RemoveAtProperties
<1>3. DOMAIN t = 1 .. Len(s) - 1
  BY <1>2, LenProperties
<1> HIDE DEF t
<1>4. IsInjective(t)
  <2> SUFFICES ASSUME NEW a \in DOMAIN t, NEW b \in DOMAIN t, t[a] = t[b]
               PROVE  a = b
    BY DEF IsInjective
  <2>1. /\ a \in 1 .. Len(s) - 1
        /\ b \in 1 .. Len(s) - 1
        /\ k \in Nat
    BY <1>1, <1>3
  <2>2. PICK i \in DOMAIN s : t[a] = s[i] /\ i = IF a < k THEN a ELSE a + 1
    BY <1>1, <1>2, <2>1
  <2>3. PICK j \in DOMAIN s : t[b] = s[j] /\ j = IF b < k THEN b ELSE b + 1
    BY <1>1, <1>2, <2>1
  <2>4. i = j
    BY <2>2, <2>3 DEF IsInjective
  <2> QED
    BY <2>1, <2>2, <2>3, <2>4
<1>5. ASSUME NEW y, NEW i \in DOMAIN t, t[i] = y
      PROVE  (\E j \in DOMAIN s : s[j] = y) /\ y # s[k]
  BY <1>1, <1>2, <1>3, <1>5 DEF IsInjective
<1>6. ASSUME NEW y, NEW j \in DOMAIN s, s[j] = y, y # s[k]
      PROVE  \E i \in DOMAIN t : t[i] = y
  <2>1. CASE j < k
    BY <2>1, <1>1, <1>2, <1>3, <1>6
  <2>2. CASE ~(j < k)
    <3>1. j - 1 \in DOMAIN t /\ ~(j - 1 < k) /\ (j - 1) + 1 = j
      BY <2>2, <1>1, <1>3, <1>6
    <3> QED BY <3>1, <1>2, <1>3, <1>6
  <2> QED BY <2>1, <2>2
<1>7. ToSet(t) = ToSet(s) \ {s[k]}
  BY <1>5, <1>6 DEF ToSet
<1> QED
  BY <1>2, <1>4, <1>7 DEF t

\* Popping the head is removing the first element.
LEMMA PopHead ==
  ASSUME NEW S, NEW s \in Seq(S), s # <<>>
  PROVE  /\ 1 \in DOMAIN s
         /\ SubSeq(s, 2, Len(s)) = RemoveAt(s, 1)
         /\ SubSeq(s, 2, Len(s)) = Tail(s)
         /\ s[1] = Head(s)
<1>1. Len(s) \in Nat \ {0} /\ DOMAIN s = 1 .. Len(s)
  BY LenProperties, EmptySeq
<1>2. SubSeq(s, 2, Len(s)) = Tail(s)
  BY TailIsSubSeq
<1>3. Tail(s) \in Seq(S)
  BY HeadTailProperties
<1>4. SubSeq(s, 1, 1 - 1) = <<>>
  BY SubSeqEmpty
<1>5. RemoveAt(s, 1) = <<>> \o SubSeq(s, 2, Len(s))
  BY <1>4 DEF RemoveAt
<1>6. RemoveAt(s, 1) = SubSeq(s, 2, Len(s))
  BY <1>2, <1>3, <1>5, ConcatEmptySeq
<1> QED
  BY <1>1, <1>2, <1>6
-----------------------------------------------------------------------------
\* In a state of the invariant every waiter in the queue is pending.
LEMMA QueuedArePending ==
  ASSUME AdmissionInv, NEW i \in DOMAIN waiters
  PROVE  /\ waiters[i] \in Requests
         /\ pc[waiters[i]] = Waiting
         /\ future[waiters[i]] = "pending"
         /\ waiters[i] \notin Holders
<1>1. waiters[i] \in Requests
  BY ElementOfSeq, LenProperties DEF AdmissionInv, TypeOK
<1>2. waiters[i] \in Queued
  BY DEF Queued, ToSet
<1> QED
  BY <1>1, <1>2 DEF AdmissionInv, QueueIsTheWaiting, Holders, Waiting

\* The two things release() can do for the owner of a slot: free the slot,
\* with nobody left waiting, or hand it to the head of the queue.
LEMMA ReleaseFreesOrHandsOver ==
  ASSUME AdmissionInv, NEW h \in Holders, ReleaseSlot
  PROVE  /\ activeSlots \in Nat \ {0}
         /\ \/ /\ waiters = <<>>
               /\ activeSlots' = activeSlots - 1
               /\ UNCHANGED <<waiters, future>>
            \/ /\ waiters # <<>>
               /\ ~closing
               /\ activeSlots' = activeSlots
               /\ waiters' = RemoveAt(waiters, 1)
               /\ future' = [future EXCEPT ![waiters[1]] = "result"]
<1>1. activeSlots \in Nat \ {0}
  <2>1. Cardinality(Holders) # 0
    BY FS_EmptySet DEF AdmissionInv
  <2> QED BY <2>1 DEF AdmissionInv, TypeOK, SlotsAccounted
<1>2. Freed = activeSlots - 1
  BY <1>1 DEF Freed
<1>3. MayHandOver \/ closing
  BY <1>1, <1>2, LimitsAssumption DEF MayHandOver, AdmissionInv, WithinLimit, SlotsAccounted
<1>4. waiters # <<>> => IsNextWaiter(1) /\ 1 \in DOMAIN waiters
  BY QueuedArePending, PopHead DEF IsNextWaiter, AdmissionInv, TypeOK
<1>5. ASSUME NEW i \in DOMAIN waiters, IsNextWaiter(i)
      PROVE  i = 1 /\ waiters # <<>>
  <2>1. i \in 1 .. Len(waiters) /\ Len(waiters) \in Nat
    BY <1>5, LenProperties DEF AdmissionInv, TypeOK
  <2>2. waiters # <<>>
    BY <2>1, EmptySeq
  <2>3. 1 \in DOMAIN waiters
    BY <1>4, <2>2
  <2>4. ~(1 \in 1 .. i - 1)
    BY <1>5, <2>3, QueuedArePending DEF IsNextWaiter
  <2> QED BY <2>1, <2>2, <2>4
<1>6. CASE ~MayHandOver
  BY <1>1, <1>2, <1>3, <1>6 DEF ReleaseSlot, AdmissionInv, ClosedIsEmpty
<1>7. CASE MayHandOver /\ ~ \E i \in DOMAIN waiters : IsNextWaiter(i)
  BY <1>1, <1>2, <1>4, <1>7 DEF ReleaseSlot
<1>8. CASE MayHandOver /\ \E i \in DOMAIN waiters : IsNextWaiter(i)
  <2>1. /\ waiters # <<>>
        /\ waiters' = SubSeq(waiters, 1 + 1, Len(waiters))
        /\ future' = [future EXCEPT ![waiters[1]] = "result"]
        /\ activeSlots' = Freed + 1
    BY <1>5, <1>8 DEF ReleaseSlot
  <2>2. waiters' = RemoveAt(waiters, 1)
    BY <2>1, PopHead DEF AdmissionInv, TypeOK
  <2> QED BY <1>1, <1>2, <1>8, <2>1, <2>2 DEF MayHandOver
<1> QED
  BY <1>6, <1>7, <1>8
-----------------------------------------------------------------------------
LEMMA ReleaseSlotTypes ==
  ASSUME TypeOK, ReleaseSlot
  PROVE  /\ activeSlots' \in Nat
         /\ waiters' \in Seq(Requests)
         /\ future' \in [Requests -> Futures]
<1> USE DEF TypeOK
<1>1. Freed \in Nat
  BY DEF Freed
<1>2. CASE ~MayHandOver
  BY <1>1, <1>2 DEF ReleaseSlot
<1>3. CASE ~ \E i \in DOMAIN waiters : IsNextWaiter(i)
  BY <1>1, <1>3, EmptySeq DEF ReleaseSlot
<1>4. ASSUME NEW i \in DOMAIN waiters, activeSlots' = Freed + 1,
             waiters' = SubSeq(waiters, i + 1, Len(waiters)),
             future' = [future EXCEPT ![waiters[i]] = "result"]
      PROVE  /\ activeSlots' \in Nat
             /\ waiters' \in Seq(Requests)
             /\ future' \in [Requests -> Futures]
  <2>1. DOMAIN waiters = 1 .. Len(waiters) /\ Len(waiters) \in Nat
    BY LenProperties
  <2>2. SubSeq(waiters, i + 1, Len(waiters)) \in Seq(Requests)
    BY <2>1, ElementOfSeq, SubSeqProperties
  <2> QED BY <1>1, <1>4, <2>2 DEF Futures
<1> QED
  BY <1>2, <1>3, <1>4 DEF ReleaseSlot

LEMMA RemoveWaiterTypes ==
  ASSUME TypeOK, NEW r \in Requests, RemoveWaiter(r)
  PROVE  /\ activeSlots' \in Nat
         /\ waiters' \in Seq(Requests)
         /\ future' \in [Requests -> Futures]
<1>1. waiters' \in Seq(Requests)
  BY RemoveAtProperties DEF RemoveWaiter, TypeOK
<1>2. future' \in [Requests -> Futures]
  BY DEF RemoveWaiter, TypeOK, Futures
<1> QED
  BY <1>1, <1>2 DEF RemoveWaiter, TypeOK

LEMMA NextTicket ==
  ASSUME TypeOK, IsFiniteSet(Ticketed), NEW r \in Requests, TakeTicket(r)
  PROVE  /\ ticket' = [ticket EXCEPT ![r] = 1 + Cardinality(Ticketed)]
         /\ Cardinality(Ticketed) \in Nat
         /\ ticket' \in [Requests -> Nat]
         /\ Ticketed' = Ticketed \cup {r}
         /\ IsFiniteSet(Ticketed')
<1>1. /\ ticket' = [ticket EXCEPT ![r] = 1 + Cardinality(Ticketed)]
      /\ Cardinality(Ticketed) \in Nat
  BY FS_CardinalityType DEF TakeTicket, Ticketed
<1>2. ticket' \in [Requests -> Nat] /\ ticket'[r] > 0
  BY <1>1 DEF TypeOK
<1>3. Ticketed' = Ticketed \cup {r}
  BY <1>1, <1>2 DEF Ticketed, TypeOK
<1> QED
  BY <1>1, <1>2, <1>3, FS_AddElement

\* Steps that move no slot and no waiter keep the invariant.
LEMMA QuietStep ==
  ASSUME AdmissionInv, TypeOK', UNCHANGED <<activeSlots, waiters, ticket>>,
         closing' => waiters = <<>>,
         Holders' = Holders,
         \A r \in Requests : (pc'[r] = Waiting /\ future'[r] = "pending")
                               <=> (pc[r] = Waiting /\ future[r] = "pending")
  PROVE  AdmissionInv'
<1>1. Queued' = Queued /\ Ticketed' = Ticketed
  BY DEF Queued, Ticketed
<1>2. QueueIsTheWaiting'
  BY <1>1 DEF AdmissionInv, QueueIsTheWaiting
<1>3. ClosedIsEmpty' /\ NoIdleSlot' /\ SlotsAccounted' /\ WithinLimit'
  BY DEF AdmissionInv, ClosedIsEmpty, NoIdleSlot, SlotsAccounted, WithinLimit
<1> QED
  BY <1>1, <1>2, <1>3 DEF AdmissionInv

\* The owner of a slot stops owning it through release().
LEMMA GiveBackStep ==
  ASSUME AdmissionInv, NEW h \in Holders, ReleaseSlot,
         NEW out \in {"released", "refused", "cancelled"}, Goto(h, out),
         UNCHANGED <<closing, wake, ticket>>
  PROVE  /\ AdmissionInv'
         /\ Holders' = IF waiters = <<>> THEN Holders \ {h}
                       ELSE (Holders \ {h}) \cup {waiters[1]}
<1> USE DEF Waiting
<1>0. h \in Requests /\ TypeOK /\ IsFiniteSet(Holders)
  BY DEF Holders, AdmissionInv
<1>1. TypeOK'
  BY <1>0, ReleaseSlotTypes DEF Goto, TypeOK, Outcomes
<1>2. Ticketed' = Ticketed
  BY DEF Ticketed
<1>3. CASE waiters = <<>>
  <2>1. /\ activeSlots \in Nat \ {0}
        /\ activeSlots' = activeSlots - 1
        /\ UNCHANGED <<waiters, future>>
    BY <1>3, ReleaseFreesOrHandsOver
  <2>2. Holders' = Holders \ {h}
    BY <1>0, <2>1 DEF Holders, Goto, TypeOK
  <2>3. IsFiniteSet(Holders') /\ Cardinality(Holders') = Cardinality(Holders) - 1
    BY <1>0, <2>2, FS_RemoveElement
  <2>4. Queued' = Queued /\ h \notin Queued
    BY <1>3, <2>1 DEF Queued, ToSet
  <2>5. QueueIsTheWaiting'
    BY <1>0, <2>1, <2>4 DEF AdmissionInv, QueueIsTheWaiting, Goto, TypeOK
  <2>6. ClosedIsEmpty' /\ NoIdleSlot' /\ SlotsAccounted' /\ WithinLimit'
    BY <1>0, <1>3, <2>1, <2>3, LimitsAssumption
    DEF AdmissionInv, ClosedIsEmpty, NoIdleSlot, SlotsAccounted, WithinLimit
  <2> QED
    BY <1>1, <1>2, <1>3, <2>2, <2>3, <2>5, <2>6 DEF AdmissionInv
<1>4. CASE waiters # <<>>
  <2> DEFINE w == waiters[1]
  <2>1. /\ ~closing
        /\ activeSlots' = activeSlots
        /\ waiters' = RemoveAt(waiters, 1)
        /\ future' = [future EXCEPT ![w] = "result"]
    BY <1>4, ReleaseFreesOrHandsOver
  <2>2. 1 \in DOMAIN waiters
    BY <1>0, <1>4, PopHead DEF TypeOK
  <2>3. /\ w \in Requests
        /\ pc[w] = Waiting
        /\ future[w] = "pending"
        /\ w \notin Holders
    BY <2>2, QueuedArePending
  <2>4. Holders' = (Holders \ {h}) \cup {w}
    BY <1>0, <2>1, <2>3 DEF Holders, Goto, TypeOK
  <2>5. IsFiniteSet(Holders') /\ Cardinality(Holders') = Cardinality(Holders)
    <3>1. /\ IsFiniteSet(Holders \ {h})
          /\ Cardinality(Holders \ {h}) = Cardinality(Holders) - 1
      BY <1>0, FS_RemoveElement
    <3>2. /\ IsFiniteSet((Holders \ {h}) \cup {w})
          /\ Cardinality((Holders \ {h}) \cup {w}) = Cardinality(Holders) - 1 + 1
      BY <2>3, <3>1, FS_AddElement
    <3>3. Cardinality(Holders) \in Nat
      BY <1>0, FS_CardinalityType
    <3> QED BY <2>4, <3>2, <3>3
  <2>6. /\ IsInjective(waiters')
        /\ Len(waiters') = Len(waiters) - 1
        /\ Len(waiters) \in Nat
        /\ ToSet(waiters') = ToSet(waiters) \ {w}
    <3>1. waiters \in Seq(Requests) /\ IsInjective(waiters)
      BY DEF AdmissionInv, QueueIsTheWaiting, TypeOK
    <3>2. Len(waiters) \in Nat
      BY <3>1, LenProperties
    <3> QED BY <2>1, <2>2, <3>1, <3>2, RemoveMember
  <2>7. Queued' = Queued \ {w}
    BY <2>6 DEF Queued
  <2>8. QueueIsTheWaiting'
    <3>1. Queued' = {r \in Requests : pc'[r] = Waiting /\ future'[r] = "pending"}
      BY <1>0, <2>1, <2>3, <2>7 DEF AdmissionInv, QueueIsTheWaiting, Holders, Goto, TypeOK
    <3> QED BY <2>6, <3>1, LimitsAssumption DEF AdmissionInv, QueueIsTheWaiting
  <2>9. ClosedIsEmpty' /\ NoIdleSlot' /\ SlotsAccounted' /\ WithinLimit'
    BY <1>4, <2>1, <2>5 DEF AdmissionInv, ClosedIsEmpty, NoIdleSlot, SlotsAccounted, WithinLimit
  <2> QED
    BY <1>1, <1>2, <1>4, <2>4, <2>5, <2>8, <2>9 DEF AdmissionInv
<1> QED
  BY <1>3, <1>4
\* A caller leaves the queue on a timeout or a cancellation.
LEMMA LeaveQueueStep ==
  ASSUME AdmissionInv, NEW r \in Requests, RemoveWaiter(r),
         NEW out \in {"timeout", "cancelled"}, Goto(r, out),
         UNCHANGED <<closing, wake, ticket>>
  PROVE  AdmissionInv' /\ Holders' = Holders
<1> USE DEF Waiting
<1>0. TypeOK /\ IsFiniteSet(Holders)
  BY DEF AdmissionInv
<1>1. TypeOK'
  BY <1>0, RemoveWaiterTypes DEF Goto, TypeOK, Outcomes
<1>2. PICK k \in DOMAIN waiters : waiters[k] = r /\ waiters' = RemoveAt(waiters, k)
  BY DEF RemoveWaiter
<1>3. /\ pc[r] = Waiting
      /\ future[r] = "pending"
      /\ r \notin Holders
  BY <1>2, QueuedArePending
<1>4. /\ activeSlots' = activeSlots
      /\ future' = [future EXCEPT ![r] = "cancelled"]
  BY <1>0, <1>3 DEF RemoveWaiter, TypeOK
<1>5. Holders' = Holders
  BY <1>0, <1>3, <1>4 DEF Holders, Goto, TypeOK
<1>6. /\ IsInjective(waiters')
      /\ Len(waiters') = Len(waiters) - 1
      /\ Len(waiters) \in Nat
      /\ ToSet(waiters') = ToSet(waiters) \ {r}
  <2>1. waiters \in Seq(Requests) /\ IsInjective(waiters)
    BY DEF AdmissionInv, QueueIsTheWaiting, TypeOK
  <2>2. Len(waiters) \in Nat
    BY <2>1, LenProperties
  <2> QED BY <1>2, <2>1, <2>2, RemoveMember
<1>7. QueueIsTheWaiting'
  <2>1. Queued' = Queued \ {r}
    BY <1>6 DEF Queued
  <2>2. Queued' = {q \in Requests : pc'[q] = Waiting /\ future'[q] = "pending"}
    BY <1>0, <1>4, <2>1 DEF AdmissionInv, QueueIsTheWaiting, Goto, TypeOK
  <2> QED BY <1>6, <2>2, LimitsAssumption DEF AdmissionInv, QueueIsTheWaiting
<1>8. waiters # <<>>
  BY <1>2
<1>9. ClosedIsEmpty' /\ NoIdleSlot' /\ SlotsAccounted' /\ WithinLimit'
  BY <1>4, <1>5, <1>8 DEF AdmissionInv, ClosedIsEmpty, NoIdleSlot, SlotsAccounted, WithinLimit
<1>10. Ticketed' = Ticketed
  BY DEF Ticketed
<1> QED
  BY <1>1, <1>5, <1>7, <1>9, <1>10 DEF AdmissionInv

LEMMA AcquireNowStep ==
  ASSUME AdmissionInv, NEW r \in Requests, AcquireNow(r)
  PROVE  AdmissionInv' /\ Holders' = Holders \cup {r} /\ r \notin Holders /\ waiters = <<>>
<1> USE DEF AcquireNow, Waiting
<1>0. TypeOK /\ IsFiniteSet(Holders) /\ IsFiniteSet(Ticketed)
  BY DEF AdmissionInv
<1>1. r \notin Holders
  BY DEF Holders
<1>2. waiters = <<>>
  BY DEF CanGrantAtOnce, AdmissionInv, NoIdleSlot
<1>3. TypeOK' /\ IsFiniteSet(Ticketed')
  BY <1>0, NextTicket DEF Goto, TypeOK, Outcomes
<1>4. Holders' = Holders \cup {r}
  BY <1>0 DEF Holders, Goto, TypeOK
<1>5. IsFiniteSet(Holders') /\ Cardinality(Holders') = Cardinality(Holders) + 1
  BY <1>0, <1>1, <1>4, FS_AddElement
<1>6. QueueIsTheWaiting'
  <2>1. Queued' = {q \in Requests : pc'[q] = Waiting /\ future'[q] = "pending"}
    BY <1>0 DEF AdmissionInv, QueueIsTheWaiting, Queued, Goto, TypeOK
  <2> QED BY <2>1 DEF AdmissionInv, QueueIsTheWaiting
<1>7. WithinLimit'
  BY <1>0, <1>5, LimitsAssumption
  DEF AdmissionInv, CanGrantAtOnce, WithinLimit, SlotsAccounted, TypeOK
<1>8. ClosedIsEmpty' /\ NoIdleSlot' /\ SlotsAccounted'
  BY <1>2, <1>5 DEF AdmissionInv, ClosedIsEmpty, NoIdleSlot, SlotsAccounted
<1> QED
  BY <1>1, <1>2, <1>3, <1>4, <1>5, <1>6, <1>7, <1>8 DEF AdmissionInv

LEMMA AcquireQueueStep ==
  ASSUME AdmissionInv, NEW r \in Requests, AcquireQueue(r)
  PROVE  AdmissionInv' /\ Holders' = Holders /\ r \notin Holders \cup Queued
<1> USE DEF AcquireQueue, Waiting
<1>0. TypeOK /\ IsFiniteSet(Holders) /\ IsFiniteSet(Ticketed)
  BY DEF AdmissionInv
<1>1. r \notin Holders \cup Queued
  BY DEF Holders, AdmissionInv, QueueIsTheWaiting
<1>2. waiters \in Seq(Requests) /\ Len(waiters) \in Nat /\ IsInjective(waiters)
  BY LenProperties DEF AdmissionInv, QueueIsTheWaiting, TypeOK
<1>3. /\ waiters' \in Seq(Requests)
      /\ Len(waiters') = Len(waiters) + 1
      /\ IsInjective(waiters')
      /\ ToSet(waiters') = ToSet(waiters) \cup {r}
  BY <1>1, <1>2, AppendMember DEF Queued
<1>4. TypeOK' /\ IsFiniteSet(Ticketed')
  BY <1>0, <1>3, NextTicket DEF Goto, TypeOK, Futures
<1>5. Holders' = Holders
  BY <1>0 DEF Holders, Goto, TypeOK
<1>6. QueueIsTheWaiting'
  <2>1. Queued' = Queued \cup {r}
    BY <1>3 DEF Queued
  <2>2. Queued' = {q \in Requests : pc'[q] = Waiting /\ future'[q] = "pending"}
    BY <1>0, <2>1 DEF AdmissionInv, QueueIsTheWaiting, Goto, TypeOK
  <2>3. Len(waiters') <= MaxQueued
    BY <1>2, <1>3, LimitsAssumption
  <2> QED BY <1>3, <2>2, <2>3 DEF QueueIsTheWaiting
<1>7. NoIdleSlot'
  <2>1. MaxActive > 0
    BY LimitsAssumption DEF CanGrantAtOnce
  <2>2. activeSlots >= MaxActive
    BY <1>0, <2>1, LimitsAssumption DEF CanGrantAtOnce, AdmissionInv, NoIdleSlot, TypeOK
  <2> QED BY <2>1, <2>2 DEF NoIdleSlot
<1>8. ClosedIsEmpty' /\ SlotsAccounted' /\ WithinLimit'
  BY <1>5 DEF AdmissionInv, ClosedIsEmpty, SlotsAccounted, WithinLimit
<1> QED
  BY <1>1, <1>4, <1>5, <1>6, <1>7, <1>8 DEF AdmissionInv

LEMMA ShutdownStep ==
  ASSUME AdmissionInv, Shutdown
  PROVE  AdmissionInv' /\ Holders' = Holders
<1> USE DEF Shutdown, CloseQueue, Waiting
<1>0. TypeOK
  BY DEF AdmissionInv
<1>1. waiters' = <<>> /\ Queued' = {}
  BY DEF Queued, ToSet
<1>2. TypeOK'
  BY <1>0, <1>1, EmptySeq DEF TypeOK, Futures
<1>3. Holders' = Holders
  BY <1>0 DEF Holders, TypeOK
<1>4. {q \in Requests : pc'[q] = Waiting /\ future'[q] = "pending"} = {}
  BY <1>0 DEF AdmissionInv, QueueIsTheWaiting, InQueue, TypeOK
<1>5. IsInjective(waiters') /\ Len(waiters') = 0
  BY <1>1, EmptySeq DEF IsInjective
<1>6. QueueIsTheWaiting'
  BY <1>1, <1>4, <1>5, LimitsAssumption DEF QueueIsTheWaiting
<1>7. ClosedIsEmpty' /\ NoIdleSlot' /\ SlotsAccounted' /\ WithinLimit'
  BY <1>1, <1>3 DEF AdmissionInv, ClosedIsEmpty, NoIdleSlot, SlotsAccounted, WithinLimit
<1>8. Ticketed' = Ticketed
  BY DEF Ticketed
<1> QED
  BY <1>2, <1>3, <1>6, <1>7, <1>8 DEF AdmissionInv

\* A caller resumes with the answer its resolved future holds.
LEMMA ResolvedStep ==
  ASSUME AdmissionInv, NEW r \in Requests, pc[r] = Waiting, future[r] # "pending",
         Goto(r, IF future[r] = "result" THEN "held" ELSE "refused"),
         UNCHANGED <<queueVars, closing, wake, ticket>>
  PROVE  AdmissionInv' /\ Holders' = Holders
<1> USE DEF Waiting, queueVars, Goto
<1>1. TypeOK /\ TypeOK'
  BY DEF AdmissionInv, TypeOK, Outcomes
<1>2. Holders' = Holders
  BY <1>1 DEF Holders, TypeOK
<1>3. \A q \in Requests : (pc'[q] = Waiting /\ future'[q] = "pending")
                            <=> (pc[q] = Waiting /\ future[q] = "pending")
  BY <1>1 DEF TypeOK
<1>4. closing' => waiters = <<>>
  BY DEF AdmissionInv, ClosedIsEmpty
<1> QED
  BY <1>1, <1>2, <1>3, <1>4, QuietStep

\* Every step of one caller, and what it does to the owners of a slot.
LEMMA CallerStep ==
  ASSUME AdmissionInv, NEW r \in Requests,
         Acquire(r) \/ Expire(r) \/ Cancel(r) \/ Resume(r) \/ Release(r)
  PROVE  AdmissionInv'
<1> USE DEF Waiting
<1>0. TypeOK /\ (closing => waiters = <<>>)
  BY DEF AdmissionInv, ClosedIsEmpty
<1>1. ASSUME NEW out \in {"refused", "full"}, pc[r] = "new", Goto(r, out),
             UNCHANGED <<queueVars, closing, wake, ticket>>
      PROVE  AdmissionInv'
  <2>1. TypeOK'
    BY <1>0, <1>1 DEF TypeOK, queueVars, Goto, Outcomes
  <2>2. Holders' = Holders
    BY <1>0, <1>1 DEF Holders, TypeOK, queueVars, Goto
  <2>3. \A q \in Requests : (pc'[q] = Waiting /\ future'[q] = "pending")
                              <=> (pc[q] = Waiting /\ future[q] = "pending")
    BY <1>0, <1>1 DEF TypeOK, queueVars, Goto
  <2> QED BY <1>0, <1>1, <2>1, <2>2, <2>3, QuietStep DEF queueVars
<1>2. CASE AcquireRefused(r)
  BY <1>1, <1>2 DEF AcquireRefused
<1>3. CASE AcquireNow(r)
  BY <1>3, AcquireNowStep
<1>4. CASE AcquireFull(r)
  BY <1>1, <1>4 DEF AcquireFull
<1>5. CASE AcquireQueue(r)
  BY <1>5, AcquireQueueStep
<1>6. CASE Expire(r) \/ Cancel(r)
  <2>1. TypeOK' /\ UNCHANGED <<queueVars, closing, pc, ticket>>
    BY <1>0, <1>6 DEF Expire, Cancel, TypeOK, queueVars
  <2>2. Holders' = Holders
    BY <2>1 DEF Holders, queueVars
  <2> QED BY <1>0, <2>1, <2>2, QuietStep DEF queueVars
<1>7. CASE ResumeResolved(r) \/ ResumeCancelDropped(r)
  BY <1>7, ResolvedStep DEF ResumeResolved, ResumeCancelDropped
<1>8. CASE ResumeTimedOut(r)
  BY <1>8, LeaveQueueStep DEF ResumeTimedOut
<1>9. CASE ResumeTooLate(r)
  <2>1. future[r] # "pending"
    BY <1>9 DEF ResumeTooLate, InQueue, AdmissionInv, QueueIsTheWaiting
  <2> QED BY <1>9, <2>1, ResolvedStep DEF ResumeTooLate
<1>10. CASE ResumeCancelled(r)
  <2>1. CASE RemoveWaiter(r)
    BY <1>10, <2>1, LeaveQueueStep DEF ResumeCancelled
  <2>2. CASE future[r] = "result" /\ ReleaseSlot
    <3>1. r \in Holders
      BY <1>10, <2>2 DEF ResumeCancelled, Holders
    <3> QED BY <1>10, <2>2, <3>1, GiveBackStep DEF ResumeCancelled
  <2>3. CASE ~InQueue(r) /\ future[r] # "result" /\ UNCHANGED queueVars
    <3>1. TypeOK' /\ pc' = [pc EXCEPT ![r] = "cancelled"] /\ UNCHANGED <<queueVars, closing, ticket>>
      BY <1>0, <1>10, <2>3 DEF ResumeCancelled, TypeOK, queueVars, Goto, Outcomes
    <3>2. Holders' = Holders
      BY <1>0, <1>10, <2>3, <3>1 DEF ResumeCancelled, Holders, TypeOK, queueVars
    <3>3. future[r] # "pending"
      BY <1>10, <2>3 DEF ResumeCancelled, InQueue, AdmissionInv, QueueIsTheWaiting
    <3>4. \A q \in Requests : (pc'[q] = Waiting /\ future'[q] = "pending")
                                <=> (pc[q] = Waiting /\ future[q] = "pending")
      BY <1>0, <3>1, <3>3 DEF TypeOK, queueVars
    <3> QED BY <1>0, <3>1, <3>2, <3>4, QuietStep DEF queueVars
  <2> QED BY <1>10, <2>1, <2>2, <2>3 DEF ResumeCancelled
<1>11. CASE Release(r)
  <2>1. r \in Holders
    BY <1>11 DEF Release, Holders
  <2> QED BY <1>11, <2>1, GiveBackStep DEF Release
<1> QED
  BY <1>2, <1>3, <1>4, <1>5, <1>6, <1>7, <1>8, <1>9, <1>10, <1>11 DEF Acquire, Resume

LEMMA AdmissionInit == Init => AdmissionInv
<1> SUFFICES ASSUME Init PROVE AdmissionInv
  OBVIOUS
<1> USE DEF Init
<1>1. TypeOK
  BY EmptySeq DEF TypeOK, Futures
<1>2. Holders = {} /\ Ticketed = {} /\ Queued = {}
  BY DEF Holders, Ticketed, Queued, ToSet, Waiting
<1>3. QueueIsTheWaiting
  <2>1. IsInjective(waiters) /\ Len(waiters) = 0
    BY EmptySeq DEF IsInjective
  <2> QED BY <1>2, <2>1, LimitsAssumption DEF QueueIsTheWaiting, Waiting
<1>4. Cardinality(Holders) = 0 /\ IsFiniteSet(Holders) /\ IsFiniteSet(Ticketed)
  BY <1>2, FS_EmptySet
<1> QED
  BY <1>1, <1>3, <1>4, LimitsAssumption
  DEF AdmissionInv, ClosedIsEmpty, NoIdleSlot, SlotsAccounted, WithinLimit

LEMMA AdmissionStep == AdmissionInv /\ [Next]_vars => AdmissionInv'
<1> SUFFICES ASSUME AdmissionInv, [Next]_vars PROVE AdmissionInv'
  OBVIOUS
<1>1. ASSUME NEW r \in Requests,
             Acquire(r) \/ Expire(r) \/ Cancel(r) \/ Resume(r) \/ Release(r)
      PROVE  AdmissionInv'
  BY <1>1, CallerStep
<1>2. CASE Shutdown
  BY <1>2, ShutdownStep
<1>3. CASE Startup
  <2>1. TypeOK' /\ Holders' = Holders /\ UNCHANGED <<queueVars, pc, wake, ticket>>
    BY <1>3 DEF Startup, AdmissionInv, TypeOK, Holders, queueVars
  <2>2. closing' => waiters = <<>>
    BY <1>3 DEF Startup
  <2> QED BY <2>1, <2>2, QuietStep DEF queueVars
<1>4. CASE UNCHANGED vars
  <2>1. TypeOK' /\ Holders' = Holders /\ (closing' => waiters = <<>>)
    BY <1>4 DEF vars, AdmissionInv, TypeOK, Holders, ClosedIsEmpty
  <2> QED BY <1>4, <2>1, QuietStep DEF vars
<1> QED
  BY <1>1, <1>2, <1>3, <1>4 DEF Next

\* In every reachable state of every instance the slot counter counts the
\* owners, the limit holds, no slot is idle while somebody waits, and the
\* queue is exactly the callers that wait.
THEOREM AdmissionCorrect == Spec => []AdmissionInv
<1> QED
  BY AdmissionInit, AdmissionStep, PTL DEF Spec
-----------------------------------------------------------------------------
(* First come, first served.                                               *)

\* Steps after which the queue is what it was, or less, and in which only
\* its head may be served.
LEMMA FifoShrink ==
  ASSUME AdmissionInv, FifoInv, UNCHANGED ticket,
         \/ waiters' = waiters
         \/ waiters' = <<>>
         \/ \E k \in DOMAIN waiters : waiters' = RemoveAt(waiters, k),
         \A r \in Requests : pc'[r] = "new" => pc[r] = "new" /\ future'[r] = future[r],
         \A r \in Served' : \/ r \in Served
                            \/ /\ waiters # <<>>
                               /\ r = waiters[1]
                               /\ waiters' = RemoveAt(waiters, 1)
  PROVE  FifoInv'
<1>0. /\ ticket \in [Requests -> Nat]
      /\ waiters \in Seq(Requests)
      /\ IsInjective(waiters)
      /\ Len(waiters) \in Nat
      /\ DOMAIN waiters = 1 .. Len(waiters)
  BY LenProperties DEF AdmissionInv, TypeOK, QueueIsTheWaiting
<1>1. TicketsIssued'
  BY DEF FifoInv, TicketsIssued, Ticketed
<1>2. /\ QueueInTicketOrder'
      /\ Queued' \subseteq Queued
  <2>1. CASE waiters' = waiters
    BY <2>1 DEF FifoInv, QueueInTicketOrder, Queued
  <2>2. CASE waiters' = <<>>
    BY <2>2 DEF QueueInTicketOrder, Queued, ToSet
  <2>3. ASSUME NEW k \in DOMAIN waiters, waiters' = RemoveAt(waiters, k)
        PROVE  QueueInTicketOrder' /\ Queued' \subseteq Queued
    <3>1. /\ waiters' \in Seq(Requests)
          /\ Len(waiters') = Len(waiters) - 1
          /\ \A j \in 1 .. Len(waiters) - 1 :
               waiters'[j] = IF j < k THEN waiters[j] ELSE waiters[j + 1]
      BY <1>0, <2>3, RemoveAtProperties
    <3>2. DOMAIN waiters' = 1 .. Len(waiters) - 1
      BY <3>1, LenProperties
    <3>3. ASSUME NEW i \in DOMAIN waiters', NEW j \in DOMAIN waiters', i < j
          PROVE  ticket[waiters'[i]] < ticket[waiters'[j]]
      <4> DEFINE wasI == IF i < k THEN i ELSE i + 1
                 wasJ == IF j < k THEN j ELSE j + 1
      <4>0. /\ Len(waiters) \in Nat
            /\ i \in 1 .. Len(waiters) - 1
            /\ j \in 1 .. Len(waiters) - 1
            /\ k \in Nat
        BY <1>0, <3>2
      <4>1. wasI \in 1 .. Len(waiters)
        BY <4>0
      <4>2. wasJ \in 1 .. Len(waiters)
        BY <4>0
      <4>3. wasI < wasJ
        BY <4>0, <3>3
      <4>4. waiters'[i] = waiters[wasI] /\ waiters'[j] = waiters[wasJ]
        BY <3>1, <4>0
      <4> HIDE DEF wasI, wasJ
      <4> QED BY <1>0, <4>1, <4>2, <4>3, <4>4 DEF FifoInv, QueueInTicketOrder
    <3>4. QueueInTicketOrder'
      BY <3>3 DEF QueueInTicketOrder
    <3>5. Queued' = Queued \ {waiters[k]}
      BY <1>0, <2>3, RemoveMember DEF Queued
    <3> QED BY <3>4, <3>5
  <2> QED BY <2>1, <2>2, <2>3
<1>3. ASSUME NEW r \in Served', NEW w \in Queued'
      PROVE  ticket'[r] < ticket'[w]
  <2>1. CASE r \in Served
    BY <1>2, <2>1 DEF FifoInv, FifoOrder
  <2>2. CASE /\ waiters # <<>>
             /\ r = waiters[1]
             /\ waiters' = RemoveAt(waiters, 1)
    <3>1. 1 \in DOMAIN waiters
      BY <1>0, <2>2, PopHead
    <3>2. w \in ToSet(waiters) \ {waiters[1]}
      BY <1>0, <2>2, <3>1, RemoveMember DEF Queued
    <3>3. PICK j \in DOMAIN waiters : w = waiters[j] /\ j # 1
      BY <3>2 DEF ToSet
    <3>4. 1 < j
      BY <1>0, <3>3
    <3> QED BY <2>2, <3>1, <3>3, <3>4 DEF FifoInv, QueueInTicketOrder
  <2> QED BY <2>1, <2>2
<1>4. FifoOrder'
  BY <1>3 DEF FifoOrder
<1> QED
  BY <1>1, <1>2, <1>4 DEF FifoInv

\* A newcomer draws a ticket above every other one.
LEMMA FifoArrive ==
  ASSUME AdmissionInv, FifoInv, NEW r \in Requests, pc[r] = "new",
         AcquireNow(r) \/ AcquireQueue(r)
  PROVE  FifoInv'
<1> DEFINE n == Cardinality(Ticketed)
<1>0. /\ TypeOK
      /\ TakeTicket(r)
      /\ ticket[r] = 0
      /\ future[r] = "none"
      /\ \A q \in Requests : ticket[q] <= n
  BY DEF AdmissionInv, AcquireNow, AcquireQueue, FifoInv, TicketsIssued
<1>1. /\ n \in Nat
      /\ ticket' = [ticket EXCEPT ![r] = 1 + n]
      /\ Ticketed' = Ticketed \cup {r}
      /\ ticket' \in [Requests -> Nat]
  BY <1>0, NextTicket DEF AdmissionInv
<1>2. Cardinality(Ticketed') = n + 1
  <2>1. r \notin Ticketed
    BY <1>0 DEF Ticketed
  <2> QED BY <1>1, <2>1, FS_AddElement DEF AdmissionInv
<1> HIDE DEF n
<1>3. TicketsIssued'
  <2>1. \A q \in Requests : ticket'[q] <= n + 1
    BY <1>0, <1>1 DEF TypeOK
  <2>2. \A q \in Requests : pc'[q] = "new" =>
          q # r /\ pc[q] = "new" /\ future'[q] = future[q]
    BY <1>0 DEF AcquireNow, AcquireQueue, Goto, TypeOK, Waiting
  <2> QED BY <1>0, <1>1, <1>2, <2>1, <2>2 DEF TicketsIssued, FifoInv, TypeOK
<1>4. CASE AcquireNow(r)
  <2>1. waiters' = <<>>
    BY <1>4, AcquireNowStep DEF AcquireNow
  <2> QED BY <1>3, <2>1 DEF FifoInv, QueueInTicketOrder, FifoOrder, Queued, ToSet
<1>5. CASE AcquireQueue(r)
  <2>1. /\ waiters \in Seq(Requests)
        /\ IsInjective(waiters)
        /\ waiters' = Append(waiters, r)
        /\ r \notin Queued
        /\ Len(waiters) \in Nat
        /\ DOMAIN waiters = 1 .. Len(waiters)
    BY <1>0, <1>5, AcquireQueueStep, LenProperties
    DEF AdmissionInv, TypeOK, QueueIsTheWaiting, AcquireQueue
  <2>2. /\ Len(waiters') = Len(waiters) + 1
        /\ waiters' \in Seq(Requests)
        /\ \A i \in 1 .. Len(waiters) : waiters'[i] = waiters[i]
        /\ waiters'[Len(waiters) + 1] = r
        /\ Queued' = Queued \cup {r}
    BY <2>1, AppendProperties, AppendMember DEF Queued
  <2>3. DOMAIN waiters' = 1 .. Len(waiters) + 1
    BY <2>2, LenProperties
  <2>4. \A i \in DOMAIN waiters : waiters[i] \in Requests /\ waiters[i] # r
    BY <2>1, ElementOfSeq DEF Queued, ToSet
  <2>5. ASSUME NEW i \in DOMAIN waiters', NEW j \in DOMAIN waiters', i < j
        PROVE  ticket'[waiters'[i]] < ticket'[waiters'[j]]
    <3>1. i \in DOMAIN waiters /\ waiters'[i] = waiters[i]
      BY <2>1, <2>2, <2>3, <2>5
    <3>2. /\ waiters[i] \in Requests
          /\ ticket'[waiters'[i]] = ticket[waiters[i]]
      BY <1>1, <2>4, <3>1 DEF TypeOK
    <3>3. CASE j = Len(waiters) + 1
      BY <1>0, <1>1, <2>2, <3>2, <3>3 DEF TypeOK
    <3>4. CASE j \in DOMAIN waiters
      <4>1. waiters'[j] = waiters[j] /\ ticket'[waiters'[j]] = ticket[waiters[j]]
        BY <1>1, <2>1, <2>2, <2>4, <3>4 DEF TypeOK
      <4> QED BY <2>5, <3>1, <3>2, <3>4, <4>1 DEF FifoInv, QueueInTicketOrder
    <3> QED BY <2>1, <2>3, <3>3, <3>4
  <2>6. QueueInTicketOrder'
    BY <2>5 DEF QueueInTicketOrder
  <2>7. Served' = Served /\ r \notin Served
    BY <1>0, <1>5 DEF Served, AcquireQueue, Goto, TypeOK, Waiting
  <2>8. ASSUME NEW q \in Served', NEW w \in Queued'
        PROVE  ticket'[q] < ticket'[w]
    <3>1. q \in Requests /\ q \in Served /\ q # r
      BY <2>7 DEF Served
    <3>2. CASE w = r
      BY <1>0, <1>1, <3>1, <3>2 DEF TypeOK
    <3>3. CASE w # r
      <4>1. w \in Queued
        BY <2>2, <3>3
      <4>2. w \in Requests
        BY <2>4, <4>1 DEF Queued, ToSet
      <4>3. ticket[q] < ticket[w]
        BY <3>1, <4>1 DEF FifoInv, FifoOrder
      <4> QED BY <1>0, <1>1, <3>1, <3>3, <4>2, <4>3 DEF TypeOK
    <3> QED BY <3>2, <3>3
  <2> QED BY <1>3, <2>6, <2>8 DEF FifoInv, FifoOrder
<1> QED
  BY <1>4, <1>5

LEMMA FifoGiveBack ==
  ASSUME AdmissionInv, FifoInv, NEW h \in Holders, ReleaseSlot,
         NEW out \in {"released", "refused", "cancelled"}, Goto(h, out),
         UNCHANGED <<closing, wake, ticket>>
  PROVE  FifoInv'
<1>0. /\ h \in Requests
      /\ h \in Served
      /\ pc[h] # "new"
      /\ TypeOK
  BY DEF Holders, Served, AdmissionInv, Waiting
<1>1. \A q \in Requests : pc'[q] = "new" => pc[q] = "new" /\ q # h
  BY <1>0 DEF Goto, TypeOK
<1>2. CASE waiters = <<>>
  <2>1. UNCHANGED <<waiters, future>>
    BY <1>2, ReleaseFreesOrHandsOver
  <2>2. \A q \in Served' : q \in Served
    BY <1>0, <2>1 DEF Served, Goto, TypeOK
  <2> QED BY <1>1, <2>1, <2>2, FifoShrink
<1>3. CASE waiters # <<>>
  <2>1. /\ 1 \in DOMAIN waiters
        /\ waiters' = RemoveAt(waiters, 1)
        /\ future' = [future EXCEPT ![waiters[1]] = "result"]
    BY <1>0, <1>3, ReleaseFreesOrHandsOver, PopHead DEF TypeOK
  <2>2. waiters[1] \in Requests /\ pc[waiters[1]] = Waiting
    BY <2>1, QueuedArePending
  <2>3. \A q \in Served' : q \in Served \/ q = waiters[1]
    BY <1>0, <2>1, <2>2 DEF Served, Goto, TypeOK
  <2>4. \A q \in Requests : pc'[q] = "new" => pc[q] = "new" /\ future'[q] = future[q]
    BY <1>0, <1>1, <2>1, <2>2 DEF TypeOK, Waiting
  <2> QED BY <1>3, <2>1, <2>3, <2>4, FifoShrink
<1> QED
  BY <1>2, <1>3

LEMMA FifoLeave ==
  ASSUME AdmissionInv, FifoInv, NEW r \in Requests, pc[r] = Waiting, RemoveWaiter(r),
         NEW out \in {"timeout", "cancelled"}, Goto(r, out),
         UNCHANGED <<closing, wake, ticket>>
  PROVE  FifoInv'
<1>0. TypeOK
  BY DEF AdmissionInv
<1>1. \E k \in DOMAIN waiters : waiters' = RemoveAt(waiters, k)
  BY DEF RemoveWaiter
<1>2. \A q \in Requests : pc'[q] = "new" => pc[q] = "new" /\ future'[q] = future[q]
  BY <1>0 DEF RemoveWaiter, Goto, TypeOK, Waiting
<1>3. \A q \in Served' : q \in Served
  BY <1>0 DEF Served, RemoveWaiter, Goto, TypeOK
<1> QED
  BY <1>1, <1>2, <1>3, FifoShrink

LEMMA FifoStep == AdmissionInv /\ FifoInv /\ [Next]_vars => FifoInv'
<1> SUFFICES ASSUME AdmissionInv, FifoInv, [Next]_vars PROVE FifoInv'
  OBVIOUS
<1>0. TypeOK
  BY DEF AdmissionInv
<1> USE DEF Waiting
\* Steps that only move a program counter, and to "held" only with a slot.
<1>1. ASSUME UNCHANGED <<waiters, future, ticket>>,
             \A q \in Requests : pc'[q] = "new" => pc[q] = "new",
             \A q \in Requests : pc'[q] \in {"held", "released"} =>
               pc[q] \in {"held", "released"} \/ future[q] = "result"
      PROVE  FifoInv'
  <2>1. \A q \in Served' : q \in Served
    BY <1>1 DEF Served
  <2> QED BY <1>1, <2>1, FifoShrink
<1>2. ASSUME NEW r \in Requests, Acquire(r)
      PROVE  FifoInv'
  <2>1. CASE AcquireRefused(r) \/ AcquireFull(r)
    BY <1>0, <1>1, <2>1 DEF AcquireRefused, AcquireFull, queueVars, Goto, TypeOK
  <2>2. CASE AcquireNow(r) \/ AcquireQueue(r)
    BY <2>2, FifoArrive DEF AcquireNow, AcquireQueue
  <2> QED BY <1>2, <2>1, <2>2 DEF Acquire
<1>3. ASSUME NEW r \in Requests, Expire(r) \/ Cancel(r)
      PROVE  FifoInv'
  BY <1>0, <1>1, <1>3 DEF Expire, Cancel, queueVars
<1>4. ASSUME NEW r \in Requests, Resume(r)
      PROVE  FifoInv'
  <2>1. CASE ResumeResolved(r) \/ ResumeCancelDropped(r) \/ ResumeTooLate(r)
    BY <1>0, <1>1, <2>1
    DEF ResumeResolved, ResumeCancelDropped, ResumeTooLate, queueVars, Goto, TypeOK
  <2>2. CASE ResumeTimedOut(r)
    BY <2>2, FifoLeave DEF ResumeTimedOut
  <2>3. CASE ResumeCancelled(r)
    <3>1. CASE RemoveWaiter(r)
      BY <2>3, <3>1, FifoLeave DEF ResumeCancelled
    <3>2. CASE future[r] = "result" /\ ReleaseSlot
      <4>1. r \in Holders
        BY <2>3, <3>2 DEF ResumeCancelled, Holders
      <4> QED BY <2>3, <3>2, <4>1, FifoGiveBack DEF ResumeCancelled
    <3>3. CASE UNCHANGED queueVars
      BY <1>0, <1>1, <2>3, <3>3 DEF ResumeCancelled, queueVars, Goto, TypeOK
    <3> QED BY <2>3, <3>1, <3>2, <3>3 DEF ResumeCancelled
  <2> QED BY <1>4, <2>1, <2>2, <2>3 DEF Resume
<1>5. ASSUME NEW r \in Requests, Release(r)
      PROVE  FifoInv'
  <2>1. r \in Holders
    BY <1>5 DEF Release, Holders
  <2> QED BY <1>5, <2>1, FifoGiveBack DEF Release
<1>6. CASE Shutdown
  <2>1. waiters' = <<>> /\ UNCHANGED <<pc, ticket>>
    BY <1>6 DEF Shutdown, CloseQueue
  <2>2. \A q \in Requests : pc[q] = "new" => future'[q] = future[q]
    BY <1>6 DEF Shutdown, CloseQueue, FifoInv, TicketsIssued
  <2>3. \A q \in Served' : q \in Served
    BY <1>0, <1>6 DEF Shutdown, CloseQueue, Served
  <2> QED BY <2>1, <2>2, <2>3, FifoShrink
<1>7. CASE Startup \/ UNCHANGED vars
  BY <1>1, <1>7 DEF Startup, vars, queueVars
<1> QED
  BY <1>2, <1>3, <1>4, <1>5, <1>6, <1>7 DEF Next

LEMMA FifoInit == Init => FifoInv
<1> SUFFICES ASSUME Init PROVE FifoInv
  OBVIOUS
<1> USE DEF Init
<1>1. Ticketed = {} /\ Queued = {}
  BY DEF Ticketed, Queued, ToSet
<1>2. Cardinality(Ticketed) = 0
  BY <1>1, FS_EmptySet
<1> QED
  BY <1>1, <1>2 DEF FifoInv, TicketsIssued, QueueInTicketOrder, FifoOrder

\* Strict first come, first served, however timeouts, cancellations and
\* releases interleave: no caller is ever served before an earlier caller
\* that is still waiting.
THEOREM FirstComeFirstServed == Spec => []FifoOrder
<1>1. FifoInv => FifoOrder
  BY DEF FifoInv
<1> QED
  BY <1>1, FifoInit, FifoStep, AdmissionCorrect, PTL DEF Spec
-----------------------------------------------------------------------------
\* The slot counter counts the owners of a slot: none leaks, none is
\* returned twice.
THEOREM SlotConservation == Spec => []SlotsAccounted
<1>1. AdmissionInv => SlotsAccounted
  BY DEF AdmissionInv
<1> QED
  BY <1>1, AdmissionCorrect, PTL

\* A positive DOCMIRROR_MAX_ACTIVE_PARSES bounds the slots given out.
THEOREM LimitHolds == Spec => []WithinLimit
<1>1. AdmissionInv => WithinLimit
  BY DEF AdmissionInv
<1> QED
  BY <1>1, AdmissionCorrect, PTL

\* No lost wake-up: while somebody waits, every slot is taken.
THEOREM NoLostWakeup == Spec => []NoIdleSlot
<1>1. AdmissionInv => NoIdleSlot
  BY DEF AdmissionInv
<1> QED
  BY <1>1, AdmissionCorrect, PTL

\* The queue is exactly the callers that wait, each of them once, and never
\* longer than DOCMIRROR_MAX_QUEUED_PARSES.
THEOREM QueueCorrect == Spec => []QueueIsTheWaiting
<1>1. AdmissionInv => QueueIsTheWaiting
  BY DEF AdmissionInv
<1> QED
  BY <1>1, AdmissionCorrect, PTL
\* One caller's step while the queue is closing: the queue is empty, so
\* whoever leaves hands over to nobody, and no newcomer gets in.
LEMMA ClosingCallerStep ==
  ASSUME AdmissionInv, closing, NEW r \in Requests,
         Acquire(r) \/ Expire(r) \/ Cancel(r) \/ Resume(r) \/ Release(r)
  PROVE  Holders' \subseteq Holders
<1> USE DEF Waiting
<1>0. TypeOK /\ waiters = <<>> /\ ~InQueue(r)
  BY EmptySeq DEF AdmissionInv, ClosedIsEmpty, InQueue, Queued, ToSet
<1>1. CASE AcquireRefused(r)
  BY <1>0, <1>1 DEF AcquireRefused, Holders, TypeOK, queueVars, Goto
<1>2. CASE AcquireNow(r) \/ AcquireFull(r) \/ AcquireQueue(r)
  BY <1>2 DEF AcquireNow, AcquireFull, AcquireQueue
<1>3. CASE Expire(r) \/ Cancel(r)
  BY <1>3 DEF Expire, Cancel, Holders, queueVars
<1>4. CASE ResumeResolved(r) \/ ResumeCancelDropped(r)
  BY <1>4, ResolvedStep DEF ResumeResolved, ResumeCancelDropped
<1>5. CASE ResumeTimedOut(r)
  BY <1>0, <1>5 DEF ResumeTimedOut
<1>6. CASE ResumeTooLate(r)
  <2>1. future[r] # "pending"
    BY <1>6 DEF ResumeTooLate, InQueue, AdmissionInv, QueueIsTheWaiting
  <2> QED BY <1>6, <2>1, ResolvedStep DEF ResumeTooLate
<1>7. CASE ResumeCancelled(r)
  <2>1. CASE future[r] = "result" /\ ReleaseSlot
    <3>1. r \in Holders
      BY <1>7, <2>1 DEF ResumeCancelled, Holders
    <3> QED BY <1>0, <1>7, <2>1, <3>1, GiveBackStep DEF ResumeCancelled
  <2>2. CASE future[r] # "result" /\ UNCHANGED queueVars
    BY <1>0, <1>7, <2>2 DEF ResumeCancelled, Holders, TypeOK, queueVars, Goto
  <2> QED BY <1>0, <1>7, <2>1, <2>2 DEF ResumeCancelled
<1>8. CASE Release(r)
  <2>1. r \in Holders
    BY <1>8 DEF Release, Holders
  <2> QED BY <1>0, <1>8, <2>1, GiveBackStep DEF Release
<1> QED
  BY <1>1, <1>2, <1>3, <1>4, <1>5, <1>6, <1>7, <1>8 DEF Acquire, Resume

\* Once shutdown() has begun, no race of a release, a timeout or a
\* cancellation makes anybody the owner of a slot.
THEOREM ClosingGrantsNothing == Spec => NoGrantWhileClosing
<1>1. AdmissionInv /\ [Next]_vars => [closing => Holders' \subseteq Holders]_vars
  <2> SUFFICES ASSUME AdmissionInv, [Next]_vars, closing
               PROVE  Holders' \subseteq Holders
    OBVIOUS
  <2>1. ASSUME NEW r \in Requests,
               Acquire(r) \/ Expire(r) \/ Cancel(r) \/ Resume(r) \/ Release(r)
        PROVE  Holders' \subseteq Holders
    BY <2>1, ClosingCallerStep
  <2>2. CASE Shutdown
    BY <2>2, ShutdownStep
  <2>3. CASE Startup
    BY <2>3 DEF Startup, Holders, queueVars
  <2>4. CASE UNCHANGED vars
    BY <2>4 DEF vars, Holders
  <2> QED
    BY <2>1, <2>2, <2>3, <2>4 DEF Next
<1> QED
  BY <1>1, AdmissionCorrect, PTL DEF Spec, NoGrantWhileClosing
=============================================================================
