------------------------ MODULE PageExtraction_proofs ------------------------
(***************************************************************************)
(* For any documents, caps and page counts: no slot is lost or lent twice, *)
(* and the pages come out in order.  Both invariants are inductive, the    *)
(* first as it stands up to types, the second together with the chain that *)
(* the chunks in flight form.                                              *)
(***************************************************************************)
EXTENDS PageExtraction, FiniteSetTheorems, SequenceTheorems, TLAPS

USE ExtractionAssumption
-----------------------------------------------------------------------------
(* ------------------------------- the slots ----------------------------- *)
\* Every permit is somewhere.
Accounted ==
  \A p : p \in AllPermits <=> p \in permits \/ \E j \in Jobs : p \in held[j]

\* No permit is in two places.
Exclusive ==
  \A j \in Jobs :
    /\ \A p \in held[j] : p \notin permits /\ p[1] = home[j]
    /\ \A other \in Jobs : other # j => held[j] \cap held[other] = {}

IdleHoldNone ==
  \A j \in Jobs : place[j] \in {"new", "resolving", "blocked", "ended"} => held[j] = {}

SlotsInv ==
  /\ cap \in Nat
  /\ semaphores \in Seq(Nat)
  /\ capRead \in [Jobs -> Nat]
  /\ DOMAIN home = Jobs /\ DOMAIN held = Jobs /\ place \in [Jobs -> Places]
  /\ Accounted
  /\ Exclusive
  /\ IdleHoldNone

\* The invariant is SlotsConserved with the types of the variables.
LEMMA SlotsInvIsConservation == SlotsInv => SlotsConserved
<1> SUFFICES ASSUME SlotsInv PROVE SlotsConserved
  OBVIOUS
<1>1. permits \cup UNION {held[j] : j \in Jobs} = AllPermits
  <2>1. \A p : p \in UNION {held[j] : j \in Jobs} <=> \E j \in Jobs : p \in held[j]
    OBVIOUS
  <2> QED
    BY <2>1 DEF SlotsInv, Accounted
<1> QED
  BY <1>1 DEF SlotsConserved, SlotsInv, Exclusive, IdleHoldNone

\* At the start there is no semaphore and no permit.
LEMMA SlotsInit == PagingInit => SlotsInv
<1> SUFFICES ASSUME PagingInit PROVE SlotsInv
  OBVIOUS
<1>1. AllPermits = {}
  BY DEF PagingInit, AllPermits
<1> QED
  BY <1>1 DEF PagingInit, Places, SlotsInv, Accounted, Exclusive, IdleHoldNone

\* The permits of a new semaphore are new ones.
LEMMA NewPermits ==
  ASSUME semaphores \in Seq(Nat), NEW size \in Nat,
         semaphores' = Append(semaphores, size)
  PROVE  LET fresh == {Len(semaphores) + 1} \X (1 .. size)
         IN AllPermits' = AllPermits \cup fresh /\ AllPermits \cap fresh = {}
<1> DEFINE n == Len(semaphores) + 1
<1>1. DOMAIN semaphores = 1 .. Len(semaphores) /\ Len(semaphores) \in Nat
  BY LenProperties
<1>2. /\ DOMAIN semaphores' = DOMAIN semaphores \cup {n}
      /\ n \notin DOMAIN semaphores
      /\ semaphores'[n] = size
      /\ \A m \in DOMAIN semaphores : semaphores'[m] = semaphores[m]
  BY <1>1
<1>3. \A p : p \in AllPermits <=>
               \E m \in DOMAIN semaphores : p \in {m} \X (1 .. semaphores[m])
  BY DEF AllPermits, PermitsOf
<1>4. \A p : p \in AllPermits' <=>
               \E m \in DOMAIN semaphores' : p \in {m} \X (1 .. semaphores'[m])
  BY DEF AllPermits, PermitsOf
<1> HIDE DEF n
<1>5. \A p : p \in AllPermits' <=> p \in AllPermits \/ p \in {n} \X (1 .. size)
  BY <1>2, <1>3, <1>4
<1>6. \A p \in {n} \X (1 .. size) : p \notin AllPermits
  BY <1>2, <1>3
<1> QED
  BY <1>5, <1>6 DEF n

\* A step that moves one permit between a thread and the free ones, or none.
LEMMA SlotsMove ==
  ASSUME SlotsInv, NEW j \in Jobs,
         UNCHANGED <<cap, semaphores, capRead, home>>,
         NEW next \in Places, place' = [place EXCEPT ![j] = next],
         \/ \E p \in FreeFor(j) :
              permits' = permits \ {p} /\ held' = [held EXCEPT ![j] = @ \cup {p}]
         \/ \E p \in held[j] :
              permits' = permits \cup {p} /\ held' = [held EXCEPT ![j] = @ \ {p}]
         \/ UNCHANGED <<permits, held>>,
         next \in {"new", "resolving", "blocked", "ended"} => held'[j] = {}
  PROVE  SlotsInv'
<1>1. AllPermits' = AllPermits
  BY DEF AllPermits, PermitsOf
<1>2. IdleHoldNone'
  BY DEF SlotsInv, IdleHoldNone
<1>3. CASE \E p \in FreeFor(j) :
              permits' = permits \ {p} /\ held' = [held EXCEPT ![j] = @ \cup {p}]
  <2>1. PICK p \in FreeFor(j) :
              permits' = permits \ {p} /\ held' = [held EXCEPT ![j] = @ \cup {p}]
    BY <1>3
  <2>2. p \in permits /\ p[1] = home[j]
    BY <2>1 DEF FreeFor
  <2>3. /\ held'[j] = held[j] \cup {p}
        /\ \A other \in Jobs : other # j => held'[other] = held[other]
        /\ DOMAIN held' = Jobs
    BY <2>1 DEF SlotsInv
  <2>4. \A other \in Jobs : p \notin held[other]
    BY <2>2 DEF SlotsInv, Exclusive
  <2>5. Accounted'
    BY <1>1, <2>1, <2>2, <2>3 DEF SlotsInv, Accounted
  <2>6. Exclusive'
    BY <2>1, <2>2, <2>3, <2>4 DEF SlotsInv, Exclusive
  <2> QED
    BY <1>2, <2>3, <2>5, <2>6 DEF SlotsInv
<1>4. CASE \E p \in held[j] :
              permits' = permits \cup {p} /\ held' = [held EXCEPT ![j] = @ \ {p}]
  <2>1. PICK p \in held[j] :
              permits' = permits \cup {p} /\ held' = [held EXCEPT ![j] = @ \ {p}]
    BY <1>4
  <2>2. /\ held'[j] = held[j] \ {p}
        /\ \A other \in Jobs : other # j => held'[other] = held[other]
        /\ DOMAIN held' = Jobs
    BY <2>1 DEF SlotsInv
  <2>3. \A other \in Jobs : other # j => p \notin held[other]
    BY DEF SlotsInv, Exclusive
  <2>4. Accounted'
    BY <1>1, <2>1, <2>2 DEF SlotsInv, Accounted
  <2>5. Exclusive'
    BY <2>1, <2>2, <2>3 DEF SlotsInv, Exclusive
  <2> QED
    BY <1>2, <2>2, <2>4, <2>5 DEF SlotsInv
<1>5. CASE UNCHANGED <<permits, held>>
  BY <1>1, <1>2, <1>5 DEF SlotsInv, Accounted, Exclusive
<1> QED
  BY <1>3, <1>4, <1>5

\* A semaphore that is made adds its permits; one that is in use adds none.
LEMMA GetSemaphoreKeepsSlots ==
  ASSUME SlotsInv, NEW j \in Jobs, GetSemaphore(j)
  PROVE  SlotsInv'
<1>1. held[j] = {} /\ capRead[j] \in Nat
  BY DEF SlotsInv, IdleHoldNone, GetSemaphore
<1>2. \A i \in Jobs : held'[i] = held[i] /\ (held[i] # {} => home'[i] = home[i])
  BY <1>1 DEF GetSemaphore, SlotsInv
<1>3. IdleHoldNone'
  BY <1>1, <1>2 DEF GetSemaphore, MoveTo, Places, SlotsInv, IdleHoldNone
<1>4. CASE UNCHANGED <<semaphores, permits>>
  <2>1. AllPermits' = AllPermits
    BY <1>4 DEF AllPermits, PermitsOf
  <2> QED
    BY <1>2, <1>3, <1>4, <2>1 DEF GetSemaphore, MoveTo, Places, SlotsInv, Accounted, Exclusive
<1>5. CASE /\ semaphores' = Append(semaphores, capRead[j])
           /\ permits' = permits \cup ({Len(semaphores) + 1} \X (1 .. capRead[j]))
  <2> DEFINE fresh == {Len(semaphores) + 1} \X (1 .. capRead[j])
  <2>1. AllPermits' = AllPermits \cup fresh /\ AllPermits \cap fresh = {}
    BY <1>1, <1>5, NewPermits DEF SlotsInv
  <2>2. permits' = permits \cup fresh
    BY <1>5
  <2>3. semaphores' \in Seq(Nat)
    BY <1>1, <1>5 DEF SlotsInv
  <2> HIDE DEF fresh
  <2>4. Accounted'
    BY <1>2, <2>1, <2>2 DEF SlotsInv, Accounted
  <2>5. \A i \in Jobs : \A p \in held[i] : p \notin fresh
    BY <2>1 DEF SlotsInv, Accounted
  <2>6. Exclusive'
    BY <1>2, <2>2, <2>5 DEF SlotsInv, Exclusive
  <2> QED
    BY <1>3, <2>3, <2>4, <2>6 DEF GetSemaphore, MoveTo, Places, SlotsInv
<1> QED
  BY <1>4, <1>5 DEF GetSemaphore

\* A step that leaves the slots and the places of their holders alone.
LEMMA SlotsFrame ==
  ASSUME SlotsInv, UNCHANGED <<semaphores, permits, home, held, place>>,
         cap' \in Nat, capRead' \in [Jobs -> Nat]
  PROVE  SlotsInv'
<1>1. AllPermits' = AllPermits
  BY DEF AllPermits, PermitsOf
<1> QED
  BY <1>1 DEF SlotsInv, Accounted, Exclusive, IdleHoldNone

\* Every step keeps the invariant of the slots.
LEMMA SlotsStep == SlotsInv /\ [PagingNext]_pagingVars => SlotsInv'
<1> SUFFICES ASSUME SlotsInv, [PagingNext]_pagingVars PROVE SlotsInv'
  OBVIOUS
<1> USE DEF MoveTo, Places
<1>1. CASE UNCHANGED pagingVars
  BY <1>1, SlotsFrame DEF pagingVars, slotVars, SlotsInv
<1>2. CASE Reconfigure
  BY <1>2, SlotsFrame DEF Reconfigure, SlotsInv
<1>3. ASSUME NEW j \in Jobs, ChunkEnds(j) PROVE SlotsInv'
  BY <1>3, SlotsFrame DEF ChunkEnds, slotVars, SlotsInv
<1>4. ASSUME NEW j \in Jobs, OpenDocument(j) PROVE SlotsInv'
  <2>1. held[j] = {} /\ UNCHANGED <<cap, semaphores, permits, home, held>>
    BY <1>4 DEF OpenDocument, SlotsInv, IdleHoldNone
  <2>2. capRead' \in [Jobs -> Nat] /\ cap' \in Nat
    BY <1>4 DEF OpenDocument, SlotsInv
  <2>3. \E next \in Places : place' = [place EXCEPT ![j] = next]
    BY <1>4 DEF OpenDocument, ReadFrom
  <2>4. AllPermits' = AllPermits
    BY <2>1 DEF AllPermits, PermitsOf
  <2> QED
    BY <2>1, <2>2, <2>3, <2>4 DEF SlotsInv, Accounted, Exclusive, IdleHoldNone
<1>5. ASSUME NEW j \in Jobs, ThreadStep(j) PROVE SlotsInv'
  <2>1. CASE GetSemaphore(j)
    BY <2>1, GetSemaphoreKeepsSlots
  <2>2. CASE TakeSlot(j)
    BY <2>2, SlotsMove DEF TakeSlot
  <2>3. CASE NoMoreSlots(j)
    BY <2>3, SlotsMove DEF NoMoreSlots, slotVars
  <2>4. CASE SlotAtLast(j)
    <3>1. held[j] = {}
      BY <2>4 DEF SlotAtLast, SlotsInv, IdleHoldNone
    <3>2. \E p \in FreeFor(j) :
            permits' = permits \ {p} /\ held' = [held EXCEPT ![j] = @ \cup {p}]
      BY <2>4, <3>1 DEF SlotAtLast
    <3> QED
      BY <2>4, <3>2, SlotsMove DEF SlotAtLast
  <2>5. CASE GiveBack(j)
    <3>1. CASE held[j] = {}
      BY <2>5, <3>1, SlotsMove DEF GiveBack
    <3>2. CASE held[j] # {}
      <4>1. place' = [place EXCEPT ![j] = "releasing"]
        BY <2>5, <3>2 DEF GiveBack, SlotsInv
      <4> QED
        BY <2>5, <3>2, <4>1, SlotsMove DEF GiveBack
    <3> QED
      BY <3>1, <3>2
  <2>6. CASE \/ StartPages(j) \/ ReadPage(j) \/ FillWindow(j)
             \/ TakeHead(j) \/ AllConsumed(j) \/ EndPool(j)
    <3>1. UNCHANGED slotVars
      BY <2>6 DEF StartPages, ReadPage, FillWindow, TakeHead, AllConsumed, EndPool
    <3>2. \/ UNCHANGED place
          \/ \E next \in {"ending", "reading", "filling", "consuming", "releasing"} :
               place' = [place EXCEPT ![j] = next]
      BY <2>6 DEF StartPages, ReadPage, FillWindow, TakeHead, AllConsumed, EndPool,
                  ReadFrom, Stop
    <3> QED
      BY <3>1, <3>2, SlotsMove, SlotsFrame DEF slotVars, SlotsInv
  <2> QED
    BY <1>5, <2>1, <2>2, <2>3, <2>4, <2>5, <2>6 DEF ThreadStep
<1> QED
  BY <1>1, <1>2, <1>3, <1>4, <1>5 DEF PagingNext

\* However often the size is configured anew: no semaphore ever lends more
\* slots than its size, and every slot comes back to the one it was taken from.
THEOREM SlotsAlwaysConserved == PagingSpec => []SlotsConserved
<1>1. PagingInit => SlotsInv
  BY SlotsInit
<1>2. SlotsInv /\ [PagingNext]_pagingVars => SlotsInv'
  BY SlotsStep
<1>3. SlotsInv => SlotsConserved
  BY SlotsInvIsConservation
<1> QED
  BY <1>1, <1>2, <1>3, PTL DEF PagingSpec

\* A thread that takes slots has got a semaphore, and no semaphore is empty.
WaitInv ==
  /\ cap \in Caps
  /\ semaphores \in Seq(Caps)
  /\ \A j \in Jobs : place[j] = "resolving" => capRead[j] \in Caps
  /\ \A j \in Jobs : place[j] \in {"taking", "blocked"} => home[j] \in 1 .. Len(semaphores)

LEMMA WaitInit == PagingInit => WaitInv
BY DEF PagingInit, WaitInv

\* Threads get their semaphore once, and semaphores are only added.
LEMMA WaitStep == SlotsInv /\ WaitInv /\ [PagingNext]_pagingVars => WaitInv'
<1> SUFFICES ASSUME SlotsInv, WaitInv, [PagingNext]_pagingVars PROVE WaitInv'
  OBVIOUS
<1>0. /\ place \in [Jobs -> Places] /\ DOMAIN home = Jobs /\ DOMAIN capRead = Jobs
      /\ semaphores \in Seq(Caps) /\ Len(semaphores) \in Nat
  BY LenProperties DEF SlotsInv, WaitInv
<1>1. CASE UNCHANGED pagingVars \/ Reconfigure
  BY <1>1 DEF pagingVars, slotVars, Reconfigure, WaitInv
<1>2. ASSUME NEW j \in Jobs, ChunkEnds(j) PROVE WaitInv'
  BY <1>2 DEF ChunkEnds, slotVars, WaitInv
<1>3. ASSUME NEW j \in Jobs, OpenDocument(j) PROVE WaitInv'
  <2>1. /\ UNCHANGED <<cap, semaphores, home>>
        /\ \/ /\ place' = [place EXCEPT ![j] = "resolving"]
              /\ capRead' = [capRead EXCEPT ![j] = cap]
           \/ \E next \in {"ending", "reading"} :
                place' = [place EXCEPT ![j] = next] /\ UNCHANGED capRead
    BY <1>3 DEF OpenDocument, ReadFrom, MoveTo
  <2> QED
    BY <1>0, <2>1 DEF WaitInv
<1>4. ASSUME NEW j \in Jobs, GetSemaphore(j) PROVE WaitInv'
  <2>1. /\ place[j] = "resolving" /\ capRead[j] \in Caps
        /\ place' = [place EXCEPT ![j] = "taking"]
        /\ home' = [home EXCEPT ![j] = Len(semaphores')]
        /\ UNCHANGED <<cap, capRead>>
    BY <1>4 DEF GetSemaphore, MoveTo, WaitInv
  <2>2. \A i \in Jobs : i # j => place'[i] = place[i] /\ home'[i] = home[i]
    BY <1>0, <2>1
  <2>3. place'[j] = "taking" /\ home'[j] = Len(semaphores')
    BY <1>0, <2>1
  <2>4. CASE UNCHANGED semaphores
    <3>1. semaphores # <<>>
      BY <1>4, <2>4 DEF GetSemaphore, InForce
    <3>2. Len(semaphores) \in 1 .. Len(semaphores)
      BY <1>0, <3>1, EmptySeq
    <3> QED
      BY <2>1, <2>2, <2>3, <2>4, <3>2 DEF WaitInv
  <2>5. CASE semaphores' = Append(semaphores, capRead[j])
    <3>1. semaphores' \in Seq(Caps) /\ Len(semaphores') = Len(semaphores) + 1
      BY <1>0, <2>1, <2>5, AppendProperties
    <3>2. \A i \in Jobs : place'[i] \in {"taking", "blocked"} =>
            home'[i] \in 1 .. Len(semaphores')
      BY <1>0, <2>2, <2>3, <3>1 DEF WaitInv
    <3> QED
      BY <2>1, <2>2, <2>3, <3>1, <3>2 DEF WaitInv
  <2> QED
    BY <1>4, <2>4, <2>5 DEF GetSemaphore
<1>5. ASSUME NEW j \in Jobs, ThreadStep(j), ~GetSemaphore(j) PROVE WaitInv'
  <2>1. UNCHANGED <<cap, semaphores, capRead, home>>
    BY <1>5 DEF ThreadStep, TakeSlot, NoMoreSlots, SlotAtLast, StartPages, ReadPage, FillWindow,
                TakeHead, AllConsumed, EndPool, GiveBack, slotVars
  <2>2. \/ UNCHANGED place
        \/ \E next \in Places \ {"resolving", "taking", "blocked"} :
             place' = [place EXCEPT ![j] = next]
        \/ /\ place[j] = "taking"
           /\ \E next \in {"taking", "blocked"} : place' = [place EXCEPT ![j] = next]
    BY <1>5 DEF ThreadStep, TakeSlot, NoMoreSlots, SlotAtLast, StartPages, ReadPage, FillWindow,
                TakeHead, AllConsumed, EndPool, GiveBack, ReadFrom, Stop, MoveTo, Places
  <2> QED
    BY <1>0, <2>1, <2>2 DEF WaitInv
<1> QED
  BY <1>1, <1>2, <1>3, <1>4, <1>5 DEF PagingNext

LEMMA WaitInvServes == SlotsInv /\ WaitInv => SlotCanCome
<1> SUFFICES ASSUME SlotsInv, WaitInv, NEW j \in Jobs, place[j] = "blocked"
             PROVE  \/ FreeFor(j) # {}
                    \/ \E other \in Jobs :
                         /\ place[other] \notin {"blocked", "ended"}
                         /\ \E p \in held[other] : p[1] = home[j]
  BY DEF SlotCanCome
<1> DEFINE slot == <<home[j], 1>>
<1>1. /\ home[j] \in DOMAIN semaphores
      /\ semaphores[home[j]] \in Nat \ {0}
  <2>1. semaphores \in Seq(Caps) /\ home[j] \in 1 .. Len(semaphores)
    BY DEF WaitInv
  <2>2. home[j] \in DOMAIN semaphores /\ semaphores[home[j]] \in Caps
    BY <2>1, LenProperties, ElementOfSeq
  <2> QED
    BY <2>2, ExtractionAssumption
<1>2. slot \in PermitsOf(home[j])
  BY <1>1 DEF PermitsOf
<1>3. slot \in AllPermits /\ slot[1] = home[j]
  BY <1>1, <1>2 DEF AllPermits
<1> HIDE DEF slot
<1>4. CASE slot \in permits
  BY <1>3, <1>4 DEF FreeFor
<1>5. CASE slot \notin permits
  <2>1. PICK other \in Jobs : slot \in held[other]
    BY <1>3, <1>5 DEF SlotsInv, Accounted
  <2>2. place[other] \notin {"blocked", "ended"}
    BY <2>1 DEF SlotsInv, IdleHoldNone
  <2> QED
    BY <1>3, <2>1, <2>2
<1> QED
  BY <1>4, <1>5

\* No thread ever waits for a slot that cannot come back: the semaphore it
\* has got is not empty, and whoever has its slots does not wait.
THEOREM WaitersAreServed == PagingSpec => []SlotCanCome
<1>1. PagingInit => SlotsInv /\ WaitInv
  BY SlotsInit, WaitInit
<1>2. SlotsInv /\ WaitInv /\ [PagingNext]_pagingVars => SlotsInv' /\ WaitInv'
  BY SlotsStep, WaitStep
<1> QED
  BY <1>1, <1>2, WaitInvServes, PTL DEF PagingSpec
-----------------------------------------------------------------------------
(* ------------------------------- the pages ----------------------------- *)
\* Ranges of indices are sequences, and add up.
LEMMA IndicesSeq ==
  ASSUME NEW first \in Nat, NEW last \in Nat, first <= last
  PROVE  /\ Indices(first, last) \in Seq(Nat)
         /\ Len(Indices(first, last)) = last - first
         /\ \A i \in 1 .. last - first : Indices(first, last)[i] = first + i - 1
<1>1. /\ last - first \in Nat
      /\ \A i \in 1 .. last - first : first + i - 1 \in Nat
  OBVIOUS
<1>2. Indices(first, last) \in [1 .. last - first -> Nat]
  BY <1>1 DEF Indices
<1>3. Indices(first, last) \in Seq(Nat)
  BY <1>1, <1>2, SeqDef
<1> QED
  BY <1>1, <1>2, <1>3 DEF Indices

LEMMA IndicesAppend ==
  ASSUME NEW k \in Nat
  PROVE  Append(Indices(0, k), k) = Indices(0, k + 1)
<1> DEFINE s == Indices(0, k)
           t == Indices(0, k + 1)
<1>1. /\ s \in Seq(Nat) /\ Len(s) = k
      /\ \A i \in 1 .. k : s[i] = i - 1
  BY IndicesSeq
<1>2. /\ t \in Seq(Nat) /\ Len(t) = k + 1
      /\ \A i \in 1 .. k + 1 : t[i] = i - 1
  BY IndicesSeq
<1> HIDE DEF s, t
<1>3. /\ Append(s, k) \in Seq(Nat) /\ Len(Append(s, k)) = k + 1
      /\ \A i \in 1 .. k + 1 : Append(s, k)[i] = i - 1
  BY <1>1
<1>4. Append(s, k) = t
  BY <1>2, <1>3, SeqEqual
<1> QED
  BY <1>4 DEF s, t

LEMMA IndicesConcat ==
  ASSUME NEW k \in Nat, NEW m \in Nat, k <= m
  PROVE  Indices(0, k) \o Indices(k, m) = Indices(0, m)
<1> DEFINE s == Indices(0, k)
           t == Indices(k, m)
           u == Indices(0, m)
<1>1. /\ s \in Seq(Nat) /\ Len(s) = k
      /\ \A i \in 1 .. k : s[i] = i - 1
  BY IndicesSeq
<1>2. /\ t \in Seq(Nat) /\ Len(t) = m - k
      /\ \A i \in 1 .. m - k : t[i] = k + i - 1
  BY IndicesSeq
<1>3. /\ u \in Seq(Nat) /\ Len(u) = m
      /\ \A i \in 1 .. m : u[i] = i - 1
  BY IndicesSeq
<1> HIDE DEF s, t, u
<1>4. /\ s \o t \in Seq(Nat) /\ Len(s \o t) = m
      /\ \A i \in 1 .. m : (s \o t)[i] = IF i <= k THEN s[i] ELSE t[i - k]
  BY <1>1, <1>2, ConcatProperties
<1>5. \A i \in 1 .. m : (s \o t)[i] = i - 1
  BY <1>1, <1>2, <1>4
<1>6. s \o t = u
  BY <1>3, <1>4, <1>5, SeqEqual
<1> QED
  BY <1>6 DEF s, t, u

\* A chain of chunks: each begins where the one before it ends.
ChainOf(c, from, to) ==
  /\ \A i \in 1 .. Len(c) :
       /\ c[i].first = IF i = 1 THEN from ELSE c[i - 1].last
       /\ c[i].first <= c[i].last
       /\ c[i].last <= to
  /\ to = IF c = <<>> THEN from ELSE c[Len(c)].last

LEMMA ChainAppend ==
  ASSUME NEW c \in Seq(Chunks), NEW from \in Nat, NEW to \in Nat, ChainOf(c, from, to),
         NEW n \in Chunks, n.first = to, to <= n.last
  PROVE  ChainOf(Append(c, n), from, n.last)
<1> DEFINE d == Append(c, n)
<1>1. Len(c) \in Nat /\ Len(d) = Len(c) + 1 /\ d # <<>>
  OBVIOUS
<1>2. d[Len(c) + 1] = n /\ \A i \in 1 .. Len(c) : d[i] = c[i]
  OBVIOUS
<1>3. \A i \in 1 .. Len(c) : c[i].last \in Nat
  <2>1. \A i \in 1 .. Len(c) : c[i] \in Chunks
    BY ElementOfSeq
  <2> QED
    BY <2>1 DEF Chunks
<1>4. c = <<>> <=> Len(c) = 0
  OBVIOUS
<1>5. n.last \in Nat /\ n.first \in Nat
  BY DEF Chunks
<1> HIDE DEF d
<1>6. ASSUME NEW i \in 1 .. Len(d)
      PROVE  /\ d[i].first = IF i = 1 THEN from ELSE d[i - 1].last
             /\ d[i].first <= d[i].last
             /\ d[i].last <= n.last
  <2>1. CASE i \in 1 .. Len(c)
    BY <2>1, <1>1, <1>2, <1>3, <1>5 DEF ChainOf
  <2>2. CASE i = Len(c) + 1
    BY <2>2, <1>1, <1>2, <1>4, <1>5 DEF ChainOf
  <2> QED
    BY <2>1, <2>2, <1>1
<1>7. ChainOf(d, from, n.last)
  BY <1>1, <1>2, <1>6 DEF ChainOf
<1> QED
  BY <1>7 DEF d

LEMMA ChainTail ==
  ASSUME NEW c \in Seq(Chunks), c # <<>>, NEW from \in Nat, NEW to \in Nat,
         ChainOf(c, from, to)
  PROVE  /\ ChainOf(Tail(c), Head(c).last, to)
         /\ Head(c) \in Chunks /\ Head(c).first = from
         /\ from <= Head(c).last /\ Head(c).last <= to
<1> DEFINE d == Tail(c)
<1>1. Len(c) \in Nat \ {0} /\ Len(d) = Len(c) - 1 /\ d \in Seq(Chunks)
  OBVIOUS
<1>2. \A i \in 1 .. Len(d) : d[i] = c[i + 1]
  BY HeadTailProperties
<1>3. d = <<>> <=> Len(c) = 1
  <2>1. d = <<>> <=> Len(d) = 0
    BY <1>1, EmptySeq
  <2> QED
    BY <1>1, <2>1
<1>4. Head(c) = c[1] /\ \A i \in 1 .. Len(c) : c[i] \in Chunks
  BY <1>1, ElementOfSeq
<1> HIDE DEF d
<1>5. ASSUME NEW i \in 1 .. Len(d)
      PROVE  /\ d[i].first = IF i = 1 THEN c[1].last ELSE d[i - 1].last
             /\ d[i].first <= d[i].last /\ d[i].last <= to
  <2>1. /\ i + 1 \in 1 .. Len(c) /\ i + 1 # 1 /\ (i + 1) - 1 = i
        /\ i # 1 => i - 1 \in 1 .. Len(d) /\ (i - 1) + 1 = i
    BY <1>1
  <2>2. d[i] = c[i + 1] /\ (i # 1 => d[i - 1] = c[i])
    BY <1>2, <2>1
  <2>3. c[i + 1].first = c[i].last
    BY <2>1 DEF ChainOf
  <2>4. c[i + 1].first <= c[i + 1].last /\ c[i + 1].last <= to
    BY <2>1 DEF ChainOf
  <2> QED
    BY <2>2, <2>3, <2>4
<1>6. to = IF d = <<>> THEN c[1].last ELSE d[Len(d)].last
  <2>1. to = c[Len(c)].last
    BY DEF ChainOf
  <2>2. d # <<>> => d[Len(d)] = c[Len(c)]
    <3>1. d # <<>> => Len(d) \in 1 .. Len(d) /\ Len(d) + 1 = Len(c)
      BY <1>1, <1>3
    <3> QED
      BY <1>2, <3>1
  <2> QED
    BY <1>3, <2>1, <2>2
<1>7. ChainOf(d, c[1].last, to)
  BY <1>5, <1>6 DEF ChainOf
<1>8. c[1].first = from /\ from <= c[1].last /\ c[1].last <= to
  BY <1>1 DEF ChainOf
<1> QED
  BY <1>1, <1>4, <1>7, <1>8 DEF d

\* The chunks in flight, from the first page that has not been yielded to the
\* first that has not been submitted.
Chained(j) ==
  ChainOf(pending[j], Len(emitted[j]), upTo[j]) /\ upTo[j] <= pages[j]

Over == {"ending", "releasing", "ended"}
Pooled == {"filling", "consuming"}
Granting == {"resolving", "taking", "blocked", "granted"}
Early == Granting \cup {"new"}

\* What holds of one document.
JobInv(j) ==
  /\ pages[j] \in Nat
  /\ place[j] \in Places
  /\ IsFiniteSet(held[j])
  /\ pending[j] \in Seq(Chunks)
  /\ upTo[j] \in Nat
  /\ emitted[j] \in Seq(Nat)
  /\ emitted[j] = Indices(0, Len(emitted[j]))
  /\ Len(emitted[j]) <= pages[j]
  /\ outcome[j] = "complete" => Len(emitted[j]) = pages[j]
  /\ place[j] \notin Over => outcome[j] = "none"
  /\ place[j] \in Over => outcome[j] \in {"complete", "raised"}
  /\ place[j] \in Granting => pages[j] # 0
  /\ place[j] \in Early => pending[j] = <<>> /\ upTo[j] = 0 /\ emitted[j] = <<>>
  /\ place[j] = "reading" => Len(emitted[j]) < pages[j]
  /\ place[j] \in Pooled => Granted(j) > 1 /\ Chained(j)
  /\ place[j] = "consuming" /\ pending[j] = <<>> => upTo[j] = pages[j]

AreFunctions ==
  /\ held = [j \in Jobs |-> held[j]] /\ place = [j \in Jobs |-> place[j]]
  /\ pending = [j \in Jobs |-> pending[j]] /\ upTo = [j \in Jobs |-> upTo[j]]
  /\ emitted = [j \in Jobs |-> emitted[j]] /\ outcome = [j \in Jobs |-> outcome[j]]

PagesInv == AreFunctions /\ \A j \in Jobs : JobInv(j)

\* The invariant says more than the property.
LEMMA PagesInvIsOrder == PagesInv => PagesInOrder
  BY DEF PagesInv, JobInv, PagesInOrder

\* At the start nothing has been read.
LEMMA PagesInit == PagingInit => PagesInv
<1> SUFFICES ASSUME PagingInit PROVE PagesInv
  OBVIOUS
<1>1. AreFunctions
  BY DEF PagingInit, AreFunctions
<1>2. ASSUME NEW j \in Jobs PROVE JobInv(j)
  <2>1. /\ pages[j] \in Nat /\ place[j] = "new" /\ held[j] = {} /\ pending[j] = <<>>
        /\ upTo[j] = 0 /\ emitted[j] = <<>> /\ outcome[j] = "none"
    BY DEF PagingInit
  <2>2. IsFiniteSet(held[j])
    BY <2>1, FS_EmptySet
  <2>3. Len(<<>>) = 0 /\ <<>> \in Seq(Nat) /\ <<>> \in Seq(Chunks)
    OBVIOUS
  <2>4. Indices(0, 0) = <<>>
    BY IndicesSeq, EmptySeq
  <2> QED
    BY <2>1, <2>2, <2>3, <2>4 DEF JobInv, Places, Over, Pooled, Granting, Early
<1> QED
  BY <1>1, <1>2 DEF PagesInv

\* A step of one document changes nothing of the others.
LEMMA OneDocument ==
  ASSUME PagesInv, NEW j \in Jobs, pages' = pages,
         held' = [held EXCEPT ![j] = held'[j]],
         place' = [place EXCEPT ![j] = place'[j]],
         pending' = [pending EXCEPT ![j] = pending'[j]],
         upTo' = [upTo EXCEPT ![j] = upTo'[j]],
         emitted' = [emitted EXCEPT ![j] = emitted'[j]],
         outcome' = [outcome EXCEPT ![j] = outcome'[j]],
         JobInv(j)'
  PROVE  PagesInv'
<1>1. AreFunctions'
  BY DEF PagesInv, AreFunctions
<1>2. ASSUME NEW i \in Jobs, i # j PROVE JobInv(i)'
  <2>1. JobInv(i)
    BY DEF PagesInv
  <2>2. /\ pages'[i] = pages[i] /\ held'[i] = held[i] /\ place'[i] = place[i]
        /\ pending'[i] = pending[i] /\ upTo'[i] = upTo[i]
        /\ emitted'[i] = emitted[i] /\ outcome'[i] = outcome[i]
    BY <1>2 DEF PagesInv, AreFunctions
  <2>3. Chained(i)' <=> Chained(i)
    BY <2>2 DEF Chained
  <2>4. Granted(i)' = Granted(i)
    BY <2>2 DEF Granted
  <2> QED
    BY <2>1, <2>2, <2>3, <2>4 DEF JobInv
<1> QED
  BY <1>1, <1>2 DEF PagesInv

\* A step that touches only the slots, before the pages or after them.
LEMMA SlotsOnly ==
  ASSUME PagesInv, NEW j \in Jobs, UNCHANGED pageVars,
         held' = [held EXCEPT ![j] = held'[j]], IsFiniteSet(held'[j]),
         place' = [place EXCEPT ![j] = place'[j]],
         \/ place[j] \in Granting /\ place'[j] \in Granting
         \/ place[j] \in Over /\ place'[j] \in Over
  PROVE  PagesInv'
<1>1. JobInv(j)
  BY DEF PagesInv
<1>2. JobInv(j)'
  BY <1>1 DEF JobInv, pageVars, Early, Granting, Over, Pooled, Places
<1>3. /\ pending' = [pending EXCEPT ![j] = pending'[j]]
      /\ upTo' = [upTo EXCEPT ![j] = upTo'[j]]
      /\ emitted' = [emitted EXCEPT ![j] = emitted'[j]]
      /\ outcome' = [outcome EXCEPT ![j] = outcome'[j]]
  BY DEF pageVars, PagesInv, AreFunctions
<1> QED
  BY <1>2, <1>3, OneDocument DEF pageVars

\* The chunk that is submitted next follows the chain.
LEMMA SubmitKeepsChain ==
  ASSUME NEW j \in Jobs, AreFunctions, NEW chunks \in Seq(Chunks), NEW from \in Nat,
         pages[j] \in Nat, upTo[j] \in Nat, upTo[j] <= pages[j],
         Granted(j) \in Nat, Granted(j) > 1,
         ChainOf(chunks, from, upTo[j]), SubmitNext(j, chunks)
  PROVE  /\ pending' = [pending EXCEPT ![j] = pending'[j]]
         /\ upTo' = [upTo EXCEPT ![j] = upTo'[j]]
         /\ pending'[j] \in Seq(Chunks) /\ upTo'[j] \in Nat
         /\ ChainOf(pending'[j], from, upTo'[j]) /\ upTo'[j] <= pages[j]
         /\ pending'[j] = <<>> => upTo'[j] = pages[j]
<1>1. CASE upTo[j] < pages[j]
  <2>1. ChunkSize(j) \in Nat /\ ChunkSize(j) >= 1
    BY DEF ChunkSize, Least, Most
  <2>2. /\ NextChunk(j) \in Chunks /\ NextChunk(j).first = upTo[j]
        /\ upTo[j] <= NextChunk(j).last /\ NextChunk(j).last <= pages[j]
        /\ NextChunk(j).last \in Nat
    BY <1>1, <2>1 DEF NextChunk, Chunks, Answers, Least
  <2>3. /\ pending' = [pending EXCEPT ![j] = Append(chunks, NextChunk(j))]
        /\ upTo' = [upTo EXCEPT ![j] = NextChunk(j).last]
    BY <1>1 DEF SubmitNext
  <2>4. pending'[j] = Append(chunks, NextChunk(j)) /\ upTo'[j] = NextChunk(j).last
    BY <2>3 DEF AreFunctions
  <2>5. ChainOf(pending'[j], from, upTo'[j])
    BY <2>2, <2>4, ChainAppend
  <2>6. pending'[j] # <<>> /\ pending'[j] \in Seq(Chunks)
    BY <2>2, <2>4
  <2> QED
    BY <2>2, <2>3, <2>4, <2>5, <2>6
<1>2. CASE ~(upTo[j] < pages[j])
  BY <1>2 DEF SubmitNext, AreFunctions
<1> QED
  BY <1>1, <1>2

-----------------------------------------------------------------------------
(* ----------------------------- the steps ------------------------------- *)
\* A document is opened.
LEMMA OpenKeepsPages ==
  ASSUME PagesInv, NEW j \in Jobs, OpenDocument(j)
  PROVE  PagesInv'
<1>1. JobInv(j)
  BY DEF PagesInv
<1>2. place[j] = "new" /\ outcome[j] = "none" /\ emitted[j] = <<>>
  BY <1>1 DEF OpenDocument, JobInv, Early, Granting, Over, Pooled, Places
<1>3. \E next \in {"ending", "reading", "resolving"} :
        /\ place' = [place EXCEPT ![j] = next]
        /\ next = "ending" <=> pages[j] = 0
  <2>1. pages[j] = 0 => Wanted(j) <= 1
    BY DEF Wanted, Least, Most
  <2> QED
    BY <1>1, <2>1 DEF OpenDocument, ReadFrom, MoveTo
<1>4. PICK next \in {"ending", "reading", "resolving"} :
        /\ place' = [place EXCEPT ![j] = next]
        /\ next = "ending" <=> pages[j] = 0
  BY <1>3
<1>5. /\ place'[j] = next /\ outcome'[j] = (IF pages[j] = 0 THEN "complete" ELSE "none")
      /\ UNCHANGED <<held, pages, pending, upTo, emitted>>
  BY <1>2, <1>4 DEF OpenDocument, PagesInv, AreFunctions
<1>6. JobInv(j)'
  BY <1>1, <1>2, <1>4, <1>5, Len(<<>>) = 0 DEF JobInv, Early, Granting, Over, Pooled, Places
<1> QED
  BY <1>4, <1>5, <1>6, OneDocument DEF OpenDocument, PagesInv, AreFunctions

\* It is read without a pool or with one.
LEMMA StartKeepsPages ==
  ASSUME PagesInv, NEW j \in Jobs, StartPages(j)
  PROVE  PagesInv'
<1>1. JobInv(j)
  BY DEF PagesInv
<1>2. /\ place[j] = "granted" /\ outcome[j] = "none" /\ emitted[j] = <<>>
      /\ pending[j] = <<>> /\ upTo[j] = 0
  BY <1>1 DEF StartPages, JobInv, Early, Granting, Over, Pooled, Places
<1>3. PICK next \in {"reading", "filling"} :
        /\ place' = [place EXCEPT ![j] = next] /\ pages[j] # 0
        /\ next = "filling" => Granted(j) > 1
  BY <1>1 DEF StartPages, ReadFrom, MoveTo, JobInv, Granting
<1>4. /\ place'[j] = next
      /\ UNCHANGED <<held, pages, pending, upTo, emitted, outcome>>
  BY <1>3 DEF StartPages, slotVars, pageVars, PagesInv, AreFunctions
<1>5. Chained(j)'
  BY <1>1, <1>2, <1>4, Len(<<>>) = 0 DEF Chained, ChainOf, JobInv
<1>6. Granted(j)' = Granted(j)
  BY <1>4 DEF Granted
<1>7. JobInv(j)'
  <2>1. Len(emitted[j]) = 0
    BY <1>2
  <2>2. /\ place'[j] \in Places /\ place'[j] \notin Early \cup Over
        /\ place'[j] \notin Granting
        /\ place'[j] = "reading" => next = "reading"
        /\ place'[j] \in Pooled => next = "filling"
    BY <1>3, <1>4 DEF Early, Granting, Over, Pooled, Places
  <2>3. place'[j] # "consuming"
    BY <1>3, <1>4
  <2>4. /\ place'[j] = "reading" => Len(emitted'[j]) < pages'[j]
        /\ place'[j] \in Pooled => Granted(j)' > 1 /\ Chained(j)'
    BY <1>1, <1>3, <1>4, <1>5, <1>6, <2>1, <2>2 DEF JobInv
  <2> QED
    BY <1>1, <1>2, <1>4, <2>2, <2>3, <2>4 DEF JobInv
<1> QED
  BY <1>3, <1>4, <1>7, OneDocument DEF PagesInv, AreFunctions

\* One page is read without a pool.
LEMMA ReadKeepsPages ==
  ASSUME PagesInv, NEW j \in Jobs, ReadPage(j)
  PROVE  PagesInv'
<1>1. JobInv(j)
  BY DEF PagesInv
<1>2. /\ place[j] = "reading" /\ outcome[j] = "none" /\ Len(emitted[j]) < pages[j]
      /\ Len(emitted[j]) \in Nat /\ UNCHANGED <<held, pages, pending, upTo>>
  BY <1>1 DEF ReadPage, JobInv, Early, Granting, Over, Pooled, Places, slotVars
<1>3. CASE /\ emitted' = [emitted EXCEPT ![j] = Append(@, Len(@))]
           /\ IF Len(emitted[j]) + 1 = pages[j]
                THEN Stop(j, "complete")
                ELSE UNCHANGED <<outcome, place>>
  <2>1. emitted'[j] = Append(emitted[j], Len(emitted[j]))
    BY <1>3 DEF PagesInv, AreFunctions
  <2>2. /\ emitted'[j] \in Seq(Nat) /\ Len(emitted'[j]) = Len(emitted[j]) + 1
        /\ emitted'[j] = Indices(0, Len(emitted[j]) + 1)
    <3>1. emitted[j] = Indices(0, Len(emitted[j])) /\ emitted[j] \in Seq(Nat)
      BY <1>1 DEF JobInv
    <3>2. Append(emitted[j], Len(emitted[j])) = Indices(0, Len(emitted[j]) + 1)
      BY <1>2, <3>1, IndicesAppend
    <3>3. Len(Append(emitted[j], Len(emitted[j]))) = Len(emitted[j]) + 1
      BY <3>1
    <3>4. Append(emitted[j], Len(emitted[j])) \in Seq(Nat)
      BY <1>2, <3>1
    <3> QED
      BY <2>1, <3>2, <3>3, <3>4
  <2>3. CASE Len(emitted[j]) + 1 = pages[j]
    <3>1. /\ outcome' = [outcome EXCEPT ![j] = "complete"]
          /\ place' = [place EXCEPT ![j] = "ending"]
      BY <1>3, <2>3 DEF Stop, MoveTo
    <3>2. outcome'[j] = "complete" /\ place'[j] = "ending"
      BY <3>1 DEF PagesInv, AreFunctions
    <3>3. JobInv(j)'
      BY <1>1, <1>2, <2>2, <2>3, <3>2 DEF JobInv, Early, Granting, Over, Pooled, Places
    <3> QED
      BY <1>2, <1>3, <2>1, <3>1, <3>2, <3>3, OneDocument DEF PagesInv, AreFunctions
  <2>4. CASE Len(emitted[j]) + 1 # pages[j]
    <3>1. UNCHANGED <<outcome, place>>
      BY <1>3, <2>4
    <3>2. JobInv(j)'
      BY <1>1, <1>2, <2>2, <2>4, <3>1 DEF JobInv, Early, Granting, Over, Pooled, Places
    <3> QED
      BY <1>2, <1>3, <2>1, <3>1, <3>2, OneDocument DEF PagesInv, AreFunctions
  <2> QED
    BY <2>3, <2>4
<1>4. CASE Stop(j, "raised") /\ UNCHANGED emitted
  <2>1. outcome'[j] = "raised" /\ place'[j] = "ending"
    BY <1>4 DEF Stop, MoveTo, PagesInv, AreFunctions
  <2>2. JobInv(j)'
    BY <1>1, <1>2, <1>4, <2>1 DEF JobInv, Early, Granting, Over, Pooled, Places
  <2> QED
    BY <1>2, <1>4, <2>1, <2>2, OneDocument DEF Stop, MoveTo, PagesInv, AreFunctions
<1> QED
  BY <1>3, <1>4 DEF ReadPage

\* What the window and the consumer of the chunks rely on.
LEMMA PooledFacts ==
  ASSUME PagesInv, NEW j \in Jobs, place[j] \in Pooled
  PROVE  /\ JobInv(j) /\ AreFunctions
         /\ outcome[j] = "none"
         /\ Granted(j) \in Nat /\ Granted(j) > 1
         /\ Chained(j)
         /\ pages[j] \in Nat /\ upTo[j] \in Nat /\ upTo[j] <= pages[j]
         /\ pending[j] \in Seq(Chunks)
         /\ emitted[j] \in Seq(Nat) /\ Len(emitted[j]) \in Nat
<1>1. JobInv(j) /\ AreFunctions
  BY DEF PagesInv
<1>2. place[j] \notin Over
  BY DEF Pooled, Over
<1>3. Granted(j) \in Nat
  BY <1>1, FS_CardinalityType DEF JobInv, Granted
<1> QED
  BY <1>1, <1>2, <1>3 DEF JobInv, Chained

\* The window is filled by one chunk, or is full.
LEMMA FillKeepsPages ==
  ASSUME PagesInv, NEW j \in Jobs, FillWindow(j)
  PROVE  PagesInv'
<1>1. place[j] = "filling" /\ place[j] \in Pooled
  BY DEF FillWindow, Pooled
<1>2. /\ JobInv(j) /\ AreFunctions /\ outcome[j] = "none"
      /\ Granted(j) \in Nat /\ Granted(j) > 1
      /\ Chained(j)
      /\ pages[j] \in Nat /\ upTo[j] \in Nat /\ upTo[j] <= pages[j]
      /\ pending[j] \in Seq(Chunks)
      /\ emitted[j] \in Seq(Nat) /\ Len(emitted[j]) \in Nat
  BY <1>1, PooledFacts
<1>3. UNCHANGED <<held, pages, emitted, outcome>> /\ Granted(j)' = Granted(j)
  BY DEF FillWindow, slotVars, Granted
<1>4. CASE SubmitNext(j, pending[j]) /\ UNCHANGED place
  <2>1. ChainOf(pending[j], Len(emitted[j]), upTo[j])
    BY <1>2 DEF Chained
  <2>2. /\ pending' = [pending EXCEPT ![j] = pending'[j]]
        /\ upTo' = [upTo EXCEPT ![j] = upTo'[j]]
        /\ pending'[j] \in Seq(Chunks) /\ upTo'[j] \in Nat
        /\ ChainOf(pending'[j], Len(emitted[j]), upTo'[j]) /\ upTo'[j] <= pages[j]
    BY <1>2, <1>4, <2>1, SubmitKeepsChain
  <2>3. Chained(j)'
    BY <1>3, <2>2 DEF Chained
  <2>4. JobInv(j)'
    BY <1>1, <1>2, <1>3, <1>4, <2>2, <2>3 DEF JobInv, Early, Granting, Over, Pooled, Places
  <2> QED
    BY <1>2, <1>3, <1>4, <2>2, <2>4, OneDocument DEF AreFunctions
<1>5. CASE /\ ~(Len(pending[j]) < ChunksPerWorker * Granted(j) /\ upTo[j] < pages[j])
           /\ MoveTo(j, "consuming") /\ UNCHANGED <<pending, upTo>>
  <2>1. place' = [place EXCEPT ![j] = "consuming"] /\ place'[j] = "consuming"
    BY <1>2, <1>5 DEF MoveTo, AreFunctions
  <2>2. Chained(j)'
    BY <1>2, <1>3, <1>5 DEF Chained
  <2>3. pending[j] = <<>> => upTo[j] = pages[j]
    <3>1. ChunksPerWorker * Granted(j) > 0
      BY <1>2
    <3>2. Len(<<>>) = 0
      OBVIOUS
    <3> QED
      BY <1>2, <1>5, <3>1, <3>2
  <2>4. JobInv(j)'
    BY <1>2, <1>3, <1>5, <2>1, <2>2, <2>3 DEF JobInv, Early, Granting, Over, Pooled, Places
  <2> QED
    BY <1>2, <1>3, <1>5, <2>1, <2>4, OneDocument DEF AreFunctions
<1> QED
  BY <1>4, <1>5 DEF FillWindow

\* A chunk's answer leaves the chain as it is.
LEMMA ChunkEndsKeepsPages ==
  ASSUME PagesInv, NEW j \in Jobs, ChunkEnds(j)
  PROVE  PagesInv'
<1>1. JobInv(j) /\ AreFunctions
  BY DEF PagesInv
<1> DEFINE c == pending[j]
           d == pending'[j]
<1>2. c \in Seq(Chunks)
  BY <1>1 DEF JobInv
<1>3. PICK i \in DOMAIN c, answer \in {"right", "wrong"} :
        pending' = [pending EXCEPT ![j][i].answer = answer]
  BY DEF ChunkEnds
<1>4. d = [c EXCEPT ![i] = [c[i] EXCEPT !.answer = answer]]
  BY <1>1, <1>3 DEF AreFunctions
<1>5. i \in 1 .. Len(c) /\ c[i] \in Chunks
  BY <1>2, ElementOfSeq
<1>6. /\ [c[i] EXCEPT !.answer = answer] \in Chunks
      /\ [c[i] EXCEPT !.answer = answer].first = c[i].first
      /\ [c[i] EXCEPT !.answer = answer].last = c[i].last
  BY <1>5 DEF Chunks, Answers
<1>7. /\ d \in Seq(Chunks) /\ Len(d) = Len(c)
      /\ \A k \in 1 .. Len(c) : d[k].first = c[k].first /\ d[k].last = c[k].last
  <2>1. /\ d \in Seq(Chunks) /\ Len(d) = Len(c)
        /\ \A k \in 1 .. Len(c) :
             d[k] = IF k = i THEN [c[i] EXCEPT !.answer = answer] ELSE c[k]
    BY <1>2, <1>4, <1>5, <1>6, ExceptSeq
  <2> QED
    BY <1>6, <2>1
<1>8. UNCHANGED <<held, pages, upTo, emitted, outcome, place>>
  BY DEF ChunkEnds, slotVars
<1>9. d = <<>> <=> c = <<>>
  BY <1>2, <1>7, EmptySeq
<1> HIDE DEF c, d
<1>10. ASSUME NEW from, NEW to, ChainOf(c, from, to) PROVE ChainOf(d, from, to)
  <2>1. Len(c) \in Nat
    BY <1>2
  <2>2. \A k \in 1 .. Len(c) : k # 1 => k - 1 \in 1 .. Len(c)
    BY <2>1
  <2>3. c # <<>> => Len(c) \in 1 .. Len(c)
    BY <1>2, EmptySeq
  <2> QED
    BY <1>7, <1>9, <1>10, <2>2, <2>3 DEF ChainOf
<1>11. Chained(j) => Chained(j)'
  BY <1>8, <1>10 DEF Chained, c, d
<1>12. c # <<>>
  BY <1>5, Len(<<>>) = 0
<1>13. place[j] \notin Early
  BY <1>1, <1>12 DEF JobInv, c
<1>14. Granted(j)' = Granted(j)
  BY <1>8 DEF Granted
<1>15. JobInv(j)'
  BY <1>1, <1>7, <1>8, <1>9, <1>11, <1>13, <1>14 DEF JobInv, c, d
<1>16. pending' = [pending EXCEPT ![j] = pending'[j]]
  BY <1>1, <1>3 DEF AreFunctions
<1> QED
  BY <1>1, <1>8, <1>15, <1>16, OneDocument DEF AreFunctions

\* The head of the deque is yielded and a chunk submitted, or the iteration
\* raises.
LEMMA TakeHeadKeepsPages ==
  ASSUME PagesInv, NEW j \in Jobs, TakeHead(j)
  PROVE  PagesInv'
<1>1. place[j] = "consuming" /\ place[j] \in Pooled /\ pending[j] # <<>>
  BY DEF TakeHead, Pooled
<1>2. /\ JobInv(j) /\ AreFunctions /\ outcome[j] = "none"
      /\ Granted(j) \in Nat /\ Granted(j) > 1
      /\ Chained(j)
      /\ pages[j] \in Nat /\ upTo[j] \in Nat /\ upTo[j] <= pages[j]
      /\ pending[j] \in Seq(Chunks)
      /\ emitted[j] \in Seq(Nat) /\ Len(emitted[j]) \in Nat
  BY <1>1, PooledFacts
<1>3. UNCHANGED <<held, pages>> /\ Granted(j)' = Granted(j)
  BY DEF TakeHead, slotVars, Granted
<1> DEFINE head == Head(pending[j])
           rest == Tail(pending[j])
           from == Len(emitted[j])
<1>4. ChainOf(pending[j], from, upTo[j])
  BY <1>2 DEF Chained
<1>5. /\ ChainOf(rest, head.last, upTo[j]) /\ rest \in Seq(Chunks)
      /\ head \in Chunks /\ head.first = from
      /\ from <= head.last /\ head.last <= upTo[j]
  BY <1>1, <1>2, <1>4, ChainTail, HeadTailProperties
<1>6. head.last \in Nat
  BY <1>5 DEF Chunks
<1>7. CASE /\ Yield(j, Indices(head.first, head.last))
           /\ SubmitNext(j, rest)
           /\ UNCHANGED <<outcome, place>>
  <2>1. emitted'[j] = Indices(0, head.last)
    <3>1. emitted'[j] = emitted[j] \o Indices(from, head.last)
      BY <1>2, <1>5, <1>7 DEF Yield, AreFunctions
    <3>2. emitted[j] = Indices(0, from) /\ from \in Nat
      BY <1>2 DEF JobInv
    <3> HIDE DEF head, rest, from
    <3>3. Indices(0, from) \o Indices(from, head.last) = Indices(0, head.last)
      BY <1>5, <1>6, <3>2, IndicesConcat
    <3> QED
      BY <3>1, <3>2, <3>3
  <2>2. emitted'[j] \in Seq(Nat) /\ Len(emitted'[j]) = head.last
    <3> HIDE DEF head, rest, from
    <3>1. \A k \in Nat : Indices(0, k) \in Seq(Nat) /\ Len(Indices(0, k)) = k
      BY IndicesSeq
    <3> QED
      BY <1>6, <2>1, <3>1
  <2>3. /\ pending' = [pending EXCEPT ![j] = pending'[j]]
        /\ upTo' = [upTo EXCEPT ![j] = upTo'[j]]
        /\ pending'[j] \in Seq(Chunks) /\ upTo'[j] \in Nat
        /\ ChainOf(pending'[j], head.last, upTo'[j]) /\ upTo'[j] <= pages[j]
        /\ pending'[j] = <<>> => upTo'[j] = pages[j]
    BY <1>2, <1>5, <1>6, <1>7, SubmitKeepsChain
  <2>4. Chained(j)'
    BY <1>3, <2>2, <2>3 DEF Chained
  <2>5. head.last <= pages[j]
    BY <1>2, <1>5, <1>6
  <2>6. /\ emitted'[j] = Indices(0, Len(emitted'[j])) /\ Len(emitted'[j]) <= pages'[j]
        /\ emitted'[j] \in Seq(Nat)
    BY <1>3, <2>1, <2>2, <2>5
  <2>7. place'[j] = "consuming" /\ outcome'[j] = "none"
    BY <1>1, <1>2, <1>7
  <2> HIDE DEF head, rest, from
  <2>8. JobInv(j)'
    BY <1>2, <1>3, <2>3, <2>4, <2>6, <2>7 DEF JobInv, Early, Granting, Over, Pooled, Places
  <2>9. emitted' = [emitted EXCEPT ![j] = emitted'[j]]
    BY <1>2, <1>7 DEF Yield, AreFunctions
  <2> QED
    BY <1>2, <1>3, <1>7, <2>3, <2>8, <2>9, OneDocument DEF AreFunctions
<1>8. CASE Stop(j, "raised") /\ UNCHANGED <<pending, upTo, emitted>>
  <2>1. outcome'[j] = "raised" /\ place'[j] = "ending"
    BY <1>2, <1>8 DEF Stop, MoveTo, AreFunctions
  <2>2. JobInv(j)'
    BY <1>2, <1>3, <1>8, <2>1 DEF JobInv, Early, Granting, Over, Pooled, Places
  <2> QED
    BY <1>2, <1>3, <1>8, <2>1, <2>2, OneDocument DEF Stop, MoveTo, AreFunctions
<1> QED
  BY <1>7, <1>8 DEF TakeHead

\* When no chunk is left, all pages have been yielded.
LEMMA AllConsumedKeepsPages ==
  ASSUME PagesInv, NEW j \in Jobs, AllConsumed(j)
  PROVE  PagesInv'
<1>1. place[j] = "consuming" /\ place[j] \in Pooled /\ pending[j] = <<>>
  BY DEF AllConsumed, Pooled
<1>2. JobInv(j) /\ AreFunctions /\ Chained(j)
  BY <1>1, PooledFacts
<1>3. upTo[j] = pages[j] /\ upTo[j] = Len(emitted[j])
  BY <1>1, <1>2 DEF JobInv, Chained, ChainOf
<1>4. UNCHANGED <<held, pages, pending, upTo, emitted>>
  BY DEF AllConsumed, slotVars
<1>5. /\ outcome' = [outcome EXCEPT ![j] = "complete"] /\ outcome'[j] = "complete"
      /\ place' = [place EXCEPT ![j] = "ending"] /\ place'[j] = "ending"
  BY <1>2 DEF AllConsumed, Stop, MoveTo, AreFunctions
<1>6. JobInv(j)'
  BY <1>2, <1>3, <1>4, <1>5 DEF JobInv, Early, Granting, Over, Pooled, Places
<1> QED
  BY <1>2, <1>4, <1>5, <1>6, OneDocument DEF AreFunctions

\* The pool is shut down.
LEMMA EndPoolKeepsPages ==
  ASSUME PagesInv, NEW j \in Jobs, EndPool(j)
  PROVE  PagesInv'
<1>1. JobInv(j) /\ AreFunctions
  BY DEF PagesInv
<1>2. UNCHANGED <<held, pages, upTo, emitted, outcome>>
  BY DEF EndPool, slotVars
<1>3. /\ place[j] = "ending"
      /\ pending' = [pending EXCEPT ![j] = <<>>] /\ pending'[j] = <<>>
      /\ place' = [place EXCEPT ![j] = "releasing"] /\ place'[j] = "releasing"
  BY <1>1 DEF EndPool, MoveTo, AreFunctions
<1>4. JobInv(j)'
  BY <1>1, <1>2, <1>3 DEF JobInv, Early, Granting, Over, Pooled, Places
<1> QED
  BY <1>1, <1>2, <1>3, <1>4, OneDocument DEF AreFunctions

\* Every step keeps the invariant of the pages.
LEMMA PagesStep == PagesInv /\ [PagingNext]_pagingVars => PagesInv'
<1> SUFFICES ASSUME PagesInv, [PagingNext]_pagingVars PROVE PagesInv'
  OBVIOUS
<1>0. AreFunctions /\ \A j \in Jobs : JobInv(j)
  BY DEF PagesInv
<1>1. CASE UNCHANGED <<held, pageVars, place>>
  <2>1. ASSUME NEW j \in Jobs PROVE JobInv(j)'
    <3>1. Chained(j)' <=> Chained(j)
      BY <1>1 DEF Chained, pageVars
    <3>2. Granted(j)' = Granted(j)
      BY <1>1 DEF Granted
    <3> QED
      BY <1>0, <1>1, <3>1, <3>2 DEF JobInv, pageVars
  <2> QED
    BY <1>0, <1>1, <2>1 DEF PagesInv, AreFunctions, pageVars
<1>2. CASE UNCHANGED pagingVars
  BY <1>1, <1>2 DEF pagingVars, slotVars
<1>3. CASE Reconfigure
  BY <1>1, <1>3 DEF Reconfigure
<1>4. ASSUME NEW j \in Jobs, OpenDocument(j) PROVE PagesInv'
  BY <1>4, OpenKeepsPages
<1>5. ASSUME NEW j \in Jobs, ChunkEnds(j) PROVE PagesInv'
  BY <1>5, ChunkEndsKeepsPages
<1>6. ASSUME NEW j \in Jobs, ThreadStep(j) PROVE PagesInv'
  <2>0. IsFiniteSet(held[j])
    BY <1>0 DEF JobInv
  <2>1. CASE GetSemaphore(j)
    BY <1>0, <2>0, <2>1, SlotsOnly
       DEF GetSemaphore, MoveTo, AreFunctions, Early, Granting, Over, Pooled, Places
  <2>2. CASE TakeSlot(j)
    <3>1. PICK p \in FreeFor(j) : held' = [held EXCEPT ![j] = @ \cup {p}]
      BY <2>2 DEF TakeSlot
    <3>2. held' = [held EXCEPT ![j] = held'[j]] /\ IsFiniteSet(held'[j])
      BY <1>0, <2>0, <3>1, FS_AddElement DEF AreFunctions
    <3> QED
      BY <1>0, <2>2, <3>2, SlotsOnly
         DEF TakeSlot, MoveTo, AreFunctions, Early, Granting, Over, Pooled, Places
  <2>3. CASE NoMoreSlots(j)
    BY <1>0, <2>0, <2>3, SlotsOnly
       DEF NoMoreSlots, slotVars, MoveTo, AreFunctions, Early, Granting, Over, Pooled, Places
  <2>4. CASE SlotAtLast(j)
    <3>1. PICK p \in FreeFor(j) : held' = [held EXCEPT ![j] = {p}]
      BY <2>4 DEF SlotAtLast
    <3>2. held' = [held EXCEPT ![j] = held'[j]] /\ IsFiniteSet(held'[j])
      BY <1>0, <3>1, FS_Singleton DEF AreFunctions
    <3> QED
      BY <1>0, <2>4, <3>2, SlotsOnly
         DEF SlotAtLast, MoveTo, AreFunctions, Early, Granting, Over, Pooled, Places
  <2>5. CASE GiveBack(j)
    <3>1. held' = [held EXCEPT ![j] = held'[j]] /\ IsFiniteSet(held'[j])
      BY <1>0, <2>0, <2>5, FS_RemoveElement DEF GiveBack, AreFunctions
    <3> QED
      BY <1>0, <2>5, <3>1, SlotsOnly
         DEF GiveBack, MoveTo, AreFunctions, Early, Granting, Over, Pooled, Places
  <2> QED
    BY <1>6, <2>1, <2>2, <2>3, <2>4, <2>5, StartKeepsPages, ReadKeepsPages,
       FillKeepsPages, TakeHeadKeepsPages, AllConsumedKeepsPages, EndPoolKeepsPages
       DEF ThreadStep
<1> QED
  BY <1>2, <1>3, <1>4, <1>5, <1>6 DEF PagingNext

\* Whatever the pool does and in whichever order the chunks end: the pages
\* come out in order and without a gap, and all of them if nothing raised.
THEOREM PagesAlwaysInOrder == PagingSpec => []PagesInOrder
<1>1. PagingInit => PagesInv
  BY PagesInit
<1>2. PagesInv /\ [PagingNext]_pagingVars => PagesInv'
  BY PagesStep
<1>3. PagesInv => PagesInOrder
  BY PagesInvIsOrder
<1> QED
  BY <1>1, <1>2, <1>3, PTL DEF PagingSpec
=============================================================================
