----------------------------- MODULE SlotService -----------------------------
(***************************************************************************)
(* What parse admission promises, with no event loop in it: a pool of      *)
(* MaxActive parser slots (0: no limit), a line of at most MaxQueued       *)
(* requests served strictly first come, first served, and a door that is   *)
(* closed for shutdown.  A slot that becomes free is handed to the head of *)
(* the line in the same step, so nobody who comes later can take it.       *)
(*                                                                         *)
(* ParseAdmission and ParseProcessManager are shown to implement it.       *)
(***************************************************************************)
EXTENDS Naturals, Sequences, FiniteSets, SequencesExt

CONSTANTS Requests, MaxActive, MaxQueued

VARIABLES holders,   \* the requests that own a slot
          line,      \* the requests waiting, first come first
          open       \* FALSE while the service is shutting down

svars == <<holders, line, open>>

SInit ==
  /\ holders = {}
  /\ line = <<>>
  /\ open = TRUE

HasRoom == MaxActive = 0 \/ Cardinality(holders) < MaxActive

\* A slot is free and nobody waits for it: a newcomer takes it.
Take(r) ==
  /\ open
  /\ r \notin holders \cup ToSet(line)
  /\ HasRoom
  /\ line = <<>>
  /\ holders' = holders \cup {r}
  /\ UNCHANGED <<line, open>>

\* No slot is free: a newcomer joins the end of a line that is not full.
Join(r) ==
  /\ open
  /\ r \notin holders \cup ToSet(line)
  /\ ~HasRoom
  /\ Len(line) < MaxQueued
  /\ line' = Append(line, r)
  /\ UNCHANGED <<holders, open>>

\* A request gives up (timeout, cancellation) wherever it stands in line.
Leave(r) ==
  /\ \E i \in DOMAIN line :
       /\ line[i] = r
       /\ line' = RemoveAt(line, i)
  /\ UNCHANGED <<holders, open>>

\* A holder returns its slot; the head of the line, if any, gets it.
GiveBack(r) ==
  /\ r \in holders
  /\ IF line = <<>>
     THEN /\ holders' = holders \ {r}
          /\ UNCHANGED line
     ELSE /\ holders' = (holders \ {r}) \cup {Head(line)}
          /\ line' = Tail(line)
  /\ UNCHANGED open

\* Shutdown sends the whole line away; holders keep their slots.
Close ==
  /\ open' = FALSE
  /\ line' = <<>>
  /\ UNCHANGED holders

Open ==
  /\ open' = TRUE
  /\ UNCHANGED <<holders, line>>

SNext ==
  \/ \E r \in Requests : Take(r) \/ Join(r) \/ Leave(r) \/ GiveBack(r)
  \/ Close
  \/ Open

SSpec == SInit /\ [][SNext]_svars
=============================================================================
