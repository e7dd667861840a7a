--------------------------- MODULE WorkUnitPlanner ---------------------------
(***************************************************************************)
(* WorkUnitPlanner.plan of src/docmirror/runtime/work_units.py: the plan   *)
(* of work units for one file, as a function from each unit to the units   *)
(* it depends on.  A unit is <<unit_type, number>>; the number tells the   *)
(* pages and the editions apart.                                           *)
(***************************************************************************)
EXTENDS Naturals

CONSTANT EditionCount  \* the editions projected: four in the code

ASSUME EditionAssumption == EditionCount \in Nat

Intake == <<"input_intake", 0>>
Route == <<"format_route", 0>>
Extract(page) == <<"page_extract", page>>
Enrich(page) == <<"page_enrich", page>>
Merge == <<"cross_page_merge", 0>>
Chunk == <<"chunk_project", 0>>
Edition(number) == <<"edition_project", number>>
Evidence == <<"evidence_project", 0>>
Finalize == <<"finalize", 0>>

ConcurrentTypes ==
  {"page_extract", "page_enrich", "chunk_project", "evidence_project"}

IsConcurrent(u) == u[1] \in ConcurrentTypes

\* Long documents have a unit for every page, others one for all pages.
Batches(pages, docSize) == IF docSize \in {"long", "huge"} THEN pages ELSE 1

LastRead(pages, docSize) ==
  LET n == Batches(pages, docSize) IN IF n = 0 THEN Route ELSE Enrich(n)

\* What the projections depend on: `prior` after step 4 of plan().
Prior(pages, docSize) ==
  IF pages > 1 THEN Merge ELSE LastRead(pages, docSize)

Projections(profile) ==
  {Edition(number) : number \in 1 .. EditionCount}
    \cup (IF profile \in {"full", "forensic"} THEN {Chunk} ELSE {})
    \cup (IF profile = "forensic" THEN {Evidence} ELSE {})

\* Every unit but the last one.
Body(pages, docSize, profile) ==
  {Intake, Route}
    \cup {Extract(page) : page \in 1 .. Batches(pages, docSize)}
    \cup {Enrich(page) : page \in 1 .. Batches(pages, docSize)}
    \cup (IF pages > 1 THEN {Merge} ELSE {})
    \cup Projections(profile)

\* The pages of a long document are chained: page p waits for page p - 1.
Plan(pages, docSize, profile) ==
  [u \in Body(pages, docSize, profile) \cup {Finalize} |->
    CASE u[1] = "input_intake" -> {}
      [] u[1] = "format_route" -> {Intake}
      [] u[1] = "page_extract" -> {IF u[2] = 1 THEN Route ELSE Enrich(u[2] - 1)}
      [] u[1] = "page_enrich" -> {Extract(u[2])}
      [] u[1] = "cross_page_merge" -> {LastRead(pages, docSize)}
      [] u[1] = "finalize" -> Body(pages, docSize, profile)
      [] OTHER -> {Prior(pages, docSize)}]
=============================================================================
