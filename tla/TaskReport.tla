------------------------------ MODULE TaskReport ------------------------------
(***************************************************************************)
(* What a task of several documents shows to whoever reads its manifest:   *)
(* a report on every document that only moves forward, and one status that *)
(* stays "running" until it is decided, once, from a report in which every *)
(* document is finished.  The worker may be gone at any moment; what it    *)
(* leaves behind then is an honest unfinished report.                      *)
(*                                                                         *)
(* TaskExecution is shown to implement it for tasks of several documents.  *)
(***************************************************************************)
EXTENDS Naturals

CONSTANTS Files,  \* the documents of the task
          Full    \* the percentage of a finished document

VARIABLES status,  \* of the task
          shown,   \* the report on every document
          over     \* the worker has ended, one way or the other

rvars == <<status, shown, over>>

Untouched == [status |-> "running", percent |-> 0]

RInit ==
  /\ status = "running"
  /\ shown = [f \in Files |-> Untouched]
  /\ over = FALSE

DocumentReports == [status : {"running", "success", "failed"}, percent : 0..Full]

\* A later report on a document takes nothing back.
Extends(new, old) ==
  /\ new.percent >= old.percent
  /\ old.status = "running" \/ new.status = old.status

Finished(report) == \A f \in Files : report[f].status # "running"

Verdict(report) ==
  LET succeeded == {f \in Files : report[f].status = "success"}
  IN  IF succeeded = {} THEN "failed"
      ELSE IF succeeded = Files THEN "success" ELSE "partial"

\* The report moves forward.
Advance ==
  /\ ~over
  /\ shown' \in [Files -> DocumentReports]
  /\ \A f \in Files : Extends(shown'[f], shown[f])
  /\ UNCHANGED <<status, over>>

\* The last report and the status that follows from it appear together.
Conclude ==
  /\ ~over
  /\ shown' \in [Files -> DocumentReports]
  /\ \A f \in Files : Extends(shown'[f], shown[f])
  /\ Finished(shown')
  /\ status' = Verdict(shown')
  /\ over' = TRUE

\* The worker is gone and the report stays as it is.
Abandon ==
  /\ ~over
  /\ over' = TRUE
  /\ UNCHANGED <<status, shown>>

RNext == Advance \/ Conclude \/ Abandon

RSpec == RInit /\ [][RNext]_rvars
-----------------------------------------------------------------------------
\* What follows from it: a status other than "running" is true of the report
\* that stands beside it, and nobody works any more.
RInv ==
  /\ shown \in [Files -> DocumentReports]
  /\ status # "running" => over /\ Finished(shown) /\ status = Verdict(shown)
=============================================================================
