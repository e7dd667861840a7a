-------------------------- MODULE MCRuntimeScheduler --------------------------
(* Plans for TLC. *)
EXTENDS RuntimeScheduler

\* A unit of each type the scheduler treats in its own way, and one that is in
\* no plan.
PlainUnits == {Intake, Extract(1), Extract(2)}
Known == PlainUnits \cup {Merge}

\* Every dependency among three units, also circular and missing ones.
AnyPlans == [PlainUnits -> SUBSET Known]

\* What the planner makes of a short document.
PlannedPlans == {Plan(1, "small", "full")}

MCPlans == AnyPlans \cup PlannedPlans
=============================================================================
