----------------------------- MODULE Projections ------------------------------
(***************************************************************************)
(* build_all_projections of src/docmirror/server/output_builder.py: the    *)
(* commercial editions of one sealed result, each built by a projector on  *)
(* a thread of its own, and collected by the caller under one deadline.    *)
(***************************************************************************)
CONSTANTS Snapshots,  \* the sealed results
          Editions,   \* commercial_projectors: enterprise and finance
          TimeoutIsBuiltin  \* as_completed raises the builtin TimeoutError:
                            \* since Python 3.11; 3.10 is supported too

VARIABLES
  build,      \* where build_all_projections stands with each snapshot
  projector,  \* what each projector's thread does, or its future holds
  offer       \* what is recorded for each edition: its answer or a reason

projectionVars == <<build, projector, offer>>

Builds == {"none", "building", "built", "failed"}
\* "answer": a payload, or none and the reason for it.
Endings == {"answer", "raised"}
Offers == {"none", "answer", "projector_failed", "projector_timeout"}

ProjectionsInit ==
  /\ build = [s \in Snapshots |-> "none"]
  /\ projector = [s \in Snapshots |-> [e \in Editions |-> "none"]]
  /\ offer = [s \in Snapshots |-> [e \in Editions |-> "none"]]

\* `remaining`: the editions that have not been collected.
Remaining(s) == {e \in Editions : offer[s][e] = "none"}

\* The mirror and the community edition are built first, and may raise.
StartBuild(s) ==
  /\ build[s] = "none"
  /\ \/ /\ build' = [build EXCEPT ![s] = "building"]
        /\ projector' = [projector EXCEPT ![s] = [e \in Editions |-> "running"]]
     \/ build' = [build EXCEPT ![s] = "failed"] /\ UNCHANGED projector
  /\ UNCHANGED offer

\* A projector's thread ends, possibly long after the build.  Only the search
\* for a reason, outside the try block, lets an exception out.
ProjectorEnds(s, e) ==
  /\ projector[s][e] = "running"
  /\ \E ending \in Endings : projector' = [projector EXCEPT ![s][e] = ending]
  /\ UNCHANGED <<build, offer>>

\* What is left gets a reason, and the loop is over.
GiveUpOn(s, reason) ==
  /\ offer' = [offer EXCEPT ![s] =
                [e \in Editions |-> IF e \in Remaining(s) THEN reason ELSE @[e]]]
  /\ build' = [build EXCEPT ![s] = "built"]

\* as_completed yields a future with a result; the loop ends with the last.
Collect(s, e) ==
  /\ build[s] = "building"
  /\ e \in Remaining(s)
  /\ projector[s][e] = "answer"
  /\ offer' = [offer EXCEPT ![s][e] = "answer"]
  /\ build' = [build EXCEPT ![s] = IF Remaining(s) = {e} THEN "built" ELSE @]
  /\ UNCHANGED projector

\* Slip: only the edition that raised gets a reason.
CollectRaised_One(s, e) ==
  /\ build[s] = "building"
  /\ e \in Remaining(s)
  /\ projector[s][e] = "raised"
  /\ offer' = [offer EXCEPT ![s][e] = "projector_failed"]
  /\ build' = [build EXCEPT ![s] = "built"]
  /\ UNCHANGED projector

\* It yields a future that raised: the loop is left with all that remains.
CollectRaised(s, e) ==
  /\ build[s] = "building"
  /\ e \in Remaining(s)
  /\ projector[s][e] = "raised"
  /\ GiveUpOn(s, "projector_failed")
  /\ UNCHANGED projector

\* The deadline passes: also a result that is ready and not collected is lost.
\* `except TimeoutError` names the builtin one; before Python 3.11 the
\* exception of as_completed is another and goes to `except Exception`.
Deadline(s) ==
  /\ build[s] = "building"
  /\ Remaining(s) # {}
  /\ GiveUpOn(s, IF TimeoutIsBuiltin THEN "projector_timeout" ELSE "projector_failed")
  /\ UNCHANGED projector

Caller(s) ==
  Deadline(s) \/ \E e \in Editions : Collect(s, e) \/ CollectRaised(s, e)

ProjectionsNext ==
  \E s \in Snapshots :
    StartBuild(s) \/ Caller(s) \/ \E e \in Editions : ProjectorEnds(s, e)

ProjectionsSpec == ProjectionsInit /\ [][ProjectionsNext]_projectionVars
-----------------------------------------------------------------------------
\* The types of the variables.
ProjectionsTypeOK ==
  /\ build \in [Snapshots -> Builds]
  /\ projector \in [Snapshots -> [Editions -> {"none", "running"} \cup Endings]]
  /\ offer \in [Snapshots -> [Editions -> Offers]]

\* An edition is said to have failed only because a projector raised, and not
\* because the deadline has passed.  This needs TimeoutIsBuiltin.
ReasonsAreTrue ==
  \A s \in Snapshots : \A e \in Editions :
    offer[s][e] = "projector_failed" =>
      \E other \in Editions : projector[s][other] = "raised"

\* When build_all_projections returns, every edition is accounted for, and
\* truthfully: an answer is the projector's own, and so is a failure.
EditionsAnswered ==
  /\ \A s \in Snapshots :
       /\ build[s] = "built" => Remaining(s) = {}
       /\ \A e \in Editions : offer[s][e] = "answer" => projector[s][e] = "answer"
  /\ ReasonsAreTrue
=============================================================================
