------------------------ MODULE MCParseProcessManager ------------------------
(* Small instances of ParseProcessManager for TLC. *)
EXTENDS ParseProcessManager

\* The safety properties treat the requests alike.
Symmetry == Permutations(Requests)
=============================================================================
