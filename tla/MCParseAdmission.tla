--------------------------- MODULE MCParseAdmission ---------------------------
(* Small instances of ParseAdmission for TLC. *)
EXTENDS ParseAdmission

\* The safety properties mention requests only through quantifiers, so
\* permuting them changes nothing.
Symmetry == Permutations(Requests)
=============================================================================
