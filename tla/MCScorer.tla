------------------------------ MODULE MCScorer ------------------------------
(***************************************************************************)
(* Small instances of Scorer for TLC.                                       *)
(***************************************************************************)
EXTENDS Scorer, TLC

CONSTANTS x1, x2

\* The module treats the names of tests alike.
TestSymmetry == Permutations(Tests)
=============================================================================
