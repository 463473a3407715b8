---------------------------- MODULE MCEvalRunner ----------------------------
(***************************************************************************)
(* Small instances of EvalRunner for TLC.                                   *)
(***************************************************************************)
EXTENDS EvalRunner, TLC

CONSTANTS v1, v2, s1, s2, t1, t2
=============================================================================
