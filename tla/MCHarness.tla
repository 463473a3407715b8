------------------------------ MODULE MCHarness ------------------------------
(***************************************************************************)
(* Small instances of Harness for TLC.                                      *)
(***************************************************************************)
EXTENDS Harness, TLC

CONSTANTS v1, o1, t1, py
=============================================================================
