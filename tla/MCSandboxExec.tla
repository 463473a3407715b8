---------------------------- MODULE MCSandboxExec ----------------------------
(***************************************************************************)
(* Small instances of SandboxExec for TLC.                                  *)
(***************************************************************************)
EXTENDS SandboxExec, TLC

CONSTANTS r1, r2
=============================================================================
