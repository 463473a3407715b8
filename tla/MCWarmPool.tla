----------------------------- MODULE MCWarmPool -----------------------------
(***************************************************************************)
(* Small instances of WarmPool for TLC.                                     *)
(***************************************************************************)
EXTENDS WarmPool, TLC

CONSTANTS a1, a2, py, node, unheard

TwoClients == {a1, a2}

\* Clients are interchangeable: no action tells them apart.
ClientSymmetry == Permutations(Clients)

NoFaults == {}
=============================================================================
