---------------------------- MODULE ClientPoolMC ----------------------------
(***************************************************************************)
(* A small instance of ClientPool for TLC.                                 *)
(***************************************************************************)
EXTENDS ClientPool, TLC

CONSTANTS p1, p2, p3, k1, k2

MCCallers == {p1, p2, p3}
MCKeys == {k1, k2}

\* Callers and keys are interchangeable.
Symmetry == Permutations(MCCallers) \cup Permutations(MCKeys)
=============================================================================
