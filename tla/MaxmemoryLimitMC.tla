--------------------------- MODULE MaxmemoryLimitMC ---------------------------
(***************************************************************************)
(* Small instances of MaxmemoryLimit for TLC.                              *)
(***************************************************************************)
EXTENDS MaxmemoryLimit

CONSTANTS n1, n2, n3

MCNodes == {n1, n2, n3}
=============================================================================
