---------------------------- MODULE MCDriverPool ----------------------------
(***************************************************************************)
(* Small instances of DriverPool.                                          *)
(***************************************************************************)
EXTENDS DriverPool, TLC

Symmetry == Permutations(Drivers) \cup Permutations(Callers)
=============================================================================
