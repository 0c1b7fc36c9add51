-------------------------- MODULE MCLockedRegistry --------------------------
(* Small instances of LockedRegistry for TLC.                              *)
EXTENDS LockedRegistry, TLC

CONSTANTS p1, p2, p3

MCSymmetry == Permutations(Process)
=============================================================================
