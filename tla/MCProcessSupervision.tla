------------------------ MODULE MCProcessSupervision ------------------------
(* Small instances of ProcessSupervision for TLC.                          *)
EXTENDS ProcessSupervision, TLC

CONSTANTS p1, p2, t1, t2

MCSymmetry == Permutations(Pid)
=============================================================================
