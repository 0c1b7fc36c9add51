------------------------- MODULE MCLeasedOperation --------------------------
(* Small instances of LeasedOperation for TLC.                             *)
EXTENDS LeasedOperation, TLC

CONSTANTS p1, p2, a

MCWrite == {{[resource |-> a, mode |-> "write"]}}

MCLookupsSucceed == {{}}
=============================================================================
