-------------------------- MODULE MCResourceLeases --------------------------
(* Small instances of ResourceLeases for TLC.                              *)
EXTENDS ResourceLeases, TLC

CONSTANTS p1, p2, a, b

Read(r)  == [resource |-> r, mode |-> "read"]
Write(r) == [resource |-> r, mode |-> "write"]

\* Readers of a, writers of a that also name it as read, writers of both
\* resources, writers of b: conflicts on one side, on the other and on both.
MCRequests == {{Read(a)}, {Read(a), Write(a)}, {Write(a), Write(b)}, {Write(b)}}

\* One resource is enough to make acquires wait for each other.
MCOneResource == {{Read(a)}, {Write(a)}}

MCLookupsSucceed == {{}}
MCLookupsMayFail == SUBSET Process

MCSymmetry == Permutations(Process)
=============================================================================
