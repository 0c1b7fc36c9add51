--------------------------- MODULE MCDirectoryLock ---------------------------
(* Small instances of DirectoryLock for TLC.                               *)
EXTENDS DirectoryLock, TLC

CONSTANTS p1, p2, p3

=============================================================================
