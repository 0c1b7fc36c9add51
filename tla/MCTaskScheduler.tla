--------------------------- MODULE MCTaskScheduler --------------------------
(* Small instances of TaskScheduler for TLC.                               *)
EXTENDS TaskScheduler

CONSTANTS root, a, a1, a2, b, c, d

\* root is split into c, b, a and d, listed in this order although c depends
\* on a and b and b on d; a is split into two independent tasks.
MCOffered == [n \in Node |-> CASE n = root -> {a, b, c, d}
                                [] n = a -> {a1, a2}
                                [] OTHER -> {}]
MCNeeds == [n \in Node |-> CASE n = b -> {d} [] n = c -> {a, b} [] OTHER -> {}]
MCDepth == [n \in Node |-> CASE n = root -> 0 [] n \in {a1, a2} -> 2 [] OTHER -> 1]

MCIdRank   == [n \in Node |-> CASE n = root -> 0 [] n = a -> 1 [] n = a1 -> 2
                                 [] n = a2 -> 3 [] n = b -> 4 [] n = c -> 5 [] n = d -> 6]
MCSpecRank == [n \in Node |-> CASE n \in {root, c, a1} -> 0 [] n \in {b, a2} -> 1
                                 [] n = a -> 2 [] n = d -> 3]

\* a1 and a2 clash with each other, and with no leaf that comes before them.
MCClaims == [n \in Node |->
  CASE n = a1 -> {[resource |-> "w", mode |-> "read"]}
    [] n = a2 -> {[resource |-> "w", mode |-> "write"]}
    [] n \in {b, c, d} -> {[resource |-> "v", mode |-> "read"]}
    [] OTHER -> {}]
MCNoClaims == [n \in Node |-> {}]
=============================================================================
