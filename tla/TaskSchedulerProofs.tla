--------------------------- MODULE TaskSchedulerProofs -----------------------
(***************************************************************************)
(* The scheduler's invariants for every tree of tasks, policy, budget and  *)
(* number of crashes and interrupts.  Each graph, in memory or on disk, is *)
(* a well-formed tree (GraphInv); batches, the sweep and the accounts of   *)
(* attempts each add a conjunct of their own (SchedulerIInv).              *)
(***************************************************************************)
EXTENDS TaskScheduler, OrderLemmas

-----------------------------------------------------------------------------
(* A graph is a tree that grew from the root.                              *)

\* Every task but the root is a child of a task, and its depth is allowed
Rooted(g) ==
  /\ Root \in Present(g)
  /\ \A n \in Present(g) : /\ Depth[n] <= MaxDepth
                           /\ n # Root => \E p \in Present(g) : n \in Offered[p]

\* Children come all at once, and a task that has some is never a leaf again
Families(g) ==
  \A n \in Node : /\ ChildrenIn(g, n) # {} => /\ Offered[n] \subseteq Present(g)
                                             /\ g.status[n] \in Terminal \cup {"waiting"}
                  /\ g.status[n] = "waiting" => ChildrenIn(g, n) # {}

CompletedFromBelow(g) ==
  \A n \in Node : g.status[n] = "completed" =>
    \A k \in ChildrenIn(g, n) : g.status[k] = "completed"

\* What NothingTooEarly says of one graph
NeedsFirst(g) ==
  \A n \in Node :
    \/ g.attempts[n] > 0
    \/ ChildrenIn(g, n) # {}
    \/ g.status[n] \in {"ready", "running", "waiting", "completed"}
    => \A d \in Needs[n] : g.status[d] = "completed"

\* Places are places in the dict of nodes
Placed(g) ==
  \A m, n \in Present(g) : /\ g.place[n] < Cardinality(Present(g))
                           /\ m # n => g.place[m] # g.place[n]

GraphInv(g) ==
  Rooted(g) /\ Families(g) /\ CompletedFromBelow(g) /\ NeedsFirst(g) /\ Placed(g)

-----------------------------------------------------------------------------
(* The accounts of attempts, retries and crashes.                          *)

NotStarted == {"absent", "pending", "ready"}

Accounted(g) ==
  \A n \in Node :
    /\ g.attempts[n] <= crashes + g.retries[n] + (IF g.status[n] \in NotStarted THEN 0 ELSE 1)
    /\ g.retries[n] <= IF n \in RetryNodes THEN MaxAttempts - 1 ELSE 0

\* Attempts are on disk whenever they are in memory
AttemptsSaved ==
  /\ disk.attempts = graph.attempts /\ disk.spent = graph.spent
  /\ IsFiniteSet(Executions(disk))
  /\ ExecutionsPaidFor

-----------------------------------------------------------------------------
(* A batch on its way through _execute_ready_leaves.                       *)

Isolated(S) ==
  \A m, n \in S : m # n => /\ {m, n} \subseteq ParallelSafe
                           /\ m \notin Needs[n]
                           /\ \A c \in Claims[m], d \in Claims[n] : ~Clash(c, d)

AllHave(S, status) == \A n \in S : graph.status[n] = status

Unpaid(S) == \A n \in S : runs[n] < disk.attempts[n]

BatchInv ==
  /\ pc \notin {"apply", "wait"} => saving
  /\ pc \in {"start", "sweep", "done"} => batch = {}
  /\ pc = "admit" => /\ Isolated(todo \cup batch) /\ todo \cap batch = {}
                     /\ AllHave(todo \cup batch, "ready")
  /\ pc = "begin" => /\ Isolated(todo \cup batch)
                     /\ AllHave(todo, "ready") /\ AllHave(batch, "running")
                     /\ Unpaid(batch)
  /\ pc = "work" => /\ Isolated(batch) /\ todo \subseteq batch
                    /\ AllHave(batch, "running") /\ Unpaid(todo)
  /\ pc \in {"apply", "wait"} => AllHave(todo, IF saving THEN "running" ELSE "ready")
  /\ pc = "wait" => \A n \in Node : InTurn(n) => MayRetry(n)

\* Without an interrupted run whatever is running is in the batch
NoneOrphaned ==
  interrupts = 0 =>
    \A n \in Node : graph.status[n] = "running" =>
      \/ pc \in {"begin", "work"} /\ n \in batch
      \/ pc \in {"apply", "wait"} /\ n \in todo

-----------------------------------------------------------------------------
(* The sweep: what it has passed has carried its children's failures on.   *)

SweepInv ==
  pc = "sweep" =>
    /\ rest \subseteq Present(graph)
    /\ ~changed => rest = Present(graph)
    /\ \A m \in rest, p \in Present(graph) : SweepsBefore(graph, m, p) => p \in rest
    /\ \A p \in Present(graph) \ rest :
         ChildFailed(graph, p) => graph.status[p] \in Failed

GraphsInv ==
  /\ GraphInv(graph) /\ GraphInv(disk)
  /\ Accounted(graph) /\ Accounted(disk)
  /\ AttemptsSaved

(* The inductive invariant.                                                *)
SchedulerIInv ==
  TypeOK /\ GraphsInv /\ BatchInv /\ NoneOrphaned /\ SweepInv /\ NoDeadlock

-----------------------------------------------------------------------------
(* Well-founded arguments.                                                 *)

(* Among some tasks there is one that no other lies above.                 *)
LEMMA Shallowest ==
  ASSUME NEW S \in SUBSET Node, S # {}
  PROVE  \E m \in S : \A k \in S : Depth[m] <= Depth[k]
<1> DEFINE T == {Depth[n] : n \in S}
<1>1. T \in SUBSET Nat /\ T # {}
  BY SchedulerAssumption
<1>2. PICK d \in T : \A e \in T : d <= e
  <2> HIDE DEF T
  <2> QED BY <1>1, LeastElement
<1>3. QED BY <1>2

(* Among tasks of limited depth there is one that no other lies below.     *)
LEMMA Deepest ==
  ASSUME NEW S \in SUBSET Node, S # {}, \A n \in S : Depth[n] <= MaxDepth
  PROVE  \E m \in S : \A k \in S : Depth[k] <= Depth[m]
<1> DEFINE T == {MaxDepth - Depth[n] : n \in S}
<1>1. \A n \in S : Depth[n] \in Nat /\ MaxDepth - Depth[n] \in Nat
  BY SchedulerAssumption
<1>2. T \in SUBSET Nat /\ T # {}
  BY <1>1
<1>3. PICK d \in T : \A e \in T : d <= e
  <2> HIDE DEF T
  <2> QED BY <1>2, LeastElement
<1>4. PICK m \in S : d = MaxDepth - Depth[m]
  OBVIOUS
<1>5. ASSUME NEW k \in S PROVE Depth[k] <= Depth[m]
  <2>1. MaxDepth - Depth[m] <= MaxDepth - Depth[k]
    BY <1>3, <1>4
  <2>2. QED BY <1>1, <2>1, SchedulerAssumption
<1>6. QED BY <1>5

(* The tree: depths grow downwards, and a child has one parent.            *)
LEMMA TreeFacts ==
  /\ \A n \in Node : /\ Depth[n] \in Nat /\ IdRank[n] \in Nat /\ SpecRank[n] \in Nat
                     /\ Offered[n] \subseteq Node /\ Needs[n] \subseteq Node
                     /\ Root \notin Offered[n] /\ n \notin Offered[n]
  /\ \A n \in Node : \A k \in Offered[n] :
       /\ Depth[k] = Depth[n] + 1 /\ Needs[k] \subseteq Offered[n] \ {k}
       /\ \A m \in Node : k \in Offered[m] => m = n
  /\ Needs[Root] = {} /\ Root \in Node
<1>1. \A n \in Node : /\ Depth[n] \in Nat /\ IdRank[n] \in Nat /\ SpecRank[n] \in Nat
                      /\ Offered[n] \subseteq Node /\ Needs[n] \subseteq Node
  BY SchedulerAssumption
<1>2. \A n \in Node : \A k \in Offered[n] :
        Depth[k] = Depth[n] + 1 /\ Needs[k] \subseteq Offered[n] \ {k}
  BY SchedulerAssumption
<1>3. Depth[Root] = 0 /\ Needs[Root] = {} /\ Root \in Node
  BY SchedulerAssumption
<1>4. \A n \in Node : Root \notin Offered[n] /\ n \notin Offered[n]
  BY <1>1, <1>2, <1>3
<1>5. ASSUME NEW n \in Node, NEW k \in Offered[n], NEW m \in Node, k \in Offered[m]
      PROVE  m = n
  BY <1>5, SchedulerAssumption
<1>6. QED BY <1>1, <1>2, <1>3, <1>4, <1>5

-----------------------------------------------------------------------------
(* What the operations of the scheduler do to one graph.                   *)

\* h is g after task n went to status s; other fields may have changed too
Moved(g, h, n, s) ==
  /\ h.status = [g.status EXCEPT ![n] = s] /\ h.place = g.place
  /\ \A m \in Node \ {n} : h.attempts[m] = g.attempts[m]

\* When a task may go to status s
MayBecome(g, n, s) ==
  /\ g.status[n] \notin {"absent", "completed"} /\ s \in Status \ {"pending", "waiting"}
  /\ ChildrenIn(g, n) # {} => s \in Terminal
  /\ s = "completed" => \A k \in ChildrenIn(g, n) : g.status[k] = "completed"
  /\ \A d \in Needs[n] : g.status[d] = "completed"

LEMMA PresentInNode == \A g : Present(g) \subseteq Node
  BY DEF Present

(* Moving a task keeps everybody where they are in the tree.               *)
LEMMA MovedTree ==
  ASSUME NEW g \in Graph, NEW h \in Graph, NEW n \in Node, NEW s \in Status,
         Moved(g, h, n, s), g.status[n] # "absent"
  PROVE  /\ Present(h) = Present(g)
         /\ \A m \in Node : ChildrenIn(h, m) = ChildrenIn(g, m)
         /\ \A m \in Node : h.status[m] = IF m = n THEN s ELSE g.status[m]
<1>1. \A m \in Node : h.status[m] = IF m = n THEN s ELSE g.status[m]
  BY DEF Moved, Graph
<1>2. Present(h) = Present(g)
  BY <1>1 DEF Present, Status, Terminal, Failed
<1>3. QED BY <1>1, <1>2 DEF ChildrenIn

(* A task whose dependencies are met may be moved, and a task may always   *)
(* fail or be blocked.                                                     *)
LEMMA MoveKeeps ==
  ASSUME NEW g \in Graph, NEW h \in Graph, NEW n \in Node, NEW s \in Status,
         Moved(g, h, n, s), GraphInv(g),
         \/ MayBecome(g, n, s)
         \/ /\ g.status[n] \notin {"absent", "completed"} /\ s \in Failed
            /\ h.attempts[n] = g.attempts[n]
  PROVE  GraphInv(h)
<1>1. /\ Present(h) = Present(g)
      /\ \A m \in Node : ChildrenIn(h, m) = ChildrenIn(g, m)
      /\ \A m \in Node : h.status[m] = IF m = n THEN s ELSE g.status[m]
  <2>1. g.status[n] # "absent"
    BY DEF MayBecome
  <2>2. QED BY <2>1, MovedTree
<1>2. /\ s \notin {"pending", "waiting"} /\ g.status[n] \notin {"absent", "completed"}
      /\ ChildrenIn(g, n) # {} => s \in Terminal
      /\ s = "completed" => \A k \in ChildrenIn(g, n) : g.status[k] = "completed"
  BY DEF MayBecome, Failed, Terminal
<1>3. Rooted(h)
  BY <1>1 DEF GraphInv, Rooted
<1>4. Placed(h)
  BY <1>1 DEF GraphInv, Placed, Moved
<1>5. Families(h)
  BY <1>1, <1>2 DEF GraphInv, Families
<1>6. CompletedFromBelow(h)
  <2> SUFFICES ASSUME NEW m \in Node, h.status[m] = "completed",
                      NEW k \in ChildrenIn(h, m)
               PROVE  h.status[k] = "completed"
    BY DEF CompletedFromBelow
  <2>1. k \in ChildrenIn(g, m) /\ k \in Node /\ (k # n \/ m # n)
    BY <1>1, TreeFacts DEF ChildrenIn
  <2>2. g.status[k] = "completed"
    BY <1>1, <1>2 DEF GraphInv, CompletedFromBelow, ChildrenIn, Present
  <2>3. k \in Node
    BY DEF ChildrenIn, Present
  <2>4. QED BY <1>1, <1>2, <2>2, <2>3
<1>7. NeedsFirst(h)
  <2> SUFFICES ASSUME NEW m \in Node,
                      \/ h.attempts[m] > 0 \/ ChildrenIn(h, m) # {}
                      \/ h.status[m] \in {"ready", "running", "waiting", "completed"},
                      NEW d \in Needs[m]
               PROVE  h.status[d] = "completed"
    BY DEF NeedsFirst
  <2>1. g.status[d] = "completed"
    <3>1. CASE m = n /\ MayBecome(g, n, s)
      BY <3>1 DEF MayBecome
    <3>2. CASE m = n /\ ~MayBecome(g, n, s)
      <4>1. s \in Failed /\ h.attempts[n] = g.attempts[n]
        BY <3>2
      <4>2. g.attempts[m] > 0 \/ ChildrenIn(g, m) # {}
        BY <1>1, <3>2, <4>1 DEF Failed
      <4>3. QED BY <4>2 DEF GraphInv, NeedsFirst
    <3>3. CASE m # n
      <4>1. \/ g.attempts[m] > 0 \/ ChildrenIn(g, m) # {}
            \/ g.status[m] \in {"ready", "running", "waiting", "completed"}
        BY <1>1, <3>3 DEF Moved
      <4>2. QED BY <4>1 DEF GraphInv, NeedsFirst
    <3>4. QED BY <3>1, <3>2, <3>3
  <2>2. d \in Node
    BY TreeFacts
  <2>3. QED BY <1>1, <1>2, <2>1, <2>2
<1>8. QED BY <1>3, <1>4, <1>5, <1>6, <1>7 DEF GraphInv

(* What a task that is a candidate, or in a batch, knows of its children.  *)
LEMMA LeafFacts ==
  ASSUME NEW g \in Graph, GraphInv(g), NEW n \in Node
  PROVE  /\ g.status[n] \in {"pending", "ready", "running"} => ChildrenIn(g, n) = {}
         /\ g.status[n] \in {"ready", "running"} =>
              \A d \in Needs[n] : g.status[d] = "completed"
  BY DEF GraphInv, Families, NeedsFirst, Terminal, Failed

(* A leaf that is ready or running may become anything a leaf becomes.     *)
LEMMA LeafMoves ==
  ASSUME NEW g \in Graph, NEW h \in Graph, NEW n \in Node, GraphInv(g),
         g.status[n] \in {"ready", "running"},
         NEW s \in Terminal \cup {"ready", "running"}, Moved(g, h, n, s)
  PROVE  GraphInv(h)
<1>1. s \in Status \ {"pending", "waiting"} /\ s \in Status
  BY DEF Status, Terminal, Failed
<1>2. MayBecome(g, n, s)
  BY <1>1, LeafFacts DEF MayBecome
<1>3. QED BY <1>1, <1>2, MoveKeeps

(* The children a task is split into are new, and take the next places.    *)
LEMMA SplitKeeps ==
  ASSUME NEW g \in Graph, GraphInv(g), NEW n \in Node,
         g.status[n] = "pending", \A d \in Needs[n] : g.status[d] = "completed",
         Offered[n] # {}, ~NoRoomFor(g, n)
  PROVE  /\ Split(g, n) \in Graph /\ GraphInv(Split(g, n))
         /\ \A m \in Node : Split(g, n).status[m] =
              IF m \in Offered[n] THEN "pending" ELSE IF m = n THEN "waiting" ELSE g.status[m]
         /\ \A m \in Offered[n] : g.status[m] = "absent"
<1> DEFINE h == Split(g, n)
           size == Cardinality(Present(g))
<1> USE TreeFacts
<1>1. /\ IsFiniteSet(Present(g)) /\ size \in Nat
      /\ IsFiniteSet(Offered[n]) /\ Cardinality(Offered[n]) \in Nat
  <2>1. Present(g) \in SUBSET Node /\ Offered[n] \in SUBSET Node
    BY DEF Present
  <2>2. QED BY <2>1, SchedulerAssumption, FS_Subset, FS_CardinalityType
<1>2. /\ h.status = [m \in Node |-> IF m \in Offered[n] THEN "pending"
                                   ELSE IF m = n THEN "waiting" ELSE g.status[m]]
      /\ h.place = [m \in Node |-> IF m \in Offered[n] THEN size + SpecRank[m]
                                  ELSE g.place[m]]
      /\ h.attempts = g.attempts /\ h.retries = g.retries /\ h.spent = g.spent
      /\ h \in Graph
  <2> DEFINE S == [m \in Node |-> IF m \in Offered[n] THEN "pending"
                                  ELSE IF m = n THEN "waiting" ELSE g.status[m]]
             P == [m \in Node |-> IF m \in Offered[n] THEN size + SpecRank[m]
                                  ELSE g.place[m]]
  <2>1. h = [g EXCEPT !.status = S, !.place = P]
    BY DEF Split
  <2>2. \A m \in Node : size + SpecRank[m] \in Nat /\ g.place[m] \in Nat
    BY <1>1 DEF Graph
  <2>3. P \in [Node -> Nat]
    <3> HIDE DEF size
    <3> QED BY <2>2
  <2>4. S \in [Node -> Status \cup {"absent"}]
    BY DEF Graph, Status
  <2> HIDE DEF S, P, h
  <2>5. /\ h.status = S /\ h.place = P /\ h.attempts = g.attempts
        /\ h.retries = g.retries /\ h.spent = g.spent /\ h \in Graph
    BY ONLY <2>1, <2>3, <2>4, g \in Graph DEF Graph
  <2>6. QED BY <2>5 DEF S, P
<1>3. /\ ChildrenIn(g, n) = {} /\ \A k \in Offered[n] : k \notin Present(g)
      /\ \A k \in Offered[n] : g.status[k] = "absent"
  <2>1. ChildrenIn(g, n) = {}
    BY LeafFacts
  <2>2. QED BY <2>1 DEF ChildrenIn, Present
<1>4. Present(h) = Present(g) \cup Offered[n] /\ n \in Present(g) /\ n \in Present(h)
  BY <1>2, <1>3 DEF Present
<1>5. Cardinality(Present(h)) = size + Cardinality(Offered[n])
  <2>1. Cardinality(Present(g) \cap Offered[n]) = 0
    <3>1. Present(g) \cap Offered[n] = {}
      BY <1>3
    <3>2. QED BY ONLY <3>1, FS_EmptySet
  <2>2. Cardinality(Present(g) \cup Offered[n]) =
          size + Cardinality(Offered[n]) - Cardinality(Present(g) \cap Offered[n])
    BY <1>1, FS_Union
  <2>3. Cardinality(Present(g) \cup Offered[n]) = size + Cardinality(Offered[n])
    BY <1>1, <2>1, <2>2
  <2>4. QED BY ONLY <1>4, <2>3
<1>6. \A m \in Node \ {n} : ChildrenIn(h, m) = ChildrenIn(g, m)
  BY <1>4 DEF ChildrenIn
<1>7. ChildrenIn(h, n) = Offered[n]
  BY <1>4 DEF ChildrenIn
<1> HIDE DEF h
<1>8. Rooted(h)
  <2>1. ASSUME NEW m \in Present(h)
        PROVE  /\ Depth[m] <= MaxDepth
               /\ m # Root => \E p \in Present(h) : m \in Offered[p]
    <3>1. CASE m \in Offered[n]
      <4>1. Depth[m] = Depth[n] + 1 /\ ~(Depth[n] >= MaxDepth)
        BY <3>1 DEF NoRoomFor
      <4>2. QED BY <1>4, <3>1, <4>1, SchedulerAssumption
    <3>2. CASE m \in Present(g)
      BY <1>4, <3>2 DEF GraphInv, Rooted
    <3>3. QED BY <1>4, <3>1, <3>2
  <2>2. QED BY <1>4, <2>1 DEF GraphInv, Rooted
<1>9. Families(h)
  <2> SUFFICES ASSUME NEW m \in Node
               PROVE  /\ ChildrenIn(h, m) # {} =>
                           /\ Offered[m] \subseteq Present(h)
                           /\ h.status[m] \in Terminal \cup {"waiting"}
                      /\ h.status[m] = "waiting" => ChildrenIn(h, m) # {}
    BY DEF Families
  <2>1. CASE m = n
    BY <1>2, <1>4, <1>7, <2>1
  <2>2. CASE m # n /\ m \notin Offered[n]
    BY <1>2, <1>4, <1>6, <2>2 DEF GraphInv, Families
  <2>3. CASE m \in Offered[n]
    <3>1. ChildrenIn(h, m) = {}
      BY <1>3, <1>6, <2>3 DEF GraphInv, Families, Terminal, Failed
    <3>2. QED BY <1>2, <2>3, <3>1
  <2>4. QED BY <2>1, <2>2, <2>3
<1>10. \A m \in Node : g.status[m] = "completed" => h.status[m] = "completed"
  BY <1>2, <1>3
<1>11. \A m \in Node : h.status[m] = "completed" => g.status[m] = "completed" /\ m # n
  BY <1>2
<1>12. CompletedFromBelow(h)
  BY <1>6, <1>10, <1>11 DEF GraphInv, CompletedFromBelow, ChildrenIn, Present
<1>13. NeedsFirst(h)
  <2> SUFFICES ASSUME NEW m \in Node,
                      \/ h.attempts[m] > 0 \/ ChildrenIn(h, m) # {}
                      \/ h.status[m] \in {"ready", "running", "waiting", "completed"},
                      NEW d \in Needs[m]
               PROVE  g.status[d] = "completed"
    BY <1>10 DEF NeedsFirst
  <2>1. CASE m = n
    BY <2>1
  <2>2. CASE m # n
    <3>1. \/ g.attempts[m] > 0 \/ ChildrenIn(g, m) # {}
          \/ g.status[m] \in {"ready", "running", "waiting", "completed"}
      BY <1>2, <1>6, <2>2
    <3>2. QED BY <3>1 DEF GraphInv, NeedsFirst
  <2>3. QED BY <2>1, <2>2
<1>14. Placed(h)
  <2>1. \A k \in Offered[n] : /\ h.place[k] = size + SpecRank[k]
                              /\ SpecRank[k] < Cardinality(Offered[n])
    BY <1>2, SchedulerAssumption
  <2>2. \A m \in Present(g) : /\ h.place[m] = g.place[m] /\ g.place[m] < size
                              /\ g.place[m] \in Nat
    BY <1>2, <1>3 DEF GraphInv, Placed, Present, Graph
  <2>3. ASSUME NEW j \in Present(h), NEW k \in Present(h), j # k
        PROVE  h.place[j] # h.place[k]
    <3>1. CASE j \in Offered[n] /\ k \in Offered[n]
      <4>1. SpecRank[j] # SpecRank[k]
        BY <2>3, <3>1, SchedulerAssumption
      <4>2. QED BY <1>1, <2>1, <3>1, <4>1
    <3>2. CASE j \in Present(g) /\ k \in Present(g)
      BY <2>2, <2>3, <3>2 DEF GraphInv, Placed
    <3>3. CASE j \in Offered[n] /\ k \in Present(g)
      BY <1>1, <2>1, <2>2, <3>3
    <3>4. CASE j \in Present(g) /\ k \in Offered[n]
      BY <1>1, <2>1, <2>2, <3>4
    <3>5. QED BY <1>4, <3>1, <3>2, <3>3, <3>4
  <2>4. \A m \in Present(h) : h.place[m] < Cardinality(Present(h))
    BY <1>1, <1>4, <1>5, <2>1, <2>2
  <2>5. QED BY <2>3, <2>4 DEF Placed
<1>15. QED BY <1>2, <1>3, <1>8, <1>9, <1>12, <1>13, <1>14 DEF GraphInv, h

(* Loading makes what was running ready again, and nothing else.           *)
LEMMA RecoveryKeeps ==
  ASSUME NEW g \in Graph, GraphInv(g)
  PROVE  /\ Recovered(g) \in Graph /\ GraphInv(Recovered(g))
         /\ \A n \in Node : Recovered(g).status[n] =
                              IF g.status[n] = "running" THEN "ready" ELSE g.status[n]
         /\ Recovered(g).place = g.place /\ Recovered(g).attempts = g.attempts
         /\ Recovered(g).retries = g.retries /\ Recovered(g).spent = g.spent
<1> DEFINE h == Recovered(g)
<1>1. /\ h.status = [n \in Node |-> IF g.status[n] = "running" THEN "ready" ELSE g.status[n]]
      /\ h.place = g.place /\ h.attempts = g.attempts /\ h.retries = g.retries
      /\ h.spent = g.spent /\ h \in Graph
  BY DEF Recovered, Graph, Status
<1> HIDE DEF h
<1>2. Present(h) = Present(g)
  BY <1>1 DEF Present
<1>3. \A m \in Node : ChildrenIn(h, m) = ChildrenIn(g, m)
  BY <1>2 DEF ChildrenIn
<1>4. Rooted(h) /\ Placed(h)
  BY <1>1, <1>2 DEF GraphInv, Rooted, Placed
<1>5. Families(h)
  BY <1>1, <1>2, <1>3 DEF GraphInv, Families, Terminal, Failed
<1>6. \A m \in Node : h.status[m] = "completed" <=> g.status[m] = "completed"
  BY <1>1
<1>7. CompletedFromBelow(h)
  BY <1>3, <1>6 DEF GraphInv, CompletedFromBelow, ChildrenIn, Present
<1>8. NeedsFirst(h)
  <2> SUFFICES ASSUME NEW m \in Node,
                      \/ h.attempts[m] > 0 \/ ChildrenIn(h, m) # {}
                      \/ h.status[m] \in {"ready", "running", "waiting", "completed"},
                      NEW d \in Needs[m]
               PROVE  h.status[d] = "completed"
    BY DEF NeedsFirst
  <2>1. g.status[d] = "completed"
    BY <1>1, <1>3 DEF GraphInv, NeedsFirst
  <2>2. QED BY <1>6, <2>1, TreeFacts
<1>9. QED BY <1>1, <1>4, <1>5, <1>7, <1>8 DEF GraphInv, h

-----------------------------------------------------------------------------
(* Steps seen as changes of the two graphs.                                *)

LEMMA SetIsMove ==
  ASSUME NEW g \in Graph, NEW n \in Node, NEW s \in Status
  PROVE  /\ Set(g, n, s) \in Graph /\ Moved(g, Set(g, n, s), n, s)
         /\ Set(g, n, s).attempts = g.attempts /\ Set(g, n, s).spent = g.spent
         /\ Set(g, n, s).retries = g.retries /\ Set(g, n, s).place = g.place
  BY DEF Set, Graph, Moved

(* A step after which the file is what it was, or what memory is.          *)
LEMMA DiskKeeps ==
  ASSUME GraphInv(disk), Accounted(disk), disk \in Graph,
         graph' \in Graph, GraphInv(graph'), Accounted(graph)',
         UNCHANGED disk \/ disk' = graph', crashes \in Nat,
         crashes' \in Nat, crashes <= crashes'
  PROVE  disk' \in Graph /\ GraphInv(disk') /\ Accounted(disk)'
<1>1. CASE UNCHANGED disk
  <2>1. \A n \in Node : /\ disk.attempts[n] \in Nat /\ disk.retries[n] \in Nat
    BY DEF Graph
  <2>2. Accounted(disk)'
    BY <1>1, <2>1 DEF Accounted
  <2>3. QED BY <1>1, <2>2
<1>2. CASE disk' = graph'
  BY <1>2 DEF Accounted
<1>3. QED BY <1>1, <1>2

LEMMA SavedStays ==
  ASSUME AttemptsSaved, graph'.attempts = graph.attempts, graph'.spent = graph.spent,
         UNCHANGED disk \/ disk' = graph', UNCHANGED runs
  PROVE  AttemptsSaved'
<1>1. disk'.attempts = disk.attempts /\ disk'.spent = disk.spent
  BY DEF AttemptsSaved
<1>2. Executions(disk') = Executions(disk)
  BY <1>1 DEF Executions
<1>3. QED BY <1>1, <1>2 DEF AttemptsSaved, ExecutionsPaidFor

(* A step that leaves memory alone, whether it saves or not.               *)
LEMMA SameGraph ==
  ASSUME TypeOK, GraphsInv, UNCHANGED <<graph, runs, crashes>>,
         UNCHANGED disk \/ disk' = graph'
  PROVE  graph' \in Graph /\ disk' \in Graph /\ GraphsInv'
<1>1. graph' \in Graph /\ GraphInv(graph') /\ Accounted(graph)' /\ crashes' <= crashes'
  BY DEF TypeOK, GraphsInv, Accounted
<1>2. disk' \in Graph /\ GraphInv(disk') /\ Accounted(disk)'
  BY <1>1, DiskKeeps DEF TypeOK, GraphsInv
<1>3. AttemptsSaved'
  BY SavedStays DEF GraphsInv
<1>4. QED BY <1>1, <1>2, <1>3 DEF GraphsInv

(* A step that moves a task and keeps its accounts.                        *)
LEMMA SetGraph ==
  ASSUME TypeOK, GraphsInv, UNCHANGED <<runs, crashes>>,
         NEW n \in Node, NEW s \in Status, graph' = Set(graph, n, s),
         UNCHANGED disk \/ disk' = graph',
         \/ MayBecome(graph, n, s)
         \/ graph.status[n] \notin {"absent", "completed"} /\ s \in Failed,
         graph.status[n] \in NotStarted \/ s \notin NotStarted
  PROVE  graph' \in Graph /\ disk' \in Graph /\ GraphsInv'
<1>1. /\ graph' \in Graph /\ Moved(graph, graph', n, s)
      /\ graph'.attempts = graph.attempts /\ graph'.spent = graph.spent
      /\ graph'.retries = graph.retries
  BY SetIsMove DEF TypeOK
<1>2. GraphInv(graph')
  BY <1>1, MoveKeeps DEF TypeOK, GraphsInv
<1>3. Accounted(graph)'
  <2>1. \A m \in Node : graph'.status[m] = IF m = n THEN s ELSE graph.status[m]
    BY <1>1 DEF Moved, TypeOK, Graph
  <2>2. \A m \in Node : graph.attempts[m] \in Nat /\ graph.retries[m] \in Nat
    BY DEF TypeOK, Graph
  <2>3. QED BY <1>1, <2>1, <2>2 DEF Accounted, GraphsInv, TypeOK
<1>4. disk' \in Graph /\ GraphInv(disk') /\ Accounted(disk)'
  BY <1>1, <1>2, <1>3, DiskKeeps DEF TypeOK, GraphsInv
<1>5. AttemptsSaved'
  BY <1>1, SavedStays DEF GraphsInv
<1>6. QED BY <1>1, <1>2, <1>3, <1>4, <1>5 DEF GraphsInv

-----------------------------------------------------------------------------
(* The order of a sweep.                                                   *)

LEMMA SweepOrder ==
  ASSUME NEW g \in Graph, GraphInv(g)
  PROVE  /\ \A m, n \in Node : SweepsBefore(g, m, n) => ~SweepsBefore(g, n, m) /\ m # n
         /\ \A m, n, o \in Node :
              SweepsBefore(g, m, n) /\ SweepsBefore(g, n, o) => SweepsBefore(g, m, o)
         /\ \A m, n \in Present(g) :
              m # n => SweepsBefore(g, m, n) \/ SweepsBefore(g, n, m)
         /\ \A p \in Node : \A k \in Offered[p] : SweepsBefore(g, k, p)
<1>1. \A n \in Node : Depth[n] \in Nat /\ g.place[n] \in Nat
  BY TreeFacts DEF Graph
<1>2. \A m, n \in Present(g) : m \in Node /\ (m # n => g.place[m] # g.place[n])
  BY DEF GraphInv, Placed, Present
<1>3. \A p \in Node : \A k \in Offered[p] : Depth[k] = Depth[p] + 1
  BY TreeFacts
<1>4. QED BY <1>1, <1>2, <1>3 DEF SweepsBefore

(* At the head of the loop the sweep has everything before it.             *)
LEMMA LoopSweeps ==
  ASSUME Loop(graph')
  PROVE  SweepInv' /\ rest' \subseteq Node /\ changed' = FALSE /\ pc' \in {"sweep", "done"}
<1>1. \A p \in Present(graph') : p \in Node
  BY DEF Present
<1>2. QED BY <1>1 DEF Loop, SweepInv

(* When a sweep is over without ending the graph, nothing in it has failed:*)
(* the shallowest failed task would have a parent that failed with it.     *)
LEMMA SweepCarriesFailure ==
  ASSUME SchedulerIInv
  PROVE  FailureEndsTheGraph
<1> SUFFICES ASSUME SweepOver, ~Ended(graph), NEW f \in Node, graph.status[f] \in Failed
             PROVE  FALSE
  BY DEF FailureEndsTheGraph, HasStatus
<1> DEFINE F == {n \in Node : graph.status[n] \in Failed}
<1>1. PICK n \in F : \A k \in F : Depth[n] <= Depth[k]
  <2>1. F \in SUBSET Node /\ F # {}
    OBVIOUS
  <2> HIDE DEF F
  <2>2. QED BY <2>1, Shallowest
<1>2. n # Root /\ n \in Present(graph)
  BY <1>1 DEF Ended, Present, Terminal, Failed
<1>3. PICK p \in Present(graph) : n \in Offered[p]
  BY <1>2 DEF SchedulerIInv, GraphsInv, GraphInv, Rooted
<1>4. p \in Node /\ ChildFailed(graph, p) /\ n \in ChildrenIn(graph, p)
  BY <1>1, <1>2, <1>3 DEF ChildFailed, HasStatus, ChildrenIn, Present
<1>5. graph.status[p] # "completed"
  BY <1>1, <1>4 DEF SchedulerIInv, GraphsInv, GraphInv, CompletedFromBelow, Failed
<1>6. graph.status[p] \in Failed
  <2>1. CASE p \in rest
    <3>1. ~Affected(graph, p)
      BY <2>1 DEF SweepOver
    <3>2. QED BY <1>3, <1>4, <1>5, <3>1 DEF Affected, Terminal, Present
  <2>2. CASE p \notin rest
    BY <1>3, <1>4, <2>2 DEF SchedulerIInv, SweepInv, SweepOver
  <2>3. QED BY <2>1, <2>2
<1>7. Depth[n] = Depth[p] + 1 /\ Depth[p] \in Nat /\ Depth[n] \in Nat
  BY <1>3, <1>4, TreeFacts
<1>8. QED BY <1>1, <1>4, <1>6, <1>7

(* A completed root has the whole tree completed below it.                 *)
LEMMA CompletionReachesLeaves ==
  ASSUME NEW g \in Graph, GraphInv(g), g.status[Root] = "completed",
         NEW f \in Present(g), g.status[f] # "completed"
  PROVE  FALSE
<1> DEFINE F == {n \in Present(g) : g.status[n] # "completed"}
<1>1. PICK n \in F : \A k \in F : Depth[n] <= Depth[k]
  <2>1. F \in SUBSET Node /\ F # {}
    BY DEF Present
  <2> HIDE DEF F
  <2>2. QED BY <2>1, Shallowest
<1>2. PICK p \in Present(g) : n \in Offered[p]
  BY <1>1 DEF GraphInv, Rooted
<1>3. p \in Node /\ n \in Node /\ n \in ChildrenIn(g, p)
  BY <1>1, <1>2 DEF Present, ChildrenIn
<1>4. g.status[p] = "completed"
  <2>1. Depth[n] = Depth[p] + 1 /\ Depth[p] \in Nat /\ Depth[n] \in Nat
    BY <1>2, <1>3, TreeFacts
  <2>2. p \notin F
    BY <1>1, <2>1
  <2>3. QED BY <1>2, <2>2
<1>5. QED BY <1>1, <1>3, <1>4 DEF GraphInv, CompletedFromBelow

(* A graph nobody interrupted always offers the sweep or the loop a task:  *)
(* among the deepest unfinished tasks one needs none of the others.        *)
LEMMA AlwaysACandidate ==
  ASSUME SchedulerIInv, SweepOver, ~Ended(graph), ~changed, interrupts = 0
  PROVE  Candidates(graph) # {}
<1> DEFINE U == {n \in Present(graph) : graph.status[n] # "completed"}
<1> USE DEF SchedulerIInv
<1>1. \A n \in Present(graph) : n \in Node /\ ~Affected(graph, n)
  BY DEF SweepOver, SweepInv, Present
<1>2. \A n \in Node : graph.status[n] \notin Failed
  BY SweepCarriesFailure DEF FailureEndsTheGraph, HasStatus
<1>3. \A n \in Node : graph.status[n] # "running"
  BY DEF NoneOrphaned, SweepOver
<1>4. \A n \in Node : graph.status[n] \in Status \cup {"absent"}
  BY DEF TypeOK, Graph
<1>5. Root \in U
  BY DEF GraphsInv, GraphInv, Rooted, Ended, Terminal, Present
<1>6. PICK e \in U : \A k \in U : Depth[k] <= Depth[e]
  <2>1. U \in SUBSET Node /\ U # {} /\ \A n \in U : Depth[n] <= MaxDepth
    BY <1>5 DEF Present, GraphsInv, GraphInv, Rooted
  <2> HIDE DEF U
  <2>2. QED BY <2>1, Deepest
<1> DEFINE D == {n \in U : Depth[n] = Depth[e]}
<1>7. PICK n \in D : Needs[n] \cap D = {}
  <2>1. D \in SUBSET Node /\ D # {}
    BY <1>1
  <2> HIDE DEF D
  <2>2. QED BY <2>1, NeedsAssumption
<1>8. n \in Node /\ n \in Present(graph) /\ graph.status[n] # "completed"
  BY <1>1
<1>9. graph.status[n] # "waiting"
  <2> SUFFICES ASSUME graph.status[n] = "waiting" PROVE FALSE
    OBVIOUS
  <2>1. ChildrenIn(graph, n) # {}
    BY <1>8 DEF GraphsInv, GraphInv, Families
  <2>2. ASSUME NEW k \in ChildrenIn(graph, n) PROVE graph.status[k] = "completed"
    <3>1. k \in Present(graph) /\ k \in Node /\ Depth[k] = Depth[n] + 1
      BY <1>8, TreeFacts DEF ChildrenIn, Present
    <3>2. Depth[n] \in Nat /\ Depth[n] = Depth[e]
      BY <1>8, TreeFacts
    <3>3. k \notin U
      BY <1>6, <3>1, <3>2
    <3>4. QED BY <3>1, <3>3
  <2>3. Affected(graph, n)
    BY <2>1, <2>2 DEF Affected, ChildrenDone, Terminal, Failed
  <2>4. QED BY <1>1, <1>8, <2>3
<1>10. graph.status[n] \in {"pending", "ready"}
  BY <1>2, <1>3, <1>4, <1>8, <1>9 DEF Status, Terminal, Present
<1>11. ASSUME NEW d \in Needs[n] PROVE graph.status[d] = "completed"
  <2>1. n # Root
    BY <1>11, TreeFacts
  <2>2. PICK p \in Present(graph) : n \in Offered[p]
    BY <1>8, <2>1 DEF GraphsInv, GraphInv, Rooted
  <2>3. p \in Node /\ d \in Offered[p] /\ d \in Node /\ Depth[d] = Depth[n]
    BY <2>2, TreeFacts DEF Present
  <2>4. ChildrenIn(graph, p) # {}
    BY <1>8, <2>2 DEF ChildrenIn
  <2>5. d \in Present(graph)
    BY <2>3, <2>4 DEF GraphsInv, GraphInv, Families
  <2>6. d \notin D
    BY <1>7, <1>11
  <2>7. QED BY <2>3, <2>5, <2>6
<1>12. n \in Candidates(graph)
  BY <1>8, <1>10, <1>11 DEF Candidates
<1>13. QED BY <1>12

-----------------------------------------------------------------------------
(* Batches.                                                                *)

(* select_leaf_batch picks leaves that may run together.                   *)
LEMMA BatchesAreIsolated ==
  ASSUME NEW S, IsBatch(S, graph)
  PROVE  Isolated(S) /\ S \subseteq Node /\ AllHave(S, "ready")
<1> DEFINE R == {n \in Candidates(graph) : graph.status[n] = "ready"}
<1>1. PICK first \in R :
        /\ IsFirst(first, R) /\ S \subseteq R /\ first \in S
        /\ \A n \in R \ {first} : n \in S => /\ AllowsParallel(first)
                                            /\ Joins(n, {m \in S : Before(m, n)})
  BY DEF IsBatch
<1>2. S \subseteq Node /\ AllHave(S, "ready")
  BY <1>1 DEF Candidates, AllHave
<1>3. \A m, n \in Node : m # n => Before(m, n) \/ Before(n, m)
  <2>1. \A n \in Node : Depth[n] \in Nat /\ IdRank[n] \in Nat
    BY SchedulerAssumption
  <2>2. \A m, n \in Node : m # n => IdRank[m] # IdRank[n]
    BY SchedulerAssumption
  <2>3. QED BY ONLY <2>1, <2>2 DEF Before
<1>4. \A m, n \in Node : Before(m, n) => ~Before(n, m)
  <2>1. \A n \in Node : Depth[n] \in Nat /\ IdRank[n] \in Nat
    BY SchedulerAssumption
  <2>2. QED BY ONLY <2>1 DEF Before
<1>5. ASSUME NEW m \in S, NEW n \in S, Before(m, n)
      PROVE  /\ AllowsParallel(m) /\ AllowsParallel(n)
             /\ \A c \in Claims[m], d \in Claims[n] : ~Clash(c, d)
  <2>1. n # first
    BY <1>1, <1>2, <1>4, <1>5 DEF IsFirst
  <2>2. AllowsParallel(first) /\ Joins(n, {k \in S : Before(k, n)})
    BY <1>1, <2>1
  <2>3. AllowsParallel(m)
    BY <1>1, <2>2 DEF Joins
  <2>4. QED BY <1>5, <2>2, <2>3 DEF Joins
<1>6. ASSUME NEW m \in S, NEW n \in S, m # n
      PROVE  /\ {m, n} \subseteq ParallelSafe /\ m \notin Needs[n]
             /\ \A c \in Claims[m], d \in Claims[n] : ~Clash(c, d)
  <2>1. \A c, d : Clash(c, d) <=> Clash(d, c)
    BY DEF Clash
  <2>2. Before(m, n) \/ Before(n, m)
    BY <1>2, <1>3, <1>6
  <2>3. /\ AllowsParallel(m) /\ AllowsParallel(n)
        /\ \A c \in Claims[m], d \in Claims[n] : ~Clash(c, d)
    BY <1>5, <2>1, <2>2
  <2>4. m \notin Needs[n]
    BY <1>1 DEF Candidates
  <2>5. QED BY <2>3, <2>4 DEF AllowsParallel
<1>7. QED BY <1>2, <1>6 DEF Isolated

-----------------------------------------------------------------------------
(* The steps.                                                              *)

LEMMA InitIInv == Init => SchedulerIInv
<1> SUFFICES ASSUME Init PROVE SchedulerIInv
  OBVIOUS
<1> USE TreeFacts, SchedulerAssumption
<1>1. /\ graph \in Graph /\ graph = disk
      /\ graph.status = [n \in Node |-> IF n = Root THEN "pending" ELSE "absent"]
      /\ graph.place = [n \in Node |-> 0] /\ graph.attempts = [n \in Node |-> 0]
      /\ graph.retries = [n \in Node |-> 0] /\ graph.spent = 0
  BY DEF Init, FreshGraph, Graph, Status
<1>2. TypeOK
  <2>1. result \in [Node -> Result]
    BY DEF Init, Result, NoResult, Terminal
  <2>2. rest \subseteq Node /\ todo \subseteq Node /\ batch \subseteq Node
    BY DEF Init
  <2>3. changed \in BOOLEAN /\ leased \in BOOLEAN /\ saving \in BOOLEAN
    BY DEF Init
  <2>4. runs \in [Node -> Nat] /\ crashes \in Nat /\ interrupts \in Nat
    BY DEF Init
  <2>5. QED BY <1>1, <2>1, <2>2, <2>3, <2>4 DEF Init, TypeOK
<1>3. Present(graph) = {Root}
  BY <1>1 DEF Present
<1>4. \A n \in Node : ChildrenIn(graph, n) = {}
  BY <1>3 DEF ChildrenIn
<1>5. GraphInv(graph)
  <2>1. Cardinality(Present(graph)) = 1
    BY ONLY <1>3, FS_Singleton
  <2>2. Rooted(graph)
    BY <1>3 DEF Rooted
  <2>3. Families(graph) /\ CompletedFromBelow(graph) /\ NeedsFirst(graph)
    BY <1>1, <1>4 DEF Families, CompletedFromBelow, NeedsFirst
  <2>4. Placed(graph)
    BY <1>1, <1>3, <2>1 DEF Placed
  <2>5. QED BY <2>2, <2>3, <2>4 DEF GraphInv
<1>6. Accounted(graph)
  BY <1>1 DEF Accounted, Init
<1>7. AttemptsSaved
  <2>1. Executions(disk) = {}
    BY <1>1 DEF Executions
  <2>2. IsFiniteSet(Executions(disk)) /\ Cardinality(Executions(disk)) = 0
    BY ONLY <2>1, FS_EmptySet
  <2>3. QED BY <1>1, <2>2 DEF AttemptsSaved, ExecutionsPaidFor, Init
<1>8. BatchInv /\ NoneOrphaned /\ SweepInv /\ NoDeadlock
  BY <1>1 DEF Init, BatchInv, NoneOrphaned, SweepInv, NoDeadlock
<1>9. QED BY <1>1, <1>2, <1>5, <1>6, <1>7, <1>8 DEF SchedulerIInv, GraphsInv

(* Steps that change where run() is, and no graph in memory.               *)

LEMMA StartKeeps == ASSUME SchedulerIInv, Start PROVE SchedulerIInv'
<1> USE DEF SchedulerIInv
<1>1. graph' \in Graph /\ disk' \in Graph /\ GraphsInv'
  BY SameGraph DEF Start, SaveIt, history
<1>2. SweepInv' /\ rest' \subseteq Node /\ changed' = FALSE /\ pc' \in {"sweep", "done"}
  BY LoopSweeps DEF Start
<1>3. TypeOK'
  BY <1>1, <1>2 DEF TypeOK, Start, batchVars, history
<1>4. BatchInv' /\ NoneOrphaned' /\ NoDeadlock'
  BY <1>2 DEF Start, BatchInv, NoneOrphaned, NoDeadlock, batchVars, history
<1>5. QED BY <1>1, <1>2, <1>3, <1>4

LEMMA EndSweepKeeps == ASSUME SchedulerIInv, EndSweep PROVE SchedulerIInv'
<1> USE DEF SchedulerIInv
<1>1. graph' \in Graph /\ disk' \in Graph /\ GraphsInv'
  BY SameGraph DEF EndSweep, graphs, history
<1>2. SweepInv' /\ rest' \subseteq Node /\ changed' = FALSE /\ pc' \in {"sweep", "done"}
  BY LoopSweeps DEF EndSweep, graphs
<1>3. TypeOK'
  BY <1>1, <1>2 DEF TypeOK, EndSweep, batchVars, history
<1>4. BatchInv' /\ NoneOrphaned' /\ NoDeadlock'
  BY <1>2 DEF EndSweep, SweepOver, BatchInv, NoneOrphaned, NoDeadlock, batchVars,
              graphs, history
<1>5. QED BY <1>1, <1>2, <1>3, <1>4

LEMMA SelectBatchKeeps == ASSUME SchedulerIInv, SelectBatch PROVE SchedulerIInv'
<1> USE DEF SchedulerIInv
<1>1. graph' \in Graph /\ disk' \in Graph /\ GraphsInv'
  BY SameGraph DEF SelectBatch, graphs, history
<1>2. IsBatch(todo', graph)
  BY DEF SelectBatch
<1>3. Isolated(todo') /\ todo' \subseteq Node /\ AllHave(todo', "ready")
  BY <1>2, BatchesAreIsolated
<1>4. TypeOK'
  BY <1>1, <1>3 DEF TypeOK, SelectBatch, history
<1>5. BatchInv'
  <2>1. pc' = "admit" /\ batch' = {} /\ saving' /\ graph' = graph
    BY DEF SelectBatch, graphs, BatchInv, SweepOver
  <2>2. Isolated(todo' \cup batch')
    BY <1>3, <2>1 DEF Isolated
  <2>3. todo' \cap batch' = {} /\ \A n \in todo' \cup batch' : graph'.status[n] = "ready"
    BY <1>3, <2>1 DEF AllHave
  <2>4. QED BY <2>1, <2>2, <2>3 DEF BatchInv, AllHave, Isolated
<1>6. NoneOrphaned' /\ SweepInv' /\ NoDeadlock'
  BY DEF SelectBatch, SweepOver, NoneOrphaned, SweepInv, NoDeadlock, graphs, history
<1>7. QED BY <1>1, <1>4, <1>5, <1>6

LEMMA EnterOperationKeeps == ASSUME SchedulerIInv, EnterOperation PROVE SchedulerIInv'
<1> USE DEF SchedulerIInv
<1>1. graph' \in Graph /\ disk' \in Graph /\ GraphsInv'
  BY SameGraph DEF EnterOperation, SaveIt, history
<1>2. leased' \in BOOLEAN
  BY DEF EnterOperation, NeedsLease, TypeOK
<1>3. TypeOK'
  BY <1>1, <1>2 DEF TypeOK, EnterOperation, sweepVars, history
<1>4. BatchInv'
  <2>1. /\ pc' = "begin" /\ todo' = batch /\ batch' = {} /\ saving' /\ graph' = graph
        /\ Isolated(batch) /\ AllHave(batch, "ready")
    BY DEF EnterOperation, BatchInv, AllHave, Isolated
  <2>2. Isolated(todo' \cup batch')
    BY <2>1 DEF Isolated
  <2>3. QED BY <2>1, <2>2 DEF BatchInv, Isolated, AllHave, Unpaid
<1>5. NoneOrphaned'
  BY DEF EnterOperation, NoneOrphaned, history
<1>6. SweepInv' /\ NoDeadlock'
  BY DEF EnterOperation, SweepInv, NoDeadlock, history
<1>7. QED BY <1>1, <1>3, <1>4, <1>5, <1>6

LEMMA RefuseLeaseKeeps ==
  ASSUME SchedulerIInv, NEW contention \in BOOLEAN, RefuseLease(contention)
  PROVE  SchedulerIInv'
<1> USE DEF SchedulerIInv
<1>1. graph' \in Graph /\ disk' \in Graph /\ GraphsInv'
  BY SameGraph DEF RefuseLease, graphs, history
<1>2. result' \in [Node -> Result]
  <2>1. \A n \in Node : (contention /\ n \in RetryNodes) \in BOOLEAN
    OBVIOUS
  <2>2. QED BY <2>1 DEF RefuseLease, Result, Terminal, Failed
<1>3. TypeOK'
  BY <1>1, <1>2 DEF TypeOK, RefuseLease, sweepVars, history
<1>4. BatchInv'
  BY DEF RefuseLease, BatchInv, AllHave, graphs
<1>5. NoneOrphaned' /\ SweepInv' /\ NoDeadlock'
  BY DEF RefuseLease, NoneOrphaned, SweepInv, NoDeadlock, graphs, history
<1>6. QED BY <1>1, <1>3, <1>4, <1>5

LEMMA BeginWorkKeeps == ASSUME SchedulerIInv, BeginWork PROVE SchedulerIInv'
<1> USE DEF SchedulerIInv
<1>1. graph' \in Graph /\ disk' \in Graph /\ GraphsInv'
  BY SameGraph DEF BeginWork, graphs, history
<1>2. TypeOK'
  BY <1>1 DEF TypeOK, BeginWork, sweepVars, history
<1>3. BatchInv'
  BY DEF BeginWork, BatchInv, AllHave, Isolated, Unpaid, graphs, history
<1>4. NoneOrphaned' /\ SweepInv' /\ NoDeadlock'
  BY DEF BeginWork, NoneOrphaned, SweepInv, NoDeadlock, graphs, history
<1>5. QED BY <1>1, <1>2, <1>3, <1>4

(* The executor is called for a leaf of the batch that has not run in it.  *)
LEMMA ExecuteKeeps == ASSUME SchedulerIInv, NEW n \in Node, Execute(n) PROVE SchedulerIInv'
<1> USE DEF SchedulerIInv
<1>1. /\ UNCHANGED <<graph, disk, pc, rest, changed, batch, leased, saving, reason>>
      /\ UNCHANGED <<crashes, interrupts>> /\ pc = "work" /\ n \in todo
      /\ todo' = todo \ {n} /\ runs' = [runs EXCEPT ![n] = @ + 1]
  BY DEF Execute, graphs, sweepVars
<1>2. \A m \in Node : runs'[m] = (IF m = n THEN runs[m] + 1 ELSE runs[m]) /\ runs[m] \in Nat
  BY <1>1 DEF TypeOK
<1>3. result' \in [Node -> Result]
  BY DEF Execute, TypeOK
<1>4. TypeOK'
  <2>1. runs' \in [Node -> Nat] /\ todo' \subseteq Node
    BY <1>1 DEF TypeOK
  <2>2. QED BY <1>1, <1>3, <2>1 DEF TypeOK
<1>5. runs[n] < disk.attempts[n]
  BY <1>1 DEF BatchInv, Unpaid
<1>6. AttemptsSaved'
  <2>1. disk.attempts[n] \in Nat
    BY DEF TypeOK, Graph
  <2>2. \A m \in Node : runs'[m] <= disk.attempts[m]
    BY <1>2, <1>5, <2>1 DEF GraphsInv, AttemptsSaved, ExecutionsPaidFor
  <2>3. QED BY <1>1, <2>2 DEF GraphsInv, AttemptsSaved, ExecutionsPaidFor
<1>7. GraphsInv'
  BY <1>1, <1>6 DEF GraphsInv, Accounted
<1>8. BatchInv'
  <2>1. \A m \in todo \ {n} : m \in Node /\ runs'[m] = runs[m]
    BY <1>2 DEF TypeOK
  <2>2. QED BY <1>1, <2>1 DEF BatchInv, AllHave, Isolated, Unpaid
<1>9. NoneOrphaned' /\ SweepInv' /\ NoDeadlock'
  BY <1>1 DEF NoneOrphaned, SweepInv, NoDeadlock
<1>10. QED BY <1>4, <1>7, <1>8, <1>9

LEMMA ResultsKeep == AllFailed \in [Node -> Result]
  BY DEF AllFailed, Result, Terminal, Failed

LEMMA SnapshotFailsKeeps == ASSUME SchedulerIInv, SnapshotFails PROVE SchedulerIInv'
<1> USE DEF SchedulerIInv
<1>1. graph' \in Graph /\ disk' \in Graph /\ GraphsInv'
  BY SameGraph DEF SnapshotFails, graphs, history
<1>2. TypeOK'
  BY <1>1, ResultsKeep DEF TypeOK, SnapshotFails, sweepVars, history
<1>3. BatchInv'
  BY DEF SnapshotFails, BatchInv, AllHave, Isolated, Unpaid, graphs, history
<1>4. NoneOrphaned' /\ SweepInv' /\ NoDeadlock'
  BY DEF SnapshotFails, NoneOrphaned, SweepInv, NoDeadlock, graphs, history
<1>5. QED BY <1>1, <1>2, <1>3, <1>4

LEMMA EndOperationKeeps == ASSUME SchedulerIInv, EndOperation PROVE SchedulerIInv'
<1> USE DEF SchedulerIInv
<1>1. graph' \in Graph /\ disk' \in Graph /\ GraphsInv'
  BY SameGraph DEF EndOperation, graphs, history
<1>2. result' \in [Node -> Result]
  BY ResultsKeep DEF TypeOK, EndOperation
<1>3. TypeOK'
  BY <1>1, <1>2 DEF TypeOK, EndOperation, sweepVars, history
<1>4. BatchInv'
  BY DEF EndOperation, BatchInv, AllHave, graphs
<1>5. NoneOrphaned' /\ SweepInv' /\ NoDeadlock'
  BY DEF EndOperation, NoneOrphaned, SweepInv, NoDeadlock, graphs, history
<1>6. QED BY <1>1, <1>3, <1>4, <1>5

(* The wait is for the one node whose turn it is.                          *)
LEMMA AwaitRetryKeeps ==
  ASSUME SchedulerIInv, NEW n \in Node, AwaitRetry(n) PROVE SchedulerIInv'
<1> USE DEF SchedulerIInv
<1>1. graph' \in Graph /\ disk' \in Graph /\ GraphsInv'
  BY SameGraph DEF AwaitRetry, SaveIt, history
<1>2. TypeOK'
  BY <1>1 DEF TypeOK, AwaitRetry, sweepVars, batchVars, history
<1>3. BatchInv'
  <2>1. \A m \in Node : InTurn(m) => m = n
    <3>1. /\ IdRank \in [Node -> Nat] /\ Depth \in [Node -> Nat]
          /\ todo \subseteq Node
      BY SchedulerAssumption DEF TypeOK
    <3>2. QED BY <3>1 DEF AwaitRetry, InTurn, IsNextId, IsFirst, Before
  <2>2. \A m \in Node : InTurn(m)' => InTurn(m)
    BY DEF AwaitRetry, InTurn, batchVars
  <2>3. MayRetry(n)'
    BY DEF AwaitRetry, MayRetry, batchVars
  <2>4. QED BY <2>1, <2>2, <2>3 DEF AwaitRetry, BatchInv, AllHave, batchVars
<1>4. NoneOrphaned' /\ SweepInv' /\ NoDeadlock'
  BY DEF AwaitRetry, NoneOrphaned, SweepInv, NoDeadlock, batchVars, history
<1>5. QED BY <1>1, <1>2, <1>3, <1>4

LEMMA NoBatchType ==
  ASSUME NoBatch
  PROVE  /\ todo' = {} /\ batch' = {} /\ leased' \in BOOLEAN /\ saving' \in BOOLEAN
         /\ saving' /\ result' \in [Node -> Result]
<1>1. result' \in [Node -> Result]
  BY DEF NoBatch, NoResult, Result, Terminal
<1>2. QED BY <1>1 DEF NoBatch

LEMMA EndBatchKeeps == ASSUME SchedulerIInv, EndBatch PROVE SchedulerIInv'
<1> USE DEF SchedulerIInv
<1>1. graph' \in Graph /\ disk' \in Graph /\ GraphsInv'
  BY SameGraph DEF EndBatch, SaveIt, history
<1>2. SweepInv' /\ rest' \subseteq Node /\ changed' = FALSE /\ pc' \in {"sweep", "done"}
  BY LoopSweeps DEF EndBatch
<1>3. TypeOK'
  BY <1>1, <1>2, NoBatchType DEF TypeOK, EndBatch, history
<1>4. BatchInv'
  BY <1>2, NoBatchType DEF EndBatch, BatchInv
<1>5. NoneOrphaned' /\ NoDeadlock'
  BY DEF EndBatch, NoneOrphaned, NoDeadlock, history
<1>6. QED BY <1>1, <1>2, <1>3, <1>4, <1>5

LEMMA InterruptKeeps == ASSUME SchedulerIInv, Interrupt PROVE SchedulerIInv'
<1> USE DEF SchedulerIInv
<1>1. graph' \in Graph /\ disk' \in Graph /\ GraphsInv'
  BY SameGraph DEF Interrupt, graphs
<1>2. interrupts' \in Nat /\ interrupts' > 0
  BY DEF Interrupt, TypeOK
<1>3. TypeOK'
  BY <1>1, <1>2, NoBatchType DEF TypeOK, Interrupt
<1>4. BatchInv' /\ NoneOrphaned' /\ SweepInv' /\ NoDeadlock'
  BY <1>2, NoBatchType DEF Interrupt, BatchInv, NoneOrphaned, SweepInv, NoDeadlock
<1>5. QED BY <1>1, <1>3, <1>4

(* Steps that move one task.                                               *)

\* What a move of task n to s means for the rest of the state
LEMMA StatusAfterSet ==
  ASSUME TypeOK, NEW n \in Node, NEW s \in Status, graph' = Set(graph, n, s)
  PROVE  /\ \A m \in Node : graph'.status[m] = IF m = n THEN s ELSE graph.status[m]
         /\ graph'.place = graph.place
<1>1. graph \in Graph
  BY DEF TypeOK
<1>2. QED BY <1>1 DEF Set, Graph

LEMMA TerminalStatus == Terminal \subseteq Status /\ Failed \subseteq Terminal
  BY DEF Status, Terminal

(* The sweep blocks whoever a failure reaches, and completes a parent of   *)
(* completed children or lets its verifiers decide.                        *)
LEMMA VisitKeeps == ASSUME SchedulerIInv, NEW n \in Node, Visit(n) PROVE SchedulerIInv'
<1> USE DEF SchedulerIInv
<1>1. /\ pc = "sweep" /\ n \in rest /\ Affected(graph, n)
      /\ \A m \in rest : SweepsBefore(graph, m, n) => ~Affected(graph, m)
      /\ graph' \in Visited(n) /\ disk' = graph'
      /\ rest' = {m \in rest : SweepsBefore(graph, n, m)} /\ changed' = TRUE
      /\ UNCHANGED <<pc, todo, batch, result, leased, saving, reason>>
      /\ UNCHANGED <<runs, crashes, interrupts>>
  BY DEF Visit, SaveIt, batchVars, history
<1>2. PICK s \in Terminal : /\ graph' = Set(graph, n, s)
                            /\ s \in Failed \/ (ChildrenDone(graph, n) /\
                                 ~DependencyFailed(graph, n) /\ ~ChildFailed(graph, n))
                            /\ ChildFailed(graph, n) => s \in Failed
  <2>1. CASE DependencyFailed(graph, n) \/ ChildFailed(graph, n)
    BY <1>1, <2>1 DEF Visited, Terminal, Failed
  <2>2. CASE ~(DependencyFailed(graph, n) \/ ChildFailed(graph, n))
    BY <1>1, <2>2 DEF Visited, Affected
  <2>3. QED BY <2>1, <2>2
<1>3. s \in Status /\ graph.status[n] \notin Terminal \cup {"absent"} /\ n \in Present(graph)
  BY <1>1, TerminalStatus DEF Affected, Present
<1>4. /\ \A m \in Node : graph'.status[m] = IF m = n THEN s ELSE graph.status[m]
      /\ graph'.place = graph.place
  BY <1>2, <1>3, StatusAfterSet
<1>5. graph' \in Graph /\ disk' \in Graph /\ GraphsInv'
  <2>1. \/ MayBecome(graph, n, s)
        \/ graph.status[n] \notin {"absent", "completed"} /\ s \in Failed
    <3>1. CASE s \in Failed
      BY <1>3, <3>1 DEF Terminal
    <3>2. CASE s \notin Failed
      <4>1. ChildrenDone(graph, n)
        BY <1>2, <3>2
      <4>2. \A d \in Needs[n] : graph.status[d] = "completed"
        BY <4>1 DEF GraphsInv, GraphInv, NeedsFirst, ChildrenDone
      <4>3. QED BY <1>3, <4>1, <4>2 DEF MayBecome, ChildrenDone, Terminal, Failed
    <3>3. QED BY <3>1, <3>2
  <2>2. s \notin NotStarted
    BY <1>2 DEF NotStarted, Terminal, Failed
  <2>3. QED BY <1>1, <1>2, <1>3, <2>1, <2>2, SetGraph
<1>6. TypeOK'
  BY <1>1, <1>5 DEF TypeOK
<1>7. BatchInv' /\ NoneOrphaned' /\ NoDeadlock'
  <2>1. s # "running"
    BY DEF Terminal, Failed
  <2>2. QED BY <1>1, <1>4, <2>1 DEF BatchInv, NoneOrphaned, NoDeadlock
<1>8. SweepInv'
  <2>1. Present(graph') = Present(graph) /\ \A p \in Node : ChildrenIn(graph', p) = ChildrenIn(graph, p)
    BY <1>2, <1>3, SetIsMove, MovedTree DEF TypeOK
  <2>2. \A m, p \in Node : SweepsBefore(graph', m, p) <=> SweepsBefore(graph, m, p)
    BY <1>4 DEF SweepsBefore
  <2>3. rest \subseteq Present(graph) /\ Present(graph) \subseteq Node
    BY <1>1 DEF SweepInv, Present
  <2>4. \A m \in rest', p \in Present(graph) : SweepsBefore(graph, m, p) => p \in rest'
    BY <1>1, <1>3, <2>3, SweepOrder DEF SweepInv, GraphsInv, TypeOK
  <2>5. ASSUME NEW p \in Present(graph) \ rest', ChildFailed(graph', p)
        PROVE  graph'.status[p] \in Failed
    <3>1. p \in Node /\ p \in Present(graph)
      BY <2>3
    <3>2. CASE p = n
      <4>1. ChildFailed(graph, n)
        BY <1>4, <2>1, <2>5, <3>2, TreeFacts DEF ChildFailed, HasStatus, ChildrenIn, Present
      <4>2. QED BY <1>2, <1>4, <3>1, <3>2, <4>1
    <3>3. CASE p # n /\ n \in Offered[p]
      <4>1. SweepsBefore(graph, n, p)
        BY <3>1, <3>3, SweepOrder DEF GraphsInv, TypeOK
      <4>2. p \in rest
        BY <1>1, <3>1, <4>1 DEF SweepInv
      <4>3. QED BY <1>1, <2>5, <4>1, <4>2
    <3>4. CASE p # n /\ n \notin Offered[p]
      <4>1. ChildFailed(graph, p)
        BY <1>4, <2>1, <2>5, <3>1, <3>4 DEF ChildFailed, HasStatus, ChildrenIn, Present
      <4>2. CASE p \notin rest
        BY <1>1, <1>4, <3>1, <3>4, <4>1, <4>2 DEF SweepInv
      <4>3. CASE p \in rest
        <5>1. SweepsBefore(graph, p, n)
          BY <1>1, <1>3, <2>5, <3>1, <3>4, <4>3, SweepOrder DEF GraphsInv, TypeOK
        <5>2. ~Affected(graph, p)
          BY <1>1, <4>3, <5>1
        <5>3. graph.status[p] \in Terminal
          BY <3>1, <4>1, <5>2 DEF Affected, Present
        <5>4. graph.status[p] # "completed"
          BY <3>1, <4>1 DEF GraphsInv, GraphInv, CompletedFromBelow, ChildFailed, HasStatus, Failed
        <5>5. QED BY <1>4, <3>1, <3>4, <5>3, <5>4 DEF Terminal
      <4>4. QED BY <4>2, <4>3
    <3>5. QED BY <3>2, <3>3, <3>4
  <2>6. rest' \subseteq Present(graph')
    BY <1>1, <2>1, <2>3
  <2>7. \A m \in rest', p \in Present(graph') : SweepsBefore(graph', m, p) => p \in rest'
    BY <2>1, <2>2, <2>3, <2>4, <2>6
  <2>8. QED BY <1>1, <2>1, <2>5, <2>6, <2>7 DEF SweepInv
<1>9. QED BY <1>5, <1>6, <1>7, <1>8

LEMMA DeadlockedKeeps == ASSUME SchedulerIInv, Deadlocked PROVE SchedulerIInv'
<1> USE DEF SchedulerIInv
<1>1. /\ graph' = Set(graph, Root, "blocked") /\ disk' = graph' /\ reason' = "task_graph_deadlock"
      /\ Loop(graph') /\ UNCHANGED <<todo, batch, result, leased, saving>>
      /\ UNCHANGED <<runs, crashes, interrupts>>
      /\ pc = "sweep" /\ SweepOver /\ ~Ended(graph) /\ Candidates(graph) = {} /\ ~changed
  BY DEF Deadlocked, SweepOver, SaveIt, batchVars, history
<1>2. interrupts > 0
  BY <1>1, AlwaysACandidate DEF TypeOK
<1>3. "blocked" \in Status /\ Root \in Node
  BY TreeFacts DEF Status, Terminal, Failed
<1>4. \A m \in Node : graph'.status[m] = IF m = Root THEN "blocked" ELSE graph.status[m]
  BY <1>1, <1>3, StatusAfterSet
<1>5. graph' \in Graph /\ disk' \in Graph /\ GraphsInv'
  <2>1. graph.status[Root] \notin {"absent", "completed"}
    BY <1>1 DEF Ended, Terminal, GraphsInv, GraphInv, Rooted, Present
  <2>2. "blocked" \in Failed /\ "blocked" \notin NotStarted
    BY DEF Failed, NotStarted
  <2>3. QED BY <1>1, <1>3, <2>1, <2>2, SetGraph
<1>6. SweepInv' /\ rest' \subseteq Node /\ changed' = FALSE /\ pc' \in {"sweep", "done"}
  BY <1>1, LoopSweeps
<1>7. TypeOK'
  BY <1>1, <1>5, <1>6 DEF TypeOK
<1>8. BatchInv' /\ NoneOrphaned' /\ NoDeadlock'
  BY <1>1, <1>2, <1>4, <1>6 DEF BatchInv, NoneOrphaned, NoDeadlock
<1>9. QED BY <1>5, <1>6, <1>7, <1>8

(* _assess_node: ready, failed, blocked, or split.                         *)
LEMMA AssessKeeps == ASSUME SchedulerIInv, NEW n \in Node, Assess(n) PROVE SchedulerIInv'
<1> USE DEF SchedulerIInv
<1>1. /\ graph' \in Assessed(graph, n) /\ disk' = graph' /\ Loop(graph')
      /\ UNCHANGED <<todo, batch, result, leased, saving, reason>>
      /\ UNCHANGED <<runs, crashes, interrupts>> /\ pc = "sweep"
  BY DEF Assess, SweepOver, SaveIt, batchVars, history
<1>2. /\ graph.status[n] = "pending"
      /\ \A d \in Needs[n] : graph.status[d] = "completed"
  BY DEF Assess, ToAssess, Candidates
<1>3. /\ graph' \in Graph /\ disk' \in Graph /\ GraphsInv'
      /\ \A m \in Node : graph'.status[m] = "running" => graph.status[m] = "running"
  <2>1. ASSUME NEW s \in {"ready", "failed", "blocked"}, graph' = Set(graph, n, s)
        PROVE  /\ graph' \in Graph /\ disk' \in Graph /\ GraphsInv'
               /\ \A m \in Node : graph'.status[m] = "running" => graph.status[m] = "running"
    <3>1. s \in Status /\ (s = "ready" \/ s \in Failed)
      BY DEF Status, Terminal, Failed
    <3>2. \/ MayBecome(graph, n, s)
          \/ graph.status[n] \notin {"absent", "completed"} /\ s \in Failed
      <4>1. ChildrenIn(graph, n) = {}
        BY <1>2, LeafFacts DEF GraphsInv, TypeOK
      <4>2. QED BY <1>2, <3>1, <4>1 DEF MayBecome
    <3>3. graph.status[n] \in NotStarted
      BY <1>2 DEF NotStarted
    <3>4. graph' \in Graph /\ disk' \in Graph /\ GraphsInv'
      BY <1>1, <2>1, <3>1, <3>2, <3>3, SetGraph
    <3>5. \A m \in Node : graph'.status[m] = IF m = n THEN s ELSE graph.status[m]
      BY <2>1, <3>1, StatusAfterSet
    <3>6. QED BY <3>4, <3>5
  <2>2. CASE graph' = Split(graph, n) /\ Offered[n] # {} /\ ~NoRoomFor(graph, n)
    <3>1. /\ graph' \in Graph /\ GraphInv(graph')
          /\ \A m \in Node : graph'.status[m] =
               IF m \in Offered[n] THEN "pending" ELSE IF m = n THEN "waiting" ELSE graph.status[m]
          /\ \A m \in Offered[n] : graph.status[m] = "absent"
      BY <1>2, <2>2, SplitKeeps DEF GraphsInv, TypeOK
    <3>2. /\ graph'.attempts = graph.attempts /\ graph'.retries = graph.retries
          /\ graph'.spent = graph.spent
      BY <2>2 DEF Split, TypeOK, Graph
    <3>3. \A m \in Node : graph.attempts[m] \in Nat /\ graph.retries[m] \in Nat
      BY DEF TypeOK, Graph
    <3>4. Accounted(graph)'
      BY <1>1, <1>2, <3>1, <3>2, <3>3 DEF Accounted, GraphsInv, TypeOK, NotStarted
    <3>5. disk' \in Graph /\ GraphInv(disk') /\ Accounted(disk)'
      BY <1>1, <3>1, <3>4, DiskKeeps DEF TypeOK, GraphsInv
    <3>6. AttemptsSaved'
      BY <1>1, <3>2, SavedStays DEF GraphsInv
    <3>7. QED BY <3>1, <3>4, <3>5, <3>6 DEF GraphsInv
  <2>3. QED BY <1>1, <2>1, <2>2 DEF Assessed
<1>4. SweepInv' /\ rest' \subseteq Node /\ changed' = FALSE /\ pc' \in {"sweep", "done"}
  BY <1>1, LoopSweeps
<1>5. TypeOK'
  BY <1>1, <1>3, <1>4 DEF TypeOK
<1>6. BatchInv' /\ NoneOrphaned' /\ NoDeadlock'
  BY <1>1, <1>3, <1>4 DEF BatchInv, NoneOrphaned, NoDeadlock
<1>7. QED BY <1>3, <1>4, <1>5, <1>6

(* _admit_leaf: a leaf without its capabilities leaves the batch blocked.  *)
LEMMA AdmitKeeps == ASSUME SchedulerIInv, NEW n \in Node, Admit(n) PROVE SchedulerIInv'
<1> USE DEF SchedulerIInv
<1>1. /\ pc = "admit" /\ n \in todo /\ todo' = todo \ {n}
      /\ \/ batch' = batch \cup {n} /\ UNCHANGED <<graph, disk>>
         \/ graph' = Set(graph, n, "blocked") /\ disk' = graph' /\ UNCHANGED batch
      /\ UNCHANGED <<pc, rest, changed, result, leased, saving, reason>>
      /\ UNCHANGED <<runs, crashes, interrupts>>
  BY DEF Admit, IsFirst, SaveIt, graphs, sweepVars, history
<1>2. graph.status[n] = "ready" /\ n \notin batch
  BY <1>1 DEF BatchInv, AllHave
<1>3. "blocked" \in Status /\ "blocked" \in Failed /\ "blocked" \notin NotStarted
  BY DEF Status, Terminal, Failed, NotStarted
<1>4. graph' \in Graph /\ disk' \in Graph /\ GraphsInv'
  <2>1. CASE UNCHANGED <<graph, disk>>
    BY <1>1, <2>1, SameGraph
  <2>2. CASE graph' = Set(graph, n, "blocked") /\ disk' = graph'
    BY <1>1, <1>2, <1>3, <2>2, SetGraph
  <2>3. QED BY <1>1, <2>1, <2>2
<1>5. \A m \in Node : graph'.status[m] = graph.status[m] \/ (m = n /\ graph'.status[m] = "blocked")
  <2>1. CASE UNCHANGED <<graph, disk>>
    BY <2>1
  <2>2. CASE graph' = Set(graph, n, "blocked")
    BY <1>3, <2>2, StatusAfterSet
  <2>3. QED BY <1>1, <2>1, <2>2
<1>6. TypeOK'
  BY <1>1, <1>4 DEF TypeOK
<1>7. BatchInv'
  <2>1. todo' \cup batch' \subseteq todo \cup batch /\ todo' \cap batch' = {}
    BY <1>1 DEF BatchInv
  <2>2. Isolated(todo' \cup batch')
    BY <1>1, <2>1 DEF BatchInv, Isolated
  <2>3. \A m \in todo' \cup batch' : graph'.status[m] = "ready"
    <3>1. CASE UNCHANGED <<graph, disk>>
      BY <1>1, <2>1, <3>1 DEF BatchInv, AllHave
    <3>2. CASE graph' = Set(graph, n, "blocked") /\ UNCHANGED batch
      <4>1. \A m \in todo' \cup batch' : m # n /\ m \in Node
        BY <1>1, <1>2, <3>2 DEF TypeOK
      <4>2. QED BY <1>1, <1>5, <2>1, <4>1 DEF BatchInv, AllHave
    <3>3. QED BY <1>1, <3>1, <3>2
  <2>4. QED BY <1>1, <2>1, <2>2, <2>3 DEF BatchInv, Isolated, AllHave
<1>8. NoneOrphaned' /\ SweepInv' /\ NoDeadlock'
  BY <1>1, <1>5 DEF NoneOrphaned, SweepInv, NoDeadlock
<1>9. QED BY <1>4, <1>6, <1>7, <1>8

(* A leaf that is started adds one to what its graph has on record.        *)
LEMMA ExecutionAdded ==
  ASSUME AttemptsSaved, TypeOK, NEW n \in Node, disk.spent < MaxLeafExecutions,
         NEW h \in Graph, h.attempts = [disk.attempts EXCEPT ![n] = @ + 1]
  PROVE  /\ IsFiniteSet(Executions(h))
         /\ Cardinality(Executions(h)) = disk.spent + 1
<1> DEFINE k == disk.attempts[n] + 1
<1>1. /\ disk.attempts \in [Node -> Nat] /\ disk.attempts[n] <= disk.spent
      /\ disk.spent \in Nat
  BY DEF TypeOK, Graph, AttemptsSaved, ExecutionsPaidFor
<1>2. k \in 1 .. MaxLeafExecutions
  BY <1>1, SchedulerAssumption
<1>3. \A m \in Node : h.attempts[m] = IF m = n THEN k ELSE disk.attempts[m]
  BY <1>1
<1> HIDE DEF k
<1>4. <<n, k>> \notin Executions(disk)
  BY <1>1 DEF Executions, k
<1>5. Executions(h) = Executions(disk) \cup {<<n, k>>}
  <2>1. ASSUME NEW m \in Node, NEW i \in 1 .. MaxLeafExecutions
        PROVE  <<m, i>> \in Executions(h) <=> <<m, i>> \in Executions(disk) \cup {<<n, k>>}
    <3>1. <<m, i>> \in Executions(h) <=> i <= h.attempts[m]
      BY DEF Executions
    <3>2. <<m, i>> \in Executions(disk) <=> i <= disk.attempts[m]
      BY DEF Executions
    <3>3. i <= h.attempts[m] <=> i <= disk.attempts[m] \/ (m = n /\ i = k)
      BY <1>1, <1>3 DEF k
    <3>4. QED BY <3>1, <3>2, <3>3
  <2>2. /\ Executions(h) \subseteq Node \X (1 .. MaxLeafExecutions)
        /\ Executions(disk) \cup {<<n, k>>} \subseteq Node \X (1 .. MaxLeafExecutions)
    BY <1>2 DEF Executions
  <2>3. \A e \in Node \X (1 .. MaxLeafExecutions) :
          e \in Executions(h) <=> e \in Executions(disk) \cup {<<n, k>>}
    BY <2>1
  <2>4. QED BY <2>2, <2>3
<1>6. /\ IsFiniteSet(Executions(disk) \cup {<<n, k>>})
      /\ Cardinality(Executions(disk) \cup {<<n, k>>}) = Cardinality(Executions(disk)) + 1
  BY <1>4, FS_AddElement DEF AttemptsSaved
<1>7. QED BY <1>5, <1>6 DEF AttemptsSaved, ExecutionsPaidFor

(* What _start_leaf makes of a graph within its budget.                    *)
Begun(g, n) == [g EXCEPT !.status[n] = "running", !.attempts[n] = @ + 1, !.spent = @ + 1]

LEMMA StartedGraph ==
  ASSUME NEW g \in Graph, NEW n \in Node
  PROVE  /\ Begun(g, n) \in Graph
         /\ Begun(g, n).status = [g.status EXCEPT ![n] = "running"]
         /\ Begun(g, n).place = g.place /\ Begun(g, n).retries = g.retries
         /\ Begun(g, n).attempts = [g.attempts EXCEPT ![n] = @ + 1]
         /\ Begun(g, n).spent = g.spent + 1
<1> DEFINE h  == Begun(g, n)
           g1 == Set(g, n, "running")
           A  == [g.attempts EXCEPT ![n] = @ + 1]
           g2 == [g1 EXCEPT !.attempts = A]
<1>1. /\ g1 \in Graph /\ g1.status = [g.status EXCEPT ![n] = "running"]
      /\ g1.attempts = g.attempts /\ g1.spent = g.spent
      /\ g1.retries = g.retries /\ g1.place = g.place
  <2>1. "running" \in Status
    BY DEF Status
  <2>2. QED BY <2>1, SetIsMove DEF Moved
<1>2. A \in [Node -> Nat]
  BY DEF Graph
<1>3. h = [g2 EXCEPT !.spent = g.spent + 1]
  <2>1. h = [[g1 EXCEPT !.attempts = [g1.attempts EXCEPT ![n] = g.attempts[n] + 1]]
               EXCEPT !.spent = g.spent + 1]
    BY DEF Set, Begun
  <2>2. [g1.attempts EXCEPT ![n] = g.attempts[n] + 1] = A
    <3> HIDE DEF g1
    <3> QED BY <1>1
  <2> HIDE DEF g1, A, h
  <2>3. QED BY <2>1, <2>2 DEF g2
<1> HIDE DEF g1, A, h
<1>4. /\ g2 \in Graph /\ g2.status = g1.status /\ g2.attempts = A
      /\ g2.spent = g1.spent /\ g2.retries = g1.retries /\ g2.place = g1.place
  BY <1>1, <1>2 DEF Graph
<1> HIDE DEF g2
<1>5. /\ h \in Graph /\ h.status = g2.status /\ h.attempts = g2.attempts
      /\ h.spent = g.spent + 1 /\ h.retries = g2.retries /\ h.place = g2.place
  <2>1. g.spent + 1 \in Nat
    BY DEF Graph
  <2>2. QED BY <1>3, <1>4, <2>1 DEF Graph
<1>6. QED BY <1>1, <1>4, <1>5 DEF A, h

(* _start_leaf.                                                            *)
LEMMA StartLeafKeeps == ASSUME SchedulerIInv, NEW n \in Node, StartLeaf(n) PROVE SchedulerIInv'
<1> USE DEF SchedulerIInv
<1>1. /\ pc = "begin" /\ n \in todo /\ todo' = todo \ {n} /\ disk' = graph'
      /\ UNCHANGED <<pc, rest, changed, result, leased, saving, reason>>
      /\ UNCHANGED <<runs, crashes, interrupts>>
  BY DEF StartLeaf, IsFirst, SaveIt, sweepVars, history
<1>2. graph.status[n] = "ready" /\ n \notin batch
  BY <1>1 DEF BatchInv, AllHave
<1>3. CASE graph.spent >= MaxLeafExecutions
  <2>1. graph' = Set(graph, n, "blocked") /\ batch' = batch
    BY <1>3 DEF StartLeaf
  <2>2. "blocked" \in Status /\ "blocked" \in Failed /\ "blocked" \notin NotStarted
    BY DEF Status, Terminal, Failed, NotStarted
  <2>3. graph' \in Graph /\ disk' \in Graph /\ GraphsInv'
    BY <1>1, <1>2, <2>1, <2>2, SetGraph
  <2>4. \A m \in Node : graph'.status[m] = IF m = n THEN "blocked" ELSE graph.status[m]
    BY <2>1, <2>2, StatusAfterSet
  <2>5. TypeOK'
    BY <1>1, <2>1, <2>3 DEF TypeOK
  <2>6. BatchInv'
    <3>1. disk'.attempts = disk.attempts
      BY <1>1, <2>1, <2>2, SetIsMove DEF GraphsInv, AttemptsSaved, TypeOK
    <3>2. Isolated(todo' \cup batch')
      BY <1>1, <2>1 DEF BatchInv, Isolated
    <3>3. /\ \A m \in todo' : graph'.status[m] = "ready"
          /\ \A m \in batch' : graph'.status[m] = "running" /\ runs'[m] < disk'.attempts[m]
      BY <1>1, <1>2, <2>1, <2>4, <3>1 DEF BatchInv, AllHave, Unpaid, TypeOK
    <3>4. QED BY <1>1, <3>2, <3>3 DEF BatchInv, Isolated, AllHave, Unpaid
  <2>7. NoneOrphaned' /\ SweepInv' /\ NoDeadlock'
    BY <1>1, <2>1, <2>4 DEF NoneOrphaned, SweepInv, NoDeadlock
  <2>8. QED BY <2>3, <2>5, <2>6, <2>7
<1>4. CASE graph.spent < MaxLeafExecutions
  <2>1. graph' = Begun(graph, n) /\ batch' = batch \cup {n}
    BY <1>4, SchedulerAssumption DEF StartLeaf, Begun, TypeOK, Graph
  <2>2. /\ graph' \in Graph /\ graph'.status = [graph.status EXCEPT ![n] = "running"]
        /\ graph'.place = graph.place /\ graph'.retries = graph.retries
        /\ graph'.attempts = [graph.attempts EXCEPT ![n] = @ + 1]
        /\ graph'.spent = graph.spent + 1
    <3>1. graph \in Graph
      BY DEF TypeOK
    <3>2. QED BY <2>1, <3>1, StartedGraph
  <2>3. /\ \A m \in Node : graph'.status[m] = IF m = n THEN "running" ELSE graph.status[m]
        /\ \A m \in Node : graph'.attempts[m] =
             IF m = n THEN graph.attempts[m] + 1 ELSE graph.attempts[m]
        /\ \A m \in Node : graph.attempts[m] \in Nat /\ graph.retries[m] \in Nat
    BY <2>2 DEF TypeOK, Graph
  <2>4. GraphInv(graph')
    <3>1. Moved(graph, graph', n, "running")
      BY <2>2, <2>3 DEF Moved
    <3>2. QED BY <1>2, <2>2, <3>1, LeafMoves DEF GraphsInv, TypeOK
  <2>5. Accounted(graph)'
    BY <1>1, <1>2, <2>2, <2>3 DEF Accounted, GraphsInv, NotStarted, TypeOK
  <2>6. AttemptsSaved'
    <3>1. /\ disk.attempts = graph.attempts /\ disk.spent = graph.spent
          /\ disk.spent \in Nat /\ \A m \in Node : runs[m] \in Nat
      BY DEF GraphsInv, AttemptsSaved, TypeOK, Graph
    <3>2. IsFiniteSet(Executions(graph')) /\ Cardinality(Executions(graph')) = graph'.spent
      BY <1>4, <2>2, <3>1, ExecutionAdded DEF GraphsInv
    <3>3. \A m \in Node : runs[m] <= graph'.attempts[m] /\ graph'.attempts[m] <= graph'.spent
      BY <2>2, <2>3, <3>1 DEF GraphsInv, AttemptsSaved, ExecutionsPaidFor
    <3>4. graph'.spent <= MaxLeafExecutions
      BY <1>4, <2>2, <3>1, SchedulerAssumption
    <3>5. QED BY <1>1, <3>2, <3>3, <3>4 DEF AttemptsSaved, ExecutionsPaidFor
  <2>7. GraphsInv'
    BY <1>1, <2>4, <2>5, <2>6 DEF GraphsInv, Accounted
  <2>8. TypeOK'
    BY <1>1, <2>1, <2>2 DEF TypeOK
  <2>9. BatchInv'
    <3>1. todo' \cup batch' = todo \cup batch
      BY <1>1, <2>1
    <3>2. Isolated(todo' \cup batch')
      BY <1>1, <3>1 DEF BatchInv, Isolated
    <3>3. \A m \in todo' : graph'.status[m] = "ready"
      BY <1>1, <2>3 DEF BatchInv, AllHave, TypeOK
    <3>4. \A m \in batch' : graph'.status[m] = "running" /\ runs'[m] < disk'.attempts[m]
      <4>1. \A m \in batch : m \in Node /\ m # n /\ graph.status[m] = "running"
                             /\ runs[m] < disk.attempts[m]
        BY <1>1, <1>2 DEF BatchInv, AllHave, Unpaid, TypeOK
      <4>2. disk.attempts = graph.attempts /\ runs[n] <= graph.attempts[n] /\ runs[n] \in Nat
        BY DEF GraphsInv, AttemptsSaved, ExecutionsPaidFor, TypeOK
      <4>3. QED BY <1>1, <2>1, <2>3, <4>1, <4>2
    <3>5. QED BY <1>1, <3>2, <3>3, <3>4 DEF BatchInv, Isolated, AllHave, Unpaid
  <2>10. NoneOrphaned' /\ SweepInv' /\ NoDeadlock'
    BY <1>1, <2>1, <2>3 DEF NoneOrphaned, SweepInv, NoDeadlock
  <2>11. QED BY <1>1, <2>2, <2>7, <2>8, <2>9, <2>10
<1>5. QED
  <2>1. graph.spent \in Nat
    BY DEF TypeOK, Graph
  <2>2. QED BY <1>3, <1>4, <2>1, SchedulerAssumption

(* What is left of applying a leaf's result once its graph is known.       *)
LEMMA ApplyingKeeps ==
  ASSUME SchedulerIInv, NEW n \in Node, pc \in {"apply", "wait"}, n \in todo,
         graph' \in Graph, disk' \in Graph, GraphsInv', pc' = "apply",
         todo' = todo \ {n}, UNCHANGED <<sweepVars, batch, result, leased, saving>>,
         UNCHANGED <<reason, history>>,
         \A m \in Node \ {n} : graph'.status[m] = graph.status[m],
         graph'.status[n] # "running"
  PROVE  SchedulerIInv'
<1> USE DEF SchedulerIInv
<1>1. TypeOK'
  BY DEF TypeOK, sweepVars, history
<1>2. BatchInv'
  BY DEF BatchInv, AllHave, TypeOK
<1>3. NoneOrphaned' /\ SweepInv' /\ NoDeadlock'
  BY DEF NoneOrphaned, SweepInv, NoDeadlock, history
<1>4. QED BY <1>1, <1>2, <1>3

LEMMA InTurnFacts ==
  ASSUME SchedulerIInv, NEW n \in Node, pc \in {"apply", "wait"}, InTurn(n)
  PROVE  n \in todo /\ graph.status[n] \in {"ready", "running"}
<1>1. n \in todo
  BY DEF InTurn, IsNextId, IsFirst
<1>2. QED BY <1>1 DEF SchedulerIInv, BatchInv, AllHave

LEMMA AppliedKeeps ==
  ASSUME SchedulerIInv, NEW n \in Node, pc \in {"apply", "wait"}, InTurn(n),
         Applied(n, result[n].status), pc' = "apply"
  PROVE  SchedulerIInv'
<1> DEFINE s == result[n].status
<1>1. s \in Terminal /\ s \in Status /\ s \notin NotStarted \cup {"waiting", "running"}
  <2>1. result[n] \in Result
    BY DEF SchedulerIInv, TypeOK
  <2>2. QED BY <2>1, TerminalStatus DEF Result, NotStarted, Terminal, Failed
<1> HIDE DEF s
<1>2. n \in todo /\ graph.status[n] \in {"ready", "running"}
  BY InTurnFacts
<1>3. /\ graph' = Set(graph, n, s) /\ (UNCHANGED disk \/ disk' = graph')
      /\ todo' = todo \ {n} /\ UNCHANGED <<sweepVars, batch, result, leased, saving>>
      /\ UNCHANGED <<reason, history>>
  BY DEF Applied, SaveOrNot, SaveIt, s
<1>4. MayBecome(graph, n, s)
  <2>1. ChildrenIn(graph, n) = {} /\ \A d \in Needs[n] : graph.status[d] = "completed"
    BY <1>2, LeafFacts DEF SchedulerIInv, GraphsInv, TypeOK
  <2>2. QED BY <1>1, <1>2, <2>1 DEF MayBecome, NotStarted
<1>5. graph' \in Graph /\ disk' \in Graph /\ GraphsInv'
  BY <1>1, <1>3, <1>4, SetGraph DEF SchedulerIInv, history
<1>6. \A m \in Node : graph'.status[m] = IF m = n THEN s ELSE graph.status[m]
  BY <1>1, <1>3, StatusAfterSet DEF SchedulerIInv
<1>7. QED BY <1>1, <1>2, <1>3, <1>5, <1>6, ApplyingKeeps

(* What a retry makes of a graph.                                          *)
Again(g, n) == [g EXCEPT !.status[n] = "ready", !.retries[n] = @ + 1]

LEMMA AgainGraph ==
  ASSUME NEW g \in Graph, NEW n \in Node
  PROVE  /\ Again(g, n) \in Graph
         /\ Again(g, n).status = [g.status EXCEPT ![n] = "ready"]
         /\ Again(g, n).retries = [g.retries EXCEPT ![n] = @ + 1]
         /\ Again(g, n).place = g.place /\ Again(g, n).attempts = g.attempts
         /\ Again(g, n).spent = g.spent
<1> DEFINE h  == Again(g, n)
           g1 == Set(g, n, "ready")
           R  == [g.retries EXCEPT ![n] = @ + 1]
<1>1. /\ g1 \in Graph /\ g1.status = [g.status EXCEPT ![n] = "ready"]
      /\ g1.attempts = g.attempts /\ g1.spent = g.spent
      /\ g1.retries = g.retries /\ g1.place = g.place
  <2>1. "ready" \in Status
    BY DEF Status
  <2>2. QED BY <2>1, SetIsMove DEF Moved
<1>2. R \in [Node -> Nat]
  BY DEF Graph
<1>3. h = [g1 EXCEPT !.retries = R]
  <2>1. h = [g1 EXCEPT !.retries = [g1.retries EXCEPT ![n] = g.retries[n] + 1]]
    BY DEF Set, Again
  <2>2. [g1.retries EXCEPT ![n] = g.retries[n] + 1] = R
    <3> HIDE DEF g1
    <3> QED BY <1>1
  <2> HIDE DEF g1, R, h
  <2>3. QED BY <2>1, <2>2
<1> HIDE DEF g1, R, h
<1>4. /\ h \in Graph /\ h.status = g1.status /\ h.retries = R /\ h.place = g1.place
      /\ h.attempts = g1.attempts /\ h.spent = g1.spent
  BY <1>1, <1>2, <1>3 DEF Graph
<1>5. QED BY <1>1, <1>4 DEF R, h

(* A retry is counted when the leaf becomes ready again.                   *)
LEMMA RetriedKeeps ==
  ASSUME SchedulerIInv, NEW n \in Node, pc \in {"apply", "wait"}, InTurn(n),
         n \in RetryNodes, graph.retries[n] < MaxAttempts - 1, Retried(n), pc' = "apply"
  PROVE  SchedulerIInv'
<1>1. n \in todo /\ graph.status[n] \in {"ready", "running"}
  BY InTurnFacts
<1>2. /\ UNCHANGED disk \/ disk' = graph'
      /\ todo' = todo \ {n} /\ UNCHANGED <<sweepVars, batch, result, leased, saving>>
      /\ UNCHANGED <<reason, history>>
  BY DEF Retried, SaveOrNot, SaveIt
<1>3. /\ graph' \in Graph /\ graph'.status = [graph.status EXCEPT ![n] = "ready"]
      /\ graph'.retries = [graph.retries EXCEPT ![n] = @ + 1]
      /\ graph'.place = graph.place /\ graph'.attempts = graph.attempts
      /\ graph'.spent = graph.spent
  <2>1. graph \in Graph
    BY DEF SchedulerIInv, TypeOK
  <2>2. graph' = Again(graph, n)
    BY DEF Retried, Again
  <2>3. QED BY <2>1, <2>2, AgainGraph
<1>4. /\ \A m \in Node : graph'.status[m] = IF m = n THEN "ready" ELSE graph.status[m]
      /\ \A m \in Node : graph'.retries[m] =
           IF m = n THEN graph.retries[m] + 1 ELSE graph.retries[m]
      /\ \A m \in Node : graph.attempts[m] \in Nat /\ graph.retries[m] \in Nat
  BY <1>3 DEF SchedulerIInv, TypeOK, Graph
<1>5. GraphInv(graph')
  <2>1. Moved(graph, graph', n, "ready")
    BY <1>3 DEF Moved
  <2>2. QED BY <1>1, <1>3, <2>1, LeafMoves DEF SchedulerIInv, GraphsInv, TypeOK
<1>6. Accounted(graph)'
  BY <1>2, <1>3, <1>4, SchedulerAssumption
     DEF Accounted, SchedulerIInv, GraphsInv, NotStarted, TypeOK, history
<1>7. disk' \in Graph /\ GraphInv(disk') /\ Accounted(disk)'
  BY <1>2, <1>3, <1>5, <1>6, DiskKeeps DEF SchedulerIInv, TypeOK, GraphsInv, history
<1>8. AttemptsSaved'
  BY <1>2, <1>3, SavedStays DEF SchedulerIInv, GraphsInv, history
<1>9. GraphsInv'
  BY <1>5, <1>6, <1>7, <1>8 DEF GraphsInv
<1>10. QED BY <1>1, <1>2, <1>3, <1>4, <1>7, <1>9, ApplyingKeeps

LEMMA ApplyKeeps == ASSUME SchedulerIInv, NEW n \in Node, Apply(n) PROVE SchedulerIInv'
  BY AppliedKeeps DEF Apply

LEMMA RetryKeeps == ASSUME SchedulerIInv, NEW n \in Node, Retry(n) PROVE SchedulerIInv'
  BY RetriedKeeps DEF Retry, MayRetry

(* The wait is over: the retry, or, when it was cancelled, the result.     *)
LEMMA WaitEndsKeeps == ASSUME SchedulerIInv, NEW n \in Node, WaitEnds(n) PROVE SchedulerIInv'
<1>1. pc = "wait" /\ pc' = "apply" /\ InTurn(n)
  BY DEF WaitEnds
<1>2. MayRetry(n)
  BY <1>1 DEF SchedulerIInv, BatchInv
<1>3. CASE Retried(n)
  BY <1>1, <1>2, <1>3, RetriedKeeps DEF MayRetry
<1>4. CASE Applied(n, result[n].status)
  BY <1>1, <1>4, AppliedKeeps
<1>5. QED BY <1>3, <1>4 DEF WaitEnds

(* A crash keeps what the file has, and what ran may run once more.        *)
LEMMA CrashAndResumeKeeps == ASSUME SchedulerIInv, CrashAndResume PROVE SchedulerIInv'
<1> USE DEF SchedulerIInv
<1>1. /\ disk' = disk /\ reason' = reason /\ runs' = runs /\ interrupts' = interrupts
      /\ graph' = Recovered(disk) /\ crashes' = crashes + 1 /\ crashes \in Nat
      /\ pc' = "start" /\ rest' = {} /\ changed' = FALSE /\ NoBatch
  BY DEF CrashAndResume, TypeOK
<1>2. /\ disk \in Graph /\ GraphInv(disk)
  BY DEF TypeOK, GraphsInv
<1>3. /\ graph' \in Graph /\ GraphInv(graph')
      /\ \A n \in Node : graph'.status[n] =
           IF disk.status[n] = "running" THEN "ready" ELSE disk.status[n]
      /\ graph'.attempts = disk.attempts /\ graph'.retries = disk.retries
      /\ graph'.spent = disk.spent
  BY <1>1, <1>2, RecoveryKeeps
<1>4. \A n \in Node : disk.attempts[n] \in Nat /\ disk.retries[n] \in Nat
  BY <1>2 DEF Graph
<1>5. Accounted(disk)'
  BY <1>1, <1>4 DEF GraphsInv, Accounted
<1>6. Accounted(graph)'
  <2>1. ASSUME NEW n \in Node
        PROVE  /\ graph'.attempts[n] <= crashes' + graph'.retries[n]
                    + (IF graph'.status[n] \in NotStarted THEN 0 ELSE 1)
               /\ graph'.retries[n] <= IF n \in RetryNodes THEN MaxAttempts - 1 ELSE 0
    <3>1. /\ disk.attempts[n] <= crashes + disk.retries[n]
                 + (IF disk.status[n] \in NotStarted THEN 0 ELSE 1)
          /\ disk.retries[n] <= IF n \in RetryNodes THEN MaxAttempts - 1 ELSE 0
      BY DEF GraphsInv, Accounted
    <3>2. QED BY <1>1, <1>3, <1>4, <3>1
  <2>2. QED BY <2>1 DEF Accounted
<1>7. AttemptsSaved'
  BY <1>1, <1>3 DEF GraphsInv, AttemptsSaved, ExecutionsPaidFor, Executions
<1>8. GraphsInv'
  BY <1>1, <1>2, <1>3, <1>5, <1>6, <1>7 DEF GraphsInv
<1>9. TypeOK'
  <2>1. crashes + 1 \in Nat
    BY <1>1
  <2>2. /\ runs \in [Node -> Nat] /\ interrupts \in Nat
        /\ reason \in {"none", "task_graph_deadlock"}
    BY DEF TypeOK
  <2>3. /\ todo' = {} /\ batch' = {} /\ leased' \in BOOLEAN /\ saving' \in BOOLEAN
        /\ result' \in [Node -> Result]
    BY <1>1, NoBatchType
  <2>4. disk' \in Graph /\ crashes' \in Nat
    BY <1>1, <1>2, <2>1
  <2>5. QED BY ONLY <1>1, <1>3, <2>2, <2>3, <2>4 DEF TypeOK
<1>10. BatchInv' /\ SweepInv' /\ NoDeadlock'
  BY <1>1, NoBatchType DEF BatchInv, SweepInv, NoDeadlock
<1>11. NoneOrphaned'
  BY <1>1, <1>3 DEF NoneOrphaned
<1>12. QED BY <1>8, <1>9, <1>10, <1>11

LEMMA StutterKeeps == ASSUME SchedulerIInv, UNCHANGED vars PROVE SchedulerIInv'
<1> USE DEF SchedulerIInv, vars, graphs, sweepVars, batchVars, history
<1>1. GraphsInv'
  BY SameGraph
<1>2. TypeOK'
  BY DEF TypeOK
<1>3. BatchInv'
  BY DEF BatchInv, AllHave, Unpaid, Isolated, InTurn, MayRetry
<1>4. NoneOrphaned' /\ SweepInv' /\ NoDeadlock'
  BY DEF NoneOrphaned, SweepInv, NoDeadlock
<1>5. QED BY <1>1, <1>2, <1>3, <1>4

LEMMA NextKeeps == SchedulerIInv /\ [Next]_vars => SchedulerIInv'
<1> SUFFICES ASSUME SchedulerIInv, [Next]_vars PROVE SchedulerIInv'
  OBVIOUS
<1>1. CASE Start \/ EndSweep \/ Deadlocked \/ SelectBatch
  BY <1>1, StartKeeps, EndSweepKeeps, DeadlockedKeeps, SelectBatchKeeps
<1>2. CASE EnterOperation \/ BeginWork \/ SnapshotFails \/ EndOperation \/ EndBatch
  BY <1>2, EnterOperationKeeps, BeginWorkKeeps, SnapshotFailsKeeps, EndOperationKeeps,
     EndBatchKeeps
<1>3. CASE \E contention \in BOOLEAN : RefuseLease(contention)
  BY <1>3, RefuseLeaseKeeps
<1>4. ASSUME NEW n \in Node, Visit(n) \/ Assess(n) \/ Admit(n) \/ StartLeaf(n)
      PROVE  SchedulerIInv'
  BY <1>4, VisitKeeps, AssessKeeps, AdmitKeeps, StartLeafKeeps
<1>5. ASSUME NEW n \in Node, Execute(n) \/ Apply(n) \/ Retry(n) \/ AwaitRetry(n) \/ WaitEnds(n)
      PROVE  SchedulerIInv'
  BY <1>5, ExecuteKeeps, ApplyKeeps, RetryKeeps, AwaitRetryKeeps, WaitEndsKeeps
<1>6. CASE CrashAndResume \/ Interrupt
  BY <1>6, CrashAndResumeKeeps, InterruptKeeps
<1>7. CASE UNCHANGED vars
  BY <1>7, StutterKeeps
<1>8. QED BY <1>1, <1>2, <1>3, <1>4, <1>5, <1>6, <1>7 DEF Next, Step

-----------------------------------------------------------------------------
(* What follows from the invariant.                                        *)

LEMMA InvExplainsRuns == SchedulerIInv => RunsExplained
<1> SUFFICES ASSUME SchedulerIInv, NEW n \in Node
             PROVE  runs[n] <= crashes + (IF n \in RetryNodes THEN MaxAttempts ELSE 1)
  BY DEF RunsExplained
<1>1. /\ runs[n] \in Nat /\ crashes \in Nat /\ disk.attempts[n] \in Nat
      /\ disk.retries[n] \in Nat
  BY DEF SchedulerIInv, TypeOK, Graph
<1>2. runs[n] <= disk.attempts[n]
  BY DEF SchedulerIInv, GraphsInv, AttemptsSaved, ExecutionsPaidFor
<1>3. /\ disk.attempts[n] <= crashes + disk.retries[n]
            + (IF disk.status[n] \in NotStarted THEN 0 ELSE 1)
      /\ disk.retries[n] <= IF n \in RetryNodes THEN MaxAttempts - 1 ELSE 0
  BY DEF SchedulerIInv, GraphsInv, Accounted
<1>4. QED BY <1>1, <1>2, <1>3, SchedulerAssumption

LEMMA InvOrdersTree == SchedulerIInv => DependenciesFirst
<1> SUFFICES ASSUME SchedulerIInv PROVE DependenciesFirst
  OBVIOUS
<1>1. ASSUME NEW g \in {graph, disk} PROVE g \in Graph /\ GraphInv(g)
  BY DEF SchedulerIInv, TypeOK, GraphsInv
<1>2. NothingTooEarly
  BY <1>1 DEF NothingTooEarly, GraphInv, NeedsFirst
<1>3. RootCompletedMeansAllCompleted
  BY <1>1, CompletionReachesLeaves DEF RootCompletedMeansAllCompleted
<1>4. QED BY <1>2, <1>3 DEF DependenciesFirst

(* SchedulerIInv is an invariant of the scheduler, with every crash and    *)
(* interrupt, and for every tree and budget.                               *)
THEOREM SchedulerInvariance == Spec => []SchedulerIInv
  BY InitIInv, NextKeeps, PTL DEF Spec

(* The budget of leaf executions and its two accounts, the leaves'         *)
(* attempts and the graph's leaf_executions, agree on disk before a leaf   *)
(* runs: SchedulerInv holds for every tree and policy.                     *)
THEOREM LeavesPaidFor == Spec => []SchedulerInv
<1>1. SchedulerIInv => SchedulerInv
  BY DEF SchedulerIInv, SchedulerInv, GraphsInv, AttemptsSaved
<1>2. QED BY <1>1, SchedulerInvariance, PTL

(* Crashes and the leaf's own retries account for every run of a leaf.     *)
THEOREM RunsAccountedFor == Spec => []RunsExplained
  BY InvExplainsRuns, SchedulerInvariance, PTL

(* Dependencies come first and a completed root stands on completed tasks. *)
THEOREM TreeInOrder == Spec => []DependenciesFirst
  BY InvOrdersTree, SchedulerInvariance, PTL

(* No sweep of _propagate ends with a failure in a graph that goes on.     *)
THEOREM FailureReachesRoot == Spec => []FailureEndsTheGraph
  BY SweepCarriesFailure, SchedulerInvariance, PTL

(* select_leaf_batch lets no two leaves run at once that clash or depend   *)
(* on one another.                                                         *)
THEOREM LeavesIsolated == Spec => []BatchIsolated
<1>1. SchedulerIInv => BatchIsolated
  BY DEF SchedulerIInv, BatchInv, Isolated, BatchIsolated
<1>2. QED BY <1>1, SchedulerInvariance, PTL

(* task_graph_deadlock is reached by no graph the scheduler builds or      *)
(* recovers, unless an exception left run() and its caller went on.        *)
THEOREM DeadlockOnlyAfterInterrupt == Spec => []NoDeadlock
<1>1. SchedulerIInv => NoDeadlock
  BY DEF SchedulerIInv
<1>2. QED BY <1>1, SchedulerInvariance, PTL

-----------------------------------------------------------------------------
(* Every step counts.                                                      *)

Advances ==
  \/ WorkLeft(graph') < WorkLeft(graph)
  \/ /\ WorkLeft(graph') = WorkLeft(graph)
     /\ \/ Phase' < Phase
        \/ Phase' = Phase /\ todo' \subseteq todo /\ todo' # todo

RetriesLeft(g) == \A n \in Node : MaxAttempts - g.retries[n] \in 1 .. MaxAttempts

LEMMA RanksToEnd ==
  /\ \A s \in Status \cup {"absent"} : ToEnd(s) \in 0 .. 4
  /\ \A s \in Terminal : ToEnd(s) = 0
  /\ ToEnd("absent") = 4 /\ ToEnd("pending") = 3 /\ ToEnd("ready") = 2
  /\ ToEnd("waiting") = 2 /\ ToEnd("running") = 1
  BY DEF ToEnd, Status, Terminal, Failed

LEMMA AheadType ==
  ASSUME NEW g \in Graph, RetriesLeft(g), NEW n \in Node
  PROVE  Ahead(g, n) \in 1 .. 2 * MaxAttempts + 4
<1>1. MaxAttempts \in Nat
  BY SchedulerAssumption
<1>2. ToEnd(g.status[n]) \in 0 .. 4
  <2>1. g.status[n] \in Status \cup {"absent"}
    BY DEF Graph
  <2>2. QED BY <2>1, RanksToEnd
<1>3. MaxAttempts - g.retries[n] \in 1 .. MaxAttempts
  BY DEF RetriesLeft
<1> DEFINE k == MaxAttempts - g.retries[n]
           r == ToEnd(g.status[n])
<1>4. Ahead(g, n) = r + 2 * k
  BY DEF Ahead
<1> HIDE DEF k, r
<1>5. k \in 1 .. MaxAttempts /\ r \in 0 .. 4
  BY <1>2, <1>3 DEF k, r
<1>6. QED BY <1>1, <1>4, <1>5

LEMMA StepsFinite == IsFiniteSet(Node \X (1 .. 2 * MaxAttempts + 4))
<1>1. 2 * MaxAttempts + 4 \in Int
  BY SchedulerAssumption
<1>2. IsFiniteSet(1 .. 2 * MaxAttempts + 4)
  BY <1>1, FS_Interval
<1>3. QED BY <1>2, SchedulerAssumption, FS_Product

(* Less work is left when one task has less before it and none has more.   *)
LEMMA LessWork ==
  ASSUME NEW g \in Graph, NEW h \in Graph, RetriesLeft(g), RetriesLeft(h),
         \A m \in Node : Ahead(h, m) <= Ahead(g, m),
         NEW n \in Node, Ahead(h, n) < Ahead(g, n)
  PROVE  WorkLeft(h) < WorkLeft(g)
<1> DEFINE Steps == 1 .. 2 * MaxAttempts + 4
           G == {s \in Node \X Steps : s[2] <= Ahead(g, s[1])}
           H == {s \in Node \X Steps : s[2] <= Ahead(h, s[1])}
<1>1. \A m \in Node : Ahead(g, m) \in Steps /\ Ahead(h, m) \in Steps
  BY AheadType
<1>2. IsFiniteSet(G)
  BY StepsFinite, FS_Subset
<1>3. H \subseteq G
  <2> SUFFICES ASSUME NEW s \in H PROVE s[2] <= Ahead(g, s[1])
    OBVIOUS
  <2>1. s[1] \in Node /\ s[2] \in Steps /\ s[2] <= Ahead(h, s[1])
    OBVIOUS
  <2>2. Ahead(h, s[1]) <= Ahead(g, s[1])
    BY <2>1
  <2>3. Ahead(h, s[1]) \in Steps /\ Ahead(g, s[1]) \in Steps
    BY <1>1, <2>1
  <2>4. QED BY <2>1, <2>2, <2>3
<1>4. <<n, Ahead(g, n)>> \in G \ H
  <2>1. Ahead(g, n) \in Steps /\ Ahead(h, n) \in Steps
    BY <1>1
  <2>2. QED BY <2>1
<1>5. WorkLeft(g) = Cardinality(G) /\ WorkLeft(h) = Cardinality(H)
  BY DEF WorkLeft
<1> HIDE DEF G, H
<1>6. H # G
  BY <1>4
<1>7. Cardinality(H) < Cardinality(G)
  BY <1>2, <1>3, <1>6, FS_Subset, FS_CardinalityType
<1>8. QED BY <1>5, <1>7

(* A task that goes to a status nearer to its end.                         *)
LEMMA MovedOn ==
  ASSUME NEW g \in Graph, NEW h \in Graph, RetriesLeft(g), NEW n \in Node,
         NEW s \in Status,
         h.status = [g.status EXCEPT ![n] = s], h.retries = g.retries,
         ToEnd(s) < ToEnd(g.status[n])
  PROVE  WorkLeft(h) < WorkLeft(g)
<1>1. RetriesLeft(h)
  BY DEF RetriesLeft
<1>2. \A m \in Node : h.status[m] = IF m = n THEN s ELSE g.status[m]
  BY DEF Graph
<1>3. ASSUME NEW m \in Node
      PROVE  /\ ToEnd(g.status[m]) \in Int /\ ToEnd(h.status[m]) \in Int
             /\ 2 * (MaxAttempts - g.retries[m]) \in Int
  <2>1. g.status[m] \in Status \cup {"absent"} /\ h.status[m] \in Status \cup {"absent"}
    BY DEF Graph
  <2>2. MaxAttempts - g.retries[m] \in Int
    BY DEF RetriesLeft
  <2>3. QED BY <2>1, <2>2, RanksToEnd
<1>4. ASSUME NEW m \in Node
      PROVE  /\ Ahead(h, m) <= Ahead(g, m)
             /\ m = n => Ahead(h, m) < Ahead(g, m)
  <2>1. /\ Ahead(g, m) = ToEnd(g.status[m]) + 2 * (MaxAttempts - g.retries[m])
        /\ Ahead(h, m) = ToEnd(h.status[m]) + 2 * (MaxAttempts - g.retries[m])
    BY DEF Ahead
  <2>2. /\ m # n => ToEnd(h.status[m]) = ToEnd(g.status[m])
        /\ m = n => ToEnd(h.status[m]) < ToEnd(g.status[m])
    BY <1>2
  <2>3. QED BY <1>3, <2>1, <2>2
<1>5. QED BY <1>1, <1>4, LessWork

(* The graph in memory never holds more retries than the policy allows.    *)
LEMMA RetriesKept == SchedulerIInv => graph \in Graph /\ RetriesLeft(graph)
<1> SUFFICES ASSUME SchedulerIInv PROVE graph \in Graph /\ RetriesLeft(graph)
  OBVIOUS
<1>1. graph \in Graph
  BY DEF SchedulerIInv, TypeOK
<1>2. ASSUME NEW n \in Node PROVE MaxAttempts - graph.retries[n] \in 1 .. MaxAttempts
  <2>1. graph.retries[n] \in Nat
    BY <1>1 DEF Graph
  <2>2. graph.retries[n] <= IF n \in RetryNodes THEN MaxAttempts - 1 ELSE 0
    BY DEF SchedulerIInv, GraphsInv, Accounted
  <2>3. QED BY <2>1, <2>2, SchedulerAssumption
<1>3. QED BY <1>1, <1>2 DEF RetriesLeft

LEMMA SetMovesOn ==
  ASSUME SchedulerIInv, NEW n \in Node, NEW s \in Status,
         graph' = Set(graph, n, s), ToEnd(s) < ToEnd(graph.status[n])
  PROVE  Advances
<1>1. graph \in Graph /\ RetriesLeft(graph)
  BY RetriesKept
<1>2. graph' \in Graph /\ graph'.status = [graph.status EXCEPT ![n] = s]
      /\ graph'.retries = graph.retries
  BY <1>1, SetIsMove DEF Moved
<1>3. QED BY <1>1, <1>2, MovedOn DEF Advances

(* From a status that is not an end to one that is.                        *)
LEMMA EndsTask ==
  ASSUME SchedulerIInv, NEW n \in Node, NEW s \in Terminal,
         graph.status[n] \notin Terminal, graph' = Set(graph, n, s)
  PROVE  Advances
<1>1. graph.status[n] \in Status \cup {"absent"}
  BY DEF SchedulerIInv, TypeOK, Graph
<1>2. ToEnd(graph.status[n]) \in 1 .. 4 /\ ToEnd(s) = 0
  BY <1>1, RanksToEnd DEF ToEnd, Status, Terminal, Failed
<1>3. s \in Status
  BY TerminalStatus
<1>4. ToEnd(s) < ToEnd(graph.status[n])
  BY <1>2
<1>5. QED BY <1>3, <1>4, SetMovesOn

LEMMA VisitAdvances == ASSUME SchedulerIInv, NEW n \in Node, Visit(n) PROVE Advances
<1>1. graph.status[n] \notin Terminal
  BY DEF Visit, Affected
<1>2. PICK s \in Terminal : graph' = Set(graph, n, s)
  BY DEF Visit, Visited, Terminal, Failed
<1>3. QED BY <1>1, <1>2, EndsTask

LEMMA DeadlockedAdvances == ASSUME SchedulerIInv, Deadlocked PROVE Advances
<1>1. graph.status[Root] \notin Terminal /\ graph' = Set(graph, Root, "blocked")
  BY DEF Deadlocked, Ended
<1>2. Root \in Node /\ "blocked" \in Terminal
  BY TreeFacts DEF Terminal, Failed
<1>3. QED BY <1>1, <1>2, EndsTask

(* A task is split once: its children are new.                             *)
LEMMA SplitAdvances ==
  ASSUME SchedulerIInv, NEW n \in Node,
         graph.status[n] = "pending", \A d \in Needs[n] : graph.status[d] = "completed",
         Offered[n] # {}, ~NoRoomFor(graph, n), graph' = Split(graph, n)
  PROVE  Advances
<1>1. graph \in Graph /\ RetriesLeft(graph) /\ GraphInv(graph)
  BY RetriesKept DEF SchedulerIInv, GraphsInv
<1>2. /\ graph' \in Graph
      /\ \A m \in Node : graph'.status[m] =
           IF m \in Offered[n] THEN "pending" ELSE IF m = n THEN "waiting" ELSE graph.status[m]
      /\ \A m \in Offered[n] : graph.status[m] = "absent"
  BY <1>1, SplitKeeps
<1>3. graph'.retries = graph.retries
  BY <1>1 DEF Split, Graph
<1>4. RetriesLeft(graph')
  BY <1>1, <1>3 DEF RetriesLeft
<1>5. ASSUME NEW m \in Node
      PROVE  /\ Ahead(graph', m) <= Ahead(graph, m)
             /\ m = n => Ahead(graph', m) < Ahead(graph, m)
  <2> DEFINE k == 2 * (MaxAttempts - graph.retries[m])
  <2>1. k \in Int
    <3>1. MaxAttempts - graph.retries[m] \in Int
      BY <1>1 DEF RetriesLeft
    <3>2. QED BY <3>1
  <2>2. Ahead(graph, m) = ToEnd(graph.status[m]) + k
        /\ Ahead(graph', m) = ToEnd(graph'.status[m]) + k
    BY <1>3 DEF Ahead
  <2> HIDE DEF k
  <2>3. ToEnd(graph.status[m]) \in Int
    <3>1. graph.status[m] \in Status \cup {"absent"}
      BY <1>1 DEF Graph
    <3>2. QED BY <3>1, RanksToEnd
  <2>4. n \notin Offered[n]
    BY TreeFacts
  <2>5. CASE m \in Offered[n]
    <3>1. ToEnd(graph.status[m]) = 4 /\ ToEnd(graph'.status[m]) = 3
      BY <1>2, <2>5, RanksToEnd
    <3>2. QED BY <2>1, <2>2, <2>4, <2>5, <3>1
  <2>6. CASE m = n
    <3>1. ToEnd(graph.status[m]) = 3 /\ ToEnd(graph'.status[m]) = 2
      BY <1>2, <2>4, <2>6, RanksToEnd
    <3>2. QED BY <2>1, <2>2, <3>1
  <2>7. CASE m # n /\ m \notin Offered[n]
    BY <1>2, <2>1, <2>2, <2>3, <2>7
  <2>8. QED BY <2>5, <2>6, <2>7
<1>6. QED BY <1>1, <1>2, <1>4, <1>5, LessWork DEF Advances

LEMMA AssessAdvances == ASSUME SchedulerIInv, NEW n \in Node, Assess(n) PROVE Advances
<1>1. /\ graph.status[n] = "pending"
      /\ \A d \in Needs[n] : graph.status[d] = "completed"
      /\ graph' \in Assessed(graph, n)
  BY DEF Assess, ToAssess, Candidates
<1>2. CASE graph' = Split(graph, n) /\ Offered[n] # {} /\ ~NoRoomFor(graph, n)
  BY <1>1, <1>2, SplitAdvances
<1>3. CASE \E s \in {"ready", "failed", "blocked"} : graph' = Set(graph, n, s)
  <2>1. PICK s \in {"ready", "failed", "blocked"} : graph' = Set(graph, n, s)
    BY <1>3
  <2>2. s \in Status /\ ToEnd(s) < ToEnd(graph.status[n])
    BY <1>1, RanksToEnd DEF Status, Terminal, Failed
  <2>3. QED BY <2>1, <2>2, SetMovesOn
<1>4. QED BY <1>1, <1>2, <1>3 DEF Assessed

(* An admitted leaf leaves the loop over the batch shorter.                *)
LEMMA AdmitAdvances == ASSUME SchedulerIInv, NEW n \in Node, Admit(n) PROVE Advances
<1>1. /\ pc = "admit" /\ pc' = "admit" /\ n \in todo /\ todo' = todo \ {n}
      /\ \/ batch' = batch \cup {n} /\ graph' = graph
         \/ graph' = Set(graph, n, "blocked")
  BY DEF Admit, IsFirst, graphs
<1>2. CASE graph' = Set(graph, n, "blocked")
  <2>1. graph.status[n] \notin Terminal /\ "blocked" \in Terminal
    BY <1>1 DEF SchedulerIInv, BatchInv, AllHave, Terminal, Failed
  <2>2. QED BY <1>2, <2>1, EndsTask
<1>3. CASE batch' = batch \cup {n} /\ graph' = graph
  <2>1. Phase = 5 /\ Phase' = 5
    BY <1>1, <1>3 DEF Phase
  <2>2. QED BY <1>1, <1>3, <2>1 DEF Advances
<1>4. QED BY <1>1, <1>2, <1>3

LEMMA StartLeafAdvances ==
  ASSUME SchedulerIInv, NEW n \in Node, StartLeaf(n) PROVE Advances
<1>1. graph.status[n] = "ready"
  BY DEF StartLeaf, IsFirst, SchedulerIInv, BatchInv, AllHave
<1>2. CASE graph' = Set(graph, n, "blocked")
  <2>1. graph.status[n] \notin Terminal /\ "blocked" \in Terminal
    BY <1>1 DEF Terminal, Failed
  <2>2. QED BY <1>2, <2>1, EndsTask
<1>3. CASE graph' = [graph EXCEPT !.status[n] = "running",
                                  !.attempts[n] = @ + 1, !.spent = @ + 1]
  <2>1. graph \in Graph /\ RetriesLeft(graph)
    BY RetriesKept
  <2>2. graph' \in Graph /\ graph'.status = [graph.status EXCEPT ![n] = "running"]
        /\ graph'.retries = graph.retries
    <3>1. graph' = Begun(graph, n)
      BY <1>3 DEF Begun
    <3>2. QED BY <2>1, <3>1, StartedGraph
  <2>3. "running" \in Status /\ ToEnd("running") < ToEnd(graph.status[n])
    BY <1>1, RanksToEnd DEF Status
  <2>4. QED BY <2>1, <2>2, <2>3, MovedOn DEF Advances
<1>4. QED BY <1>2, <1>3 DEF StartLeaf

(* A result ends its leaf.                                                 *)
LEMMA AppliedAdvances ==
  ASSUME SchedulerIInv, NEW n \in Node, pc \in {"apply", "wait"}, InTurn(n),
         Applied(n, result[n].status)
  PROVE  Advances
<1>1. graph.status[n] \notin Terminal
  BY InTurnFacts DEF Terminal, Failed
<1>2. result[n].status \in Terminal
  BY DEF SchedulerIInv, TypeOK, Result
<1>3. graph' = Set(graph, n, result[n].status)
  BY DEF Applied
<1>4. QED BY <1>1, <1>2, <1>3, EndsTask

(* A retry costs more than what it gives back.                             *)
LEMMA RetriedAdvances ==
  ASSUME SchedulerIInv, NEW n \in Node, pc \in {"apply", "wait"}, InTurn(n),
         MayRetry(n), Retried(n)
  PROVE  Advances
<1>1. graph \in Graph /\ RetriesLeft(graph)
  BY RetriesKept
<1>2. graph.status[n] \in {"ready", "running"} /\ graph.retries[n] < MaxAttempts - 1
  BY InTurnFacts DEF MayRetry
<1>3. /\ graph' \in Graph /\ graph'.status = [graph.status EXCEPT ![n] = "ready"]
      /\ graph'.retries = [graph.retries EXCEPT ![n] = @ + 1]
  <2>1. graph' = Again(graph, n)
    BY DEF Retried, Again
  <2>2. QED BY <1>1, <2>1, AgainGraph
<1>4. /\ \A m \in Node : graph.retries[m] \in Nat
      /\ \A m \in Node \ {n} : /\ graph'.status[m] = graph.status[m]
                               /\ graph'.retries[m] = graph.retries[m]
      /\ graph'.status[n] = "ready" /\ graph'.retries[n] = graph.retries[n] + 1
  BY <1>1, <1>3 DEF Graph
<1>5. MaxAttempts \in Nat
  BY SchedulerAssumption
<1>6. RetriesLeft(graph')
  <2>1. ASSUME NEW m \in Node PROVE MaxAttempts - graph'.retries[m] \in 1 .. MaxAttempts
    <3>1. CASE m = n
      BY <1>2, <1>4, <1>5, <3>1
    <3>2. CASE m # n
      BY <1>1, <1>4, <3>2 DEF RetriesLeft
    <3>3. QED BY <3>1, <3>2
  <2>2. QED BY <2>1 DEF RetriesLeft
<1>7. Ahead(graph', n) < Ahead(graph, n)
  <2>1. Ahead(graph', n) = 2 + 2 * (MaxAttempts - (graph.retries[n] + 1))
    BY <1>4, RanksToEnd DEF Ahead
  <2>2. ToEnd(graph.status[n]) \in 1 .. 2
    BY <1>2, RanksToEnd
  <2>3. Ahead(graph, n) = ToEnd(graph.status[n]) + 2 * (MaxAttempts - graph.retries[n])
    BY DEF Ahead
  <2> DEFINE r == graph.retries[n]
             e == ToEnd(graph.status[n])
  <2>4. r \in Nat /\ e \in 1 .. 2
    BY <1>4, <2>2
  <2> HIDE DEF r, e
  <2>5. 2 + 2 * (MaxAttempts - (r + 1)) < e + 2 * (MaxAttempts - r)
    BY <1>5, <2>4
  <2>6. QED BY <2>1, <2>3, <2>5 DEF r, e
<1>8. ASSUME NEW m \in Node \ {n} PROVE Ahead(graph', m) <= Ahead(graph, m)
  <2>1. Ahead(graph', m) = Ahead(graph, m)
    BY <1>4 DEF Ahead
  <2>2. Ahead(graph, m) \in Int
    BY <1>1, AheadType
  <2>3. QED BY <2>1, <2>2
<1>9. \A m \in Node : Ahead(graph', m) <= Ahead(graph, m)
  <2>1. Ahead(graph', n) \in Int /\ Ahead(graph, n) \in Int
    BY <1>1, <1>3, <1>6, AheadType
  <2>2. QED BY <1>7, <1>8, <2>1
<1>10. QED BY <1>1, <1>3, <1>6, <1>7, <1>9, LessWork DEF Advances

(* The steps that go on in the loop.                                       *)
LEMMA LoopAdvances ==
  ASSUME SchedulerIInv,
         Start \/ EndSweep \/ SelectBatch \/ EnterOperation \/ BeginWork
           \/ EndOperation \/ EndBatch
           \/ (\E contention \in BOOLEAN : RefuseLease(contention))
           \/ (\E n \in Node : AwaitRetry(n))
  PROVE  Advances
<1> SUFFICES Phase' < Phase /\ graph' = graph
  BY DEF Advances
<1>1. CASE Start
  <2>1. graph' = graph /\ pc = "start" /\ pc' \in {"done", "sweep"}
    BY <1>1 DEF Start, Loop
  <2>2. Phase = 12 /\ Phase' \in 0 .. 7
    BY <2>1 DEF Phase
  <2>3. QED BY <2>1, <2>2
<1>2. CASE EndSweep
  <2>1. /\ graph' = graph /\ pc = "sweep"
        /\ pc' = "done" \/ (pc' = "sweep" /\ changed /\ ~ changed')
    BY <1>2 DEF EndSweep, SweepOver, Loop, graphs
  <2>2. Phase \in 6 .. 7
    BY <2>1 DEF Phase
  <2>3. CASE pc' = "done"
    <3>1. Phase' = 0
      BY <2>3 DEF Phase
    <3>2. QED BY <2>1, <2>2, <3>1
  <2>4. CASE pc' = "sweep" /\ changed /\ ~ changed'
    <3>1. Phase' = 6 /\ Phase = 7
      BY <2>1, <2>4 DEF Phase
    <3>2. QED BY <2>1, <3>1
  <2>5. QED BY <2>1, <2>3, <2>4
<1>3. CASE SelectBatch
  <2>1. graph' = graph /\ pc = "sweep" /\ pc' = "admit" /\ batch' = batch
    BY <1>3 DEF SelectBatch, SweepOver, graphs
  <2>2. todo' # {}
    BY <1>3 DEF SelectBatch, IsBatch
  <2>3. Phase \in 6 .. 7
    BY <2>1 DEF Phase
  <2>4. Phase' = 5
    BY <2>1, <2>2 DEF Phase
  <2>5. QED BY <2>1, <2>3, <2>4
<1>4. CASE EnterOperation
  <2>1. /\ graph' = graph /\ pc = "admit" /\ todo = {} /\ pc' = "begin"
        /\ todo' = batch /\ batch' = {}
    BY <1>4 DEF EnterOperation
  <2>2. Phase = IF batch = {} THEN 11 ELSE 5
    BY <2>1 DEF Phase
  <2>3. Phase' = IF batch = {} THEN 10 ELSE 4
    BY <2>1 DEF Phase
  <2>4. QED BY <2>1, <2>2, <2>3
<1>5. CASE BeginWork
  <2>1. /\ graph' = graph /\ pc = "begin" /\ todo = {} /\ pc' = "work"
        /\ todo' = batch /\ batch' = batch
    BY <1>5 DEF BeginWork, graphs
  <2>2. Phase = IF batch = {} THEN 10 ELSE 4
    BY <2>1 DEF Phase
  <2>3. Phase' = IF batch = {} THEN 9 ELSE 3
    BY <2>1 DEF Phase
  <2>4. QED BY <2>1, <2>2, <2>3
<1>6. CASE EndOperation
  <2>1. graph' = graph /\ pc = "work" /\ todo = {} /\ pc' = "apply" /\ todo' = batch
    BY <1>6 DEF EndOperation, graphs
  <2>2. Phase = IF batch = {} THEN 9 ELSE 3
    BY <2>1 DEF Phase
  <2>3. Phase' = IF batch = {} THEN 8 ELSE 2
    BY <2>1 DEF Phase
  <2>4. QED BY <2>1, <2>2, <2>3
<1>7. CASE EndBatch
  <2>1. /\ graph' = graph /\ pc = "apply" /\ todo = {} /\ pc' \in {"done", "sweep"}
        /\ changed' = FALSE
    BY <1>7 DEF EndBatch, Loop
  <2>2. Phase = 8
    BY <2>1 DEF Phase
  <2>3. Phase' \in {0, 6}
    BY <2>1 DEF Phase
  <2>4. QED BY <2>1, <2>2, <2>3
<1>8. ASSUME NEW contention \in BOOLEAN, RefuseLease(contention)
      PROVE  Phase' < Phase /\ graph' = graph
  <2>1. /\ graph' = graph /\ pc = "admit" /\ todo = {} /\ pc' = "apply"
        /\ todo' = batch /\ batch # {}
    BY <1>8 DEF RefuseLease, NeedsLease, graphs
  <2>2. Phase = 5 /\ Phase' = 2
    BY <2>1 DEF Phase
  <2>3. QED BY <2>1, <2>2
<1>9. ASSUME NEW n \in Node, AwaitRetry(n) PROVE Phase' < Phase /\ graph' = graph
  <2>1. graph' = graph /\ pc = "apply" /\ pc' = "wait" /\ InTurn(n)
    BY <1>9 DEF AwaitRetry
  <2>2. todo # {}
    BY <2>1, InTurnFacts
  <2>3. Phase = 2 /\ Phase' = 1
    BY <2>1, <2>2 DEF Phase
  <2>4. QED BY <2>1, <2>3
<1>10. QED BY <1>1, <1>2, <1>3, <1>4, <1>5, <1>6, <1>7, <1>8, <1>9

(* The steps that treat leaves of a batch.                                 *)
LEMMA WorkAdvances ==
  ASSUME SchedulerIInv, SnapshotFails \/ (\E n \in Node : Execute(n))
  PROVE  Advances
<1>1. /\ pc = "work" /\ pc' = "work" /\ graph' = graph /\ batch' = batch
      /\ todo' \subseteq todo /\ todo' # todo /\ batch # {}
  <2>1. CASE SnapshotFails
    <3>1. batch # {}
      <4>1. Cardinality(batch) > 1
        BY <2>1 DEF SnapshotFails
      <4>2. Cardinality({}) = 0
        BY FS_EmptySet
      <4>3. QED BY <4>1, <4>2
    <3>2. QED BY <2>1, <3>1 DEF SnapshotFails, graphs
  <2>2. ASSUME NEW n \in Node, Execute(n)
        PROVE  /\ pc = "work" /\ pc' = "work" /\ graph' = graph /\ batch' = batch
               /\ todo' \subseteq todo /\ todo' # todo /\ batch # {}
    BY <2>2 DEF Execute, graphs, SchedulerIInv, BatchInv
  <2>3. QED BY <2>1, <2>2
<1>2. Phase = 3 /\ Phase' = 3
  BY <1>1 DEF Phase
<1>3. QED BY <1>1, <1>2 DEF Advances

LEMMA StepAdvances == ASSUME SchedulerIInv, Step PROVE Advances
<1>1. CASE \/ Start \/ EndSweep \/ SelectBatch \/ EnterOperation \/ BeginWork
           \/ EndOperation \/ EndBatch
           \/ \E contention \in BOOLEAN : RefuseLease(contention)
  BY <1>1, LoopAdvances
<1>2. CASE Deadlocked
  BY <1>2, DeadlockedAdvances
<1>3. CASE SnapshotFails
  BY <1>3, WorkAdvances
<1>4. ASSUME NEW n \in Node, Visit(n) \/ Assess(n) \/ Admit(n) \/ StartLeaf(n)
      PROVE  Advances
  BY <1>4, VisitAdvances, AssessAdvances, AdmitAdvances, StartLeafAdvances
<1>5. ASSUME NEW n \in Node, Execute(n) PROVE Advances
  BY <1>5, WorkAdvances
<1>6. ASSUME NEW n \in Node, AwaitRetry(n) PROVE Advances
  BY <1>6, LoopAdvances
<1>7. ASSUME NEW n \in Node, Apply(n) PROVE Advances
  BY <1>7, AppliedAdvances DEF Apply
<1>8. ASSUME NEW n \in Node, Retry(n) PROVE Advances
  BY <1>8, RetriedAdvances DEF Retry
<1>9. ASSUME NEW n \in Node, WaitEnds(n) PROVE Advances
  <2>1. pc = "wait" /\ InTurn(n) /\ MayRetry(n)
    BY <1>9 DEF WaitEnds, SchedulerIInv, BatchInv
  <2>2. QED BY <1>9, <2>1, AppliedAdvances, RetriedAdvances DEF WaitEnds
<1>10. QED BY <1>1, <1>2, <1>3, <1>4, <1>5, <1>6, <1>7, <1>8, <1>9 DEF Step

LEMMA WorkLeftType == SchedulerIInv => WorkLeft(graph) \in Nat /\ Phase \in 0 .. 12
<1>1. WorkLeft(graph) \in Nat
  BY StepsFinite, FS_Subset, FS_CardinalityType DEF WorkLeft
<1>2. Phase \in 0 .. 12
  BY DEF Phase
<1>3. QED BY <1>1, <1>2

(* The work left, where the loop is and the leaves of the batch still to   *)
(* treat, in this order, only ever go down while run() goes on: for every  *)
(* tree, policy and budget it takes finitely many steps, whatever leaves,  *)
(* leases and waits answer.                                                *)
THEOREM EveryStepCounts ==
  Spec => [](WorkLeft(graph) \in Nat /\ Phase \in 0 .. 12) /\ RunAdvances
<1>1. SchedulerIInv /\ [Next]_vars =>
        [\/ crashes' # crashes \/ interrupts' # interrupts
         \/ WorkLeft(graph') < WorkLeft(graph)
         \/ /\ WorkLeft(graph') = WorkLeft(graph)
            /\ \/ Phase' < Phase
               \/ Phase' = Phase /\ todo' \subseteq todo /\ todo' # todo]_vars
  <2> SUFFICES ASSUME SchedulerIInv, Next
               PROVE  crashes' # crashes \/ interrupts' # interrupts \/ Advances
    BY DEF Advances
  <2>1. CASE Step
    BY <2>1, StepAdvances
  <2>2. CASE CrashAndResume
    BY <2>2 DEF CrashAndResume, SchedulerIInv, TypeOK
  <2>3. CASE Interrupt
    BY <2>3 DEF Interrupt, SchedulerIInv, TypeOK
  <2>4. QED BY <2>1, <2>2, <2>3 DEF Next
<1>2. QED BY <1>1, WorkLeftType, SchedulerInvariance, PTL DEF Spec, RunAdvances
=============================================================================
