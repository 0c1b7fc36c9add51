---------------------------- MODULE TaskScheduler ---------------------------
(***************************************************************************)
(* TaskScheduler.run: decompose a goal into a tree of tasks, run the ready *)
(* leaves in batches, retry, propagate failures and completions upwards,   *)
(* save the graph after each change and resume it after a crash.  What the *)
(* scheduler calls (decomposer, resolver, leaf executor, verifier, lease   *)
(* manager, retry waiter) answers nondeterministically.                    *)
(***************************************************************************)
EXTENDS Integers, FiniteSets

CONSTANTS
  Node,          \* every task a decomposer may propose
  Root,          \* graph.root_id
  Offered,       \* task -> the children it may be split into
  Needs,         \* task -> the siblings it depends on (TaskNode.dependencies)
  Depth,         \* task -> its depth
  IdRank,        \* task -> rank of its id: the order of ties
  SpecRank,      \* task -> place in the decomposer's list of children
  MaxNodes, MaxDepth, MaxLeafExecutions,           \* TaskBudget
  MaxParallel, ParallelSafe, Claims,               \* TaskSchedulerPolicy
  Leasing,       \* is there a resource_lease_manager
  RetryNodes,    \* tasks with an idempotency key in the retry policy
  MaxAttempts,   \* max_attempts_per_leaf
  MaxCrashes,    \* bound: crashes in a behaviour
  MaxInterrupts  \* bound: run() left by an exception, called again

Failed    == {"failed", "blocked"}
Terminal  == Failed \cup {"completed"}
Status    == {"pending", "ready", "running", "waiting"} \cup Terminal

ASSUME SchedulerAssumption ==
  /\ Root \in Node /\ IsFiniteSet(Node)
  /\ Offered \in [Node -> SUBSET Node] /\ Needs \in [Node -> SUBSET Node]
  /\ Depth \in [Node -> Nat] /\ Depth[Root] = 0 /\ Needs[Root] = {}
  /\ IdRank \in [Node -> Nat] /\ SpecRank \in [Node -> Nat]
  /\ \A m, n \in Node : m # n => IdRank[m] # IdRank[n]
  /\ \A n \in Node : /\ \A k \in Offered[n] : /\ Depth[k] = Depth[n] + 1
                                             /\ Needs[k] \subseteq Offered[n] \ {k}
                     /\ \A m \in Node \ {n} : Offered[m] \cap Offered[n] = {}
                     /\ \A j, k \in Offered[n] : /\ SpecRank[k] < Cardinality(Offered[n])
                                                 /\ j # k => SpecRank[j] # SpecRank[k]
  /\ MaxNodes \in Nat \ {0} /\ MaxDepth \in Nat /\ MaxLeafExecutions \in Nat \ {0}
  /\ MaxParallel \in Nat \ {0} /\ ParallelSafe \subseteq Node
  /\ Leasing \in BOOLEAN /\ RetryNodes \subseteq Node
  /\ MaxAttempts \in Nat \ {0} /\ MaxCrashes \in Nat /\ MaxInterrupts \in Nat

(* _validate_dependency_graph lets no cycle of dependencies pass: in every  *)
(* group of tasks there is one that needs none of the others.              *)
ASSUME NeedsAssumption ==
  \A S \in SUBSET Node : S # {} => \E n \in S : Needs[n] \cap S = {}

VARIABLES
  graph,    \* the TaskGraph in memory
  disk,     \* the TaskGraph the store saved last
  pc,       \* where run() is
  rest,     \* _propagate: nodes the sweep has still to visit
  changed,  \* _propagate: did the sweep change anything
  todo,     \* nodes of the batch the present loop has still to treat
  batch,    \* nodes of the batch that passed the loops before
  result,   \* node -> LeafExecutionResult of this batch
  leased,   \* does run_leased_operation hold a lease for this batch
  saving,   \* does _apply_leaf_result save after each node
  reason,   \* "task_graph_deadlock" once the loop found nothing to do
  runs,     \* history: node -> calls of LeafExecutor.execute
  crashes,  \* history: crashes so far
  interrupts \* history: runs left by an exception so far

graphs    == <<graph, disk>>
sweepVars == <<rest, changed>>
batchVars == <<todo, batch, result, leased, saving>>
history   == <<runs, crashes, interrupts>>
vars == <<graphs, pc, sweepVars, batchVars, reason, history>>

-----------------------------------------------------------------------------
(* Graphs.  "absent" is a task nobody has proposed yet.                    *)

Graph == [status : [Node -> Status \cup {"absent"}], place : [Node -> Nat],
          attempts : [Node -> Nat], retries : [Node -> Nat], spent : Nat]

Result   == [status : Terminal, retryable : BOOLEAN]
NoResult == [status |-> "completed", retryable |-> FALSE]

Present(g)      == {n \in Node : g.status[n] # "absent"}
ChildrenIn(g, n) == Offered[n] \cap Present(g)
Set(g, n, s)    == [g EXCEPT !.status[n] = s]
Ended(g)        == g.status[Root] \in Terminal

(* _candidate_nodes, in the order of (depth, id).                          *)
CandidatesIgnoringNeeds(g) == {n \in Node : g.status[n] \in {"pending", "ready"}}

Candidates(g) ==
  {n \in Node : /\ g.status[n] \in {"pending", "ready"}
                /\ \A d \in Needs[n] : g.status[d] = "completed"}

Before(m, n) == \/ Depth[m] < Depth[n]
                \/ Depth[m] = Depth[n] /\ IdRank[m] < IdRank[n]
IsFirst(n, S) == n \in S /\ \A m \in S \ {n} : Before(n, m)
IsNextId(n, S) == n \in S /\ \A m \in S \ {n} : IdRank[n] < IdRank[m]

(* select_pending_candidate: alone, the first candidate if it is pending;  *)
(* with parallelism, pending nodes before any ready one.                   *)
ToAssess(g) ==
  LET C == Candidates(g)
      P == {n \in C : g.status[n] = "pending"}
  IN  {n \in P : IF MaxParallel = 1 THEN IsFirst(n, C) ELSE IsFirst(n, P)}

Clash(c, d) == c.resource = d.resource /\ (c.mode = "write" \/ d.mode = "write")

AllowsParallel(n) == MaxParallel > 1 /\ n \in ParallelSafe

(* select_leaf_batch: the first ready leaf, and, if it may run in parallel,*)
(* each later one that may too and clashes with none picked before it.     *)
JoinsBesideTheFirst(n, before) ==
  /\ AllowsParallel(n)
  /\ Cardinality(before) < MaxParallel
  /\ \A m \in before : IsFirst(m, before) =>
       \A c \in Claims[m], d \in Claims[n] : ~Clash(c, d)

Joins(n, before) ==
  /\ AllowsParallel(n)
  /\ Cardinality(before) < MaxParallel
  /\ \A m \in before : \A c \in Claims[m], d \in Claims[n] : ~Clash(c, d)

IsBatch(S, g) ==
  LET R == {n \in Candidates(g) : g.status[n] = "ready"}
  IN  \E first \in R :
        /\ IsFirst(first, R)
        /\ S \subseteq R /\ first \in S
        /\ \A n \in R \ {first} :
             n \in S <=> /\ AllowsParallel(first)
                         /\ Joins(n, {m \in S : Before(m, n)})

(* _propagate sorts by depth, deepest first; ties stay in dict order.      *)
SweepsRootFirst(g, m, n) ==
  \/ Depth[m] < Depth[n]
  \/ Depth[m] = Depth[n] /\ g.place[m] < g.place[n]

SweepsBefore(g, m, n) ==
  \/ Depth[m] > Depth[n]
  \/ Depth[m] = Depth[n] /\ g.place[m] < g.place[n]

HasStatus(g, S, statuses) == \E n \in S : g.status[n] \in statuses

(* Nodes a visit of the sweep would change.                                *)
DependencyFailed(g, n) == HasStatus(g, Needs[n], Failed)
ChildFailed(g, n)      == HasStatus(g, ChildrenIn(g, n), Failed)
ChildrenDone(g, n) == /\ ChildrenIn(g, n) # {}
                      /\ \A k \in ChildrenIn(g, n) : g.status[k] = "completed"
Affected(g, n) ==
  /\ g.status[n] \notin Terminal \cup {"absent"}
  /\ DependencyFailed(g, n) \/ ChildFailed(g, n) \/ ChildrenDone(g, n)

-----------------------------------------------------------------------------
FreshGraph == [status   |-> [n \in Node |-> IF n = Root THEN "pending" ELSE "absent"],
               place    |-> [n \in Node |-> 0],
               attempts |-> [n \in Node |-> 0],
               retries  |-> [n \in Node |-> 0],
               spent    |-> 0]

Init ==
  /\ graph = FreshGraph /\ disk = FreshGraph
  /\ pc = "start"
  /\ rest = {} /\ changed = FALSE
  /\ todo = {} /\ batch = {} /\ leased = FALSE /\ saving = TRUE
  /\ result = [n \in Node |-> NoResult]
  /\ reason = "none"
  /\ runs = [n \in Node |-> 0] /\ crashes = 0 /\ interrupts = 0

SaveIt == disk' = graph'

(* The head of the while loop, with graph g.                               *)
Loop(g) == /\ pc' = IF Ended(g) THEN "done" ELSE "sweep"
           /\ rest' = IF Ended(g) THEN {} ELSE Present(g)
           /\ changed' = FALSE

NoBatch == /\ todo' = {} /\ batch' = {} /\ leased' = FALSE /\ saving' = TRUE
           /\ result' = [n \in Node |-> NoResult]

Start ==
  /\ pc = "start"
  /\ UNCHANGED graph /\ SaveIt
  /\ Loop(graph)
  /\ UNCHANGED <<batchVars, reason, history>>

(* One node of the sweep; nodes it would leave alone are passed over.      *)
Visited(n) ==
  IF DependencyFailed(graph, n) \/ ChildFailed(graph, n)
  THEN {Set(graph, n, "blocked")}
  ELSE {Set(graph, n, s) : s \in Terminal}

Visit(n) ==
  /\ pc = "sweep"
  /\ n \in rest /\ Affected(graph, n)
  /\ \A m \in rest : SweepsBefore(graph, m, n) => ~Affected(graph, m)
  /\ graph' \in Visited(n) /\ SaveIt
  /\ rest' = {m \in rest : SweepsBefore(graph, n, m)}
  /\ changed' = TRUE
  /\ UNCHANGED <<pc, batchVars, reason, history>>

SweepOver == pc = "sweep" /\ \A n \in rest : ~Affected(graph, n)

EndSweep ==
  /\ SweepOver
  /\ Ended(graph) \/ (Candidates(graph) = {} /\ changed)
  /\ Loop(graph)
  /\ UNCHANGED <<graphs, batchVars, reason, history>>

Deadlocked ==
  /\ SweepOver /\ ~Ended(graph)
  /\ Candidates(graph) = {} /\ ~changed
  /\ graph' = Set(graph, Root, "blocked") /\ SaveIt
  /\ reason' = "task_graph_deadlock"
  /\ Loop(graph')
  /\ UNCHANGED <<batchVars, history>>

(* _assess_node.  Errors, contradictory contracts and invalid lists of     *)
(* children fail the task; no children or no budget for them block it.     *)
Split(g, n) ==
  LET Kids == Offered[n]
      size == Cardinality(Present(g))
  IN  [g EXCEPT !.status = [m \in Node |-> IF m \in Kids THEN "pending"
                                          ELSE IF m = n THEN "waiting" ELSE @[m]],
                !.place  = [m \in Node |-> IF m \in Kids THEN size + SpecRank[m]
                                          ELSE @[m]]]

NoRoomFor(g, n) == \/ Depth[n] >= MaxDepth
                   \/ Cardinality(Present(g)) + Cardinality(Offered[n]) > MaxNodes

Assessed(g, n) ==
  {Set(g, n, "ready"), Set(g, n, "failed"), Set(g, n, "blocked")}
    \cup (IF Offered[n] = {} \/ NoRoomFor(g, n) THEN {} ELSE {Split(g, n)})

Assess(n) ==
  /\ SweepOver /\ ~Ended(graph)
  /\ n \in ToAssess(graph)
  /\ graph' \in Assessed(graph, n) /\ SaveIt
  /\ Loop(graph')
  /\ UNCHANGED <<batchVars, reason, history>>

-----------------------------------------------------------------------------
(* _execute_ready_leaves, loop by loop.                                    *)

SelectBatch ==
  /\ SweepOver /\ ~Ended(graph)
  /\ Candidates(graph) # {} /\ ToAssess(graph) = {}
  /\ \E S \in SUBSET Candidates(graph) : IsBatch(S, graph) /\ todo' = S
  /\ pc' = "admit"
  /\ rest' = {} /\ changed' = FALSE
  /\ UNCHANGED <<graphs, batch, result, leased, saving, reason, history>>

(* _admit_leaf: capabilities resolved (acquired if need be), or blocked.   *)
Admit(n) ==
  /\ pc = "admit" /\ IsFirst(n, todo)
  /\ todo' = todo \ {n}
  /\ \/ batch' = batch \cup {n} /\ UNCHANGED graphs
     \/ graph' = Set(graph, n, "blocked") /\ SaveIt /\ UNCHANGED batch
  /\ UNCHANGED <<pc, sweepVars, result, leased, saving, reason, history>>

NeedsLease == Leasing /\ \E n \in batch : Claims[n] # {}

(* run_leased_operation up to operation(): with a lease its event is saved.*)
EnterOperation ==
  /\ pc = "admit" /\ todo = {}
  /\ pc' = "begin"
  /\ todo' = batch /\ batch' = {}
  /\ UNCHANGED graph
  /\ leased' = NeedsLease
  /\ IF NeedsLease THEN SaveIt ELSE UNCHANGED disk
  /\ UNCHANGED <<sweepVars, result, saving, reason, history>>

(* No lease (contended), or an error before operation(): the nodes go      *)
(* through _block_for_resource_lease, which saves at the end.              *)
RefuseLease(contention) ==
  /\ pc = "admit" /\ todo = {} /\ NeedsLease
  /\ pc' = "apply"
  /\ todo' = batch /\ saving' = FALSE
  /\ result' = [n \in Node |-> [status |-> "blocked",
                                retryable |-> contention /\ n \in RetryNodes]]
  /\ UNCHANGED <<graphs, sweepVars, batch, leased, reason, history>>

(* _start_leaf: budget reserved and saved before anything runs.            *)
StartLeafUnsaved(n) ==
  /\ pc = "begin" /\ IsFirst(n, todo)
  /\ todo' = todo \ {n}
  /\ IF graph.spent >= MaxLeafExecutions
     THEN graph' = Set(graph, n, "blocked") /\ UNCHANGED batch
     ELSE /\ graph' = [graph EXCEPT !.status[n] = "running",
                                    !.attempts[n] = @ + 1, !.spent = @ + 1]
          /\ batch' = batch \cup {n}
  /\ UNCHANGED <<disk, pc, sweepVars, result, leased, saving, reason, history>>

StartLeaf(n) ==
  /\ pc = "begin" /\ IsFirst(n, todo)
  /\ todo' = todo \ {n}
  /\ IF graph.spent >= MaxLeafExecutions
     THEN graph' = Set(graph, n, "blocked") /\ UNCHANGED batch
     ELSE /\ graph' = [graph EXCEPT !.status[n] = "running",
                                    !.attempts[n] = @ + 1, !.spent = @ + 1]
          /\ batch' = batch \cup {n}
  /\ SaveIt
  /\ UNCHANGED <<pc, sweepVars, result, leased, saving, reason, history>>

BeginWork ==
  /\ pc = "begin" /\ todo = {}
  /\ pc' = "work"
  /\ todo' = batch
  /\ UNCHANGED <<graphs, sweepVars, batch, result, leased, saving, reason, history>>

(* A worker thread executes its leaf; an exception is a failed result.     *)
Execute(n) ==
  /\ pc = "work" /\ n \in todo
  /\ todo' = todo \ {n}
  /\ runs' = [runs EXCEPT ![n] = @ + 1]
  /\ \E r \in {q \in Result : q.retryable => q.status \in Failed} :
       result' = [result EXCEPT ![n] = r]
  /\ UNCHANGED <<graphs, pc, sweepVars, batch, leased, saving, reason, crashes, interrupts>>

AllFailed == [n \in Node |-> [status |-> "failed", retryable |-> FALSE]]

(* Two leaves or more need graph snapshots; when those fail nothing runs.  *)
SnapshotFails ==
  /\ pc = "work" /\ todo = batch /\ Cardinality(batch) > 1
  /\ todo' = {}
  /\ result' = AllFailed
  /\ UNCHANGED <<graphs, pc, sweepVars, batch, leased, saving, reason, history>>

(* The lease's life after the operation: an error fails every result.      *)
EndOperation ==
  /\ pc = "work" /\ todo = {}
  /\ pc' = "apply"
  /\ todo' = batch
  /\ \/ UNCHANGED result
     \/ leased /\ result' = AllFailed
  /\ UNCHANGED <<graphs, sweepVars, batch, leased, saving, reason, history>>

(* _apply_leaf_result, in the order of ids, or, without a lease, of the    *)
(* batch.  A retryable result may always be rejected (code, key, clock,    *)
(* deadline) and is then final.                                            *)
InTurn(n) == IF saving THEN IsNextId(n, todo) ELSE IsFirst(n, todo)

SaveOrNot == IF saving THEN SaveIt ELSE UNCHANGED disk

Applied(n, s) ==
  /\ graph' = Set(graph, n, s) /\ SaveOrNot
  /\ todo' = todo \ {n}
  /\ UNCHANGED <<sweepVars, batch, result, leased, saving, reason, history>>

Apply(n) ==
  /\ pc = "apply" /\ InTurn(n)
  /\ Applied(n, result[n].status)
  /\ UNCHANGED pc

(* evaluate_retry authorizes: this node, below its attempt budget.         *)
MayRetryForever(n) == result[n].retryable /\ n \in RetryNodes

MayRetry(n) ==
  /\ result[n].retryable /\ n \in RetryNodes
  /\ graph.retries[n] < MaxAttempts - 1

RetriedUncounted(n) ==
  /\ graph' = [graph EXCEPT !.status[n] = "ready"]
  /\ SaveOrNot
  /\ todo' = todo \ {n}
  /\ UNCHANGED <<sweepVars, batch, result, leased, saving, reason, history>>

Retried(n) ==
  /\ graph' = [graph EXCEPT !.status[n] = "ready", !.retries[n] = @ + 1]
  /\ SaveOrNot
  /\ todo' = todo \ {n}
  /\ UNCHANGED <<sweepVars, batch, result, leased, saving, reason, history>>

Retry(n) ==
  /\ pc = "apply" /\ InTurn(n) /\ MayRetry(n)
  /\ Retried(n)
  /\ UNCHANGED pc

(* _wait_for_retry saves the graph, with the node as it is, and waits.     *)
AwaitRetry(n) ==
  /\ pc = "apply" /\ InTurn(n) /\ MayRetry(n)
  /\ pc' = "wait"
  /\ UNCHANGED graph /\ SaveIt
  /\ UNCHANGED <<sweepVars, batchVars, reason, history>>

WaitEnds(n) ==
  /\ pc = "wait" /\ InTurn(n)
  /\ pc' = "apply"
  /\ Retried(n) \/ Applied(n, result[n].status)

EndBatch ==
  /\ pc = "apply" /\ todo = {}
  /\ UNCHANGED graph
  /\ IF saving THEN UNCHANGED disk ELSE SaveIt
  /\ Loop(graph) /\ NoBatch
  /\ UNCHANGED <<reason, history>>

(* The process dies; JsonTaskGraphStore.load makes running leaves ready,   *)
(* and run() is called on what it returns.                                 *)
RecoveredAsSaved(g) == g

Recovered(g) ==
  [g EXCEPT !.status = [n \in Node |-> IF @[n] = "running" THEN "ready" ELSE @[n]]]

CrashAndResume ==
  /\ pc # "done" /\ crashes < MaxCrashes
  /\ crashes' = crashes + 1
  /\ graph' = Recovered(disk)
  /\ pc' = "start" /\ rest' = {} /\ changed' = FALSE
  /\ NoBatch
  /\ UNCHANGED <<disk, reason, runs, interrupts>>

(* An exception leaves run() and its caller calls it again on the graph in *)
(* memory, where a leaf that was running is running for ever.              *)
Interrupt ==
  /\ pc # "done" /\ interrupts < MaxInterrupts
  /\ interrupts' = interrupts + 1
  /\ pc' = "start" /\ rest' = {} /\ changed' = FALSE
  /\ NoBatch
  /\ UNCHANGED <<graphs, reason, runs, crashes>>

Step ==
  \/ Start \/ EndSweep \/ Deadlocked \/ SelectBatch
  \/ EnterOperation \/ BeginWork \/ SnapshotFails \/ EndOperation \/ EndBatch
  \/ \E contention \in BOOLEAN : RefuseLease(contention)
  \/ \E n \in Node : \/ Visit(n) \/ Assess(n) \/ Admit(n) \/ StartLeaf(n)
                     \/ Execute(n) \/ Apply(n) \/ Retry(n)
                     \/ AwaitRetry(n) \/ WaitEnds(n)

Next == Step \/ CrashAndResume \/ Interrupt

Spec == Init /\ [][Next]_vars

(* Every collaborator the scheduler calls returns; crashes are not owed.   *)
FairSpec == Spec /\ WF_vars(Step)

-----------------------------------------------------------------------------
(* Every variable keeps its type.                                          *)
TypeOK ==
  /\ graph \in Graph /\ disk \in Graph
  /\ pc \in {"start", "sweep", "admit", "begin", "work", "apply", "wait", "done"}
  /\ rest \subseteq Node /\ todo \subseteq Node /\ batch \subseteq Node
  /\ changed \in BOOLEAN /\ leased \in BOOLEAN /\ saving \in BOOLEAN
  /\ result \in [Node -> Result]
  /\ reason \in {"none", "task_graph_deadlock"}
  /\ runs \in [Node -> Nat]
  /\ crashes \in Nat /\ interrupts \in Nat

(* "A leaf becomes executable only after all its dependencies completed":  *)
(* whatever was retried, lost in a crash or resumed, a task beyond pending *)
(* or with children has them all completed, in memory and on disk; so a    *)
(* leaf inherits the dependencies of the tasks it was split from.          *)
NothingTooEarly ==
  \A g \in {graph, disk}, n \in Node :
    \/ g.attempts[n] > 0
    \/ ChildrenIn(g, n) # {}
    \/ g.status[n] \in {"ready", "running", "waiting", "completed"}
    => \A d \in Needs[n] : g.status[d] = "completed"

(* The executions a graph has on record, one by one.                       *)
Executions(g) == {e \in Node \X (1 .. MaxLeafExecutions) : e[2] <= g.attempts[e[1]]}

(* Every call of the executor was paid for before it was made, and saved,  *)
(* in the leaf's attempts and in the graph's leaf_executions alike: no     *)
(* crash lets leaves run beyond max_leaf_executions.                       *)
ExecutionsPaidFor ==
  /\ \A n \in Node : runs[n] <= disk.attempts[n] /\ disk.attempts[n] <= disk.spent
  /\ Cardinality(Executions(disk)) = disk.spent
  /\ disk.spent <= MaxLeafExecutions

(* Well-typed states in which the budget holds.                            *)
SchedulerInv == TypeOK /\ ExecutionsPaidFor

(* Only its retry budget and the crashes make a leaf run more than once.   *)
RunsExplained ==
  \A n \in Node :
    runs[n] <= crashes + (IF n \in RetryNodes THEN MaxAttempts ELSE 1)

(* A completed root stands on completed tasks only, though leaves of other *)
(* branches may have been retried, contended or recovered meanwhile.       *)
RootCompletedMeansAllCompleted ==
  \A g \in {graph, disk} :
    g.status[Root] = "completed" => \A n \in Present(g) : g.status[n] = "completed"

(* The order of the tree, downwards and upwards.                           *)
DependenciesFirst == NothingTooEarly /\ RootCompletedMeansAllCompleted

(* One sweep carries a failure to the root: when it is over without ending *)
(* the graph, nothing has failed, so no batch starts after a failure.      *)
FailureEndsTheGraph ==
  SweepOver /\ ~Ended(graph) => ~HasStatus(graph, Node, Failed)

(* Leaves that run at once may: both are parallel-safe, they clash on no   *)
(* resource and none needs the other.                                      *)
BatchIsolated ==
  pc = "work" =>
    \A m, n \in batch : m # n =>
      /\ {m, n} \subseteq ParallelSafe
      /\ m \notin Needs[n]
      /\ \A c \in Claims[m], d \in Claims[n] : ~Clash(c, d)

(* The scheduler does not run into task_graph_deadlock by itself: graphs   *)
(* it builds and recovers always have a candidate or end.                  *)
NoDeadlock == reason # "none" => interrupts > 0

(* run() ends, however leaves fail, leases contend and retries repeat.     *)
Terminates == <>(pc = "done")

(* What a task of graph g has before it: its way to an end, its retries.   *)
ToEnd(status) ==
  CASE status = "absent"  -> 4
    [] status = "pending" -> 3
    [] status \in {"ready", "waiting"} -> 2
    [] status = "running" -> 1
    [] OTHER -> 0

Ahead(g, n) == ToEnd(g.status[n]) + 2 * (MaxAttempts - g.retries[n])

(* And what all of them have, one by one.                                  *)
WorkLeft(g) ==
  Cardinality({s \in Node \X (1 .. 2 * MaxAttempts + 4) : s[2] <= Ahead(g, s[1])})

(* How far run() is, as long as the graph stays as it is.  A batch that    *)
(* has run out of leaves has changed it, and the loop goes round again.    *)
Phase ==
  LET over == todo = {} /\ (pc = "apply" \/ batch = {}) IN
  CASE pc = "start" -> 12
    [] pc = "admit" -> IF over THEN 11 ELSE 5
    [] pc = "begin" -> IF over THEN 10 ELSE 4
    [] pc = "work"  -> IF over THEN 9 ELSE 3
    [] pc = "apply" -> IF over THEN 8 ELSE 2
    [] pc = "sweep" -> IF changed THEN 7 ELSE 6
    [] pc = "wait"  -> 1
    [] OTHER -> 0

(* Within one run() every step counts: it takes tasks nearer to their end, *)
(* or a retry from one, and none further; or it leaves that and goes on in *)
(* the loop or to the next leaf of a batch.  Whatever leaves, leases and   *)
(* waits answer, the loop never goes round with the graph as it was        *)
(* (scheduler.py:80-108).                                                  *)
RunAdvances ==
  [][\/ crashes' # crashes \/ interrupts' # interrupts
     \/ WorkLeft(graph') < WorkLeft(graph)
     \/ /\ WorkLeft(graph') = WorkLeft(graph)
        /\ \/ Phase' < Phase
           \/ Phase' = Phase /\ todo' \subseteq todo /\ todo' # todo]_vars

(* "If a dependency becomes failed/blocked, dependent leaves become        *)
(* blocked": in a finished graph no dependent is left in another status.   *)
DependentsBlocked ==
  pc = "done" =>
    \A n \in Present(graph) :
      DependencyFailed(graph, n) => graph.status[n] = "blocked"
=============================================================================
