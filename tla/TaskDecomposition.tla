-------------------------- MODULE TaskDecomposition --------------------------
(***************************************************************************)
(* Decomposition of a task by a language model, and its replay:            *)
(* tasks/llm_decomposer.py (one answer and one repair),                    *)
(* tasks/llm_decomposition_validation.py (what an answer must be),         *)
(* tasks/decomposition_graph.py (the new nodes), the scheduler's           *)
(* _assess_node, and tasks/replay.py (the recorder, the trace and the      *)
(* decomposer that answers from it).                                       *)
(*                                                                         *)
(* A graph is first decomposed live under the recorder, then a graph of a  *)
(* possibly different case is decomposed from the trace.  Which candidate  *)
(* is taken next is free here (module TaskScheduler has the order).  A     *)
(* node id is the sequence of the dot-separated names in it.  The digest   *)
(* of a context is the context.                                            *)
(***************************************************************************)
EXTENDS Naturals, Sequences, FiniteSets, SequencesExt

CONSTANTS
    Proposals,      \* lists of children a model may propose: <<[key, depends_on], ...>>
    Cases,          \* task cases: [goal, max_nodes, max_depth]
    MaxChildren,    \* max_children of the validator
    Repairs,        \* contract_repair_attempts
    MaxLeafRuns,    \* bound and budget of leaf executions
    MaxCrashes      \* bound: deaths of the live program

ASSUME DecompositionAssumption ==
    /\ MaxChildren \in Nat \ {0}
    /\ Repairs \in {0, 1}
    /\ \A c \in Cases : c.max_nodes \in Nat \ {0} /\ c.max_depth \in Nat
    /\ Proposals \subseteq Seq([key : Seq(STRING), depends_on : SUBSET Seq(STRING)])

VARIABLES
    mode,       \* "live" or "replay"
    case,       \* the case of the current graph
    nodes,      \* the graph: id -> node
    leafRuns,   \* graph.leaf_executions
    trace,      \* the recorder's entries: id -> [context, decision]
    used,       \* the entries the replay has used
    reference,  \* history: the nodes of the live run, when it is over
    crashes     \* deaths so far

decompositionVars ==
    <<mode, case, nodes, leafRuns, trace, used, reference, crashes>>

Root == <<"root">>
Empty == [id \in {} |-> {}]

\* was: history, the status the assessment gave the node
Node(goal, depends_on, depth) ==
    [status |-> "pending", goal |-> goal, dependencies |-> depends_on,
     depth |-> depth, children |-> <<>>, was |-> "unassessed"]

Fresh(c) == [id \in {Root} |-> Node(c.goal, {}, 0)]

DecompositionInit ==
    /\ mode = "live"
    /\ case \in Cases
    /\ nodes = Fresh(case)
    /\ leafRuns = 0
    /\ trace = Empty
    /\ used = {}
    /\ reference = Empty
    /\ crashes = 0

Ended(status) == status \in {"completed", "failed", "blocked"}

---------------------------------------------------------------------------
\* what an answer must be

KeysOf(children) == {children[i].key : i \in DOMAIN children}
DependsOn(children, key) ==
    UNION {children[i].depends_on : i \in {j \in DOMAIN children : children[j].key = key}}

\* what the search has come to: the keys it is through with; cycle: it raised
Seen(keys) == [keys : SUBSET keys, cycle : BOOLEAN]

\* the keys in turn, each visited as visit says
VisitAll(visit, seen, keys) == FoldSet(LAMBDA key, s : visit[key][s], seen, keys)

\* visit of both validations, when below visits with key among the visiting
Visit(children, below, visiting, key, seen) ==
    IF seen.cycle \/ key \in visiting THEN [seen EXCEPT !.cycle = TRUE]
    ELSE IF key \in seen.keys THEN seen
    ELSE LET after == VisitAll(below, seen, DependsOn(children, key))
         IN  [after EXCEPT !.keys = @ \cup {key}]

Search(children) ==
    LET keys == KeysOf(children)
        search[visiting \in SUBSET keys] ==
            [key \in keys |-> [seen \in Seen(keys) |->
                Visit(children, search[visiting \cup {key}], visiting, key, seen)]]
    IN  search

Cyclic(children) ==
    VisitAll(Search(children)[{}], [keys |-> {}, cycle |-> FALSE], KeysOf(children)).cycle

\* keys that are unique, and dependencies on keys of the list only
WellFormed(children) ==
    /\ Cardinality(KeysOf(children)) = Len(children)
    /\ \A i \in DOMAIN children : children[i].depends_on \subseteq KeysOf(children)
    /\ ~ Cyclic(children)

AnyKey(key) == TRUE

\* _KEY_PATTERN has no dot, so that a key is one name
ValidKey(key) == Len(key) = 1

\* _validate_child and _validate_dependencies, for a non-empty list
ValidChildren(children) ==
    /\ children # <<>>
    /\ Len(children) <= MaxChildren
    /\ \A i \in DOMAIN children :
        /\ ValidKey(children[i].key)
        /\ children[i].key \notin children[i].depends_on
    /\ WellFormed(children)

Atomic == [is_atomic |-> TRUE, children |-> <<>>]
Into(children) == [is_atomic |-> FALSE, children |-> children]

\* answers of the client: a leaf contract, a list of children, JSON that no
\* field check accepts, or an exception that is not a ValueError
ModelAnswers == {Atomic} \cup {Into(children) : children \in Proposals}
                \cup {[rejected |-> TRUE], [raised |-> TRUE]}
Raised == [raised |-> TRUE]

Valid(answer) ==
    answer = Atomic \/ (answer \in {Into(c) : c \in Proposals} /\ ValidChildren(answer.children))

\* LLMTaskDecomposer.assess: the first answer if it is valid; after a
\* ValueError, the second if repairs are on; otherwise an exception
Assessed(first, second) ==
    IF Valid(first) THEN first
    ELSE IF first # Raised /\ Repairs = 1 /\ Valid(second) THEN second
    ELSE Raised

---------------------------------------------------------------------------
\* the scheduler

IsCompleted(id) == nodes[id].status = "completed"

Candidate(id) ==
    /\ ~ Ended(nodes[Root].status)
    /\ id \in DOMAIN nodes
    /\ \A d \in nodes[id].dependencies : IsCompleted(d)

\* decomposition_context_sha256
Context(id) ==
    [id |-> id, goal |-> nodes[id].goal, dependencies |-> nodes[id].dependencies,
     depth |-> nodes[id].depth,
     budget |-> [max_nodes |-> case.max_nodes, max_depth |-> case.max_depth],
     node_count |-> Cardinality(DOMAIN nodes), leaf_executions |-> leafRuns]

\* add_child_tasks: assigns into the dictionary of nodes, key by key
ListedIds(id, children) == [i \in DOMAIN children |-> id \o children[i].key]

NewNode(id, children, child) ==
    LET i == CHOOSE j \in DOMAIN children : id \o children[j].key = child
    IN  Node("child", {id \o key : key \in children[i].depends_on}, nodes[id].depth + 1)

SplitParent(id, children) ==
    [nodes[id] EXCEPT !.status = "waiting", !.was = "waiting",
                      !.children = @ \o ListedIds(id, children)]

WithChildren(id, children) ==
    LET added == ToSet(ListedIds(id, children)) IN
    [node \in DOMAIN nodes \cup added |->
        IF node \in added THEN NewNode(id, children, node)
        ELSE IF node = id THEN SplitParent(id, children)
        ELSE nodes[node]]

Settled(id, status) ==
    nodes' = [nodes EXCEPT ![id].status = status, ![id].was = status]

\* _assess_node with a decision, in its order
Apply(id, decision) ==
    IF decision.is_atomic THEN Settled(id, "ready")
    ELSE IF \/ nodes[id].depth >= case.max_depth
            \/ Cardinality(DOMAIN nodes) + Len(decision.children) > case.max_nodes
    THEN Settled(id, "blocked")
    ELSE IF ~ WellFormed(decision.children) THEN Settled(id, "failed")
    ELSE nodes' = WithChildren(id, decision.children)

\* _assess_node when the decomposer raises
RefuseNode(id) ==
    nodes' = [nodes EXCEPT ![id].status = "failed", ![id].was = "refused"]

\* RecordingTaskDecomposer.assess around the model
AssessLive(id, first, second) ==
    /\ mode = "live"
    /\ Candidate(id) /\ nodes[id].status = "pending"
    /\ LET decision == Assessed(first, second) IN
        IF decision = Raised \/ id \in DOMAIN trace
        THEN RefuseNode(id) /\ UNCHANGED trace
        ELSE /\ Apply(id, decision)
             /\ trace' = [node \in DOMAIN trace \cup {id} |->
                            IF node = id THEN [context |-> Context(id), decision |-> decision]
                            ELSE trace[node]]
    /\ UNCHANGED <<mode, case, leafRuns, used, reference, crashes>>

ReplayableOnAnyCase(id) == id \in DOMAIN trace /\ id \notin used

\* RecordedTaskDecomposer.assess accepts the entry
Replayable(id) ==
    /\ id \in DOMAIN trace
    /\ trace[id].context = Context(id)
    /\ id \notin used

AssessReplayed(id) ==
    /\ mode = "replay"
    /\ Candidate(id) /\ nodes[id].status = "pending"
    /\ IF Replayable(id)
       THEN Apply(id, trace[id].decision) /\ used' = used \cup {id}
       ELSE RefuseNode(id) /\ UNCHANGED used
    /\ UNCHANGED <<mode, case, leafRuns, trace, reference, crashes>>

\* a leaf is executed, and may be retried; the budget may be spent
Execute(id, status) ==
    /\ Candidate(id) /\ nodes[id].status = "ready"
    /\ IF leafRuns >= MaxLeafRuns
       THEN /\ nodes' = [nodes EXCEPT ![id].status = "blocked"]
            /\ UNCHANGED leafRuns
       ELSE /\ nodes' = [nodes EXCEPT ![id].status = status]
            /\ leafRuns' = leafRuns + 1
    /\ UNCHANGED <<mode, case, trace, used, reference, crashes>>

\* _propagate, for one node
Propagate(id) ==
    /\ ~ Ended(nodes[Root].status)
    /\ ~ Ended(nodes[id].status)
    /\ LET bad == \E other \in ToSet(nodes[id].children) \cup nodes[id].dependencies :
                    nodes[other].status \in {"failed", "blocked"}
       IN  /\ bad \/ (nodes[id].children # <<>> /\ \A c \in ToSet(nodes[id].children) : IsCompleted(c))
           /\ nodes' = [nodes EXCEPT ![id].status = IF bad THEN "blocked" ELSE "completed"]
    /\ UNCHANGED <<mode, case, leafRuns, trace, used, reference, crashes>>

\* the live program dies; the graph is continued from its checkpoint, under a
\* recorder that has forgotten what was assessed before
Crash ==
    /\ mode = "live"
    /\ crashes < MaxCrashes
    /\ crashes' = crashes + 1
    /\ trace' = Empty
    /\ UNCHANGED <<mode, case, nodes, leafRuns, used, reference>>

\* the graph is over: its trace is saved and loaded, and a case is created anew
BeginReplay(c) ==
    /\ mode = "live"
    /\ Ended(nodes[Root].status)
    /\ mode' = "replay"
    /\ case' = c
    /\ nodes' = Fresh(c)
    /\ leafRuns' = 0
    /\ reference' = nodes
    /\ UNCHANGED <<trace, used, crashes>>

DecompositionNext ==
    \/ \E id \in DOMAIN nodes, first, second \in ModelAnswers : AssessLive(id, first, second)
    \/ \E id \in DOMAIN nodes :
        \/ AssessReplayed(id)
        \/ \E status \in {"completed", "failed", "ready"} : Execute(id, status)
        \/ Propagate(id)
    \/ Crash
    \/ \E c \in Cases : BeginReplay(c)

DecompositionSpec == DecompositionInit /\ [][DecompositionNext]_decompositionVars

---------------------------------------------------------------------------

ChildIds(id) == ToSet(nodes[id].children)

\* every node but the root is listed, by one parent and once
ListedOnce ==
    /\ UNION {ChildIds(id) : id \in DOMAIN nodes} = DOMAIN nodes \ {Root}
    /\ \A id \in DOMAIN nodes : Cardinality(ChildIds(id)) = Len(nodes[id].children)
    /\ \A id, other \in DOMAIN nodes : id # other => ChildIds(id) \cap ChildIds(other) = {}

WithinBudgets ==
    /\ Cardinality(DOMAIN nodes) <= case.max_nodes
    /\ \A id \in DOMAIN nodes : \A child \in ChildIds(id) :
        nodes[child].depth = nodes[id].depth + 1 /\ nodes[child].depth <= case.max_depth

\* dependencies are between siblings, of whom some can always go first
SiblingsInOrder ==
    \A id \in DOMAIN nodes :
        /\ \A child \in ChildIds(id) : nodes[child].dependencies \subseteq ChildIds(id)
        /\ \A group \in SUBSET ChildIds(id) :
            group # {} => \E first \in group : nodes[first].dependencies \cap group = {}

\* Whatever the model answers, no node ever replaces another, every node is
\* listed once by its parent, dependencies are between siblings, some sibling
\* of any group can always go first, and the budgets hold
\* (decomposition_graph.py:26-56, scheduler.py:168-196)
AcceptedChildrenAreSound == ListedOnce /\ WithinBudgets /\ SiblingsInOrder

\* A replay that accepts an entry of the trace gives the node the status and
\* the children the live run gave it, whatever case it is run on, whatever its
\* leaves return and in whichever order; otherwise it refuses the node
\* (replay.py:117-126, 275-292)
ReplayReproduces ==
    mode = "replay" =>
        \A id \in DOMAIN nodes : nodes[id].was \notin {"unassessed", "refused"} =>
            /\ id \in DOMAIN reference
            /\ nodes[id].was = reference[id].was
            /\ nodes[id].children = reference[id].children

=============================================================================
