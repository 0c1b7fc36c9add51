------------------------- MODULE IntegrationVerdicts -------------------------
(***************************************************************************)
(* The integration check of a parent: the treatment of its children's      *)
(* states (tasks/scheduler_propagation.py), the selectors and routes that  *)
(* choose a plan of verifiers (tasks/integration_selectors.py,             *)
(* tasks/integration_composition.py), the composition of their results and *)
(* the verifier that runs a command (tasks/integration.py).                *)
(*                                                                         *)
(* The verifiers of a plan are called one after the other, each with a     *)
(* deep copy of the graph, in which it may change what it likes.           *)
(***************************************************************************)
EXTENDS Integers, Sequences, SequencesExt

CONSTANTS
    Parents,        \* nodes with children: [id, depth, capabilities]
    Selectors,      \* the selectors of the instance and their parts
    Policies,       \* [exact, routes, default], see Resolve
    Verifiers,      \* the names of the registered verifiers
    Commands,       \* those that run a command
    ChildStates     \* the tuples of states children may be in

Group(selector) == selector.kind \in {"all", "any"}

\* _group_depth and _selector_node_count
Height[selector \in Selectors] ==
    IF ~ Group(selector) THEN 0
    ELSE 1 + Max({Height[selector.value[i]] : i \in DOMAIN selector.value})
Size[selector \in Selectors] ==
    IF ~ Group(selector) THEN 1
    ELSE 1 + FoldSeq(LAMBDA part, n : n + Size[part], 0, selector.value)

\* the bounds of IntegrationSelectorGroup.__post_init__
ValidSelector(selector) ==
    /\ Group(selector) => selector.value # <<>>
    /\ Height[selector] <= 4
    /\ Size[selector] <= 16

\* IntegrationPlan.create
ValidPlan(names) == names # <<>> /\ IsInjective(names)

\* IntegrationCompositionPolicy.__post_init__
ValidPolicy(policy) ==
    /\ \A i \in DOMAIN policy.exact : ValidPlan(policy.exact[i].plan)
    /\ \A i, j \in DOMAIN policy.exact :
            policy.exact[i].id = policy.exact[j].id => i = j
    /\ \A i \in DOMAIN policy.routes :
            /\ ValidPlan(policy.routes[i].plan)
            /\ ValidSelector(policy.routes[i].selector)
    /\ policy.default # <<>> => ValidPlan(policy.default)
    /\ policy.exact \o policy.routes \o policy.default # <<>>

\* every plan names registered verifiers (CompositeIntegrationVerifier.__init__)
Policy ==
    [exact : Seq([id : Seq(STRING), plan : Seq(Verifiers)]),
     routes : Seq([selector : Selectors, plan : Seq(Verifiers)]),
     default : Seq(Verifiers)]

ASSUME VerdictAssumption ==
    /\ Verifiers # {}
    /\ Commands \subseteq Verifiers
    /\ \A selector \in Selectors :
            Group(selector) => ToSet(selector.value) \subseteq Selectors
    /\ Policies \subseteq {policy \in Policy : ValidPolicy(policy)}

VARIABLES
    parent,     \* the parent verified and the policy
    children,   \* the states of its children
    left,       \* the children as the last verifier left its copy of them
    turn,         \* "idle", "verify" or "done"
    plan,       \* the names of the plan chosen
    results,    \* per verifier called: its status and the children it saw
    verdict     \* the state the parent gets

verdictVars == <<parent, children, left, turn, plan, results, verdict>>

NoPlan == <<>>      \* plans are non-empty

VerdictInit ==
    /\ parent = "none"
    /\ children = <<>>
    /\ left = <<>>
    /\ turn = "idle"
    /\ plan = NoPlan
    /\ results = <<>>
    /\ verdict = "waiting"

---------------------------------------------------------------------------

\* IntegrationSelector.matches and IntegrationSelectorGroup.matches; an id is
\* the sequence of its characters
Matches(selector, node) ==
    LET matches[part \in Selectors] ==
            CASE part.kind = "node_id_prefix" -> IsPrefix(part.value, node.id)
              [] part.kind = "depth" -> node.depth = part.value
              [] part.kind = "required_capability" -> part.value \in node.capabilities
              [] part.kind = "all" -> \A i \in DOMAIN part.value : matches[part.value[i]]
              [] part.kind = "any" -> \E i \in DOMAIN part.value : matches[part.value[i]]
    IN  matches[selector]

\* IntegrationCompositionPolicy.resolve: the route of the node's own id, the
\* first selector route that matches, the default
Resolve(policy, node) ==
    LET own == {i \in DOMAIN policy.exact : policy.exact[i].id = node.id}
        fits == {i \in DOMAIN policy.routes : Matches(policy.routes[i].selector, node)}
    IN  IF own # {} THEN policy.exact[Min(own)].plan
        ELSE IF fits # {} THEN policy.routes[Min(fits)].plan
        ELSE policy.default

AllCompleted(states) == \A i \in DOMAIN states : states[i] = "completed"

\* _validate_children, of both verifiers
Integrable(states) == states # <<>> /\ AllCompleted(states)

\* _propagate_parent, for children that are not all done: one that failed or
\* is blocked blocks the parent, and no verifier is asked
Unready(node, policy, states) ==
    /\ turn = "idle"
    /\ ~ AllCompleted(states)
    /\ parent' = [node |-> node, policy |-> policy]
    /\ children' = states
    /\ turn' = "done"
    /\ verdict' = IF \E i \in DOMAIN states : states[i] \in {"failed", "blocked"}
                  THEN "blocked" ELSE "waiting"
    /\ UNCHANGED <<left, plan, results>>

\* verify() up to the choice of a plan
Choose(node, policy, states) ==
    /\ turn = "idle"
    /\ AllCompleted(states)
    /\ parent' = [node |-> node, policy |-> policy]
    /\ children' = states
    /\ left' = states
    /\ plan' = Resolve(policy, node)
    /\ IF plan' = NoPlan \/ ~ Integrable(states)
       THEN turn' = "done" /\ verdict' = "blocked"
       ELSE turn' = "verify" /\ UNCHANGED verdict
    /\ UNCHANGED results

---------------------------------------------------------------------------

GivenShared == left

\* what a verifier is given: deepcopy of the graph
Given == children

\* a command the policy has or lacks, and the process it became or not
CommandRun == [configured : BOOLEAN, launched : BOOLEAN, timed_out : BOOLEAN,
               truncated : BOOLEAN, exit_zero : BOOLEAN]

\* BoundedCommandIntegrationVerifier.verify; a launch that raises is failed by
\* the composition
CommandStatus(states, process) ==
    IF ~ Integrable(states) \/ ~ process.configured THEN "blocked"
    ELSE IF ~ process.launched THEN "failed"
    ELSE IF process.timed_out THEN "blocked"
    ELSE IF process.truncated \/ ~ process.exit_zero THEN "failed"
    ELSE "completed"

\* what a verifier that is not a command may do: answer, raise, return
\* something that is no result or a result with another status
VerifierAnswers == {"completed", "blocked", "failed", "raises", "no_result", "other_status"}

Normalized(answer) ==
    IF answer \in {"completed", "blocked"} THEN answer ELSE "failed"

Returns(status, states) ==
    /\ turn = "verify"
    /\ Len(results) < Len(plan)
    /\ results' = Append(results, [status |-> status, saw |-> Given])
    /\ left' = states
    /\ UNCHANGED <<parent, children, turn, plan, verdict>>

\* the verifier whose turn it is
Asked == plan[Len(results) + 1]

RunCommand(process) ==
    /\ Asked \in Commands
    /\ Returns(CommandStatus(Given, process), Given)

Ask(answer, states) ==
    /\ Asked \notin Commands
    /\ Returns(Normalized(answer), states)

Called == {results[i].status : i \in DOMAIN results}

\* the first failed result wins, then the first blocked one
Combined ==
    IF "failed" \in Called THEN "failed"
    ELSE IF "blocked" \in Called THEN "blocked"
    ELSE "completed"

\* the composition asks every verifier, whatever the earlier ones said
Conclude ==
    /\ turn = "verify"
    /\ Len(results) = Len(plan)
    /\ turn' = "done"
    /\ verdict' = Combined
    /\ UNCHANGED <<parent, children, left, plan, results>>

\* the next parent
Dismiss ==
    /\ turn = "done"
    /\ parent' = "none" /\ children' = <<>> /\ left' = <<>>
    /\ turn' = "idle" /\ plan' = NoPlan /\ results' = <<>> /\ verdict' = "waiting"

VerdictNext ==
    \/ \E node \in Parents, policy \in Policies, states \in ChildStates :
            Unready(node, policy, states) \/ Choose(node, policy, states)
    \/ /\ turn = "verify" /\ Len(results) < Len(plan)
       /\ \/ \E process \in CommandRun : RunCommand(process)
          \/ \E answer \in VerifierAnswers, states \in ChildStates : Ask(answer, states)
    \/ Conclude
    \/ Dismiss

VerdictSpec == VerdictInit /\ [][VerdictNext]_verdictVars

---------------------------------------------------------------------------

\* A parent completes only when its children have, and every verifier of its
\* plan was asked about those very children, whatever the earlier verifiers
\* did to their copies, and was satisfied; one failed check fails the parent
\* wherever in the plan it stands, before or after blocked ones
\* (integration_composition.py:178-250)
VerdictConservative ==
    turn = "done" =>
        /\ verdict = "completed" <=>
            /\ AllCompleted(children)
            /\ plan # NoPlan
            /\ Len(results) = Len(plan)
            /\ \A i \in DOMAIN results :
                results[i] = [status |-> "completed", saw |-> children]
        /\ verdict = "failed" <=> "failed" \in Called
        /\ \A i \in DOMAIN results : results[i].saw = children

=============================================================================
