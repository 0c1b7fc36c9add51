--------------------------- MODULE MCTaskServices ---------------------------
(* The services around the scheduler, which share no state: a behaviour is *)
(* one of one of them, chosen at the start, while the others stay as they  *)
(* began.                                                                  *)
EXTENDS PluginLifecycle, TaskRetry, IntegrationVerdicts, TaskDecomposition,
        ReleasePipeline, TLC

CONSTANTS x, y, command, review, audit, r1, r2, one, other

VARIABLE active

MCDelay == 0 :> 2 @@ 1 :> 1

-----------------------------------------------------------------------------
(* A root, and two children of which one needs a capability; a policy with  *)
(* every kind of route, and one that fits the root only.                    *)
ParentNode(id, depth, capabilities) ==
  [id |-> id, depth |-> depth, capabilities |-> capabilities]
Select(kind, value) == [kind |-> kind, value |-> value]

MCParents ==
  {ParentNode(<<"r">>, 0, {}), ParentNode(<<"r", "a">>, 1, {"deploy"}),
   ParentNode(<<"r", "b">>, 1, {}), ParentNode(<<"r", "b", "c">>, 2, {})}

Deploys == Select("required_capability", "deploy")
Below(name) == Select("node_id_prefix", <<"r", name>>)
Either == Select("any", <<Deploys, Below("c")>>)
Deployed == Select("all", <<Select("depth", 1), Either>>)

MCSelectors ==
  {Select("depth", 0), Select("depth", 1), Deploys, Below("a"), Below("c"),
   Either, Deployed}

MCPolicies ==
  {[exact |-> <<[id |-> <<"r">>, plan |-> <<command, review>>]>>,
    routes |-> <<[selector |-> Deployed, plan |-> <<review, command, audit>>],
                 [selector |-> Below("a"), plan |-> <<audit>>]>>,
    default |-> <<audit, review>>],
   [exact |-> <<>>,
    routes |-> <<[selector |-> Select("depth", 0), plan |-> <<command>>]>>,
    default |-> <<>>]}

MCChildStates ==
  {<<"completed", "completed">>, <<"completed", "blocked">>,
   <<"failed", "completed">>, <<"running", "completed">>, <<>>}

-----------------------------------------------------------------------------
(* Proposals of which two fit, and one of each kind that does not: a cycle, *)
(* a key with a dot, a key twice, a dependency on itself and on a stranger. *)
Child(key, depends_on) == [key |-> key, depends_on |-> depends_on]

MCProposals ==
  LET a == <<"a">>  b == <<"b">>  dotted == <<"a", "b">> IN
  {<<Child(a, {}), Child(b, {a})>>, <<Child(b, {})>>,
   <<Child(a, {b}), Child(b, {a})>>, <<Child(a, {}), Child(dotted, {})>>,
   <<Child(a, {}), Child(a, {})>>, <<Child(a, {a})>>, <<Child(b, {a})>>}

MCCases == {[goal |-> "goal", max_nodes |-> n, max_depth |-> 2] : n \in {3, 4}}

-----------------------------------------------------------------------------
MCCommandStages == <<"pytest">>

ServicesSymmetry ==
  Permutations(Code) \cup Permutations(ReleaseId) \cup Permutations(Recorder)

ServicesInit ==
  /\ PluginInit /\ RetryInit /\ VerdictInit /\ DecompositionInit /\ ReleaseInit
  /\ active \in {"plugins", "retry", "verdicts", "decomposition", "release"}
  /\ active = "decomposition" \/ case = CHOOSE c \in Cases : TRUE

ServicesNext ==
  /\ UNCHANGED active
  /\ \/ /\ active = "plugins" /\ PluginNext
        /\ UNCHANGED <<retryVars, verdictVars, decompositionVars, releaseVars>>
     \/ /\ active = "retry" /\ RetryNext
        /\ UNCHANGED <<pluginVars, verdictVars, decompositionVars, releaseVars>>
     \/ /\ active = "verdicts" /\ VerdictNext
        /\ UNCHANGED <<pluginVars, retryVars, decompositionVars, releaseVars>>
     \/ /\ active = "decomposition" /\ DecompositionNext
        /\ UNCHANGED <<pluginVars, retryVars, verdictVars, releaseVars>>
     \/ /\ active = "release" /\ ReleaseNext
        /\ UNCHANGED <<pluginVars, retryVars, verdictVars, decompositionVars>>

ServicesSpec ==
  ServicesInit /\ [][ServicesNext]_<<active, pluginVars, retryVars, verdictVars,
                                     decompositionVars, releaseVars>>
=============================================================================
