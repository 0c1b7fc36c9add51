---------------------------- MODULE LoopProfiles ----------------------------
(***************************************************************************)
(* The engine of module LoopEngine with the ports the profiles give it:    *)
(* profiles/coding.py ("check"), profiles/repair.py ("scripted"),          *)
(* profiles/llm_repair.py ("repair") and profiles/evidence.py              *)
(* ("evidence"), over the tools of adapters/filesystem.py and              *)
(* adapters/tools.py, the planner of adapters/llm_planner.py and the       *)
(* verifier of adapters/evidence_verifier.py.  Profile "free" leaves the   *)
(* ports free.  All but this one and "scripted" are chosen for a leaf of a *)
(* task graph by tasks/coding_leaf.py.                                     *)
(*                                                                         *)
(* There is one file to patch.  Its contents are told apart as far as the  *)
(* patches do; the three reading tools are one, which reads or raises.     *)
(* Nobody else changes the file.                                           *)
(***************************************************************************)
EXTENDS LoopEngine, SequencesExt

CONSTANTS
  Profiles,           \* the profiles of the instance
  Leaves,             \* required_capabilities of the leaves of the instance
  FreeSignature,      \* what the verifier of profile "free" may observe
  Content,            \* contents of the file
  Patches,            \* [changes, present, expects], see Patched
  Script,             \* the patches of the scripted repair
  Looks,              \* reading actions of its first plan
  Proposals,          \* lists of actions a model may propose
  Criterion,          \* success_criteria
  MaxItems,           \* max_evidence_items
  PortCrashes         \* bound: crashes of a run whose ports are not free

\* the capabilities of the three reading tools are one
Capabilities == {"read", "patch", "verify", "unknown"}

Statuses == {"passed", "failed", "blocked", "incomplete"}

Look     == [tool |-> "look"]
Check    == [tool |-> "run_verification"]
Patch(p) == [tool |-> "apply_patch", patch |-> p]

ASSUME ProfileAssumption ==
  /\ Profiles \subseteq {"free", "check", "scripted", "repair", "evidence"}
  /\ Leaves \subseteq SUBSET Capabilities
  /\ FreeSignature \subseteq Signature
  /\ \A status \in Statuses : \E sig \in Signature : sig[1] = status
  /\ \A p \in Patches :
      /\ p.changes \in [DOMAIN p.changes -> Content]
      /\ DOMAIN p.changes \subseteq Content
      /\ p.present \subseteq Content \ DOMAIN p.changes
      /\ p.expects \in Content \cup {"any"}
  /\ Script \in Seq(Patches)
  /\ "scripted" \in Profiles => Script # <<>> /\ Len(Script) = MaxIterations
  /\ Looks \in Nat /\ Looks + 2 <= MaxPlan
  /\ Proposals \subseteq Seq({Look, Check} \cup {Patch(p) : p \in Patches})
  /\ MaxItems \in Nat \ {0}
  /\ PortCrashes \in Nat

VARIABLES
  needs,      \* the capabilities asked of the run
  profile,    \* the ports of the engine
  file,       \* the content of the file
  work,       \* the contents of the LoopState in memory
  saved,      \* and in the checkpoint
  pending,    \* the result of an action performed and not yet recorded
  origin      \* history: the file when the run started

profileVars == <<state, disk, pc, late, performed, crashes,
                 needs, profile, file, work, saved, pending, origin>>

Nothing == [nothing |-> TRUE]
NoWork  == [actions |-> <<>>, results |-> <<>>, status |-> "none", criteria |-> Nothing]

\* CodingLeafExecutor.execute with _validate_node, in their order, given a
\* command, a client and a node without other faults: a refused leaf is blocked,
\* one for which building the loop raises fails (no tool is process.verify)
ChosenProfile(required, command, client) ==
  IF \/ required = {} \/ "unknown" \in required
     \/ "patch" \in required /\ "verify" \notin required
     \/ required \cap {"patch", "verify"} # {} /\ ~ command
  THEN "refused"
  ELSE IF required = {"verify"} THEN "check"
  ELSE IF ~ client THEN "refused"
  ELSE IF "patch" \in required THEN "repair"
  ELSE IF "verify" \in required THEN "raises"
  ELSE "evidence"

\* the runs that come to be
Asked ==
  \/ profile = "free" /\ needs = {}
  \/ profile = "scripted" /\ needs = {"patch", "verify"}
  \/ /\ needs \in Leaves
     /\ \E command, client \in BOOLEAN : profile = ChosenProfile(needs, command, client)

ProfileInit ==
  /\ Init
  /\ profile \in Profiles
  /\ Asked
  /\ file \in IF profile = "free" THEN {CHOOSE c \in Content : TRUE} ELSE Content
  /\ origin = file
  /\ work = NoWork /\ saved = NoWork
  /\ pending = Nothing

\* every step of the engine but a crash leaves the checkpoint equal to the
\* memory, except for what is pending
Holds(w) == work' = w /\ saved' = w

-----------------------------------------------------------------------------
\* Answers of a model under a contract: the first answer if it fits, after a
\* ValueError the second if it does, otherwise an exception.  In all: an
\* answer that fits or an exception, and nothing else of it is kept.

Raised == [kind |-> "raised"]
Agreed(fitting) == fitting \cup {Raised}

\* allowed_tools of the profile
Tools == IF profile = "evidence" THEN {"look"}
         ELSE {"look", "apply_patch", "run_verification"}

\* ValidatedLLMPlanner._validate_plan
FitsPlan(answer) ==
  /\ answer.actions # <<>>
  /\ Len(answer.actions) <= MaxPlan
  /\ \A i \in DOMAIN answer.actions : answer.actions[i].tool \in Tools

\* the plan functions of the two profiles without a model
Scripted ==
  IF profile = "check" THEN <<Check>>
  ELSE (IF state.iteration = 1 THEN [i \in 1 .. Looks |-> Look] ELSE <<>>)
        \o <<Patch(Script[state.iteration]), Check>>

PlanActions(actions) ==
  /\ Plan(Len(actions))
  /\ Holds([work EXCEPT !.actions = actions])
  /\ UNCHANGED <<file, pending>>

PlanFails ==
  /\ state.phase = "planning"
  /\ Fail
  /\ UNCHANGED <<file, work, saved, pending>>

PlanScripted == profile \in {"check", "scripted"} /\ PlanActions(Scripted)

PlanAnswers == {[kind |-> "plan", actions |-> p] : p \in Proposals}

PlanProposed ==
  /\ profile \in {"repair", "evidence"} /\ pc = "phase" /\ state.phase = "planning"
  /\ \E answer \in Agreed({a \in PlanAnswers : FitsPlan(a)}) :
      IF answer = Raised THEN PlanFails ELSE PlanActions(answer.actions)

-----------------------------------------------------------------------------
\* Tools.  An exception of one is a result with status "error".

Result(action, output) == [action |-> action, ok |-> TRUE, output |-> output]
Error(action) == [action |-> action, ok |-> FALSE, output |-> Nothing]

\* apply_patch, in its order: the digest the caller expects; old_text absent
\* and new_text there; old_text as often as expected.  The result and the
\* file it leaves.
Patched(p) ==
  IF p.expects \notin {"any", file} THEN <<Error(Patch(p)), file>>
  ELSE IF file \in p.present THEN <<Result(Patch(p), [status |-> "already_applied"]), file>>
  ELSE IF file \notin DOMAIN p.changes THEN <<Error(Patch(p)), file>>
  ELSE <<Result(Patch(p), [status |-> "applied"]), p.changes[file]>>

\* the outcomes of an action; each tool may raise without an effect
Outcomes(action) ==
  {<<Error(action), file>>} \cup
  CASE action.tool = "look" -> {<<Result(action, Nothing), file>>}
    [] action.tool = "apply_patch" -> {Patched(action.patch)}
    [] action.tool = "run_verification" ->
        {<<Result(action, process), file>> :
          process \in [timed_out : BOOLEAN, exit_zero : BOOLEAN, saw : {file}]}

PerformAction ==
  /\ Act
  /\ IF pc' = "acted"
     THEN \E outcome \in Outcomes(work.actions[state.next + 1]) :
            pending' = outcome[1] /\ file' = outcome[2]
     ELSE UNCHANGED <<pending, file>>
  /\ UNCHANGED <<work, saved>>

RecordActionUnsaved ==
  /\ Record
  /\ work' = [work EXCEPT !.results = Append(@, pending)] /\ saved' = saved
  /\ pending' = Nothing
  /\ UNCHANGED file

RecordAction ==
  /\ Record
  /\ Holds([work EXCEPT !.results = Append(@, pending)])
  /\ pending' = Nothing
  /\ UNCHANGED file

-----------------------------------------------------------------------------
\* Verifiers and judges.

\* iteration_results
Recent ==
  LET n == Len(work.results) IN SubSeq(work.results, n - state.next + 1, n)

Erroneous(results) == \E i \in DOMAIN results : ~ results[i].ok

ProcessStatus(process) ==
  IF process.timed_out THEN "blocked"
  ELSE IF process.exit_zero THEN "passed" ELSE "failed"

\* where the last results are of the command
Checks == {i \in DOMAIN Recent : Recent[i].action = Check}

RepairStatusOfFirst ==
  IF Erroneous(Recent) THEN "blocked"
  ELSE IF Checks = {} THEN "incomplete"
  ELSE ProcessStatus(Recent[Min(Checks)].output)

\* verify_repair_results; the verifier of profile "check" differs in nothing
\* for its plan of one action
RepairStatus ==
  IF Erroneous(Recent) THEN "blocked"
  ELSE IF Checks = {} THEN "incomplete"
  ELSE ProcessStatus(Recent[Max(Checks)].output)

\* ValidatedEvidenceVerifier._catalogue: what the last results show, named by
\* their places among all results
Catalogue ==
  LET n == Len(work.results) IN
  {i \in 1 .. n : i > n - MaxItems /\ work.results[i].ok}

\* _validate and _validate_criterion
FitsCriteria(answer) ==
  \A c \in Criterion :
    /\ answer.criteria[c].refs \subseteq Catalogue
    /\ answer.criteria[c].satisfied => answer.criteria[c].refs # {}

EvidenceStatus(answer) ==
  IF \A c \in Criterion : answer.criteria[c].satisfied THEN "passed" ELSE "incomplete"

\* what a model may answer: refs to the first and to the last result
EvidenceAnswers ==
  LET refs == {{}, {1}, {Len(work.results)}} IN
  {[kind |-> "assessment", criteria |-> criteria] :
      criteria \in [Criterion -> [satisfied : BOOLEAN, refs : refs]]}

Observed(status, criteria) ==
  /\ \E sig \in Signature : sig[1] = status /\ Verify(sig)
  /\ Holds([work EXCEPT !.status = status, !.criteria = criteria])
  /\ UNCHANGED <<file, pending>>

VerifyRun == profile # "evidence" /\ Observed(RepairStatus, Nothing)

VerifyEvidence ==
  /\ profile = "evidence" /\ pc = "phase" /\ state.phase = "verifying"
  /\ IF Erroneous(Recent) THEN Observed("blocked", Nothing)
     ELSE \E answer \in Agreed({a \in EvidenceAnswers : FitsCriteria(a)}) :
            IF answer = Raised
            THEN Fail /\ UNCHANGED <<file, work, saved, pending>>
            ELSE Observed(EvidenceStatus(answer), answer.criteria)

\* the four judges
Decision ==
  LET again == CASE profile = "check" -> FALSE
                 [] profile = "scripted" -> work.status = "failed"
                 [] OTHER -> work.status # "blocked"
  IN  IF work.status = "passed" THEN "complete"
      ELSE IF again /\ state.iteration < MaxIterations THEN "continue" ELSE "stop"

JudgeRun == Judge(Decision) /\ UNCHANGED <<file, work, saved, pending>>

-----------------------------------------------------------------------------
\* the steps of the engine that ask no port
EngineStep ==
  /\ Resume \/ Return \/ Top \/ ActionsDone
  /\ Holds(IF state'.plan = NoPlan THEN [work EXCEPT !.actions = <<>>] ELSE work)
  /\ UNCHANGED <<file, pending>>

ProfileStep ==
  /\ profile # "free"
  /\ \/ EngineStep
     \/ PlanScripted
     \/ PlanProposed
     \/ PerformAction
     \/ RecordAction
     \/ VerifyRun
     \/ VerifyEvidence
     \/ JudgeRun
  /\ UNCHANGED <<needs, profile, origin>>

\* the work is what the checkpoint holds; a result not recorded is lost
ProfileCrash ==
  /\ Crash
  /\ profile = "free" \/ crashes < PortCrashes
  /\ work' = saved /\ pending' = Nothing
  /\ UNCHANGED <<needs, profile, file, saved, origin>>

FreeStep ==
  /\ profile = "free"
  /\ \/ Resume \/ Return \/ Top \/ Fail \/ Act \/ Record \/ ActionsDone
     \/ \E n \in 0 .. MaxPlan : Plan(n)
     \/ \E sig \in FreeSignature : Verify(sig)
     \/ \E decision \in {"complete", "continue", "stop"} : Judge(decision)
  /\ UNCHANGED <<needs, profile, file, work, saved, pending, origin>>

ProfileNext ==
  \/ ProfileStep
  \/ FreeStep
  \/ ProfileCrash
  \/ Timeout /\ UNCHANGED <<needs, profile, file, work, saved, pending, origin>>

ProfileSpec == ProfileInit /\ [][ProfileNext]_profileVars

\* ports and tools return
FairProfileSpec == ProfileSpec /\ WF_profileVars(ProfileStep \/ FreeStep)

-----------------------------------------------------------------------------
\* LoopEngineLeafExecutor: what a leaf that is a loop reports
LeafStatus == CASE state.status = "completed" -> "completed"
                [] state.status = "stopped" -> "blocked"
                [] OTHER -> "failed"

\* Wherever the program died and whatever the model said, a leaf reported
\* completed has the evidence for it: no action of its last iteration raised;
\* if its capabilities ask for the command, this exited with code 0 the last
\* time it ran, on the file as it is unless the plan patched it afterwards;
\* otherwise its criteria all cite results that were collected and are still
\* among the recent ones (evidence_verifier.py:38-103, repair.py:52-87,
\* coding_leaf.py:115-158)
CompletedOnEvidence ==
  profile # "free" /\ LeafStatus = "completed" /\ state.status # "running" =>
    /\ ~ Erroneous(Recent)
    /\ IF "verify" \notin needs
       THEN \A c \in Criterion :
              /\ work.criteria[c].satisfied /\ work.criteria[c].refs # {}
              /\ \A i \in work.criteria[c].refs :
                  i \in DOMAIN work.results /\ work.results[i].ok
                  /\ Len(work.results) - i < MaxItems
       ELSE \E i \in DOMAIN Recent :
              LET r == Recent[i]
                  later == SubSeq(Recent, i + 1, Len(Recent))
              IN  /\ r.action = Check
                  /\ r.output.exit_zero /\ ~ r.output.timed_out
                  /\ \A j \in DOMAIN later : later[j].action # Check
                  /\ (\A j \in DOMAIN later : later[j].action.tool # "apply_patch")
                        => r.output.saw = file

\* a patch whose new_text does not hold old_text again
Repeatable(p) == \A c \in DOMAIN p.changes : p.changes[c] \notin DOMAIN p.changes

\* what a recorded patch makes of a content
AfterResult(content, r) ==
  IF r.action.tool = "apply_patch" /\ content \in DOMAIN r.action.patch.changes
  THEN r.action.patch.changes[content] ELSE content

\* A leaf whose capabilities do not ask for patches leaves the file alone,
\* whatever a model plans.  A patch performed once more after a crash, because
\* its record was lost, is the recorded one: as long as every recorded patch
\* succeeded and is repeatable, and none is unrecorded, the file is what the
\* recorded patches make of the original (coding_leaf.py:174-218,
\* filesystem.py:136-184, engine.py:119-135)
PatchesExplained ==
  /\ "patch" \notin needs => file = origin
  /\ /\ \A i \in DOMAIN work.results :
         LET r == work.results[i] IN
         r.action.tool = "apply_patch" => r.ok /\ Repeatable(r.action.patch)
     /\ state.next < state.plan => performed[state.iteration, state.next + 1] = 0
     => file = FoldLeft(AfterResult, origin, work.results)

=============================================================================
