----------------------------- MODULE LoopEngine -----------------------------
(***************************************************************************)
(* LoopEngine.resume: plan, execute, verify, judge, under budgets, with a  *)
(* checkpoint after each transition, and the process dying between any two *)
(* of them.  What planner, executor, verifier and judge answer is free.    *)
(***************************************************************************)
EXTENDS Integers, Sequences, FiniteSets

CONSTANTS
  MaxIterations, MaxActions,  \* LoopBudget, as configured
  MaxRepeated,                \* max_repeated_observations
  Signature,                  \* observation signatures
  MaxPlan,                    \* bound: actions of a plan
  MaxCrashes                  \* bound: crashes in a behaviour

Larger(m, n) == IF m > n THEN m ELSE n
IterationLimit  == Larger(1, MaxIterations)
ActionLimit     == Larger(1, MaxActions)
StagnationLimit == Larger(2, MaxRepeated)

ASSUME EngineAssumption ==
  /\ MaxIterations \in Int /\ MaxActions \in Int /\ MaxRepeated \in Int
  /\ MaxPlan \in Nat \ {0} /\ MaxCrashes \in Nat

VARIABLES
  state,      \* the LoopState in memory
  disk,       \* the LoopState of the last checkpoint
  pc,         \* where resume() is
  late,       \* has timeout_seconds passed since started_at
  performed,  \* history: side effects of action i of iteration k
  crashes     \* history: crashes so far

vars == <<state, disk, pc, late, performed, crashes>>

-----------------------------------------------------------------------------
Phases   == {"ready", "planning", "executing", "verifying", "judging", "terminal"}
Ended    == {"completed", "stopped", "failed"}
Slot     == (1 .. IterationLimit) \X (1 .. MaxPlan)
NoPlan   == -1

LoopState ==
  [status : {"ready", "running"} \cup Ended, phase : Phases,
   iteration : Nat, actions : Nat,    \* action_count
   plan : Nat \cup {NoPlan},          \* number of actions of latest_plan
   next : Nat,                        \* next_action_index
   verified : Nat,                    \* iteration latest_verification is of
   signatures : Seq(Signature)]       \* observation_signatures

Created == [status |-> "ready", phase |-> "ready", iteration |-> 0, actions |-> 0,
            plan |-> NoPlan, next |-> 0, verified |-> 0, signatures |-> <<>>]

End(s, status) == [s EXCEPT !.status = status, !.phase = "terminal"]

(* budget_stop_reason: is there a reason to stop.                          *)
BudgetSpent(s, checkIteration) ==
  \/ checkIteration /\ s.iteration >= IterationLimit
  \/ s.actions >= ActionLimit
  \/ late

(* stagnation_stop_reason: the last observations, this one with them, are  *)
(* as many as the limit and all the same.                                  *)
Stagnant(signatures, sig) ==
  LET n == Len(signatures) IN
  /\ n + 1 >= StagnationLimit
  /\ \A i \in n - StagnationLimit + 2 .. n : signatures[i] = sig

-----------------------------------------------------------------------------
Init ==
  /\ state = Created /\ disk = Created
  /\ pc = "resume" /\ late = FALSE
  /\ performed = [k \in Slot |-> 0] /\ crashes = 0

(* _checkpoint: a temporary file, then replace; the old file or the new.   *)
Checkpoint == disk' = state'

(* resume(): an ended run is returned as it is.                            *)
Resume ==
  /\ pc = "resume"
  /\ IF state.status \in Ended
     THEN pc' = "returned" /\ UNCHANGED <<state, disk>>
     ELSE pc' = "top" /\ state' = [state EXCEPT !.status = "running"] /\ Checkpoint
  /\ UNCHANGED <<late, performed, crashes>>

Return == /\ pc = "top" /\ state.status # "running"
          /\ pc' = "returned"
          /\ UNCHANGED <<state, disk, late, performed, crashes>>

(* The head of the while loop.  Phases fall through to the next without    *)
(* coming back here, except from judging.                                  *)
Top ==
  /\ pc = "top" /\ state.status = "running"
  /\ IF BudgetSpent(state, state.phase = "ready")
     THEN state' = End(state, "stopped") /\ Checkpoint /\ pc' = "top"
     ELSE /\ pc' = "phase"
          /\ IF state.phase = "ready"
             THEN /\ state' = [state EXCEPT !.iteration = @ + 1, !.phase = "planning",
                                            !.plan = NoPlan, !.next = 0]
                  /\ Checkpoint
             ELSE UNCHANGED <<state, disk>>
  /\ UNCHANGED <<late, performed, crashes>>

(* The planner answers with n actions, or raises.                          *)
Plan(n) ==
  /\ pc = "phase" /\ state.phase = "planning"
  /\ state' = IF n = 0 THEN End([state EXCEPT !.plan = 0, !.next = 0], "stopped")
              ELSE [state EXCEPT !.plan = n, !.next = 0, !.phase = "executing"]
  /\ Checkpoint
  /\ pc' = IF n = 0 THEN "top" ELSE "phase"
  /\ UNCHANGED <<late, performed, crashes>>

(* An exception of the planner, the verifier or the judge fails the run.   *)
FailLater ==
  /\ pc = "phase" /\ state.phase \in {"planning", "verifying", "judging"}
  /\ pc' = "top"
  /\ UNCHANGED <<state, disk, late, performed, crashes>>

Fail ==
  /\ pc = "phase" /\ state.phase \in {"planning", "verifying", "judging"}
  /\ state' = End(state, "failed") /\ Checkpoint
  /\ pc' = "top"
  /\ UNCHANGED <<late, performed, crashes>>

(* One action: its side effect, and then its record and its checkpoint.    *)
(* An exception of the executor is a result like any other.                *)
Act ==
  /\ pc = "phase" /\ state.phase = "executing" /\ state.next < state.plan
  /\ IF BudgetSpent(state, FALSE)
     THEN /\ state' = End(state, "stopped") /\ Checkpoint
          /\ pc' = "top" /\ UNCHANGED performed
     ELSE /\ performed' = [performed EXCEPT ![<<state.iteration, state.next + 1>>] = @ + 1]
          /\ pc' = "acted" /\ UNCHANGED <<state, disk>>
  /\ UNCHANGED <<late, crashes>>

RecordWithoutIndex ==
  /\ pc = "acted"
  /\ state' = [state EXCEPT !.actions = @ + 1, !.next = @ + 1]
  /\ disk' = [disk EXCEPT !.actions = @ + 1]
  /\ pc' = "phase"
  /\ UNCHANGED <<late, performed, crashes>>

Record ==
  /\ pc = "acted"
  /\ state' = [state EXCEPT !.actions = @ + 1, !.next = @ + 1]
  /\ Checkpoint
  /\ pc' = "phase"
  /\ UNCHANGED <<late, performed, crashes>>

ActionsDone ==
  /\ pc = "phase" /\ state.phase = "executing" /\ state.next = state.plan
  /\ state' = [state EXCEPT !.phase = "verifying"] /\ Checkpoint
  /\ UNCHANGED <<pc, late, performed, crashes>>

(* The verifier observes sig; the same observation too often stops.        *)
VerifyPhaseFirst(sig) ==
  /\ pc = "phase" /\ state.phase = "verifying"
  /\ state' = [state EXCEPT !.verified = state.iteration, !.phase = "judging",
                            !.signatures = Append(@, sig)]
  /\ disk' = [disk EXCEPT !.phase = "judging"]
  /\ UNCHANGED <<pc, late, performed, crashes>>

Verify(sig) ==
  /\ pc = "phase" /\ state.phase = "verifying"
  /\ LET seen == [state EXCEPT !.verified = state.iteration,
                               !.signatures = Append(@, sig)]
         stop == Stagnant(state.signatures, sig)
     IN  /\ state' = IF stop THEN End(seen, "stopped")
                     ELSE [seen EXCEPT !.phase = "judging"]
         /\ pc' = IF stop THEN "top" ELSE "phase"
  /\ Checkpoint
  /\ UNCHANGED <<late, performed, crashes>>

(* complete, stop, or continue and replan, which differ in events only.    *)
Judge(decision) ==
  /\ pc = "phase" /\ state.phase = "judging"
  /\ state' = CASE decision = "complete" -> End(state, "completed")
                [] decision = "stop" -> End(state, "stopped")
                [] OTHER -> [state EXCEPT !.phase = "ready"]
  /\ Checkpoint
  /\ pc' = "top"
  /\ UNCHANGED <<late, performed, crashes>>

(* The process dies; another loads the checkpoint and calls resume().      *)
LoadedAtPlanning(s) == IF s.phase = "executing" THEN [s EXCEPT !.phase = "planning"]
                       ELSE s

Loaded(s) == s

Crash ==
  /\ pc # "returned" /\ crashes < MaxCrashes
  /\ crashes' = crashes + 1
  /\ state' = Loaded(disk)
  /\ pc' = "resume"
  /\ UNCHANGED <<disk, late, performed>>

(* The wall clock runs: started_at is kept across crashes.                 *)
Timeout == /\ ~late /\ state.status = "running"
           /\ late' = TRUE
           /\ UNCHANGED <<state, disk, pc, performed, crashes>>

Step == \/ Resume \/ Return \/ Top \/ Fail \/ Act \/ Record \/ ActionsDone
        \/ \E n \in 0 .. MaxPlan : Plan(n)
        \/ \E sig \in Signature : Verify(sig)
        \/ \E decision \in {"complete", "continue", "stop"} : Judge(decision)

Next == Step \/ Crash \/ Timeout

Spec == Init /\ [][Next]_vars

(* Planner, executor, verifier and judge return.                           *)
FairSpec == Spec /\ WF_vars(Step)

-----------------------------------------------------------------------------
(* Every variable keeps its type.                                          *)
TypeOK ==
  /\ state \in LoopState /\ disk \in LoopState
  /\ pc \in {"resume", "top", "phase", "acted", "returned"}
  /\ late \in BOOLEAN
  /\ performed \in [Slot -> Nat] /\ crashes \in Nat

(* "An action completed and recorded in a checkpoint is not executed       *)
(* again": only the action after the last recorded one is ever performed.  *)
RecordedOnceStep ==
  \A k \in Slot : performed'[k] # performed[k] =>
    k = <<disk.iteration, disk.next + 1>>

(* A crash costs at most one repeated action: however often the process    *)
(* dies, no more different actions are performed than the budget admits,   *)
(* and no more of them twice than there were crashes.                      *)
PerformedWithinBudget ==
  /\ disk.actions <= ActionLimit
  /\ Cardinality({k \in Slot : performed[k] > 0}) <= ActionLimit
  /\ Cardinality({k \in Slot : performed[k] > 1}) <= crashes
  /\ \A k \in Slot : performed[k] <= 1 + crashes

(* Well-typed states in which the budget holds.                            *)
EngineInv == TypeOK /\ PerformedWithinBudget

(* A run is judged, and completed, on the evidence of its own iteration,   *)
(* after every action of its plan: not on an earlier verification a crash  *)
(* left in the checkpoint.                                                 *)
JudgedOnFreshEvidence ==
  \A s \in {state, disk} :
    s.phase = "judging" \/ s.status = "completed" =>
      /\ s.verified = s.iteration
      /\ s.plan > 0 /\ s.next = s.plan
      /\ \A i \in 1 .. s.plan : performed[s.iteration, i] > 0

(* Each iteration observes once: a verification repeated after a crash     *)
(* does not count twice for stagnation.                                    *)
OneObservationPerIteration ==
  \A s \in {state, disk} :
    /\ Len(s.signatures) <= s.iteration
    /\ s.phase \in {"ready", "judging"} => Len(s.signatures) = s.iteration

(* Both: however often a run is resumed, what counts for an iteration is   *)
(* its own evidence, and that once.                                        *)
EvidenceInTurn == JudgedOnFreshEvidence /\ OneObservationPerIteration

(* "Rebuilds the plan only if the failure was in planning": a checkpointed *)
(* plan is not replaced while its iteration lasts.                         *)
PlanKeptStep ==
  disk.plan # NoPlan /\ disk'.iteration = disk.iteration => disk'.plan = disk.plan

(* Both: a resumed run goes on where the checkpoint left it.               *)
ResumedInPlace == [][RecordedOnceStep /\ PlanKeptStep]_vars

(* At most as many steps of resume() are left: four for each stage still   *)
(* to come of each iteration, and those that lead to the next stage.       *)
Stages(s) ==
  CASE s.phase = "planning"  -> MaxPlan + 5
    [] s.phase = "executing" -> s.plan - s.next + 4
    [] s.phase = "verifying" -> 3
    [] s.phase = "judging"   -> 2
    [] s.phase = "ready"     -> 1
    [] OTHER -> 0

ToStage == CASE pc = "resume" -> 3 [] pc = "top" -> 2 [] pc = "phase" -> 1 [] OTHER -> 0

StepsLeft ==
  4 * (MaxPlan + 5) * (IterationLimit - state.iteration)
    + 4 * Stages(state) + ToStage + (IF late THEN 0 ELSE 1)

(* Whatever planner, executor, verifier and judge answer, no step but a    *)
(* crash leaves the run as far from its end as it was, and what a crash    *)
(* costs is the way back to the stage it died in: neither replanning nor   *)
(* resuming can go round for ever (engine.py:67-215).                      *)
StepsRunOut ==
  [][IF crashes' = crashes THEN StepsLeft' < StepsLeft
     ELSE StepsLeft' <= StepsLeft + 3]_vars

(* resume() comes back with an ended run.                                  *)
Terminates == <>(pc = "returned" /\ state.status \in Ended)
=============================================================================
