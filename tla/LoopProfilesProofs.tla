-------------------------- MODULE LoopProfilesProofs --------------------------
(***************************************************************************)
(* What module LoopEngine keeps for every budget, every plan, every number *)
(* of crashes and whatever its ports answer.                               *)
(*                                                                         *)
(* Every step ends with memory and checkpoint equal (InStep), so a crash   *)
(* loses at most the record of the action just performed.  That action is  *)
(* the one at Current: nothing beyond it was ever performed (Frontier),    *)
(* and all but it are counted (Counted).                                   *)
(*                                                                         *)
(* The engine with the ports of a profile is the engine with free ports,   *)
(* so all this holds of the runs of every profile.  Besides, the last      *)
(* results are those of the first actions of the plan, and a verification  *)
(* among them that no patch follows saw the file as it is (WorkInv): a     *)
(* leaf reported completed has the evidence for it.  And the file is what  *)
(* the recorded patches make of the original, but for one that was         *)
(* performed and whose record is not written or lost (PatchInv).           *)
(***************************************************************************)
EXTENDS LoopProfiles, OrderLemmas, SequenceTheorems

InStep == disk = state

Current == <<state.iteration, state.next + 1>>
Did     == {k \in Slot : performed[k] > 0}
Twice   == {k \in Slot : performed[k] > 1}

Working == {"planning", "executing", "verifying", "judging"}

\* the plan is done
Through(s) == s.phase \in {"verifying", "judging"} \/ s.status = "completed"

Placed ==
  /\ state.phase = "terminal" <=> state.status \in Ended
  /\ state.iteration <= IterationLimit
  /\ state.phase \in Working \/ state.status = "completed" => state.iteration >= 1
  /\ pc \in {"phase", "acted"} => state.phase \in Working
  /\ pc = "acted" => /\ state.phase = "executing"
                     /\ state.next < state.plan
                     /\ performed[Current] > 0
  /\ state.phase = "planning" => state.plan = NoPlan /\ state.next = 0
  /\ state.phase = "executing" => state.plan \in 1 .. MaxPlan /\ state.next <= state.plan
  /\ Through(state) => state.plan \in 1 .. MaxPlan /\ state.next = state.plan
  /\ state.phase = "judging" \/ state.status = "completed"
       => state.verified = state.iteration

Evidenced ==
  state.phase = "executing" \/ Through(state) =>
    \A i \in 1 .. state.next : performed[state.iteration, i] > 0

ObservedInTurn ==
  /\ Len(state.signatures) <= state.iteration
  /\ state.phase \in {"ready", "judging"} => Len(state.signatures) = state.iteration
  /\ state.phase \in {"planning", "executing", "verifying"}
       => Len(state.signatures) + 1 = state.iteration

Frontier ==
  /\ \A k \in Did : \/ k[1] < state.iteration
                    \/ k[1] = state.iteration /\ k[2] <= state.next + 1
  /\ Current \in Did => /\ state.phase \in {"executing", "terminal"}
                        /\ state.next < state.plan
                        /\ state.actions < ActionLimit

PlaceInv == TypeOK /\ InStep /\ Placed /\ Evidenced /\ ObservedInTurn /\ Frontier

\* the record of the action at Current was lost, or it was done twice
Owed == Current \in Twice \/ (Current \in Did /\ pc # "acted")

Counted ==
  /\ Cardinality(Did \ {Current}) <= state.actions
  /\ state.actions <= ActionLimit
  /\ Cardinality(Twice \ {Current}) + (IF Owed THEN 1 ELSE 0) <= crashes
  /\ \A k \in Slot : performed[k] <= 1 + crashes
  /\ Current \in Slot /\ pc # "acted" => performed[Current] <= crashes

-----------------------------------------------------------------------------

LEMMA Limits ==
  /\ IterationLimit \in Nat \ {0} /\ ActionLimit \in Nat \ {0}
  /\ MaxPlan \in Nat \ {0}
  BY EngineAssumption DEF IterationLimit, ActionLimit, Larger

\* the types of the fields, for arithmetic on them
LEMMA Fields ==
  ASSUME NEW s \in LoopState
  PROVE  /\ s.iteration \in Nat /\ s.actions \in Nat /\ s.next \in Nat
         /\ s.plan \in Int /\ s.signatures \in Seq(Signature)
         /\ Len(s.signatures) \in Nat
  BY DEF LoopState, NoPlan

LEMMA PlaceInit == Init => PlaceInv
<1> SUFFICES ASSUME Init PROVE PlaceInv
  OBVIOUS
<1> USE Limits DEF Init
<1>1. Created \in LoopState
  BY DEF Created, LoopState, Phases, Ended, NoPlan
<1>2. TypeOK /\ InStep
  BY <1>1, EngineAssumption DEF TypeOK, InStep
<1>3. Did = {}
  BY DEF Did
<1>4. QED
  BY <1>2, <1>3
     DEF PlaceInv, Placed, Evidenced, ObservedInTurn, Frontier, Created, Through, Working, Ended

(* Ending a run, whatever it was doing.                                    *)
LEMMA EndState ==
  ASSUME NEW s \in LoopState, NEW status \in Ended
  PROVE  /\ End(s, status) \in LoopState
         /\ End(s, status).status = status /\ End(s, status).phase = "terminal"
         /\ End(s, status).iteration = s.iteration
         /\ End(s, status).actions = s.actions
         /\ End(s, status).plan = s.plan /\ End(s, status).next = s.next
         /\ End(s, status).verified = s.verified
         /\ End(s, status).signatures = s.signatures
  BY DEF End, LoopState, Ended, Phases

(* A run stopped or failed where it is keeps its place.                    *)
LEMMA EndedPlace ==
  ASSUME PlaceInv, pc # "acted",
         NEW s \in LoopState, NEW status \in {"stopped", "failed"},
         s.iteration = state.iteration, s.next = state.next,
         s.actions = state.actions, s.plan = state.plan,
         Len(s.signatures) <= s.iteration,
         state' = End(s, status), disk' = state', pc' = "top",
         UNCHANGED <<late, performed, crashes>>
  PROVE  PlaceInv'
<1>1. /\ state' \in LoopState
      /\ state'.status = status /\ state'.phase = "terminal"
      /\ state'.iteration = state.iteration /\ state'.actions = state.actions
      /\ state'.plan = state.plan /\ state'.next = state.next
      /\ state'.signatures = s.signatures
  BY EndState DEF Ended
<1>2. TypeOK' /\ InStep'
  BY <1>1 DEF PlaceInv, TypeOK, InStep
<1>3. Placed' /\ Evidenced' /\ ObservedInTurn'
  <2>1. Placed'
    BY <1>1 DEF PlaceInv, Placed, Through, Working, Ended
  <2>2. Evidenced' /\ ObservedInTurn'
    BY <1>1 DEF PlaceInv, Evidenced, ObservedInTurn, Through
  <2>3. QED BY <2>1, <2>2
<1>4. Did' = Did /\ Current' = Current
  BY <1>1 DEF Did, Current
<1>5. Frontier'
  BY <1>1, <1>4 DEF PlaceInv, Frontier
<1>6. QED BY <1>2, <1>3, <1>5 DEF PlaceInv

-----------------------------------------------------------------------------

LEMMA ResumePlace == ASSUME PlaceInv, Resume PROVE PlaceInv'
<1> USE DEF PlaceInv, TypeOK
<1>1. CASE state.status \in Ended
  <2>1. UNCHANGED <<state, disk, late, performed, crashes>> /\ pc' = "returned"
    BY <1>1 DEF Resume
  <2>2. Did' = Did /\ Current' = Current
    BY <2>1 DEF Did, Current
  <2>3. TypeOK' /\ InStep' /\ Frontier'
    BY <2>1, <2>2 DEF InStep, Frontier
  <2>4. Placed'
    BY <2>1 DEF Placed, Through
  <2>5. Evidenced' /\ ObservedInTurn'
    BY <2>1 DEF Evidenced, ObservedInTurn, Through
  <2>6. QED BY <2>3, <2>4, <2>5
<1>2. CASE state.status \notin Ended
  <2>1. state' = [state EXCEPT !.status = "running"] /\ disk' = state' /\ pc' = "top"
        /\ UNCHANGED <<late, performed, crashes>>
    BY <1>2 DEF Resume, Checkpoint
  <2>2. /\ state' \in LoopState /\ state'.status = "running"
        /\ state'.phase = state.phase /\ state'.iteration = state.iteration
        /\ state'.actions = state.actions /\ state'.plan = state.plan
        /\ state'.next = state.next /\ state'.verified = state.verified
        /\ state'.signatures = state.signatures
    BY <2>1 DEF LoopState
  <2>3. Did' = Did /\ Current' = Current
    BY <2>1, <2>2 DEF Did, Current
  <2>4. TypeOK' /\ InStep' /\ Frontier'
    BY <2>1, <2>2, <2>3 DEF InStep, Frontier
  <2>5. Placed'
    BY <1>2, <2>1, <2>2 DEF Placed, Through, Ended
  <2>6. Evidenced' /\ ObservedInTurn'
    BY <1>2, <2>1, <2>2 DEF Evidenced, ObservedInTurn, Through, Ended
  <2>7. QED BY <2>4, <2>5, <2>6
<1>3. QED BY <1>1, <1>2

LEMMA TopPlace == ASSUME PlaceInv, Top PROVE PlaceInv'
<1> USE Limits
<1>1. state \in LoopState /\ pc = "top" /\ UNCHANGED <<late, performed, crashes>>
  BY DEF PlaceInv, TypeOK, Top
<1>2. CASE BudgetSpent(state, state.phase = "ready")
  <2>1. state' = End(state, "stopped") /\ disk' = state' /\ pc' = "top"
    BY <1>2 DEF Top, Checkpoint
  <2>2. Len(state.signatures) <= state.iteration
    BY DEF PlaceInv, ObservedInTurn
  <2>3. QED BY <1>1, <2>1, <2>2, EndedPlace
<1>3. CASE ~BudgetSpent(state, state.phase = "ready") /\ state.phase = "ready"
  <2>1. /\ state' = [state EXCEPT !.iteration = @ + 1, !.phase = "planning",
                                  !.plan = NoPlan, !.next = 0]
        /\ disk' = state' /\ pc' = "phase"
    BY <1>3 DEF Top, Checkpoint
  <2>2. /\ state' \in LoopState /\ state'.phase = "planning"
        /\ state'.iteration = state.iteration + 1 /\ state'.plan = NoPlan
        /\ state'.next = 0 /\ state'.status = state.status
        /\ state'.signatures = state.signatures
    <3>1. state.iteration + 1 \in Nat /\ NoPlan \in Nat \cup {NoPlan} /\ 0 \in Nat
      BY <1>1, Fields
    <3>2. [state EXCEPT !.iteration = state.iteration + 1, !.phase = "planning",
                        !.plan = NoPlan, !.next = 0] \in LoopState
      BY <1>1, <3>1 DEF LoopState, Phases
    <3>3. QED BY <1>1, <2>1, <3>2 DEF LoopState
  <2>3. state.iteration \in Nat /\ state.iteration < IterationLimit
    BY <1>1, <1>3, Fields DEF BudgetSpent
  <2>4. TypeOK' /\ InStep'
    BY <1>1, <2>1, <2>2 DEF PlaceInv, TypeOK, InStep
  <2>5. state.status \notin Ended
    BY <1>3 DEF PlaceInv, Placed
  <2>6. Placed' /\ Evidenced'
    BY <2>1, <2>2, <2>3, <2>5 DEF Placed, Evidenced, Through, Working, Ended
  <2>12. ObservedInTurn'
    BY <1>1, <1>3, <2>2, <2>3, Fields DEF PlaceInv, ObservedInTurn
  <2>7. \A k \in Did : k[1] <= state.iteration
    BY <2>3 DEF PlaceInv, Frontier, Did, Slot
  <2>8. Did' = Did /\ Current' = <<state.iteration + 1, 1>>
    BY <1>1, <2>2 DEF Did, Current
  <2>9. Current' \notin Did'
    BY <2>3, <2>7, <2>8
  <2>10. Frontier'
    BY <2>2, <2>3, <2>7, <2>8, <2>9 DEF Frontier, Did, Slot
  <2>11. QED BY <2>4, <2>6, <2>10, <2>12 DEF PlaceInv
<1>4. CASE ~BudgetSpent(state, state.phase = "ready") /\ state.phase # "ready"
  <2>1. UNCHANGED <<state, disk>> /\ pc' = "phase" /\ state.status = "running"
    BY <1>4 DEF Top
  <2>2. state.phase \in Working
    BY <1>1, <1>4, <2>1 DEF PlaceInv, Placed, LoopState, Phases, Ended, Working
  <2>3. Did' = Did /\ Current' = Current
    BY <1>1, <2>1 DEF Did, Current
  <2>4. TypeOK' /\ InStep' /\ Frontier'
    BY <1>1, <2>1, <2>3 DEF PlaceInv, TypeOK, InStep, Frontier
  <2>5. Placed'
    BY <1>1, <2>1, <2>2 DEF PlaceInv, Placed, Through
  <2>6. Evidenced' /\ ObservedInTurn'
    BY <1>1, <2>1 DEF PlaceInv, Evidenced, ObservedInTurn, Through
  <2>7. QED BY <2>4, <2>5, <2>6 DEF PlaceInv
<1>5. QED BY <1>2, <1>3, <1>4

LEMMA PlanPlace == ASSUME PlaceInv, NEW n \in 0 .. MaxPlan, Plan(n) PROVE PlaceInv'
<1> USE Limits
<1>1. /\ state \in LoopState /\ pc = "phase" /\ state.phase = "planning"
      /\ state.next = 0 /\ state.plan = NoPlan /\ state.status \notin Ended
      /\ disk' = state' /\ UNCHANGED <<late, performed, crashes>>
  BY DEF PlaceInv, TypeOK, Placed, Plan, Checkpoint
<1>2. \A k \in Did : k[1] <= state.iteration
  BY <1>1 DEF PlaceInv, Frontier, Did, Slot, LoopState
<1>3. Current \notin Did
  BY <1>1 DEF PlaceInv, Frontier
<1>4. PICK s \in LoopState :
         /\ s.plan = n /\ s.next = 0 /\ s.iteration = state.iteration
         /\ s.actions = state.actions /\ s.signatures = state.signatures
         /\ \/ /\ n = 0 /\ state' = End(s, "stopped") /\ pc' = "top"
            \/ /\ n # 0 /\ state' = s /\ pc' = "phase"
               /\ s.phase = "executing" /\ s.status = state.status
  <2>1. CASE n = 0
    <3>1. [state EXCEPT !.plan = 0, !.next = 0] \in LoopState
      BY <1>1 DEF LoopState
    <3>2. QED BY <1>1, <2>1, <3>1 DEF Plan, LoopState
  <2>2. CASE n # 0
    <3>1. [state EXCEPT !.plan = n, !.next = 0, !.phase = "executing"] \in LoopState
      <4>1. n \in Nat \cup {NoPlan} /\ 0 \in Nat
        OBVIOUS
      <4>2. QED BY <1>1, <4>1 DEF LoopState, Phases
    <3>2. QED BY <1>1, <2>2, <3>1 DEF Plan, LoopState
  <2>3. QED BY <2>1, <2>2
<1>5. /\ state' \in LoopState /\ state'.iteration = state.iteration
      /\ state'.next = 0 /\ state'.plan = n /\ state'.signatures = state.signatures
      /\ \/ n = 0 /\ state'.phase = "terminal" /\ state'.status = "stopped"
         \/ n # 0 /\ state'.phase = "executing" /\ state'.status = state.status
  BY <1>4, EndState DEF Ended
<1>6. TypeOK' /\ InStep'
  BY <1>1, <1>4, <1>5 DEF PlaceInv, TypeOK, InStep
<1>7. Did' = Did /\ Current' = Current
  BY <1>1, <1>5 DEF Did, Current
<1>8. Frontier'
  BY <1>1, <1>3, <1>5, <1>7 DEF PlaceInv, Frontier
<1>9. ObservedInTurn'
  BY <1>1, <1>5 DEF PlaceInv, ObservedInTurn
<1>10. Placed' /\ Evidenced'
  BY <1>1, <1>4, <1>5 DEF PlaceInv, Placed, Evidenced, Through, Working, Ended, LoopState
<1>11. QED BY <1>6, <1>8, <1>9, <1>10 DEF PlaceInv

LEMMA ActPlace == ASSUME PlaceInv, Act PROVE PlaceInv'
<1> USE Limits
<1>1. /\ state \in LoopState /\ pc = "phase" /\ state.phase = "executing"
      /\ state.next < state.plan /\ UNCHANGED <<late, crashes>>
      /\ performed \in [Slot -> Nat]
  BY DEF PlaceInv, TypeOK, Act
<1>2. CASE BudgetSpent(state, FALSE)
  <2>1. state' = End(state, "stopped") /\ disk' = state' /\ pc' = "top"
        /\ UNCHANGED performed
    BY <1>2 DEF Act, Checkpoint
  <2>2. Len(state.signatures) <= state.iteration
    BY DEF PlaceInv, ObservedInTurn
  <2>3. QED BY <1>1, <2>1, <2>2, EndedPlace
<1>3. CASE ~BudgetSpent(state, FALSE)
  <2>1. /\ performed' = [performed EXCEPT ![Current] = @ + 1]
        /\ pc' = "acted" /\ UNCHANGED <<state, disk>>
    BY <1>3 DEF Act, Current
  <2>2. /\ state.iteration \in 1 .. IterationLimit
        /\ state.plan \in 1 .. MaxPlan /\ state.next \in 0 .. MaxPlan - 1
        /\ state.actions < ActionLimit
    BY <1>1, <1>3 DEF PlaceInv, Placed, Working, LoopState, BudgetSpent
  <2>3. Current \in Slot /\ Current' = Current
    BY <2>1, <2>2 DEF Current, Slot
  <2>4. /\ performed' \in [Slot -> Nat]
        /\ \A k \in Slot : performed[k] > 0 => performed'[k] > 0
        /\ performed'[Current] > 0
    BY <1>1, <2>1, <2>3
  <2>5. Did' \subseteq Did \cup {Current}
    BY <1>1, <2>1, <2>3 DEF Did
  <2>6. TypeOK' /\ InStep'
    BY <1>1, <2>1, <2>4 DEF PlaceInv, TypeOK, InStep
  <2>7. Placed' /\ ObservedInTurn'
    BY <1>1, <2>1, <2>3, <2>4 DEF PlaceInv, Placed, ObservedInTurn, Working
  <2>8. Evidenced'
    <3>1. \A i \in 1 .. state.next : <<state.iteration, i>> \in Slot
      BY <2>2 DEF Slot
    <3>2. \A i \in 1 .. state.next : performed[<<state.iteration, i>>] > 0
      BY <1>1 DEF PlaceInv, Evidenced
    <3>3. \A i \in 1 .. state.next : performed'[<<state.iteration, i>>] > 0
      BY <2>4, <3>1, <3>2
    <3>4. QED BY <2>1, <3>3 DEF Evidenced
  <2>9. Frontier'
    <3>1. Current[1] = state.iteration /\ Current[2] = state.next + 1
      BY DEF Current
    <3>2. QED BY <1>1, <2>1, <2>2, <2>3, <2>5, <3>1 DEF PlaceInv, Frontier
  <2>10. QED BY <2>6, <2>7, <2>8, <2>9 DEF PlaceInv
<1>4. QED BY <1>2, <1>3

LEMMA RecordPlace == ASSUME PlaceInv, Record PROVE PlaceInv'
<1> USE Limits
<1>1. /\ state \in LoopState /\ pc = "acted" /\ state.phase = "executing"
      /\ state.next < state.plan /\ performed[Current] > 0
      /\ state.iteration \in 1 .. IterationLimit /\ state.plan \in 1 .. MaxPlan
      /\ state' = [state EXCEPT !.actions = @ + 1, !.next = @ + 1]
      /\ disk' = state' /\ pc' = "phase" /\ UNCHANGED <<late, performed, crashes>>
  BY DEF PlaceInv, TypeOK, Placed, Working, LoopState, Record, Checkpoint
<1>2. /\ state' \in LoopState /\ state'.phase = "executing"
      /\ state'.status = state.status /\ state'.iteration = state.iteration
      /\ state'.plan = state.plan /\ state'.next = state.next + 1
      /\ state'.actions = state.actions + 1 /\ state'.signatures = state.signatures
  <2>1. state.actions + 1 \in Nat /\ state.next + 1 \in Nat
    BY <1>1, Fields
  <2>2. state' \in LoopState
    BY <1>1, <2>1 DEF LoopState
  <2>3. QED BY <1>1, <2>2 DEF LoopState
<1>3. /\ state.next \in Nat /\ state.iteration \in Nat /\ state.actions \in Nat
      /\ state.plan \in Int
  BY <1>1, Fields
<1>4. TypeOK' /\ InStep'
  BY <1>1, <1>2 DEF PlaceInv, TypeOK, InStep
<1>5. Placed' /\ ObservedInTurn'
  BY <1>1, <1>2, <1>3 DEF PlaceInv, Placed, ObservedInTurn, Working, Through
<1>6. Evidenced'
  <2>1. \A i \in 1 .. state.next : performed[<<state.iteration, i>>] > 0
    BY <1>1 DEF PlaceInv, Evidenced
  <2>2. \A i \in 1 .. state.next + 1 : i \in 1 .. state.next \/ i = state.next + 1
    BY <1>3
  <2>3. \A i \in 1 .. state.next + 1 : performed[<<state.iteration, i>>] > 0
    BY <1>1, <2>1, <2>2 DEF Current
  <2>4. QED BY <1>1, <1>2, <2>3 DEF Evidenced
<1>7. Did' = Did
  BY <1>1 DEF Did
<1>8. \A k \in Did' : \/ k[1] < state'.iteration
                      \/ k[1] = state'.iteration /\ k[2] <= state'.next
  BY <1>2, <1>7 DEF PlaceInv, Frontier
<1>9. Current' \notin Did'
  <2>1. Current'[1] = state.iteration /\ Current'[2] = state.next + 2
    BY <1>2, <1>3 DEF Current
  <2>2. QED BY <1>2, <1>3, <1>8, <2>1
<1>10. Frontier'
  BY <1>2, <1>3, <1>8, <1>9 DEF Frontier, Did, Slot
<1>11. QED BY <1>4, <1>5, <1>6, <1>10 DEF PlaceInv

LEMMA ActionsDonePlace == ASSUME PlaceInv, ActionsDone PROVE PlaceInv'
<1> USE Limits
<1>1. /\ state \in LoopState /\ pc = "phase" /\ state.phase = "executing"
      /\ state.next = state.plan
      /\ state' = [state EXCEPT !.phase = "verifying"] /\ disk' = state'
      /\ UNCHANGED <<pc, late, performed, crashes>>
  BY DEF PlaceInv, TypeOK, ActionsDone, Checkpoint
<1>2. /\ state' \in LoopState /\ state'.phase = "verifying"
      /\ state'.status = state.status /\ state'.iteration = state.iteration
      /\ state'.plan = state.plan /\ state'.next = state.next
      /\ state'.actions = state.actions /\ state'.signatures = state.signatures
  BY <1>1 DEF LoopState, Phases
<1>3. Did' = Did /\ Current' = Current /\ Current \notin Did
  BY <1>1, <1>2 DEF Did, Current, PlaceInv, Frontier, LoopState
<1>4. TypeOK' /\ InStep' /\ Frontier'
  BY <1>1, <1>2, <1>3 DEF PlaceInv, TypeOK, InStep, Frontier
<1>5. Placed'
  BY <1>1, <1>2 DEF PlaceInv, Placed, Working, Through, Ended
<1>6. Evidenced' /\ ObservedInTurn'
  BY <1>1, <1>2 DEF PlaceInv, Evidenced, ObservedInTurn
<1>7. QED BY <1>4, <1>5, <1>6 DEF PlaceInv

LEMMA VerifyPlace == ASSUME PlaceInv, NEW sig \in Signature, Verify(sig) PROVE PlaceInv'
<1> USE Limits
<1> DEFINE seen == [state EXCEPT !.verified = state.iteration,
                                 !.signatures = Append(@, sig)]
<1>1. /\ state \in LoopState /\ pc = "phase" /\ state.phase = "verifying"
      /\ state.status \notin Ended
      /\ disk' = state' /\ UNCHANGED <<late, performed, crashes>>
      /\ Len(state.signatures) + 1 = state.iteration
      /\ Current \notin Did
  BY DEF PlaceInv, TypeOK, Placed, Verify, Checkpoint, ObservedInTurn, Frontier
<1>2. /\ seen \in LoopState /\ seen.verified = state.iteration
      /\ seen.phase = state.phase
      /\ seen.status = state.status /\ seen.iteration = state.iteration
      /\ seen.plan = state.plan /\ seen.next = state.next
      /\ seen.actions = state.actions /\ seen.signatures = Append(state.signatures, sig)
  <2>1. Append(state.signatures, sig) \in Seq(Signature) /\ state.iteration \in Nat
    BY <1>1, Fields
  <2>2. seen \in LoopState
    BY <1>1, <2>1 DEF LoopState
  <2>3. QED BY <1>1, <2>2 DEF LoopState
<1>3. Len(seen.signatures) = Len(state.signatures) + 1
  <2>1. state.signatures \in Seq(Signature)
    BY <1>1, Fields
  <2> HIDE DEF seen
  <2>2. QED BY <1>2, <2>1
<1>4. Len(seen.signatures) <= seen.iteration
  <2> HIDE DEF seen
  <2>1. QED BY <1>1, <1>2, <1>3, Fields
<1>5. CASE Stagnant(state.signatures, sig)
  <2>1. state' = End(seen, "stopped") /\ pc' = "top"
    BY <1>5 DEF Verify
  <2> HIDE DEF seen
  <2>2. QED BY <1>1, <1>2, <1>4, <2>1, EndedPlace
<1>6. CASE ~Stagnant(state.signatures, sig)
  <2>1. state' = [seen EXCEPT !.phase = "judging"] /\ pc' = "phase"
    BY <1>6 DEF Verify
  <2> HIDE DEF seen
  <2>2. /\ state' \in LoopState /\ state'.phase = "judging"
        /\ state'.verified = state.iteration
        /\ state'.status = state.status /\ state'.iteration = state.iteration
        /\ state'.plan = state.plan /\ state'.next = state.next
        /\ state'.signatures = seen.signatures
    BY <1>2, <2>1 DEF LoopState, Phases
  <2>3. Did' = Did /\ Current' = Current
    BY <1>1, <2>2 DEF Did, Current
  <2>4. TypeOK' /\ InStep' /\ Frontier'
    BY <1>1, <2>1, <2>2, <2>3 DEF PlaceInv, TypeOK, InStep, Frontier
  <2>5. Placed' /\ Evidenced'
    BY <1>1, <2>1, <2>2 DEF PlaceInv, Placed, Evidenced, Working, Through
  <2>6. ObservedInTurn'
    <3>1. Len(seen.signatures) = state.iteration
      BY <1>1, <1>2, <1>3
    <3>2. QED BY <2>2, <3>1 DEF ObservedInTurn
  <2>7. QED BY <2>4, <2>5, <2>6 DEF PlaceInv
<1>7. QED BY <1>5, <1>6

LEMMA JudgePlace ==
  ASSUME PlaceInv, NEW decision, Judge(decision) PROVE PlaceInv'
<1> USE Limits
<1>1. /\ state \in LoopState /\ pc = "phase" /\ state.phase = "judging"
      /\ disk' = state' /\ pc' = "top" /\ UNCHANGED <<late, performed, crashes>>
      /\ state.status \notin Ended
      /\ state.iteration >= 1 /\ state.iteration <= IterationLimit
      /\ state.plan \in 1 .. MaxPlan /\ state.next = state.plan
      /\ state.verified = state.iteration
      /\ Len(state.signatures) = state.iteration
      /\ Current \notin Did
      /\ \A i \in 1 .. state.next : performed[<<state.iteration, i>>] > 0
  BY DEF PlaceInv, TypeOK, Placed, Evidenced, ObservedInTurn, Frontier, Judge, Checkpoint,
         Working, Through
<1>2. PICK status \in {"completed", "stopped", state.status} :
        /\ state' \in LoopState /\ state'.status = status
        /\ state'.phase = IF status \in Ended THEN "terminal" ELSE "ready"
        /\ state'.iteration = state.iteration /\ state'.plan = state.plan
        /\ state'.next = state.next /\ state'.verified = state.verified
        /\ state'.signatures = state.signatures
  <2>1. CASE decision = "complete"
    BY <1>1, <2>1, EndState DEF Judge, Ended
  <2>2. CASE decision = "stop"
    BY <1>1, <2>2, EndState DEF Judge, Ended
  <2>3. CASE decision \notin {"complete", "stop"}
    <3>1. state' = [state EXCEPT !.phase = "ready"]
      BY <2>3 DEF Judge
    <3>2. state' \in LoopState
      BY <1>1, <3>1 DEF LoopState, Phases
    <3>3. QED BY <1>1, <3>1, <3>2 DEF LoopState
  <2>4. QED BY <2>1, <2>2, <2>3
<1>3. Did' = Did /\ Current' = Current
  BY <1>1, <1>2 DEF Did, Current
<1>4. TypeOK' /\ InStep' /\ Frontier'
  BY <1>1, <1>2, <1>3 DEF PlaceInv, TypeOK, InStep, Frontier
<1>5. Placed'
  BY <1>1, <1>2 DEF Placed, Working, Through, Ended
<1>6. \A i \in 1 .. state'.next : performed'[<<state'.iteration, i>>] > 0
  <2>1. performed' = performed /\ state'.next = state.next
        /\ state'.iteration = state.iteration
    BY <1>1, <1>2
  <2>2. \A i \in 1 .. state.next : performed[<<state.iteration, i>>] > 0
    BY <1>1
  <2>3. QED BY <2>1, <2>2
<1>7. Evidenced'
  BY <1>6 DEF Evidenced
<1>8. ObservedInTurn'
  BY <1>1, <1>2, Fields DEF ObservedInTurn
<1>9. QED BY <1>4, <1>5, <1>7, <1>8 DEF PlaceInv

(* A crash finds in the checkpoint what was in memory.                     *)
LEMMA CrashPlace == ASSUME PlaceInv, Crash PROVE PlaceInv'
<1>1. /\ state' = state /\ disk' = disk /\ pc' = "resume"
      /\ UNCHANGED <<late, performed>> /\ crashes' = crashes + 1 /\ crashes \in Nat
  BY DEF PlaceInv, TypeOK, InStep, Crash, Loaded
<1>2. Did' = Did /\ Current' = Current
  BY <1>1 DEF Did, Current
<1>3. TypeOK' /\ InStep'
  BY <1>1 DEF PlaceInv, TypeOK, InStep
<1>4. Placed' /\ Frontier'
  BY <1>1, <1>2 DEF PlaceInv, Placed, Frontier
<1>5. Evidenced' /\ ObservedInTurn'
  BY <1>1 DEF PlaceInv, Evidenced, ObservedInTurn
<1>6. QED BY <1>3, <1>4, <1>5 DEF PlaceInv

LEMMA FailPlace == ASSUME PlaceInv, Fail PROVE PlaceInv'
<1>1. /\ state \in LoopState /\ pc = "phase" /\ state' = End(state, "failed")
      /\ disk' = state' /\ pc' = "top" /\ UNCHANGED <<late, performed, crashes>>
      /\ Len(state.signatures) <= state.iteration
  BY DEF PlaceInv, TypeOK, ObservedInTurn, Fail, Checkpoint
<1>2. QED BY <1>1, EndedPlace

(* The steps that change nothing but pc, and not to or from an action.     *)
LEMMA ReturnPlace ==
  ASSUME PlaceInv, Return \/ Timeout \/ UNCHANGED vars PROVE PlaceInv'
<1>1. /\ UNCHANGED <<state, disk, performed, crashes>>
      /\ pc' = pc \/ pc' = "returned"
      /\ late' \in BOOLEAN
  BY DEF PlaceInv, TypeOK, Return, Timeout, vars
<1>2. Did' = Did /\ Current' = Current
  BY <1>1 DEF Did, Current
<1>3. TypeOK' /\ InStep' /\ Frontier'
  BY <1>1, <1>2 DEF PlaceInv, TypeOK, InStep, Frontier
<1>4. Placed'
  BY <1>1, <1>2 DEF PlaceInv, Placed, Through
<1>5. Evidenced' /\ ObservedInTurn'
  BY <1>1 DEF PlaceInv, Evidenced, ObservedInTurn, Through
<1>6. QED BY <1>3, <1>4, <1>5 DEF PlaceInv

LEMMA PlaceStep == PlaceInv /\ [Next]_vars => PlaceInv'
<1> SUFFICES ASSUME PlaceInv, [Next]_vars PROVE PlaceInv'
  OBVIOUS
<1>1. CASE Resume
  BY <1>1, ResumePlace
<1>2. CASE Return \/ Timeout \/ UNCHANGED vars
  BY <1>2, ReturnPlace
<1>3. CASE Top
  BY <1>3, TopPlace
<1>4. CASE Fail
  BY <1>4, FailPlace
<1>5. CASE Act
  BY <1>5, ActPlace
<1>6. CASE Record
  BY <1>6, RecordPlace
<1>7. CASE ActionsDone
  BY <1>7, ActionsDonePlace
<1>8. ASSUME NEW n \in 0 .. MaxPlan, Plan(n) PROVE PlaceInv'
  BY <1>8, PlanPlace
<1>9. ASSUME NEW sig \in Signature, Verify(sig) PROVE PlaceInv'
  BY <1>9, VerifyPlace
<1>10. ASSUME NEW decision \in {"complete", "continue", "stop"}, Judge(decision)
       PROVE  PlaceInv'
  BY <1>10, JudgePlace
<1>11. CASE Crash
  BY <1>11, CrashPlace
<1>12. QED BY <1>1, <1>2, <1>3, <1>4, <1>5, <1>6, <1>7, <1>8, <1>9, <1>10, <1>11
           DEF Next, Step

LEMMA PlaceInvariance == Spec => []PlaceInv
  BY PlaceInit, PlaceStep, PTL DEF Spec

(* A run is judged and completed on its own iteration's evidence.          *)
LEMMA FreshEvidence == Spec => []JudgedOnFreshEvidence
<1>1. PlaceInv => JudgedOnFreshEvidence
  <2> SUFFICES ASSUME PlaceInv, state.phase = "judging" \/ state.status = "completed"
               PROVE  /\ state.verified = state.iteration
                      /\ state.plan > 0 /\ state.next = state.plan
                      /\ \A i \in 1 .. state.plan : performed[state.iteration, i] > 0
    BY DEF PlaceInv, InStep, JudgedOnFreshEvidence
  <2>1. state.verified = state.iteration /\ state.plan \in 1 .. MaxPlan
        /\ state.next = state.plan
    BY Limits DEF PlaceInv, Placed, Through
  <2>2. \A i \in 1 .. state.next : performed[state.iteration, i] > 0
    BY DEF PlaceInv, Evidenced, Through
  <2>3. \A i \in 1 .. state.plan : performed[state.iteration, i] > 0
    BY <2>1, <2>2
  <2>4. state.plan > 0
    BY <2>1, Limits
  <2>5. QED BY <2>1, <2>3, <2>4
<1>2. QED BY <1>1, PlaceInvariance, PTL

(* A verification repeated after a crash does not count twice.             *)
LEMMA OneObservation == Spec => []OneObservationPerIteration
<1>1. PlaceInv => OneObservationPerIteration
  BY DEF PlaceInv, InStep, ObservedInTurn, OneObservationPerIteration
<1>2. QED BY <1>1, PlaceInvariance, PTL

(* However often a run is resumed, it is judged on the evidence of its own *)
(* iteration, which is counted once.                                       *)
THEOREM EvidenceIsInTurn == Spec => []EvidenceInTurn
<1>1. JudgedOnFreshEvidence /\ OneObservationPerIteration => EvidenceInTurn
  BY DEF EvidenceInTurn
<1>2. QED BY <1>1, FreshEvidence, OneObservation, PTL

(* A resumed run performs the action after the last recorded one and keeps *)
(* the plan of the checkpoint.                                             *)
THEOREM ResumesInPlace == Spec => ResumedInPlace
<1>1. PlaceInv /\ [Next]_vars => [RecordedOnceStep /\ PlanKeptStep]_vars
  <2> SUFFICES ASSUME PlaceInv, Next PROVE RecordedOnceStep /\ PlanKeptStep
    OBVIOUS
  <2>1. RecordedOnceStep
    <3>1. CASE Act
      <4>1. performed' = performed
            \/ performed' = [performed EXCEPT ![Current] = @ + 1]
        BY <3>1 DEF Act, Current
      <4>2. performed \in [Slot -> Nat] /\ Current = <<disk.iteration, disk.next + 1>>
        BY DEF PlaceInv, TypeOK, InStep, Current
      <4>3. QED BY <4>1, <4>2 DEF RecordedOnceStep
    <3>2. CASE performed' = performed
      BY <3>2 DEF RecordedOnceStep
    <3>3. QED BY <3>1, <3>2
         DEF Next, Step, Resume, Return, Top, Fail, Record, ActionsDone, Plan, Verify,
             Judge, Crash, Timeout
  <2>2. PlanKeptStep
    <3> USE DEF PlanKeptStep
    <3>1. disk = state /\ state \in LoopState
      BY DEF PlaceInv, InStep, TypeOK
    <3>2. \A s \in LoopState, status \in Ended :
            End(s, status).plan = s.plan
      BY EndState
    <3>3. CASE Top
      <4>1. CASE BudgetSpent(state, state.phase = "ready")
        BY <3>1, <3>2, <3>3, <4>1 DEF Top, Checkpoint, Ended
      <4>2. CASE ~BudgetSpent(state, state.phase = "ready")
        <5>1. CASE state.phase = "ready"
          <6>1. disk' = [state EXCEPT !.iteration = @ + 1, !.phase = "planning",
                                      !.plan = NoPlan, !.next = 0]
            BY <3>3, <4>2, <5>1 DEF Top, Checkpoint
          <6>2. disk'.iteration = state.iteration + 1 /\ state.iteration \in Nat
            BY <3>1, <6>1 DEF LoopState
          <6>3. QED BY <3>1, <6>2
        <5>2. CASE state.phase # "ready"
          BY <3>3, <4>2, <5>2 DEF Top
        <5>3. QED BY <5>1, <5>2
      <4>3. QED BY <4>1, <4>2
    <3>4. ASSUME NEW n \in 0 .. MaxPlan, Plan(n) PROVE PlanKeptStep
      BY <3>1, <3>4 DEF Plan, PlaceInv, Placed
    <3>5. CASE Resume \/ Fail \/ Act \/ Record \/ ActionsDone
      <4>1. CASE Resume \/ Fail
        BY <3>1, <3>2, <4>1 DEF Resume, Fail, Checkpoint, Ended, LoopState
      <4>2. CASE Act
        BY <3>1, <3>2, <4>2 DEF Act, Checkpoint, Ended
      <4>3. CASE Record \/ ActionsDone
        BY <3>1, <4>3 DEF Record, ActionsDone, Checkpoint, LoopState
      <4>4. QED BY <3>5, <4>1, <4>2, <4>3
    <3>6. ASSUME NEW sig \in Signature, Verify(sig) PROVE PlanKeptStep
      <4> DEFINE seen == [state EXCEPT !.verified = state.iteration,
                                       !.signatures = Append(@, sig)]
      <4>1. seen.plan = state.plan
        BY <3>1 DEF LoopState
      <4>2. disk' = End(seen, "stopped") \/ disk' = [seen EXCEPT !.phase = "judging"]
        BY <3>6 DEF Verify, Checkpoint
      <4>3. disk'.plan = state.plan
        BY <3>1, <4>1, <4>2 DEF End, LoopState
      <4>4. QED BY <3>1, <4>3
    <3>7. ASSUME NEW decision \in {"complete", "continue", "stop"}, Judge(decision)
          PROVE  PlanKeptStep
      BY <3>1, <3>2, <3>7 DEF Judge, Checkpoint, Ended, LoopState
    <3>8. CASE Return \/ Crash \/ Timeout
      BY <3>8 DEF Return, Crash, Timeout
    <3>9. QED BY <3>3, <3>4, <3>5, <3>6, <3>7, <3>8 DEF Next, Step
  <2>3. QED BY <2>1, <2>2
<1>2. QED BY <1>1, PlaceInvariance, PTL DEF Spec, ResumedInPlace

-----------------------------------------------------------------------------
(* How often actions are performed.                                        *)

LEMMA DidFinite ==
  /\ IsFiniteSet(Did) /\ Cardinality(Did) \in Nat
  /\ IsFiniteSet(Twice) /\ Cardinality(Twice) \in Nat
  /\ \A x : /\ IsFiniteSet(Did \ {x}) /\ Cardinality(Did \ {x}) \in Nat
            /\ IsFiniteSet(Twice \ {x}) /\ Cardinality(Twice \ {x}) \in Nat
<1>1. IsFiniteSet(1 .. IterationLimit) /\ IsFiniteSet(1 .. MaxPlan)
  BY Limits, FS_Interval
<1>2. IsFiniteSet(Slot)
  BY <1>1, FS_Product DEF Slot
<1>3. Did \in SUBSET Slot /\ Twice \in SUBSET Slot
  BY DEF Did, Twice
<1>4. \A S \in SUBSET Slot : IsFiniteSet(S) /\ Cardinality(S) \in Nat
  BY <1>2, FS_Subset, FS_CardinalityType
<1>5. \A x : Did \ {x} \in SUBSET Slot /\ Twice \ {x} \in SUBSET Slot
  BY <1>3
<1>6. QED BY <1>3, <1>4, <1>5

LEMMA Without ==
  ASSUME NEW S, IsFiniteSet(S), NEW x
  PROVE  /\ Cardinality(S) \in Nat /\ Cardinality(S \ {x}) \in Nat
         /\ x \in S => Cardinality(S) = Cardinality(S \ {x}) + 1
         /\ x \notin S => Cardinality(S) = Cardinality(S \ {x})
<1>1. Cardinality(S) \in Nat
  BY FS_CardinalityType
<1>2. IsFiniteSet(S \ {x})
  BY FS_RemoveElement
<1>3. Cardinality(S \ {x}) \in Nat
  BY <1>2, FS_CardinalityType
<1>4. CASE x \in S
  <2>1. Cardinality(S \ {x}) = Cardinality(S) - 1
    BY <1>4, FS_RemoveElement
  <2>2. QED BY <1>1, <1>3, <1>4, <2>1
<1>5. CASE x \notin S
  <2>1. S \ {x} = S
    BY <1>5
  <2>2. QED BY <1>1, <1>3, <1>5, <2>1
<1>6. QED BY <1>4, <1>5

(* All the actions performed twice, and all performed.                     *)
LEMMA TwiceCount == ASSUME PlaceInv, Counted PROVE Cardinality(Twice) <= crashes
<1>1. crashes \in Nat
  BY DEF PlaceInv, TypeOK
<1>2. IsFiniteSet(Twice)
  BY DidFinite
<1>3. /\ Cardinality(Twice) \in Nat /\ Cardinality(Twice \ {Current}) \in Nat
      /\ Current \in Twice => Cardinality(Twice) = Cardinality(Twice \ {Current}) + 1
      /\ Current \notin Twice => Cardinality(Twice) = Cardinality(Twice \ {Current})
  BY <1>2, Without
<1>4. Cardinality(Twice \ {Current}) + (IF Owed THEN 1 ELSE 0) <= crashes
  BY DEF Counted
<1>5. Current \in Twice => Owed
  BY DEF Owed
<1>6. QED BY <1>1, <1>3, <1>4, <1>5

LEMMA DidCount ==
  /\ Cardinality(Did) \in Nat /\ Cardinality(Did \ {Current}) \in Nat
  /\ Current \in Did => Cardinality(Did) = Cardinality(Did \ {Current}) + 1
  /\ Current \notin Did => Cardinality(Did) = Cardinality(Did \ {Current})
  BY DidFinite, Without

(* Steps that move neither the place nor the counts.                       *)
LEMMA QuietCount ==
  ASSUME PlaceInv, Counted, UNCHANGED <<performed, crashes>>,
         state'.iteration = state.iteration, state'.next = state.next,
         state'.actions = state.actions, pc' = "acted" <=> pc = "acted"
  PROVE  Counted'
<1>1. Did' = Did /\ Twice' = Twice /\ Current' = Current /\ (Owed' <=> Owed)
  BY DEF Did, Twice, Current, Owed
<1>2. QED BY <1>1 DEF Counted

(* A crash pays for the one record that may be lost with it.               *)
LEMMA CrashCount == ASSUME PlaceInv, Counted, Crash PROVE Counted'
<1>1. /\ state' = state /\ performed' = performed /\ crashes' = crashes + 1
      /\ pc' = "resume" /\ crashes \in Nat /\ performed \in [Slot -> Nat]
  BY DEF PlaceInv, TypeOK, InStep, Crash, Loaded
<1>2. Did' = Did /\ Twice' = Twice /\ Current' = Current
  BY <1>1 DEF Did, Twice, Current
<1>3. Cardinality(Twice \ {Current}) \in Nat
  BY DidFinite
<1>4. Cardinality(Twice' \ {Current'}) + (IF Owed' THEN 1 ELSE 0) <= crashes'
  <2>1. Cardinality(Twice \ {Current}) <= crashes
    BY <1>1, <1>3 DEF Counted
  <2>2. QED BY <1>1, <1>2, <1>3, <2>1
<1>5. \A k \in Slot : performed[k] \in Nat /\ performed[k] <= 1 + crashes
  BY <1>1 DEF Counted
<1>6. \A k \in Slot : performed'[k] <= 1 + crashes' /\ performed'[k] <= crashes'
  BY <1>1, <1>5
<1>7. QED BY <1>1, <1>2, <1>4, <1>6 DEF Counted

(* An action is performed again only if its record was lost.               *)
LEMMA ActCount == ASSUME PlaceInv, Counted, Act PROVE Counted'
<1>1. state \in LoopState /\ performed \in [Slot -> Nat] /\ crashes \in Nat
      /\ pc = "phase" /\ state.phase = "executing" /\ state.next < state.plan
      /\ crashes' = crashes
  BY DEF PlaceInv, TypeOK, Act
<1>2. CASE BudgetSpent(state, FALSE)
  <2>1. state' = End(state, "stopped") /\ pc' = "top" /\ performed' = performed
    BY <1>2 DEF Act
  <2>2. QED BY <1>1, <2>1, EndState, QuietCount DEF Ended
<1>3. CASE ~BudgetSpent(state, FALSE)
  <2>1. /\ performed' = [performed EXCEPT ![Current] = @ + 1]
        /\ pc' = "acted" /\ state' = state
    BY <1>3 DEF Act, Current
  <2>2. Current \in Slot
    BY <1>1, Limits, Fields DEF PlaceInv, Placed, Working, Current, Slot
  <2>3. /\ Did' \ {Current} = Did \ {Current}
        /\ Twice' \ {Current} = Twice \ {Current}
        /\ Current \in Twice' => Current \in Did
    BY <1>1, <2>1, <2>2 DEF Did, Twice
  <2>4. Current' = Current /\ (Owed' => Owed)
    BY <1>1, <2>1, <2>3 DEF Current, Owed
  <2>5. Cardinality(Twice \ {Current}) \in Nat
    BY DidFinite
  <2>6. Cardinality(Twice' \ {Current'}) + (IF Owed' THEN 1 ELSE 0) <= crashes'
    <3>1. Cardinality(Twice' \ {Current'}) = Cardinality(Twice \ {Current})
      BY <2>3, <2>4
    <3>2. Cardinality(Twice \ {Current}) + (IF Owed THEN 1 ELSE 0) <= crashes
      BY DEF Counted
    <3>3. QED BY <1>1, <2>4, <2>5, <3>1, <3>2
  <2>7. performed[Current] <= crashes
    BY <1>1, <2>2 DEF Counted
  <2>8. \A k \in Slot : performed'[k] <= 1 + crashes'
    BY <1>1, <2>1, <2>2, <2>7 DEF Counted
  <2>9. QED BY <2>1, <2>3, <2>4, <2>6, <2>8 DEF Counted
<1>4. QED BY <1>2, <1>3

(* Its record counts the action and moves on to one never performed.       *)
LEMMA RecordCount == ASSUME PlaceInv, Counted, Record PROVE Counted'
<1>1. /\ state \in LoopState /\ performed \in [Slot -> Nat] /\ crashes \in Nat
      /\ pc = "acted" /\ UNCHANGED <<performed, crashes>> /\ pc' = "phase"
      /\ state' = [state EXCEPT !.actions = @ + 1, !.next = @ + 1]
      /\ performed[Current] > 0
      /\ state.iteration \in 1 .. IterationLimit
      /\ state.next \in 0 .. MaxPlan - 1
  <2>1. pc = "acted" /\ state \in LoopState /\ state.phase = "executing"
    BY DEF PlaceInv, TypeOK, Placed, Record
  <2>2. QED BY <2>1, Limits, Fields DEF PlaceInv, TypeOK, Placed, Working, Record
<1>2. Current \in Did
  <2>1. Current \in Slot
    BY <1>1, Limits DEF Current, Slot
  <2>2. QED BY <1>1, <2>1 DEF Did
<1>3. state.actions < ActionLimit /\ state.actions \in Nat
  BY <1>1, <1>2, Fields DEF PlaceInv, Frontier
<1>4. /\ state'.actions = state.actions + 1 /\ state'.next = state.next + 1
      /\ state'.iteration = state.iteration /\ state.next \in Nat
  BY <1>1, Fields DEF LoopState
<1>5. Did' = Did /\ Twice' = Twice
  BY <1>1 DEF Did, Twice
<1>6. Current' \notin Did
  <2>1. Current'[1] = state.iteration /\ Current'[2] = state.next + 2
    BY <1>4 DEF Current
  <2>2. \A k \in Did : ~(k[1] = state.iteration /\ k[2] = state.next + 2)
    BY <1>1, <1>4 DEF PlaceInv, Frontier
  <2>3. QED BY <2>1, <2>2
<1>7. Current' \notin Twice /\ ~Owed'
  BY <1>1, <1>5, <1>6 DEF Twice, Did, Owed
<1>8. Did' \ {Current'} = Did /\ Twice' \ {Current'} = Twice
  BY <1>5, <1>6, <1>7
<1>9. Cardinality(Did) = Cardinality(Did \ {Current}) + 1
  BY <1>2, DidCount
<1>10. Cardinality(Twice) <= crashes
  BY TwiceCount
<1>11. Cardinality(Did \ {Current}) <= state.actions /\ Cardinality(Did \ {Current}) \in Nat
  BY DidCount DEF Counted
<1>12. /\ Cardinality(Did' \ {Current'}) <= state'.actions
       /\ state'.actions <= ActionLimit
  BY <1>3, <1>4, <1>8, <1>9, <1>11, Limits
<1>13. Cardinality(Twice' \ {Current'}) + (IF Owed' THEN 1 ELSE 0) <= crashes'
  BY <1>1, <1>7, <1>8, <1>10, DidFinite
<1>14. \A k \in Slot : performed'[k] <= 1 + crashes'
  BY <1>1 DEF Counted
<1>15. Current' \in Slot => performed'[Current'] <= crashes'
  BY <1>1, <1>6 DEF Did
<1>16. QED BY <1>12, <1>13, <1>14, <1>15 DEF Counted

(* A new iteration starts at an action never performed.                    *)
LEMMA TopCount == ASSUME PlaceInv, Counted, Top PROVE Counted'
<1>1. /\ state \in LoopState /\ performed \in [Slot -> Nat] /\ crashes \in Nat
      /\ pc = "top" /\ UNCHANGED <<performed, crashes>>
      /\ pc' \in {"top", "phase"}
  BY DEF PlaceInv, TypeOK, Top
<1>2. CASE state' = End(state, "stopped")
  BY <1>1, <1>2, EndState, QuietCount DEF Ended
<1>3. CASE state' = state
  BY <1>1, <1>3, QuietCount
<1>4. CASE /\ state.phase = "ready"
           /\ state' = [state EXCEPT !.iteration = @ + 1, !.phase = "planning",
                                     !.plan = NoPlan, !.next = 0]
  <2>1. state'.iteration = state.iteration + 1 /\ state'.actions = state.actions
        /\ state.iteration \in Nat
    BY <1>1, <1>4, Fields DEF LoopState
  <2>2. Current \notin Did
    BY <1>4 DEF PlaceInv, Frontier
  <2>3. Current' \notin Did
    <3>1. Current'[1] = state.iteration + 1
      BY <2>1 DEF Current
    <3>2. \A k \in Did : k[1] # state.iteration + 1
      BY <2>1 DEF PlaceInv, Frontier, Did, Slot
    <3>3. QED BY <3>1, <3>2
  <2>4. Did' = Did /\ Twice' = Twice /\ Twice \subseteq Did
    BY <1>1 DEF Did, Twice
  <2>5. /\ Did' \ {Current'} = Did \ {Current}
        /\ Twice' \ {Current'} = Twice \ {Current}
        /\ ~Owed' /\ ~Owed
    BY <2>2, <2>3, <2>4 DEF Owed
  <2>6. Current' \in Slot => performed'[Current'] <= crashes'
    BY <1>1, <2>3 DEF Did
  <2>7. QED BY <1>1, <2>1, <2>5, <2>6 DEF Counted
<1>5. QED BY <1>2, <1>3, <1>4 DEF Top

LEMMA CountStep == PlaceInv /\ Counted /\ [Next]_vars => Counted'
<1> SUFFICES ASSUME PlaceInv, Counted, [Next]_vars PROVE Counted'
  OBVIOUS
<1>a. state \in LoopState
  BY DEF PlaceInv, TypeOK
<1>1. CASE Resume
  BY <1>1, <1>a, QuietCount DEF Resume, LoopState
<1>2. CASE Return \/ Timeout \/ UNCHANGED vars
  BY <1>2, QuietCount DEF Return, Timeout, vars
<1>3. CASE Top
  BY <1>3, TopCount
<1>4. CASE Fail
  BY <1>4, <1>a, EndState, QuietCount DEF Fail, Ended
<1>5. CASE Act
  BY <1>5, ActCount
<1>6. CASE Record
  BY <1>6, RecordCount
<1>7. CASE ActionsDone
  BY <1>7, <1>a, QuietCount DEF ActionsDone, LoopState
<1>8. ASSUME NEW n \in 0 .. MaxPlan, Plan(n) PROVE Counted'
  <2>1. state.next = 0 /\ pc = "phase" /\ pc' # "acted" /\ UNCHANGED <<performed, crashes>>
    BY <1>8 DEF Plan, PlaceInv, Placed
  <2>2. state'.iteration = state.iteration /\ state'.actions = state.actions
        /\ state'.next = 0
    BY <1>8, <1>a DEF Plan, End, LoopState
  <2>3. QED BY <2>1, <2>2, QuietCount
<1>9. ASSUME NEW sig \in Signature, Verify(sig) PROVE Counted'
  <2>1. pc = "phase" /\ pc' # "acted" /\ UNCHANGED <<performed, crashes>>
    BY <1>9 DEF Verify
  <2>2. state'.iteration = state.iteration /\ state'.actions = state.actions
        /\ state'.next = state.next
    <3> DEFINE seen == [state EXCEPT !.verified = state.iteration,
                                     !.signatures = Append(@, sig)]
    <3>1. state' = End(seen, "stopped") \/ state' = [seen EXCEPT !.phase = "judging"]
      BY <1>9 DEF Verify
    <3>2. QED BY <3>1, <1>a DEF End, LoopState
  <2>3. QED BY <2>1, <2>2, QuietCount
<1>10. ASSUME NEW decision \in {"complete", "continue", "stop"}, Judge(decision)
       PROVE  Counted'
  <2>1. pc = "phase" /\ pc' = "top" /\ UNCHANGED <<performed, crashes>>
    BY <1>10 DEF Judge
  <2>2. state'.iteration = state.iteration /\ state'.actions = state.actions
        /\ state'.next = state.next
    BY <1>10, <1>a DEF Judge, End, LoopState
  <2>3. QED BY <2>1, <2>2, QuietCount
<1>11. CASE Crash
  BY <1>11, CrashCount
<1>12. QED BY <1>1, <1>2, <1>3, <1>4, <1>5, <1>6, <1>7, <1>8, <1>9, <1>10, <1>11
           DEF Next, Step

LEMMA CountInit == Init => Counted
<1> SUFFICES ASSUME Init PROVE Counted
  OBVIOUS
<1>1. Did = {} /\ Twice = {}
  BY DEF Init, Did, Twice
<1>2. Cardinality(Did \ {Current}) = 0 /\ Cardinality(Twice \ {Current}) = 0
  BY <1>1, FS_EmptySet
<1>3. ~Owed
  BY <1>1 DEF Owed
<1>4. state.actions = 0 /\ crashes = 0 /\ \A k \in Slot : performed[k] = 0
  BY DEF Init, Created
<1>5. QED BY <1>2, <1>3, <1>4, Limits DEF Counted

(* What the counts say of all actions, with the one at Current.            *)
LEMMA CountedMeans == PlaceInv /\ Counted => EngineInv
<1> SUFFICES ASSUME PlaceInv, Counted PROVE EngineInv
  OBVIOUS
<1>1. /\ disk.actions <= ActionLimit
      /\ \A k \in Slot : performed[k] <= 1 + crashes
      /\ state.actions \in Nat /\ crashes \in Nat
  BY Fields DEF PlaceInv, TypeOK, InStep, Counted
<1>2. Cardinality(Did) <= ActionLimit
  <2>1. /\ Cardinality(Did \ {Current}) <= state.actions
        /\ state.actions <= ActionLimit
        /\ Current \in Did => state.actions < ActionLimit
    BY DEF Counted, PlaceInv, Frontier
  <2>2. QED BY <1>1, <2>1, DidCount, Limits
<1>3. Cardinality(Twice) <= crashes
  BY TwiceCount
<1>4. QED BY <1>1, <1>2, <1>3
     DEF EngineInv, PerformedWithinBudget, Did, Twice, PlaceInv

(* However often the process dies, the budget holds, and no more actions   *)
(* are performed twice than there were crashes.                            *)
THEOREM BudgetHolds == Spec => []EngineInv
<1>1. PlaceInv /\ Counted /\ [Next]_vars => (PlaceInv /\ Counted)'
  BY PlaceStep, CountStep
<1>2. Init => PlaceInv /\ Counted
  BY PlaceInit, CountInit
<1>3. QED BY <1>1, <1>2, CountedMeans, PTL DEF Spec

-----------------------------------------------------------------------------
(* How many steps are left.                                                *)

IterationSteps == 4 * (MaxPlan + 5)
ToJudgement    == 4 * Stages(state) + ToStage + (IF late THEN 0 ELSE 1)

LEMMA Distributed ==
  ASSUME NEW w \in Nat, NEW k \in Int
  PROVE  /\ w * (k - 1) = w * k - w /\ w * k \in Int
         /\ k >= 0 => w * k >= 0
  OBVIOUS

\* what the place says of the stages, and of the steps, to come
StagesFit ==
  /\ Stages(state) \in 0 .. MaxPlan + 5 /\ ToStage \in 0 .. 3
  /\ state.phase = "planning" => Stages(state) = MaxPlan + 5
  /\ state.phase = "executing" =>
       /\ Stages(state) = state.plan - state.next + 4
       /\ state.plan - state.next \in 0 .. MaxPlan
  /\ state.phase = "verifying" => Stages(state) = 3
  /\ state.phase = "judging" => Stages(state) = 2
  /\ state.phase = "ready" => Stages(state) = 1
  /\ state.phase = "terminal" => Stages(state) = 0
  /\ state.phase # "terminal" => Stages(state) >= 1

StepsFit ==
  /\ StepsLeft = IterationSteps * (IterationLimit - state.iteration) + ToJudgement
  /\ IterationSteps * (IterationLimit - state.iteration) \in Nat
  /\ ToJudgement \in Nat /\ IterationSteps \in Nat
  /\ IterationLimit - state.iteration \in Nat

LEMMA StagesLeft == PlaceInv => StagesFit
<1> SUFFICES ASSUME PlaceInv PROVE StagesFit
  OBVIOUS
<1>1. state \in LoopState /\ state.phase \in Phases /\ state.next \in Nat
  BY DEF PlaceInv, TypeOK, LoopState
<1>2. state.phase = "executing" => state.plan \in 1 .. MaxPlan /\ state.next <= state.plan
  BY DEF PlaceInv, Placed
<1>3. ToStage \in 0 .. 3
  BY DEF ToStage
<1>4. QED BY <1>1, <1>2, <1>3, Limits DEF StagesFit, Stages, Phases

LEMMA StepsLeftIs == PlaceInv => StepsFit
<1> SUFFICES ASSUME PlaceInv PROVE StepsFit
  OBVIOUS
<1>1. state.iteration \in Nat /\ state.iteration <= IterationLimit
  BY Fields DEF PlaceInv, TypeOK, Placed
<1>2. IterationSteps \in Nat /\ IterationLimit - state.iteration \in Nat
  BY <1>1, Limits DEF IterationSteps
<1>3. IterationSteps * (IterationLimit - state.iteration) \in Nat
  BY <1>2, Distributed
<1>4. ToJudgement \in Nat
  BY StagesLeft, Limits DEF StagesFit, ToJudgement
<1>5. StepsLeft = IterationSteps * (IterationLimit - state.iteration) + ToJudgement
  <2> DEFINE far == 4 * (MaxPlan + 5) * (IterationLimit - state.iteration)
  <2>1. far \in Int
    BY <1>3 DEF IterationSteps
  <2> HIDE DEF far
  <2>2. StepsLeft = far + 4 * Stages(state) + ToStage + (IF late THEN 0 ELSE 1)
    BY DEF StepsLeft, far
  <2>3. StepsLeft = far + ToJudgement
    BY <2>1, <2>2, StagesLeft, Limits DEF StagesFit, ToJudgement
  <2>4. QED BY <2>3 DEF far, IterationSteps
<1>6. QED BY <1>2, <1>3, <1>4, <1>5 DEF StepsFit

LEMMA StepsFitBothTimes ==
  PlaceInv /\ PlaceInv' => StagesFit /\ StagesFit' /\ StepsFit /\ StepsFit'
  BY StagesLeft, StepsLeftIs, PTL

(* Within an iteration.                                                    *)
LEMMA Nearer ==
  ASSUME PlaceInv, PlaceInv', state'.iteration = state.iteration
  PROVE  StepsLeft' - StepsLeft = ToJudgement' - ToJudgement
<1>1. IterationSteps' = IterationSteps /\ IterationLimit' = IterationLimit
  BY DEF IterationSteps, IterationLimit, Larger
<1> DEFINE far == IterationSteps * (IterationLimit - state.iteration)
<1>2. StepsLeft = far + ToJudgement /\ far \in Nat /\ ToJudgement \in Nat
  BY StepsFitBothTimes DEF StepsFit
<1>3. StepsLeft' = far' + ToJudgement' /\ ToJudgement' \in Nat
  BY StepsFitBothTimes DEF StepsFit
<1>4. far' = far
  BY <1>1
<1> HIDE DEF far
<1>5. QED BY <1>2, <1>3, <1>4

(* A run that stops where it is has nothing more to do.                    *)
LEMMA EndedSteps ==
  ASSUME PlaceInv, PlaceInv', state.phase # "terminal", pc # "resume", pc' = "top",
         late' = late,
         state'.phase = "terminal", state'.iteration = state.iteration
  PROVE  StepsLeft' < StepsLeft
<1>1. StepsLeft' - StepsLeft = ToJudgement' - ToJudgement
  BY Nearer
<1>2. ToJudgement' = 2 + (IF late THEN 0 ELSE 1)
  <2>1. Stages(state') = 0 /\ ToStage' = 2
    BY StepsFitBothTimes DEF StagesFit, ToStage
  <2>2. QED BY <2>1 DEF ToJudgement
<1>3. Stages(state) \in Nat /\ Stages(state) >= 1 /\ ToStage \in Nat
  BY StepsFitBothTimes, Limits DEF StagesFit
<1>4. ToJudgement' < ToJudgement
  BY <1>2, <1>3 DEF ToJudgement
<1>5. StepsLeft \in Int /\ StepsLeft' \in Int /\ ToJudgement \in Int /\ ToJudgement' \in Int
  BY StepsFitBothTimes DEF StepsFit
<1>6. QED BY <1>1, <1>4, <1>5

LEMMA StagesNatural ==
  ASSUME PlaceInv, PlaceInv'
  PROVE  /\ Stages(state) \in Nat /\ ToStage \in Nat
         /\ Stages(state') \in Nat /\ ToStage' \in Nat
<1>1. MaxPlan + 5 \in Nat
  BY Limits
<1>2. Stages(state) \in 0 .. MaxPlan + 5 /\ ToStage \in 0 .. 3
  BY StepsFitBothTimes DEF StagesFit
<1>3. Stages(state') \in 0 .. MaxPlan + 5 /\ ToStage' \in 0 .. 3
  BY StepsFitBothTimes DEF StagesFit
<1>4. QED BY <1>1, <1>2, <1>3

(* A step within the iteration, to a later stage or to this one.           *)
LEMMA NextStage ==
  ASSUME PlaceInv, PlaceInv', late' = late, state'.iteration = state.iteration,
         4 * Stages(state') + ToStage' < 4 * Stages(state) + ToStage
  PROVE  StepsLeft' < StepsLeft
<1>1. StepsLeft' - StepsLeft = ToJudgement' - ToJudgement
  BY Nearer
<1>2. /\ Stages(state) \in Nat /\ ToStage \in Nat
      /\ Stages(state') \in Nat /\ ToStage' \in Nat
  BY StagesNatural
<1>3. ToJudgement' < ToJudgement
  BY <1>2 DEF ToJudgement
<1>4. StepsLeft \in Int /\ StepsLeft' \in Int /\ ToJudgement \in Int /\ ToJudgement' \in Int
  BY StepsFitBothTimes DEF StepsFit
<1>5. QED BY <1>1, <1>3, <1>4

(* A new iteration is paid for by those to come.                           *)
LEMMA TopSteps == ASSUME PlaceInv, PlaceInv', Top PROVE StepsLeft' < StepsLeft
<1>1. /\ state \in LoopState /\ pc = "top" /\ late' = late
      /\ state.status = "running" /\ state.phase # "terminal"
  BY DEF PlaceInv, TypeOK, Placed, Ended, Top
<1>2. CASE state' = End(state, "stopped") /\ pc' = "top"
  BY <1>1, <1>2, EndState, EndedSteps DEF Ended
<1>3. CASE state' = state /\ pc' = "phase"
  <2>1. ToStage' < ToStage /\ ToStage \in Nat /\ ToStage' \in Nat
        /\ Stages(state) \in Nat
    BY <1>1, <1>3, StepsFitBothTimes, Limits DEF StagesFit, ToStage
  <2>2. QED BY <1>1, <1>3, <2>1, NextStage
<1>4. CASE /\ state.phase = "ready" /\ pc' = "phase"
           /\ state' = [state EXCEPT !.iteration = @ + 1, !.phase = "planning",
                                     !.plan = NoPlan, !.next = 0]
  <2>1. state'.iteration = state.iteration + 1 /\ state'.phase = "planning"
        /\ state.iteration \in Nat
    BY <1>1, <1>4, Fields DEF LoopState
  <2>2. ToJudgement = 6 + (IF late THEN 0 ELSE 1)
    <3>1. Stages(state) = 1 /\ ToStage = 2
      BY <1>1, <1>4, StepsFitBothTimes DEF StagesFit, ToStage
    <3>2. QED BY <3>1 DEF ToJudgement
  <2>3. ToJudgement' = IterationSteps + 1 + (IF late THEN 0 ELSE 1)
    <3>1. Stages(state') = MaxPlan + 5 /\ ToStage' = 1
      BY <1>4, <2>1, StepsFitBothTimes DEF StagesFit, ToStage
    <3>2. QED BY <1>1, <3>1 DEF ToJudgement, IterationSteps
  <2> DEFINE ahead == IterationLimit - state.iteration
  <2>4. /\ StepsLeft = IterationSteps * ahead + ToJudgement
        /\ ahead \in Nat /\ IterationSteps \in Nat
    BY StepsFitBothTimes DEF StepsFit
  <2>5. StepsLeft' = IterationSteps * (ahead - 1) + ToJudgement'
    <3>1. IterationLimit' - state'.iteration = ahead - 1
      BY <2>1, Limits DEF IterationLimit, Larger
    <3>2. IterationSteps' = IterationSteps
      BY DEF IterationSteps
    <3>3. StepsLeft' = IterationSteps' * (IterationLimit' - state'.iteration) + ToJudgement'
      BY StepsFitBothTimes DEF StepsFit
    <3>4. QED BY <3>1, <3>2, <3>3
  <2> HIDE DEF ahead
  <2>6. /\ IterationSteps * (ahead - 1) = IterationSteps * ahead - IterationSteps
        /\ IterationSteps * ahead \in Int
    BY <2>4, Distributed
  <2>7. QED BY <2>2, <2>3, <2>4, <2>5, <2>6
<1>5. QED BY <1>2, <1>3, <1>4 DEF Top

(* Each step of the engine but a crash counts.                             *)
LEMMA StepsCounted ==
  ASSUME PlaceInv, PlaceInv', Next, ~ Crash
  PROVE  StepsLeft' < StepsLeft
<1>1. /\ state \in LoopState /\ state' \in LoopState
      /\ state.phase = "terminal" <=> state.status \in Ended
      /\ state.next \in Nat
  BY DEF PlaceInv, TypeOK, Placed, LoopState
<1>2. /\ Stages(state) \in Nat /\ Stages(state') \in Nat
      /\ ToStage \in Nat /\ ToStage' \in Nat
  BY StagesNatural
<1>3. CASE Resume
  <2>1. pc = "resume" /\ pc' \in {"returned", "top"} /\ late' = late
    BY <1>3 DEF Resume
  <2>2. /\ state'.iteration = state.iteration /\ state'.phase = state.phase
        /\ state'.plan = state.plan /\ state'.next = state.next
    BY <1>1, <1>3 DEF Resume, LoopState
  <2>3. Stages(state') = Stages(state)
    BY <2>2 DEF Stages
  <2>4. ToStage' < ToStage
    BY <2>1 DEF ToStage
  <2>5. QED BY <1>2, <2>1, <2>2, <2>3, <2>4, NextStage
<1>4. CASE Return
  <2>1. state' = state /\ late' = late /\ ToStage' = 0 /\ ToStage = 2
    BY <1>4 DEF Return, ToStage
  <2>2. QED BY <1>2, <2>1, NextStage
<1>5. CASE Top
  BY <1>5, TopSteps
<1>6. CASE Fail
  <2>1. /\ pc = "phase" /\ state.phase # "terminal" /\ pc' = "top" /\ late' = late
        /\ state' = End(state, "failed")
    BY <1>6 DEF Fail
  <2>2. QED BY <1>1, <2>1, EndState, EndedSteps DEF Ended
<1>7. CASE Act
  <2>1. pc = "phase" /\ state.phase # "terminal" /\ late' = late
    BY <1>7 DEF Act
  <2>2. CASE state' = End(state, "stopped") /\ pc' = "top"
    BY <1>1, <2>1, <2>2, EndState, EndedSteps DEF Ended
  <2>3. CASE state' = state /\ pc' = "acted"
    <3>1. ToStage' = 0 /\ ToStage = 1
      BY <2>1, <2>3 DEF ToStage
    <3>2. QED BY <1>2, <2>1, <2>3, <3>1, NextStage
  <2>4. QED BY <1>7, <2>2, <2>3 DEF Act
<1>8. CASE Record
  <2>1. pc = "acted" /\ pc' = "phase" /\ state.phase = "executing" /\ late' = late
    BY <1>8 DEF Record, PlaceInv, Placed
  <2>2. /\ state'.iteration = state.iteration /\ state'.phase = "executing"
        /\ state'.plan = state.plan /\ state'.next = state.next + 1
    BY <1>1, <1>8, <2>1 DEF Record, LoopState
  <2>3. state.plan \in Int
    BY <1>1, Fields
  <2>4. Stages(state') = Stages(state) - 1
    BY <1>1, <2>1, <2>2, <2>3 DEF Stages
  <2>5. ToStage' = 1 /\ ToStage = 0
    BY <2>1 DEF ToStage
  <2>6. QED BY <1>2, <2>1, <2>2, <2>4, <2>5, NextStage
<1>9. CASE ActionsDone
  <2>1. /\ pc' = pc /\ late' = late /\ state.phase = "executing"
        /\ state'.phase = "verifying" /\ state'.iteration = state.iteration
        /\ state.next = state.plan
    BY <1>1, <1>9 DEF ActionsDone, LoopState
  <2>2. Stages(state') = 3 /\ Stages(state) = 4
    BY <1>1, <2>1, StepsFitBothTimes DEF StagesFit
  <2>3. ToStage' = ToStage
    BY <2>1 DEF ToStage
  <2>4. QED BY <1>2, <2>1, <2>2, <2>3, NextStage
<1>10. ASSUME NEW n \in 0 .. MaxPlan, Plan(n) PROVE StepsLeft' < StepsLeft
  <2>1. pc = "phase" /\ state.phase = "planning" /\ late' = late
    BY <1>10 DEF Plan
  <2>2. CASE n = 0
    <3>1. state'.phase = "terminal" /\ state'.iteration = state.iteration /\ pc' = "top"
      BY <1>1, <1>10, <2>2 DEF Plan, End, LoopState
    <3>2. QED BY <2>1, <3>1, EndedSteps
  <2>3. CASE n # 0
    <3>1. /\ state'.phase = "executing" /\ state'.iteration = state.iteration
          /\ state'.plan = n /\ state'.next = 0 /\ pc' = "phase"
      BY <1>1, <1>10, <2>3 DEF Plan, LoopState
    <3>2. Stages(state') = n + 4
      BY <3>1 DEF Stages
    <3>3. Stages(state) = MaxPlan + 5
      BY <2>1, StepsFitBothTimes DEF StagesFit
    <3>4. ToStage' = ToStage
      BY <2>1, <3>1 DEF ToStage
    <3>5. QED BY <1>2, <2>1, <3>1, <3>2, <3>3, <3>4, Limits, NextStage
  <2>4. QED BY <2>2, <2>3
<1>11. ASSUME NEW sig \in Signature, Verify(sig) PROVE StepsLeft' < StepsLeft
  <2> DEFINE seen == [state EXCEPT !.verified = state.iteration,
                                   !.signatures = Append(@, sig)]
  <2>1. pc = "phase" /\ state.phase = "verifying" /\ late' = late
    BY <1>11 DEF Verify
  <2>2. \/ state' = End(seen, "stopped") /\ pc' = "top"
        \/ state' = [seen EXCEPT !.phase = "judging"] /\ pc' = "phase"
    BY <1>11 DEF Verify
  <2>3. state'.iteration = state.iteration
        /\ \/ state'.phase = "terminal" /\ pc' = "top"
           \/ state'.phase = "judging" /\ pc' = "phase"
    BY <1>1, <2>2 DEF End, LoopState
  <2>4. CASE state'.phase = "terminal" /\ pc' = "top"
    BY <2>1, <2>3, <2>4, EndedSteps
  <2>5. CASE state'.phase = "judging" /\ pc' = "phase"
    <3>1. Stages(state') = 2 /\ Stages(state) = 3
      BY <2>1, <2>5, StepsFitBothTimes DEF StagesFit
    <3>2. ToStage' = ToStage
      BY <2>1, <2>5 DEF ToStage
    <3>3. QED BY <1>2, <2>1, <2>3, <3>1, <3>2, NextStage
  <2>6. QED BY <2>3, <2>4, <2>5
<1>12. ASSUME NEW decision \in {"complete", "continue", "stop"}, Judge(decision)
       PROVE  StepsLeft' < StepsLeft
  <2>1. pc = "phase" /\ state.phase = "judging" /\ late' = late /\ pc' = "top"
    BY <1>12 DEF Judge
  <2>2. state'.iteration = state.iteration /\ state'.phase \in {"terminal", "ready"}
    BY <1>1, <1>12 DEF Judge, End, LoopState
  <2>3. CASE state'.phase = "terminal"
    BY <2>1, <2>2, <2>3, EndedSteps
  <2>4. CASE state'.phase = "ready"
    <3>1. Stages(state') = 1 /\ Stages(state) = 2
      BY <2>1, <2>4, StepsFitBothTimes DEF StagesFit
    <3>2. ToStage' = 2 /\ ToStage = 1
      BY <2>1 DEF ToStage
    <3>3. QED BY <2>1, <2>2, <3>1, <3>2, NextStage
  <2>5. QED BY <2>2, <2>3, <2>4
<1>13. CASE Timeout
  <2>1. state' = state /\ pc' = pc /\ ~ late /\ late'
    BY <1>13 DEF Timeout
  <2>2. Stages(state') = Stages(state) /\ ToStage' = ToStage
    BY <2>1 DEF Stages, ToStage
  <2>3. ToJudgement' < ToJudgement
    BY <1>2, <2>1, <2>2 DEF ToJudgement
  <2>4. StepsLeft' - StepsLeft = ToJudgement' - ToJudgement
    BY <2>1, Nearer
  <2>5. /\ StepsLeft \in Int /\ StepsLeft' \in Int
        /\ ToJudgement \in Int /\ ToJudgement' \in Int
    BY StepsFitBothTimes DEF StepsFit
  <2>6. QED BY <2>3, <2>4, <2>5
<1>14. QED BY <1>3, <1>4, <1>5, <1>6, <1>7, <1>8, <1>9, <1>10, <1>11, <1>12, <1>13
           DEF Next, Step

(* A crash costs the way back to where it happened.                        *)
LEMMA CrashSteps == ASSUME PlaceInv, PlaceInv', Crash PROVE StepsLeft' <= StepsLeft + 3
<1>1. state' = state /\ late' = late
  BY DEF PlaceInv, InStep, Crash, Loaded
<1>2. Stages(state') = Stages(state) /\ ToStage' \in 0 .. 3 /\ ToStage \in 0 .. 3
      /\ Stages(state) \in Nat
  BY <1>1, StepsFitBothTimes, Limits DEF StagesFit, Stages
<1>3. ToJudgement' <= ToJudgement + 3
  BY <1>1, <1>2 DEF ToJudgement
<1>4. StepsLeft' - StepsLeft = ToJudgement' - ToJudgement
  BY <1>1, Nearer
<1>5. StepsLeft \in Int /\ StepsLeft' \in Int /\ ToJudgement \in Int /\ ToJudgement' \in Int
  BY StepsFitBothTimes DEF StepsFit
<1>6. QED BY <1>3, <1>4, <1>5

(* The steps left are a natural number that every step but a crash makes   *)
(* smaller, and a crash greater by three at most: between two crashes a    *)
(* run takes no more steps than that number, and whatever the ports answer *)
(* it can neither replan nor resume for ever.                              *)
THEOREM RunsOutOfSteps == Spec => [](StepsLeft \in Nat) /\ StepsRunOut
<1>1. PlaceInv => StepsLeft \in Nat
  BY StepsLeftIs DEF StepsFit
<1>2. PlaceInv /\ PlaceInv' /\ [Next]_vars =>
        [IF crashes' = crashes THEN StepsLeft' < StepsLeft
         ELSE StepsLeft' <= StepsLeft + 3]_vars
  <2> SUFFICES ASSUME PlaceInv, PlaceInv', Next
               PROVE  IF crashes' = crashes THEN StepsLeft' < StepsLeft
                      ELSE StepsLeft' <= StepsLeft + 3
    OBVIOUS
  <2>1. CASE Crash
    <3>1. crashes' # crashes
      BY <2>1 DEF Crash, PlaceInv, TypeOK
    <3>2. QED BY <2>1, <3>1, CrashSteps
  <2>2. CASE ~ Crash
    <3>1. crashes' = crashes
      BY <2>2 DEF Next, Step, Resume, Return, Top, Fail, Act, Record, ActionsDone, Plan,
                  Verify, Judge, Timeout
    <3>2. QED BY <2>2, <3>1, StepsCounted
  <2>3. QED BY <2>1, <2>2
<1>3. QED BY <1>1, <1>2, PlaceInvariance, PTL DEF Spec, StepsRunOut

-----------------------------------------------------------------------------
(* The profiles.                                                           *)

LEMMA LookingActions ==
  /\ [i \in 1 .. Looks |-> Look] \in Seq({Look})
  /\ Len([i \in 1 .. Looks |-> Look]) = Looks
<1> DEFINE s == [i \in 1 .. Looks |-> Look]
<1>1. Looks \in Nat
  BY ProfileAssumption
<1>2. s \in [1 .. Looks -> {Look}] /\ DOMAIN s = 1 .. Looks
  OBVIOUS
<1> HIDE DEF s
<1>3. s \in Seq({Look})
  BY <1>1, <1>2, SeqDef
<1>4. Len(s) = Looks
  BY <1>1, <1>2, <1>3
<1>5. QED BY <1>3, <1>4 DEF s

(* A plan fits max_actions_per_iteration, whoever makes it.                *)
LEMMA ScriptedFits == Len(Scripted) \in 0 .. MaxPlan
<1> USE Limits, ProfileAssumption
<1>1. CASE profile = "check"
  <2>1. Scripted = <<Check>>
    BY <1>1 DEF Scripted
  <2>2. QED BY <2>1
<1>2. CASE profile # "check"
  <2>1. PICK looks \in Seq({Look}) :
          \E p : Scripted = looks \o <<Patch(p), Check>> /\ Len(looks) <= Looks
    <3>1. CASE state.iteration = 1
      <4>1. Scripted = [i \in 1 .. Looks |-> Look]
                         \o <<Patch(Script[state.iteration]), Check>>
        BY <1>2, <3>1 DEF Scripted
      <4>2. [i \in 1 .. Looks |-> Look] \in Seq({Look})
            /\ Len([i \in 1 .. Looks |-> Look]) = Looks
        BY LookingActions
      <4> DEFINE s == [i \in 1 .. Looks |-> Look]
      <4>3. Looks \in Nat
        BY ProfileAssumption
      <4> HIDE DEF s
      <4>4. s \in Seq({Look}) /\ Len(s) <= Looks
        BY <4>2, <4>3 DEF s
      <4>5. Scripted = s \o <<Patch(Script[state.iteration]), Check>>
        BY <4>1 DEF s
      <4>6. QED BY <4>4, <4>5
    <3>2. CASE state.iteration # 1
      <4>1. Scripted = <<>> \o <<Patch(Script[state.iteration]), Check>>
        BY <1>2, <3>2 DEF Scripted
      <4>2. <<>> \in Seq({Look}) /\ Len(<<>>) <= Looks
        OBVIOUS
      <4>3. QED BY <4>1, <4>2
    <3>3. QED BY <3>1, <3>2
  <2> PICK p : Scripted = looks \o <<Patch(p), Check>> /\ Len(looks) <= Looks
    BY <2>1
  <2>2. Len(looks \o <<Patch(p), Check>>) = Len(looks) + 2
    <3>1. /\ looks \in Seq({Look, Patch(p), Check})
          /\ <<Patch(p), Check>> \in Seq({Look, Patch(p), Check})
          /\ Len(<<Patch(p), Check>>) = 2
      OBVIOUS
    <3>2. QED BY <3>1, ConcatProperties
  <2>3. Len(looks) \in Nat
    OBVIOUS
  <2>4. QED BY <2>1, <2>2, <2>3
<1>3. QED BY <1>1, <1>2

LEMMA ProposalFits ==
  ASSUME NEW answer \in PlanAnswers, FitsPlan(answer)
  PROVE  Len(answer.actions) \in 0 .. MaxPlan
<1>1. answer.actions \in Seq({Look, Check} \cup {Patch(p) : p \in Patches})
  BY ProfileAssumption DEF PlanAnswers
<1>2. Len(answer.actions) \in Nat /\ Len(answer.actions) <= MaxPlan
  BY <1>1 DEF FitsPlan
<1>3. QED BY <1>2, Limits

(* What each port does is one of the things the engine allows it.          *)
LEMMA PortsAreFree == ProfileStep => Next
<1> SUFFICES ASSUME ProfileStep PROVE Next
  OBVIOUS
<1> USE DEF Next, Step
<1>1. CASE EngineStep
  BY <1>1 DEF EngineStep
<1>2. CASE PlanScripted
  BY <1>2, ScriptedFits DEF PlanScripted, PlanActions
<1>3. CASE PlanProposed
  <2>1. PICK answer \in Agreed({a \in PlanAnswers : FitsPlan(a)}) :
          IF answer = Raised THEN PlanFails ELSE PlanActions(answer.actions)
    BY <1>3 DEF PlanProposed
  <2>2. CASE answer = Raised
    BY <2>1, <2>2 DEF PlanFails
  <2>3. CASE answer # Raised
    <3>1. answer \in PlanAnswers /\ FitsPlan(answer)
      BY <2>3 DEF Agreed
    <3>2. Plan(Len(answer.actions))
      BY <2>1, <2>3 DEF PlanActions
    <3>3. QED BY <3>1, <3>2, ProposalFits
  <2>4. QED BY <2>2, <2>3
<1>4. CASE PerformAction
  BY <1>4 DEF PerformAction
<1>5. CASE RecordAction
  BY <1>5 DEF RecordAction
<1>6. CASE VerifyRun
  BY <1>6 DEF VerifyRun, Observed
<1>7. CASE VerifyEvidence
  <2>1. \/ Fail
        \/ \E status, criteria : Observed(status, criteria)
    BY <1>7 DEF VerifyEvidence
  <2>2. QED BY <2>1 DEF Observed
<1>8. CASE JudgeRun
  <2>1. Decision \in {"complete", "continue", "stop"}
    BY DEF Decision
  <2>2. QED BY <1>8, <2>1 DEF JudgeRun
<1>9. QED BY <1>1, <1>2, <1>3, <1>4, <1>5, <1>6, <1>7, <1>8 DEF ProfileStep

LEMMA ProfileStepsEngine == [ProfileNext]_profileVars => [Next]_vars
<1> SUFFICES ASSUME [ProfileNext]_profileVars PROVE [Next]_vars
  OBVIOUS
<1>1. CASE ProfileStep
  BY <1>1, PortsAreFree
<1>2. CASE FreeStep
  BY <1>2, ProfileAssumption DEF FreeStep, Next, Step
<1>3. CASE ProfileCrash
  BY <1>3 DEF ProfileCrash, Next
<1>4. CASE Timeout
  BY <1>4 DEF Next
<1>5. CASE UNCHANGED profileVars
  BY <1>5 DEF profileVars, vars
<1>6. QED BY <1>1, <1>2, <1>3, <1>4, <1>5 DEF ProfileNext

(* The profiles implement the engine with free ports.                      *)
THEOREM ProfilesImplementEngine == ProfileSpec => Spec
<1>1. ProfileInit => Init
  BY DEF ProfileInit
<1>2. QED BY <1>1, ProfileStepsEngine, PTL DEF ProfileSpec, Spec

(* In a run of any profile the budget holds however often the program      *)
(* dies.                                                                   *)
THEOREM ProfilesWithinBudget == ProfileSpec => []EngineInv
  BY ProfilesImplementEngine, BudgetHolds

(* A run of any profile is judged on the evidence of its own iteration,    *)
(* observes once per iteration and resumes in place.                       *)
THEOREM ProfilesResume ==
  ProfileSpec => []EvidenceInTurn /\ ResumedInPlace
  BY ProfilesImplementEngine, EvidenceIsInTurn, ResumesInPlace

(* And it runs out of steps.                                               *)
THEOREM ProfilesRunOutOfSteps == ProfileSpec => [](StepsLeft \in Nat) /\ StepsRunOut
  BY ProfilesImplementEngine, RunsOutOfSteps

-----------------------------------------------------------------------------
(* A leaf completed has the evidence for it.  What the last results, the   *)
(* plan and the pending result have to do with each other between any two  *)
(* steps.                                                                  *)

Action == {Look, Check} \cup {Patch(p) : p \in Patches}
Output == {Nothing, [status |-> "already_applied"], [status |-> "applied"]}
            \cup [timed_out : BOOLEAN, exit_zero : BOOLEAN, saw : Content]
ResultType == [action : Action, ok : BOOLEAN, output : Output]
Assessment == [Criterion -> [satisfied : BOOLEAN, refs : SUBSET Nat]]
WorkType == [actions : Seq(Action), results : Seq(ResultType),
             status : Statuses \cup {"none"}, criteria : {Nothing} \cup Assessment]

\* the i-th result of the iteration
At(i) == work.results[Len(work.results) - state.next + i]
Planned == state.phase = "executing" \/ Through(state)
IsPatch(action) == action.tool = "apply_patch"

ProfileType ==
  /\ work \in WorkType /\ saved = work
  /\ file \in Content
  /\ Asked /\ profile \in Profiles

\* the last results are those of the first actions of the plan
Accounted ==
  Planned =>
    /\ Len(work.actions) = state.plan
    /\ state.next <= Len(work.results)
    /\ \A i \in 1 .. state.next : At(i).action = work.actions[i]

PendingInv ==
  pc = "acted" =>
    /\ pending \in ResultType
    /\ pending.action = work.actions[state.next + 1]
    /\ pending.action = Check /\ pending.ok => pending.output.saw = file

\* a command no patch followed saw the file as it is, unless a patch has been
\* performed that is not recorded: then it is the next action
SawFile ==
  Planned =>
    \A i \in 1 .. state.next :
      /\ At(i).action = Check /\ At(i).ok
      /\ \A j \in i + 1 .. state.next : ~ IsPatch(At(j).action)
      => \/ At(i).output.saw = file
         \/ state.next < state.plan /\ IsPatch(work.actions[state.next + 1])

Cited ==
  \A c \in Criterion :
    /\ work.criteria[c].satisfied /\ work.criteria[c].refs # {}
    /\ \A i \in work.criteria[c].refs :
        i \in DOMAIN work.results /\ work.results[i].ok
        /\ Len(work.results) - i < MaxItems

Exited ==
  \E i \in 1 .. state.next :
    /\ At(i).action = Check /\ At(i).output.exit_zero /\ ~ At(i).output.timed_out
    /\ \A j \in i + 1 .. state.next : At(j).action # Check

Proved ==
  /\ \A i \in 1 .. state.next : At(i).ok
  /\ IF profile = "evidence" THEN Cited ELSE Exited

VerdictInv ==
  \/ state.phase = "judging" /\ work.status = "passed"
  \/ state.status = "completed"
  => Proved

\* only a profile chosen for patches plans any
FileKept ==
  "patch" \notin needs =>
    file = origin /\ \A i \in DOMAIN work.actions : ~ IsPatch(work.actions[i])

WorkInv ==
  /\ profile = "free" => file = origin
  /\ profile # "free" =>
       ProfileType /\ Accounted /\ PendingInv /\ SawFile /\ VerdictInv /\ FileKept

LEMMA WorkFields ==
  ASSUME NEW w \in WorkType
  PROVE  /\ w.actions \in Seq(Action) /\ w.results \in Seq(ResultType)
         /\ w.status \in Statuses \cup {"none"} /\ w.criteria \in {Nothing} \cup Assessment
         /\ Len(w.actions) \in Nat /\ DOMAIN w.actions = 1 .. Len(w.actions)
         /\ Len(w.results) \in Nat /\ DOMAIN w.results = 1 .. Len(w.results)
         /\ \A i \in 1 .. Len(w.actions) : w.actions[i] \in Action
         /\ \A i \in 1 .. Len(w.results) : w.results[i] \in ResultType
  BY LenProperties, ElementOfSeq DEF WorkType

(* A profile that verifies by the command was asked to.                    *)
LEMMA AskedProfile ==
  ASSUME Asked, profile \in Profiles, profile # "free"
  PROVE  /\ profile \in {"check", "scripted", "repair", "evidence"}
         /\ profile = "evidence" <=> "verify" \notin needs
         /\ profile \in {"check", "evidence"} <=> "patch" \notin needs
<1>1. profile \in {"check", "scripted", "repair", "evidence"}
  BY ProfileAssumption
<1>2. CASE profile = "scripted"
  <2>1. \A required, command, client : ChosenProfile(required, command, client) # "scripted"
    BY DEF ChosenProfile
  <2>2. needs = {"patch", "verify"}
    BY <1>2, <2>1 DEF Asked
  <2>3. QED BY <1>2, <2>2
<1>3. CASE profile # "scripted"
  <2>1. PICK command, client \in BOOLEAN : profile = ChosenProfile(needs, command, client)
    BY <1>3 DEF Asked
  <2>2. QED BY <1>1, <1>3, <2>1 DEF ChosenProfile
<1>4. QED BY <1>1, <1>2, <1>3

(* The last results are the last of all results.                           *)
LEMMA RecentIsLast ==
  ASSUME work \in WorkType, state \in LoopState, state.next <= Len(work.results)
  PROVE  /\ Recent \in Seq(ResultType)
         /\ Len(Recent) = state.next /\ DOMAIN Recent = 1 .. state.next
         /\ \A i \in 1 .. state.next : Recent[i] = At(i) /\ At(i) \in ResultType
<1> DEFINE n == Len(work.results)
           s == work.results
<1>1. n \in Nat /\ state.next \in Nat /\ \A i \in 1 .. n : s[i] \in ResultType
  BY WorkFields, Fields
<1>2. n - state.next + 1 \in Int /\ n - state.next + 1 .. n \subseteq 1 .. n
  BY <1>1
<1>3. /\ Recent \in Seq(ResultType)
      /\ Len(Recent) = state.next
      /\ \A i \in 1 .. state.next : Recent[i] = s[n - state.next + i]
  <2> DEFINE m == n - state.next + 1
  <2>1. Recent = SubSeq(s, m, n)
    BY DEF Recent
  <2>2. \A i \in m .. n : s[i] \in ResultType
    BY <1>1, <1>2
  <2>3. /\ SubSeq(s, m, n) \in Seq(ResultType)
        /\ Len(SubSeq(s, m, n)) = IF m <= n THEN n - m + 1 ELSE 0
        /\ \A i \in 1 .. n - m + 1 : SubSeq(s, m, n)[i] = s[m + i - 1]
    <3>1. m \in Int /\ n \in Int
      BY <1>1
    <3> HIDE DEF s, m, n
    <3> QED BY <2>2, <3>1, SubSeqProperties
  <2>4. n - m + 1 = state.next /\ \A i \in 1 .. state.next : m + i - 1 = n - state.next + i
    BY <1>1
  <2>5. (IF m <= n THEN n - m + 1 ELSE 0) = state.next
    BY <1>1
  <2>6. QED
    <3> HIDE DEF m, n, s
    <3> QED BY <2>1, <2>3, <2>4, <2>5
<1>4. \A i \in 1 .. state.next : n - state.next + i \in 1 .. n
  BY <1>1
<1>5. QED BY <1>1, <1>3, <1>4, LenProperties DEF At

-----------------------------------------------------------------------------
(* A step to where there is no plan under way leaves nothing to show.      *)
LEMMA Settled ==
  ASSUME profile # "free", UNCHANGED <<needs, profile, origin>>, ProfileType, FileKept,
         work' \in WorkType, saved' = work', file' = file, ~ Planned', pc' # "acted",
         work'.actions \in {<<>>, work.actions}
  PROVE  WorkInv'
<1>1. ProfileType'
  BY DEF ProfileType, Asked
<1>2. Accounted' /\ PendingInv' /\ SawFile' /\ VerdictInv'
  BY DEF Accounted, PendingInv, SawFile, VerdictInv, Planned, Through
<1>3. FileKept'
  <2>1. \A i \in DOMAIN work'.actions : "patch" \notin needs => ~ IsPatch(work'.actions[i])
    BY DEF FileKept
  <2>2. QED BY <2>1 DEF FileKept
<1>4. QED BY <1>1, <1>2, <1>3 DEF WorkInv

(* So does one that keeps the work, the file and the place.                *)
LEMMA Kept ==
  ASSUME WorkInv, profile # "free", UNCHANGED <<needs, profile, origin, file, work, saved>>,
         state'.next = state.next, state'.plan = state.plan, Planned' => Planned,
         pc' = "acted" => pc = "acted" /\ pending' = pending,
         state'.phase = "judging" => state.phase = "judging",
         state'.status = "completed" =>
           \/ state.status = "completed"
           \/ state.phase = "judging" /\ work.status = "passed"
  PROVE  WorkInv'
<1>1. ProfileType' /\ FileKept'
  BY DEF WorkInv, ProfileType, FileKept, Asked
<1>2. \A i : At(i)' = At(i)
  BY DEF At
<1>3. Accounted' /\ PendingInv'
  BY <1>2 DEF WorkInv, Accounted, PendingInv
<1>4. SawFile'
  BY <1>2 DEF WorkInv, SawFile
<1>5. Proved => Proved'
  BY <1>2 DEF Proved, Exited, Cited
<1>6. VerdictInv'
  BY <1>5 DEF WorkInv, VerdictInv
<1>7. QED BY <1>1, <1>3, <1>4, <1>6 DEF WorkInv

-----------------------------------------------------------------------------
(* What each step makes of the work.                                       *)

LEMMA EngineWork ==
  ASSUME PlaceInv, PlaceInv', WorkInv, profile # "free",
         UNCHANGED <<needs, profile, origin>>, EngineStep
  PROVE  WorkInv'
<1>1. file' = file /\ pc' # "acted"
  BY DEF EngineStep, Resume, Return, Top, ActionsDone
<1>2. CASE state'.plan = NoPlan
  <2>1. work' = [work EXCEPT !.actions = <<>>] /\ saved' = work'
    BY <1>2 DEF EngineStep, Holds
  <2>2. work' \in WorkType /\ work'.actions = <<>>
    <3>1. work \in WorkType /\ <<>> \in Seq(Action)
      BY EmptySeq DEF WorkInv, ProfileType
    <3>2. QED BY <2>1, <3>1 DEF WorkType
  <2>3. ~ Planned'
    BY <1>2, Limits DEF PlaceInv, Placed, Planned, NoPlan
  <2>4. QED BY <1>1, <2>1, <2>2, <2>3, Settled DEF WorkInv
<1>3. CASE state'.plan # NoPlan
  <2>1. work' = work /\ saved' = saved
    BY <1>3 DEF EngineStep, Holds, WorkInv, ProfileType
  <2>2. state \in LoopState
    BY DEF PlaceInv, TypeOK
  <2>3. /\ state'.next = state.next /\ state'.plan = state.plan /\ (Planned' => Planned)
        /\ state'.phase = "judging" => state.phase = "judging"
        /\ state'.status = "completed" => state.status = "completed"
    <3>1. CASE Resume
      BY <2>2, <3>1 DEF Resume, LoopState, Planned, Through
    <3>2. CASE Return
      BY <3>2 DEF Return, Planned, Through
    <3>3. CASE Top
      <4>1. CASE state' = End(state, "stopped")
        BY <2>2, <4>1, EndState DEF Planned, Through, Ended
      <4>2. CASE state' = state
        BY <4>2 DEF Planned, Through
      <4>3. CASE state' = [state EXCEPT !.iteration = @ + 1, !.phase = "planning",
                                        !.plan = NoPlan, !.next = 0]
        <5>1. state'.plan = NoPlan
          BY <2>2, <4>3 DEF LoopState
        <5>2. QED BY <1>3, <5>1
      <4>4. QED BY <3>3, <4>1, <4>2, <4>3 DEF Top
    <3>4. CASE ActionsDone
      BY <2>2, <3>4 DEF ActionsDone, LoopState, Planned, Through
    <3>5. QED BY <3>1, <3>2, <3>3, <3>4 DEF EngineStep
  <2>4. QED BY <1>1, <2>1, <2>3, Kept
<1>4. QED BY <1>2, <1>3

(* The plan functions and the proposals that fit consist of actions.       *)
LEMMA ScriptedActions ==
  ASSUME PlaceInv, Asked, profile \in {"check", "scripted"}, profile \in Profiles,
         state.phase = "planning"
  PROVE  Scripted \in Seq(Action) /\ (profile = "check" => Scripted = <<Check>>)
<1>1. CASE profile = "check"
  BY <1>1 DEF Scripted, Action
<1>2. CASE profile = "scripted"
  <2>1. state.iteration \in 1 .. IterationLimit
    BY Fields DEF PlaceInv, TypeOK, Placed, Working
  <2>2. Script \in Seq(Patches) /\ Script # <<>> /\ Len(Script) = MaxIterations
    BY <1>2, ProfileAssumption
  <2>3. Len(Script) = IterationLimit
    BY <2>2, EmptySeq, EngineAssumption DEF IterationLimit, Larger
  <2>4. Script[state.iteration] \in Patches
    BY <2>1, <2>2, <2>3, ElementOfSeq
  <2>5. <<Patch(Script[state.iteration]), Check>> \in Seq(Action)
    BY <2>4 DEF Action
  <2>6. [i \in 1 .. Looks |-> Look] \in Seq(Action) /\ <<>> \in Seq(Action)
    <3>1. Seq({Look}) \subseteq Seq(Action)
      BY DEF Action
    <3>2. QED BY <3>1, LookingActions
  <2>7. QED
    <3>1. Scripted = (IF state.iteration = 1 THEN [i \in 1 .. Looks |-> Look] ELSE <<>>)
                       \o <<Patch(Script[state.iteration]), Check>>
      BY <1>2 DEF Scripted
    <3>2. QED BY <1>2, <2>5, <2>6, <3>1, ConcatProperties
<1>3. QED BY <1>1, <1>2

LEMMA ProposedActions ==
  ASSUME NEW answer \in PlanAnswers, FitsPlan(answer)
  PROVE  /\ answer.actions \in Seq(Action)
         /\ profile = "evidence" =>
              \A i \in DOMAIN answer.actions : ~ IsPatch(answer.actions[i])
<1>1. Action = {Look, Check} \cup {Patch(p) : p \in Patches}
  BY DEF Action
<1>2. answer.actions \in Seq(Action)
  <2>1. Proposals \subseteq Seq(Action)
    BY <1>1, ProfileAssumption
  <2>2. QED BY <2>1 DEF PlanAnswers
<1>3. ASSUME profile = "evidence", NEW i \in DOMAIN answer.actions
      PROVE  ~ IsPatch(answer.actions[i])
  BY <1>3 DEF FitsPlan, Tools, IsPatch
<1>4. QED BY <1>2, <1>3

LEMMA PlanWork ==
  ASSUME PlaceInv, PlaceInv', WorkInv, profile # "free",
         UNCHANGED <<needs, profile, origin>>,
         NEW actions \in Seq(Action), PlanActions(actions),
         "patch" \notin needs => \A i \in DOMAIN actions : ~ IsPatch(actions[i])
  PROVE  WorkInv'
<1>1. /\ work \in WorkType /\ work' = [work EXCEPT !.actions = actions] /\ saved' = work'
      /\ file' = file /\ file \in Content /\ Asked /\ profile \in Profiles
  BY DEF WorkInv, ProfileType, PlanActions, Holds
<1>2. work' \in WorkType /\ work'.actions = actions
  BY <1>1 DEF WorkType
<1>3. ProfileType' /\ FileKept'
  BY <1>1, <1>2 DEF WorkInv, ProfileType, Asked, FileKept
<1>4. state \in LoopState /\ state.status \notin Ended /\ Plan(Len(actions))
  BY DEF PlaceInv, TypeOK, Placed, PlanActions, Plan
<1>5. /\ state'.next = 0 /\ state'.phase # "judging" /\ state'.status # "completed"
      /\ state'.phase = "executing" => state'.plan = Len(actions)
      /\ pc' # "acted" /\ ~ Through(state)'
  <2>1. CASE Len(actions) = 0
    <3>1. [state EXCEPT !.plan = 0, !.next = 0] \in LoopState
      BY <1>4 DEF LoopState
    <3>2. [state EXCEPT !.plan = 0, !.next = 0].next = 0
      BY <1>4 DEF LoopState
    <3>3. state' = End([state EXCEPT !.plan = 0, !.next = 0], "stopped") /\ pc' = "top"
      BY <1>4, <2>1 DEF Plan
    <3>4. state'.next = 0 /\ state'.phase = "terminal" /\ state'.status = "stopped"
      BY <3>1, <3>2, <3>3, EndState DEF Ended
    <3>5. QED BY <3>3, <3>4 DEF Through
  <2>2. CASE Len(actions) # 0
    BY <1>4, <2>2 DEF Plan, LoopState, Through, Ended
  <2>3. QED BY <2>1, <2>2
<1>6. Accounted' /\ PendingInv' /\ SawFile' /\ VerdictInv'
  <2>1. Len(work'.results) \in Nat
    BY <1>2, WorkFields
  <2>2. QED BY <1>2, <1>5, <2>1 DEF Accounted, PendingInv, SawFile, VerdictInv, Planned
<1>7. QED BY <1>3, <1>6 DEF WorkInv

LEMMA FailWork ==
  ASSUME PlaceInv, WorkInv, profile # "free", Fail,
         UNCHANGED <<needs, profile, origin, file, work, saved>>
  PROVE  WorkInv'
<1>1. /\ state'.next = state.next /\ state'.plan = state.plan
      /\ state'.phase = "terminal" /\ state'.status = "failed" /\ pc' = "top"
  BY EndState DEF Fail, PlaceInv, TypeOK, Ended
<1>2. QED BY <1>1, Kept DEF Planned, Through

(* An action's outcome: its result, and the file changed by a patch only.  *)
LEMMA OutcomeFits ==
  ASSUME NEW action \in Action, file \in Content, NEW outcome \in Outcomes(action)
  PROVE  /\ outcome[1] \in ResultType /\ outcome[1].action = action
         /\ outcome[2] \in Content
         /\ ~ IsPatch(action) => outcome[2] = file
         /\ action = Check /\ outcome[1].ok => outcome[1].output.saw = file
<1>1. CASE outcome = <<Error(action), file>>
  BY <1>1 DEF Error, ResultType, Output
<1>2. CASE outcome # <<Error(action), file>>
  <2>1. CASE action = Look
    <3>1. outcome = <<Result(action, Nothing), file>>
      BY <1>2, <2>1 DEF Outcomes, Look
    <3>2. QED BY <2>1, <3>1 DEF Result, ResultType, Output, Look, Check
  <2>2. CASE action = Check
    <3>1. PICK process \in [timed_out : BOOLEAN, exit_zero : BOOLEAN, saw : {file}] :
            outcome = <<Result(action, process), file>>
      BY <1>2, <2>2 DEF Outcomes, Check
    <3>2. process \in Output
      BY DEF Output
    <3>3. QED BY <3>1, <3>2 DEF Result, ResultType
  <2>3. ASSUME NEW p \in Patches, action = Patch(p)
        PROVE  /\ outcome[1] \in ResultType /\ outcome[1].action = action
               /\ outcome[2] \in Content /\ IsPatch(action) /\ action # Check
    <3>1. /\ action.tool = "apply_patch" /\ action.patch = p
          /\ IsPatch(action) /\ action # Check
      BY <2>3 DEF Patch, IsPatch, Check
    <3>2. outcome = Patched(p)
      BY <1>2, <3>1 DEF Outcomes
    <3>3. file \in DOMAIN p.changes => p.changes[file] \in Content
      BY ProfileAssumption
    <3>4. \A out \in Output : Result(action, out) \in ResultType
                              /\ Result(action, out).action = action
      BY DEF Result, ResultType
    <3>5. Error(action) \in ResultType /\ Error(action).action = action
      BY DEF Error, ResultType, Output
    <3>6. [status |-> "already_applied"] \in Output /\ [status |-> "applied"] \in Output
      BY DEF Output
    <3>7. /\ outcome[1] \in ResultType /\ outcome[1].action = action
          /\ outcome[2] \in Content
      BY <2>3, <3>2, <3>3, <3>4, <3>5, <3>6 DEF Patched
    <3>8. QED BY <3>1, <3>7
  <2>4. QED BY <2>1, <2>2, <2>3 DEF Action, IsPatch, Look, Check
<1>3. QED BY <1>1, <1>2

LEMMA PerformWork ==
  ASSUME PlaceInv, PlaceInv', WorkInv, profile # "free",
         UNCHANGED <<needs, profile, origin>>, PerformAction
  PROVE  WorkInv'
<1>1. /\ work' = work /\ saved' = saved /\ work \in WorkType /\ file \in Content
      /\ state \in LoopState /\ state.phase = "executing" /\ state.next < state.plan
      /\ Act /\ Planned
  BY DEF PerformAction, Act, WorkInv, ProfileType, PlaceInv, TypeOK, Planned
<1>2. CASE pc' # "acted"
  <2>1. state' = End(state, "stopped") /\ file' = file
    BY <1>1, <1>2 DEF PerformAction, Act
  <2>2. /\ state'.next = state.next /\ state'.plan = state.plan
        /\ state'.phase = "terminal" /\ state'.status = "stopped"
    BY <1>1, <2>1, EndState DEF Ended
  <2>3. QED BY <1>1, <1>2, <2>1, <2>2, Kept DEF Planned, Through
<1>3. CASE pc' = "acted"
  <2> DEFINE action == work.actions[state.next + 1]
  <2>1. state' = state
    BY <1>1, <1>3 DEF Act
  <2>2. state.next + 1 \in 1 .. Len(work.actions)
    BY <1>1, Fields DEF WorkInv, Accounted, PlaceInv, Placed
  <2>3. action \in Action
    BY <1>1, <2>2, WorkFields
  <2>4. PICK outcome \in Outcomes(action) : pending' = outcome[1] /\ file' = outcome[2]
    BY <1>3 DEF PerformAction
  <2>5. /\ pending' \in ResultType /\ pending'.action = action /\ file' \in Content
        /\ ~ IsPatch(action) => file' = file
        /\ action = Check /\ pending'.ok => pending'.output.saw = file
    BY <1>1, <2>3, <2>4, OutcomeFits
  <2>6. ~ IsPatch(Check)
    BY DEF IsPatch, Check
  <2>7. \A i : At(i)' = At(i)
    BY <1>1, <2>1 DEF At
  <2>8. action' = action
    BY <1>1, <2>1
  <2>9. ProfileType'
    BY <1>1, <2>5 DEF WorkInv, ProfileType, Asked
  <2>10. Accounted'
    BY <1>1, <2>1, <2>7 DEF WorkInv, Accounted
  <2>11. PendingInv'
    BY <2>5, <2>6, <2>8 DEF PendingInv
  <2>12. SawFile'
    <3> HIDE DEF action
    <3>1. CASE IsPatch(action)
      BY <1>1, <2>1, <2>8, <3>1 DEF SawFile, action
    <3>2. CASE ~ IsPatch(action)
      <4>1. file' = file
        BY <2>5, <3>2
      <4>2. QED BY <1>1, <2>1, <2>7, <2>8, <4>1 DEF WorkInv, SawFile, action
    <3>3. QED BY <3>1, <3>2
  <2>13. VerdictInv'
    <3>1. state'.phase # "judging" /\ state'.status # "completed"
      BY <1>1, <2>1 DEF PlaceInv, Placed, Ended
    <3>2. QED BY <3>1 DEF VerdictInv
  <2>14. FileKept'
    <3>1. "patch" \notin needs => ~ IsPatch(action)
      BY <1>1, <2>2, WorkFields DEF WorkInv, FileKept
    <3>2. QED BY <1>1, <2>5, <3>1 DEF WorkInv, FileKept
  <2>15. QED BY <2>9, <2>10, <2>11, <2>12, <2>13, <2>14 DEF WorkInv
<1>4. QED BY <1>2, <1>3

LEMMA RecordWork ==
  ASSUME PlaceInv, PlaceInv', WorkInv, profile # "free",
         UNCHANGED <<needs, profile, origin>>, RecordAction
  PROVE  WorkInv'
<1> DEFINE n == Len(work.results)
<1>1. /\ work' = [work EXCEPT !.results = Append(@, pending)] /\ saved' = work'
      /\ file' = file /\ work \in WorkType /\ file \in Content
      /\ pc = "acted" /\ pc' = "phase" /\ state \in LoopState
      /\ state.phase = "executing" /\ state.next < state.plan
      /\ state' = [state EXCEPT !.actions = @ + 1, !.next = @ + 1]
  BY DEF RecordAction, Record, Holds, WorkInv, ProfileType, PlaceInv, TypeOK, Placed
<1>2. /\ state'.next = state.next + 1 /\ state'.plan = state.plan
      /\ state'.phase = "executing" /\ state'.status = state.status
      /\ state.status \notin Ended
  BY <1>1 DEF LoopState, PlaceInv, Placed
<1>3. /\ pending \in ResultType /\ pending.action = work.actions[state.next + 1]
      /\ pending.action = Check /\ pending.ok => pending.output.saw = file
  BY <1>1 DEF WorkInv, PendingInv
<1>4. /\ work.results \in Seq(ResultType) /\ n \in Nat /\ state.next \in Nat
      /\ state.plan \in Int
  BY <1>1, WorkFields, Fields
<1>5. /\ work'.results = Append(work.results, pending) /\ work'.actions = work.actions
      /\ work'.results \in Seq(ResultType) /\ Len(work'.results) = n + 1
      /\ \A i \in 1 .. n : work'.results[i] = work.results[i]
      /\ work'.results[n + 1] = pending
      /\ work' \in WorkType
  <2>1. /\ Append(work.results, pending) \in Seq(ResultType)
        /\ Len(Append(work.results, pending)) = n + 1
        /\ \A i \in 1 .. n : Append(work.results, pending)[i] = work.results[i]
        /\ Append(work.results, pending)[n + 1] = pending
    BY <1>3, <1>4, AppendProperties
  <2>2. /\ work'.results = Append(work.results, pending) /\ work'.actions = work.actions
        /\ work' \in WorkType
    BY <1>1, <2>1 DEF WorkType
  <2>3. QED BY <2>1, <2>2
<1>6. /\ Len(work.actions) = state.plan /\ state.next <= n
      /\ \A i \in 1 .. state.next : At(i).action = work.actions[i]
  BY <1>1 DEF WorkInv, Accounted, Planned
<1>7. /\ \A i \in 1 .. state.next : At(i)' = At(i)
      /\ \A k : k = state.next + 1 => At(k)' = pending
  <2>1. \A i \in 1 .. state.next + 1 :
          At(i)' = work'.results[(n + 1) - (state.next + 1) + i]
    BY <1>2, <1>5 DEF At
  <2>2. \A i \in 1 .. state.next + 1 : (n + 1) - (state.next + 1) + i = n - state.next + i
    <3>1. \A a, b, i \in Int : (a + 1) - (b + 1) + i = a - b + i
      OBVIOUS
    <3> HIDE DEF n
    <3>2. n \in Int /\ state.next \in Int /\ \A i \in 1 .. state.next + 1 : i \in Int
      BY <1>4
    <3>3. QED BY <3>1, <3>2
  <2>3. \A i \in 1 .. state.next + 1 : At(i)' = work'.results[n - state.next + i]
    BY <2>1, <2>2
  <2>4. \A i \in 1 .. state.next : n - state.next + i \in 1 .. n
    BY <1>4, <1>6
  <2>5. n - state.next + (state.next + 1) = n + 1 /\ state.next + 1 \in 1 .. state.next + 1
    BY <1>4
  <2>6. \A i \in 1 .. state.next : i \in 1 .. state.next + 1
    BY <1>4
  <2>7. \A i \in 1 .. state.next : At(i)' = At(i)
    BY <1>5, <2>3, <2>4, <2>6 DEF At
  <2>8. \A k : k = state.next + 1 => At(k)' = pending
    BY <1>5, <2>3, <2>5
  <2>9. QED BY <2>7, <2>8
<1>8. ProfileType' /\ FileKept'
  BY <1>1, <1>5 DEF WorkInv, ProfileType, Asked, FileKept
<1>9. \A i \in 1 .. state.next + 1 : i \in 1 .. state.next \/ i = state.next + 1
  BY <1>4
<1>10. Accounted'
  <2>1. \A i \in 1 .. state.next + 1 : At(i)'.action = work.actions[i]
    BY <1>3, <1>6, <1>7, <1>9
  <2>2. state.next + 1 <= n + 1
    BY <1>4, <1>6
  <2>3. QED BY <1>2, <1>5, <1>6, <2>1, <2>2 DEF Accounted
<1>11. SawFile'
  <2>1. SUFFICES ASSUME NEW i \in 1 .. state.next + 1, At(i)'.action = Check, At(i)'.ok,
                        \A j \in i + 1 .. state.next + 1 : ~ IsPatch(At(j)'.action)
                 PROVE  At(i)'.output.saw = file
    BY <1>1, <1>2 DEF SawFile
  <2>2. CASE i = state.next + 1
    BY <1>3, <1>7, <2>1, <2>2
  <2>3. CASE i \in 1 .. state.next
    <3>1. state.next + 1 \in i + 1 .. state.next + 1
      BY <1>4, <2>3
    <3>2. ~ IsPatch(work.actions[state.next + 1])
      BY <1>3, <1>7, <2>1, <3>1
    <3>3. ASSUME NEW j \in i + 1 .. state.next PROVE ~ IsPatch(At(j).action)
      <4>1. j \in i + 1 .. state.next + 1 /\ j \in 1 .. state.next
        BY <1>4, <2>3
      <4>2. QED BY <1>7, <2>1, <4>1
    <3>4. At(i).action = Check /\ At(i).ok /\ At(i)' = At(i)
      BY <1>7, <2>1, <2>3
    <3>5. At(i).output.saw = file
      BY <1>1, <2>3, <3>2, <3>3, <3>4 DEF WorkInv, SawFile, Planned
    <3>6. QED BY <3>4, <3>5
  <2>4. QED BY <1>9, <2>2, <2>3
<1>12. PendingInv' /\ VerdictInv'
  BY <1>1, <1>2 DEF PendingInv, VerdictInv, Ended
<1>13. QED BY <1>8, <1>10, <1>11, <1>12 DEF WorkInv

-----------------------------------------------------------------------------
(* The verdict.                                                            *)

(* Repair passes on a command that exited with code 0 and was the last.    *)
LEMMA RepairProved ==
  ASSUME work \in WorkType, state \in LoopState, state.next <= Len(work.results),
         RepairStatus = "passed"
  PROVE  (\A i \in 1 .. state.next : At(i).ok) /\ Exited
<1>1. /\ DOMAIN Recent = 1 .. state.next /\ state.next \in Nat
      /\ \A i \in 1 .. state.next : Recent[i] = At(i)
  BY RecentIsLast, Fields
<1>2. ~ Erroneous(Recent) /\ Checks # {}
      /\ ProcessStatus(Recent[Max(Checks)].output) = "passed"
  BY DEF RepairStatus
<1>3. Checks \in SUBSET Nat /\ \A k \in Checks : k <= state.next
  BY <1>1 DEF Checks
<1>4. Max(Checks) \in Checks /\ \A k \in Checks : k <= Max(Checks)
  BY <1>1, <1>2, <1>3, GreatestIsMax
<1> DEFINE m == Max(Checks)
<1>5. m \in 1 .. state.next /\ At(m).action = Check
  BY <1>1, <1>4 DEF Checks
<1>6. At(m).output.exit_zero /\ ~ At(m).output.timed_out
  <2>1. ProcessStatus(At(m).output) = "passed"
    BY <1>1, <1>2, <1>5
  <2>2. QED BY <2>1 DEF ProcessStatus
<1>7. ASSUME NEW j \in m + 1 .. state.next PROVE At(j).action # Check
  <2>1. j \in 1 .. state.next /\ ~ (j <= m)
    BY <1>1, <1>5
  <2>2. j \notin Checks
    BY <1>4, <2>1
  <2>3. QED BY <1>1, <2>1, <2>2 DEF Checks
<1>8. Exited
  <2> HIDE DEF m
  <2> QED BY <1>5, <1>6, <1>7 DEF Exited
<1>9. \A i \in 1 .. state.next : At(i).ok
  BY <1>1, <1>2 DEF Erroneous
<1>10. QED BY <1>8, <1>9

LEMMA ObservedWork ==
  ASSUME PlaceInv, PlaceInv', WorkInv, profile # "free",
         UNCHANGED <<needs, profile, origin>>,
         NEW status \in Statuses, NEW criteria \in {Nothing} \cup Assessment,
         Observed(status, criteria),
         status = "passed" =>
           /\ \A i \in 1 .. state.next : At(i).ok
           /\ profile # "evidence" => Exited
           /\ profile = "evidence" => \A c \in Criterion :
                /\ criteria[c].satisfied /\ criteria[c].refs # {}
                /\ \A i \in criteria[c].refs :
                    i \in DOMAIN work.results /\ work.results[i].ok
                    /\ Len(work.results) - i < MaxItems
  PROVE  WorkInv'
<1>1. PICK sig \in Signature : Verify(sig)
  BY DEF Observed
<1>2. /\ work' = [work EXCEPT !.status = status, !.criteria = criteria] /\ saved' = work'
      /\ file' = file /\ work \in WorkType /\ file \in Content /\ state \in LoopState
      /\ state.phase = "verifying" /\ Planned
  BY <1>1 DEF Observed, Holds, WorkInv, ProfileType, PlaceInv, TypeOK, Verify, Planned, Through
<1>3. /\ work' \in WorkType /\ work'.results = work.results /\ work'.actions = work.actions
      /\ work'.status = status /\ work'.criteria = criteria
  BY <1>2 DEF WorkType
<1>4. /\ state'.next = state.next /\ state'.plan = state.plan /\ state'.status # "completed"
      /\ state'.phase # "executing" /\ pc' # "acted"
  <2>1. Append(state.signatures, sig) \in Seq(Signature) /\ state.iteration \in Nat
    BY <1>2, Fields, AppendProperties
  <2> DEFINE seen == [state EXCEPT !.verified = state.iteration,
                                   !.signatures = Append(@, sig)]
  <2>2. seen \in LoopState /\ seen.next = state.next /\ seen.plan = state.plan
        /\ seen.status = state.status
    BY <1>2, <2>1 DEF LoopState
  <2>3. state.status # "completed"
    BY <1>2 DEF PlaceInv, Placed, Ended
  <2>4. CASE Stagnant(state.signatures, sig)
    <3>1. state' = End(seen, "stopped") /\ pc' = "top"
      BY <1>1, <2>4 DEF Verify
    <3>2. QED
      <4> HIDE DEF seen
      <4> QED BY <2>2, <3>1, EndState DEF Ended
  <2>5. CASE ~ Stagnant(state.signatures, sig)
    <3>1. state' = [seen EXCEPT !.phase = "judging"] /\ pc' = "phase"
      BY <1>1, <2>5 DEF Verify
    <3>2. QED
      <4> HIDE DEF seen
      <4> QED BY <2>2, <2>3, <3>1 DEF LoopState
  <2>6. QED BY <2>4, <2>5
<1>5. \A i : At(i)' = At(i)
  BY <1>3, <1>4 DEF At
<1>6. ProfileType' /\ FileKept'
  BY <1>2, <1>3 DEF WorkInv, ProfileType, Asked, FileKept
<1>7. Accounted' /\ PendingInv' /\ SawFile'
  BY <1>2, <1>3, <1>4, <1>5 DEF WorkInv, Accounted, PendingInv, SawFile
<1>8. VerdictInv'
  <2>1. status = "passed" => Proved'
    <3>1. Exited => Exited'
      BY <1>4, <1>5 DEF Exited
    <3>2. CASE profile = "evidence"
      BY <1>3, <1>4, <1>5, <3>2 DEF Proved, Cited
    <3>3. CASE profile # "evidence"
      BY <1>4, <1>5, <3>1, <3>3 DEF Proved
    <3>4. QED BY <3>2, <3>3
  <2>2. QED BY <1>3, <1>4, <2>1 DEF VerdictInv
<1>9. QED BY <1>6, <1>7, <1>8 DEF WorkInv

LEMMA VerifyWork ==
  ASSUME PlaceInv, PlaceInv', WorkInv, profile # "free",
         UNCHANGED <<needs, profile, origin>>, VerifyRun \/ VerifyEvidence
  PROVE  WorkInv'
<1>1. /\ state.phase = "verifying" /\ work \in WorkType /\ state \in LoopState
      /\ state.next <= Len(work.results)
  <2>1. state.phase = "verifying"
    <3>1. ASSUME VerifyRun PROVE state.phase = "verifying"
      <4>1. PICK sig \in Signature : Verify(sig)
        BY <3>1 DEF VerifyRun, Observed
      <4>2. QED BY <4>1 DEF Verify
    <3>2. ASSUME VerifyEvidence PROVE state.phase = "verifying"
      BY <3>2 DEF VerifyEvidence
    <3>3. QED BY <3>1, <3>2
  <2>2. work \in WorkType /\ state \in LoopState
    BY DEF WorkInv, ProfileType, PlaceInv, TypeOK
  <2>3. state.next <= Len(work.results)
    BY <2>1 DEF WorkInv, Accounted, Planned, Through
  <2>4. QED BY <2>1, <2>2, <2>3
<1>2. RepairStatus \in Statuses
  BY DEF RepairStatus, ProcessStatus, Statuses
<1>3. CASE VerifyRun
  <2>1. profile # "evidence" /\ Observed(RepairStatus, Nothing)
    BY <1>3 DEF VerifyRun
  <2>2. RepairStatus = "passed" => (\A i \in 1 .. state.next : At(i).ok) /\ Exited
    BY <1>1, RepairProved
  <2>3. QED BY <1>2, <2>1, <2>2, ObservedWork
<1>4. CASE VerifyEvidence
  <2>1. CASE Erroneous(Recent)
    <3>1. Observed("blocked", Nothing)
      BY <1>4, <2>1 DEF VerifyEvidence
    <3>2. QED BY <3>1, ObservedWork DEF Statuses
  <2>2. CASE ~ Erroneous(Recent)
    <3>1. PICK answer \in Agreed({a \in EvidenceAnswers : FitsCriteria(a)}) :
            IF answer = Raised
            THEN Fail /\ UNCHANGED <<file, work, saved, pending>>
            ELSE Observed(EvidenceStatus(answer), answer.criteria)
      BY <1>4, <2>2 DEF VerifyEvidence
    <3>2. CASE answer = Raised
      BY <3>1, <3>2, FailWork
    <3>3. CASE answer # Raised
      <4>1. /\ Observed(EvidenceStatus(answer), answer.criteria)
            /\ answer \in EvidenceAnswers /\ FitsCriteria(answer) /\ profile = "evidence"
        BY <1>4, <3>1, <3>3 DEF Agreed, VerifyEvidence
      <4>2. Len(work.results) \in Nat /\ DOMAIN work.results = 1 .. Len(work.results)
            /\ MaxItems \in Nat
        BY <1>1, WorkFields, ProfileAssumption
      <4>3. answer.criteria \in Assessment
        <5>1. {{}, {1}, {Len(work.results)}} \subseteq SUBSET Nat
          BY <4>2
        <5>2. answer.criteria \in
                [Criterion -> [satisfied : BOOLEAN, refs : {{}, {1}, {Len(work.results)}}]]
          BY <4>1 DEF EvidenceAnswers
        <5>3. QED BY <5>1, <5>2 DEF Assessment
      <4>4. EvidenceStatus(answer) \in Statuses
        BY DEF EvidenceStatus, Statuses
      <4>5. \A i \in 1 .. state.next : At(i).ok
        BY <1>1, <2>2, RecentIsLast DEF Erroneous
      <4>6. ASSUME EvidenceStatus(answer) = "passed", NEW c \in Criterion
            PROVE  /\ answer.criteria[c].satisfied /\ answer.criteria[c].refs # {}
                   /\ \A i \in answer.criteria[c].refs :
                       i \in DOMAIN work.results /\ work.results[i].ok
                       /\ Len(work.results) - i < MaxItems
        <5>1. answer.criteria[c].satisfied /\ answer.criteria[c].refs # {}
              /\ answer.criteria[c].refs \subseteq Catalogue
          BY <4>1, <4>6 DEF EvidenceStatus, FitsCriteria
        <5>2. \A i \in Catalogue :
                i \in DOMAIN work.results /\ work.results[i].ok
                /\ Len(work.results) - i < MaxItems
          BY <4>2 DEF Catalogue
        <5>3. QED BY <5>1, <5>2
      <4>7. QED BY <4>1, <4>3, <4>4, <4>5, <4>6, ObservedWork
    <3>4. QED BY <3>2, <3>3
  <2>3. QED BY <2>1, <2>2
<1>5. QED BY <1>3, <1>4

LEMMA JudgeWork ==
  ASSUME PlaceInv, WorkInv, profile # "free",
         UNCHANGED <<needs, profile, origin>>, JudgeRun
  PROVE  WorkInv'
<1>1. /\ state.phase = "judging" /\ state \in LoopState /\ pc' = "top"
      /\ UNCHANGED <<file, work, saved>>
      /\ state' = CASE Decision = "complete" -> End(state, "completed")
                    [] Decision = "stop" -> End(state, "stopped")
                    [] OTHER -> [state EXCEPT !.phase = "ready"]
  BY DEF JudgeRun, Judge, PlaceInv, TypeOK
<1>2. Decision = "complete" <=> work.status = "passed"
  BY DEF Decision
<1>3. Planned /\ state.status # "completed"
  BY <1>1 DEF Planned, Through, PlaceInv, Placed, Ended
<1>4. /\ state'.next = state.next /\ state'.plan = state.plan
      /\ state'.phase # "judging" /\ (state'.status = "completed" => work.status = "passed")
  <2>1. CASE Decision = "complete"
    BY <1>1, <1>2, <2>1, EndState DEF Ended
  <2>2. CASE Decision = "stop"
    BY <1>1, <2>2, EndState DEF Ended
  <2>3. CASE Decision \notin {"complete", "stop"}
    BY <1>1, <1>3, <2>3 DEF LoopState
  <2>4. QED BY <2>1, <2>2, <2>3
<1>5. QED BY <1>1, <1>3, <1>4, Kept

-----------------------------------------------------------------------------
LEMMA WorkInit == ProfileInit => WorkInv
<1> SUFFICES ASSUME ProfileInit PROVE WorkInv
  OBVIOUS
<1>1. /\ work = NoWork /\ saved = work /\ origin = file /\ Asked /\ profile \in Profiles
      /\ state = Created /\ pc = "resume"
  BY DEF ProfileInit, Init
<1>2. work \in WorkType /\ work.actions = <<>>
  <2>1. <<>> \in Seq(Action) /\ <<>> \in Seq(ResultType)
    BY EmptySeq
  <2>2. QED BY <1>1, <2>1 DEF NoWork, WorkType
<1>3. profile # "free" => file \in Content
  BY DEF ProfileInit
<1>4. /\ state.phase = "ready" /\ state.status = "ready"
  BY <1>1 DEF Created
<1>5. Accounted /\ PendingInv /\ SawFile /\ VerdictInv
  BY <1>1, <1>4 DEF Accounted, PendingInv, SawFile, VerdictInv, Planned, Through
<1>6. FileKept
  BY <1>1, <1>2 DEF FileKept
<1>7. QED BY <1>1, <1>2, <1>3, <1>5, <1>6 DEF WorkInv, ProfileType

LEMMA WorkStep == PlaceInv /\ PlaceInv' /\ WorkInv /\ [ProfileNext]_profileVars => WorkInv'
<1> SUFFICES ASSUME PlaceInv, PlaceInv', WorkInv, [ProfileNext]_profileVars PROVE WorkInv'
  OBVIOUS
<1>1. CASE ProfileStep
  <2> UNCHANGED <<needs, profile, origin>> /\ profile # "free"
    BY <1>1 DEF ProfileStep
  <2>1. CASE EngineStep
    BY <2>1, EngineWork
  <2>2. CASE PlanScripted
    <3>1. /\ profile \in {"check", "scripted"} /\ PlanActions(Scripted)
          /\ state.phase = "planning" /\ Asked /\ profile \in Profiles
      BY <2>2 DEF PlanScripted, PlanActions, Plan, WorkInv, ProfileType
    <3>2. Scripted \in Seq(Action) /\ (profile = "check" => Scripted = <<Check>>)
      BY <3>1, ScriptedActions
    <3>3. "patch" \notin needs => \A i \in DOMAIN Scripted : ~ IsPatch(Scripted[i])
      <4>1. "patch" \notin needs => profile = "check"
        BY <3>1, AskedProfile
      <4>2. DOMAIN <<Check>> = {1} /\ <<Check>>[1] = Check /\ ~ IsPatch(Check)
        BY DEF IsPatch, Check
      <4>3. QED BY <3>2, <4>1, <4>2
    <3>4. QED BY <3>1, <3>2, <3>3, PlanWork
  <2>3. CASE PlanProposed
    <3>1. PICK answer \in Agreed({a \in PlanAnswers : FitsPlan(a)}) :
            IF answer = Raised THEN PlanFails ELSE PlanActions(answer.actions)
      BY <2>3 DEF PlanProposed
    <3>2. CASE answer = Raised
      BY <3>1, <3>2, FailWork DEF PlanFails
    <3>3. CASE answer # Raised
      <4>1. answer \in PlanAnswers /\ FitsPlan(answer) /\ PlanActions(answer.actions)
        BY <3>1, <3>3 DEF Agreed
      <4>2. /\ answer.actions \in Seq(Action)
            /\ profile = "evidence" =>
                 \A i \in DOMAIN answer.actions : ~ IsPatch(answer.actions[i])
        BY <4>1, ProposedActions
      <4>3. "patch" \notin needs => profile = "evidence"
        BY <2>3, AskedProfile DEF PlanProposed, WorkInv, ProfileType
      <4>4. QED BY <4>1, <4>2, <4>3, PlanWork
    <3>4. QED BY <3>2, <3>3
  <2>4. CASE PerformAction
    BY <2>4, PerformWork
  <2>5. CASE RecordAction
    BY <2>5, RecordWork
  <2>6. CASE VerifyRun \/ VerifyEvidence
    BY <2>6, VerifyWork
  <2>7. CASE JudgeRun
    BY <2>7, JudgeWork
  <2>8. QED BY <1>1, <2>1, <2>2, <2>3, <2>4, <2>5, <2>6, <2>7 DEF ProfileStep
<1>2. CASE FreeStep
  BY <1>2 DEF FreeStep, WorkInv
<1>3. CASE ProfileCrash
  <2>1. CASE profile = "free"
    BY <1>3, <2>1 DEF ProfileCrash, WorkInv
  <2>2. CASE profile # "free"
    <3>1. /\ UNCHANGED <<needs, profile, origin, file, work, saved>>
          /\ state' = state /\ pc' = "resume"
      BY <1>3, <2>2 DEF ProfileCrash, Crash, Loaded, PlaceInv, InStep, WorkInv, ProfileType
    <3>2. QED BY <2>2, <3>1, Kept DEF Planned, Through
  <2>3. QED BY <2>1, <2>2
<1>4. CASE Timeout /\ UNCHANGED <<needs, profile, file, work, saved, pending, origin>>
  <2>1. CASE profile = "free"
    BY <1>4, <2>1 DEF WorkInv
  <2>2. CASE profile # "free"
    BY <1>4, <2>2, Kept DEF Timeout, Planned, Through
  <2>3. QED BY <2>1, <2>2
<1>5. CASE UNCHANGED profileVars
  <2>1. CASE profile = "free"
    BY <1>5, <2>1 DEF profileVars, WorkInv
  <2>2. CASE profile # "free"
    BY <1>5, <2>2, Kept DEF profileVars, Planned, Through
  <2>3. QED BY <2>1, <2>2
<1>6. QED BY <1>1, <1>2, <1>3, <1>4, <1>5 DEF ProfileNext

(* Evidence as the reader of a completed run finds it.                     *)
LEMMA EvidenceMeans == PlaceInv /\ WorkInv => CompletedOnEvidence
<1> SUFFICES ASSUME PlaceInv, WorkInv, profile # "free",
                    LeafStatus = "completed", state.status # "running"
             PROVE  /\ ~ Erroneous(Recent)
                    /\ IF "verify" \notin needs
                       THEN \A c \in Criterion :
                              /\ work.criteria[c].satisfied /\ work.criteria[c].refs # {}
                              /\ \A i \in work.criteria[c].refs :
                                  i \in DOMAIN work.results /\ work.results[i].ok
                                  /\ Len(work.results) - i < MaxItems
                       ELSE \E i \in DOMAIN Recent :
                              LET r == Recent[i]
                                  later == SubSeq(Recent, i + 1, Len(Recent))
                              IN  /\ r.action = Check
                                  /\ r.output.exit_zero /\ ~ r.output.timed_out
                                  /\ \A j \in DOMAIN later : later[j].action # Check
                                  /\ (\A j \in DOMAIN later :
                                        later[j].action.tool # "apply_patch")
                                       => r.output.saw = file
  BY DEF CompletedOnEvidence
<1>1. /\ state.status = "completed" /\ state \in LoopState /\ work \in WorkType
      /\ Asked /\ profile \in Profiles /\ Planned /\ state.next = state.plan
      /\ state.next <= Len(work.results) /\ Proved
  <2>1. state.status = "completed"
    BY DEF LeafStatus
  <2>2. QED BY <2>1 DEF WorkInv, ProfileType, PlaceInv, TypeOK, Placed, Accounted, VerdictInv,
                        Planned, Through
<1>2. /\ Recent \in Seq(ResultType) /\ Len(Recent) = state.next /\ state.next \in Nat
      /\ DOMAIN Recent = 1 .. state.next
      /\ \A i \in 1 .. state.next : Recent[i] = At(i) /\ At(i) \in ResultType
  BY <1>1, RecentIsLast, Fields
<1>3. ~ Erroneous(Recent)
  BY <1>1, <1>2 DEF Proved, Erroneous
<1>4. CASE "verify" \notin needs
  BY <1>1, <1>3, <1>4, AskedProfile DEF Proved, Cited
<1>5. CASE "verify" \in needs
  <2>1. PICK i \in 1 .. state.next :
          /\ At(i).action = Check /\ At(i).output.exit_zero /\ ~ At(i).output.timed_out
          /\ \A j \in i + 1 .. state.next : At(j).action # Check
    BY <1>1, <1>5, AskedProfile DEF Proved, Exited
  <2> DEFINE later == SubSeq(Recent, i + 1, Len(Recent))
  <2>2. /\ DOMAIN later = 1 .. state.next - i
        /\ \A j \in 1 .. state.next - i : later[j] = At(i + j)
    <3>1. \A j \in i + 1 .. state.next : Recent[j] \in ResultType
      BY <1>2
    <3>2. i + 1 \in Int /\ state.next \in Int
      BY <1>2
    <3>3. /\ SubSeq(Recent, i + 1, state.next) \in Seq(ResultType)
          /\ Len(SubSeq(Recent, i + 1, state.next))
               = IF i + 1 <= state.next THEN state.next - (i + 1) + 1 ELSE 0
          /\ \A j \in 1 .. state.next - (i + 1) + 1 :
               SubSeq(Recent, i + 1, state.next)[j] = Recent[i + 1 + j - 1]
      BY <3>1, <3>2, SubSeqProperties
    <3>4. /\ \A j \in 1 .. state.next - i : i + 1 + j - 1 = i + j /\ i + j \in 1 .. state.next
          /\ state.next - (i + 1) + 1 = state.next - i
          /\ (IF i + 1 <= state.next THEN state.next - (i + 1) + 1 ELSE 0) = state.next - i
      BY <1>2
    <3>5. later \in Seq(ResultType) /\ Len(later) = state.next - i
      BY <1>2, <3>3, <3>4
    <3>6. DOMAIN later = 1 .. state.next - i
      <4> HIDE DEF later
      <4> QED BY <3>5, LenProperties
    <3>7. \A j \in 1 .. state.next - i : later[j] = At(i + j)
      BY <1>2, <3>3, <3>4
    <3>8. QED BY <3>6, <3>7
  <2> HIDE DEF later
  <2>3. \A j \in DOMAIN later : later[j].action # Check
    <3>1. \A j \in 1 .. state.next - i : i + j \in i + 1 .. state.next
      BY <1>2
    <3>2. QED BY <2>1, <2>2, <3>1
  <2>4. ASSUME \A j \in DOMAIN later : later[j].action.tool # "apply_patch"
        PROVE  At(i).output.saw = file
    <3>1. ASSUME NEW k \in i + 1 .. state.next PROVE ~ IsPatch(At(k).action)
      <4>1. k - i \in 1 .. state.next - i /\ i + (k - i) = k
        BY <1>2
      <4>2. later[k - i] = At(k)
        BY <2>2, <4>1
      <4>3. QED BY <2>2, <2>4, <4>1, <4>2 DEF IsPatch
    <3>2. At(i).ok
      BY <1>1 DEF Proved
    <3>3. ~ (state.next < state.plan)
      BY <1>1, <1>2
    <3>4. QED BY <1>1, <2>1, <3>1, <3>2, <3>3 DEF WorkInv, SawFile
  <2>5. i \in DOMAIN Recent /\ Recent[i] = At(i)
    BY <1>2
  <2>6. \E k \in DOMAIN Recent :
          /\ Recent[k].action = Check
          /\ Recent[k].output.exit_zero /\ ~ Recent[k].output.timed_out
          /\ \A j \in DOMAIN SubSeq(Recent, k + 1, Len(Recent)) :
               SubSeq(Recent, k + 1, Len(Recent))[j].action # Check
          /\ (\A j \in DOMAIN SubSeq(Recent, k + 1, Len(Recent)) :
               SubSeq(Recent, k + 1, Len(Recent))[j].action.tool # "apply_patch")
               => Recent[k].output.saw = file
    <3> USE <2>5
    <3> WITNESS i \in DOMAIN Recent
    <3> QED BY <2>1, <2>3, <2>4 DEF later
  <2>7. QED BY <1>3, <1>5, <2>6
<1>6. QED BY <1>4, <1>5

LEMMA ProfileInvariance == ProfileSpec => [](PlaceInv /\ WorkInv)
<1>1. ProfileInit => PlaceInv /\ WorkInv
  BY PlaceInit, WorkInit DEF ProfileInit
<1>2. PlaceInv /\ WorkInv /\ [ProfileNext]_profileVars => (PlaceInv /\ WorkInv)'
  BY PlaceStep, ProfileStepsEngine, WorkStep
<1>3. QED BY <1>1, <1>2, PTL DEF ProfileSpec

(* A leaf reported completed has the evidence for it, wherever the program *)
(* died and whatever the models and the tools answered.                    *)
THEOREM LeavesHaveEvidence == ProfileSpec => []CompletedOnEvidence
  BY ProfileInvariance, EvidenceMeans, PTL

(* A leaf whose capabilities do not ask for patches leaves the file alone, *)
(* whatever a model plans (coding_leaf.py:174-218).                        *)
THEOREM UnaskedFileKept == ProfileSpec => []("patch" \notin needs => file = origin)
<1>1. WorkInv => ("patch" \notin needs => file = origin)
  BY DEF WorkInv, FileKept
<1>2. QED BY <1>1, ProfileInvariance, PTL

-----------------------------------------------------------------------------
(* The file is what the recorded patches make of the original.             *)

(* What the results make of a content, one after the other.                *)
FileAfter(content, results) == FoldLeft(AfterResult, content, results)

\* the contents after the first results
IsPath(g, content, results) ==
  /\ g \in [0 .. Len(results) -> Content \cup {content}]
  /\ g[0] = content
  /\ \A i \in 1 .. Len(results) : g[i] = AfterResult(g[i - 1], results[i])

LEMMA AfterResultType ==
  ASSUME NEW origins, NEW content \in Content \cup origins, NEW r \in ResultType
  PROVE  AfterResult(content, r) \in Content \cup origins
<1>1. CASE r.action \in {Look, Check}
  BY <1>1 DEF AfterResult, Look, Check
<1>2. CASE r.action \notin {Look, Check}
  <2>1. PICK p \in Patches : r.action = Patch(p)
    BY <1>2 DEF ResultType, Action
  <2>2. r.action.patch = p
    BY <2>1 DEF Patch
  <2>3. content \in DOMAIN p.changes => p.changes[content] \in Content
    BY ProfileAssumption
  <2>4. QED BY <2>2, <2>3 DEF AfterResult
<1>3. QED BY <1>1, <1>2

LEMMA FileAfterHasPath ==
  ASSUME NEW content, NEW results \in Seq(ResultType)
  PROVE  \E g : IsPath(g, content, results) /\ FileAfter(content, results) = g[Len(results)]
<1> DEFINE n == Len(results)
           D == DOMAIN results
           A == Content \cup {content}
           After(s, f) == IF s = {} THEN content
                          ELSE AfterResult(f[s \ {Max(s)}], results[Max(s)])
           Stepped(f) == [s \in SUBSET D |-> After(s, f)]
           iter == CHOOSE f : f = Stepped(f)
           R == StrictSubsetOrdering(D)
           G == [s \in SUBSET D |-> [f \in [SUBSET D -> A] |-> After(s, f)]]
<1>1. FileAfter(content, results) = iter[D]
  BY DEF FileAfter, FoldLeft, MapThenFoldSet
<1>2. n \in Nat /\ D = 1 .. n /\ \A i \in D : results[i] \in ResultType
  BY LenProperties, ElementOfSeq
<1>3. ASSUME NEW s \in SUBSET D, s # {}
      PROVE  Max(s) \in s /\ Max(s) \in D /\ s \ {Max(s)} \in SUBSET D
             /\ <<s \ {Max(s)}, s>> \in R
  <2>1. s \in SUBSET Nat /\ \A k \in s : k <= n
    BY <1>2
  <2>2. Max(s) \in s
    BY <1>2, <1>3, <2>1, GreatestIsMax
  <2> QED BY <2>2 DEF StrictSubsetOrdering
<1> HIDE DEF iter, D, n, A
<1>4. ASSUME NEW s \in SUBSET D, NEW f \in [SUBSET D -> A]
      PROVE  After(s, f) \in A
  <2>1. CASE s # {}
    <3>1. results[Max(s)] \in ResultType /\ f[s \ {Max(s)}] \in A
      BY <1>2, <1>3, <2>1
    <3> QED BY <2>1, <3>1, AfterResultType DEF A
  <2> QED BY <2>1 DEF A
<1>5. ASSUME NEW s \in SUBSET D, NEW f \in [SUBSET D -> A], NEW g \in [SUBSET D -> A],
             \A t \in SUBSET D : <<t, s>> \in R => f[t] = g[t]
      PROVE  After(s, f) = After(s, g)
  <2> HIDE DEF R
  <2> QED BY <1>3, <1>5
<1>6. IsWellFoundedOn(R, SUBSET D)
  <2>1. IsFiniteSet(D)
    BY <1>2, FS_Interval
  <2>2. FiniteSubsetsOf(D) = SUBSET D
    BY <2>1, FS_FiniteSubsetsOfFinite, FS_Subset DEF FiniteSubsetsOf
  <2> QED BY <2>2, FS_StrictSubsetOrderingWellFounded
<1>7. \A x, y, z \in SUBSET D : <<x, y>> \in R /\ <<y, z>> \in R => <<x, z>> \in R
  BY DEF StrictSubsetOrdering
<1> HIDE DEF After, R
<1>8. \A s \in SUBSET D : \A f \in [SUBSET D -> A] : G[s][f] = After(s, f)
  OBVIOUS
<1> HIDE DEF G
<1>9. ASSUME NEW s \in SUBSET D, NEW f \in [SUBSET D -> A], NEW g \in [SUBSET D -> A],
             \A t \in SUBSET D : <<t, s>> \in R => f[t] = g[t]
      PROVE  G[s][f] = G[s][g]
  <2>1. After(s, f) = After(s, g)
    BY <1>5, <1>9
  <2> QED BY ONLY <1>8, <2>1, s \in SUBSET D, f \in [SUBSET D -> A], g \in [SUBSET D -> A]
<1>10. PICK F \in [SUBSET D -> A] : \A s \in SUBSET D : F[s] = G[s][F]
  <2>1. A # {} /\ \A s \in SUBSET D : \A f \in [SUBSET D -> A] : G[s][f] \in A
    BY <1>4, <1>8 DEF A
  <2>2. RecursionOn(SUBSET D, R, A, G)
    BY <1>6, <1>7, <1>9, <2>1 DEF RecursionOn
  <2>3. \E f : IsSolution(f, SUBSET D, A, G)
    BY ONLY <2>2, RecursionHasSolution
  <2> QED BY <2>3 DEF IsSolution
<1>11. F = Stepped(F)
  BY <1>8, <1>10
<1>12. iter = Stepped(iter)
  <2> HIDE DEF Stepped
  <2> QED BY <1>11 DEF iter
<1>13. \A s \in SUBSET D : iter[s] = After(s, iter)
  BY <1>12
<1>14. \A i \in 1 .. n : /\ 1 .. i \in SUBSET D /\ 1 .. i # {} /\ Max(1 .. i) = i
                         /\ (1 .. i) \ {i} = 1 .. i - 1
  <2> SUFFICES ASSUME NEW i \in 1 .. n
               PROVE  /\ 1 .. i \in SUBSET D /\ 1 .. i # {} /\ Max(1 .. i) = i
                      /\ (1 .. i) \ {i} = 1 .. i - 1
    OBVIOUS
  <2>1. i \in Nat /\ i \in 1 .. i /\ 1 .. i \in SUBSET Nat /\ \A k \in 1 .. i : k <= i
    BY <1>2
  <2>2. Max(1 .. i) \in 1 .. i /\ \A k \in 1 .. i : k <= Max(1 .. i)
    BY <2>1, GreatestIsMax
  <2> QED BY <1>2, <2>1, <2>2
<1>15. \A i \in 1 .. n : iter[1 .. i] = AfterResult(iter[1 .. i - 1], results[i])
  <2> SUFFICES ASSUME NEW i \in 1 .. n
               PROVE  iter[1 .. i] = AfterResult(iter[1 .. i - 1], results[i])
    OBVIOUS
  <2>1. iter[1 .. i] = After(1 .. i, iter)
    BY <1>13, <1>14
  <2>2. After(1 .. i, iter) = AfterResult(iter[(1 .. i) \ {i}], results[i])
    BY <1>14 DEF After
  <2> QED BY <1>14, <2>1, <2>2
<1>16. iter[1 .. 0] = content
  <2>1. 1 .. 0 = {}
    OBVIOUS
  <2> QED BY <1>13, <2>1 DEF After
<1> DEFINE g == [i \in 0 .. n |-> iter[1 .. i]]
<1>17. g[0] = content /\ g[n] = iter[D] /\ content \in A
  BY <1>2, <1>16 DEF A
<1>18. \A i \in 1 .. n : g[i] = AfterResult(g[i - 1], results[i])
  <2>1. \A i \in 1 .. n : i \in 0 .. n /\ i - 1 \in 0 .. n
    BY <1>2
  <2> QED BY <1>15, <2>1
<1> HIDE DEF g
<1>19. \A i \in 0 .. n : g[i] \in A
  <2> DEFINE T == {i \in 0 .. n : g[i] \notin A}
  <2> SUFFICES ASSUME T # {} PROVE FALSE
    OBVIOUS
  <2>1. T \in SUBSET Nat
    BY <1>2
  <2>2. PICK m \in T : \A k \in T : m <= k
    <3> HIDE DEF T
    <3> QED BY <2>1, LeastElement
  <2>3. m \in 1 .. n /\ m - 1 \in 0 .. n /\ m - 1 \notin T
    BY <1>2, <1>17, <2>2
  <2>4. g[m - 1] \in A /\ results[m] \in ResultType
    BY <1>2, <2>3
  <2>5. g[m] = AfterResult(g[m - 1], results[m])
    BY <1>18, <2>3
  <2>6. AfterResult(g[m - 1], results[m]) \in A
    BY ONLY <2>4, AfterResultType DEF A
  <2> QED BY <2>2, <2>5, <2>6
<1>20. g \in [0 .. n -> A]
  <2>1. g = [i \in 0 .. n |-> g[i]]
    BY DEF g
  <2> QED BY <1>19, <2>1
<1> QED BY <1>1, <1>17, <1>18, <1>20 DEF IsPath, n, A

LEMMA FileAfterNone ==
  ASSUME NEW content
  PROVE  FileAfter(content, <<>>) = content
<1>1. <<>> \in Seq(ResultType) /\ Len(<<>>) = 0
  BY EmptySeq
<1>2. PICK g : IsPath(g, content, <<>>) /\ FileAfter(content, <<>>) = g[Len(<<>>)]
  BY ONLY <1>1, FileAfterHasPath
<1>3. QED BY <1>1, <1>2 DEF IsPath

LEMMA FileAfterOneMore ==
  ASSUME NEW content, NEW results \in Seq(ResultType), NEW r \in ResultType
  PROVE  FileAfter(content, Append(results, r)) = AfterResult(FileAfter(content, results), r)
<1> DEFINE n == Len(results)
           more == Append(results, r)
<1>1. /\ n \in Nat /\ more \in Seq(ResultType) /\ Len(more) = n + 1 /\ more[n + 1] = r
      /\ \A i \in 1 .. n : more[i] = results[i]
  BY LenProperties, AppendProperties
<1> HIDE DEF more
<1>2. PICK g : IsPath(g, content, results) /\ FileAfter(content, results) = g[n]
  BY FileAfterHasPath
<1>3. PICK h : IsPath(h, content, more) /\ FileAfter(content, more) = h[n + 1]
  BY <1>1, FileAfterHasPath
<1> HIDE DEF n
<1>4. /\ g[0] = h[0] /\ \A i \in 1 .. n : g[i] = AfterResult(g[i - 1], results[i])
      /\ \A i \in 1 .. n + 1 : h[i] = AfterResult(h[i - 1], more[i])
  BY <1>1, <1>2, <1>3 DEF IsPath, n
<1>5. h[n] = g[n]
  <2> DEFINE T == {i \in 0 .. n : h[i] # g[i]}
  <2> SUFFICES ASSUME T # {} PROVE FALSE
    BY <1>1
  <2>1. T \in SUBSET Nat
    BY <1>1
  <2>2. PICK m \in T : \A k \in T : m <= k
    <3> HIDE DEF T
    <3> QED BY <2>1, LeastElement
  <2>3. m \in 1 .. n /\ m \in 1 .. n + 1 /\ m - 1 \in 0 .. n /\ m - 1 \notin T
    BY <1>1, <1>4, <2>2
  <2>4. h[m - 1] = g[m - 1] /\ more[m] = results[m]
    BY <1>1, <2>3
  <2> QED BY <1>4, <2>2, <2>3, <2>4
<1>6. n + 1 \in 1 .. n + 1 /\ n + 1 - 1 = n
  BY <1>1
<1>7. QED BY <1>1, <1>2, <1>3, <1>4, <1>5, <1>6 DEF more

Repeats(r) == IsPatch(r.action) => r.ok /\ Repeatable(r.action.patch)

Recorded == FileAfter(origin, work.results)

\* what an action makes of a content
Made(content, action) ==
  IF IsPatch(action) /\ content \in DOMAIN action.patch.changes
  THEN action.patch.changes[content] ELSE content

\* the next action is a patch and was performed, its record is lost
Unrecorded ==
  LET action == work.actions[state.next + 1] IN
  /\ Current \in Did /\ IsPatch(action)
  /\ Repeatable(action.patch) => file = Made(Recorded, action)

PatchInv ==
  /\ profile = "free" => work = NoWork /\ saved = NoWork
  /\ profile # "free" /\ (\A i \in DOMAIN work.results : Repeats(work.results[i])) =>
       /\ file = Recorded \/ Unrecorded
       /\ pc = "acted" /\ Repeats(pending) => file = Made(Recorded, pending.action)

LEMMA AfterResultIsMade ==
  \A content, r : AfterResult(content, r) = Made(content, r.action)
  BY DEF AfterResult, Made, IsPatch

(* A patch performed once more is the one performed before.                *)
LEMMA PatchOnceMore ==
  ASSUME NEW p \in Patches, NEW outcome \in Outcomes(Patch(p)), NEW before,
         file = before \/ (Repeatable(p) => file = Made(before, Patch(p)))
  PROVE  /\ outcome[1].ok /\ Repeatable(p) => outcome[2] = Made(before, Patch(p))
         /\ outcome[2] = before \/ (Repeatable(p) => outcome[2] = Made(before, Patch(p)))
<1>1. Patch(p).tool = "apply_patch" /\ Patch(p).patch = p /\ IsPatch(Patch(p))
  BY DEF Patch, IsPatch
<1>2. \A content : Made(content, Patch(p))
                     = IF content \in DOMAIN p.changes THEN p.changes[content] ELSE content
  BY <1>1 DEF Made
<1>3. outcome = <<Error(Patch(p)), file>> \/ outcome = Patched(p)
  BY <1>1 DEF Outcomes
<1>4. CASE outcome = <<Error(Patch(p)), file>>
  <2>1. outcome[2] = file /\ ~ outcome[1].ok
    BY <1>4 DEF Error
  <2>2. QED BY <2>1
<1>5. CASE outcome = Patched(p) /\ outcome # <<Error(Patch(p)), file>>
  <2>1. \/ file \in p.present /\ outcome[2] = file
        \/ file \in DOMAIN p.changes /\ outcome[2] = p.changes[file]
    BY <1>5 DEF Patched
  <2>2. p.present \cap DOMAIN p.changes = {}
    BY ProfileAssumption
  <2>3. Repeatable(p) => \A c \in DOMAIN p.changes : p.changes[c] \notin DOMAIN p.changes
    BY DEF Repeatable
  <2>4. Repeatable(p) => outcome[2] = Made(before, Patch(p))
    BY <1>2, <2>1, <2>2, <2>3
  <2>5. QED BY <2>4
<1>6. QED BY <1>3, <1>4, <1>5

(* A step that keeps the file and the results, and the place too if the    *)
(* record of a patch is lost.                                              *)
LEMMA PatchesKept ==
  ASSUME PatchInv, profile # "free", UNCHANGED <<profile, origin, file>>,
         work'.results = work.results,
         pc' = "acted" => pc = "acted" /\ pending' = pending,
         Current \in Did =>
           /\ UNCHANGED performed /\ state'.iteration = state.iteration
           /\ state'.next = state.next /\ work'.actions = work.actions
  PROVE  PatchInv'
<1>1. Recorded' = Recorded
  BY DEF Recorded
<1>2. Unrecorded => Unrecorded'
  BY <1>1 DEF Unrecorded, Current, Did
<1>3. QED BY <1>1, <1>2 DEF PatchInv

\* only an interrupted iteration has such a patch
LEMMA PatchesKeptElsewhere ==
  ASSUME PlaceInv, PatchInv, profile # "free", UNCHANGED <<profile, origin, file>>,
         work'.results = work.results, pc' # "acted",
         state.phase \notin {"executing", "terminal"}
  PROVE  PatchInv'
<1>1. Current \notin Did
  BY DEF PlaceInv, Frontier
<1>2. QED BY <1>1, PatchesKept

LEMMA EnginePatches ==
  ASSUME PlaceInv, WorkInv, PatchInv, profile # "free",
         UNCHANGED <<needs, profile, origin>>, EngineStep
  PROVE  PatchInv'
<1>1. /\ file' = file /\ pc' # "acted" /\ performed' = performed
      /\ work \in WorkType /\ state \in LoopState
  BY DEF EngineStep, Resume, Return, Top, ActionsDone, WorkInv, ProfileType, PlaceInv, TypeOK
<1>2. work'.results = work.results
  BY <1>1 DEF EngineStep, Holds, WorkType
<1>3. ASSUME Current \in Did
      PROVE  /\ state'.iteration = state.iteration /\ state'.next = state.next
             /\ state'.plan = state.plan
  <2>1. /\ state.phase \in {"executing", "terminal"} /\ state.next < state.plan
        /\ state.next \in Nat /\ state.plan \in Int
    BY <1>1, <1>3, Fields DEF PlaceInv, Frontier
  <2>2. CASE Resume
    BY <1>1, <2>2 DEF Resume, LoopState
  <2>3. CASE Return
    BY <2>3 DEF Return
  <2>4. CASE Top
    <3>1. state' = End(state, "stopped") \/ state' = state
      BY <2>1, <2>4 DEF Top
    <3>2. QED BY <1>1, <3>1, EndState DEF Ended
  <2>5. CASE ActionsDone
    BY <2>1, <2>5 DEF ActionsDone
  <2>6. QED BY <2>2, <2>3, <2>4, <2>5 DEF EngineStep
<1>4. ASSUME Current \in Did PROVE work'.actions = work.actions
  <2>1. state.next < state.plan /\ state.next \in Nat /\ state.plan \in Int
    BY <1>1, <1>4, Fields DEF PlaceInv, Frontier
  <2>2. state'.plan # NoPlan
    BY <1>3, <1>4, <2>1 DEF NoPlan
  <2>3. QED BY <2>2 DEF EngineStep, Holds
<1>5. QED BY <1>1, <1>2, <1>3, <1>4, PatchesKept

LEMMA PerformPatches ==
  ASSUME PlaceInv, PlaceInv', WorkInv, PatchInv, profile # "free",
         UNCHANGED <<needs, profile, origin>>, PerformAction
  PROVE  PatchInv'
<1>1. /\ work' = work /\ saved' = saved /\ work \in WorkType
      /\ state \in LoopState /\ state.phase = "executing" /\ state.next < state.plan
      /\ Act
  BY DEF PerformAction, Act, WorkInv, ProfileType, PlaceInv, TypeOK
<1>2. CASE pc' # "acted"
  <2>1. state' = End(state, "stopped") /\ file' = file /\ performed' = performed
    BY <1>1, <1>2 DEF PerformAction, Act
  <2>2. state'.next = state.next /\ state'.iteration = state.iteration
    BY <1>1, <2>1, EndState DEF Ended
  <2>3. QED BY <1>1, <1>2, <2>1, <2>2, PatchesKept
<1>3. CASE pc' = "acted"
  <2> DEFINE action == work.actions[state.next + 1]
  <2>1. state' = state
    BY <1>1, <1>3 DEF Act
  <2>2. state.next + 1 \in 1 .. Len(work.actions)
    BY <1>1, Fields DEF WorkInv, Accounted, Planned, PlaceInv, Placed
  <2>3. action \in Action
    BY <1>1, <2>2, WorkFields
  <2>4. PICK outcome \in Outcomes(action) : pending' = outcome[1] /\ file' = outcome[2]
    BY <1>3 DEF PerformAction
  <2>5. pending'.action = action /\ (~ IsPatch(action) => file' = file)
    BY <2>3, <2>4, OutcomeFits DEF WorkInv, ProfileType
  <2>6. Current' \in Did'
    <3>1. performed'[Current'] > 0
      BY <1>3 DEF PlaceInv, Placed
    <3>2. /\ state.iteration \in 1 .. IterationLimit
          /\ state.plan \in 1 .. MaxPlan /\ state.next \in 0 .. MaxPlan - 1
      BY <1>1, Limits, Fields DEF PlaceInv, Placed, Working
    <3>3. Current' \in Slot
      BY <2>1, <3>2, Limits DEF Current, Slot
    <3>4. QED BY <3>1, <3>3 DEF Did
  <2>7. Recorded' = Recorded /\ action' = action /\ work'.results = work.results
    BY <1>1, <2>1 DEF Recorded
  <2> HIDE DEF action
  <2>8. SUFFICES ASSUME \A i \in DOMAIN work.results : Repeats(work.results[i])
        PROVE  /\ file' = Recorded \/ Unrecorded'
               /\ Repeats(pending') => file' = Made(Recorded, action)
    BY <2>5, <2>7 DEF PatchInv
  <2>9. file = Recorded \/ Unrecorded
    BY <2>8 DEF PatchInv
  <2>10. CASE ~ IsPatch(action)
    <3>1. file' = Recorded
      BY <2>5, <2>9, <2>10 DEF Unrecorded, action
    <3>2. QED BY <2>10, <3>1 DEF Made
  <2>11. CASE IsPatch(action)
    <3>1. PICK p \in Patches : action = Patch(p)
      BY <2>3, <2>11 DEF Action, IsPatch, Look, Check
    <3>2. action.patch = p
      BY <3>1 DEF Patch
    <3>3. file = Recorded \/ (Repeatable(p) => file = Made(Recorded, action))
      BY <2>9, <3>2 DEF Unrecorded, action
    <3>4. /\ pending'.ok /\ Repeatable(p) => file' = Made(Recorded, action)
          /\ file' = Recorded \/ (Repeatable(p) => file' = Made(Recorded, action))
      BY <2>4, <3>1, <3>3, PatchOnceMore
    <3>5. Repeats(pending') => pending'.ok /\ Repeatable(p)
      BY <2>5, <2>11, <3>2 DEF Repeats
    <3>6. (Repeatable(p) => file' = Made(Recorded, action)) => Unrecorded'
      BY <2>6, <2>7, <2>11, <3>2 DEF Unrecorded, action
    <3>7. QED BY <3>4, <3>5, <3>6
  <2>12. QED BY <2>10, <2>11
<1>4. QED BY <1>2, <1>3

LEMMA RecordPatches ==
  ASSUME PlaceInv, WorkInv, PatchInv, profile # "free",
         UNCHANGED <<needs, profile, origin>>, RecordAction
  PROVE  PatchInv'
<1>1. /\ work' = [work EXCEPT !.results = Append(@, pending)]
      /\ file' = file /\ work \in WorkType /\ pc = "acted" /\ pc' = "phase"
  BY DEF RecordAction, Record, Holds, WorkInv, ProfileType
<1>2. pending \in ResultType /\ work.results \in Seq(ResultType)
  BY <1>1, WorkFields DEF WorkInv, PendingInv
<1>3. work'.results = Append(work.results, pending)
  BY <1>1 DEF WorkType
<1>4. Recorded' = Made(Recorded, pending.action)
  BY <1>2, <1>3, FileAfterOneMore, AfterResultIsMade DEF Recorded
<1>5. (\A i \in DOMAIN work'.results : Repeats(work'.results[i])) =>
        (\A i \in DOMAIN work.results : Repeats(work.results[i])) /\ Repeats(pending)
  <2> DEFINE n == Len(work.results)
             more == Append(work.results, pending)
  <2>1. /\ n \in Nat /\ DOMAIN work.results = 1 .. n /\ DOMAIN more = 1 .. n + 1
        /\ more[n + 1] = pending /\ \A i \in 1 .. n : more[i] = work.results[i]
    BY <1>2, LenProperties, AppendProperties
  <2> HIDE DEF n, more
  <2>2. n + 1 \in DOMAIN more /\ DOMAIN work.results \subseteq DOMAIN more
    BY <2>1
  <2>3. (\A i \in DOMAIN more : Repeats(more[i])) =>
          (\A i \in DOMAIN work.results : Repeats(work.results[i])) /\ Repeats(pending)
    BY <2>1, <2>2
  <2>4. QED BY <1>3, <2>3 DEF more
<1>6. QED BY <1>1, <1>4, <1>5 DEF PatchInv

LEMMA PatchInit == ProfileInit => PatchInv
<1>1. ProfileInit => work = NoWork /\ saved = NoWork /\ file = origin /\ pc # "acted"
  BY DEF ProfileInit, Init
<1>2. work = NoWork => Recorded = origin
  BY FileAfterNone DEF Recorded, NoWork
<1>3. QED BY <1>1, <1>2 DEF PatchInv

LEMMA PatchStep ==
  PlaceInv /\ PlaceInv' /\ WorkInv /\ PatchInv /\ [ProfileNext]_profileVars => PatchInv'
<1> SUFFICES ASSUME PlaceInv, PlaceInv', WorkInv, PatchInv, [ProfileNext]_profileVars
             PROVE  PatchInv'
  OBVIOUS
<1>1. CASE ProfileStep
  <2> UNCHANGED <<needs, profile, origin>> /\ profile # "free"
    BY <1>1 DEF ProfileStep
  <2>0. work \in WorkType
    BY DEF WorkInv, ProfileType
  <2>1. CASE EngineStep
    BY <2>1, EnginePatches
  <2>2. ASSUME NEW actions, PlanActions(actions) PROVE PatchInv'
    <3>1. state.phase = "planning" /\ file' = file /\ pc' # "acted"
      BY <2>2 DEF PlanActions, Plan
    <3>2. work'.results = work.results
      BY <2>0, <2>2 DEF PlanActions, Holds, WorkType
    <3>3. QED BY <3>1, <3>2, PatchesKeptElsewhere
  <2>3. ASSUME Fail, UNCHANGED <<file, work, saved, pending>> PROVE PatchInv'
    BY <2>3, PatchesKeptElsewhere DEF Fail
  <2>4. ASSUME NEW status, NEW criteria, Observed(status, criteria) PROVE PatchInv'
    <3>1. PICK sig \in Signature : Verify(sig)
      BY <2>4 DEF Observed
    <3>2. state.phase = "verifying" /\ file' = file /\ pc' # "acted"
      BY <2>4, <3>1 DEF Observed, Verify
    <3>3. work'.results = work.results
      BY <2>0, <2>4 DEF Observed, Holds, WorkType
    <3>4. QED BY <3>2, <3>3, PatchesKeptElsewhere
  <2>5. CASE PlanScripted
    BY <2>2, <2>5 DEF PlanScripted
  <2>6. CASE PlanProposed
    BY <2>2, <2>3, <2>6 DEF PlanProposed, PlanFails
  <2>7. CASE PerformAction
    BY <2>7, PerformPatches
  <2>8. CASE RecordAction
    BY <2>8, RecordPatches
  <2>9. CASE VerifyRun
    BY <2>4, <2>9 DEF VerifyRun
  <2>10. CASE VerifyEvidence
    BY <2>3, <2>4, <2>10 DEF VerifyEvidence
  <2>11. CASE JudgeRun
    BY <2>11, PatchesKeptElsewhere DEF JudgeRun, Judge
  <2>12. QED BY <1>1, <2>1, <2>5, <2>6, <2>7, <2>8, <2>9, <2>10, <2>11 DEF ProfileStep
<1>2. CASE FreeStep
  BY <1>2 DEF FreeStep, PatchInv
<1>3. CASE ProfileCrash
  <2>1. CASE profile = "free"
    BY <1>3, <2>1 DEF ProfileCrash, PatchInv
  <2>2. CASE profile # "free"
    <3>1. /\ UNCHANGED <<profile, origin, file, work, performed>>
          /\ state' = state /\ pc' = "resume"
      BY <1>3, <2>2 DEF ProfileCrash, Crash, Loaded, PlaceInv, InStep, WorkInv, ProfileType
    <3>2. QED BY <2>2, <3>1, PatchesKept
  <2>3. QED BY <2>1, <2>2
<1>4. CASE Timeout /\ UNCHANGED <<needs, profile, file, work, saved, pending, origin>>
  <2>1. CASE profile = "free"
    BY <1>4, <2>1 DEF PatchInv
  <2>2. CASE profile # "free"
    BY <1>4, <2>2, PatchesKept DEF Timeout
  <2>3. QED BY <2>1, <2>2
<1>5. CASE UNCHANGED profileVars
  <2>1. CASE profile = "free"
    BY <1>5, <2>1 DEF profileVars, PatchInv
  <2>2. CASE profile # "free"
    BY <1>5, <2>2, PatchesKept DEF profileVars
  <2>3. QED BY <2>1, <2>2
<1>6. QED BY <1>1, <1>2, <1>3, <1>4, <1>5 DEF ProfileNext

LEMMA PatchesMean == PlaceInv /\ WorkInv /\ PatchInv => PatchesExplained
<1> SUFFICES ASSUME PlaceInv, WorkInv, PatchInv PROVE PatchesExplained
  OBVIOUS
<1>1. "patch" \notin needs => file = origin
  BY DEF WorkInv, FileKept
<1>2. ASSUME \A i \in DOMAIN work.results : Repeats(work.results[i]), Current \notin Did
      PROVE  file = Recorded
  <2>1. CASE profile = "free"
    BY <2>1, FileAfterNone DEF Recorded, PatchInv, WorkInv, NoWork
  <2>2. CASE profile # "free"
    BY <1>2, <2>2 DEF PatchInv, Unrecorded
  <2>3. QED BY <2>1, <2>2
<1>3. ASSUME state.next < state.plan => performed[Current] = 0 PROVE Current \notin Did
  BY <1>3 DEF Did, PlaceInv, Frontier
<1>4. performed[state.iteration, state.next + 1] = performed[Current]
  BY Zenon DEF Current
<1>5. FoldLeft(AfterResult, origin, work.results) = Recorded
  BY Zenon DEF Recorded, FileAfter
<1> HIDE DEF Current, Recorded
<1>6. QED BY Zenon, <1>1, <1>2, <1>3, <1>4, <1>5 DEF PatchesExplained, Repeats, IsPatch

(* Every change of the file has its record, or is that of the next patch,  *)
(* performed before the program died: as long as every recorded patch      *)
(* succeeded and is repeatable and no performed action waits for its       *)
(* record, the file is what the records make of the original, and the      *)
(* original itself if the capabilities do not ask for patches              *)
(* (filesystem.py:136-184, engine.py:119-135).                             *)
THEOREM PatchesHaveRecords == ProfileSpec => []PatchesExplained
<1>1. ProfileInit => PlaceInv /\ WorkInv /\ PatchInv
  BY PlaceInit, WorkInit, PatchInit DEF ProfileInit
<1>2. PlaceInv /\ WorkInv /\ PatchInv /\ [ProfileNext]_profileVars
        => (PlaceInv /\ WorkInv /\ PatchInv)'
  BY PlaceStep, ProfileStepsEngine, WorkStep, PatchStep
<1>3. QED BY <1>1, <1>2, PatchesMean, PTL DEF ProfileSpec
=============================================================================
