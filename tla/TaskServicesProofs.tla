-------------------------- MODULE TaskServicesProofs -------------------------
(***************************************************************************)
(* The services around the scheduler, which share no state: retries,       *)
(* plugins, releases and the verdicts of integration, each from its own    *)
(* inductive invariant.                                                    *)
(***************************************************************************)
EXTENDS TaskRetry, PluginLifecycle, ReleasePipeline, IntegrationVerdicts,
        OrderLemmas, SequenceTheorems

-----------------------------------------------------------------------------
(***************************************************************************)
(* TaskRetry.  Retries are decided inside the window, for every window,    *)
(* backoff and number of attempts.  The invariant behind it: the           *)
(* checkpoint always has the retry counter and the date that memory has, a *)
(* leaf that waits has a dated window and an attempt left, and its wait    *)
(* was granted so that it ends inside the window on a clock nobody sets.   *)
(***************************************************************************)

Status == {"ready", "running", "completed", "failed", "blocked"}
Node == [status : Status, retries : 0 .. MaxAttempts - 1, started : Nat \cup {Never}]

RetryTypeOK ==
  /\ task \in Node
  /\ file \in Node
  /\ wall \in Nat
  /\ waiting \in [delay : Nat, since : Nat, spent : Nat]

OnRecord == task.retries = file.retries /\ task.started = file.started

GrantedInWindow ==
  at = "wait" =>
    /\ task.started # Never
    /\ task.retries < MaxAttempts - 1
    /\ waiting.since + waiting.delay <= task.started + Window

RetryInv == RetryTypeOK /\ OnRecord /\ GrantedInWindow

-----------------------------------------------------------------------------

(* What an authorized decision says of the task and the clock.             *)
LEMMA DecisionOk ==
  ASSUME RetryTypeOK, NEW authorized \in BOOLEAN, Decision(authorized) = "ok"
  PROVE  /\ task.retries < MaxAttempts - 1
         /\ task.started # Never => wall - task.started \in 0 .. Window
         /\ Delay[task.retries] \in Nat
         /\ task.started = Never => Delay[task.retries] <= Window
         /\ task.started # Never => wall + Delay[task.retries] <= task.started + Window
<1> USE RetryAssumption DEF RetryTypeOK, Node, Never
<1>1. task.retries < MaxAttempts - 1
  BY DEF Decision
<1>2. Delay[task.retries] \in Nat
  BY <1>1
<1>3. CASE task.started = Never
  <2>1. Delay[task.retries] <= Window
    BY <1>2, <1>3 DEF Decision
  <2>2. QED BY <1>1, <1>2, <1>3, <2>1
<1>4. CASE task.started # Never
  <2>1. PICK elapsed \in Int : elapsed = wall - task.started
    <3>1. wall \in Int /\ task.started \in Int
      BY <1>4
    <3>2. wall - task.started \in Int
      BY ONLY <3>1
    <3>3. QED BY ONLY <3>2, Zenon
  <2>2. /\ ~(elapsed < 0) /\ ~(elapsed >= Window)
        /\ ~(Delay[task.retries] > Window - elapsed)
    BY <1>4, <2>1 DEF Decision
  <2>3. Delay[task.retries] <= Window - elapsed /\ elapsed \in 0 .. Window
    BY ONLY <1>2, <2>1, <2>2, RetryAssumption
  <2>4. wall + Delay[task.retries] <= task.started + Window
    <3>1. wall \in Int /\ task.started \in Int
      BY <1>4
    <3>2. Window \in Nat
      BY RetryAssumption
    <3>3. QED BY ONLY <1>2, <2>1, <2>3, <3>1, <3>2
  <2>5. QED BY <1>1, <1>2, <1>4, <2>1, <2>3, <2>4
<1>5. QED BY <1>3, <1>4

(* A task that is dated keeps its counter and has a date.                  *)
LEMMA DatedTask ==
  ASSUME RetryTypeOK
  PROVE  /\ Dated(task) \in Node
         /\ Dated(task).retries = task.retries
         /\ Dated(task).started # Never
         /\ task.started # Never => Dated(task).started = task.started
         /\ task.started = Never => Dated(task).started = wall
  BY DEF RetryTypeOK, Node, Dated, Never

(* A retry counts one and keeps the date.                                  *)
LEMMA AgainTask ==
  ASSUME NEW t \in Node, t.retries < MaxAttempts - 1
  PROVE  /\ Again(t) \in Node
         /\ Again(t).retries = t.retries + 1
         /\ Again(t).started = t.started
<1>1. t.retries \in 0 .. MaxAttempts - 1 /\ t.retries + 1 \in 0 .. MaxAttempts - 1
  BY RetryAssumption DEF Node
<1>2. Again(t) = [t EXCEPT !.retries = t.retries + 1, !.status = "ready"]
  BY DEF Again
<1>3. /\ Again(t).retries = t.retries + 1
      /\ Again(t).started = t.started
      /\ Again(t).status = "ready"
  BY <1>2 DEF Node
<1>4. Again(t) \in Node
  BY <1>1, <1>2 DEF Node, Status
<1>5. QED BY <1>3, <1>4

(* A refusal keeps counter and date.                                       *)
LEMMA RefusedTask ==
  ASSUME NEW t \in Node, NEW why, Refused(t, why)
  PROVE  /\ task' \in Node /\ file' = task'
         /\ task'.retries = t.retries /\ task'.started = t.started
         /\ waiting' \in [delay : Nat, since : Nat, spent : Nat]
         /\ at' = "scheduler" /\ reason' = why
<1>1. PICK status \in {"failed", "blocked"} : task' = [t EXCEPT !.status = status]
  BY DEF Refused
<1>2. /\ task' \in Node
      /\ task'.retries = t.retries /\ task'.started = t.started
  BY <1>1 DEF Node, Status
<1>3. QED BY <1>2 DEF Refused, Saved, NoWait

-----------------------------------------------------------------------------

\* what a step may do to the checkpoint and to the reason
Kept == file'.retries = file.retries /\ file'.started = file.started
Granted ==
  /\ file'.retries = file.retries + 1
  /\ file'.started # Never
  /\ file.started # Never => file'.started = file.started
  /\ wall - file'.started \in 0 .. Window
Dating ==
  /\ file'.retries = file.retries
  /\ file.started # Never => file'.started = file.started
Step ==
  /\ RetryInv'
  /\ Kept \/ Granted \/ Dating
  /\ PunctualWaitHonored

(* Every way the request for a retry may end.                              *)
LEMMA AsksStep ==
  ASSUME RetryInv, NEW authorized \in BOOLEAN, Asks(authorized)
  PROVE  Step
<1> USE DEF RetryInv
<1> DEFINE why == Decision(authorized)
<1>1. task \in Node /\ wall' = wall /\ wall \in Nat /\ OnRecord
  BY DEF RetryTypeOK, Asks
<1>2. why # "exhausted_after_wait"
  BY DEF Decision
<1>3. CASE why # "ok"
  <2>1. Refused(task, why)
    BY <1>3 DEF Asks
  <2> HIDE DEF why
  <2>2. QED
    BY <1>1, <1>2, <2>1, RefusedTask
       DEF Step, RetryTypeOK, OnRecord, GrantedInWindow, Kept, PunctualWaitHonored
<1>4. CASE why = "ok"
  <2>1. /\ task.retries < MaxAttempts - 1
        /\ task.started # Never => wall - task.started \in 0 .. Window
        /\ Delay[task.retries] \in Nat
        /\ task.started = Never => Delay[task.retries] <= Window
        /\ task.started # Never => wall + Delay[task.retries] <= task.started + Window
    BY <1>4, DecisionOk
  <2>2. /\ Dated(task) \in Node
        /\ Dated(task).retries = task.retries
        /\ Dated(task).started # Never
        /\ task.started # Never => Dated(task).started = task.started
        /\ task.started = Never => Dated(task).started = wall
    BY DatedTask
  <2>3. CASE /\ task' = Again(Dated(task)) /\ Saved /\ at' = "scheduler"
             /\ UNCHANGED <<waiting, reason>>
    <3>1. /\ Again(Dated(task)) \in Node
          /\ Again(Dated(task)).retries = task.retries + 1
          /\ Again(Dated(task)).started = Dated(task).started
      BY <2>1, <2>2, AgainTask
    <3>2. wall - Dated(task).started \in 0 .. Window
      BY <1>1, <2>1, <2>2, RetryAssumption
    <3>3. RetryInv'
      BY <1>1, <2>3, <3>1 DEF RetryTypeOK, OnRecord, GrantedInWindow, Saved
    <3>4. Granted
      BY <1>1, <2>2, <2>3, <3>1, <3>2 DEF Granted, OnRecord, Saved
    <3>5. QED BY <2>3, <3>3, <3>4 DEF Step, PunctualWaitHonored
  <2>4. CASE /\ task' = Dated(task) /\ Saved /\ at' = "wait"
             /\ waiting' = [delay |-> Delay[task.retries], since |-> wall, spent |-> 0]
             /\ UNCHANGED reason
    <3>1. waiting'.since + waiting'.delay <= Dated(task).started + Window
      BY <1>1, <2>1, <2>2, <2>4, RetryAssumption DEF Node, Never
    <3>2. RetryInv'
      BY <1>1, <2>1, <2>2, <2>4, <3>1 DEF RetryTypeOK, OnRecord, GrantedInWindow, Saved
    <3>3. Dating
      BY <1>1, <2>2, <2>4 DEF Dating, OnRecord, Saved
    <3>4. QED BY <2>4, <3>2, <3>3 DEF Step, PunctualWaitHonored
  <2>5. CASE Refused(Dated(task), "cancelled")
    <3>1. /\ task' \in Node /\ file' = task'
          /\ task'.retries = task.retries /\ task'.started = Dated(task).started
          /\ waiting' \in [delay : Nat, since : Nat, spent : Nat]
          /\ at' = "scheduler" /\ reason' = "cancelled"
      BY <2>2, <2>5, RefusedTask
    <3>2. RetryInv'
      BY <1>1, <3>1 DEF RetryTypeOK, OnRecord, GrantedInWindow
    <3>3. Dating
      BY <1>1, <2>2, <3>1 DEF Dating, OnRecord
    <3>4. QED BY <3>1, <3>2, <3>3 DEF Step, PunctualWaitHonored
  <2>6. QED BY <1>4, <2>3, <2>4, <2>5 DEF Asks
<1>5. QED BY <1>3, <1>4

(* A wait that is over grants the retry, or refuses it with a reason.      *)
LEMMA WaitOverStep == ASSUME RetryInv, WaitOver PROVE Step
<1> USE DEF RetryInv
<1> DEFINE why == LateBy(wall - task.started)
<1>1. /\ task \in Node /\ wall' = wall /\ wall \in Nat /\ OnRecord
      /\ task.started # Never /\ task.retries < MaxAttempts - 1
      /\ waiting \in [delay : Nat, since : Nat, spent : Nat]
      /\ waiting.since + waiting.delay <= task.started + Window
  BY DEF RetryTypeOK, WaitOver, GrantedInWindow
<1>2. task.started \in Nat
  BY <1>1 DEF Node
<1>3. CASE why = "ok"
  <2>1. task' = Again(task) /\ file' = task' /\ at' = "scheduler"
        /\ waiting' = NoWait /\ reason' = reason
    BY <1>3 DEF WaitOver, Saved
  <2>2. wall - task.started \in 0 .. Window
    BY <1>1, <1>2, <1>3, RetryAssumption DEF LateBy
  <2>3. /\ Again(task) \in Node
        /\ Again(task).retries = task.retries + 1
        /\ Again(task).started = task.started
    BY <1>1, AgainTask
  <2>4. RetryInv'
    BY <1>1, <2>1, <2>3 DEF RetryTypeOK, OnRecord, GrantedInWindow, NoWait
  <2>5. Granted
    BY <1>1, <2>1, <2>2, <2>3 DEF Granted, OnRecord
  <2>6. QED BY <2>1, <2>4, <2>5 DEF Step, PunctualWaitHonored
<1>4. CASE why # "ok"
  <2>1. Refused(task, why)
    BY <1>4 DEF WaitOver
  <2>2. why = "exhausted_after_wait" => wall > waiting.since + waiting.delay
    BY <1>1, <1>2, RetryAssumption DEF LateBy
  <2> HIDE DEF why
  <2>3. /\ task' \in Node /\ file' = task'
        /\ task'.retries = task.retries /\ task'.started = task.started
        /\ waiting' \in [delay : Nat, since : Nat, spent : Nat]
        /\ at' = "scheduler" /\ reason' = why
    BY <1>1, <2>1, RefusedTask
  <2>4. QED
    BY <1>1, <2>2, <2>3
       DEF Step, RetryTypeOK, OnRecord, GrantedInWindow, Kept, PunctualWaitHonored
<1>5. QED BY <1>3, <1>4

(* Every step preserves the invariant and changes the checkpoint in one of *)
(* the three ways.                                                         *)
LEMMA RetryStep == RetryInv /\ [RetryNext]_retryVars => Step
<1> SUFFICES ASSUME RetryInv, [RetryNext]_retryVars PROVE Step
  OBVIOUS
<1> USE DEF RetryInv
<1>1. CASE Start
  BY <1>1 DEF Start, Saved, Step, RetryTypeOK, Node, Status, OnRecord, GrantedInWindow,
              Kept, PunctualWaitHonored
<1>2. CASE Ends
  BY <1>2 DEF Ends, Saved, Step, RetryTypeOK, Node, Status, OnRecord, GrantedInWindow,
              Kept, PunctualWaitHonored
<1>3. ASSUME NEW authorized \in BOOLEAN, Asks(authorized) PROVE Step
  BY <1>3, AsksStep
<1>4. CASE WaitOver
  BY <1>4, WaitOverStep
<1>5. CASE WaitCancelled
  <2>1. /\ task' \in Node /\ file' = task'
        /\ task'.retries = task.retries /\ task'.started = task.started
        /\ waiting' \in [delay : Nat, since : Nat, spent : Nat]
        /\ at' = "scheduler" /\ reason' = "cancelled"
    BY <1>5, RefusedTask DEF WaitCancelled, RetryTypeOK
  <2>2. QED
    BY <1>5, <2>1 DEF WaitCancelled, Step, RetryTypeOK, OnRecord, GrantedInWindow,
                      Kept, PunctualWaitHonored
<1>6. CASE Second
  BY <1>6 DEF Second, Step, RetryTypeOK, OnRecord, GrantedInWindow, Kept,
              PunctualWaitHonored
<1>7. ASSUME NEW t \in 0 .. MaxWall, SetClock(t) PROVE Step
  BY <1>7, RetryAssumption
     DEF SetClock, Step, RetryTypeOK, OnRecord, GrantedInWindow, Kept, PunctualWaitHonored
<1>8. CASE Die
  BY <1>8 DEF Die, NoWait, Step, RetryTypeOK, Node, Status, OnRecord, GrantedInWindow,
              Kept, PunctualWaitHonored
<1>9. CASE UNCHANGED retryVars
  BY <1>9 DEF retryVars, Step, RetryTypeOK, OnRecord, GrantedInWindow, Kept,
              PunctualWaitHonored
<1>10. QED BY <1>1, <1>2, <1>3, <1>4, <1>5, <1>6, <1>7, <1>8, <1>9 DEF RetryNext

LEMMA RetryInitInv == RetryInit => RetryInv
  BY RetryAssumption
     DEF RetryInit, RetryInv, RetryTypeOK, Node, Status, OnRecord, GrantedInWindow, NoWait

(* The checkpoint never loses a retry or the date of the window, and a     *)
(* leaf that waits was granted a wait that ends inside its window.         *)
THEOREM RetryInvariance == RetrySpec => []RetryInv
<1>1. RetryInv /\ [RetryNext]_retryVars => RetryInv'
  BY RetryStep DEF Step
<1>2. QED BY RetryInitInv, <1>1, PTL DEF RetrySpec

(* Every retry on record was decided inside the window, the window is      *)
(* dated once, and a punctual wait is honored: whatever is done to the     *)
(* wall clock, and wherever the program dies.                              *)
THEOREM RetriesAreInTime == RetrySpec => RetriesInTime
<1>1. RetryInv /\ Step => DecidedInWindow /\ PunctualWaitHonored
  BY DEF RetryInv, RetryTypeOK, Node, Step, Kept, Granted, Dating, DecidedInWindow
<1>2. RetryInv /\ [RetryNext]_retryVars
        => [DecidedInWindow /\ PunctualWaitHonored]_retryVars
  BY <1>1, RetryStep
<1>3. QED BY <1>2, RetryInvariance, PTL DEF RetrySpec, RetriesInTime

-----------------------------------------------------------------------------
(***************************************************************************)
(* PluginLifecycle.  A plugin's code runs only as it was hashed, under the *)
(* policy's backend, and a registered descriptor stays: for every number   *)
(* of capabilities and plugins and however often other programs rewrite    *)
(* the directories.                                                        *)
(*                                                                         *)
(* The invariant carries the hash from its acquisition to the worker: what *)
(* the registry names was hashed for that capability (RegistryVetted), the *)
(* leaf that is about to run took its descriptor from there (LeafVetted),  *)
(* and a restart can fall back only to a part of the registry in memory    *)
(* (StoredIsGenerated).                                                    *)
(***************************************************************************)

LeafType ==
  [at : {"none", "acquire", "validate", "hash", "execute", "probe", "worker", "ended"},
   needs : SUBSET Capability, todo : SUBSET Capability,
   capability : Capability \cup {Missing}, plugin : PluginId \cup {Missing},
   descriptor : [plugin : PluginId, content : Content] \cup {Missing},
   backend : {"none", "process_only", "sandbox"},
   result : {"none", "completed", "failed", "blocked"}]

PluginTypeOK ==
  /\ files \in [PluginId -> Content \cup {Missing}]
  /\ generated \in [Capability -> [plugin : PluginId, content : Content] \cup {Missing}]
  /\ stored \in [Capability -> [plugin : PluginId, content : Content] \cup {Missing}]
  /\ leaf \in LeafType
  /\ leaf.at \in {"validate", "hash"} => leaf.capability \in Capability /\ leaf.plugin \in PluginId

StoredIsGenerated ==
  \A c \in Capability : stored[c] # Missing => generated[c] = stored[c]

RegistryVetted ==
  \A c \in Capability :
    generated[c] # Missing => <<c, generated[c].content.code>> \in vetted

LeafVetted ==
  leaf.at \in {"probe", "worker"} =>
    /\ leaf.capability \in Invocations
    /\ leaf.needs = {leaf.capability}
    /\ <<leaf.capability, leaf.descriptor.content.code>> \in vetted
    /\ leaf.at = "worker" /\ leaf.capability \in Strict => leaf.backend = "sandbox"

CompletedIsOver == leaf.result = "completed" => leaf.at = "ended"

PluginInv ==
  /\ PluginTypeOK
  /\ StoredIsGenerated
  /\ RegistryVetted
  /\ LeafVetted
  /\ CompletedIsOver
  /\ RunsAreAdmitted

-----------------------------------------------------------------------------

(* What a leaf that moves on or ends looks like.                           *)
LEMMA LeafGoto ==
  ASSUME leaf \in LeafType, NEW a \in {"hash", "execute"}, Goto(a)
  PROVE  /\ leaf' \in LeafType /\ leaf'.at = a /\ leaf'.result = leaf.result
         /\ leaf'.capability = leaf.capability /\ leaf'.plugin = leaf.plugin
         /\ leaf'.needs = leaf.needs
  BY DEF Goto, LeafType

LEMMA LeafEnd ==
  ASSUME leaf \in LeafType, NEW r \in {"completed", "failed", "blocked"}, End(r)
  PROVE  /\ leaf' \in LeafType /\ leaf'.at = "ended" /\ leaf'.result = r
         /\ leaf'.needs = leaf.needs
  BY DEF End, LeafType

LEMMA LeafAcquired ==
  ASSUME leaf \in LeafType, NEW c, Acquired(c)
  PROVE  leaf' \in LeafType /\ leaf'.at = "acquire" /\ leaf'.result = leaf.result
  BY DEF Acquired, LeafType

(* A step that leaves the registry and the last run alone, and after which *)
(* the leaf is neither about to run nor newly completed.                   *)
LEMMA Quiet ==
  ASSUME PluginInv,
         files' \in [PluginId -> Content \cup {Missing}],
         UNCHANGED <<generated, stored, vetted, lastRun>>,
         leaf' \in LeafType,
         leaf'.at \in {"validate", "hash"} =>
            leaf'.capability \in Capability /\ leaf'.plugin \in PluginId,
         leaf'.at \notin {"probe", "worker"},
         leaf'.result # "completed"
  PROVE  PluginInv' /\ DescriptorsStandStep
  BY DEF PluginInv, PluginTypeOK, StoredIsGenerated, RegistryVetted, LeafVetted,
         CompletedIsOver, RunsAreAdmitted, DescriptorsStandStep

-----------------------------------------------------------------------------

(* Registration replaces no descriptor, in memory or on file, and what it  *)
(* adds it has hashed.                                                     *)
LEMMA RegisterStep ==
  ASSUME PluginInv, Register PROVE PluginInv' /\ DescriptorsStandStep
<1> DEFINE c == leaf.capability
           tree == files[leaf.plugin]
           d == [plugin |-> leaf.plugin, content |-> tree]
<1>1. /\ leaf \in LeafType /\ leaf.at = "hash" /\ leaf.result # "completed"
      /\ c \in Capability /\ leaf.plugin \in PluginId /\ tree \in Content \cup {Missing}
  BY DEF PluginInv, PluginTypeOK, Register, CompletedIsOver
<1>2. UNCHANGED <<files, lastRun>> /\ Acquired(c)
  BY DEF Register
<1>3. leaf' \in LeafType /\ leaf'.at = "acquire" /\ leaf'.result # "completed"
  BY <1>1, <1>2, LeafAcquired
<1>4. CASE tree = Missing
  <2>1. UNCHANGED <<generated, stored, vetted>>
    BY <1>4 DEF Register
  <2>2. QED BY <1>2, <1>3, <2>1, Quiet DEF PluginInv, PluginTypeOK
<1>5. CASE tree # Missing
  <2>1. vetted' = vetted \cup {<<c, tree.code>>} /\ Registered(c, d)
    BY <1>5 DEF Register
  <2>2. d \in [plugin : PluginId, content : Content] /\ d.content.code = tree.code
    BY <1>1, <1>5
  <2> HIDE DEF d
  <2>3. CASE generated[c] \notin {Missing, d}
    <3>1. UNCHANGED <<generated, stored>>
      BY <2>1, <2>3 DEF Registered
    <3>2. QED BY <1>2, <1>3, <2>1, <3>1
         DEF PluginInv, PluginTypeOK, StoredIsGenerated, RegistryVetted, LeafVetted,
             CompletedIsOver, RunsAreAdmitted, DescriptorsStandStep
  <2>4. CASE generated[c] \in {Missing, d}
    <3>1. /\ generated' = [generated EXCEPT ![c] = d]
          /\ stored' \in {stored, generated'}
      BY <2>1, <2>4 DEF Registered
    <3>2. /\ generated' \in [Capability -> [plugin : PluginId, content : Content]
                                             \cup {Missing}]
          /\ stored' \in [Capability -> [plugin : PluginId, content : Content]
                                             \cup {Missing}]
      BY <1>1, <2>2, <3>1 DEF PluginInv, PluginTypeOK
    <3>3. \A k \in Capability : stored[k] # Missing => generated'[k] = stored[k]
      BY <1>1, <2>4, <3>1, <3>2 DEF PluginInv, PluginTypeOK, StoredIsGenerated
    <3>4. StoredIsGenerated' /\ DescriptorsStandStep
      BY <3>1, <3>3 DEF StoredIsGenerated, DescriptorsStandStep
    <3>5. RegistryVetted'
      BY <1>1, <2>1, <2>2, <3>1 DEF PluginInv, PluginTypeOK, RegistryVetted
    <3>6. QED BY <1>2, <1>3, <2>1, <3>2, <3>4, <3>5
         DEF PluginInv, PluginTypeOK, LeafVetted, CompletedIsOver, RunsAreAdmitted
  <2>5. QED BY <2>3, <2>4
<1>6. QED BY <1>4, <1>5

(* The descriptor a leaf is launched with is the registry's, so hashed.    *)
LEMMA LaunchStep ==
  ASSUME PluginInv, NEW c \in Capability, Launch(c)
  PROVE  PluginInv' /\ DescriptorsStandStep
<1>1. /\ leaf \in LeafType /\ leaf.result # "completed"
      /\ Executable /\ c \in leaf.needs /\ generated[c] # Missing
      /\ generated[c] \in [plugin : PluginId, content : Content]
  BY DEF PluginInv, PluginTypeOK, Launch, CompletedIsOver, Current
<1>2. leaf.needs = {c}
  <2>1. leaf.needs \subseteq Capability
    BY <1>1 DEF LeafType
  <2>2. IsFiniteSet(leaf.needs)
    BY <2>1, PluginAssumption, FS_Subset
  <2>3. \E x : leaf.needs = {x}
    BY <1>1, <2>2, FS_Singleton DEF Executable
  <2>4. QED BY <1>1, <2>3
<1>3. c \in Invocations
  BY <1>1 DEF Executable
<1>4. /\ leaf' \in LeafType /\ leaf'.at \in {"probe", "worker"}
      /\ leaf'.capability = c /\ leaf'.needs = leaf.needs
      /\ leaf'.descriptor = generated[c] /\ leaf'.result = leaf.result
      /\ leaf'.at = "worker" => c \notin Strict
  BY <1>1 DEF Launch, LeafType
<1>5. LeafVetted'
  BY <1>1, <1>2, <1>3, <1>4 DEF Launch, PluginInv, RegistryVetted, LeafVetted
<1>6. QED BY <1>1, <1>4, <1>5
     DEF Launch, PluginInv, PluginTypeOK, StoredIsGenerated, RegistryVetted,
         CompletedIsOver, RunsAreAdmitted, DescriptorsStandStep

(* A leaf that asks for a sandbox passes the probe with it, or is blocked. *)
LEMMA ProbeStep ==
  ASSUME PluginInv, NEW available \in BOOLEAN, Probe(available)
  PROVE  PluginInv' /\ DescriptorsStandStep
<1>1. leaf \in LeafType /\ leaf.result # "completed" /\ leaf.at = "probe"
  BY DEF PluginInv, PluginTypeOK, Probe, CompletedIsOver
<1>2. CASE available
  <2>1. leaf' = [leaf EXCEPT !.at = "worker", !.backend = "sandbox"]
    BY <1>2 DEF Probe
  <2>2. /\ leaf' \in LeafType /\ leaf'.at = "worker" /\ leaf'.backend = "sandbox"
        /\ leaf'.capability = leaf.capability /\ leaf'.needs = leaf.needs
        /\ leaf'.descriptor = leaf.descriptor /\ leaf'.result = leaf.result
    BY <1>1, <2>1 DEF LeafType
  <2>3. QED BY <1>1, <2>2
       DEF Probe, PluginInv, PluginTypeOK, StoredIsGenerated, RegistryVetted, LeafVetted,
           CompletedIsOver, RunsAreAdmitted, DescriptorsStandStep
<1>3. CASE ~ available
  <2>1. leaf' \in LeafType /\ leaf'.at = "ended" /\ leaf'.result = "blocked"
    BY <1>1, <1>3, LeafEnd DEF Probe
  <2>2. QED BY <2>1, Quiet DEF Probe, PluginInv, PluginTypeOK
<1>4. QED BY <1>2, <1>3

(* The worker loads only code that has the digest it was given.            *)
LEMMA RunStep ==
  ASSUME PluginInv, NEW process \in Process, RunPlugin(process)
  PROVE  PluginInv' /\ DescriptorsStandStep
<1>1. leaf \in LeafType /\ leaf.at = "worker"
  BY DEF PluginInv, PluginTypeOK, RunPlugin
<1>2. Interpreted(process) \in {"completed", "failed", "blocked"}
  BY DEF Interpreted
<1>3. leaf' \in LeafType /\ leaf'.at = "ended" /\ leaf'.needs = leaf.needs
  BY <1>1, <1>2, LeafEnd DEF RunPlugin
<1>4. /\ lastRun'.ran /\ lastRun'.capability = leaf.capability
      /\ lastRun'.code = leaf.descriptor.content.code
      /\ lastRun'.backend = leaf.backend
  BY DEF RunPlugin, Genuine
<1>5. RunsAreAdmitted'
  BY <1>1, <1>3, <1>4 DEF RunPlugin, PluginInv, LeafVetted, RunsAreAdmitted
<1>6. QED BY <1>3, <1>5
     DEF RunPlugin, PluginInv, PluginTypeOK, StoredIsGenerated, RegistryVetted, LeafVetted,
         CompletedIsOver, DescriptorsStandStep

(* A restart forgets at most what never reached the registry file.         *)
LEMMA RestartStep ==
  ASSUME PluginInv, Restart PROVE PluginInv' /\ DescriptorsStandStep
<1>1. NoLeaf \in LeafType /\ NoLeaf.at = "none" /\ NoLeaf.result = "none"
  BY DEF NoLeaf, LeafType
<1>2. RegistryVetted'
  BY DEF Restart, PluginInv, StoredIsGenerated, RegistryVetted
<1>3. PluginTypeOK' /\ StoredIsGenerated'
  BY <1>1 DEF Restart, NoRun, PluginInv, PluginTypeOK, StoredIsGenerated
<1>4. LeafVetted' /\ CompletedIsOver' /\ RunsAreAdmitted' /\ DescriptorsStandStep
  BY <1>1 DEF Restart, NoRun, PluginInv, StoredIsGenerated, LeafVetted,
              CompletedIsOver, RunsAreAdmitted, DescriptorsStandStep
<1>5. QED BY <1>2, <1>3, <1>4 DEF PluginInv

LEMMA AdmitStep ==
  ASSUME PluginInv, NEW needs \in SUBSET Capability, Admit(needs)
  PROVE  PluginInv' /\ DescriptorsStandStep
<1>1. \E a \in {"execute", "acquire"}, todo \in SUBSET Capability :
         leaf' = [NoLeaf EXCEPT !.at = a, !.needs = needs, !.todo = todo]
  BY DEF Admit
<1>2. /\ leaf' \in LeafType /\ leaf'.at \in {"execute", "acquire"}
      /\ leaf'.result = "none"
  BY <1>1 DEF NoLeaf, LeafType
<1>3. UNCHANGED <<files, generated, stored, vetted>> /\ ~ lastRun'.ran
  BY DEF Admit, NoRun
<1>4. PluginTypeOK'
  BY <1>2, <1>3 DEF PluginInv, PluginTypeOK
<1>5. StoredIsGenerated' /\ RegistryVetted'
  BY <1>3 DEF PluginInv, StoredIsGenerated, RegistryVetted
<1>6. LeafVetted' /\ CompletedIsOver' /\ RunsAreAdmitted'
  BY <1>2, <1>3 DEF LeafVetted, CompletedIsOver, RunsAreAdmitted
<1>7. DescriptorsStandStep
  BY <1>3 DEF DescriptorsStandStep
<1>8. QED BY <1>4, <1>5, <1>6, <1>7 DEF PluginInv

-----------------------------------------------------------------------------

(* Every step preserves the invariant and the registry file's entries.     *)
LEMMA PluginStep ==
  PluginInv /\ [PluginNext]_pluginVars => PluginInv' /\ DescriptorsStandStep
<1> SUFFICES ASSUME PluginInv, [PluginNext]_pluginVars
             PROVE  PluginInv' /\ DescriptorsStandStep
  OBVIOUS
<1>a. /\ leaf \in LeafType
      /\ leaf.at # "ended" => leaf.result # "completed"
      /\ files \in [PluginId -> Content \cup {Missing}]
  BY DEF PluginInv, PluginTypeOK, CompletedIsOver
<1>1. ASSUME NEW needs \in SUBSET Capability, Admit(needs)
      PROVE  PluginInv' /\ DescriptorsStandStep
  BY <1>1, AdmitStep
<1>2. ASSUME NEW c \in Capability, NothingToGenerate(c)
      PROVE  PluginInv' /\ DescriptorsStandStep
  BY <1>2, <1>a, LeafAcquired, Quiet DEF NothingToGenerate
<1>3. ASSUME NEW c \in Capability, Launch(c)
      PROVE  PluginInv' /\ DescriptorsStandStep
  BY <1>3, LaunchStep
<1>4. ASSUME NEW c \in Capability, NEW p \in PluginId, NEW content \in Content,
             Generate(c, p, content)
      PROVE  PluginInv' /\ DescriptorsStandStep
  <2>1. /\ leaf' \in LeafType /\ leaf'.at = "validate" /\ leaf'.result = leaf.result
        /\ leaf'.capability = c /\ leaf'.plugin = p
    BY <1>4, <1>a DEF Generate, LeafType
  <2>2. files' \in [PluginId -> Content \cup {Missing}]
    BY <1>4, <1>a DEF Generate
  <2>3. leaf.at = "acquire" /\ UNCHANGED <<generated, stored, vetted, lastRun>>
    BY <1>4 DEF Generate, Generates
  <2>4. QED BY <1>a, <2>1, <2>2, <2>3, Quiet
<1>5. ASSUME NEW c \in Capability, NEW p \in PluginId, NEW content \in Content,
             GeneratorFails(c, p, content)
      PROVE  PluginInv' /\ DescriptorsStandStep
  <2>1. files' \in [PluginId -> Content \cup {Missing}]
    BY <1>5, <1>a DEF GeneratorFails
  <2>2. /\ leaf.at = "acquire" /\ UNCHANGED <<generated, stored, vetted, lastRun>>
        /\ Acquired(c)
    BY <1>5 DEF GeneratorFails, Generates
  <2>3. QED BY <1>a, <2>1, <2>2, LeafAcquired, Quiet
<1>6. CASE CheckManifest
  <2>1. \/ Goto("hash")
        \/ Acquired(leaf.capability)
    BY <1>6 DEF CheckManifest
  <2>2. /\ leaf.at = "validate" /\ UNCHANGED <<files, generated, stored, vetted, lastRun>>
        /\ leaf.capability \in Capability /\ leaf.plugin \in PluginId
    BY <1>6 DEF CheckManifest, PluginInv, PluginTypeOK
  <2>3. CASE Goto("hash")
    BY <1>a, <2>2, <2>3, LeafGoto, Quiet
  <2>4. CASE Acquired(leaf.capability)
    BY <1>a, <2>2, <2>4, LeafAcquired, Quiet
  <2>5. QED BY <2>1, <2>3, <2>4
<1>7. CASE Register
  BY <1>7, RegisterStep
<1>8. CASE ResolveAgain
  <2>1. leaf.at = "acquire" /\ (Goto("execute") \/ End("blocked"))
        /\ UNCHANGED <<files, generated, stored, vetted, lastRun>>
    BY <1>8 DEF ResolveAgain
  <2>2. /\ leaf' \in LeafType /\ leaf'.at \in {"execute", "ended"}
        /\ leaf'.result # "completed"
    BY <1>a, <2>1, LeafGoto, LeafEnd
  <2>3. QED BY <1>a, <2>1, <2>2, Quiet
<1>9. CASE ReadRaises \/ ToolRaises
  <2>1. (End("blocked") \/ End("failed"))
        /\ UNCHANGED <<files, generated, stored, vetted, lastRun>>
    BY <1>9 DEF ReadRaises, ToolRaises
  <2>2. QED BY <1>a, <2>1, LeafEnd, Quiet
<1>10. CASE Refuse
  BY <1>10, <1>a, LeafEnd, Quiet DEF Refuse
<1>11. ASSUME NEW available \in BOOLEAN, Probe(available)
       PROVE  PluginInv' /\ DescriptorsStandStep
  BY <1>11, ProbeStep
<1>12. ASSUME NEW process \in Process, RunPlugin(process)
       PROVE  PluginInv' /\ DescriptorsStandStep
  BY <1>12, RunStep
<1>13. ASSUME NEW process \in Process, WorkerStops(process)
       PROVE  PluginInv' /\ DescriptorsStandStep
  <2>1. Interpreted(process) \in {"failed", "blocked"} /\ End(Interpreted(process))
    BY <1>13 DEF WorkerStops, Interpreted
  <2>2. leaf' \in LeafType /\ leaf'.at = "ended" /\ leaf'.result # "completed"
    BY <1>a, <2>1, LeafEnd
  <2>3. QED BY <1>13, <1>a, <2>2, Quiet DEF WorkerStops
<1>14. ASSUME NEW p \in PluginId, NEW content \in Content \cup {Missing}, Edit(p, content)
       PROVE  PluginInv' /\ DescriptorsStandStep
  BY <1>14, <1>a
     DEF Edit, PluginInv, PluginTypeOK, StoredIsGenerated, RegistryVetted, LeafVetted,
         CompletedIsOver, RunsAreAdmitted, DescriptorsStandStep
<1>15. CASE Restart
  BY <1>15, RestartStep
<1>16. CASE UNCHANGED pluginVars
  BY <1>16
     DEF pluginVars, PluginInv, PluginTypeOK, StoredIsGenerated, RegistryVetted,
         LeafVetted, CompletedIsOver, RunsAreAdmitted, DescriptorsStandStep
<1>17. QED BY <1>1, <1>2, <1>3, <1>4, <1>5, <1>6, <1>7, <1>8, <1>9, <1>10, <1>11, <1>12,
              <1>13, <1>14, <1>15, <1>16 DEF PluginNext

LEMMA PluginInitInv == PluginInit => PluginInv
<1>1. NoLeaf \in LeafType /\ NoLeaf.at = "none" /\ NoLeaf.result = "none"
  BY DEF NoLeaf, LeafType
<1>2. QED BY <1>1
     DEF PluginInit, NoRun, PluginInv, PluginTypeOK, StoredIsGenerated, RegistryVetted,
         LeafVetted, CompletedIsOver, RunsAreAdmitted

LEMMA PluginInvariance == PluginSpec => []PluginInv
<1>1. PluginInv /\ [PluginNext]_pluginVars => PluginInv'
  BY PluginStep
<1>2. QED BY PluginInitInv, <1>1, PTL DEF PluginSpec

(* The code a worker loads is code an acquisition of that capability has   *)
(* hashed, admitted by the policy and in the sandbox it asks for.          *)
THEOREM PluginsRunAdmitted == PluginSpec => []RunsAreAdmitted
<1>1. PluginInv => RunsAreAdmitted
  BY DEF PluginInv
<1>2. QED BY <1>1, PluginInvariance, PTL

(* No acquisition, failed save, edit or restart changes an entry of the    *)
(* registry file.                                                          *)
THEOREM RegistryStands == PluginSpec => DescriptorsStand
<1>1. PluginInv /\ [PluginNext]_pluginVars => [DescriptorsStandStep]_pluginVars
  BY PluginStep
<1>2. QED BY <1>1, PluginInvariance, PTL DEF PluginSpec, DescriptorsStand

-----------------------------------------------------------------------------
(***************************************************************************)
(* ReleasePipeline.  A report is earned wherever it lies: with the gate    *)
(* that makes it stage by stage, in its file, with a recorder, in a        *)
(* temporary file or in the history.                                       *)
(***************************************************************************)

StageResult == [name : {Stages[i] : i \in DOMAIN Stages},
                status : {"passed", "failed", "degraded", "blocked"},
                end : {"clean", "excused", "bad"}]

\* a stage's status says how its process ended, and only the sandbox is excused
StagesEarned(stages) ==
  /\ stages \in Seq(StageResult)
  /\ Len(stages) <= Len(Stages)
  /\ \A i \in 1 .. Len(stages) :
       /\ stages[i].name = Stages[i]
       /\ stages[i].status = "passed" <=> stages[i].end = "clean"
       /\ stages[i].status = "degraded" <=> stages[i].end = "excused"
       /\ stages[i].end = "excused" => stages[i].name = "sandbox"

ReportType == [status : {"passed", "degraded", "failed"}, releasable : BOOLEAN,
               stages : Seq(StageResult), finished_at : Nat]

Earned(rep) ==
  rep # NoReport =>
    /\ rep \in ReportType
    /\ Len(rep.stages) = Len(Stages) /\ StagesEarned(rep.stages)
    /\ rep.status = "passed" <=> \A i \in DOMAIN Stages : rep.stages[i].end = "clean"
    /\ rep.status = "degraded" <=>
         /\ Last(rep.stages).end = "excused"
         /\ \A i \in DOMAIN CommandStages : rep.stages[i].end = "clean"
    /\ rep.releasable <=> rep.status # "failed"

ReleaseTypeOK ==
  /\ gate \in [running : BOOLEAN, degraded_ok : BOOLEAN, stages : Seq(StageResult)]
  /\ report \in ReportType \cup {NoReport}
  /\ recorder \in [Recorder -> [at : {"rest", "checked", "written"},
                                id : ReleaseId \cup {"none"},
                                report : ReportType \cup {NoReport}]]
  /\ temporary \in [ReleaseId -> ReportType \cup {NoReport}]
  /\ history \in [ReleaseId -> ReportType \cup {NoReport}]

CopiesEarned ==
  /\ Earned(report)
  /\ \A r \in Recorder : Earned(recorder[r].report)
  /\ \A id \in ReleaseId : Earned(temporary[id]) /\ Earned(history[id])

\* who records under an id nobody else has, does so for the first time
Works(r, id) == recorder[r].at # "rest" /\ recorder[r].id = id

FirstRecord ==
  \A id \in ReleaseId \ contended, r \in Recorder :
    Works(r, id) => /\ history[id] = NoReport
                    /\ \A other \in Recorder : Works(other, id) => other = r

HistoryFinite == IsFiniteSet({id \in ReleaseId : history[id] # NoReport})

ReleaseIInv ==
  /\ ReleaseTypeOK /\ StagesEarned(gate.stages) /\ CopiesEarned
  /\ FirstRecord /\ HistoryFinite /\ TrendTells

(* The stages of the gate: the sandbox after the commands, and only there. *)
LEMMA StagesList ==
  /\ Len(Stages) = Len(CommandStages) + 1 /\ Len(CommandStages) \in Nat
  /\ DOMAIN Stages = 1 .. Len(Stages) /\ DOMAIN CommandStages = 1 .. Len(CommandStages)
  /\ \A i \in 1 .. Len(Stages) : Stages[i] = "sandbox" <=> i = Len(Stages)
<1>1. CommandStages \in Seq(STRING \cup {"sandbox"})
      /\ \A i \in 1 .. Len(CommandStages) : CommandStages[i] # "sandbox"
  <2>1. CommandStages \in Seq(STRING)
    BY ReleaseAssumption
  <2>2. DOMAIN CommandStages = 1 .. Len(CommandStages)
    BY <2>1, LenProperties
  <2>3. CommandStages \in Seq(STRING \cup {"sandbox"})
    BY <2>1, SeqDef
  <2>4. QED BY <2>2, <2>3, ReleaseAssumption
<1>2. /\ Stages \in Seq(STRING \cup {"sandbox"}) /\ Len(Stages) = Len(CommandStages) + 1
      /\ \A i \in 1 .. Len(CommandStages) : Stages[i] = CommandStages[i]
      /\ Stages[Len(CommandStages) + 1] = "sandbox"
  BY <1>1, AppendProperties DEF Stages
<1>3. Len(CommandStages) \in Nat /\ DOMAIN Stages = 1 .. Len(Stages)
      /\ DOMAIN CommandStages = 1 .. Len(CommandStages)
  BY <1>1, <1>2, LenProperties
<1>4. ASSUME NEW i \in 1 .. Len(Stages) PROVE Stages[i] = "sandbox" <=> i = Len(Stages)
  <2>1. i \in 1 .. Len(CommandStages) \/ i = Len(CommandStages) + 1
    BY <1>2, <1>3
  <2>2. QED BY <1>1, <1>2, <1>3, <2>1
<1>5. QED BY <1>1, <1>2, <1>3, <1>4

(* A stage more, whatever its process did.                                 *)
LEMMA StageEnds ==
  ASSUME NEW process \in StageProcess, ReleaseIInv, RunStage(process)
  PROVE  gate' \in [running : BOOLEAN, degraded_ok : BOOLEAN, stages : Seq(StageResult)]
         /\ StagesEarned(gate'.stages)
<1> USE DEF ReleaseIInv
<1> DEFINE name == Stages[Len(gate.stages) + 1]
           status == IF name = "sandbox" THEN SandboxStatusOf(process, gate.degraded_ok)
                     ELSE CommandStatusOf(process)
           clean == ~ Unusable(process) /\ process.exit = 0
                        /\ (name = "sandbox" => process.payload = "all_checks")
           excused == name = "sandbox" /\ ~ Unusable(process) /\ gate.degraded_ok
                        /\ process.exit = 2 /\ process.payload = "unavailable"
           end == IF clean THEN "clean" ELSE IF excused THEN "excused" ELSE "bad"
           stage == [name |-> name, status |-> status, end |-> end]
<1>1. /\ gate' = [gate EXCEPT !.stages = Append(@, stage)]
      /\ Len(gate.stages) < Len(Stages)
  BY DEF RunStage
<1>2. /\ status = "passed" <=> clean
      /\ status = "degraded" <=> excused
      /\ status \in {"passed", "failed", "degraded", "blocked"}
      /\ ~ (clean /\ excused)
  BY DEF StageProcess, SandboxStatusOf, CommandStatusOf, Unusable
<1>3. gate.stages \in Seq(StageResult) /\ Len(gate.stages) \in Nat
  BY LenProperties DEF ReleaseTypeOK
<1>4. name \in {Stages[i] : i \in DOMAIN Stages}
  BY <1>1, <1>3, StagesList
<1>5. /\ stage \in StageResult /\ stage.name = name
      /\ stage.status = "passed" <=> stage.end = "clean"
      /\ stage.status = "degraded" <=> stage.end = "excused"
      /\ stage.end = "excused" => stage.name = "sandbox"
  <2>1. end \in {"clean", "excused", "bad"} /\ (end = "clean" <=> clean)
        /\ (end = "excused" <=> excused)
    BY <1>2
  <2>2. excused => name = "sandbox"
    OBVIOUS
  <2> HIDE DEF name, status, clean, excused, end
  <2>3. QED BY <1>2, <1>4, <2>1, <2>2 DEF StageResult
<1>6. name = Stages[Len(gate.stages) + 1]
  OBVIOUS
<1> HIDE DEF stage, name
<1>7. /\ Append(gate.stages, stage) \in Seq(StageResult)
      /\ Len(Append(gate.stages, stage)) = Len(gate.stages) + 1
      /\ \A i \in 1 .. Len(gate.stages) : Append(gate.stages, stage)[i] = gate.stages[i]
      /\ Append(gate.stages, stage)[Len(gate.stages) + 1] = stage
  BY <1>3, <1>5, AppendProperties
<1>8. gate' \in [running : BOOLEAN, degraded_ok : BOOLEAN, stages : Seq(StageResult)]
      /\ gate'.stages = Append(gate.stages, stage)
  BY <1>1, <1>7 DEF ReleaseTypeOK
<1> DEFINE more == Append(gate.stages, stage)
<1> HIDE DEF more
<1>9. ASSUME NEW i \in 1 .. Len(more)
      PROVE  /\ more[i].name = Stages[i]
             /\ more[i].status = "passed" <=> more[i].end = "clean"
             /\ more[i].status = "degraded" <=> more[i].end = "excused"
             /\ more[i].end = "excused" => more[i].name = "sandbox"
  <2>1. i \in 1 .. Len(gate.stages) \/ i = Len(gate.stages) + 1
    BY <1>3, <1>7 DEF more
  <2>2. CASE i \in 1 .. Len(gate.stages)
    <3>1. more[i] = gate.stages[i]
      BY <1>7, <2>2 DEF more
    <3>2. QED BY <2>2, <3>1 DEF StagesEarned
  <2>3. CASE i = Len(gate.stages) + 1
    <3>1. more[i] = stage
      BY <1>7, <2>3 DEF more
    <3>2. QED BY <1>5, <1>6, <2>3, <3>1
  <2>4. QED BY <2>1, <2>2, <2>3
<1>10. Len(more) <= Len(Stages) /\ more \in Seq(StageResult)
  BY <1>1, <1>3, <1>7, StagesList DEF more
<1>11. QED BY <1>8, <1>9, <1>10 DEF StagesEarned, more

(* The verdict of a gate through all its stages is earned.                 *)
LEMMA VerdictEarned ==
  ASSUME NEW stages, StagesEarned(stages), Len(stages) = Len(Stages), NEW time \in Nat,
         NEW rep,
         rep = [status |-> IF ~ \A i \in DOMAIN Stages : Releasable(stages[i].status)
                           THEN "failed"
                           ELSE IF \E i \in DOMAIN Stages : stages[i].status = "degraded"
                           THEN "degraded" ELSE "passed",
                releasable |-> \A i \in DOMAIN Stages : Releasable(stages[i].status),
                stages |-> stages, finished_at |-> time]
  PROVE  Earned(rep) /\ rep \in ReportType
<1> DEFINE releasable == \A i \in DOMAIN Stages : Releasable(stages[i].status)
           degraded == \E i \in DOMAIN Stages : stages[i].status = "degraded"
<1>1. /\ rep.status = IF ~ releasable THEN "failed" ELSE IF degraded THEN "degraded" ELSE "passed"
      /\ rep.releasable = releasable /\ rep.stages = stages /\ rep \in ReportType
  BY DEF ReportType, StagesEarned
<1>2. /\ Len(CommandStages) \in Nat /\ Len(Stages) = Len(CommandStages) + 1
      /\ DOMAIN Stages = 1 .. Len(Stages) /\ DOMAIN CommandStages = 1 .. Len(CommandStages)
      /\ \A i \in 1 .. Len(Stages) : Stages[i] = "sandbox" <=> i = Len(Stages)
  BY StagesList
<1>3. \A i \in DOMAIN Stages :
        /\ Releasable(stages[i].status) <=> stages[i].end \in {"clean", "excused"}
        /\ stages[i].status = "degraded" <=> stages[i].end = "excused"
        /\ stages[i].end = "excused" => i = Len(Stages)
        /\ i \in DOMAIN CommandStages \/ i = Len(Stages)
  BY <1>2 DEF StagesEarned, Releasable
<1>4. Len(Stages) \in DOMAIN Stages /\ DOMAIN CommandStages \subseteq DOMAIN Stages
      /\ Len(Stages) \notin DOMAIN CommandStages
  BY <1>2
<1>5. Last(stages) = stages[Len(Stages)]
  BY DEF Last
<1>6. releasable <=> \A i \in DOMAIN Stages : stages[i].end \in {"clean", "excused"}
  BY <1>3
<1>7. degraded <=> stages[Len(Stages)].end = "excused"
  BY <1>3, <1>4
<1>8. releasable /\ ~ degraded <=> \A i \in DOMAIN Stages : stages[i].end = "clean"
  BY <1>3, <1>6
<1>9. releasable /\ degraded <=>
        /\ stages[Len(Stages)].end = "excused"
        /\ \A i \in DOMAIN CommandStages : stages[i].end = "clean"
  BY <1>3, <1>4, <1>6, <1>7
<1>10. QED
  <2> HIDE DEF releasable, degraded
  <2>1. rep.status = "passed" <=> releasable /\ ~ degraded
    BY <1>1
  <2>2. rep.status = "degraded" <=> releasable /\ degraded
    BY <1>1
  <2>3. rep.releasable <=> rep.status # "failed"
    BY <1>1
  <2>4. QED BY <1>1, <1>5, <1>8, <1>9, <2>1, <2>2, <2>3 DEF Earned

(* A status that has a rank is good from one rank on.                      *)
LEMMA Ranks ==
  /\ DOMAIN Rank = {"failed", "degraded", "passed"}
  /\ \A s, u \in DOMAIN Rank :
       ~ (Rank[s] < Rank[u]) => /\ u = "passed" => s = "passed"
                                /\ u # "failed" => s # "failed"
                                /\ Releasable(u) => Releasable(s)
  /\ \A s, u \in DOMAIN Rank : Rank[s] > Rank[u] => u # "passed"
  BY DEF Rank, Releasable

(* Two earned reports of which the later is not called regressed.          *)
LEMMA TrendOfEarned ==
  ASSUME NEW current, NEW previous, current # NoReport, previous # NoReport,
         Earned(current), Earned(previous), NEW slow \in BOOLEAN,
         TrendOf(current, previous, slow) \in {"stable", "improved"}
  PROVE  /\ previous.releasable => current.releasable
         /\ \A i \in DOMAIN Stages :
              /\ previous.stages[i].end = "clean" => current.stages[i].end = "clean"
              /\ Releasable(previous.stages[i].status) => Releasable(current.stages[i].status)
         /\ TrendOf(current, previous, slow) = "improved" => previous.status # "passed"
<1>1. /\ Ranked(current, previous) \ DOMAIN Rank = {}
      /\ ~ Worse(current, previous)
      /\ TrendOf(current, previous, slow) = "improved" =>
           Rank[current.status] > Rank[previous.status]
  BY DEF TrendOf
<1>2. /\ current.status \in DOMAIN Rank /\ previous.status \in DOMAIN Rank
      /\ \A i \in DOMAIN Stages : /\ current.stages[i].status \in DOMAIN Rank
                                  /\ previous.stages[i].status \in DOMAIN Rank
  BY <1>1 DEF Ranked
<1>3. /\ ~ (Rank[current.status] < Rank[previous.status])
      /\ \A i \in DOMAIN Stages :
           ~ (Rank[current.stages[i].status] < Rank[previous.stages[i].status])
  BY <1>1 DEF Worse
<1>4. \A rep \in {current, previous}, i \in DOMAIN Stages :
        rep.stages[i].status = "passed" <=> rep.stages[i].end = "clean"
  BY StagesList DEF Earned, StagesEarned
<1>5. /\ current.releasable <=> current.status # "failed"
      /\ previous.releasable <=> previous.status # "failed"
  BY DEF Earned
<1>6. QED BY <1>1, <1>2, <1>3, <1>4, <1>5, Ranks

(* What is listed first was finished last.                                 *)
LEMMA ListedInOrder ==
  ASSUME NEW ids, IsFiniteSet(ids), ids # {}, NEW order \in Newest(ids), NEW k,
         k = IF Len(order) < ListLimit THEN Len(order) ELSE ListLimit
  PROVE  /\ Len(SubSeq(order, 1, k)) = k /\ k \in Nat \ {0}
         /\ \A i \in 1 .. k : SubSeq(order, 1, k)[i] \in ids
         /\ \A i, j \in 1 .. k : i < j =>
              history[SubSeq(order, 1, k)[i]].finished_at
                >= history[SubSeq(order, 1, k)[j]].finished_at
<1>1. Cardinality(ids) \in Nat /\ Cardinality(ids) # 0
  BY FS_CardinalityType, FS_EmptySet
<1>2. /\ order \in [1 .. Cardinality(ids) -> ids]
      /\ \A i, j \in DOMAIN order :
           i < j => history[order[i]].finished_at >= history[order[j]].finished_at
  BY DEF Newest, SetToSeqs
<1>3. order \in Seq(ids)
  BY <1>1, <1>2, SeqDef
<1>4. Len(order) = Cardinality(ids) /\ DOMAIN order = 1 .. Len(order)
  BY <1>1, <1>2, <1>3, LenProperties
<1>5. k \in 1 .. Len(order) /\ k \in Nat \ {0} /\ 1 \in Int /\ k \in Int
  BY <1>1, <1>4, ReleaseAssumption
<1>6. \A i \in 1 .. k : i \in DOMAIN order /\ order[i] \in ids
  BY <1>1, <1>2, <1>4, <1>5
<1>7. /\ Len(SubSeq(order, 1, k)) = IF 1 <= k THEN k - 1 + 1 ELSE 0
      /\ \A i \in 1 .. k - 1 + 1 : SubSeq(order, 1, k)[i] = order[1 + i - 1]
  BY ONLY <1>5, <1>6, SubSeqProperties
<1>8. Len(SubSeq(order, 1, k)) = k /\ \A i \in 1 .. k : SubSeq(order, 1, k)[i] = order[i]
  BY <1>5, <1>7
<1>9. QED BY <1>2, <1>5, <1>6, <1>8

LEMMA AnalyzeTells ==
  ASSUME ReleaseIInv, NEW slow \in BOOLEAN, Analyze(slow) PROVE TrendTells'
<1> USE DEF ReleaseIInv
<1> DEFINE ids == {id \in ReleaseId : ~ Unrecorded(id)}
<1>1. ids # {} /\ IsFiniteSet(ids) /\ \A id \in ids : history[id] # NoReport /\ Earned(history[id])
  BY DEF Analyze, HistoryFinite, Unrecorded, CopiesEarned
<1>2. PICK order \in Newest(ids) :
        LET listed == SubSeq(order, 1, IF Len(order) < ListLimit THEN Len(order) ELSE ListLimit)
            current == history[listed[1]]
        IN  trend' = IF Len(listed) = 1
                     THEN [NoTrend EXCEPT !.status = "insufficient_history"]
                     ELSE LET previous == history[listed[2]] IN
                          [status |-> TrendOf(current, previous, slow),
                           current |-> current, previous |-> previous]
  BY DEF Analyze
<1> DEFINE k == IF Len(order) < ListLimit THEN Len(order) ELSE ListLimit
           listed == SubSeq(order, 1, k)
           current == history[listed[1]]
           previous == history[listed[2]]
<1>3. /\ Len(listed) = 1 => trend' = [NoTrend EXCEPT !.status = "insufficient_history"]
      /\ Len(listed) # 1 => trend' = [status |-> TrendOf(current, previous, slow),
                                      current |-> current, previous |-> previous]
  BY <1>2
<1>4. /\ Len(listed) = k /\ k \in Nat \ {0}
      /\ \A i \in 1 .. k : listed[i] \in ids
      /\ \A i, j \in 1 .. k : i < j =>
           history[listed[i]].finished_at >= history[listed[j]].finished_at
  BY <1>1, ListedInOrder
<1> HIDE DEF k, listed
<1>5. CASE Len(listed) = 1
  BY <1>3, <1>5 DEF TrendTells, NoTrend
<1>6. CASE Len(listed) # 1
  <2>1. 1 \in 1 .. k /\ 2 \in 1 .. k
    BY <1>4, <1>6
  <2>2. /\ current # NoReport /\ Earned(current) /\ previous # NoReport /\ Earned(previous)
        /\ current.finished_at >= previous.finished_at
    BY <1>1, <1>4, <2>1
  <2> HIDE DEF ids, current, previous
  <2>3. /\ trend'.current = current /\ trend'.previous = previous
        /\ trend'.status = TrendOf(current, previous, slow)
    BY <1>3, <1>6
  <2>4. QED BY <2>2, <2>3, TrendOfEarned DEF TrendTells
<1>7. QED BY <1>5, <1>6

(* The gate leaves recorders and history alone.                            *)
LEMMA GateMoves ==
  ASSUME ReleaseIInv, UNCHANGED <<recorder, temporary, history, contended>>, trend' = NoTrend,
         gate' \in [running : BOOLEAN, degraded_ok : BOOLEAN, stages : Seq(StageResult)],
         StagesEarned(gate'.stages), report' \in ReportType \cup {NoReport}, Earned(report')
  PROVE  ReleaseIInv'
<1> USE DEF ReleaseIInv
<1>1. ReleaseTypeOK' /\ StagesEarned(gate.stages)'
  BY DEF ReleaseTypeOK, StagesEarned
<1>2. CopiesEarned'
  BY DEF CopiesEarned
<1>3. FirstRecord' /\ HistoryFinite' /\ TrendTells'
  BY DEF FirstRecord, Works, HistoryFinite, TrendTells, NoTrend
<1>4. QED BY <1>1, <1>2, <1>3

LEMMA NoStages == <<>> \in Seq(StageResult) /\ StagesEarned(<<>>)
<1>1. <<>> \in Seq(StageResult) /\ Len(<<>>) = 0
  OBVIOUS
<1>2. Len(<<>>) <= Len(Stages)
  BY <1>1, StagesList
<1>3. QED BY <1>1, <1>2 DEF StagesEarned

LEMMA GateSteps ==
  ASSUME ReleaseIInv, trend' = NoTrend,
         \/ \E degraded_ok \in BOOLEAN : StartGate(degraded_ok)
         \/ \E process \in StageProcess : RunStage(process)
         \/ \E time \in 1 .. MaxTime : Report(time)
         \/ GateDies
  PROVE  ReleaseIInv'
<1> USE DEF ReleaseIInv
<1>1. report \in ReportType \cup {NoReport} /\ Earned(report)
  BY DEF ReleaseTypeOK, CopiesEarned
<1>2. ASSUME NEW degraded_ok \in BOOLEAN, StartGate(degraded_ok) PROVE ReleaseIInv'
  <2>1. gate' = [running |-> TRUE, degraded_ok |-> degraded_ok, stages |-> <<>>]
    BY <1>2 DEF StartGate
  <2>2. gate' \in [running : BOOLEAN, degraded_ok : BOOLEAN, stages : Seq(StageResult)]
        /\ gate'.stages = <<>>
    BY <2>1, NoStages
  <2>3. QED BY <1>1, <1>2, <2>2, NoStages, GateMoves DEF StartGate
<1>3. ASSUME NEW process \in StageProcess, RunStage(process) PROVE ReleaseIInv'
  BY <1>1, <1>3, StageEnds, GateMoves DEF RunStage
<1>4. NoGate \in [running : BOOLEAN, degraded_ok : BOOLEAN, stages : Seq(StageResult)]
      /\ NoGate.stages = <<>>
  BY NoStages DEF NoGate
<1>5. CASE GateDies
  BY <1>1, <1>4, <1>5, NoStages, GateMoves DEF GateDies
<1>6. ASSUME NEW time \in 1 .. MaxTime, Report(time) PROVE ReleaseIInv'
  <2>1. time \in Nat
    BY ReleaseAssumption
  <2>2. Len(gate.stages) = Len(Stages) /\ StagesEarned(gate.stages)
    BY <1>6 DEF Report
  <2>3. report' = [status |-> IF ~ \A i \in DOMAIN Stages : Releasable(gate.stages[i].status)
                              THEN "failed"
                              ELSE IF \E i \in DOMAIN Stages : gate.stages[i].status = "degraded"
                              THEN "degraded" ELSE "passed",
                   releasable |-> \A i \in DOMAIN Stages : Releasable(gate.stages[i].status),
                   stages |-> gate.stages, finished_at |-> time]
    BY <1>6 DEF Report
  <2>4. Earned(report') /\ report' \in ReportType
    BY ONLY <2>1, <2>2, <2>3, VerdictEarned
  <2>5. QED BY <1>4, <1>6, <2>4, NoStages, GateMoves DEF Report
<1>7. QED BY <1>2, <1>3, <1>5, <1>6

(* A recorder's step that leaves the history alone.                        *)
LEMMA RecorderMoves ==
  ASSUME ReleaseIInv, NEW r \in Recorder, UNCHANGED <<gate, report, history>>,
         trend' = NoTrend, contended \subseteq contended',
         recorder' = [recorder EXCEPT ![r] = recorder'[r]],
         recorder'[r] \in [at : {"rest", "checked", "written"}, id : ReleaseId \cup {"none"},
                           report : ReportType \cup {NoReport}],
         Earned(recorder'[r].report),
         temporary' \in [ReleaseId -> ReportType \cup {NoReport}],
         \A id \in ReleaseId : Earned(temporary'[id]),
         FirstRecord'
  PROVE  ReleaseIInv'
<1> USE DEF ReleaseIInv
<1>1. \A q \in Recorder \ {r} : recorder'[q] = recorder[q]
  BY DEF ReleaseTypeOK
<1>2. ReleaseTypeOK'
  BY DEF ReleaseTypeOK
<1>3. CopiesEarned'
  <2>1. \A q \in Recorder : Earned(recorder'[q].report)
    BY <1>1 DEF CopiesEarned
  <2>2. QED BY <2>1 DEF CopiesEarned
<1>4. StagesEarned(gate.stages)' /\ HistoryFinite' /\ TrendTells'
  BY DEF HistoryFinite, TrendTells, NoTrend, StagesEarned
<1>5. QED BY <1>2, <1>3, <1>4

LEMMA AtRestIsTyped ==
  /\ AtRest \in [at : {"rest", "checked", "written"}, id : ReleaseId \cup {"none"},
                 report : ReportType \cup {NoReport}]
  /\ AtRest.at = "rest" /\ Earned(AtRest.report)
  BY DEF AtRest, Earned

LEMMA BeginKeeps ==
  ASSUME ReleaseIInv, NEW r \in Recorder, NEW id \in ReleaseId, BeginRecord(r, id),
         trend' = NoTrend
  PROVE  ReleaseIInv'
<1> USE DEF ReleaseIInv
<1> DEFINE begun == [at |-> "checked", id |-> id, report |-> report]
<1>1. /\ recorder' = [recorder EXCEPT ![r] = begun]
      /\ UNCHANGED <<gate, report, temporary, history>> /\ history[id] = NoReport
      /\ contended' = IF \E other \in Recorder : recorder[other].id = id
                      THEN contended \cup {id} ELSE contended
  BY DEF BeginRecord, Unrecorded
<1>2. /\ begun \in [at : {"rest", "checked", "written"}, id : ReleaseId \cup {"none"},
                    report : ReportType \cup {NoReport}]
      /\ begun.at = "checked" /\ begun.id = id /\ begun.report = report
  BY DEF ReleaseTypeOK
<1> HIDE DEF begun
<1>3. /\ recorder'[r] = begun
      /\ \A q \in Recorder \ {r} : recorder'[q] = recorder[q]
  BY <1>1 DEF ReleaseTypeOK
<1>4. FirstRecord'
  <2> SUFFICES ASSUME NEW k \in ReleaseId \ contended', NEW q \in Recorder, Works(q, k)'
               PROVE  /\ history[k] = NoReport
                      /\ \A other \in Recorder : Works(other, k)' => other = q
    BY <1>1 DEF FirstRecord
  <2>1. k \in ReleaseId \ contended
    BY <1>1
  <2>2. CASE k = id
    <3>1. \A other \in Recorder : recorder[other].id # id
      BY <1>1, <2>2
    <3>2. \A other \in Recorder : Works(other, k)' => other = r
      BY <1>3, <2>2, <3>1 DEF Works
    <3>3. QED BY <1>1, <2>2, <3>2
  <2>3. CASE k # id
    <3>1. \A other \in Recorder : Works(other, k)' => Works(other, k)
      BY <1>2, <1>3, <2>3 DEF Works
    <3>2. QED BY <2>1, <3>1 DEF FirstRecord
  <2>4. QED BY <2>2, <2>3
<1>5. temporary' \in [ReleaseId -> ReportType \cup {NoReport}]
      /\ \A k \in ReleaseId : Earned(temporary'[k])
  BY <1>1 DEF ReleaseTypeOK, CopiesEarned
<1>6. Earned(begun.report)
  BY <1>2 DEF CopiesEarned
<1>7. recorder' = [recorder EXCEPT ![r] = recorder'[r]] /\ contended \subseteq contended'
  BY <1>1, <1>3
<1>8. /\ recorder'[r] \in [at : {"rest", "checked", "written"}, id : ReleaseId \cup {"none"},
                           report : ReportType \cup {NoReport}]
      /\ Earned(recorder'[r].report)
  BY <1>2, <1>3, <1>6
<1>9. UNCHANGED <<gate, report, history>>
  BY <1>1
<1> HIDE DEF ReleaseIInv
<1>10. QED BY <1>4, <1>5, <1>7, <1>8, <1>9, RecorderMoves

(* A recorder that works on goes on for the same id, or rests.             *)
LEMMA StillFirst ==
  ASSUME ReleaseIInv, NEW r \in Recorder, UNCHANGED <<history, contended>>,
         \A q \in Recorder \ {r} : recorder'[q] = recorder[q],
         recorder'[r].at = "rest" \/ (recorder[r].at # "rest" /\ recorder'[r].id = recorder[r].id)
  PROVE  FirstRecord'
<1>1. \A q \in Recorder, k \in ReleaseId : Works(q, k)' => Works(q, k)
  BY DEF Works
<1>2. QED BY <1>1 DEF FirstRecord, ReleaseIInv

LEMMA WriteKeeps ==
  ASSUME ReleaseIInv, NEW r \in Recorder, WriteTemporary(r), trend' = NoTrend
  PROVE  ReleaseIInv'
<1> USE DEF ReleaseIInv
<1>1. /\ recorder[r].at = "checked"
      /\ temporary' = [temporary EXCEPT ![recorder[r].id] = recorder[r].report]
      /\ recorder' = [recorder EXCEPT ![r].at = "written"]
      /\ UNCHANGED <<gate, report, history, contended>>
  BY DEF WriteTemporary
<1>2. /\ recorder'[r] \in [at : {"rest", "checked", "written"}, id : ReleaseId \cup {"none"},
                           report : ReportType \cup {NoReport}]
      /\ recorder'[r].id = recorder[r].id /\ recorder'[r].report = recorder[r].report
      /\ \A q \in Recorder \ {r} : recorder'[q] = recorder[q]
      /\ recorder' = [recorder EXCEPT ![r] = recorder'[r]]
  BY <1>1 DEF ReleaseTypeOK
<1>3. recorder[r].report \in ReportType \cup {NoReport} /\ Earned(recorder[r].report)
  BY DEF ReleaseTypeOK, CopiesEarned
<1>4. /\ temporary' \in [ReleaseId -> ReportType \cup {NoReport}]
      /\ \A k \in ReleaseId : temporary'[k] \in {temporary[k], recorder[r].report}
  BY <1>1, <1>3 DEF ReleaseTypeOK
<1>5. \A k \in ReleaseId : Earned(temporary'[k])
  BY <1>3, <1>4 DEF CopiesEarned
<1>6. FirstRecord'
  BY <1>1, <1>2, StillFirst
<1>7. /\ UNCHANGED <<gate, report, history>> /\ contended \subseteq contended'
      /\ Earned(recorder'[r].report)
  BY <1>1, <1>2, <1>3
<1> HIDE DEF ReleaseIInv
<1>8. QED BY <1>2, <1>4, <1>5, <1>6, <1>7, RecorderMoves

LEMMA DiesKeeps ==
  ASSUME ReleaseIInv, NEW r \in Recorder, RecorderDies(r), trend' = NoTrend
  PROVE  ReleaseIInv'
<1> USE DEF ReleaseIInv
<1>1. /\ recorder' = [recorder EXCEPT ![r] = AtRest]
      /\ UNCHANGED <<gate, report, temporary, history, contended>>
  BY DEF RecorderDies
<1>2. /\ recorder'[r] = AtRest
      /\ \A q \in Recorder \ {r} : recorder'[q] = recorder[q]
  BY <1>1 DEF ReleaseTypeOK
<1>3. FirstRecord'
  BY <1>1, <1>2, AtRestIsTyped, StillFirst
<1>4. temporary' \in [ReleaseId -> ReportType \cup {NoReport}]
      /\ \A k \in ReleaseId : Earned(temporary'[k])
  BY <1>1 DEF ReleaseTypeOK, CopiesEarned
<1>5. /\ UNCHANGED <<gate, report, history>> /\ contended \subseteq contended'
      /\ recorder' = [recorder EXCEPT ![r] = recorder'[r]]
      /\ recorder'[r] \in [at : {"rest", "checked", "written"}, id : ReleaseId \cup {"none"},
                           report : ReportType \cup {NoReport}]
      /\ Earned(recorder'[r].report)
  BY <1>1, <1>2, AtRestIsTyped
<1> HIDE DEF ReleaseIInv
<1>6. QED BY <1>3, <1>4, <1>5, RecorderMoves

(* The first to replace puts what the temporary file has.                  *)
LEMMA ReplaceReport ==
  ASSUME ReleaseIInv, NEW r \in Recorder, Replace(r), trend' = NoTrend
  PROVE  ReleaseIInv' /\ \A id \in ReleaseId \ contended' :
                           history[id] # NoReport => history'[id] = history[id]
<1> USE DEF ReleaseIInv
<1> DEFINE id == recorder[r].id
<1>1. /\ recorder[r].at = "written"
      /\ \/ temporary[id] = NoReport /\ UNCHANGED <<history, temporary>>
         \/ /\ temporary[id] # NoReport
            /\ history' = [history EXCEPT ![id] = temporary[id]]
            /\ temporary' = [temporary EXCEPT ![id] = NoReport]
      /\ recorder' = [recorder EXCEPT ![r] = AtRest]
      /\ UNCHANGED <<gate, report, contended>>
  BY DEF Replace
<1>2. /\ recorder'[r] = AtRest
      /\ \A q \in Recorder \ {r} : recorder'[q] = recorder[q]
  BY <1>1 DEF ReleaseTypeOK
<1>3. CASE UNCHANGED <<history, temporary>>
  <2>1. FirstRecord'
    BY <1>1, <1>2, <1>3, AtRestIsTyped, StillFirst
  <2>2. temporary' \in [ReleaseId -> ReportType \cup {NoReport}]
        /\ \A k \in ReleaseId : Earned(temporary'[k])
    BY <1>3 DEF ReleaseTypeOK, CopiesEarned
  <2>3. /\ recorder' = [recorder EXCEPT ![r] = recorder'[r]]
        /\ recorder'[r] \in [at : {"rest", "checked", "written"}, id : ReleaseId \cup {"none"},
                             report : ReportType \cup {NoReport}]
        /\ Earned(recorder'[r].report)
    BY <1>1, <1>2, AtRestIsTyped
  <2>4. UNCHANGED <<gate, report, history>> /\ contended \subseteq contended'
    BY <1>1, <1>3
  <2> HIDE DEF ReleaseIInv
  <2>5. ReleaseIInv'
    BY <2>1, <2>2, <2>3, <2>4, RecorderMoves
  <2>6. QED BY <2>4, <2>5
<1>4. CASE /\ history' = [history EXCEPT ![id] = temporary[id]]
           /\ temporary' = [temporary EXCEPT ![id] = NoReport]
  <2>1. \A k \in ReleaseId :
          /\ k = id => history'[k] = temporary[k] /\ temporary'[k] = NoReport
          /\ k # id => history'[k] = history[k] /\ temporary'[k] = temporary[k]
    BY <1>4 DEF ReleaseTypeOK
  <2>2. ASSUME NEW k \in ReleaseId \ contended, k = id PROVE history[k] = NoReport
    BY <1>1, <2>2 DEF FirstRecord, Works
  <2>3. ReleaseTypeOK'
    <3>1. recorder' \in [Recorder -> [at : {"rest", "checked", "written"},
                                      id : ReleaseId \cup {"none"},
                                      report : ReportType \cup {NoReport}]]
      BY <1>1, AtRestIsTyped DEF ReleaseTypeOK
    <3>2. history' \in [ReleaseId -> ReportType \cup {NoReport}]
          /\ temporary' \in [ReleaseId -> ReportType \cup {NoReport}]
      BY <1>4, <2>1 DEF ReleaseTypeOK
    <3>3. QED BY <1>1, <3>1, <3>2 DEF ReleaseTypeOK
  <2>4. CopiesEarned'
    <3>1. Earned(NoReport)
      BY DEF Earned
    <3>2. \A k \in ReleaseId : Earned(temporary'[k]) /\ Earned(history'[k])
      BY <2>1, <3>1 DEF CopiesEarned
    <3>3. \A q \in Recorder : Earned(recorder'[q].report)
      BY <1>2, AtRestIsTyped DEF CopiesEarned
    <3>4. QED BY <1>1, <3>2, <3>3 DEF CopiesEarned
  <2>5. FirstRecord'
    <3> SUFFICES ASSUME NEW k \in ReleaseId \ contended, NEW q \in Recorder, Works(q, k)'
                 PROVE  /\ history'[k] = NoReport
                        /\ \A other \in Recorder : Works(other, k)' => other = q
      BY <1>1 DEF FirstRecord
    <3>1. \A other \in Recorder : Works(other, k)' => other # r /\ Works(other, k)
      BY <1>2, AtRestIsTyped DEF Works
    <3>2. k # id
      BY <1>1, <3>1 DEF FirstRecord, Works
    <3>3. QED BY <2>1, <3>1, <3>2 DEF FirstRecord
  <2>6. HistoryFinite'
    <3>1. {k \in ReleaseId : history'[k] # NoReport}
            \subseteq {k \in ReleaseId : history[k] # NoReport} \cup {id}
      BY <2>1
    <3>2. IsFiniteSet({k \in ReleaseId : history[k] # NoReport} \cup {id})
      BY FS_AddElement DEF HistoryFinite
    <3>3. IsFiniteSet({k \in ReleaseId : history'[k] # NoReport})
      BY <3>1, <3>2, FS_Subset
    <3>4. QED BY <3>3 DEF HistoryFinite
  <2>7. StagesEarned(gate.stages)' /\ TrendTells'
    BY <1>1 DEF StagesEarned, TrendTells, NoTrend
  <2>8. \A k \in ReleaseId \ contended' : history[k] # NoReport => history'[k] = history[k]
    BY <1>1, <2>1, <2>2
  <2>9. QED BY <2>3, <2>4, <2>5, <2>6, <2>7, <2>8
<1>5. QED BY <1>1, <1>3, <1>4

LEMMA ReleaseStep ==
  ASSUME ReleaseIInv, [ReleaseNext]_releaseVars
  PROVE  ReleaseIInv' /\ \A id \in ReleaseId \ contended' :
                           history[id] # NoReport => history'[id] = history[id]
<1>1. CASE UNCHANGED releaseVars
  <2> USE <1>1 DEF releaseVars, ReleaseIInv
  <2>1. ReleaseTypeOK' /\ StagesEarned(gate.stages)'
    BY DEF ReleaseTypeOK, StagesEarned
  <2>2. CopiesEarned'
    BY DEF CopiesEarned
  <2>3. FirstRecord' /\ HistoryFinite' /\ TrendTells'
    BY DEF FirstRecord, Works, HistoryFinite, TrendTells
  <2>4. QED BY <2>1, <2>2, <2>3
<1>2. ASSUME NEW slow \in BOOLEAN, Analyze(slow) PROVE ReleaseIInv' /\ history' = history
  <2> USE DEF ReleaseIInv
  <2>1. UNCHANGED <<gate, gates, report, recorder, temporary, history, contended>>
    BY <1>2 DEF Analyze
  <2>2. TrendTells'
    BY <1>2, AnalyzeTells
  <2>3. ReleaseTypeOK' /\ StagesEarned(gate.stages)'
    BY <2>1 DEF ReleaseTypeOK, StagesEarned
  <2>4. CopiesEarned'
    BY <2>1 DEF CopiesEarned
  <2>5. FirstRecord' /\ HistoryFinite'
    BY <2>1 DEF FirstRecord, Works, HistoryFinite
  <2>6. QED BY <2>1, <2>2, <2>3, <2>4, <2>5
<1>3. ASSUME NEW r \in Recorder, trend' = NoTrend,
             (\E id \in ReleaseId : BeginRecord(r, id)) \/ WriteTemporary(r) \/ RecorderDies(r)
      PROVE  ReleaseIInv' /\ history' = history
  BY <1>3, BeginKeeps, WriteKeeps, DiesKeeps DEF BeginRecord, WriteTemporary, RecorderDies
<1>4. ASSUME trend' = NoTrend,
             \/ \E degraded_ok \in BOOLEAN : StartGate(degraded_ok)
             \/ \E process \in StageProcess : RunStage(process)
             \/ \E time \in 1 .. MaxTime : Report(time)
             \/ GateDies
      PROVE  ReleaseIInv' /\ history' = history
  BY <1>4, GateSteps DEF StartGate, RunStage, Report, GateDies
<1>5. CASE ReleaseNext
  BY <1>2, <1>3, <1>4, <1>5, ReplaceReport DEF ReleaseNext
<1>6. QED BY <1>1, <1>5 DEF releaseVars

LEMMA ReleaseInitInv == ReleaseInit => ReleaseIInv
<1> SUFFICES ASSUME ReleaseInit PROVE ReleaseIInv
  OBVIOUS
<1> USE DEF ReleaseInit
<1>1. gate \in [running : BOOLEAN, degraded_ok : BOOLEAN, stages : Seq(StageResult)]
      /\ gate.stages = <<>>
  BY NoStages DEF NoGate
<1>2. ReleaseTypeOK
  BY <1>1, AtRestIsTyped DEF ReleaseTypeOK
<1>3. CopiesEarned
  BY AtRestIsTyped DEF CopiesEarned, Earned
<1>4. FirstRecord
  BY AtRestIsTyped DEF FirstRecord, Works
<1>5. HistoryFinite
  <2>1. {id \in ReleaseId : history[id] # NoReport} = {}
    OBVIOUS
  <2>2. QED BY <2>1, FS_EmptySet DEF HistoryFinite
<1>6. TrendTells
  BY DEF TrendTells, NoTrend
<1>7. QED BY <1>1, <1>2, <1>3, <1>4, <1>5, <1>6, NoStages DEF ReleaseIInv

LEMMA ReleaseInvariance == ReleaseSpec => []ReleaseIInv
<1>1. ReleaseIInv /\ [ReleaseNext]_releaseVars => ReleaseIInv'
  BY ReleaseStep
<1>2. QED BY <1>1, ReleaseInitInv, PTL DEF ReleaseSpec

(* A report, wherever it lies, is earned by the processes of all stages of *)
(* one run of the gate, and a release the trend does not call regressed is *)
(* in no stage worse than the one before it: for every list of stages and  *)
(* whoever of gates and recorders dies.                                    *)
THEOREM ReportsAreEarned == ReleaseSpec => []ReleasesEarned
<1>1. ReleaseIInv => ReleasesEarned
  <2> SUFFICES ASSUME ReleaseIInv, NEW rep \in Reports \ {NoReport} PROVE Earned(rep)
    BY DEF ReleaseIInv, ReleasesEarned, ReportsEarned, Earned
  <2>1. QED BY DEF ReleaseIInv, CopiesEarned, Reports
<1>2. QED BY <1>1, ReleaseInvariance, PTL

(* A recorded release stays as it was recorded, except where two programs  *)
(* recorded under its id at once.                                          *)
THEOREM RecordedReleasesStand == ReleaseSpec => SnapshotsStand
<1>1. ReleaseIInv /\ [ReleaseNext]_releaseVars =>
        [\A id \in ReleaseId \ contended' :
           history[id] # NoReport => history'[id] = history[id]]_releaseVars
  BY ReleaseStep
<1>2. QED BY <1>1, ReleaseInvariance, PTL DEF ReleaseSpec, SnapshotsStand

-----------------------------------------------------------------------------
(***************************************************************************)
(* IntegrationVerdicts.  The verdict on a parent is what its verifiers     *)
(* said of its children, for any policy, plan and answers.  The invariant  *)
(* behind it: a plan is asked only about children that are all completed,  *)
(* and every result on the list is of those children, since each verifier  *)
(* got a copy of its own.                                                  *)
(***************************************************************************)

Answered == {"completed", "blocked", "failed"}

VerdictInv ==
  /\ turn \in {"idle", "verify", "done"}
  /\ plan \in Seq(Verifiers)
  /\ results \in Seq([status : Answered, saw : {children}])
  /\ turn = "idle" => plan = NoPlan /\ results = <<>>
  /\ turn = "verify" => plan # NoPlan /\ AllCompleted(children)
  /\ VerdictConservative

LEMMA EntryOf ==
  ASSUME NEW S, NEW s \in Seq(S), NEW i \in DOMAIN s
  PROVE  s[i] \in S
BY LenProperties, ElementOfSeq

(* The plan a policy gives a node names registered verifiers.              *)
LEMMA ResolvedPlan ==
  ASSUME NEW policy \in Policies, NEW node
  PROVE  Resolve(policy, node) \in Seq(Verifiers)
<1> DEFINE own == {i \in DOMAIN policy.exact : policy.exact[i].id = node.id}
           fits == {i \in DOMAIN policy.routes : Matches(policy.routes[i].selector, node)}
<1>1. policy \in Policy
  BY VerdictAssumption
<1>2. ASSUME own # {} PROVE policy.exact[Min(own)].plan \in Seq(Verifiers)
  <2>1. policy.exact \in Seq([id : Seq(STRING), plan : Seq(Verifiers)])
    BY <1>1 DEF Policy
  <2>2. own \subseteq Nat
    BY <2>1
  <2>3. Min(own) \in own
    <3> HIDE DEF own
    <3> QED BY <1>2, <2>2, LeastIsMin
  <2>4. Min(own) \in DOMAIN policy.exact
    BY <2>3
  <2>5. policy.exact[Min(own)] \in [id : Seq(STRING), plan : Seq(Verifiers)]
    BY ONLY <2>1, <2>4, EntryOf
  <2> HIDE DEF own
  <2> QED BY ONLY <2>5
<1>3. ASSUME fits # {} PROVE policy.routes[Min(fits)].plan \in Seq(Verifiers)
  <2>1. policy.routes \in Seq([selector : Selectors, plan : Seq(Verifiers)])
    BY <1>1 DEF Policy
  <2>2. fits \subseteq Nat
    BY <2>1
  <2>3. Min(fits) \in fits
    <3> HIDE DEF fits
    <3> QED BY <1>3, <2>2, LeastIsMin
  <2>4. Min(fits) \in DOMAIN policy.routes
    BY <2>3
  <2>5. policy.routes[Min(fits)] \in [selector : Selectors, plan : Seq(Verifiers)]
    BY ONLY <2>1, <2>4, EntryOf
  <2> HIDE DEF fits
  <2> QED BY ONLY <2>5
<1>4. policy.default \in Seq(Verifiers)
  BY <1>1 DEF Policy
<1> QED
  <2> HIDE DEF own, fits
  <2>1. Resolve(policy, node) =
          IF own # {} THEN policy.exact[Min(own)].plan
          ELSE IF fits # {} THEN policy.routes[Min(fits)].plan
          ELSE policy.default
    BY DEF Resolve, own, fits
  <2> QED BY <1>2, <1>3, <1>4, <2>1

(* One more verifier has been asked, about the children themselves.        *)
LEMMA ReturnsKeeps ==
  ASSUME VerdictInv, NEW status \in Answered, NEW states, Returns(status, states)
  PROVE  VerdictInv'
<1>1. results' \in Seq([status : Answered, saw : {children}])
  <2>1. [status |-> status, saw |-> Given] \in [status : Answered, saw : {children}]
    BY DEF Given
  <2> QED BY <2>1, AppendProperties DEF Returns, VerdictInv
<1>2. turn' = "verify" /\ UNCHANGED <<children, plan>> /\ turn = "verify"
  BY DEF Returns
<1> QED BY <1>1, <1>2 DEF VerdictInv, VerdictConservative, AllCompleted

LEMMA ConcludeKeeps ==
  ASSUME VerdictInv, Conclude
  PROVE  VerdictInv'
<1> USE DEF Conclude
<1>1. /\ results \in Seq([status : Answered, saw : {children}])
      /\ plan # NoPlan /\ AllCompleted(children) /\ plan \in Seq(Verifiers)
  BY DEF VerdictInv
<1>2. Called' = Called /\ AllCompleted(children)'
  BY <1>1 DEF Called, AllCompleted
<1>3. ASSUME NEW i \in DOMAIN results
      PROVE  results[i].status \in Answered /\ results[i].saw = children
             /\ results[i] = [status |-> results[i].status, saw |-> children]
  <2>1. results[i] \in [status : Answered, saw : {children}]
    BY ONLY <1>1, i \in DOMAIN results, EntryOf
  <2> QED BY ONLY <2>1
<1>4. verdict' = Combined
  OBVIOUS
<1>5. verdict' = "failed" <=> "failed" \in Called
  BY <1>4 DEF Combined
<1>6. verdict' = "completed" <=> \A i \in DOMAIN results : results[i].status = "completed"
  <2>1. Called \subseteq Answered
    BY <1>3 DEF Called
  <2>2. verdict' = "completed" <=> Called \cap {"failed", "blocked"} = {}
    BY <1>4, <2>1 DEF Combined
  <2> QED BY <2>1, <2>2, <1>3 DEF Called, Answered
<1>7. VerdictConservative'
  <2>1. verdict' = "completed" <=>
          \A i \in DOMAIN results : results[i] = [status |-> "completed", saw |-> children]
    BY <1>3, <1>6
  <2> QED BY <1>1, <1>2, <1>3, <1>5, <2>1 DEF VerdictConservative
<1> QED BY <1>1, <1>7 DEF VerdictInv

LEMMA ChooseKeeps ==
  ASSUME VerdictInv, NEW node, NEW policy \in Policies, NEW states,
         Choose(node, policy, states)
  PROVE  VerdictInv'
<1>1. turn = "idle" /\ results = <<>> /\ results' = <<>> /\ AllCompleted(states) /\ children' = states
  BY DEF VerdictInv, Choose
<1>2. plan' \in Seq(Verifiers)
  BY ResolvedPlan DEF Choose
<1>3. <<>> \in Seq([status : Answered, saw : {states}])
  BY EmptySeq
<1>4. AllCompleted(children)'
  BY <1>1 DEF AllCompleted
<1>5. CASE turn' = "verify"
  <2>1. plan' # NoPlan
    BY <1>5 DEF Choose
  <2> QED BY <1>1, <1>2, <1>3, <1>4, <1>5, <2>1 DEF VerdictInv, VerdictConservative
<1>6. CASE turn' # "verify"
  <2>1. turn' = "done" /\ verdict' = "blocked"
    BY <1>6 DEF Choose
  <2>2. plan' # NoPlan => Len(results') # Len(plan')
    BY <1>1, <1>2, EmptySeq DEF NoPlan
  <2>3. VerdictConservative'
    BY <1>1, <2>1, <2>2, EmptySeq DEF VerdictConservative, Called
  <2> QED BY <1>1, <1>2, <1>3, <2>1, <2>3 DEF VerdictInv
<1> QED BY <1>5, <1>6

LEMMA UnreadyKeeps ==
  ASSUME VerdictInv, NEW node, NEW policy, NEW states, Unready(node, policy, states)
  PROVE  VerdictInv'
<1>1. /\ turn = "idle" /\ results = <<>> /\ results' = <<>> /\ plan' = NoPlan
      /\ plan' \in Seq(Verifiers)
      /\ turn' = "done" /\ verdict' \in {"blocked", "waiting"} /\ children' = states
  BY DEF VerdictInv, Unready
<1>2. <<>> \in Seq([status : Answered, saw : {states}])
  BY EmptySeq
<1>3. VerdictConservative'
  BY <1>1, EmptySeq DEF VerdictConservative, Called
<1> QED BY <1>1, <1>2, <1>3 DEF VerdictInv

LEMMA CommandAnswers ==
  ASSUME NEW states, NEW process
  PROVE  CommandStatus(states, process) \in Answered
BY DEF CommandStatus, Answered

(* The invariant is inductive.                                             *)
LEMMA VerdictInvariance ==
  VerdictSpec => []VerdictInv
<1>1. VerdictInit => VerdictInv
  BY EmptySeq DEF VerdictInit, VerdictInv, VerdictConservative, NoPlan
<1>2. VerdictInv /\ [VerdictNext]_verdictVars => VerdictInv'
  <2> SUFFICES ASSUME VerdictInv, [VerdictNext]_verdictVars PROVE VerdictInv'
    OBVIOUS
  <2>1. ASSUME NEW node \in Parents, NEW policy \in Policies, NEW states \in ChildStates,
               Unready(node, policy, states) \/ Choose(node, policy, states)
        PROVE  VerdictInv'
    BY <2>1, UnreadyKeeps, ChooseKeeps
  <2>2. ASSUME NEW process \in CommandRun, RunCommand(process) PROVE VerdictInv'
    <3>1. CommandStatus(Given, process) \in Answered
      BY CommandAnswers
    <3>2. Returns(CommandStatus(Given, process), Given)
      BY <2>2 DEF RunCommand
    <3> QED BY <3>1, <3>2, ReturnsKeeps
  <2>3. ASSUME NEW answer \in VerifierAnswers, NEW states \in ChildStates, Ask(answer, states)
        PROVE  VerdictInv'
    <3>1. Normalized(answer) \in Answered
      BY DEF Normalized, Answered
    <3> QED BY <2>3, <3>1, ReturnsKeeps DEF Ask
  <2>4. CASE Dismiss
    <3>1. turn' = "idle" /\ plan' = <<>> /\ results' = <<>> /\ children' = <<>>
      BY <2>4 DEF Dismiss, NoPlan
    <3>2. <<>> \in Seq(Verifiers) /\ <<>> \in Seq([status : Answered, saw : {<<>>}])
      BY EmptySeq
    <3> QED BY <3>1, <3>2 DEF VerdictInv, VerdictConservative, NoPlan
  <2>5. CASE UNCHANGED verdictVars
    BY <2>5 DEF verdictVars, VerdictInv, VerdictConservative, AllCompleted, Called
  <2> QED BY <2>1, <2>2, <2>3, <2>4, <2>5, ConcludeKeeps DEF VerdictNext
<1> QED BY <1>1, <1>2, PTL DEF VerdictSpec

(* A parent completes only when its children have and every verifier of its *)
(* plan was satisfied about those very children, and one failed check fails *)
(* it (integration_composition.py:178-250).                                 *)
THEOREM VerdictsAreEarned ==
  VerdictSpec => []VerdictConservative
<1>1. VerdictInv => VerdictConservative
  BY DEF VerdictInv
<1> QED BY <1>1, VerdictInvariance, PTL
=============================================================================
