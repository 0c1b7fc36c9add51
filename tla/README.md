# A TLA+ development of mini Codex Loop Engine

The program runs coding tasks as loops: an engine plans, executes, verifies and
judges; above it a scheduler splits a goal into a tree of tasks and runs the
leaves; around both stand files shared by processes (leases, process records,
checkpoints, plugin directories, release reports) and the processes they are
about. This directory models the parts whose correctness depends on the order of
steps of several actors, on crashes, on time, on budgets or on what a language
model answers, model-checks them with TLC and proves the results that matter most
with TLAPS. All paths of code are below `src/`; `L/` stands for
`src/loop_engine/`.

`PROJECT.json` holds the lists behind this text: components, runs, mutants, the
map from definitions to source lines, findings, hazards and theorems.

## 1. Inventory

| Component | Code | State | Operations | Model |
|---|---|---|---|---|
| Loop engine | `L/engine.py`, `policies.py`, `checkpoint.py`, `models.py` | `LoopState`: status, phase, counters, plan and index, last verification, observation signatures; its checkpoint file | `run`, `resume`, the phases of the `while` loop | `LoopEngine` |
| Profiles and loop adapters | `L/profiles/`, `L/adapters/filesystem.py`, `tools.py`, `scripted.py`, `llm_planner.py`, `evidence_verifier.py`; `L/tasks/coding_leaf.py`, `adapters.py` | the plan and its results in the `LoopState`, the files of the workspace | plan, `apply_patch`, `run_verification`, verify, judge; the choice of a profile for a leaf | `LoopProfiles` (adapters partly) |
| Task scheduler | `L/tasks/scheduler*.py`, `parallel.py`, `decomposition_graph.py`, `persistence.py`, `models.py` | `TaskGraph`: nodes with status, dependencies, children, attempts; budget used; the saved graph | `run`, `_propagate`, `_assess_node`, `_execute_ready_leaves`, `_apply_leaf_result`, `JsonTaskGraphStore.load` | `TaskScheduler` |
| Retry policy and waiter | `L/tasks/retry.py`, `scheduler_retry.py` | retries, `retry_started_at`, the wait | `decide`, `wait`, `_retry_deadline_rejection` | `TaskRetry` |
| Decomposition by a model, replay | `L/tasks/llm_decomposer.py`, `llm_decomposition_validation.py`, `decomposition_graph.py`, `replay.py` | nodes of a graph, the recorder's trace, the entries used | `assess`, its repair, `add_child_tasks`, record, replay | `TaskDecomposition` |
| Integration verification | `L/tasks/integration.py`, `integration_composition.py`, `integration_selectors.py` | the plan of verifiers, their results | `resolve`, `matches`, `verify`, composition | `IntegrationVerdicts` |
| Capability plugins | `L/tasks/plugin_acquisition.py`, `plugin_runtime.py`, `plugin_sandbox.py`, `plugin_worker.py` | registry in memory and file, plugin directories, worker process | `resolve`, `acquire`, `_validate_result`, `execute`, the worker | `PluginLifecycle` |
| Resource leases | `L/adapters/resource_leases.py`, `resource_lease_registry.py` | JSON registry: lease records, fencing counters | `acquire`, `renew`, `release` | `ResourceLeases`, `LeaseService` |
| Directory lock | `L/adapters/directory_lock.py` | a directory and its `created_at` | `__enter__`, `_reclaim_if_stale`, `__exit__` | `DirectoryLock`, `LockedRegistry` |
| Leased operations | `L/tasks/resource_leases.py` | heartbeat thread, its error, the lease | `run_leased_operation`, `_LeaseHeartbeat`, `run_fenced_operation` | `LeasedOperation` |
| Process registry | `L/adapters/process_registry.py` | process records, in memory and in a JSON file | `register`, `heartbeat`, `finish`, `reap_stale`, `prune_terminal` | `ProcessSupervision` |
| Reaper service | `L/adapters/process_reaper_service.py` | cycle, stop event | `run` | `ProcessSupervision`, partly |
| Subprocess supervisor | `L/adapters/subprocesses.py` | one child process per call | `__call__`, identity lookup, tree termination | `ProcessSupervision`, partly |
| Release gate, history | `L/release_gate.py`, `release_history.py`, `sandbox_release_gate.py` | stages so far, report file, snapshots | gate, `record`, `list`, `analyze` | `ReleasePipeline`, partly |
| Strategy comparison, CLI, demos, benchmarks | the rest of `L/` | none of their own | figures, parsing, wiring | not modelled |

How they interact:

* A scheduler process calls the **scheduler**, which saves its graph after each
  change, and executes a batch of leaves inside one **leased operation**. A leaf
  may be a run of the **loop engine** with the ports of a **profile**, or a call
  of a **plugin**; the scheduler sees its result only.
* The scheduler asks the **decomposer** what a pending node is, the **plugin
  registry** whether a leaf's capabilities are there, the **retry policy** what to do
  with a retryable result, the **integration verifiers** whether a parent whose
  children completed is completed. In `TaskScheduler` their answers are free; each of
  them has a module that says what its answers can be.
* A leased operation acquires from the **lease manager**, starts a heartbeat
  thread that renews, runs the batch, joins the thread and releases. The manager
  serializes scheduler processes by the **directory lock** around each load and
  save of the registry. External resources compare fencing tokens.
* **Subprocess tools** register a child process, heartbeat its record and finish
  it; the **reaper**, in the same program, ends and records what has become stale,
  among it what an earlier, dead program left running.
* The **release gate** runs its stages over subprocess tools and replaces one report
  file; other programs copy reports into the **history**.

What is hard in this code: processes racing on a file system with no lock but
`mkdir`; ownership that ends by time while its owner still works; pids that come
to mean another process; a crash between a side effect and the record of it;
graphs that must neither deadlock nor outspend their budget whatever fails in
whatever order; two authors of one verdict (a tool and the reaper); directories that
are rewritten between their check and their use; a deadline measured on a clock that
may be set; answers of a model that must be refused or accepted as a whole. What makes
each component correct is listed with its run in section 4. The hazards, each at its
line, are in `PROJECT.json`.

## 2. The modules

| Module | Models | EXTENDS / INSTANCE |
|---|---|---|
| `LeaseService` | what the lease manager promises, without clock, file or pids | |
| `ResourceLeases` | the lease manager, one registry transaction a step | INSTANCE `LeaseService` |
| `LeasedOperation` | operations and heartbeats composed with the manager | EXTENDS `ResourceLeases` |
| `DirectoryLock` | the lock, one file-system call a step | |
| `LockedRegistry` | a load-and-save transaction composed with the lock | EXTENDS `DirectoryLock` |
| `TaskScheduler` | the scheduler | |
| `LoopEngine` | the engine with free ports | |
| `LoopProfiles` | the engine with the ports of the four profiles, over a file to patch | EXTENDS `LoopEngine` |
| `ProcessSupervision` | process registry, tools and reaper over an operating system | |
| `TaskRetry` | the retry window and the wait of one leaf | |
| `TaskDecomposition` | decomposition by a model, recorder and replay | |
| `IntegrationVerdicts` | routing and composition of integration verifiers | |
| `PluginLifecycle` | acquisition, admission and execution of plugins | |
| `ReleasePipeline` | gate, report, history, trend | |
| `MC*` | TLC instances: model values, inputs, symmetry; `MCTaskServices` puts the five modules above side by side | the modules they name |
| `LeasedOperationProofs` | proofs about `ResourceLeases` and `LeasedOperation` | EXTENDS `LeasedOperation` |
| `LockedRegistryProofs` | about `DirectoryLock` and `LockedRegistry` | EXTENDS `LockedRegistry` |
| `TaskSchedulerProofs` | about `TaskScheduler` | EXTENDS `TaskScheduler`, `OrderLemmas` |
| `LoopProfilesProofs` | about `LoopEngine` and `LoopProfiles` | EXTENDS `LoopProfiles`, `OrderLemmas` |
| `ProcessSupervisionProofs` | about `ProcessSupervision` | EXTENDS `ProcessSupervision`, `OrderLemmas` |
| `TaskServicesProofs` | about `TaskRetry`, `PluginLifecycle`, `ReleasePipeline`, `IntegrationVerdicts` | EXTENDS these four, `OrderLemmas` |
| `TaskDecompositionProofs` | about `TaskDecomposition` | EXTENDS `TaskDecomposition`, `OrderLemmas` |
| `OrderLemmas` | least and greatest elements, well-founded recursion, folds over finite sets | TLAPS |

Conventions. Handlers keep their names from the code where TLA+ allows. A
definition whose name tells what is wrong with it (`GrantBesideTheDead`,
`GenuineUnchecked`, `StartLeafUnsaved`, `DatedAnew`) is a faulty variant of the
definition below it; no specification uses it. Put in place of the right one it must
break the property `PROJECT.json` pairs it with, which is how each property is known
to say something. History variables (`performed`, `runs`, `tracked`, `overdue`,
`tardy`, `overtaken`, `writer`, `vetted`, `lastRun`, `reference`, `was`, `end`,
`contended`, `origin`) are read by no guard.

### ResourceLeases

`leases` and `counters` are the registry file, `pending` a process's `acquire()`
in progress, `handles` the `ResourceLease` values callers hold. A step of
`acquire()` is one `with self._registry_lock` block: `Grant` and `Contend` both
drop the dead records first, as the code does; `Retry`, `GiveUp`, `LockTimeout`
are what happens outside. `Renew`, `Release`, `ReleaseFails` take a handle.
`Crash` and `Restart` end a process and give its pid to another one. `SameProcess`
is the identity check; a lookup that fails answers `None`, and `LookupFailures`
says which pids' lookups may fail.

Assumptions: the host has one clock and it does not go back (the code uses
`time.time()` of one machine); a transaction is atomic, which is what
`DirectoryLock` is for and what `LockedRegistry` examines; a transaction reads the
clock once (the code reads it at most twice, microseconds apart).

### LeasedOperation

`phase` follows `run_leased_operation`, `hb` the heartbeat thread. `Wake`,
`Renewed`, `RenewFails`, `SeeStop` are the thread; `Joined` and `JoinTimesOut` are
`stop()`; `Outcome` combines the operation's result with heartbeat and release
errors as `_execute_ready_leaves` does. The external adapter is `highest`, `writer`
and the comparison in `Write`. `tardy` records that a start or a renewal came more
than `Slack` after it was due. Not followed: a thread that is still inside
`renew()` after its join timed out; it can only fail or extend a record that the
release removes, or, when the release failed too, keep that record for one more
TTL.

### DirectoryLock and LockedRegistry

`pc` names the file-system call a process makes next: `exists`, `stat`, the read
of `created_at`, the comparison, the `rename` aside, `mkdir`, the write of
`created_at`, and for `__exit__` the two removals of `rmtree`. Time is relative:
what the code compares with the clock is kept as an age which is not counted
beyond the threshold, so time need not stop and liveness can be checked. `Pace`
bounds how long a *running* process takes from `mkdir` to the end of its removal, or from
`stat` to `rename`; it is an assumption about the host, and `Prompt` relates it to
`StaleAfter`. `LockedRegistry` runs the load and the save of a write `acquire()`
inside the lock and keeps only one fencing counter of the registry.

### TaskScheduler

`graph` is the graph in memory, `disk` the saved one. `pc` follows `run()`:
`sweep` is `_propagate` (`rest` the nodes still to visit, in the order of depth
and of the graph's dictionary), `admit`, `begin`, `work`, `apply` are the loops of
`_execute_ready_leaves`, `wait` is `_wait_for_retry`. Every action that saves
copies `graph` to `disk`, and the ones that do not (`saving` is false in
`_block_for_resource_lease`, `BeginWork`, `Interrupt`) do not. `CrashAndResume`
loads the saved graph as `JsonTaskGraphStore.load` does. `Interrupt` is an
exception that leaves `run()`, whose caller calls it again on the same object.

Decomposer, resolver, verifier, leaf executor, lease manager and waiter answer
anything; the shape of the tree (names, dependencies, depth) is a constant, and
which part of it comes to exist is up to the answers. A retryable result may be
rejected (its code, its key, the clock) in every state, and is bounded by the
attempts; `TaskRetry` has the policy that decides it.

### LoopEngine and LoopProfiles

`state` is the `LoopState` in memory, `disk` the last checkpoint, `pc` the place in
`resume()`. An action of the plan takes two steps, `Act` (its side effect) and
`Record` (its counter, its index, its checkpoint), with a crash possible between
them. The checkpoint is a temporary file and a rename: the old state or the new.
`invalid_checkpoint` branches cannot be reached from a checkpoint the engine wrote
and are left out.

`LoopProfiles` adds what the engine only passes on: `work`, the actions, results,
status and criteria in the state, `saved`, the same in the checkpoint, and `file`,
the one file that patches change. Each port is an action that takes the engine's
action with an answer of its own: `PlanScripted`, `PlanProposed` (a model's list
under `_validate_plan` and its one repair), `PerformAction` (`apply_patch` in its
order of checks, `run_verification`, a reading tool), `VerifyRun`, `VerifyEvidence`,
`JudgeRun`. `ChosenProfile` is `CodingLeafExecutor`. Profile `free` leaves the
ports free, so that one run checks both the engine and its profiles. What a model may
answer under a contract is: any answer that fits, or an exception (`Agreed`).

### ProcessSupervision

`proc` is the operating system (who has a pid, is it alive, is it a zombie
waited for), `records` the registry in memory and `disk` its file, `pc` the tools'
`__call__`, `rpc` the service's `run()`. A save may raise after the memory has
changed. `Stale` is the reaper's snapshot; each stale record is then looked up,
killed or found lost, and finished, in three steps between which tools run.
A lookup of a live process may fail (`LookupFails`): the code then takes it for one
that is gone. `tracked` is the history of processes whose registration was saved and
that no lookup of the reaper failed to see. `Crash` ends the program: its children live on, its successor loads the file.

Assumptions: one registry object per file (as the program builds it); one run of
the service at a time (its run lock); the wait after a SIGKILL succeeds; an identity
tells a process from the earlier ones of its pid (`fields[21]` is the start time as long
as the command's name holds no space). `SlowReuse`: a pid is not given to another
process between the reaper's lookup (`process_registry.py:185`) and its kill
(`:196`). The code cannot exclude that, since the kill goes by the bare pid; the
runs exclude it, and show that nothing else kills the wrong process.

### TaskRetry

`task` is the node in memory, `file` the one in the checkpoint. `Decision` is
`decide` in its order of refusals. The window is measured on `wall`, which
`SetClock` may put anywhere at any time; the wait is measured on the monotonic clock
(`waiting.spent`); `Second` moves both. `Die` recovers a leaf found running as
ready, whether it was executing or waiting. The delay of a retry is a constant of
its number, jitter included.

### TaskDecomposition

`nodes` is the graph, `trace` what the recorder has noted. `Assessed` is the answer
after its repair; `Apply` is `_assess_node` with a decision; `WithChildren` is
`add_child_tasks`, which assigns into the dictionary without looking whether the key is
there. `Visit` is one call of the code's depth-first search; `Search` ties the calls
together as a function of the keys being visited, which grow with each call, so that
its recursion can be reasoned about. A graph is decomposed live, then a
graph of any case is decomposed from the trace. Which candidate is assessed or executed
next is free.

### IntegrationVerdicts

`Resolve` and `Matches` are the routing, `Choose` is `verify()` up to the plan,
`RunCommand` and `Ask` are the calls of the verifiers in turn, `Conclude` the
composition; `Unready` is the scheduler's treatment of children that are not all
completed. `left` is what a verifier left of its copy of the children, `Given` what the
next one gets. `Selectors` is the set of selectors that occur in the policies, with the
parts of the composed ones; `Matches` is a recursive function on it.

### PluginLifecycle

`files` are the plugin directories, which `Edit` lets other programs rewrite between
any two steps; `generated` and `stored` the registry in memory and on file; `leaf`
the one leaf being admitted, acquired for and executed. Acquisition is `Generate`,
`CheckManifest`, `Register`; execution `Launch` (which reads the descriptor once),
`Probe`, and the worker's `RunPlugin`, which reads the file again and compares its
digest; a process that cannot be started or registered ends the leaf (`ToolRaises`).
A digest is the content it is the digest of.

### ReleasePipeline

`gate` is the gate running and its stages, `report` the report file, `recorder`
the programs inside `record()`: the existence check, the write of the temporary file and
its replacement are three steps, so that two recorders of one id can overlap.
`TrendOf` is `analyze`; `Newest` the order of `list()`. `end` notes how the process of
a stage really ended.

## 3. Bounds

TLC needs small constants; every bound on behaviours is a constant whose comment says
`bound` (`MaxClock`, `MaxLeases`, `MaxIdentity`, `MaxCrashes`, `PortCrashes`,
`MaxToken`, `MaxInterrupts`, `MaxRecords`, `MaxProcesses`, `MaxFaults`, `MaxPlan`,
`MaxEdits`, `MaxWall`, `MaxRuns`, `MaxGates`, `MaxTime`, `MaxLeafRuns`). All others are
parameters of the program. Runs with such bounds, and programs that end, stop: they
have `CHECK_DEADLOCK FALSE`. The two lock modules have no end, and there deadlock is
checked.

## 4. The runs

* **leases**. Two processes, two resources, readers and
  writers of one and of both; TTL 2, four instants, three leases, a reused pid.
  `LeaseInv` with its parts: the registry never holds conflicting leases, never
  holds a token above its counter (which would make `load_registry` reject it
  for good), and holds every lease a holder still believes in.
  `NoConflictingHolders`: mutual exclusion as callers see it. `NoTheft`: a live
  lease ends only by its owner. `ImplementsLeaseService`: with validity as "held
  and not expired", each step is a grant, an end of grants, or a stutter; an
  expired lease is never revived. Why the bounds are enough: a conflict is of two
  leases, a theft needs a third party only as their grantee, and two TTLs fit
  into four instants when a renewal falls between them.
* **lookup_failure** (violation). `NoTheft` when an identity lookup may fail.
* **lock_recovery**. Two processes, one of which dies between any two calls.
  `EnterReturns`: `__enter__` returns, with the lock or by its deadline.
  `OrphanReclaimed`: an orphaned directory, with or without `created_at`, goes.
* **registry_prompt**. Three processes, of which a contender but no owner may die,
  `2 * Pace <= StaleAfter`, deadlines that pass at once (a process that gave up comes
  back, as one that waits does): `MutualExclusion`, `NewTokenIsGreatest`. Three are
  needed: an owner, a contender that judges its directory, and one that comes in
  between.
* **duplicate_token** (violation). The same, when one owner has died.
* **operation**. Two operations that write one resource, TTL 2, interval 1, slack 0;
  heartbeats of any pace, threads that hang, crashes. `OperationInv`: each operation
  gives back what it took. `CompletedUndisturbed`: an operation completed with
  heartbeats in time was alone until its last side effect, even if others were late.
  `WritesFollowGrants`: with all late, the resource still accepts writes in the order
  of grants only. `OperationReturns`: `acquire()` comes back by its deadline, and the
  whole operation even if its heartbeat thread hangs in `renew()`. One resource is
  enough, because what an operation does to a resource depends on its tokens for it
  only; the theorems of section 6 hold for any number.
* **scheduler**. Seven tasks in two levels; a chain `d`, `b`, `c` against the order of
  the list; `a` splits into two leaves that clash; batches with room for three, under
  leases; a budget of five executions, three attempts of two leaves; two crashes and an
  interrupted run. `SchedulerInv` and `RunsExplained`: budgets are spent on disk before
  anything runs, and only retries and crashes repeat a leaf. `BatchIsolated`: no two
  leaves of a batch conflict, also if neither is the first, for which three must have
  room. `DependenciesFirst`: also in what was retried or recovered.
  `FailureEndsTheGraph`: one sweep carries a failure to the root in any order of nodes.
  `NoDeadlock`: `task_graph_deadlock` never comes without an interrupted run.
  `RunAdvances`: no step of a run, retries and contention included, leaves it as far
  from its end as it was. `Terminates`.
* **pending_dependents** (violation). `DependentsBlocked` on the same tree.
* **loop**. Three iterations of up to three actions, budget five, stagnation three;
  with free ports two crashes anywhere, with the ports of a profile one. `EngineInv`,
  `ResumedInPlace`: a crash costs at most one repeated action, and a resumed run goes
  on where its checkpoint is. `EvidenceInTurn`:
  what a resume repeats is not counted twice and not mixed with what a crash left
  behind. `CompletedOnEvidence`: a leaf reported completed has the evidence its
  capabilities ask for, whatever the model said. `PatchesExplained`: a leaf that does
  not ask for patches leaves the file alone, and otherwise the file is what the
  recorded patches make of it, as long as they are repeatable. `StepsRunOut`: every step
  but a crash takes the run nearer to its end, and a crash costs only the way back to
  its stage. `Terminates`. The
  patches of the instance are one, the same with a digest, its reverse, and one
  whose new text holds its old text; the profiles differ in what their third
  iteration can do, so three are needed; stagnation is reached in the third.
* **supervision**. A tool of any pace beside the reaper, two pids, three processes,
  two records, one save that raises, lookups that fail at will, one crash.
  `SupervisionInv`: a registered process that lives has a running record in the file,
  unless a lookup of the reaper failed to see it; and a tool that heartbeats in time has
  one, whatever lookups fail. `WatchedSurvives`: its process is not killed. `VerdictStands`:
  the first saved verdict is the last.
* **supervision_liveness**. One pid, and a service of two cycles (in **supervision** one,
  with another run of it at any time): `CallReturns`; `OrphansReaped`, which speaks of the
  record: it is ended as `terminated` or as `lost`.
* **services**. The five modules `PluginLifecycle`, `TaskRetry`,
  `IntegrationVerdicts`, `TaskDecomposition` and `ReleasePipeline`, each of them alone:
  they share no variable, a behaviour is of one of them, and the run is the sum of five.
  * Plugins: two capabilities of which one asks for a sandbox, one plugin
    directory that both can name, two contents of code, one rewrite by another
    program. `RunsAreAdmitted`: what a worker loads was hashed by an acquisition of
    that capability, the policy admits it, and it is in the sandbox it asks for.
    `DescriptorsStand`: an entry of the registry file never changes. One rewrite is
    enough, as the generator itself rewrites the directory for the other capability.
  * Retry: three attempts, a window of three seconds, a wall clock that may be set to
    any of six values at any step, crashes without bound. `RetriesInTime`: a retry on record was
    decided in a window dated once, and the check after the wait agrees with the one
    before it if the clock moved by no more than the delay.
  * Verdicts: three verifiers, one of them a command, a policy with all kinds of
    routes, five tuples of children. `VerdictConservative`: a parent completes exactly
    if its children did and every verifier of its plan, asked about those children,
    was satisfied.
  * Decomposition: lists of children of which two are sound and the others wrong in
    one way each; two cases that differ in `max_nodes`; a crash of the recorded run.
    `AcceptedChildrenAreSound`: no node replaces another, dependencies are between
    siblings without a cycle, budgets hold. `ReplayReproduces`: a replay that accepts
    an entry gives the node what the live run gave it, or refuses it.
  * Release: two ids, two recorders, two runs of the gate. `ReleasesEarned`: a report
    is earned by the processes of one run, and a release called stable or improved
    is in no stage worse than the one before. `SnapshotsStand`: a snapshot is not
    replaced unless two programs record under its id at once.

A component's type invariant is checked as a conjunct of the invariant of its run
(`LeaseInv`, `OperationInv`, `SchedulerInv`, `EngineInv`, `SupervisionInv`); those of the
lock, of `TaskRetry` and of `PluginLifecycle` are part of the proofs.

### Fairness

* `BusyLockSpec` (lock): a process that has begun makes its next call, time passes,
  and schedulers keep coming for the registry. Without newcomers nobody would look at an
  orphan, and the code has no other agent for that.
* `OperationFairness`: the scheduler's thread goes on and the operation ends (its
  tools have time-outs). The heartbeat thread has none: it may hang in `renew()`,
  and that is why `stop()` joins with a time-out.
* `FairSpec` of the scheduler, `FairProfileSpec` of the engine: weak fairness of the
  thread in `run()` or `resume()`, that is, it goes on and what it calls returns (models
  and commands have time-outs). Crashes, interrupts and the passing of the time-out
  are not owed.
* `FairSpec` of supervision: tool threads and the service go on, a command's time-out
  passes, and the host starts the service again when it has ended. An exit of a
  child is not owed: a command may hang.

## 5. What the violations show

1. `NoTheft` in **lookup_failure**. `lookup_process_identity` answers `None` for
   any `OSError`, as it does for a dead process, and `_live_records` takes that for
   a dead owner. One failed read of `/proc` in somebody's `acquire()` drops a live
   lease, and a conflicting one is granted. `ARCHITECTURE_RU.md:871-872` says the
   lease is removed only if the current identity of the pid no longer matches.
2. `NewTokenIsGreatest` in **duplicate_token**. `_reclaim_if_stale` judges one directory and renames
   whatever is at the path by then. After an owner died, two processes that both
   judged its directory stale take it in turn, the second takes away the first
   one's fresh lock, both are inside and both issue the same token.
   `ARCHITECTURE_RU.md:900-902` says a new owner's token is always greater.
3. `DependentsBlocked` in **pending_dependents**. A sweep visits each sibling once, so a dependent
   of a dependent that is listed before it stays pending when the root is blocked
   in the same sweep. `ARCHITECTURE_RU.md:589-591` says dependent leaves become blocked.

Observed while modelling, and without a run of their own:

* `engine.py:68`: a checkpoint at verifying or judging whose action budget is spent is
  stopped at its resume, while the run that did not crash would have been judged.
* `filesystem.py:151`: `apply_patch` compares `expected_sha256` before it looks whether
  the patch is applied already, so a pinned patch repeated after a crash is an error and
  not `already_applied`; and a patch whose `new_text` holds its `old_text` is applied
  twice. `ARCHITECTURE_RU.md:363-366` calls the repetition safe.
  `PatchesExplained` therefore speaks of successful and repeatable patches.
* `coding_leaf.py:177`: for a leaf with reading and verifying but no patching
  capabilities building the loop raises `KeyError`; the leaf fails.
* `process_registry.py:186`: `reap_stale` finishes a record as `lost` when the looked-up
  identity is not the recorded one, and `None` is not, whether the pid is gone or `/proc`
  could not be read (`subprocesses.py:228-232`), the fault of **lookup_failure** again. The
  process lives on, no running record is left of it, and no later sweep looks for it.
  `ARCHITECTURE_RU.md:173` sets `lost` for a pid that vanished or was reused only.
  `SupervisionInv` excepts the processes that were not seen (`LookupFails`, `tracked`).
* `release_history.py:20`: `_STATUS_RANK` has no `blocked`, the status of the sandbox
  stage without a sandbox, and `analyze` raises on such a report;
  `ARCHITECTURE_RU.md:1781-1782` calls a lower status a regression.
* `release_history.py:107-122`: two recorders of one id may both pass the existence
  check; the second replaces the first one's snapshot. `SnapshotsStand` excepts them.
* `adapters.py:122`: the `run_id` of a leaf replaces `.` by `-`, so `root.a-b` and
  `root.a.b` have the same checkpoint.

## 6. What is proved

For all values of the constants, by TLAPS (`*Proofs` modules). Every safety invariant and
every action property that a run checks has its theorem.

* **ResourceLeases.** `RegistryInv` (types, ids unique and agreed on, handles owned by
  their process, no conflicts, tokens covered by counters) is inductive under any
  lookup failures, because `Grant` adds a lease only beside records it does not
  conflict with and what failed lookups remove cannot conflict: `RegistryCorrect`,
  `FencingTokensAreFresh` (a grant's tokens are above all tokens still in anybody's hands,
  expired ones included; no run has it as a property of its own, since with `LeaseInv` it
  is part of `ImplementsLeaseService`). No conjunct is inductive alone: a
  renewal replaces a record by what the handle became, so the two must agree on
  ids, and a grant's tokens are fresh only if none is above its counter.
  With `LookupFailures \subseteq {{}}`, `BelievedIsRegistered` is inductive next to
  it (a believed lease is live, and live records survive every transaction of
  others): `LeaseInvariance`, `HoldersExcludeEachOther`. `LiveLeasesAreNotStolen` needs only
  types. Lookup failure is the assumption that **lookup_failure** shows necessary.
  Under the same assumption every step of the manager is a grant of `LeaseService`, an end
  of grants, or no step of it (`ManagerImplementsService`): a renewal, which changes an
  expiry only, is none, and a grant finds every believed lease in the file.
* **LeasedOperation.** Every step of an operation is a step of the manager or leaves it
  alone (`OperationsUseTheManager`), so what is proved of the registry holds here.
  `OneLeaseEach`: `OperationInv` is inductive. `AcceptedWritesAreOrdered`, under any lookup
  failures and heartbeats of any pace: among the leases still in somebody's hands tokens
  are ordered as ids are, so whoever carries a token not below the highest one written is not
  older than its writer. `CompletedHadItAlone`, with `LookupFailures \subseteq {{}}` and
  `2 * Slack + Interval < TTL`: while the heartbeats of an operation are in time its
  lease expires later than the next one is due plus the slack, so it is believed, hence
  live, hence every grant finds it in the way; it can be overtaken only once its thread
  has failed, and then the failure is in its verdict.
* **DirectoryLock.** Under `Prompt` (no owner dies, `2 * Pace <=
  StaleAfter`) `LockInv` is inductive: a directory has an owner and is no older
  than its owner's elapsed time, so an age a contender read is at most `Pace`
  plus its own elapsed time, which never reaches staleness; hence nobody is at
  the rename. `LockExcludes`; types without that assumption: `LockTypeCorrect`.
* **LockedRegistry.** `RegistryNext` steps are `LockNext` steps, so `LockInv` carries
  over; with mutual exclusion, what a process loaded stays what the file holds:
  `TransactionsAreIsolated`, `TokensIncrease`. That no owner dies is the assumption
  that **duplicate_token** shows necessary.
* **LoopEngine.** `PlaceInv` is inductive: outside a step memory and checkpoint are the
  same state, an iteration's evidence is its own, observations are at most one an
  iteration, and nothing beyond the action that is next was ever performed. From it
  `EvidenceIsInTurn` and `ResumesInPlace`. `Counted` is inductive next to it:
  all actions performed but the current one are counted in the state, and each action
  performed twice, or performed and not recorded, is owed to a crash. Without the
  current action as an exception neither count is inductive, since a crash falls exactly
  between its side effect and its record: `BudgetHolds`. `RunsOutOfSteps`: `StepsLeft`,
  computed from iteration, stage and next action, is a natural number that every step but a
  crash decreases, whatever the ports answer; a crash adds at most three, the way through
  `resume()` to the stage it died in. It needs `PlaceInv`: the checkpoint a crash falls back
  to is the state it struck.
* **LoopProfiles.** Every port of a profile is one of the things the engine allows its
  ports (a scripted or accepted plan has a length the engine admits, by the profile's
  assumptions): `ProfilesImplementEngine`. The engine's theorems carry over:
  `ProfilesWithinBudget`, `ProfilesResume`, `ProfilesRunOutOfSteps`.
  `LeavesHaveEvidence`: by `WorkInv` the results of an iteration are those of the first
  actions of its plan, in memory and, outside a step, in the checkpoint, and a command that
  no later patch followed saw the file as it is. The last clause has an exception, without
  which it is not inductive: a patch performed before a crash and not recorded. Then that
  patch is the next action, so the plan is not through and nothing is judged yet.
  `UnaskedFileKept`: without a patch among the capabilities no plan holds one.
  `PatchesHaveRecords`: as long as the recorded patches succeeded and can be repeated, the
  file is what they make of the original in their order, or that and the next patch
  performed once (`PatchInv`); it follows the fold over the results step by step.
* **TaskScheduler.** `SchedulerIInv` is inductive for every tree, budget, policy of
  leases and retries, with every crash and interrupted run: the graph in memory and the
  saved one are each a tree whose completed parents have completed children and whose
  tasks started after what they need (`GraphInv`); attempts are on disk before a leaf
  runs, and no more than crashes and retries account for (`Accounted`,
  `AttemptsSaved`); a batch is isolated at each place of `_execute_ready_leaves`
  (`BatchInv`); and what a sweep has passed has carried its children's failures up
  (`SweepInv`). From it `LeavesPaidFor`, `RunsAccountedFor`, `TreeInOrder`,
  `FailureReachesRoot`, `LeavesIsolated`, `DeadlockOnlyAfterInterrupt`. The last one and
  `FailureReachesRoot` need arguments on the tree: of the tasks not completed a deepest
  one, and among its siblings one that needs none of the others, could have gone on; of
  those with a failure below them a shallowest one is the root. `NeedsAssumption`, that
  such a sibling exists, is what `_validate_dependency_graph` is for, and what
  `TaskDecompositionProofs` proves of it. `EveryStepCounts`: `WorkLeft` (for each task its
  way to an end and two for each attempt left, so that a retry costs more than the status it
  gives back), then `Phase` (the place in the loop), then the leaves of the batch still to
  treat, decrease in this lexicographic order with every step but a crash or a new process.
  The delicate case is a batch that has run out of leaves: the loop goes round again, which
  is progress only because the batch has changed the graph.
* **ProcessSupervision.** `SupervisionIInv`: an identity names one process, an id one
  record; a record is ended, in memory or on file, only when it is settled: its process is
  gone, or a lookup of the reaper failed to see it; what ended in the file did not go on in memory; while its heartbeats are in time no sweep has
  listed a tool's record. The order of the two copies matters: a save that raises leaves
  memory ahead of the file, and only that direction is harmless. `ProcessesAccountedFor`
  holds for every live process but those a lookup of the reaper failed to see: without the
  exception it is false in the code (section 5). `VerdictsStand` holds without conditions, and
  `ReaperSparesWatched` under `SlowReuse` (see section 2), since the kill goes by the bare
  pid. Failing lookups cost neither of them anything: they only lead away from the kill.
* **TaskRetry.** `RetryInv` (the checkpoint always has the retry counter and the date
  that memory has; a leaf that waits has a date, an attempt left and a delay that ends
  in its window) is inductive for any clock: `RetryInvariance`, `RetriesAreInTime`.
* **PluginLifecycle.** `PluginInv`: what the registry holds, in memory or on file, was
  hashed by an acquisition of that capability, file entries are entries of memory, and
  the descriptor a leaf carries is a vetted one in the backend its capability asks for.
  It does not speak of the directories, and that is the argument: the worker compares what it
  loads with the descriptor. `PluginsRunAdmitted`, `RegistryStands`.
* **ReleasePipeline.** `ReleaseIInv`: the stages of a gate, the report and every copy of
  it, in temporary files too, are earned by processes that ended as the stages say, and a
  recorder whose id nobody else works on has found no snapshot of it. `ReportsAreEarned`,
  `RecordedReleasesStand`. The order of stages matters: the sandbox comes last and no
  command stage has its name (`ReleaseAssumption`), since it alone may be excused.
* **IntegrationVerdicts.** `VerdictInv`: a plan is asked only when all children completed,
  each verifier saw the children themselves and not what the one before it left of its
  copy, and the answers so far are those of the first verifiers of the plan.
  `VerdictsAreEarned`, for every set of policies and verifiers.
* **TaskDecomposition.** Two arguments. That the validation lets no cycle through
  (`WellFormedCanStart`): the search is defined, by recursion on the keys not yet being
  visited; and by induction on the same order, a visit that does not raise leaves a set of
  keys that holds the dependencies of each of its keys, and of every group of which some key
  depends on none of the group (a new key either is the whole group or leaves a smaller
  one). That identifiers do not collide (`OneMoreName`): a valid key is one name, so an
  identifier tells its parent, and a pending parent has listed nothing. Hence
  `ChildrenAreSound`; the budgets come from the two comparisons of `_assess_node`.
  `ReplaysReproduce`: what a decision makes of a node is a function (`Outcome`) of the
  recorded context and the decision, so an entry accounts for its node in the recorded run
  (`RecordedInv`, until the graph is over, whatever dies) and in any replay (`ReplayedInv`).
  It is not enough that the contexts agree: the recorded entry must be of the node's only
  assessment, which is why the recorder's refusal to assess an id twice is in the invariant.

Of the runs' properties, these are only model-checked, since fairness and `ENABLED` are
beyond the prover: `Terminates` (of the scheduler and of the loop), `EnterReturns`,
`OrphanReclaimed`, `OperationReturns`, `CallReturns`, `OrphansReaped`. Of the two
`Terminates` the measure that runs out is proved (`EveryStepCounts`, `RunsOutOfSteps`);
what stays with TLC is that a step is possible and taken until the end is reached.

Assumptions of the proofs are the named `ASSUME`s of the modules, which TLC evaluates in
every run, and the hypotheses named above: `LookupFailures \subseteq {{}}` (of the lease
manager only), `Prompt`, the punctuality of heartbeats, `SlowReuse`.

## 7. Not modelled, and why

* Strategy comparison (`strategy_*.py`, `DecompositionStrategyRunner.compare`) and
  benchmarks: figures computed from finished graphs; no state of their own, and no order
  of steps a property could be about.
* Command line and demos: parsing and wiring. `SandboxReleaseGate.run` runs the gate's
  sandbox stage alone.
* Texts, events, reports and telemetry; the reaper's report file. No property is
  about them.
* Capture of process output, the Windows branches, the argument lists of the plugin
  sandbox: the operating system's side of a call, here one free answer.
* The HTTP client of the models: its answer or its exception is free.
* Two registry objects on one file of process records: the last writer wins and loses the
  other's; the program has one.
* Paths of the workspace tools: only that their checks may raise.

## 8. Plan

What a next step would take up: a composition of `TaskScheduler` with `TaskRetry`, in which
the wait of one leaf delays the batch of another; an abstract specification of the
scheduler (a tree whose leaves are paid for and run in the order of dependencies) and the
proof that the scheduler implements it, crash and recovery being no step of it; the proof
that a transaction inside the directory lock is the atomic step `ResourceLeases` takes it
for; the sandbox stage run alone.
