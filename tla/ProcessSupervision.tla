-------------------------- MODULE ProcessSupervision -------------------------
(***************************************************************************)
(* ProcessRegistry and its users in one program: BoundedSubprocessTool     *)
(* threads that start, watch and end child processes, and the              *)
(* ProcessReaperService that ends what a dead launcher left behind.  The   *)
(* program may die; its successor loads the registry from the JSON file.   *)
(* Instants are kept as ages (see DirectoryLock); a variant named for its  *)
(* fault precedes the definition it is a variant of.                       *)
(***************************************************************************)
EXTENDS Integers, FiniteSets, FiniteSetsExt

CONSTANTS
  Pid, Tool, NoPid,
  StaleAfter,     \* stale_after_seconds
  RetainFor,      \* retain_seconds
  PruneEvery,     \* prune_every_cycles
  MaxPruned,      \* max_pruned_per_cycle
  MaxCycles,      \* max_cycles
  SlowReuse,      \* is no pid reused between reap_stale's lookup and kill
  MaxRecords,     \* bound: registrations in a behaviour
  MaxProcesses,   \* bound: processes started
  MaxCrashes,     \* bound: deaths of the program
  MaxFaults       \* bound: saves of the registry that raise

ASSUME SupervisionAssumption ==
  /\ NoPid \notin Pid
  /\ StaleAfter \in Nat /\ RetainFor \in Nat
  /\ PruneEvery \in Nat \ {0} /\ MaxPruned \in Nat \ {0} /\ MaxCycles \in Nat \ {0}
  /\ SlowReuse \in BOOLEAN
  /\ MaxRecords \in Nat /\ MaxProcesses \in Nat /\ MaxCrashes \in Nat /\ MaxFaults \in Nat

VARIABLES
  proc,     \* pid -> the process that has it
  records,  \* the registry in memory
  disk,     \* the registry in the JSON file
  issued,   \* record ids given out (uuid4: always fresh)
  pc,       \* tool -> where its __call__ is
  child,    \* tool -> pid of its process
  rec,      \* tool -> id of its record, 0 for none
  overdue,  \* tool -> did its record get older than stale_after_seconds
  late,     \* tool -> has the command's timeout passed
  fate,     \* tool -> terminal_status
  rpc,      \* where ProcessReaperService.run is
  todo,     \* ids of stale records the sweep has still to treat
  cycle,    \* cycle_number
  tracked,  \* history: processes registered in the file, unless given up as lost
  crashes, faults

osVars     == <<proc>>
regVars    == <<records, disk, issued, tracked, faults>>
toolVars   == <<pc, child, rec, overdue, late, fate>>
reaperVars == <<rpc, todo, cycle>>
vars == <<osVars, regVars, toolVars, reaperVars, crashes>>

-----------------------------------------------------------------------------
Ended  == {"completed", "failed", "timed_out", "terminated", "lost"}
Oldest == (IF StaleAfter > RetainFor THEN StaleAfter ELSE RetainFor) + 1
Age    == 0 .. Oldest
Older(age) == IF age = Oldest THEN age ELSE age + 1

(* age is the time since heartbeat_at, which at the end is finished_at.    *)
Record == [id : 1 .. MaxRecords, pid : Pid, identity : Nat,
           status : {"running"} \cup Ended, age : Age]

(* A process: gone, alive, or waited for after it exited well or badly.    *)
Process == [identity : Nat, state : {"free", "alive", "done", "dead"}]

Holding   == {"spawned", "unregistered", "poll", "beat", "abort"}
Watching  == {"poll", "beat", "abort", "finish"}

IsChild(p) == \E t \in Tool : pc[t] \in Holding /\ child[t] = p
WithId(rs, id) == {r \in rs : r.id = id}
Replaced(r, s) == (records \ {r}) \cup {s}

(* _save: a temporary file and os.replace, or an exception before it; the  *)
(* records in memory are changed by then.                                  *)
Save      == disk' = records' /\ UNCHANGED faults
SaveFails == /\ faults < MaxFaults /\ faults' = faults + 1
             /\ UNCHANGED disk

Killed(p) == [proc EXCEPT ![p].state =
                IF @ # "alive" THEN @ ELSE IF IsChild(p) THEN "dead" ELSE "free"]
Freed(p)  == [proc EXCEPT ![p].state = "free"]

-----------------------------------------------------------------------------
Init ==
  /\ proc = [p \in Pid |-> [identity |-> 0, state |-> "free"]]
  /\ records = {} /\ disk = {} /\ issued = 0
  /\ pc = [t \in Tool |-> "idle"]
  /\ child = [t \in Tool |-> NoPid]
  /\ rec = [t \in Tool |-> 0]
  /\ overdue = [t \in Tool |-> FALSE] /\ late = [t \in Tool |-> FALSE]
  /\ fate = [t \in Tool |-> "failed"]
  /\ rpc = "off" /\ todo = {} /\ cycle = 0
  /\ tracked = {} /\ crashes = 0 /\ faults = 0

(* The operating system: pids are given again, processes exit.             *)
Identities == {proc[p].identity : p \in Pid}

CanHave(p) == /\ proc[p].state = "free" /\ Max(Identities) < MaxProcesses
              /\ ~(SlowReuse /\ rpc = "kill"
                   /\ \E r \in WithId(records, Min(todo)) : r.pid = p)

Started(p) == [proc EXCEPT ![p] = [identity |-> Max(Identities) + 1, state |-> "alive"]]

Stranger(p) == /\ CanHave(p)
               /\ proc' = Started(p)
               /\ UNCHANGED <<regVars, toolVars, reaperVars, crashes>>

Exit(p) == /\ proc[p].state = "alive"
           /\ \E s \in {"done", "dead"} :
                proc' = [proc EXCEPT ![p].state = IF IsChild(p) THEN s ELSE "free"]
           /\ UNCHANGED <<regVars, toolVars, reaperVars, crashes>>

-----------------------------------------------------------------------------
(* BoundedSubprocessTool.__call__; what it knew is forgotten at its end.   *)

Return(t) ==
  /\ pc' = [pc EXCEPT ![t] = "idle"] /\ child' = [child EXCEPT ![t] = NoPid]
  /\ rec' = [rec EXCEPT ![t] = 0] /\ overdue' = [overdue EXCEPT ![t] = FALSE]
  /\ late' = [late EXCEPT ![t] = FALSE]
  /\ fate' = [fate EXCEPT ![t] = "failed"]

Spawn(t, p) ==
  /\ pc[t] = "idle" /\ issued < MaxRecords /\ CanHave(p)
  /\ proc' = Started(p)
  /\ pc' = [pc EXCEPT ![t] = "spawned"]
  /\ child' = [child EXCEPT ![t] = p]
  /\ UNCHANGED <<regVars, rec, overdue, late, fate, reaperVars, crashes>>

NewRecord(t) == [id |-> issued + 1, pid |-> child[t],
                 identity |-> proc[child[t]].identity, status |-> "running", age |-> 0]

Register(t) ==
  /\ pc[t] = "spawned" /\ issued < MaxRecords
  /\ records' = records \cup {NewRecord(t)} /\ issued' = issued + 1
  /\ rec' = [rec EXCEPT ![t] = issued + 1]
  /\ \/ /\ Save
        /\ tracked' = tracked \cup {<<child[t], proc[child[t]].identity>>}
        /\ pc' = [pc EXCEPT ![t] = "poll"]
     \/ /\ SaveFails
        /\ pc' = [pc EXCEPT ![t] = "unregistered"]
        /\ UNCHANGED tracked
  /\ UNCHANGED <<osVars, child, overdue, late, fate, reaperVars, crashes>>

(* The identity is not to be had: nothing is registered.                   *)
RegisterFails(t) ==
  /\ pc[t] = "spawned"
  /\ pc' = [pc EXCEPT ![t] = "unregistered"]
  /\ UNCHANGED <<osVars, regVars, child, rec, overdue, late, fate, reaperVars, crashes>>

(* Fail closed: the process is terminated and waited for.                  *)
Unregistered(t) ==
  /\ pc[t] = "unregistered"
  /\ proc' = Freed(child[t])
  /\ Return(t)
  /\ UNCHANGED <<regVars, reaperVars, crashes>>

(* The process exited, or its time is over and it is terminated, or it is  *)
(* waited for and a heartbeat is due.                                      *)
PollWithoutEnd(t) ==
  LET state == proc[child[t]].state IN
  /\ pc[t] = "poll"
  /\ IF state = "alive"
     THEN /\ pc' = [pc EXCEPT ![t] = "beat"]
          /\ UNCHANGED <<proc, fate>>
     ELSE /\ pc' = [pc EXCEPT ![t] = "finish"]
          /\ proc' = Freed(child[t])
          /\ fate' = [fate EXCEPT ![t] = IF state = "done" THEN "completed" ELSE "failed"]
  /\ UNCHANGED <<regVars, child, rec, overdue, late, reaperVars, crashes>>

Poll(t) ==
  LET state == proc[child[t]].state IN
  /\ pc[t] = "poll"
  /\ IF state = "alive" /\ ~late[t]
     THEN /\ pc' = [pc EXCEPT ![t] = "beat"]
          /\ UNCHANGED <<proc, fate>>
     ELSE /\ pc' = [pc EXCEPT ![t] = "finish"]
          /\ proc' = Freed(child[t])
          /\ fate' = [fate EXCEPT ![t] = CASE state = "done" -> "completed"
                                           [] state = "dead" -> "failed"
                                           [] OTHER -> "timed_out"]
  /\ UNCHANGED <<regVars, child, rec, overdue, late, reaperVars, crashes>>

Deadline(t) == /\ pc[t] \in {"poll", "beat"} /\ ~late[t]
               /\ late' = [late EXCEPT ![t] = TRUE]
               /\ UNCHANGED <<osVars, regVars, pc, child, rec, overdue, fate,
                              reaperVars, crashes>>

RunningRecord(id) == {r \in WithId(records, id) : r.status = "running"}

(* registry.heartbeat refuses a record that is gone or has ended.          *)
Beat(t) ==
  /\ pc[t] = "beat"
  /\ \E r \in RunningRecord(rec[t]) : records' = Replaced(r, [r EXCEPT !.age = 0])
  /\ \/ Save /\ pc' = [pc EXCEPT ![t] = "poll"]
     \/ SaveFails /\ pc' = [pc EXCEPT ![t] = "abort"]
  /\ UNCHANGED <<osVars, issued, tracked, child, rec, overdue, late, fate, reaperVars, crashes>>

BeatRefused(t) ==
  /\ pc[t] = "beat" /\ RunningRecord(rec[t]) = {}
  /\ pc' = [pc EXCEPT ![t] = "abort"]
  /\ UNCHANGED <<osVars, regVars, child, rec, overdue, late, fate, reaperVars, crashes>>

Abort(t) ==
  /\ pc[t] = "abort"
  /\ proc' = Freed(child[t])
  /\ pc' = [pc EXCEPT ![t] = "finish"]
  /\ fate' = [fate EXCEPT ![t] =
                IF proc[child[t]].state = "done" THEN "completed" ELSE "failed"]
  /\ UNCHANGED <<regVars, child, rec, overdue, late, reaperVars, crashes>>

EndedAs(r, status) == [r EXCEPT !.status = status, !.age = 0]

(* registry.finish of record id: an ended record stays as it is, one that  *)
(* is gone is a KeyError; `raised` tells whether it was left by either     *)
(* that or a failing save.                                                 *)
FinishedOverwriting(id, status, raised) ==
  \/ /\ raised = (WithId(records, id) = {})
     /\ WithId(records, id) = {}
     /\ UNCHANGED <<records, disk, faults>>
  \/ /\ \E r \in WithId(records, id) :
          records' = Replaced(r, EndedAs(r, status))
     /\ IF raised THEN SaveFails ELSE Save

Finished(id, status, raised) ==
  \/ /\ RunningRecord(id) = {}
     /\ raised = (WithId(records, id) = {})
     /\ UNCHANGED <<records, disk, faults>>
  \/ /\ \E r \in RunningRecord(id) :
          records' = Replaced(r, EndedAs(r, status))
     /\ IF raised THEN SaveFails ELSE Save

Finish(t) ==
  /\ pc[t] = "finish"
  /\ \E raised \in BOOLEAN : Finished(rec[t], fate[t], raised)
  /\ Return(t)
  /\ UNCHANGED <<osVars, issued, tracked, reaperVars, crashes>>

-----------------------------------------------------------------------------
(* ProcessReaperService.run; its lock admits one run at a time.            *)

StartService ==
  /\ rpc = "off"
  /\ rpc' = "sweep" /\ cycle' = 1
  /\ UNCHANGED <<osVars, regVars, toolVars, todo, crashes>>

Stale == {r.id : r \in {s \in records : s.status = "running" /\ s.age > StaleAfter}}

(* reap_stale: the stale records are listed once, then treated in order.   *)
Sweep ==
  /\ rpc = "sweep"
  /\ todo' = Stale
  /\ rpc' = "lookup"
  /\ UNCHANGED <<osVars, regVars, toolVars, cycle, crashes>>

Target == CHOOSE r \in records : r.id = Min(todo)

(* The recorded identity is that of the process that has the pid.          *)
MatchesByPid(r) == proc[r.pid].state # "free"

Matches(r) == proc[r.pid].state # "free" /\ proc[r.pid].identity = r.identity

Lookup ==
  /\ rpc = "lookup" /\ todo # {}
  /\ rpc' = IF Matches(Target) THEN "kill" ELSE "lose"
  /\ UNCHANGED <<osVars, regVars, toolVars, todo, cycle, crashes>>

(* lookup_process_identity answers None, as it does for a pid nobody has:  *)
(* /proc/<pid>/stat cannot be read, or has too few fields.                 *)
LookupFails ==
  /\ rpc = "lookup" /\ todo # {}
  /\ Matches(Target)
  /\ rpc' = "lose"
  /\ tracked' = tracked \ {<<Target.pid, Target.identity>>}
  /\ UNCHANGED <<osVars, records, disk, issued, faults, toolVars, todo, cycle, crashes>>

(* terminate_process_tree: killpg, whoever has the pid now.                *)
Kill ==
  /\ rpc = "kill"
  /\ proc' = Killed(Target.pid)
  /\ rpc' = "terminate"
  /\ UNCHANGED <<regVars, toolVars, todo, cycle, crashes>>

LoseUnfinished ==
  /\ rpc \in {"lose", "terminate"}
  /\ todo' = todo \ {Min(todo)}
  /\ rpc' = "lookup"
  /\ UNCHANGED <<osVars, regVars, toolVars, cycle, crashes>>

(* registry.finish; an exception fails the whole run of the service.       *)
Reaped ==
  /\ rpc \in {"lose", "terminate"}
  /\ \E raised \in BOOLEAN :
       /\ Finished(Min(todo), IF rpc = "lose" THEN "lost" ELSE "terminated", raised)
       /\ IF raised THEN rpc' = "off" /\ todo' = {} /\ cycle' = 0
          ELSE rpc' = "lookup" /\ todo' = todo \ {Min(todo)} /\ UNCHANGED cycle
  /\ UNCHANGED <<osVars, issued, tracked, toolVars, crashes>>

SweepOver ==
  /\ rpc = "lookup" /\ todo = {}
  /\ rpc' = IF cycle % PruneEvery = 0 THEN "prune" ELSE "pause"
  /\ UNCHANGED <<osVars, regVars, toolVars, todo, cycle, crashes>>

RemovableEvenRunning == {r \in records : r.age > RetainFor}

Removable == {r \in records : r.status \in Ended /\ r.age > RetainFor}

(* prune_terminal: the oldest, as many as the policy allows.               *)
Prunable(S) ==
  /\ S \subseteq Removable
  /\ Cardinality(S) = Min({MaxPruned, Cardinality(Removable)})
  /\ \A r \in S, s \in Removable \ S : r.age >= s.age

Prune ==
  /\ rpc = "prune"
  /\ \E S \in SUBSET records :
       /\ Prunable(S)
       /\ records' = records \ S
       /\ \/ /\ IF S = {} THEN UNCHANGED <<disk, faults>> ELSE Save
             /\ rpc' = "pause" /\ UNCHANGED cycle
          \/ S # {} /\ SaveFails /\ rpc' = "off" /\ cycle' = 0
  /\ UNCHANGED <<osVars, issued, tracked, toolVars, todo, crashes>>

(* The last cycle or a stop_event set during the wait, or another cycle.   *)
Pause ==
  /\ rpc = "pause"
  /\ \/ rpc' = "off" /\ cycle' = 0
     \/ cycle < MaxCycles /\ rpc' = "sweep" /\ cycle' = cycle + 1
  /\ UNCHANGED <<osVars, regVars, toolVars, todo, crashes>>

-----------------------------------------------------------------------------
(* The program dies, its children live on or are waited for by init; the   *)
(* next one loads the file.                                                *)
Crash ==
  /\ crashes < MaxCrashes
  /\ crashes' = crashes + 1
  /\ proc' = [p \in Pid |-> IF proc[p].state = "alive" THEN proc[p]
                            ELSE [proc[p] EXCEPT !.state = "free"]]
  /\ records' = disk
  /\ pc' = [t \in Tool |-> "idle"] /\ child' = [t \in Tool |-> NoPid]
  /\ rec' = [t \in Tool |-> 0] /\ overdue' = [t \in Tool |-> FALSE]
  /\ late' = [t \in Tool |-> FALSE]
  /\ fate' = [t \in Tool |-> "failed"]
  /\ rpc' = "off" /\ todo' = {} /\ cycle' = 0
  /\ UNCHANGED <<disk, issued, tracked, faults>>

Aged(rs) == {[r EXCEPT !.age = Older(@)] : r \in rs}

Tick ==
  /\ records' = Aged(records) /\ disk' = Aged(disk)
  /\ overdue' = [t \in Tool |-> \/ overdue[t]
                               \/ /\ pc[t] \in Watching
                                  /\ \E r \in WithId(records, rec[t]) : r.age >= StaleAfter]
  /\ UNCHANGED <<osVars, issued, tracked, faults, pc, child, rec, late, fate,
                 reaperVars, crashes>>

Call(t) == \/ Register(t) \/ RegisterFails(t) \/ Unregistered(t) \/ Poll(t)
           \/ Beat(t) \/ BeatRefused(t) \/ Abort(t) \/ Finish(t)

Service == \/ Sweep \/ Lookup \/ LookupFails \/ Kill \/ Reaped
           \/ SweepOver \/ Prune \/ Pause

Next ==
  \/ \E p \in Pid : Stranger(p) \/ Exit(p)
  \/ \E t \in Tool : (\E p \in Pid : Spawn(t, p)) \/ Call(t) \/ Deadline(t)
  \/ StartService \/ Service
  \/ Crash \/ Tick

Spec == Init /\ [][Next]_vars

(* Tools and service run, commands time out, time passes, and the host     *)
(* starts the service again and again.                                     *)
FairSpec == /\ Spec
            /\ \A t \in Tool : WF_vars(Call(t)) /\ WF_vars(Deadline(t))
            /\ WF_vars(Service) /\ WF_vars(StartService) /\ WF_vars(Tick)

-----------------------------------------------------------------------------
(* Every variable keeps its type.                                          *)
SupervisionTypeOK ==
  /\ proc \in [Pid -> Process]
  /\ records \subseteq Record /\ disk \subseteq Record
  /\ issued \in 0 .. MaxRecords
  /\ pc \in [Tool -> Holding \cup Watching \cup {"idle"}]
  /\ child \in [Tool -> Pid \cup {NoPid}] /\ rec \in [Tool -> 0 .. MaxRecords]
  /\ overdue \in [Tool -> BOOLEAN] /\ late \in [Tool -> BOOLEAN]
  /\ fate \in [Tool -> Ended]
  /\ rpc \in {"off", "sweep", "lookup", "kill", "lose", "terminate", "prune", "pause"}
  /\ todo \subseteq 1 .. MaxRecords
  /\ cycle \in 0 .. MaxCycles
  /\ tracked \subseteq Pid \X Nat
  /\ crashes \in 0 .. MaxCrashes /\ faults \in 0 .. MaxFaults

(* No process is left running without account: as long as a process whose  *)
(* registration was saved lives, the file has a running record of it,      *)
(* whoever heartbeats, finishes, reaps, prunes or dies meanwhile; unless a *)
(* lookup of the reaper failed to see it, then it is given up as lost      *)
(* (process_registry.py:185-194, subprocesses.py:226-232).                 *)
AliveIsOnRecord ==
  \A p \in Pid :
    proc[p].state = "alive" /\ <<p, proc[p].identity>> \in tracked =>
      \E r \in disk : /\ r.pid = p /\ r.identity = proc[p].identity
                      /\ r.status = "running"

(* A tool whose heartbeats were in time is never overruled: until it       *)
(* finishes its record, that is there and running, to end as it says.      *)
WatchedIsRunning ==
  \A t \in Tool :
    pc[t] \in Watching /\ ~overdue[t] => RunningRecord(rec[t]) # {}

(* Memory and file account for what runs and what is watched.              *)
SupervisionInv == SupervisionTypeOK /\ AliveIsOnRecord /\ WatchedIsRunning

(* A process whose tool heartbeats in time is not the reaper's to kill,    *)
(* whatever old records of its pid there are.                              *)
WatchedSurvivesStep ==
  rpc = "kill" /\ rpc' = "terminate" =>
    \A t \in Tool : pc[t] \in Holding \cap Watching /\ ~overdue[t] =>
      proc'[child[t]] = proc[child[t]]
WatchedSurvives == [][WatchedSurvivesStep]_vars

(* A record that ended on disk keeps its verdict until it is pruned: the   *)
(* reaper and a tool that comes late do not overrule each other.           *)
VerdictStandsStep ==
  \A r \in disk, s \in disk' :
    r.id = s.id /\ r.status \in Ended => s.status = r.status
VerdictStands == [][VerdictStandsStep]_vars

(* __call__ comes back: its process exits, times out or is terminated.     *)
CallReturns == \A t \in Tool : pc[t] # "idle" ~> pc[t] = "idle"

(* The record of what a dead launcher left running is ended, as long as    *)
(* the service is started again and again.                                 *)
OrphanRunning(id) == /\ RunningRecord(id) # {}
                     /\ \A t \in Tool : rec[t] # id
OrphansReaped ==
  \A id \in 1 .. MaxRecords : OrphanRunning(id) ~> RunningRecord(id) = {}
=============================================================================
