----------------------- MODULE ProcessSupervisionProofs ----------------------
(***************************************************************************)
(* The registry accounts for processes, whichever tools and reaper share   *)
(* it, however often saves fail and programs die, and however pids are     *)
(* given again.  A record is Gone once its process is, and Settled if it   *)
(* is gone or a lookup failed to see its process; only settled records     *)
(* ever end, which neither a reused pid nor a save that failed can undo.   *)
(***************************************************************************)
EXTENDS ProcessSupervision, OrderLemmas

IsOf(r, p) == r.pid = p /\ r.identity = proc[p].identity

Gone(r) == ~ (proc[r.pid].state = "alive" /\ IsOf(r, r.pid))

Settled(r) == Gone(r) \/ <<r.pid, r.identity>> \notin tracked

Ids(rs)    == {r.id : r \in rs}
OneEach(rs) == \A r, s \in rs : r.id = s.id => r = s

\* What AliveIsOnRecord says of the file, for memory or file
OnRecord(rs) ==
  \A p \in Pid :
    proc[p].state = "alive" /\ <<p, proc[p].identity>> \in tracked =>
      \E r \in rs : IsOf(r, p) /\ r.status = "running"

(* Identities grow with each process that gets a pid.                      *)
OsInv ==
  /\ \A p \in Pid : proc[p].identity <= MaxProcesses
  /\ \A e \in tracked : e[2] <= proc[e[1]].identity
  /\ \A r \in records \cup disk : /\ r.id <= issued
                                  /\ r.identity <= proc[r.pid].identity
  /\ \A t \in Tool : pc[t] \in Holding => child[t] \in Pid /\ proc[child[t]].state # "free"
  /\ \A t, u \in Tool : pc[t] \in Holding /\ pc[u] \in Holding /\ child[t] = child[u] => t = u

(* Memory and file: an id names one process, and what ended in the file    *)
(* did not go on in memory.                                                *)
RegistryInv ==
  /\ \A r, s \in records \cup disk :
       r.id = s.id <=> r.pid = s.pid /\ r.identity = s.identity
  /\ OneEach(records) /\ OneEach(disk)
  /\ \A r \in disk, s \in records :
       r.id = s.id /\ r.status \in Ended => s.status = r.status
  /\ OnRecord(records) /\ OnRecord(disk)

(* A tool knows its record; until it finishes it that is its child's, and  *)
(* while heartbeats are in time no sweep has listed it.                    *)
Knows(t) ==
  /\ rec[t] <= issued
  /\ pc[t] \in Watching => rec[t] > 0
  /\ \A u \in Tool : rec[t] = rec[u] /\ rec[t] > 0 => t = u
  /\ pc[t] \in {"idle", "spawned"} => rec[t] = 0
  /\ pc[t] = "spawned" => \A r \in records \cup disk : ~ IsOf(r, child[t])
  /\ \A r \in WithId(records, rec[t]) :
       IF pc[t] \in Holding THEN IsOf(r, child[t]) ELSE Gone(r)

InTime(t) ==
  pc[t] \in Watching /\ ~ overdue[t] =>
    /\ rec[t] \notin todo
    /\ \E r \in RunningRecord(rec[t]) : r.age <= StaleAfter

ToolInv == \A t \in Tool : Knows(t) /\ InTime(t)

(* The record the service treats is there, and when it is ended, settled.  *)
ReaperInv ==
  /\ todo \subseteq Ids(records)
  /\ rpc \in {"kill", "lose", "terminate"} => todo # {}
  /\ rpc \notin {"lookup", "kill", "lose", "terminate"} => todo = {}
  /\ todo # {} => \A r \in WithId(records, Min(todo)) :
       /\ rpc \in {"lose", "terminate"} => Settled(r)
       /\ rpc = "kill" /\ SlowReuse => IsOf(r, r.pid)

(* The inductive invariant.                                                *)
SupervisionIInv == SupervisionTypeOK /\ OsInv /\ RegistryInv /\ ToolInv /\ ReaperInv

-----------------------------------------------------------------------------
(* What the types say of single values.                                    *)
LEMMA RecordFields ==
  ASSUME SupervisionTypeOK, NEW r \in records \cup disk
  PROVE  /\ r \in Record /\ r.id \in 1 .. MaxRecords /\ r.pid \in Pid /\ r.identity \in Nat
         /\ r.age \in Age /\ r.status \in {"running"} \cup Ended
         /\ proc[r.pid].identity \in Nat
<1>1. r \in Record
  BY DEF SupervisionTypeOK
<1>2. QED BY <1>1 DEF Record, Process, SupervisionTypeOK

LEMMA NewIdentity ==
  ASSUME SupervisionTypeOK, OsInv, NEW q \in Pid
  PROVE  /\ Max(Identities) \in Nat
         /\ \A p \in Pid : proc[p].identity \in Nat /\ proc[p].identity <= Max(Identities)
<1>1. \A p \in Pid : proc[p].identity \in Nat /\ proc[p].identity <= MaxProcesses
  BY DEF SupervisionTypeOK, Process, OsInv
<1>2. Identities \in SUBSET Nat /\ Identities # {} /\ \A k \in Identities : k <= MaxProcesses
  BY <1>1 DEF Identities
<1>3. MaxProcesses \in Nat
  BY SupervisionAssumption
<1>4. Max(Identities) \in Identities /\ \A k \in Identities : k <= Max(Identities)
  BY ONLY <1>2, <1>3, GreatestIsMax
<1>5. QED BY <1>1, <1>2, <1>4 DEF Identities

LEMMA TargetIsListed ==
  ASSUME SupervisionTypeOK, ReaperInv, RegistryInv, todo # {}
  PROVE  /\ Min(todo) \in todo /\ Target \in records /\ Target.id = Min(todo)
         /\ \A r \in WithId(records, Min(todo)) : r = Target
<1>1. todo \in SUBSET Nat
  BY DEF SupervisionTypeOK
<1>2. Min(todo) \in todo
  BY <1>1, LeastIsMin
<1>3. \E r \in records : r.id = Min(todo)
  BY <1>2 DEF ReaperInv, Ids
<1>4. QED BY <1>2, <1>3 DEF Target, WithId, RegistryInv, OneEach

(* What happens to processes: they exit, or their pid is given again.      *)
ProcStep ==
  \A p \in Pid :
    \/ /\ proc'[p].identity = proc[p].identity
       /\ proc'[p].state = "alive" => proc[p].state = "alive"
    \/ proc'[p].identity > proc[p].identity

ProcType == /\ proc' \in [Pid -> Process]
            /\ \A p \in Pid : proc'[p].identity <= MaxProcesses

LEMMA GoneStays ==
  ASSUME SupervisionTypeOK, OsInv, ProcStep, ProcType, NEW r \in records \cup disk, Gone(r)
  PROVE  Gone(r)'
<1>1. /\ r.pid \in Pid /\ r.identity \in Nat /\ r.identity <= proc[r.pid].identity
      /\ proc[r.pid].identity \in Nat
  BY RecordFields DEF OsInv
<1>2. proc'[r.pid].identity \in Nat
  BY <1>1 DEF ProcType, Process
<1>3. QED BY <1>1, <1>2 DEF ProcStep, Gone, IsOf

LEMMA SettledStays ==
  ASSUME SupervisionTypeOK, OsInv, ProcStep, ProcType, tracked' \subseteq tracked,
         NEW r \in records \cup disk, Settled(r)
  PROVE  Settled(r)'
  BY GoneStays DEF Settled

LEMMA OnRecordStays ==
  ASSUME SupervisionTypeOK, OsInv, ProcStep, ProcType, tracked' \subseteq tracked,
         NEW rs, OnRecord(rs)
  PROVE  \A p \in Pid :
           proc'[p].state = "alive" /\ <<p, proc'[p].identity>> \in tracked' =>
             \E r \in rs : /\ r.pid = p /\ r.identity = proc'[p].identity
                           /\ r.status = "running"
<1> SUFFICES ASSUME NEW p \in Pid, proc'[p].state = "alive",
                    <<p, proc'[p].identity>> \in tracked'
             PROVE  \E r \in rs : /\ r.pid = p /\ r.identity = proc'[p].identity
                                  /\ r.status = "running"
  OBVIOUS
<1>1. proc'[p].identity \in Nat /\ proc[p].identity \in Nat
  BY DEF ProcType, Process, SupervisionTypeOK
<1>2. proc'[p].identity <= proc[p].identity
  BY DEF OsInv
<1>3. proc'[p].identity = proc[p].identity /\ proc[p].state = "alive"
  BY <1>1, <1>2 DEF ProcStep
<1>4. QED BY <1>3 DEF OnRecord, IsOf

(* The registry is as sound after any such step that leaves it alone.      *)
LEMMA ProcessesMove ==
  ASSUME SupervisionTypeOK, OsInv, RegistryInv, ProcStep, ProcType,
         UNCHANGED <<records, disk, issued>>, tracked' \subseteq tracked
  PROVE  /\ RegistryInv'
         /\ \A e \in tracked' : e[2] <= proc'[e[1]].identity
         /\ \A r \in records' \cup disk' : /\ r.id <= issued'
                                           /\ r.identity <= proc'[r.pid].identity
         /\ \A r \in records \cup disk : Gone(r) => Gone(r)'
<1>1. \A r \in records \cup disk : Gone(r) => Gone(r)'
  BY GoneStays
<1>2. OnRecord(records)' /\ OnRecord(disk)'
  BY OnRecordStays DEF RegistryInv, OnRecord, IsOf
<1>3. RegistryInv'
  BY <1>2 DEF RegistryInv, OneEach
<1>4. \A p \in Pid : proc'[p].identity >= proc[p].identity
                     /\ proc[p].identity \in Nat /\ proc'[p].identity \in Nat
  BY DEF ProcStep, ProcType, Process, SupervisionTypeOK
<1>5. ASSUME NEW e \in tracked PROVE e[2] <= proc'[e[1]].identity
  <2>1. e[1] \in Pid /\ e[2] \in Nat /\ e[2] <= proc[e[1]].identity
    BY DEF SupervisionTypeOK, OsInv
  <2>2. QED BY <1>4, <2>1
<1>6. ASSUME NEW r \in records \cup disk PROVE r.identity <= proc'[r.pid].identity
  <2>1. r.pid \in Pid /\ r.identity \in Nat /\ r.identity <= proc[r.pid].identity
    BY RecordFields DEF OsInv
  <2>2. QED BY <1>4, <2>1
<1>7. QED BY <1>1, <1>3, <1>5, <1>6 DEF OsInv

(* A tool that does nothing while processes move.                          *)
LEMMA OthersKnow ==
  ASSUME SupervisionTypeOK, OsInv, ToolInv, ProcStep, ProcType, NEW u \in Tool,
         UNCHANGED <<records, disk, issued, todo>>,
         pc'[u] = pc[u], child'[u] = child[u], rec'[u] = rec[u], overdue'[u] = overdue[u],
         pc[u] \in Holding => proc'[child[u]].identity = proc[child[u]].identity,
         \A v \in Tool : rec'[v] \in {rec[v], 0}
  PROVE  Knows(u)' /\ InTime(u)'
<1> USE DEF ToolInv
<1>1. InTime(u)'
  BY DEF InTime, RunningRecord, WithId
<1>2. \A v \in Tool : rec'[u] = rec'[v] /\ rec'[u] > 0 => u = v
  BY DEF Knows
<1>3. /\ pc'[u] \in {"idle", "spawned"} => rec'[u] = 0
      /\ pc'[u] = "spawned" => \A r \in records' \cup disk' : ~ IsOf(r, child[u])'
  BY DEF Knows, IsOf, Holding
<1>4. \A r \in WithId(records, rec[u])' :
        IF pc'[u] \in Holding THEN IsOf(r, child[u])' ELSE Gone(r)'
  <2>1. ASSUME NEW r \in WithId(records, rec[u])
        PROVE  IF pc'[u] \in Holding THEN IsOf(r, child[u])' ELSE Gone(r)'
    <3>1. r \in records /\ IF pc[u] \in Holding THEN IsOf(r, child[u]) ELSE Gone(r)
      BY DEF Knows, WithId
    <3>2. QED BY <3>1, GoneStays DEF IsOf
  <2>2. QED BY <2>1 DEF WithId
<1>5. QED BY <1>1, <1>2, <1>3, <1>4 DEF Knows

(* The service, too, while processes move and it treats nothing new.       *)
LEMMA ServiceKeeps ==
  ASSUME SupervisionTypeOK, OsInv, ReaperInv, ProcStep, ProcType,
         UNCHANGED <<records, disk, todo, rpc>>, tracked' \subseteq tracked,
         rpc = "kill" /\ SlowReuse =>
           \A r \in WithId(records, Min(todo)) : proc'[r.pid].identity = proc[r.pid].identity
  PROVE  ReaperInv'
<1>1. \A r \in WithId(records, Min(todo)) : r \in records
  BY DEF WithId
<1>2. todo # {} =>
        \A r \in WithId(records, Min(todo)) :
          /\ rpc \in {"lose", "terminate"} => Settled(r)'
          /\ rpc = "kill" /\ SlowReuse => IsOf(r, r.pid)'
  BY <1>1, SettledStays DEF ReaperInv, IsOf
<1>3. QED BY <1>2 DEF ReaperInv, WithId, Ids

-----------------------------------------------------------------------------
(* Processes come and go.                                                  *)

LEMMA StartedProcess ==
  ASSUME SupervisionTypeOK, OsInv, NEW p \in Pid, CanHave(p), proc' = Started(p)
  PROVE  /\ ProcType /\ ProcStep
         /\ \A q \in Pid \ {p} : proc'[q] = proc[q]
         /\ proc[p].state = "free" /\ proc'[p].state = "alive"
         /\ proc'[p].identity > proc[p].identity
<1>1. /\ Max(Identities) \in Nat
      /\ \A q \in Pid : proc[q].identity \in Nat /\ proc[q].identity <= Max(Identities)
  BY NewIdentity
<1>2. Max(Identities) < MaxProcesses /\ proc[p].state = "free"
  BY DEF CanHave
<1> DEFINE new == Max(Identities) + 1
<1>3. new \in Nat /\ new <= MaxProcesses /\ \A q \in Pid : new > proc[q].identity
  BY <1>1, <1>2, SupervisionAssumption
<1>4. proc' = [proc EXCEPT ![p] = [identity |-> new, state |-> "alive"]]
  BY DEF Started
<1> HIDE DEF new
<1>5. proc' \in [Pid -> Process]
  BY <1>3, <1>4 DEF SupervisionTypeOK, Process
<1>6. /\ \A q \in Pid \ {p} : proc'[q] = proc[q]
      /\ proc'[p] = [identity |-> new, state |-> "alive"]
  BY <1>4 DEF SupervisionTypeOK
<1>7. \A q \in Pid : proc'[q].identity <= MaxProcesses
  BY <1>3, <1>6 DEF OsInv
<1>8. ProcStep
  BY <1>3, <1>6 DEF ProcStep
<1>9. QED BY <1>2, <1>3, <1>5, <1>6, <1>7, <1>8 DEF ProcType

(* A change of one process's state that is no resurrection.                *)
LEMMA StateChange ==
  ASSUME SupervisionTypeOK, OsInv, NEW p \in Pid, NEW s \in {"free", "dead", "done"},
         proc' = [proc EXCEPT ![p].state = s]
  PROVE  /\ ProcType /\ ProcStep
         /\ \A q \in Pid \ {p} : proc'[q] = proc[q]
         /\ \A q \in Pid : proc'[q].identity = proc[q].identity
         /\ proc'[p].state = s
<1>1. /\ proc' \in [Pid -> Process]
      /\ \A q \in Pid \ {p} : proc'[q] = proc[q]
      /\ proc'[p].identity = proc[p].identity /\ proc'[p].state = s
  BY DEF SupervisionTypeOK, Process
<1>2. QED BY <1>1 DEF ProcType, ProcStep, OsInv

LEMMA StrangerKeeps ==
  ASSUME SupervisionIInv, NEW p \in Pid, Stranger(p) PROVE SupervisionIInv'
<1> USE DEF SupervisionIInv
<1>1. /\ CanHave(p) /\ proc' = Started(p)
      /\ UNCHANGED <<records, disk, issued, tracked, faults>>
      /\ UNCHANGED <<pc, child, rec, overdue, late, fate>>
      /\ UNCHANGED <<rpc, todo, cycle, crashes>>
  BY DEF Stranger, regVars, toolVars, reaperVars
<1>2. /\ ProcType /\ ProcStep /\ proc[p].state = "free"
      /\ \A q \in Pid \ {p} : proc'[q] = proc[q]
  BY <1>1, StartedProcess
<1>3. SupervisionTypeOK'
  BY <1>1, <1>2 DEF SupervisionTypeOK, ProcType
<1>4. \A t \in Tool : pc[t] \in Holding => child[t] \in Pid /\ child[t] # p
  BY <1>2 DEF OsInv
<1>5. OsInv' /\ RegistryInv'
  <2>1. \A t \in Tool : pc[t] \in Holding => proc'[child[t]].state # "free"
    BY <1>2, <1>4 DEF OsInv
  <2>2. QED BY <1>1, <1>2, <1>4, <2>1, ProcessesMove DEF OsInv, ProcType
<1>6. ToolInv'
  BY <1>1, <1>2, <1>4, OthersKnow DEF ToolInv
<1>7. ReaperInv'
  <2>1. ASSUME rpc = "kill", SlowReuse, NEW r \in WithId(records, Min(todo))
        PROVE  r.pid \in Pid \ {p}
    BY <1>1, <2>1, RecordFields DEF CanHave, WithId
  <2>2. QED BY <1>1, <1>2, <2>1, ServiceKeeps
<1>8. QED BY <1>3, <1>5, <1>6, <1>7

LEMMA ExitKeeps ==
  ASSUME SupervisionIInv, NEW p \in Pid, Exit(p) PROVE SupervisionIInv'
<1> USE DEF SupervisionIInv
<1>1. PICK s \in {"done", "dead"} :
        proc' = [proc EXCEPT ![p].state = IF IsChild(p) THEN s ELSE "free"]
  BY DEF Exit
<1>2. /\ UNCHANGED <<records, disk, issued, tracked, faults>>
      /\ UNCHANGED <<pc, child, rec, overdue, late, fate>>
      /\ UNCHANGED <<rpc, todo, cycle, crashes>>
  BY DEF Exit, regVars, toolVars, reaperVars
<1>3. /\ ProcType /\ ProcStep
      /\ \A q \in Pid \ {p} : proc'[q] = proc[q]
      /\ \A q \in Pid : proc'[q].identity = proc[q].identity
      /\ proc'[p].state = IF IsChild(p) THEN s ELSE "free"
  BY <1>1, StateChange
<1>4. SupervisionTypeOK'
  BY <1>2, <1>3 DEF SupervisionTypeOK, ProcType
<1>5. \A t \in Tool : pc[t] \in Holding =>
        child[t] \in Pid /\ proc'[child[t]].state # "free"
  BY <1>3 DEF OsInv, IsChild
<1>6. OsInv' /\ RegistryInv'
  BY <1>2, <1>3, <1>5, ProcessesMove DEF OsInv, ProcType
<1>7. ToolInv'
  BY <1>2, <1>3, <1>5, OthersKnow DEF ToolInv
<1>8. ReaperInv'
  <2>1. \A r \in WithId(records, Min(todo)) : r.pid \in Pid
    BY RecordFields DEF WithId
  <2>2. QED BY <1>2, <1>3, <2>1, ServiceKeeps
<1>9. QED BY <1>4, <1>6, <1>7, <1>8

(* A step of one tool that leaves the registry alone: what remains to show *)
(* is what it says of the tool itself.                                     *)
OthersRest(t) ==
  /\ \A u \in Tool \ {t} : /\ pc'[u] = pc[u] /\ child'[u] = child[u] /\ rec'[u] = rec[u]
                           /\ overdue'[u] = overdue[u]
                           /\ pc[u] \in Holding => proc'[child[u]] = proc[child[u]]
  /\ rec'[t] \in {rec[t], 0}

ToolTypes ==
  /\ pc' \in [Tool -> Holding \cup Watching \cup {"idle"}]
  /\ child' \in [Tool -> Pid \cup {NoPid}] /\ rec' \in [Tool -> 0 .. MaxRecords]
  /\ overdue' \in [Tool -> BOOLEAN] /\ late' \in [Tool -> BOOLEAN]
  /\ fate' \in [Tool -> Ended]

HoldsChild(t) ==
  pc'[t] \in Holding => /\ child'[t] \in Pid /\ proc'[child'[t]].state # "free"
                        /\ \A u \in Tool \ {t} : pc[u] \in Holding => child[u] # child'[t]

LEMMA ToolStep ==
  ASSUME SupervisionIInv, NEW t \in Tool, ProcStep, ProcType,
         UNCHANGED <<records, disk, issued, tracked, faults>>,
         UNCHANGED <<rpc, todo, cycle, crashes>>,
         \A r \in records : rpc = "kill" /\ SlowReuse /\ r.id = Min(todo) =>
           proc'[r.pid].identity = proc[r.pid].identity,
         OthersRest(t), ToolTypes, HoldsChild(t), Knows(t)', InTime(t)'
  PROVE  SupervisionIInv'
<1> USE DEF SupervisionIInv
<1>1. SupervisionTypeOK'
  BY DEF SupervisionTypeOK, ToolTypes, ProcType
<1>2. OsInv' /\ RegistryInv'
  <2>1. \A u \in Tool : pc'[u] \in Holding =>
          child'[u] \in Pid /\ proc'[child'[u]].state # "free"
    BY DEF OsInv, OthersRest, HoldsChild
  <2>2. \A u, v \in Tool : pc'[u] \in Holding /\ pc'[v] \in Holding /\ child'[u] = child'[v]
                             => u = v
    BY DEF OsInv, OthersRest, HoldsChild
  <2>3. QED BY <2>1, <2>2, ProcessesMove DEF OsInv, ProcType
<1>3. ToolInv'
  <2>1. ASSUME NEW u \in Tool \ {t} PROVE Knows(u)' /\ InTime(u)'
    <3>1. \A v \in Tool : rec'[v] \in {rec[v], 0}
      BY DEF OthersRest
    <3>2. /\ pc'[u] = pc[u] /\ child'[u] = child[u] /\ rec'[u] = rec[u]
          /\ overdue'[u] = overdue[u]
          /\ pc[u] \in Holding => proc'[child[u]].identity = proc[child[u]].identity
      BY DEF OthersRest
    <3>3. QED BY <3>1, <3>2, OthersKnow
  <2>2. QED BY <2>1 DEF ToolInv
<1>4. ReaperInv'
  BY ServiceKeeps DEF WithId
<1>5. QED BY <1>1, <1>2, <1>3, <1>4

LEMMA NoProcessMoves == ASSUME SupervisionTypeOK, OsInv, proc' = proc
                        PROVE  ProcStep /\ ProcType
  BY DEF ProcStep, ProcType, OsInv, SupervisionTypeOK

(* Forgetting at the end of a call.                                        *)
LEMMA ReturnForgets ==
  ASSUME SupervisionTypeOK, NEW t \in Tool, Return(t)
  PROVE  /\ ToolTypes
         /\ \A u \in Tool \ {t} : /\ pc'[u] = pc[u] /\ child'[u] = child[u]
                                  /\ rec'[u] = rec[u] /\ overdue'[u] = overdue[u]
         /\ pc'[t] = "idle" /\ rec'[t] = 0
<1>1. 0 \in 0 .. MaxRecords /\ "failed" \in Ended
  BY SupervisionAssumption DEF Ended
<1>2. QED BY <1>1 DEF Return, SupervisionTypeOK, ToolTypes

LEMMA ForgottenKnows ==
  ASSUME SupervisionTypeOK, OsInv, NEW t \in Tool, pc'[t] = "idle", rec'[t] = 0,
         issued' \in Nat, \A r \in records' : r.id > 0
  PROVE  Knows(t)' /\ InTime(t)'
  BY DEF Knows, InTime, WithId, Watching, Holding

LEMMA PositiveIds == ASSUME SupervisionTypeOK PROVE \A r \in records : r.id > 0
  BY RecordFields

LEMMA SpawnKeeps ==
  ASSUME SupervisionIInv, NEW t \in Tool, NEW p \in Pid, Spawn(t, p) PROVE SupervisionIInv'
<1> USE DEF SupervisionIInv
<1>1. /\ CanHave(p) /\ proc' = Started(p) /\ pc[t] = "idle"
      /\ pc' = [pc EXCEPT ![t] = "spawned"] /\ child' = [child EXCEPT ![t] = p]
      /\ UNCHANGED <<records, disk, issued, tracked, faults>>
      /\ UNCHANGED <<rec, overdue, late, fate>>
      /\ UNCHANGED <<rpc, todo, cycle, crashes>>
  BY DEF Spawn, regVars, reaperVars
<1>2. /\ ProcType /\ ProcStep /\ proc[p].state = "free" /\ proc'[p].state = "alive"
      /\ proc'[p].identity > proc[p].identity
      /\ \A q \in Pid \ {p} : proc'[q] = proc[q]
  BY <1>1, StartedProcess
<1>3. \A u \in Tool : pc[u] \in Holding => child[u] \in Pid \ {p}
  BY <1>2 DEF OsInv
<1>4. /\ pc' \in [Tool -> Holding \cup Watching \cup {"idle"}]
      /\ child' \in [Tool -> Pid \cup {NoPid}]
      /\ pc'[t] = "spawned" /\ child'[t] = p
      /\ \A u \in Tool \ {t} : pc'[u] = pc[u] /\ child'[u] = child[u]
  BY <1>1 DEF SupervisionTypeOK, Holding
<1>5. ToolTypes
  BY <1>1, <1>4 DEF ToolTypes, SupervisionTypeOK
<1>6. OthersRest(t) /\ HoldsChild(t)
  BY <1>1, <1>2, <1>3, <1>4 DEF OthersRest, HoldsChild
<1>7. rec[t] = 0
  BY <1>1 DEF ToolInv, Knows
<1>8. Knows(t)' /\ InTime(t)'
  <2>1. \A r \in records \cup disk : ~ (r.pid = p /\ r.identity = proc'[p].identity)
    <3>1. \A r \in records \cup disk : /\ r.identity <= proc[r.pid].identity
                                       /\ r.identity \in Nat /\ proc[r.pid].identity \in Nat
      BY RecordFields DEF OsInv
    <3>2. proc'[p].identity \in Nat
      BY <1>2 DEF ProcType, Process
    <3>3. QED BY <1>2, <3>1, <3>2
  <2>2. InTime(t)'
    BY <1>4 DEF InTime, Watching
  <2>3. WithId(records, rec[t])' = {}
    BY <1>1, <1>7, PositiveIds DEF WithId
  <2>4. QED BY <1>1, <1>4, <1>7, <2>1, <2>2, <2>3 DEF Knows, IsOf, ToolInv, Watching
<1>9. \A r \in records : rpc = "kill" /\ SlowReuse /\ r.id = Min(todo) =>
        proc'[r.pid].identity = proc[r.pid].identity
  <2>1. ASSUME rpc = "kill", SlowReuse, NEW r \in records, r.id = Min(todo)
        PROVE  r.pid \in Pid \ {p}
    BY <1>1, <2>1, RecordFields DEF CanHave, WithId
  <2>2. QED BY <1>2, <2>1
<1>10. QED BY <1>1, <1>2, <1>5, <1>6, <1>8, <1>9, ToolStep

LEMMA FreedChild ==
  ASSUME SupervisionTypeOK, OsInv, NEW t \in Tool, pc[t] \in Holding, proc' = Freed(child[t])
  PROVE  /\ ProcStep /\ ProcType
         /\ \A p \in Pid : proc'[p].identity = proc[p].identity
         /\ \A u \in Tool \ {t} : pc[u] \in Holding => proc'[child[u]] = proc[child[u]]
         /\ \A r \in records : IsOf(r, child[t]) => Gone(r)'
         /\ \A r \in records : proc'[r.pid].identity = proc[r.pid].identity
<1>1. child[t] \in Pid
  BY DEF OsInv
<1>2. proc' = [proc EXCEPT ![child[t]].state = "free"]
  BY DEF Freed
<1>3. /\ ProcStep /\ ProcType /\ proc'[child[t]].state = "free"
      /\ \A q \in Pid \ {child[t]} : proc'[q] = proc[q]
      /\ \A q \in Pid : proc'[q].identity = proc[q].identity
  BY <1>1, <1>2, StateChange
<1>4. \A u \in Tool \ {t} : pc[u] \in Holding => proc'[child[u]] = proc[child[u]]
  BY <1>3 DEF OsInv
<1>5. \A r \in records : r.pid \in Pid
  BY RecordFields
<1>6. QED BY <1>3, <1>4, <1>5 DEF Gone, IsOf

LEMMA UnregisteredKeeps ==
  ASSUME SupervisionIInv, NEW t \in Tool, Unregistered(t) PROVE SupervisionIInv'
<1> USE DEF SupervisionIInv
<1>1. /\ pc[t] = "unregistered" /\ pc[t] \in Holding /\ proc' = Freed(child[t]) /\ Return(t)
      /\ UNCHANGED <<records, disk, issued, tracked, faults>>
      /\ UNCHANGED <<rpc, todo, cycle, crashes>>
  BY DEF Unregistered, Holding, regVars, reaperVars
<1>2. /\ ToolTypes /\ pc'[t] = "idle" /\ rec'[t] = 0
      /\ \A u \in Tool \ {t} : /\ pc'[u] = pc[u] /\ child'[u] = child[u]
                               /\ rec'[u] = rec[u] /\ overdue'[u] = overdue[u]
  BY <1>1, ReturnForgets
<1>3. /\ ProcStep /\ ProcType
      /\ \A u \in Tool \ {t} : pc[u] \in Holding => proc'[child[u]] = proc[child[u]]
      /\ \A r \in records : proc'[r.pid].identity = proc[r.pid].identity
  BY <1>1, FreedChild
<1>4. OthersRest(t) /\ HoldsChild(t)
  BY <1>2, <1>3 DEF OthersRest, HoldsChild, Holding
<1>5. issued' \in Nat /\ \A r \in records' : r.id > 0
  BY <1>1, PositiveIds DEF SupervisionTypeOK
<1>6. Knows(t)' /\ InTime(t)'
  BY <1>2, <1>5, ForgottenKnows
<1>7. QED BY <1>1, <1>2, <1>3, <1>4, <1>6, ToolStep

(* A step of a tool that keeps its child, its record and its place among   *)
(* those that hold a child, or those that finish.                          *)
LEMMA QuietStep ==
  ASSUME SupervisionIInv, NEW t \in Tool,
         UNCHANGED <<proc, records, disk, issued, tracked, faults>>,
         UNCHANGED <<rpc, todo, cycle, crashes, child, rec, overdue, fate>>,
         late' \in [Tool -> BOOLEAN],
         NEW place \in Holding \ {"spawned"}, pc' = [pc EXCEPT ![t] = place],
         pc[t] \in Holding,
         place \in Watching => pc[t] \in Watching
  PROVE  SupervisionIInv'
<1> USE DEF SupervisionIInv
<1>1. ProcStep /\ ProcType
  BY NoProcessMoves
<1>2. ToolTypes
  BY DEF ToolTypes, SupervisionTypeOK
<1>3. pc'[t] = place /\ \A u \in Tool \ {t} : pc'[u] = pc[u]
  BY DEF SupervisionTypeOK
<1>4. OthersRest(t) /\ HoldsChild(t)
  BY <1>3 DEF OthersRest, HoldsChild, OsInv
<1>5. Knows(t)' /\ InTime(t)'
  BY <1>3 DEF ToolInv, Knows, InTime, IsOf, Gone, WithId, RunningRecord, Holding, Watching
<1>6. QED BY <1>1, <1>2, <1>4, <1>5, ToolStep

LEMMA QuietCalls ==
  ASSUME SupervisionIInv, NEW t \in Tool, RegisterFails(t) \/ BeatRefused(t) \/ Deadline(t)
  PROVE  SupervisionIInv'
<1> USE DEF regVars, osVars, reaperVars
<1>1. CASE RegisterFails(t)
  BY <1>1, QuietStep DEF RegisterFails, Holding, Watching, SupervisionIInv, SupervisionTypeOK
<1>2. CASE BeatRefused(t)
  BY <1>2, QuietStep DEF BeatRefused, Holding, Watching, SupervisionIInv, SupervisionTypeOK
<1>3. CASE Deadline(t)
  <2>1. pc' = [pc EXCEPT ![t] = pc[t]]
    BY <1>3 DEF Deadline, SupervisionIInv, SupervisionTypeOK
  <2>2. late' \in [Tool -> BOOLEAN]
    BY <1>3 DEF Deadline, SupervisionIInv, SupervisionTypeOK
  <2>3. pc[t] \in {"poll", "beat"}
    BY <1>3 DEF Deadline
  <2>4. pc[t] \in Holding \ {"spawned"} /\ pc[t] \in Watching
    BY <2>3 DEF Holding, Watching
  <2>5. /\ UNCHANGED <<proc, records, disk, issued, tracked, faults>>
        /\ UNCHANGED <<rpc, todo, cycle, crashes, child, rec, overdue, fate>>
    BY <1>3 DEF Deadline
  <2>6. QED BY <2>1, <2>2, <2>4, <2>5, QuietStep
<1>4. QED BY <1>1, <1>2, <1>3

(* The child was waited for: its record is gone.                           *)
LEMMA WaitedFor ==
  ASSUME SupervisionIInv, NEW t \in Tool, pc[t] \in Holding \cap Watching,
         proc' = Freed(child[t]), pc' = [pc EXCEPT ![t] = "finish"],
         fate' \in [Tool -> Ended],
         UNCHANGED <<records, disk, issued, tracked, faults>>,
         UNCHANGED <<rpc, todo, cycle, crashes, child, rec, overdue, late>>
  PROVE  SupervisionIInv'
<1> USE DEF SupervisionIInv
<1>1. /\ ProcStep /\ ProcType
      /\ \A u \in Tool \ {t} : pc[u] \in Holding => proc'[child[u]] = proc[child[u]]
      /\ \A r \in records : IsOf(r, child[t]) => Gone(r)'
      /\ \A r \in records : proc'[r.pid].identity = proc[r.pid].identity
  BY FreedChild
<1>2. pc'[t] = "finish" /\ \A u \in Tool \ {t} : pc'[u] = pc[u]
  BY DEF SupervisionTypeOK
<1>3. ToolTypes
  <2>1. pc' \in [Tool -> Holding \cup Watching \cup {"idle"}]
    BY DEF SupervisionTypeOK, Watching
  <2>2. QED BY <2>1 DEF ToolTypes, SupervisionTypeOK
<1>4. OthersRest(t) /\ HoldsChild(t)
  BY <1>1, <1>2 DEF OthersRest, HoldsChild, Holding
<1>5. Knows(t)'
  <2>1. \A r \in WithId(records, rec[t])' : Gone(r)'
    BY <1>1 DEF ToolInv, Knows, WithId
  <2>2. rec[t] <= issued /\ rec[t] > 0 /\ \A u \in Tool : rec[t] = rec[u] => t = u
    BY DEF ToolInv, Knows
  <2>3. QED BY <1>2, <2>1, <2>2 DEF Knows, Holding
<1>6. InTime(t)'
  BY <1>2 DEF ToolInv, InTime, WithId, RunningRecord
<1>7. QED BY <1>1, <1>3, <1>4, <1>5, <1>6, ToolStep

LEMMA PollKeeps ==
  ASSUME SupervisionIInv, NEW t \in Tool, Poll(t) PROVE SupervisionIInv'
<1>1. /\ pc[t] = "poll" /\ pc[t] \in Holding \cap Watching
      /\ UNCHANGED <<records, disk, issued, tracked, faults>>
      /\ UNCHANGED <<rpc, todo, cycle, crashes, child, rec, overdue, late>>
  BY DEF Poll, Holding, Watching, regVars, reaperVars
<1>2. CASE proc[child[t]].state = "alive" /\ ~ late[t]
  <2>1. pc' = [pc EXCEPT ![t] = "beat"] /\ UNCHANGED <<proc, fate>>
    BY <1>2 DEF Poll
  <2>2. "beat" \in Holding \ {"spawned"}
    BY DEF Holding
  <2>3. late' \in [Tool -> BOOLEAN]
    BY <1>1 DEF SupervisionIInv, SupervisionTypeOK
  <2>4. QED BY <1>1, <2>1, <2>2, <2>3, QuietStep
<1>3. CASE ~ (proc[child[t]].state = "alive" /\ ~ late[t])
  <2>1. pc' = [pc EXCEPT ![t] = "finish"] /\ proc' = Freed(child[t])
    BY <1>3 DEF Poll
  <2>2. PICK end : fate' = [fate EXCEPT ![t] = end] /\ end \in Ended
    <3>1. fate' = [fate EXCEPT ![t] = CASE proc[child[t]].state = "done" -> "completed"
                                        [] proc[child[t]].state = "dead" -> "failed"
                                        [] OTHER -> "timed_out"]
      BY <1>3 DEF Poll
    <3>2. (CASE proc[child[t]].state = "done" -> "completed"
             [] proc[child[t]].state = "dead" -> "failed"
             [] OTHER -> "timed_out") \in Ended
      BY DEF Ended
    <3>3. QED BY <3>1, <3>2
  <2>3. fate' \in [Tool -> Ended]
    BY <2>2 DEF SupervisionIInv, SupervisionTypeOK
  <2>4. QED BY <1>1, <2>1, <2>3, WaitedFor
<1>4. QED BY <1>2, <1>3

LEMMA AbortKeeps ==
  ASSUME SupervisionIInv, NEW t \in Tool, Abort(t) PROVE SupervisionIInv'
<1>1. /\ pc[t] \in Holding \cap Watching
      /\ proc' = Freed(child[t]) /\ pc' = [pc EXCEPT ![t] = "finish"]
      /\ UNCHANGED <<records, disk, issued, tracked, faults>>
      /\ UNCHANGED <<rpc, todo, cycle, crashes, child, rec, overdue, late>>
  BY DEF Abort, Holding, Watching, regVars, reaperVars
<1>2. fate' \in [Tool -> Ended]
  BY DEF Abort, Ended, SupervisionIInv, SupervisionTypeOK
<1>3. QED BY <1>1, <1>2, WaitedFor

-----------------------------------------------------------------------------
(* The service.                                                            *)

(* A step of the service that touches neither registry nor processes.      *)
LEMMA ServiceStep ==
  ASSUME SupervisionIInv, UNCHANGED <<proc, records, disk, issued, faults>>,
         tracked' \subseteq tracked,
         UNCHANGED <<pc, child, rec, overdue, late, fate, crashes>>,
         rpc' \in {"off", "sweep", "lookup", "kill", "lose", "terminate", "prune", "pause"},
         cycle' \in 0 .. MaxCycles, todo' \subseteq todo \cup Stale, ReaperInv'
  PROVE  SupervisionIInv'
<1> USE DEF SupervisionIInv
<1>1. ProcStep /\ ProcType
  BY NoProcessMoves
<1>2. todo' \subseteq 1 .. MaxRecords
  BY RecordFields DEF Stale, SupervisionTypeOK
<1>3. SupervisionTypeOK'
  BY <1>2 DEF SupervisionTypeOK
<1>4. OsInv' /\ RegistryInv'
  BY <1>1, ProcessesMove DEF OsInv, ProcType
<1>5. ASSUME NEW t \in Tool PROVE Knows(t)' /\ InTime(t)'
  <2>1. Knows(t)'
    BY DEF ToolInv, Knows, IsOf, Gone, WithId
  <2>2. InTime(t)'
    <3>1. CASE pc[t] \in Watching /\ ~ overdue[t]
      <4>1. PICK r \in RunningRecord(rec[t]) : r.age <= StaleAfter
        BY <3>1 DEF ToolInv, InTime
      <4>2. r \in records /\ r.id = rec[t] /\ r.age \in Nat
        BY RecordFields DEF RunningRecord, WithId, Age
      <4>3. \A s \in records : s.id = rec[t] => s = r
        BY <4>2 DEF RegistryInv, OneEach
      <4>4. rec[t] \notin Stale
        BY <4>1, <4>2, <4>3, SupervisionAssumption DEF Stale
      <4>5. rec[t] \notin todo'
        BY <3>1, <4>4 DEF ToolInv, InTime
      <4>6. QED BY <4>1, <4>5 DEF InTime, RunningRecord, WithId
    <3>2. CASE ~ (pc[t] \in Watching /\ ~ overdue[t])
      BY <3>2 DEF InTime
    <3>3. QED BY <3>1, <3>2
  <2>3. QED BY <2>1, <2>2
<1>6. QED BY <1>3, <1>4, <1>5 DEF ToolInv

LEMMA StaleIsListed == Stale \subseteq Ids(records)
  BY DEF Stale, Ids

LEMMA ServiceMoves ==
  ASSUME SupervisionIInv, StartService \/ Sweep \/ SweepOver \/ Pause
  PROVE  SupervisionIInv'
<1> USE DEF osVars, regVars, toolVars, reaperVars
<1>1. cycle \in 0 .. MaxCycles /\ MaxCycles \in Nat \ {0} /\ todo \subseteq Ids(records)
  BY SupervisionAssumption DEF SupervisionIInv, SupervisionTypeOK, ReaperInv
<1>2. CASE StartService
  <2>1. ReaperInv'
    BY <1>2 DEF StartService, SupervisionIInv, ReaperInv, Ids
  <2>2. QED BY <1>1, <1>2, <2>1, ServiceStep DEF StartService
<1>3. CASE Sweep
  <2>1. ReaperInv'
    BY <1>3, StaleIsListed DEF Sweep, SupervisionIInv, ReaperInv, Ids
  <2>2. QED BY <1>1, <1>3, <2>1, ServiceStep DEF Sweep
<1>4. CASE SweepOver
  <2>1. ReaperInv'
    BY <1>4 DEF SweepOver, SupervisionIInv, ReaperInv, Ids
  <2>2. QED BY <1>1, <1>4, <2>1, ServiceStep DEF SweepOver
<1>5. CASE Pause
  <2>1. ReaperInv'
    BY <1>5 DEF Pause, SupervisionIInv, ReaperInv, Ids
  <2>2. cycle' \in 0 .. MaxCycles
    BY <1>1, <1>5 DEF Pause
  <2>3. QED BY <1>1, <1>5, <2>1, <2>2, ServiceStep DEF Pause
<1>6. QED BY <1>2, <1>3, <1>4, <1>5

LEMMA LookupKeeps == ASSUME SupervisionIInv, Lookup PROVE SupervisionIInv'
<1> USE DEF SupervisionIInv
<1>1. /\ rpc = "lookup" /\ todo # {} /\ rpc' = IF Matches(Target) THEN "kill" ELSE "lose"
      /\ UNCHANGED <<proc, records, disk, issued, tracked, faults>>
      /\ UNCHANGED <<pc, child, rec, overdue, late, fate, crashes>>
      /\ UNCHANGED <<todo, cycle>>
  BY DEF Lookup, osVars, regVars, toolVars
<1>2. \A r \in WithId(records, Min(todo)) : r = Target
  BY <1>1, TargetIsListed
<1>3. /\ Matches(Target) => IsOf(Target, Target.pid)
      /\ ~ Matches(Target) => Gone(Target)
  BY DEF Matches, IsOf, Gone
<1>4. ReaperInv'
  BY <1>1, <1>2, <1>3 DEF ReaperInv, Ids, WithId, IsOf, Gone, Settled
<1>5. QED BY <1>1, <1>4, ServiceStep DEF SupervisionTypeOK

(* The process that is not seen is given up.                               *)
LEMMA LookupFailsKeeps == ASSUME SupervisionIInv, LookupFails PROVE SupervisionIInv'
<1> USE DEF SupervisionIInv
<1>1. /\ rpc = "lookup" /\ todo # {} /\ rpc' = "lose"
      /\ tracked' = tracked \ {<<Target.pid, Target.identity>>}
      /\ UNCHANGED <<proc, records, disk, issued, faults>>
      /\ UNCHANGED <<pc, child, rec, overdue, late, fate, crashes>>
      /\ UNCHANGED <<todo, cycle>>
  BY DEF LookupFails, osVars, toolVars
<1>2. \A r \in WithId(records, Min(todo)) : r = Target
  BY <1>1, TargetIsListed
<1>3. \A r \in WithId(records, Min(todo)) : <<r.pid, r.identity>> \notin tracked'
  BY <1>1, <1>2
<1>4. ReaperInv'
  BY <1>1, <1>3 DEF ReaperInv, Ids, WithId, Settled
<1>5. QED BY <1>1, <1>4, ServiceStep DEF SupervisionTypeOK

(* Whoever has the target's pid dies, and so its record is gone.           *)
LEMMA KillKeeps == ASSUME SupervisionIInv, Kill PROVE SupervisionIInv'
<1> USE DEF SupervisionIInv
<1>1. /\ rpc = "kill" /\ rpc' = "terminate" /\ proc' = Killed(Target.pid) /\ todo # {}
      /\ UNCHANGED <<records, disk, issued, tracked, faults>>
      /\ UNCHANGED <<pc, child, rec, overdue, late, fate, crashes>>
      /\ UNCHANGED <<todo, cycle>>
  BY DEF Kill, ReaperInv, regVars, toolVars
<1> DEFINE p == Target.pid
<1>2. Target \in records /\ \A r \in WithId(records, Min(todo)) : r = Target
  BY <1>1, TargetIsListed
<1>3. p \in Pid
  BY <1>2, RecordFields
<1>4. proc' = [proc EXCEPT ![p].state = IF @ # "alive" THEN @
                                       ELSE IF IsChild(p) THEN "dead" ELSE "free"]
  BY <1>1 DEF Killed
<1> HIDE DEF p
<1>5. /\ ProcType /\ ProcStep
      /\ \A q \in Pid : proc'[q].identity = proc[q].identity
      /\ proc'[p].state # "alive"
      /\ \A q \in Pid :
           /\ \E t \in Tool : pc[t] \in Holding /\ child[t] = q
           /\ proc[q].state # "free"
           => proc'[q].state # "free"
  <2>1. /\ proc' \in [Pid -> Process]
        /\ \A q \in Pid \ {p} : proc'[q] = proc[q]
        /\ proc'[p].identity = proc[p].identity
        /\ proc'[p].state = IF proc[p].state # "alive" THEN proc[p].state
                            ELSE IF IsChild(p) THEN "dead" ELSE "free"
    BY <1>3, <1>4 DEF SupervisionTypeOK, Process
  <2>2. QED BY <1>3, <2>1 DEF ProcType, ProcStep, OsInv, IsChild
<1>6. SupervisionTypeOK'
  BY <1>1, <1>5 DEF SupervisionTypeOK, ProcType
<1>7. OsInv' /\ RegistryInv'
  BY <1>1, <1>5, ProcessesMove DEF OsInv, ProcType
<1>8. ToolInv'
  <2>1. \A t \in Tool : pc[t] \in Holding => child[t] \in Pid
    BY DEF OsInv
  <2>2. QED BY <1>1, <1>5, <2>1, OthersKnow DEF ToolInv
<1>9. ReaperInv'
  <2>1. \A r \in WithId(records, Min(todo)) : Settled(r)'
    <3>1. ASSUME NEW r \in WithId(records, Min(todo))
          PROVE  proc'[r.pid].state # "alive"
      BY <1>2, <1>5 DEF p
    <3>2. QED BY <3>1 DEF Gone, Settled
  <2>2. QED BY <1>1, <2>1 DEF ReaperInv, WithId, Ids
<1>10. QED BY <1>6, <1>7, <1>8, <1>9

-----------------------------------------------------------------------------
(* A record that was running is replaced, in memory and perhaps in the     *)
(* file, by one of the same process that runs on or has ended for good.    *)
Succeeds(s, r) ==
  /\ s \in Record /\ s.id = r.id /\ s.pid = r.pid /\ s.identity = r.identity
  /\ r.status = "running"
  /\ s.status = "running" \/ Settled(r)

LEMMA ReplaceKeeps ==
  ASSUME SupervisionIInv, UNCHANGED <<proc, issued, tracked>>,
         NEW r \in records, NEW s, Succeeds(s, r), records' = Replaced(r, s),
         disk' = disk \/ disk' = records'
  PROVE  /\ records' \subseteq Record /\ disk' \subseteq Record
         /\ OsInv' <=> \A t, u \in Tool :
              /\ pc'[t] \in Holding => child'[t] \in Pid /\ proc[child'[t]].state # "free"
              /\ pc'[t] \in Holding /\ pc'[u] \in Holding /\ child'[t] = child'[u] => t = u
         /\ RegistryInv'
         /\ Ids(records') = Ids(records)
         /\ \A x \in records' \cup disk' : \E y \in records \cup disk :
              x.id = y.id /\ x.pid = y.pid /\ x.identity = y.identity
         /\ \A x \in records' : \E y \in records :
              x.id = y.id /\ x.pid = y.pid /\ x.identity = y.identity
<1> USE DEF SupervisionIInv
<1>1. /\ s \in Record /\ s.id = r.id /\ s.pid = r.pid /\ s.identity = r.identity
      /\ r.status = "running" /\ s \in records' /\ records' = (records \ {r}) \cup {s}
      /\ s.status = "running" \/ Settled(r)
  BY DEF Succeeds, Replaced
<1>2. records' \subseteq Record /\ disk' \subseteq Record
  BY <1>1 DEF SupervisionTypeOK
<1>3. \A x \in records' : \E y \in records :
        x.id = y.id /\ x.pid = y.pid /\ x.identity = y.identity
  BY <1>1
<1>4. \A x \in records' \cup disk' : \E y \in records \cup disk :
        x.id = y.id /\ x.pid = y.pid /\ x.identity = y.identity
  BY <1>3
<1>5. Ids(records') = Ids(records)
  BY <1>1 DEF Ids
<1>6. OneEach(records') /\ OneEach(disk')
  BY <1>1 DEF RegistryInv, OneEach
<1>7. \A x \in disk', y \in records' :
        x.id = y.id /\ x.status \in Ended => y.status = x.status
  <2>1. CASE disk' = records'
    BY <1>6, <2>1 DEF OneEach
  <2>2. CASE disk' = disk
    <3>1. ASSUME NEW x \in disk, x.id = s.id, x.status \in Ended PROVE FALSE
      BY <1>1, <3>1 DEF RegistryInv, Ended
    <3>2. QED BY <1>1, <2>2, <3>1 DEF RegistryInv
  <2>3. QED BY <2>1, <2>2
<1>8. OnRecord(records') /\ OnRecord(disk')
  <2>1. OnRecord(records')
    <3> SUFFICES ASSUME NEW p \in Pid, proc[p].state = "alive",
                        <<p, proc[p].identity>> \in tracked
                 PROVE  \E x \in records' : IsOf(x, p) /\ x.status = "running"
      BY DEF OnRecord
    <3>1. PICK y \in records : IsOf(y, p) /\ y.status = "running"
      BY DEF RegistryInv, OnRecord
    <3>2. CASE y = r
      BY <1>1, <3>1, <3>2 DEF Settled, Gone, IsOf
    <3>3. CASE y # r
      BY <1>1, <3>1, <3>3
    <3>4. QED BY <3>2, <3>3
  <2>2. QED BY <2>1 DEF RegistryInv
<1>9. OnRecord(records)' /\ OnRecord(disk)'
  BY <1>8 DEF OnRecord, IsOf
<1>10. RegistryInv'
  <2>1. \A x, y \in records' \cup disk' :
          x.id = y.id <=> x.pid = y.pid /\ x.identity = y.identity
    BY <1>4 DEF RegistryInv
  <2>2. QED BY <1>6, <1>7, <1>9, <2>1 DEF RegistryInv, OneEach
<1>11. \A x \in records' \cup disk' : x.id <= issued' /\ x.identity <= proc'[x.pid].identity
  BY <1>4 DEF OsInv
<1>12. OsInv' <=> \A t, u \in Tool :
         /\ pc'[t] \in Holding => child'[t] \in Pid /\ proc[child'[t]].state # "free"
         /\ pc'[t] \in Holding /\ pc'[u] \in Holding /\ child'[t] = child'[u] => t = u
  BY <1>11 DEF OsInv
<1>13. QED BY <1>2, <1>3, <1>4, <1>5, <1>10, <1>12

(* A tool whose own record is not ended under it, or that is finishing.    *)
LEMMA ToolAfterReplace ==
  ASSUME SupervisionIInv, UNCHANGED <<proc, issued, tracked>>,
         NEW r \in records, NEW s, Succeeds(s, r), records' = Replaced(r, s),
         disk' = disk \/ disk' = records',
         NEW u \in Tool, child'[u] = child[u], rec'[u] = rec[u], overdue'[u] = overdue[u],
         pc'[u] \in Holding <=> pc[u] \in Holding,
         pc'[u] \in Watching => pc[u] \in Watching,
         pc'[u] \in {"idle", "spawned"} => pc'[u] = pc[u],
         \A v \in Tool : rec'[v] \in {rec[v], 0},
         todo' \subseteq todo,
         \/ rec[u] # r.id
         \/ s.status = "running" /\ s.age <= StaleAfter
         \/ overdue[u] \/ pc[u] \notin Watching
  PROVE  Knows(u)' /\ InTime(u)'
<1> USE DEF SupervisionIInv
<1>1. /\ \A x \in records' \cup disk' : \E y \in records \cup disk :
           x.id = y.id /\ x.pid = y.pid /\ x.identity = y.identity
      /\ \A x \in records' : \E y \in records :
           x.id = y.id /\ x.pid = y.pid /\ x.identity = y.identity
  BY ReplaceKeeps
<1>2. ASSUME NEW x \in WithId(records', rec[u])
      PROVE  IF pc'[u] \in Holding THEN IsOf(x, child[u]) ELSE Gone(x)
  <2>1. PICK y \in records : x.id = y.id /\ x.pid = y.pid /\ x.identity = y.identity
    BY <1>1 DEF WithId
  <2>2. IF pc[u] \in Holding THEN IsOf(y, child[u]) ELSE Gone(y)
    BY <2>1 DEF ToolInv, Knows, WithId
  <2>3. QED BY <2>1, <2>2 DEF IsOf, Gone
<1>3. pc'[u] = "spawned" => \A x \in records' \cup disk' : ~ IsOf(x, child[u])
  BY <1>1 DEF ToolInv, Knows, IsOf
<1>4. Knows(u)'
  <2>1. /\ rec'[u] <= issued' /\ (pc'[u] \in Watching => rec'[u] > 0)
        /\ pc'[u] \in {"idle", "spawned"} => rec'[u] = 0
        /\ \A v \in Tool : rec'[u] = rec'[v] /\ rec'[u] > 0 => u = v
    BY DEF ToolInv, Knows
  <2>2. /\ pc'[u] = "spawned" => \A x \in records' \cup disk' : ~ IsOf(x, child[u])'
        /\ \A x \in WithId(records, rec[u])' :
             IF pc'[u] \in Holding THEN IsOf(x, child[u])' ELSE Gone(x)'
    BY <1>2, <1>3 DEF IsOf, Gone, WithId
  <2>3. QED BY <2>1, <2>2 DEF Knows
<1>5. InTime(u)'
  <2>1. CASE pc[u] \in Watching /\ ~ overdue[u]
    <3>1. PICK y \in RunningRecord(rec[u]) : y.age <= StaleAfter
      BY <2>1 DEF ToolInv, InTime
    <3>2. y \in records /\ y.id = rec[u] /\ y.status = "running"
      BY DEF RunningRecord, WithId
    <3>3. \E z \in records' : z.id = rec[u] /\ z.status = "running" /\ z.age <= StaleAfter
      <4>1. CASE y = r
        BY <2>1, <3>2, <4>1 DEF Succeeds, Replaced
      <4>2. CASE y # r
        BY <3>1, <3>2, <4>2 DEF Replaced
      <4>3. QED BY <4>1, <4>2
    <3>4. rec[u] \notin todo'
      BY <2>1 DEF ToolInv, InTime
    <3>5. QED BY <3>3, <3>4 DEF InTime, RunningRecord, WithId
  <2>2. CASE ~ (pc[u] \in Watching /\ ~ overdue[u])
    BY <2>2 DEF InTime
  <2>3. QED BY <2>1, <2>2
<1>6. QED BY <1>4, <1>5

LEMMA ReaperAfterReplace ==
  ASSUME SupervisionIInv, UNCHANGED <<proc, issued, tracked, rpc, todo>>,
         NEW r \in records, NEW s, Succeeds(s, r), records' = Replaced(r, s),
         disk' = disk \/ disk' = records'
  PROVE  ReaperInv'
<1>1. /\ Ids(records') = Ids(records)
      /\ \A x \in records' : \E y \in records :
           x.id = y.id /\ x.pid = y.pid /\ x.identity = y.identity
  BY ReplaceKeeps
<1>2. ASSUME todo # {}, NEW x \in WithId(records', Min(todo))
      PROVE  /\ rpc \in {"lose", "terminate"} => Settled(x)
             /\ rpc = "kill" /\ SlowReuse => IsOf(x, x.pid)
  <2>1. PICK y \in records : x.id = y.id /\ x.pid = y.pid /\ x.identity = y.identity
    BY <1>1 DEF WithId
  <2>2. /\ rpc \in {"lose", "terminate"} => Settled(y)
        /\ rpc = "kill" /\ SlowReuse => IsOf(y, y.pid)
    BY <1>2, <2>1 DEF SupervisionIInv, ReaperInv, WithId
  <2>3. QED BY <2>1, <2>2 DEF IsOf, Gone, Settled
<1>3. todo # {} => \A x \in WithId(records', Min(todo)) :
        /\ rpc \in {"lose", "terminate"} => Settled(x)'
        /\ rpc = "kill" /\ SlowReuse => IsOf(x, x.pid)'
  BY <1>2 DEF IsOf, Gone, Settled
<1>4. todo \subseteq Ids(records)'
  BY <1>1 DEF SupervisionIInv, ReaperInv, Ids
<1>5. QED BY <1>3, <1>4 DEF SupervisionIInv, ReaperInv, WithId

LEMMA SaveOrFail ==
  ASSUME SupervisionTypeOK, Save \/ SaveFails
  PROVE  /\ disk' = disk \/ disk' = records'
         /\ faults' \in 0 .. MaxFaults
  BY SupervisionAssumption DEF Save, SaveFails, SupervisionTypeOK

LEMMA BeatKeeps == ASSUME SupervisionIInv, NEW t \in Tool, Beat(t) PROVE SupervisionIInv'
<1> USE DEF SupervisionIInv
<1>1. /\ pc[t] = "beat"
      /\ UNCHANGED <<proc, issued, tracked>>
      /\ UNCHANGED <<child, rec, overdue, late, fate>>
      /\ UNCHANGED <<rpc, todo, cycle, crashes>>
      /\ disk' = disk \/ disk' = records'
      /\ faults' \in 0 .. MaxFaults
  BY SaveOrFail DEF Beat, osVars, reaperVars
<1>2. PICK place \in {"poll", "abort"} : pc' = [pc EXCEPT ![t] = place]
  BY DEF Beat
<1>3. PICK r \in RunningRecord(rec[t]) : records' = Replaced(r, [r EXCEPT !.age = 0])
  BY DEF Beat
<1> DEFINE s == [r EXCEPT !.age = 0]
<1>4. /\ r \in records /\ r.id = rec[t] /\ r.status = "running"
      /\ r \in Record
  BY RecordFields DEF RunningRecord, WithId
<1>5. /\ s \in Record /\ s.id = r.id /\ s.pid = r.pid /\ s.identity = r.identity
      /\ s.status = r.status /\ s.age = 0
  <2>1. 0 \in Age
    BY SupervisionAssumption DEF Age, Oldest
  <2>2. QED BY <1>4, <2>1 DEF Record
<1> HIDE DEF s
<1>6. Succeeds(s, r) /\ records' = Replaced(r, s) /\ s.status = "running" /\ s.age <= StaleAfter
  BY <1>3, <1>4, <1>5, SupervisionAssumption DEF Succeeds, s
<1>7. pc'[t] \in {"poll", "abort"} /\ \A u \in Tool \ {t} : pc'[u] = pc[u]
  BY <1>2 DEF SupervisionTypeOK
<1>8. records' \subseteq Record /\ disk' \subseteq Record /\ RegistryInv' /\ OsInv'
  <2>1. \A u, v \in Tool :
          /\ pc'[u] \in Holding => child'[u] \in Pid /\ proc[child'[u]].state # "free"
          /\ pc'[u] \in Holding /\ pc'[v] \in Holding /\ child'[u] = child'[v] => u = v
    BY <1>1, <1>7 DEF OsInv, Holding
  <2>2. QED BY <1>1, <1>4, <1>6, <2>1, ReplaceKeeps
<1>9. SupervisionTypeOK'
  <2>1. pc' \in [Tool -> Holding \cup Watching \cup {"idle"}]
    BY <1>2 DEF SupervisionTypeOK, Watching
  <2>2. QED BY <1>1, <1>8, <2>1 DEF SupervisionTypeOK
<1>10. ToolInv'
  <2>1. ASSUME NEW u \in Tool PROVE Knows(u)' /\ InTime(u)'
    <3>1. /\ pc'[u] \in Holding <=> pc[u] \in Holding
          /\ pc'[u] \in Watching => pc[u] \in Watching
          /\ pc'[u] \in {"idle", "spawned"} => pc'[u] = pc[u]
      BY <1>1, <1>7 DEF Holding, Watching
    <3>2. QED BY <1>1, <1>4, <1>6, <3>1, ToolAfterReplace
  <2>2. QED BY <2>1 DEF ToolInv
<1>11. ReaperInv'
  BY <1>1, <1>4, <1>6, ReaperAfterReplace
<1>12. QED BY <1>8, <1>9, <1>10, <1>11

LEMMA EndedFields ==
  ASSUME NEW r \in Record, NEW status \in Ended
  PROVE  /\ EndedAs(r, status) \in Record /\ EndedAs(r, status).id = r.id
         /\ EndedAs(r, status).pid = r.pid
         /\ EndedAs(r, status).identity = r.identity
<1>1. 0 \in Age
  BY SupervisionAssumption DEF Age, Oldest
<1>2. QED BY <1>1 DEF Record, EndedAs

LEMMA FinishedCases ==
  ASSUME NEW id, NEW status, NEW raised \in BOOLEAN, Finished(id, status, raised)
  PROVE  \/ UNCHANGED <<records, disk, faults>>
         \/ /\ Save \/ SaveFails
            /\ \E r \in RunningRecord(id) : records' = Replaced(r, EndedAs(r, status))
  BY DEF Finished

(* registry.finish leaves the registry alone or ends a running record.     *)
LEMMA FinishedEnds ==
  ASSUME SupervisionTypeOK, NEW id, NEW status \in Ended, NEW raised \in BOOLEAN,
         Finished(id, status, raised), \A r \in WithId(records, id) : Settled(r)
  PROVE  /\ faults' \in 0 .. MaxFaults
         /\ \/ UNCHANGED <<records, disk, faults>>
            \/ \E r \in records : \E s :
                 /\ r.id = id /\ Succeeds(s, r) /\ records' = Replaced(r, s)
                 /\ disk' = disk \/ disk' = records'
<1>1. CASE UNCHANGED <<records, disk, faults>>
  BY <1>1 DEF SupervisionTypeOK
<1>2. ASSUME Save \/ SaveFails, NEW r \in RunningRecord(id),
             records' = Replaced(r, EndedAs(r, status))
      PROVE  /\ faults' \in 0 .. MaxFaults
             /\ \E x \in records : \E s :
                 /\ x.id = id /\ Succeeds(s, x) /\ records' = Replaced(x, s)
                 /\ disk' = disk \/ disk' = records'
  <2>1. r \in records /\ r.id = id /\ r.status = "running" /\ r \in Record /\ Settled(r)
    BY RecordFields DEF RunningRecord, WithId
  <2>2. Succeeds(EndedAs(r, status), r)
    BY <2>1, EndedFields DEF Succeeds
  <2>3. QED BY <1>2, <2>1, <2>2, SaveOrFail
<1>3. QED BY <1>1, <1>2, FinishedCases

LEMMA FinishKeeps == ASSUME SupervisionIInv, NEW t \in Tool, Finish(t) PROVE SupervisionIInv'
<1> USE DEF SupervisionIInv
<1>1. /\ pc[t] = "finish" /\ Return(t)
      /\ UNCHANGED <<proc, issued, tracked>>
      /\ UNCHANGED <<rpc, todo, cycle, crashes>>
  BY DEF Finish, osVars, reaperVars
<1>2. PICK raised \in BOOLEAN : Finished(rec[t], fate[t], raised)
  BY DEF Finish
<1>3. /\ ToolTypes /\ pc'[t] = "idle" /\ rec'[t] = 0
      /\ \A u \in Tool \ {t} : /\ pc'[u] = pc[u] /\ child'[u] = child[u]
                               /\ rec'[u] = rec[u] /\ overdue'[u] = overdue[u]
  BY <1>1, ReturnForgets
<1>4. \A r \in WithId(records, rec[t]) : Settled(r)
  BY <1>1 DEF ToolInv, Knows, Holding, Settled
<1>5. fate[t] \in Ended
  BY DEF SupervisionTypeOK
<1>6. ProcStep /\ ProcType
  BY <1>1, NoProcessMoves
<1>7. CASE UNCHANGED <<records, disk, faults>>
  <2>1. OthersRest(t) /\ HoldsChild(t)
    BY <1>1, <1>3 DEF OthersRest, HoldsChild, Holding
  <2>2. issued' \in Nat /\ \A r \in records' : r.id > 0
    BY <1>1, <1>7, PositiveIds DEF SupervisionTypeOK
  <2>3. Knows(t)' /\ InTime(t)'
    BY <1>3, <2>2, ForgottenKnows
  <2>4. QED BY <1>1, <1>3, <1>6, <1>7, <2>1, <2>3, ToolStep
<1>8. ASSUME NEW r \in records, NEW s, r.id = rec[t], Succeeds(s, r), records' = Replaced(r, s),
             disk' = disk \/ disk' = records', faults' \in 0 .. MaxFaults
      PROVE  SupervisionIInv'
  <2>1. records' \subseteq Record /\ disk' \subseteq Record /\ RegistryInv' /\ OsInv'
    <3>1. \A u, v \in Tool :
            /\ pc'[u] \in Holding => child'[u] \in Pid /\ proc[child'[u]].state # "free"
            /\ pc'[u] \in Holding /\ pc'[v] \in Holding /\ child'[u] = child'[v] => u = v
      BY <1>3 DEF OsInv, Holding
    <3>2. QED BY <1>1, <1>8, <3>1, ReplaceKeeps
  <2>2. SupervisionTypeOK'
    BY <1>1, <1>3, <1>8, <2>1 DEF SupervisionTypeOK, ToolTypes
  <2>3. ToolInv'
    <3>1. ASSUME NEW u \in Tool \ {t} PROVE Knows(u)' /\ InTime(u)'
      <4>1. \A v \in Tool : rec'[v] \in {rec[v], 0}
        BY <1>3
      <4>2. rec[u] # r.id
        BY <1>1, <1>8 DEF ToolInv, Knows, Watching
      <4>3. /\ pc'[u] = pc[u] /\ child'[u] = child[u]
            /\ rec'[u] = rec[u] /\ overdue'[u] = overdue[u]
        BY <1>3
      <4>4. QED BY <1>1, <1>8, <4>1, <4>2, <4>3, ToolAfterReplace
    <3>2. issued' \in Nat /\ \A x \in records' : x.id > 0
      BY <1>1, <2>1 DEF SupervisionTypeOK, Record
    <3>3. Knows(t)' /\ InTime(t)'
      BY <1>3, <3>2, ForgottenKnows
    <3>4. QED BY <3>1, <3>3 DEF ToolInv
  <2>4. ReaperInv'
    BY <1>1, <1>8, ReaperAfterReplace
  <2>5. QED BY <2>1, <2>2, <2>3, <2>4
<1>9. QED BY <1>2, <1>4, <1>5, <1>7, <1>8, FinishedEnds

LEMMA ReapedKeeps == ASSUME SupervisionIInv, Reaped PROVE SupervisionIInv'
<1> USE DEF SupervisionIInv
<1>1. /\ rpc \in {"lose", "terminate"} /\ todo # {}
      /\ UNCHANGED <<proc, issued, tracked>>
      /\ UNCHANGED <<pc, child, rec, overdue, late, fate, crashes>>
  BY DEF Reaped, ReaperInv, osVars, toolVars
<1>2. PICK raised \in BOOLEAN :
        /\ Finished(Min(todo), IF rpc = "lose" THEN "lost" ELSE "terminated", raised)
        /\ IF raised THEN rpc' = "off" /\ todo' = {} /\ cycle' = 0
           ELSE rpc' = "lookup" /\ todo' = todo \ {Min(todo)} /\ UNCHANGED cycle
  BY DEF Reaped
<1>3. /\ rpc' \in {"off", "lookup"} /\ todo' \subseteq todo
      /\ rpc' = "off" => todo' = {}
      /\ cycle' \in 0 .. MaxCycles
  BY <1>2, SupervisionAssumption DEF SupervisionTypeOK
<1>4. \A r \in WithId(records, Min(todo)) : Settled(r)
  BY <1>1 DEF ReaperInv
<1>5. CASE UNCHANGED <<records, disk, faults>>
  <2>1. ReaperInv'
    BY <1>3, <1>5 DEF ReaperInv, Ids
  <2>2. QED BY <1>1, <1>3, <1>5, <2>1, ServiceStep
<1>6. ASSUME NEW r \in records, NEW s, r.id = Min(todo), Succeeds(s, r),
             records' = Replaced(r, s), disk' = disk \/ disk' = records',
             faults' \in 0 .. MaxFaults
      PROVE  SupervisionIInv'
  <2>1. records' \subseteq Record /\ disk' \subseteq Record /\ RegistryInv' /\ OsInv'
        /\ Ids(records') = Ids(records)
    <3>1. \A u, v \in Tool :
            /\ pc'[u] \in Holding => child'[u] \in Pid /\ proc[child'[u]].state # "free"
            /\ pc'[u] \in Holding /\ pc'[v] \in Holding /\ child'[u] = child'[v] => u = v
      BY <1>1 DEF OsInv
    <3>2. QED BY <1>1, <1>6, <3>1, ReplaceKeeps
  <2>2. SupervisionTypeOK'
    BY <1>1, <1>3, <1>6, <2>1 DEF SupervisionTypeOK
  <2>3. ToolInv'
    <3>1. Min(todo) \in todo
      BY <1>1, TargetIsListed
    <3>2. ASSUME NEW u \in Tool PROVE Knows(u)' /\ InTime(u)'
      <4>1. rec[u] # r.id \/ overdue[u] \/ pc[u] \notin Watching
        BY <1>6, <3>1 DEF ToolInv, InTime, SupervisionTypeOK
      <4>2. QED BY <1>1, <1>3, <1>6, <4>1, ToolAfterReplace
    <3>3. QED BY <3>2 DEF ToolInv
  <2>4. ReaperInv'
    BY <1>3, <2>1 DEF ReaperInv, Ids
  <2>5. QED BY <2>1, <2>2, <2>3, <2>4
<1>7. "lost" \in Ended /\ "terminated" \in Ended
  BY DEF Ended
<1>8. QED BY <1>2, <1>4, <1>5, <1>6, <1>7, FinishedEnds

(* Old records of what has ended are forgotten.                            *)
LEMMA PruneKeeps == ASSUME SupervisionIInv, Prune PROVE SupervisionIInv'
<1> USE DEF SupervisionIInv
<1>1. /\ rpc = "prune" /\ todo = {} /\ todo' = todo
      /\ UNCHANGED <<proc, issued, tracked, crashes>>
      /\ UNCHANGED <<pc, child, rec, overdue, late, fate>>
  BY DEF Prune, ReaperInv, osVars, toolVars
<1>2. PICK S \in SUBSET records :
        /\ Prunable(S) /\ records' = records \ S
        /\ \/ /\ IF S = {} THEN UNCHANGED <<disk, faults>> ELSE Save
              /\ rpc' = "pause" /\ UNCHANGED cycle
           \/ S # {} /\ SaveFails /\ rpc' = "off" /\ cycle' = 0
  BY DEF Prune
<1>3. \A r \in S : r.status \in Ended
  BY <1>2 DEF Prunable, Removable
<1>4. /\ disk' = disk \/ disk' = records'
      /\ faults' \in 0 .. MaxFaults /\ cycle' \in 0 .. MaxCycles
      /\ rpc' \in {"pause", "off"}
  BY <1>2, SaveOrFail, SupervisionAssumption DEF SupervisionTypeOK
<1>5. /\ records' \subseteq records
      /\ \A r \in records : r.status = "running" => r \in records'
  BY <1>2, <1>3 DEF Ended
<1>6. SupervisionTypeOK'
  BY <1>1, <1>4, <1>5 DEF SupervisionTypeOK
<1>7. OsInv'
  BY <1>1, <1>4, <1>5 DEF OsInv
<1>8. RegistryInv'
  <2>1. OneEach(records') /\ OneEach(disk')
    BY <1>4, <1>5 DEF RegistryInv, OneEach
  <2>2. OnRecord(records') /\ OnRecord(disk')
    BY <1>4, <1>5 DEF RegistryInv, OnRecord
  <2>3. OnRecord(records)' /\ OnRecord(disk)'
    BY <1>1, <2>2 DEF OnRecord, IsOf
  <2>4. \A r, s \in records' \cup disk' :
          r.id = s.id <=> r.pid = s.pid /\ r.identity = s.identity
    BY <1>4, <1>5 DEF RegistryInv
  <2>5. \A r \in disk', s \in records' :
          r.id = s.id /\ r.status \in Ended => s.status = r.status
    BY <1>4, <1>5, <2>1 DEF RegistryInv, OneEach
  <2>6. QED BY <2>1, <2>3, <2>4, <2>5 DEF RegistryInv, OneEach
<1>9. ToolInv'
  <2>1. ASSUME NEW u \in Tool PROVE Knows(u)' /\ InTime(u)'
    <3>1. Knows(u)'
      BY <1>1, <1>4, <1>5 DEF ToolInv, Knows, WithId, IsOf, Gone
    <3>2. InTime(u)'
      BY <1>1, <1>5 DEF ToolInv, InTime, WithId, RunningRecord
    <3>3. QED BY <3>1, <3>2
  <2>2. QED BY <2>1 DEF ToolInv
<1>10. ReaperInv'
  BY <1>1, <1>4 DEF ReaperInv
<1>11. QED BY <1>6, <1>7, <1>8, <1>9, <1>10

(* Time passes for the records of memory and file alike.                   *)
Aging(rs, olds) ==
  /\ \A r \in rs : \E s \in olds :
       /\ s.id = r.id /\ s.pid = r.pid /\ s.identity = r.identity /\ s.status = r.status
       /\ r.age = Older(s.age)
       /\ r = [s EXCEPT !.age = Older(@)]
  /\ \A s \in olds : [s EXCEPT !.age = Older(@)] \in rs

LEMMA OlderAge ==
  ASSUME NEW age \in Age
  PROVE  Older(age) \in Age /\ (age < StaleAfter => Older(age) <= StaleAfter)
  BY SupervisionAssumption DEF Older, Age, Oldest

LEMMA AgedRecords ==
  ASSUME NEW olds \in SUBSET Record
  PROVE  Aged(olds) \subseteq Record /\ Aging(Aged(olds), olds)
<1>1. ASSUME NEW s \in olds
      PROVE  /\ [s EXCEPT !.age = Older(@)] \in Record
             /\ [s EXCEPT !.age = Older(@)].id = s.id
             /\ [s EXCEPT !.age = Older(@)].pid = s.pid
             /\ [s EXCEPT !.age = Older(@)].identity = s.identity
             /\ [s EXCEPT !.age = Older(@)].status = s.status
             /\ [s EXCEPT !.age = Older(@)].age = Older(s.age)
  BY OlderAge DEF Record
<1>2. QED BY <1>1 DEF Aged, Aging

LEMMA TickKeeps == ASSUME SupervisionIInv, Tick PROVE SupervisionIInv'
<1> USE DEF SupervisionIInv
<1>1. /\ records' = Aged(records) /\ disk' = Aged(disk)
      /\ UNCHANGED <<proc, issued, tracked, faults, crashes>>
      /\ UNCHANGED <<pc, child, rec, late, fate, rpc, todo, cycle>>
      /\ overdue' = [t \in Tool |-> \/ overdue[t]
                                    \/ /\ pc[t] \in Watching
                                       /\ \E r \in WithId(records, rec[t]) : r.age >= StaleAfter]
  BY DEF Tick, osVars, reaperVars
<1>2. /\ records' \subseteq Record /\ disk' \subseteq Record
      /\ Aging(records', records) /\ Aging(disk', disk)
  BY <1>1, AgedRecords DEF SupervisionTypeOK
<1>3. SupervisionTypeOK'
  <2>1. overdue' \in [Tool -> BOOLEAN]
    BY <1>1 DEF SupervisionTypeOK
  <2>2. QED BY <1>1, <1>2, <2>1 DEF SupervisionTypeOK
<1>4. /\ \A x \in records' \cup disk' : \E y \in records \cup disk :
           x.id = y.id /\ x.pid = y.pid /\ x.identity = y.identity
      /\ \A x \in records' : \E y \in records :
           x.id = y.id /\ x.pid = y.pid /\ x.identity = y.identity
      /\ \A y \in records : \E x \in records' : x.id = y.id
  <2>1. ASSUME NEW y \in records PROVE \E x \in records' : x.id = y.id
    <3>1. [y EXCEPT !.age = Older(@)] \in records'
      BY <1>2 DEF Aging
    <3>2. y \in Record
      BY DEF SupervisionTypeOK
    <3>3. [y EXCEPT !.age = Older(@)].id = y.id
      BY ONLY <3>2 DEF Record
    <3>4. QED BY ONLY <3>1, <3>3
  <2>2. QED BY <1>2, <2>1 DEF Aging
<1>5. OsInv'
  BY <1>1, <1>4 DEF OsInv
<1>6. RegistryInv'
  <2>1. OneEach(records') /\ OneEach(disk')
    BY <1>2 DEF Aging, RegistryInv, OneEach
  <2>2. ASSUME NEW rs \in SUBSET Record, NEW olds \in SUBSET Record,
               Aging(rs, olds), OnRecord(olds)
        PROVE  OnRecord(rs)
    <3>1. \A s \in olds : \E r \in rs : /\ s.pid = r.pid /\ s.identity = r.identity
                                        /\ s.status = r.status
      BY <2>2 DEF Aging, Record
    <3>2. QED BY <2>2, <3>1 DEF OnRecord, IsOf
  <2>3. OnRecord(records') /\ OnRecord(disk')
    BY <1>2, <2>2 DEF RegistryInv, SupervisionTypeOK
  <2>4. OnRecord(records)' /\ OnRecord(disk)'
    BY <1>1, <2>3 DEF OnRecord, IsOf
  <2>5. \A r, s \in records' \cup disk' :
          r.id = s.id <=> r.pid = s.pid /\ r.identity = s.identity
    BY <1>4 DEF RegistryInv
  <2>6. \A r \in disk', s \in records' :
          r.id = s.id /\ r.status \in Ended => s.status = r.status
    BY <1>2 DEF RegistryInv, Aging
  <2>7. QED BY <2>1, <2>4, <2>5, <2>6 DEF RegistryInv, OneEach
<1>7. ASSUME NEW u \in Tool PROVE Knows(u)' /\ InTime(u)'
  <2>1. \A x \in WithId(records', rec[u]) :
          IF pc[u] \in Holding THEN IsOf(x, child[u]) ELSE Gone(x)
    BY <1>4 DEF ToolInv, Knows, WithId, IsOf, Gone
  <2>2. pc[u] = "spawned" => \A x \in records' \cup disk' : ~ IsOf(x, child[u])
    BY <1>4 DEF ToolInv, Knows, IsOf
  <2>3. Knows(u)'
    BY <1>1, <2>1, <2>2 DEF ToolInv, Knows, WithId, IsOf, Gone
  <2>4. CASE pc[u] \in Watching /\ ~ overdue'[u]
    <3>1. ~ overdue[u] /\ \A r \in WithId(records, rec[u]) : ~ (r.age >= StaleAfter)
      BY <1>1, <2>4
    <3>2. PICK r \in RunningRecord(rec[u]) : r.age <= StaleAfter
      BY <2>4, <3>1 DEF ToolInv, InTime
    <3>3. r \in records /\ r.id = rec[u] /\ r.status = "running" /\ ~ (r.age >= StaleAfter)
          /\ r \in Record /\ r.age \in Age
      BY <3>1, <3>2, RecordFields DEF RunningRecord, WithId
    <3>4. r.age < StaleAfter
      BY <3>3, SupervisionAssumption DEF Age
    <3>5. [r EXCEPT !.age = Older(@)] \in records'
      BY <1>2, <3>3 DEF Aging
    <3>6. /\ [r EXCEPT !.age = Older(@)].age = Older(r.age)
          /\ [r EXCEPT !.age = Older(@)].id = r.id
          /\ [r EXCEPT !.age = Older(@)].status = r.status
      BY <3>3 DEF Record
    <3>7. Older(r.age) <= StaleAfter
      BY <3>3, <3>4, OlderAge
    <3>8. rec[u] \notin todo
      BY <2>4, <3>1 DEF ToolInv, InTime
    <3>9. \E x \in records' : x.id = rec[u] /\ x.status = "running" /\ x.age <= StaleAfter
      BY <3>3, <3>5, <3>6, <3>7
    <3>10. QED BY <1>1, <2>3, <3>8, <3>9 DEF InTime, RunningRecord, WithId
  <2>5. CASE ~ (pc[u] \in Watching /\ ~ overdue'[u])
    BY <1>1, <2>3, <2>5 DEF InTime
  <2>6. QED BY <2>4, <2>5
<1>8. ReaperInv'
  <2>1. todo \subseteq Ids(records)'
    BY <1>4 DEF ReaperInv, Ids
  <2>2. todo # {} => \A x \in WithId(records', Min(todo)) :
          /\ rpc \in {"lose", "terminate"} => Settled(x)
          /\ rpc = "kill" /\ SlowReuse => IsOf(x, x.pid)
    <3> SUFFICES ASSUME todo # {}, NEW x \in WithId(records', Min(todo))
                 PROVE  /\ rpc \in {"lose", "terminate"} => Settled(x)
                        /\ rpc = "kill" /\ SlowReuse => IsOf(x, x.pid)
      OBVIOUS
    <3>1. PICK y \in records : x.id = y.id /\ x.pid = y.pid /\ x.identity = y.identity
      BY <1>4 DEF WithId
    <3>2. /\ rpc \in {"lose", "terminate"} => Settled(y)
          /\ rpc = "kill" /\ SlowReuse => IsOf(y, y.pid)
      BY <3>1 DEF ReaperInv, WithId
    <3>3. QED BY <3>1, <3>2 DEF Settled, Gone, IsOf
  <2>3. QED BY <1>1, <2>1, <2>2 DEF ReaperInv, WithId, Settled, Gone, IsOf
<1>9. QED BY <1>3, <1>5, <1>6, <1>7, <1>8 DEF ToolInv

(* A new record has an id of its own, for a process that had none.         *)
LEMMA FreshRecord ==
  ASSUME SupervisionIInv, NEW t \in Tool, pc[t] = "spawned", issued < MaxRecords
  PROVE  /\ NewRecord(t) \in Record
         /\ NewRecord(t).id = issued + 1 /\ NewRecord(t).pid = child[t]
         /\ NewRecord(t).identity = proc[child[t]].identity
         /\ NewRecord(t).status = "running" /\ NewRecord(t).age = 0
         /\ issued \in Nat
         /\ \A r \in records \cup disk :
              /\ r.id <= issued /\ r.id \in Nat
              /\ ~ (r.pid = child[t] /\ r.identity = proc[child[t]].identity)
<1> USE DEF SupervisionIInv
<1>1. child[t] \in Pid /\ proc[child[t]].identity \in Nat
  BY DEF OsInv, Holding, SupervisionTypeOK, Process
<1>2. issued + 1 \in 1 .. MaxRecords /\ 0 \in Age /\ issued \in Nat
  BY SupervisionAssumption DEF SupervisionTypeOK, Age, Oldest
<1>3. \A r \in records \cup disk : r.id <= issued /\ r.id \in Nat
  BY RecordFields DEF OsInv
<1>4. \A r \in records \cup disk : ~ (r.pid = child[t] /\ r.identity = proc[child[t]].identity)
  BY DEF ToolInv, Knows, IsOf
<1>5. QED BY <1>1, <1>2, <1>3, <1>4 DEF NewRecord, Record

LEMMA RegisterKeeps ==
  ASSUME SupervisionIInv, NEW t \in Tool, Register(t) PROVE SupervisionIInv'
<1> USE DEF SupervisionIInv
<1> DEFINE n == NewRecord(t)
           e == <<child[t], proc[child[t]].identity>>
<1>1. /\ pc[t] = "spawned" /\ issued < MaxRecords
      /\ records' = records \cup {n} /\ issued' = issued + 1
      /\ rec' = [rec EXCEPT ![t] = issued + 1]
      /\ UNCHANGED <<proc, child, overdue, late, fate>>
      /\ UNCHANGED <<rpc, todo, cycle, crashes>>
  BY DEF Register, osVars, reaperVars
<1>2. /\ n \in Record /\ n.id = issued + 1 /\ n.pid = child[t]
      /\ n.identity = proc[child[t]].identity /\ n.status = "running" /\ n.age = 0
      /\ issued \in Nat
      /\ \A r \in records \cup disk :
           /\ r.id <= issued /\ r.id \in Nat
           /\ ~ (r.pid = child[t] /\ r.identity = proc[child[t]].identity)
  BY <1>1, FreshRecord
<1>3. \/ /\ disk' = records' /\ tracked' = tracked \cup {e}
         /\ pc' = [pc EXCEPT ![t] = "poll"]
      \/ /\ disk' = disk /\ tracked' = tracked
         /\ pc' = [pc EXCEPT ![t] = "unregistered"]
  BY DEF Register, Save, SaveFails
<1>4. /\ Save \/ SaveFails
      /\ faults' \in 0 .. MaxFaults
  BY SaveOrFail DEF Register
<1>5. child[t] \in Pid /\ proc[child[t]].identity \in Nat /\ proc[child[t]].state # "free"
  BY <1>1 DEF OsInv, Holding, SupervisionTypeOK, Process
<1> HIDE DEF n, e
<1>6. /\ disk' \subseteq records \cup disk \cup {n}
      /\ disk' = disk \/ disk' = records'
      /\ tracked' \subseteq tracked \cup {e}
      /\ e \in tracked' => disk' = records' \/ e \in tracked
  BY <1>1, <1>3
<1>7. e[1] = child[t] /\ e[2] = proc[child[t]].identity /\ e \in Pid \X Nat
  BY <1>5 DEF e
<1>8. /\ pc' \in [Tool -> Holding \cup Watching \cup {"idle"}]
      /\ pc'[t] \in {"poll", "unregistered"}
      /\ rec' \in [Tool -> 0 .. MaxRecords] /\ rec'[t] = issued + 1
      /\ \A u \in Tool \ {t} : pc'[u] = pc[u] /\ rec'[u] = rec[u]
  <2>1. issued + 1 \in 0 .. MaxRecords
    BY <1>1, <1>2, SupervisionAssumption DEF SupervisionTypeOK
  <2>2. QED BY <1>1, <1>3, <2>1 DEF SupervisionTypeOK, Holding
<1>9. SupervisionTypeOK'
  <2>1. records' \subseteq Record /\ disk' \subseteq Record /\ tracked' \subseteq Pid \X Nat
    BY <1>1, <1>2, <1>6, <1>7 DEF SupervisionTypeOK
  <2>2. issued' \in 0 .. MaxRecords
    BY <1>1, <1>2, SupervisionAssumption DEF SupervisionTypeOK
  <2>3. QED BY <1>1, <1>4, <1>8, <2>1, <2>2 DEF SupervisionTypeOK
<1>10. OsInv'
  <2>1. \A x \in tracked' : x[2] <= proc[x[1]].identity
    BY <1>5, <1>6, <1>7 DEF OsInv
  <2>2. \A r \in records' \cup disk' : r.id <= issued' /\ r.identity <= proc[r.pid].identity
    BY <1>1, <1>2, <1>5, <1>6 DEF OsInv
  <2>3. \A u \in Tool : pc'[u] \in Holding <=> pc[u] \in Holding
    BY <1>1, <1>8 DEF Holding
  <2>4. QED BY <1>1, <2>1, <2>2, <2>3 DEF OsInv
<1>11. RegistryInv'
  <2>1. \A r, s \in records' \cup disk' :
          r.id = s.id <=> r.pid = s.pid /\ r.identity = s.identity
    <3>1. \A r, s \in records \cup disk :
            r.id = s.id <=> r.pid = s.pid /\ r.identity = s.identity
      BY DEF RegistryInv
    <3>2. \A r \in records \cup disk :
            ~ (r.id = n.id) /\ ~ (r.pid = n.pid /\ r.identity = n.identity)
      BY <1>2
    <3>3. records' \cup disk' \subseteq records \cup disk \cup {n}
      BY <1>1, <1>6
    <3>4. QED BY <3>1, <3>2, <3>3
  <2>2. OneEach(records') /\ OneEach(disk')
    <3>1. OneEach(records')
      BY <1>1, <1>2 DEF RegistryInv, OneEach
    <3>2. QED BY <1>6, <3>1 DEF RegistryInv
  <2>3. OnRecord(records)' /\ OnRecord(disk)'
    <3>1. n \in records' /\ records \subseteq records'
      BY <1>1
    <3>2. ASSUME NEW p \in Pid, proc[p].state = "alive",
                 <<p, proc[p].identity>> \in tracked'
          PROVE  /\ \E r \in records' : IsOf(r, p) /\ r.status = "running"
                 /\ \E r \in disk' : IsOf(r, p) /\ r.status = "running"
      <4>1. CASE <<p, proc[p].identity>> \in tracked
        BY <1>6, <3>1, <3>2, <4>1 DEF RegistryInv, OnRecord
      <4>2. CASE <<p, proc[p].identity>> \notin tracked
        <5>1. <<p, proc[p].identity>> = e /\ disk' = records'
          BY <1>6, <3>2, <4>2
        <5>2. p = child[t]
          BY <1>7, <5>1
        <5>3. IsOf(n, p) /\ n.status = "running"
          BY <1>2, <5>2 DEF IsOf
        <5>4. QED BY <3>1, <5>1, <5>3
      <4>3. QED BY <4>1, <4>2
    <3>3. QED BY <1>1, <3>2 DEF OnRecord, IsOf
  <2>4. \A r \in disk', s \in records' :
          r.id = s.id /\ r.status \in Ended => s.status = r.status
    <3>1. CASE disk' = records'
      BY <2>2, <3>1 DEF OneEach
    <3>2. CASE disk' = disk
      BY <1>1, <1>2, <3>2 DEF RegistryInv
    <3>3. QED BY <1>6, <3>1, <3>2
  <2>5. QED BY <2>1, <2>2, <2>3, <2>4 DEF RegistryInv, OneEach
<1>12. /\ \A k \in Nat : k <= issued => WithId(records', k) = WithId(records, k)
       /\ WithId(records', issued + 1) = {n}
  BY <1>1, <1>2 DEF WithId
<1>13. ASSUME NEW u \in Tool PROVE Knows(u)' /\ InTime(u)'
  <2>1. \A v \in Tool : rec[v] \in Nat /\ rec[v] <= issued
    BY DEF ToolInv, Knows, SupervisionTypeOK
  <2>2. CASE u = t
    <3>1. \A v \in Tool : rec'[t] = rec'[v] => t = v
      BY <1>2, <1>8, <2>1
    <3>2. /\ pc'[t] \in Holding
          /\ \A r \in WithId(records', rec'[t]) : IsOf(r, child[t])
      BY <1>2, <1>8, <1>12 DEF Holding, IsOf
    <3>3. Knows(t)'
      BY <1>1, <1>2, <1>8, <3>1, <3>2 DEF Knows, IsOf, WithId
    <3>4. issued + 1 \notin todo
      BY <1>2 DEF ReaperInv, Ids
    <3>5. n \in records' /\ n.age <= StaleAfter
      BY <1>1, <1>2, SupervisionAssumption
    <3>6. InTime(t)'
      BY <1>1, <1>2, <1>8, <3>4, <3>5 DEF InTime, RunningRecord, WithId
    <3>7. QED BY <2>2, <3>3, <3>6
  <2>3. CASE u # t
    <3>1. pc'[u] = pc[u] /\ rec'[u] = rec[u] /\ WithId(records', rec[u]) = WithId(records, rec[u])
      BY <1>8, <1>12, <2>1, <2>3
    <3>2. \A v \in Tool : rec[u] = rec'[v] /\ rec[u] > 0 => u = v
      BY <1>2, <1>8, <2>1, <2>3 DEF ToolInv, Knows
    <3>3. pc[u] = "spawned" => \A r \in records' \cup disk' : ~ IsOf(r, child[u])
      <4>1. pc[u] = "spawned" => child[u] # child[t]
        BY <1>1, <2>3 DEF OsInv, Holding
      <4>2. QED BY <1>1, <1>2, <1>6, <4>1 DEF ToolInv, Knows, IsOf
    <3>4. Knows(u)'
      BY <1>1, <1>2, <2>1, <3>1, <3>2, <3>3 DEF ToolInv, Knows, IsOf, Gone, WithId
    <3>5. InTime(u)'
      BY <1>1, <3>1 DEF ToolInv, InTime, RunningRecord, WithId
    <3>6. QED BY <3>4, <3>5
  <2>4. QED BY <2>2, <2>3
<1>14. ReaperInv'
  <2>1. todo \subseteq Ids(records)'
    BY <1>1 DEF ReaperInv, Ids
  <2>2. todo # {} => WithId(records', Min(todo)) = WithId(records, Min(todo))
    <3>1. ASSUME todo # {} PROVE Min(todo) \in Nat /\ Min(todo) <= issued
      BY <1>2, <3>1, TargetIsListed
    <3>2. QED BY <1>12, <3>1
  <2>3. \A r \in records : Settled(r) => Settled(r)'
    <3>1. \A r \in records : <<r.pid, r.identity>> # e
      BY <1>2, <1>7
    <3>2. QED BY <1>1, <1>6, <3>1 DEF Settled, Gone, IsOf
  <2>4. todo # {} => \A r \in WithId(records', Min(todo)) :
          /\ rpc \in {"lose", "terminate"} => Settled(r)'
          /\ rpc = "kill" /\ SlowReuse => IsOf(r, r.pid)'
    BY <1>1, <2>2, <2>3 DEF ReaperInv, WithId, IsOf
  <2>5. QED BY <1>1, <2>1, <2>4 DEF ReaperInv, WithId
<1>15. QED BY <1>9, <1>10, <1>11, <1>13, <1>14 DEF ToolInv

(* What the next program finds is the file.                                *)
LEMMA CrashKeeps == ASSUME SupervisionIInv, Crash PROVE SupervisionIInv'
<1> USE DEF SupervisionIInv
<1>1. /\ crashes < MaxCrashes /\ crashes' = crashes + 1
      /\ records' = disk /\ UNCHANGED <<disk, issued, tracked, faults>>
      /\ pc' = [t \in Tool |-> "idle"] /\ rec' = [t \in Tool |-> 0]
      /\ child' = [t \in Tool |-> NoPid]
      /\ overdue' = [t \in Tool |-> FALSE] /\ late' = [t \in Tool |-> FALSE]
      /\ fate' = [t \in Tool |-> "failed"]
      /\ rpc' = "off" /\ todo' = {} /\ cycle' = 0
  BY DEF Crash
<1>2. proc' = [p \in Pid |-> IF proc[p].state = "alive" THEN proc[p]
                             ELSE [proc[p] EXCEPT !.state = "free"]]
  BY DEF Crash
<1>3. ASSUME NEW p \in Pid
      PROVE  /\ proc'[p] \in Process /\ proc'[p].identity = proc[p].identity
             /\ proc'[p].state = "alive" => proc[p].state = "alive"
  BY <1>2 DEF SupervisionTypeOK, Process
<1>4. ProcStep /\ ProcType
  BY <1>2, <1>3 DEF ProcStep, ProcType, OsInv
<1>5. SupervisionTypeOK'
  <2>1. 0 \in 0 .. MaxRecords /\ 0 \in 0 .. MaxCycles /\ "failed" \in Ended
        /\ crashes' \in 0 .. MaxCrashes
    BY <1>1, SupervisionAssumption DEF Ended, SupervisionTypeOK
  <2>2. QED BY <1>1, <1>4, <2>1 DEF SupervisionTypeOK, ProcType
<1>6. OnRecord(disk)'
  BY <1>1, <1>4, OnRecordStays DEF RegistryInv, OnRecord, IsOf
<1>7. RegistryInv'
  BY <1>1, <1>6 DEF RegistryInv, OneEach, OnRecord, IsOf
<1>8. OsInv'
  <2>1. \A x \in tracked : x[2] <= proc'[x[1]].identity
    BY <1>3 DEF OsInv, SupervisionTypeOK
  <2>2. \A r \in disk : r.id <= issued /\ r.identity <= proc'[r.pid].identity
    BY <1>3, RecordFields DEF OsInv
  <2>3. QED BY <1>1, <1>3, <2>1, <2>2 DEF OsInv, Holding
<1>9. ToolInv'
  <2>1. \A r \in disk : r.id > 0
    BY RecordFields
  <2>2. issued \in Nat
    BY DEF SupervisionTypeOK
  <2>3. QED BY <1>1, <2>1, <2>2 DEF ToolInv, Knows, InTime, WithId, Watching, Holding
<1>10. ReaperInv'
  BY <1>1 DEF ReaperInv
<1>11. QED BY <1>5, <1>7, <1>8, <1>9, <1>10

LEMMA InitIInv == Init => SupervisionIInv
<1> SUFFICES ASSUME Init PROVE SupervisionIInv
  OBVIOUS
<1> USE DEF Init
<1>1. SupervisionTypeOK
  <2>1. "failed" \in Ended /\ 0 \in 0 .. MaxRecords /\ 0 \in 0 .. MaxCycles
        /\ 0 \in 0 .. MaxCrashes /\ 0 \in 0 .. MaxFaults
    BY SupervisionAssumption DEF Ended
  <2>2. QED BY <2>1 DEF SupervisionTypeOK, Process
<1>2. OsInv
  BY SupervisionAssumption DEF OsInv, Holding
<1>3. RegistryInv
  BY DEF RegistryInv, OneEach, OnRecord
<1>4. ToolInv
  BY DEF ToolInv, Knows, InTime, WithId, Holding, Watching
<1>5. ReaperInv
  BY DEF ReaperInv
<1>6. QED BY <1>1, <1>2, <1>3, <1>4, <1>5 DEF SupervisionIInv

LEMMA StutterKeeps == ASSUME SupervisionIInv, UNCHANGED vars PROVE SupervisionIInv'
<1> USE DEF SupervisionIInv, vars, osVars, regVars, toolVars, reaperVars
<1>1. SupervisionTypeOK'
  BY DEF SupervisionTypeOK
<1>2. OsInv'
  BY DEF OsInv
<1>3. RegistryInv'
  BY DEF RegistryInv, OneEach, OnRecord, IsOf
<1>4. ToolInv'
  BY DEF ToolInv, Knows, InTime, RunningRecord, WithId, IsOf, Gone
<1>5. ReaperInv'
  BY DEF ReaperInv, Ids, WithId, IsOf, Gone, Settled
<1>6. QED BY <1>1, <1>2, <1>3, <1>4, <1>5

LEMMA NextKeeps == ASSUME SupervisionIInv, [Next]_vars PROVE SupervisionIInv'
<1>1. ASSUME NEW p \in Pid, Stranger(p) \/ Exit(p) PROVE SupervisionIInv'
  BY <1>1, StrangerKeeps, ExitKeeps
<1>2. ASSUME NEW t \in Tool, NEW p \in Pid, Spawn(t, p) PROVE SupervisionIInv'
  BY <1>2, SpawnKeeps
<1>3. ASSUME NEW t \in Tool, Call(t) \/ Deadline(t) PROVE SupervisionIInv'
  BY <1>3, RegisterKeeps, QuietCalls, UnregisteredKeeps, PollKeeps, BeatKeeps,
     AbortKeeps, FinishKeeps DEF Call
<1>4. ASSUME StartService \/ Service PROVE SupervisionIInv'
  BY <1>4, ServiceMoves, LookupKeeps, LookupFailsKeeps, KillKeeps, ReapedKeeps, PruneKeeps DEF Service
<1>5. QED
  BY <1>1, <1>2, <1>3, <1>4, CrashKeeps, TickKeeps, StutterKeeps DEF Next

(* The inductive invariant holds throughout: identities name processes,    *)
(* only what is gone, or was given up by the reaper after a lookup that    *)
(* failed, ends in the registry, and file and memory do not contradict     *)
(* each other, whatever saves, tools, reaper and host do.                  *)
THEOREM SupervisionInvariance == Spec => []SupervisionIInv
<1>1. Init => SupervisionIInv
  BY InitIInv
<1>2. SupervisionIInv /\ [Next]_vars => SupervisionIInv'
  BY NextKeeps
<1>3. QED BY <1>1, <1>2, PTL DEF Spec

(* No process is left running without account, unless a lookup of the      *)
(* reaper failed to see it (a live process is then recorded as lost); and  *)
(* a tool that heartbeats in time finds its record running when it         *)
(* finishes it, whatever lookups fail.                                     *)
THEOREM ProcessesAccountedFor == Spec => []SupervisionInv
<1>1. SupervisionIInv => SupervisionInv
  <2> SUFFICES ASSUME SupervisionIInv PROVE SupervisionInv
    OBVIOUS
  <2>1. AliveIsOnRecord
    BY DEF SupervisionIInv, RegistryInv, OnRecord, IsOf, AliveIsOnRecord
  <2>2. WatchedIsRunning
    BY DEF SupervisionIInv, ToolInv, InTime, WatchedIsRunning
  <2>3. QED BY <2>1, <2>2 DEF SupervisionInv, SupervisionIInv
<1>2. QED BY <1>1, SupervisionInvariance, PTL

(* The reaper kills no process whose tool heartbeats in time, whatever old *)
(* records of its pid there are, if no pid is given again between the      *)
(* lookup of its holder and the signal.                                    *)
LEMMA KillsOthers ==
  ASSUME SlowReuse, SupervisionIInv, [Next]_vars PROVE WatchedSurvivesStep
<1> USE DEF SupervisionIInv
<1> SUFFICES ASSUME rpc = "kill", rpc' = "terminate",
                    NEW t \in Tool, pc[t] \in Holding \cap Watching, ~ overdue[t]
             PROVE  proc'[child[t]] = proc[child[t]]
  BY DEF WatchedSurvivesStep
<1>1. proc' = proc \/ Kill
  BY DEF Next, Call, Service, Stranger, Exit, Spawn, Register, RegisterFails, Unregistered,
         Poll, Deadline, Beat, BeatRefused, Abort, Finish, StartService, Sweep, Lookup,
         LookupFails, Reaped, SweepOver, Prune, Pause, Crash, Tick, osVars, reaperVars, vars
<1>2. CASE Kill
  <2>1. todo # {} /\ proc' = Killed(Target.pid)
    BY <1>2 DEF ReaperInv, Kill
  <2>2. /\ Min(todo) \in todo /\ Target \in records /\ Target.id = Min(todo)
    BY <2>1, TargetIsListed
  <2>3. IsOf(Target, Target.pid) /\ Target.pid \in Pid
    BY <2>1, <2>2, RecordFields DEF ReaperInv, WithId
  <2>4. PICK r \in records : r.id = rec[t] /\ rec[t] \notin todo
    BY DEF ToolInv, InTime, RunningRecord, WithId
  <2>5. IsOf(r, child[t])
    BY <2>4 DEF ToolInv, Knows, WithId
  <2>6. child[t] # Target.pid
    BY <2>2, <2>3, <2>4, <2>5 DEF RegistryInv, IsOf
  <2>7. child[t] \in Pid
    BY DEF OsInv
  <2>8. QED BY <2>1, <2>3, <2>6, <2>7 DEF Killed, SupervisionTypeOK
<1>3. QED BY <1>1, <1>2

(* With no reuse of a pid between lookup and kill, the reaper never ends a *)
(* process whose tool is in time with its heartbeats.                      *)
THEOREM ReaperSparesWatched == ASSUME SlowReuse PROVE Spec => WatchedSurvives
<1>1. SupervisionIInv /\ [Next]_vars => [WatchedSurvivesStep]_vars
  BY KillsOthers
<1>2. QED BY <1>1, SupervisionInvariance, PTL DEF Spec, WatchedSurvives

(* A step leaves the file as it was, older, or with the records of memory; *)
(* a record that goes on there keeps its verdict.                          *)
LEMMA VerdictKept ==
  ASSUME SupervisionIInv, [Next]_vars PROVE VerdictStandsStep
<1> USE DEF SupervisionIInv
<1>1. CASE disk' = disk
  BY <1>1 DEF VerdictStandsStep, RegistryInv, OneEach
<1>2. CASE Tick
  <2>1. Aging(disk', disk)
    BY <1>2, AgedRecords DEF Tick, SupervisionTypeOK
  <2>2. QED BY <2>1 DEF Aging, VerdictStandsStep, RegistryInv, OneEach
<1>3. ASSUME disk' = records',
             \A s \in records' : \/ \E r \in records : r.id = s.id /\ r.status = s.status
                                 \/ \A r \in disk : r.id = s.id => r.status \notin Ended
      PROVE  VerdictStandsStep
  BY <1>3 DEF VerdictStandsStep, RegistryInv
<1>4. ASSUME NEW t \in Tool, Register(t) PROVE VerdictStandsStep
  <2>1. pc[t] = "spawned" /\ issued < MaxRecords /\ records' = records \cup {NewRecord(t)}
    BY <1>4 DEF Register
  <2>2. NewRecord(t).id = issued + 1 /\ issued \in Nat
        /\ \A r \in disk : r.id <= issued /\ r.id \in Nat
    BY <2>1, FreshRecord
  <2>3. \A r \in disk : r.id # NewRecord(t).id
    BY <2>2
  <2>4. disk' = disk \/ disk' = records'
    BY <1>4 DEF Register, Save, SaveFails
  <2>5. QED BY <1>1, <1>3, <2>1, <2>3, <2>4
<1>5. ASSUME NEW r \in records, NEW s, records' = Replaced(r, s), s.id = r.id,
             r.status = "running", Save \/ SaveFails
      PROVE  VerdictStandsStep
  <2>1. \A q \in disk : q.id = s.id => q.status \notin Ended
    BY <1>5 DEF RegistryInv, Ended
  <2>2. QED BY <1>1, <1>3, <1>5, <2>1 DEF Save, SaveFails, Replaced
<1>6. ASSUME NEW t \in Tool, Beat(t) PROVE VerdictStandsStep
  <2>1. PICK r \in RunningRecord(rec[t]) : records' = Replaced(r, [r EXCEPT !.age = 0])
    BY <1>6 DEF Beat
  <2>2. r \in records /\ r.status = "running" /\ [r EXCEPT !.age = 0].id = r.id
    BY RecordFields DEF RunningRecord, WithId, Record
  <2>3. QED BY <1>5, <1>6, <2>1, <2>2 DEF Beat
<1>7. ASSUME NEW id, NEW status \in Ended, NEW raised \in BOOLEAN, Finished(id, status, raised)
      PROVE  VerdictStandsStep
  <2>1. CASE UNCHANGED <<records, disk, faults>>
    BY <1>1, <2>1
  <2>2. ASSUME Save \/ SaveFails, NEW r \in RunningRecord(id),
               records' = Replaced(r, EndedAs(r, status))
        PROVE  VerdictStandsStep
    <3>1. r \in records /\ r.status = "running" /\ r \in Record
      BY RecordFields DEF RunningRecord, WithId
    <3>2. EndedAs(r, status).id = r.id
      BY <3>1, <1>7, EndedFields
    <3>3. QED BY <1>5, <2>2, <3>1, <3>2
  <2>3. QED BY <1>7, <2>1, <2>2, FinishedCases
<1>8. ASSUME NEW t \in Tool, Finish(t) PROVE VerdictStandsStep
  BY <1>7, <1>8 DEF Finish, SupervisionTypeOK
<1>9. CASE Reaped
  <2>1. "lost" \in Ended /\ "terminated" \in Ended
    BY DEF Ended
  <2>2. QED BY <1>7, <1>9, <2>1 DEF Reaped
<1>10. CASE Prune
  <2>1. records' \subseteq records /\ (disk' = disk \/ disk' = records')
    BY <1>10, SaveOrFail DEF Prune
  <2>2. QED BY <1>1, <1>3, <2>1
<1>11. \/ disk' = disk \/ Tick \/ Reaped \/ Prune
       \/ \E t \in Tool : Register(t) \/ Beat(t) \/ Finish(t)
  BY DEF Next, Call, Service, Stranger, Exit, Spawn, RegisterFails, Unregistered, Poll,
         Deadline, BeatRefused, Abort, StartService, Sweep, Lookup, LookupFails, Kill,
         SweepOver, Pause, Crash, regVars, vars
<1>12. QED BY <1>1, <1>2, <1>4, <1>6, <1>8, <1>9, <1>10, <1>11

(* The reaper and a tool that comes late do not overrule each other: what  *)
(* ended in the file keeps its status as long as it is there.              *)
THEOREM VerdictsStand == Spec => VerdictStands
<1>1. SupervisionIInv /\ [Next]_vars => [VerdictStandsStep]_vars
  BY VerdictKept
<1>2. QED BY <1>1, SupervisionInvariance, PTL DEF Spec, VerdictStands
=============================================================================
