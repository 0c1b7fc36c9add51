---------------------------- MODULE DirectoryLock ----------------------------
(***************************************************************************)
(* DirectoryLock: `with DirectoryLock(path, deadline=...)` by which        *)
(* processes take turns on a JSON registry.  One step is one file-system   *)
(* call.  Time is relative: every instant the code compares with the clock *)
(* is kept as an age that Tick increases, and an age beyond StaleAfter is  *)
(* not told from StaleAfter + 1, so that time never has to stop.           *)
(* A definition whose name says what is wrong with it (JudgeNeverStale,    *)
(* MkdirExistOk, ...) is a faulty variant of the one that follows it.      *)
(***************************************************************************)
EXTENDS Naturals, FiniteSets

CONSTANTS
  Process,     \* contenders
  StaleAfter,  \* stale_after_seconds
  Patience,    \* deadline - clock() when the lock is entered
  Pace,        \* bound: time from mkdir to the end of rmtree, or from stat
               \* to rename, that a running process takes at most
  OwnersMayDie, \* may a process die between its mkdir and its last rmdir
  MaxCrashes,  \* bound: processes that die inside the lock code
  NoDir        \* lockdir when path does not exist

ASSUME LockAssumption ==
  /\ StaleAfter \in Nat /\ Patience \in Nat /\ Pace \in Nat
  /\ OwnersMayDie \in BOOLEAN /\ MaxCrashes \in Nat
  /\ NoDir \notin [made : Nat, stamp : Nat, stamped : BOOLEAN]

VARIABLES
  pc,       \* process -> the call it is about to make
  lockdir,  \* NoDir, or ages of path's mtime and of its created_at
  basis,    \* process -> age of the instant staleness is judged by
  left,     \* process -> time to its deadline
  elapsed,  \* process -> time since its stat, or since its mkdir
  crashes   \* processes that died so far

lockVars == <<pc, lockdir, basis, left, elapsed, crashes>>

Age == 0 .. StaleAfter + 1
Dir == [made : Age, stamp : Age, stamped : BOOLEAN]
Older(age) == IF age > StaleAfter THEN age ELSE age + 1

Reclaiming == {"read", "judge", "rename"}
Owning     == {"stamp", "locked", "rmdir"}
PC == {"idle", "look", "stat", "mkdir", "wait"} \cup Reclaiming \cup Owning

Goto(p, at) == pc' = [pc EXCEPT ![p] = at]

-----------------------------------------------------------------------------
LockInit ==
  /\ pc = [p \in Process |-> "idle"]
  /\ lockdir = NoDir
  /\ basis = [p \in Process |-> 0]
  /\ left = [p \in Process |-> 0]
  /\ elapsed = [p \in Process |-> 0]
  /\ crashes = 0

Enter(p) == /\ pc[p] = "idle"
            /\ Goto(p, "look")
            /\ left' = [left EXCEPT ![p] = Patience]
            /\ UNCHANGED <<lockdir, basis, elapsed, crashes>>

(* if self.path.exists(): self._reclaim_if_stale()                         *)
Look(p) == /\ pc[p] = "look"
           /\ Goto(p, IF lockdir = NoDir THEN "mkdir" ELSE "stat")
           /\ UNCHANGED <<lockdir, basis, left, elapsed, crashes>>

Stat(p) == /\ pc[p] = "stat"
           /\ \/ /\ lockdir = NoDir
                 /\ Goto(p, "mkdir")
                 /\ UNCHANGED <<basis, elapsed>>
              \/ /\ lockdir # NoDir
                 /\ Goto(p, "read")
                 /\ basis' = [basis EXCEPT ![p] = lockdir.made]
                 /\ elapsed' = [elapsed EXCEPT ![p] = 0]
           /\ UNCHANGED <<lockdir, left, crashes>>

(* created_at counts when it can be read, else the mtime seen by stat.     *)
ReadStamp(p) ==
  /\ pc[p] = "read"
  /\ Goto(p, "judge")
  /\ basis' = IF lockdir # NoDir /\ lockdir.stamped
              THEN [basis EXCEPT ![p] = lockdir.stamp] ELSE basis
  /\ UNCHANGED <<lockdir, left, elapsed, crashes>>

JudgeNeverStale(p) ==
  /\ pc[p] = "judge"
  /\ Goto(p, "mkdir")
  /\ UNCHANGED <<lockdir, basis, left, elapsed, crashes>>

Judge(p) == /\ pc[p] = "judge"
            /\ Goto(p, IF basis[p] <= StaleAfter THEN "mkdir" ELSE "rename")
            /\ UNCHANGED <<lockdir, basis, left, elapsed, crashes>>

(* The rename takes away whatever is at path now, not what was judged.     *)
Rename(p) == /\ pc[p] = "rename"
             /\ Goto(p, "mkdir")
             /\ lockdir' = NoDir
             /\ UNCHANGED <<basis, left, elapsed, crashes>>

MkdirExistOk(p) ==
  /\ pc[p] = "mkdir"
  /\ Goto(p, "stamp")
  /\ lockdir' = IF lockdir = NoDir THEN [made |-> 0, stamp |-> 0, stamped |-> FALSE]
                                   ELSE lockdir
  /\ elapsed' = [elapsed EXCEPT ![p] = 0]
  /\ UNCHANGED <<basis, left, crashes>>

Mkdir(p) ==
  /\ pc[p] = "mkdir"
  /\ \/ /\ lockdir = NoDir
        /\ Goto(p, "stamp")
        /\ lockdir' = [made |-> 0, stamp |-> 0, stamped |-> FALSE]
        /\ elapsed' = [elapsed EXCEPT ![p] = 0]
     \/ /\ lockdir # NoDir
        /\ Goto(p, "wait")
        /\ UNCHANGED <<lockdir, elapsed>>
  /\ UNCHANGED <<basis, left, crashes>>

(* created_at is written into whatever directory is at path; with none     *)
(* there the FileNotFoundError leaves __enter__.                           *)
WriteStamp(p) ==
  /\ pc[p] = "stamp"
  /\ \/ /\ lockdir = NoDir
        /\ Goto(p, "idle")
        /\ UNCHANGED lockdir
     \/ /\ lockdir # NoDir
        /\ Goto(p, "locked")
        /\ lockdir' = [made |-> IF lockdir.stamped THEN lockdir.made ELSE 0,
                       stamp |-> 0, stamped |-> TRUE]
  /\ UNCHANGED <<basis, left, elapsed, crashes>>

WaitWithoutDeadline(p) ==
  /\ pc[p] = "wait"
  /\ Goto(p, "look")
  /\ UNCHANGED <<lockdir, basis, left, elapsed, crashes>>

(* TimeoutError at the deadline, another round before it.                  *)
Wait(p) == /\ pc[p] = "wait"
           /\ Goto(p, IF left[p] = 0 THEN "idle" ELSE "look")
           /\ UNCHANGED <<lockdir, basis, left, elapsed, crashes>>

(* __exit__: rmtree removes the directory at path, created_at first; what  *)
(* is in its way (no directory, a created_at again) it ignores.            *)
Leave(p) ==
  /\ pc[p] = "locked"
  /\ \/ /\ lockdir = NoDir
        /\ Goto(p, "idle")
        /\ UNCHANGED lockdir
     \/ /\ lockdir # NoDir
        /\ Goto(p, "rmdir")
        /\ lockdir' = [made |-> IF lockdir.stamped THEN 0 ELSE lockdir.made,
                       stamp |-> lockdir.stamp, stamped |-> FALSE]
  /\ UNCHANGED <<basis, left, elapsed, crashes>>

RemoveDir(p) ==
  /\ pc[p] = "rmdir"
  /\ Goto(p, "idle")
  /\ lockdir' = IF lockdir # NoDir /\ lockdir.stamped THEN lockdir ELSE NoDir
  /\ UNCHANGED <<basis, left, elapsed, crashes>>

(* A process dies; another one may contend in its place.                   *)
Crash(p) == /\ crashes < MaxCrashes
            /\ pc[p] # "idle"
            /\ pc[p] \in Owning => OwnersMayDie
            /\ crashes' = crashes + 1
            /\ Goto(p, "idle")
            /\ UNCHANGED <<lockdir, basis, left, elapsed>>

Hurried(p) == pc[p] \in Reclaiming \cup Owning

Tick ==
  /\ \A p \in Process : Hurried(p) => elapsed[p] < Pace
  /\ lockdir' = IF lockdir = NoDir THEN NoDir
                ELSE [lockdir EXCEPT !.made = Older(@), !.stamp = Older(@)]
  /\ basis' = [p \in Process |-> IF pc[p] \in Reclaiming THEN Older(basis[p])
                                                         ELSE basis[p]]
  /\ left' = [p \in Process |-> IF left[p] = 0 THEN 0 ELSE left[p] - 1]
  /\ elapsed' = [p \in Process |-> IF Hurried(p) THEN elapsed[p] + 1 ELSE elapsed[p]]
  /\ UNCHANGED <<pc, crashes>>

(* The calls of __enter__, after the first look, and of __exit__.          *)
Contend(p) == \/ Look(p) \/ Stat(p) \/ ReadStamp(p) \/ Judge(p) \/ Rename(p)
              \/ Mkdir(p) \/ WriteStamp(p) \/ Wait(p) \/ RemoveDir(p)

LockNext == \/ \E p \in Process : Enter(p) \/ Contend(p) \/ Leave(p) \/ Crash(p)
            \/ Tick

LockSpec == LockInit /\ [][LockNext]_lockVars

(* Running processes make their calls, critical sections end, time passes. *)
LockFairness == /\ \A p \in Process : WF_lockVars(Contend(p)) /\ WF_lockVars(Leave(p))
                /\ WF_lockVars(Tick)

(* Schedulers that keep coming back for the registry.                      *)
BusyFairness == LockFairness /\ \A p \in Process : WF_lockVars(Enter(p))

BusyLockSpec == LockSpec /\ BusyFairness

-----------------------------------------------------------------------------
(* Every variable keeps its type.                                          *)
LockTypeOK ==
  /\ pc \in [Process -> PC]
  /\ lockdir \in Dir \cup {NoDir}
  /\ basis \in [Process -> Age]
  /\ left \in [Process -> 0 .. Patience]
  /\ elapsed \in [Process -> 0 .. Pace]
  /\ crashes \in 0 .. MaxCrashes

Orphaned == lockdir # NoDir /\ \A p \in Process : pc[p] \notin Owning

(* At most one process is between its mkdir and its last rmdir: what every *)
(* registry transaction relies on.                                         *)
MutualExclusion ==
  \A p, q \in Process : pc[p] \in Owning /\ pc[q] \in Owning => p = q

(* A lock in use is never reclaimed: the directory its owner made is there *)
(* until the owner itself removes it.                                      *)
OwnedDirStays ==
  \A p \in Process : pc[p] \in Owning => /\ lockdir # NoDir
                                         /\ pc[p] = "locked" => lockdir.stamped

(* __enter__ comes back: with the lock, or with an error by its deadline.  *)
EnterReturns ==
  \A p \in Process : pc[p] = "look" ~> pc[p] \in {"idle", "locked"}

(* A directory left behind by a dead owner, with or without created_at, is *)
(* reclaimed as long as processes keep coming for the lock.                *)
OrphanReclaimed == Orphaned ~> ~Orphaned

(* The inductive invariant of a system in which no owner dies and          *)
(* StaleAfter leaves room for two slow processes, an owner and a contender *)
(* judging it: no age a contender holds is ever a stale one.               *)
Prompt == ~OwnersMayDie /\ 2 * Pace <= StaleAfter

OwnerHasDir ==
  \A p \in Process : pc[p] \in Owning =>
    /\ lockdir # NoDir
    /\ lockdir.made <= elapsed[p]
    /\ lockdir.stamped => lockdir.stamp <= elapsed[p]
    /\ lockdir.stamped <=> pc[p] = "locked"

DirHasOwner == lockdir # NoDir => \E p \in Process : pc[p] \in Owning

NobodyReclaims ==
  \A p \in Process : /\ pc[p] # "rename"
                     /\ pc[p] \in {"read", "judge"} => basis[p] <= Pace + elapsed[p]

LockInv == /\ LockTypeOK /\ MutualExclusion
           /\ OwnerHasDir /\ DirHasOwner /\ NobodyReclaims
=============================================================================
