------------------------ MODULE LockedRegistryProofs ------------------------
(***************************************************************************)
(* When the directory lock is a lock: for every number of contenders, if   *)
(* none dies as an owner and StaleAfter is at least twice the time an      *)
(* owner, or a contender judging a directory, may take.  TLC shows that    *)
(* one dead owner is enough to break it.  Under such a lock a registry     *)
(* transaction is atomic and fencing tokens only increase.                 *)
(***************************************************************************)
EXTENDS LockedRegistry, TLAPS

USE LockAssumption

(* An age on disk is never NoDir.                                          *)
LEMMA DirIsNotNoDir == ASSUME NEW d \in Dir PROVE d # NoDir
  BY DEF Dir, Age

LEMMA NewDir ==
  ASSUME NEW made \in Age, NEW stamp \in Age, NEW stamped \in BOOLEAN
  PROVE  [made |-> made, stamp |-> stamp, stamped |-> stamped] \in Dir
  BY DEF Dir

LEMMA ZeroAge == 0 \in Age
  BY DEF Age

LEMMA OlderAge == ASSUME NEW age \in Age
                  PROVE  Older(age) \in Age /\ Older(age) <= age + 1
  BY DEF Older, Age

(* Types are kept by every step.                                           *)
LEMMA LockTypeStep == LockTypeOK /\ [LockNext]_lockVars => LockTypeOK'
<1> SUFFICES ASSUME LockTypeOK, [LockNext]_lockVars PROVE LockTypeOK'
  OBVIOUS
<1> USE DEF LockTypeOK, Goto, PC, Reclaiming, Owning
<1>1. ASSUME NEW p \in Process, Enter(p) PROVE LockTypeOK'
  BY <1>1 DEF Enter
<1>2. ASSUME NEW p \in Process, Look(p) PROVE LockTypeOK'
  BY <1>2 DEF Look
<1>3. ASSUME NEW p \in Process, Stat(p) PROVE LockTypeOK'
  BY <1>3 DEF Stat, Dir
<1>4. ASSUME NEW p \in Process, ReadStamp(p) PROVE LockTypeOK'
  BY <1>4 DEF ReadStamp, Dir
<1>5. ASSUME NEW p \in Process, Judge(p) \/ Rename(p) \/ Wait(p) PROVE LockTypeOK'
  <2>1. CASE Judge(p)
    BY <2>1 DEF Judge
  <2>2. CASE Rename(p)
    BY <2>2 DEF Rename
  <2>3. CASE Wait(p)
    BY <2>3 DEF Wait
  <2>4. QED BY <1>5, <2>1, <2>2, <2>3
<1>6. ASSUME NEW p \in Process, Mkdir(p) PROVE LockTypeOK'
  <2>1. [made |-> 0, stamp |-> 0, stamped |-> FALSE] \in Dir
    BY ZeroAge DEF Dir
  <2>2. lockdir' \in Dir \cup {NoDir}
    BY <1>6, <2>1 DEF Mkdir
  <2>3. QED BY <1>6, <2>2 DEF Mkdir
<1>7. ASSUME NEW p \in Process, WriteStamp(p) PROVE LockTypeOK'
  <2>1. lockdir' \in Dir \cup {NoDir}
    <3>1. lockdir # NoDir => lockdir.made \in Age
      BY DEF Dir
    <3> DEFINE age == IF lockdir.stamped THEN lockdir.made ELSE 0
    <3>2. lockdir # NoDir => [made |-> age, stamp |-> 0, stamped |-> TRUE] \in Dir
      BY <3>1, NewDir, ZeroAge
    <3>3. QED BY <1>7, <3>2 DEF WriteStamp
  <2>2. QED BY <1>7, <2>1 DEF WriteStamp
<1>8. ASSUME NEW p \in Process, Leave(p) PROVE LockTypeOK'
  <2>1. lockdir' \in Dir \cup {NoDir}
    <3>1. lockdir # NoDir => lockdir.made \in Age /\ lockdir.stamp \in Age
      BY DEF Dir
    <3> DEFINE age == IF lockdir.stamped THEN 0 ELSE lockdir.made
    <3>2. lockdir # NoDir =>
            [made |-> age, stamp |-> lockdir.stamp, stamped |-> FALSE] \in Dir
      BY <3>1, NewDir, ZeroAge
    <3>3. QED BY <1>8, <3>2 DEF Leave
  <2>2. QED BY <1>8, <2>1 DEF Leave
<1>9. ASSUME NEW p \in Process, RemoveDir(p) PROVE LockTypeOK'
  BY <1>9 DEF RemoveDir
<1>10. ASSUME NEW p \in Process, Crash(p) PROVE LockTypeOK'
  BY <1>10 DEF Crash
<1>11. CASE Tick
  <2>1. lockdir' \in Dir \cup {NoDir}
    BY <1>11, OlderAge DEF Tick, Dir
  <2>2. basis' \in [Process -> Age]
    BY <1>11, OlderAge DEF Tick
  <2>3. QED BY <1>11, <2>1, <2>2 DEF Tick, Hurried
<1>12. CASE UNCHANGED lockVars
  BY <1>12 DEF lockVars
<1>13. QED
  BY <1>1, <1>2, <1>3, <1>4, <1>5, <1>6, <1>7, <1>8, <1>9, <1>10, <1>11, <1>12
  DEF LockNext, Contend

(* Type correctness of the lock, however many processes die in it.         *)
THEOREM LockTypeCorrect == LockSpec => []LockTypeOK
<1>1. LockInit => LockTypeOK
  BY DEF LockInit, LockTypeOK, PC, Age
<1>2. QED BY <1>1, LockTypeStep, PTL DEF LockSpec

-----------------------------------------------------------------------------
(* LockInv is inductive when everyone is prompt.                           *)
LEMMA LockStep ==
  ASSUME Prompt
  PROVE  LockInv /\ [LockNext]_lockVars => LockInv'
<1> SUFFICES ASSUME LockInv, [LockNext]_lockVars PROVE LockInv'
  OBVIOUS
<1>0. LockTypeOK'
  BY LockTypeStep DEF LockInv
<1> USE DEF LockInv, LockTypeOK, PC, Goto, Reclaiming, Owning
<1>1. ASSUME lockdir' = lockdir, elapsed' = elapsed, basis' = basis,
             \A p \in Process : pc'[p] \in Owning <=> pc[p] \in Owning,
             \A p \in Process : pc[p] \in Owning => pc'[p] = pc[p],
             \A p \in Process : /\ pc'[p] # "rename"
                                /\ pc'[p] \in {"read", "judge"} =>
                                     basis[p] <= Pace + elapsed[p]
      PROVE  LockInv'
  BY <1>0, <1>1 DEF MutualExclusion, OwnerHasDir, DirHasOwner, NobodyReclaims
<1>2. ASSUME NEW p \in Process, Enter(p) \/ Look(p) \/ Wait(p) PROVE LockInv'
  BY <1>1, <1>2 DEF Enter, Look, Wait, NobodyReclaims
<1>3. ASSUME NEW p \in Process, Stat(p) PROVE LockInv'
  <2>1. CASE lockdir = NoDir
    BY <1>1, <1>3, <2>1 DEF Stat, NobodyReclaims
  <2>2. CASE lockdir # NoDir
    <3>1. lockdir.made \in Nat /\ lockdir.made <= Pace
      <4>1. PICK o \in Process : pc[o] \in Owning
        BY <2>2 DEF DirHasOwner
      <4>2. lockdir.made <= elapsed[o] /\ elapsed[o] \in 0 .. Pace
        BY <4>1 DEF OwnerHasDir
      <4>3. QED BY <2>2, <4>2 DEF Age, Dir
    <3>2. /\ lockdir' = lockdir /\ pc' = [pc EXCEPT ![p] = "read"] /\ pc[p] = "stat"
          /\ basis' = [basis EXCEPT ![p] = lockdir.made]
          /\ elapsed' = [elapsed EXCEPT ![p] = 0]
      BY <1>3, <2>2 DEF Stat
    <3>3. NobodyReclaims'
      BY <3>1, <3>2 DEF NobodyReclaims
    <3>4. MutualExclusion' /\ OwnerHasDir' /\ DirHasOwner'
      BY <3>2 DEF MutualExclusion, OwnerHasDir, DirHasOwner
    <3>5. QED BY <1>0, <3>3, <3>4
  <2>3. QED BY <2>1, <2>2
<1>4. ASSUME NEW p \in Process, ReadStamp(p) PROVE LockInv'
  <2>1. lockdir # NoDir /\ lockdir.stamped => lockdir.stamp \in Nat /\ lockdir.stamp <= Pace
    <3>1. SUFFICES ASSUME lockdir # NoDir, lockdir.stamped
                   PROVE  lockdir.stamp \in Nat /\ lockdir.stamp <= Pace
      OBVIOUS
    <3>2. PICK o \in Process : pc[o] \in Owning
      BY <3>1 DEF DirHasOwner
    <3>3. lockdir.stamp <= elapsed[o] /\ elapsed[o] \in 0 .. Pace
      BY <3>1, <3>2 DEF OwnerHasDir
    <3>4. QED BY <3>1, <3>3 DEF Age, Dir
  <2>2. /\ lockdir' = lockdir /\ elapsed' = elapsed
        /\ pc' = [pc EXCEPT ![p] = "judge"] /\ pc[p] = "read"
        /\ basis' = IF lockdir # NoDir /\ lockdir.stamped
                    THEN [basis EXCEPT ![p] = lockdir.stamp] ELSE basis
    BY <1>4 DEF ReadStamp
  <2>3. NobodyReclaims'
    BY <2>1, <2>2 DEF NobodyReclaims, Age
  <2>4. MutualExclusion' /\ OwnerHasDir' /\ DirHasOwner'
    BY <2>2 DEF MutualExclusion, OwnerHasDir, DirHasOwner
  <2>5. QED BY <1>0, <2>3, <2>4
<1>5. ASSUME NEW p \in Process, Judge(p) PROVE LockInv'
  <2>1. pc[p] = "judge" /\ basis[p] <= StaleAfter
    <3>1. basis[p] \in Nat /\ elapsed[p] \in 0 .. Pace /\ basis[p] <= Pace + elapsed[p]
      BY <1>5 DEF Judge, NobodyReclaims, Age
    <3>2. QED BY <1>5, <3>1 DEF Judge, Prompt
  <2>2. QED BY <1>1, <1>5, <2>1 DEF Judge, NobodyReclaims
<1>6. ASSUME NEW p \in Process, Rename(p) PROVE LockInv'
  BY <1>6 DEF Rename, NobodyReclaims
<1>7. ASSUME NEW p \in Process, Mkdir(p) PROVE LockInv'
  <2>1. CASE lockdir # NoDir
    BY <1>1, <1>7, <2>1 DEF Mkdir, NobodyReclaims
  <2>2. CASE lockdir = NoDir
    <3>1. \A q \in Process : pc[q] \notin Owning
      BY <2>2 DEF OwnerHasDir
    <3>2. /\ lockdir' = [made |-> 0, stamp |-> 0, stamped |-> FALSE]
          /\ pc' = [pc EXCEPT ![p] = "stamp"] /\ basis' = basis
          /\ elapsed' = [elapsed EXCEPT ![p] = 0] /\ pc[p] = "mkdir"
      BY <1>7, <2>2 DEF Mkdir
    <3>3. lockdir' # NoDir
      BY <3>2, NewDir, ZeroAge, DirIsNotNoDir
    <3>4. QED BY <1>0, <3>1, <3>2, <3>3
              DEF MutualExclusion, OwnerHasDir, DirHasOwner, NobodyReclaims
  <2>3. QED BY <2>1, <2>2
<1>8. ASSUME NEW p \in Process, pc[p] \in Owning,
             pc' = [pc EXCEPT ![p] = IF lockdir'.stamped THEN "locked" ELSE "rmdir"],
             lockdir' \in Dir,
             lockdir'.made <= elapsed[p],
             lockdir'.stamped => lockdir'.stamp <= elapsed[p],
             basis' = basis, elapsed' = elapsed
      PROVE  LockInv'
  <2>1. \A q \in Process : pc[q] \in Owning => q = p
    BY <1>8 DEF MutualExclusion
  <2>2. lockdir' # NoDir
    BY <1>8, DirIsNotNoDir
  <2>3. QED BY <1>0, <1>8, <2>1, <2>2
            DEF MutualExclusion, OwnerHasDir, DirHasOwner, NobodyReclaims
<1>9. ASSUME NEW p \in Process, WriteStamp(p) PROVE LockInv'
  <2>1. lockdir # NoDir /\ ~lockdir.stamped
    BY <1>9 DEF WriteStamp, OwnerHasDir
  <2>2. lockdir' = [made |-> 0, stamp |-> 0, stamped |-> TRUE]
    BY <1>9, <2>1 DEF WriteStamp
  <2>3. lockdir' \in Dir
    BY <2>2, NewDir, ZeroAge
  <2>4. QED BY <1>8, <1>9, <2>1, <2>2, <2>3 DEF WriteStamp
<1>10. ASSUME NEW p \in Process, Leave(p) PROVE LockInv'
  <2>1. lockdir # NoDir /\ lockdir.stamped
    BY <1>10 DEF Leave, OwnerHasDir
  <2>2. lockdir' = [made |-> 0, stamp |-> lockdir.stamp, stamped |-> FALSE]
    BY <1>10, <2>1 DEF Leave
  <2>3. /\ lockdir' \in Dir
        /\ lockdir'.made = 0 /\ ~lockdir'.stamped
    BY <2>1, <2>2, NewDir, ZeroAge DEF Dir
  <2>4. QED BY <1>8, <1>10, <2>1, <2>3 DEF Leave
<1>11. ASSUME NEW p \in Process, RemoveDir(p) PROVE LockInv'
  <2>1. \A q \in Process : pc[q] \in Owning => q = p
    BY <1>11 DEF RemoveDir, MutualExclusion
  <2>2. lockdir' = NoDir
    BY <1>11 DEF RemoveDir, OwnerHasDir
  <2>3. QED BY <1>0, <1>11, <2>1, <2>2
            DEF RemoveDir, MutualExclusion, OwnerHasDir, DirHasOwner, NobodyReclaims
<1>12. ASSUME NEW p \in Process, Crash(p) PROVE LockInv'
  <2>1. pc[p] \notin Owning
    BY <1>12 DEF Crash, Prompt
  <2>2. /\ pc' = [pc EXCEPT ![p] = "idle"]
        /\ lockdir' = lockdir /\ basis' = basis /\ elapsed' = elapsed
    BY <1>12 DEF Crash, Goto
  <2>3. QED BY <1>0, <2>1, <2>2 DEF MutualExclusion, OwnerHasDir, DirHasOwner,
                                    NobodyReclaims
<1>13. CASE Tick
  <2>1. pc' = pc /\ \A p \in Process :
            pc[p] \in Owning \cup {"read", "judge"} => elapsed'[p] = elapsed[p] + 1
    BY <1>13 DEF Tick, Hurried
  <2>2. NobodyReclaims'
    <3>1. \A p \in Process : pc[p] \in {"read", "judge"} =>
             basis'[p] <= basis[p] + 1 /\ basis[p] \in Nat /\ elapsed[p] \in Nat
                /\ basis'[p] \in Nat
      BY <1>13, OlderAge DEF Tick, Age
    <3>2. QED BY <2>1, <3>1 DEF NobodyReclaims
  <2>3. OwnerHasDir'
    <3>1. SUFFICES ASSUME NEW p \in Process, pc[p] \in Owning
                   PROVE  /\ lockdir' # NoDir
                          /\ lockdir'.made <= elapsed'[p]
                          /\ lockdir'.stamped => lockdir'.stamp <= elapsed'[p]
                          /\ lockdir'.stamped <=> pc[p] = "locked"
      BY <2>1 DEF OwnerHasDir
    <3>2. /\ lockdir \in Dir
          /\ lockdir' = [lockdir EXCEPT !.made = Older(@), !.stamp = Older(@)]
      BY <1>13, <3>1 DEF Tick, OwnerHasDir
    <3>3. /\ lockdir'.made = Older(lockdir.made) /\ lockdir'.stamp = Older(lockdir.stamp)
          /\ lockdir'.stamped = lockdir.stamped
      BY <3>2 DEF Dir
    <3>4. lockdir' \in Dir
      BY <3>2, OlderAge DEF Dir
    <3>5. /\ lockdir'.made <= lockdir.made + 1 /\ lockdir'.stamp <= lockdir.stamp + 1
          /\ lockdir.made \in Nat /\ lockdir.stamp \in Nat
          /\ lockdir'.made \in Nat /\ lockdir'.stamp \in Nat
      BY <3>2, <3>3, <3>4, OlderAge DEF Age, Dir
    <3>6. elapsed[p] \in Nat
      OBVIOUS
    <3>7. QED BY <2>1, <3>1, <3>3, <3>4, <3>5, <3>6, DirIsNotNoDir DEF OwnerHasDir
  <2>4. MutualExclusion' /\ DirHasOwner'
    BY <1>13, <2>1 DEF MutualExclusion, DirHasOwner, Tick
  <2>5. QED BY <1>0, <2>2, <2>3, <2>4
<1>14. CASE UNCHANGED lockVars
  BY <1>1, <1>14 DEF lockVars, NobodyReclaims
<1>15. QED
  BY <1>2, <1>3, <1>4, <1>5, <1>6, <1>7, <1>9, <1>10, <1>11, <1>12, <1>13, <1>14
  DEF LockNext, Contend

LEMMA LockInitInv == LockInit => LockInv
  BY DEF LockInit, LockInv, LockTypeOK, PC, Age, MutualExclusion, OwnerHasDir,
         DirHasOwner, NobodyReclaims, Owning, Reclaiming

LEMMA LockInvariance == ASSUME Prompt PROVE LockSpec => []LockInv
  BY LockInitInv, LockStep, PTL DEF LockSpec

(* With prompt contenders and owners that do not die, at most one process  *)
(* is between mkdir and rmtree, and its lock directory is never taken from *)
(* it by _reclaim_if_stale.                                                *)
THEOREM LockExcludes ==
  ASSUME Prompt PROVE LockSpec => [](MutualExclusion /\ OwnedDirStays)
<1>1. LockInv => MutualExclusion /\ OwnedDirStays
  BY DEF LockInv, OwnerHasDir, OwnedDirStays
<1>2. QED BY <1>1, LockInvariance, PTL

-----------------------------------------------------------------------------
(* The registry under the lock.                                            *)

(* Every registry step is a lock step or leaves the lock alone.            *)
LEMMA RegistryStepsLock == RegistryNext => [LockNext]_lockVars
  BY DEF RegistryNext, LockNext, Load, Save, EndTransaction, Die

LEMMA RegistryTypeStep ==
  RegistryTypeOK /\ [RegistryNext]_allVars => RegistryTypeOK'
<1> SUFFICES ASSUME RegistryTypeOK, [RegistryNext]_allVars PROVE RegistryTypeOK'
  OBVIOUS
<1> USE MaxTokenAssumption DEF RegistryTypeOK
<1>1. ASSUME NEW p \in Process, Load(p) PROVE RegistryTypeOK'
  BY <1>1 DEF Load
<1>2. ASSUME NEW p \in Process, Save(p) PROVE RegistryTypeOK'
  BY <1>2 DEF Save
<1>3. ASSUME NEW p \in Process, EndTransaction(p) \/ Die(p) PROVE RegistryTypeOK'
  BY <1>3 DEF EndTransaction, Die
<1>4. CASE UNCHANGED registryVars
  BY <1>4 DEF registryVars
<1>5. QED BY <1>1, <1>2, <1>3, <1>4 DEF RegistryNext, allVars

(* The file holds what the one process inside its transaction loaded or    *)
(* saved: nobody else is there to change it.                               *)
LEMMA RegistryStep ==
  ASSUME Prompt
  PROVE  RegistryInv /\ [RegistryNext]_allVars => RegistryInv'
<1> SUFFICES ASSUME RegistryInv, [RegistryNext]_allVars PROVE RegistryInv'
  OBVIOUS
<1>1. LockInv' /\ RegistryTypeOK'
  BY RegistryStepsLock, LockStep, RegistryTypeStep DEF RegistryInv, allVars
<1> USE DEF RegistryInv, RegistryTypeOK, LockInv, LockTypeOK
<1>2. \A p, q \in Process : pc[p] = "locked" /\ pc[q] = "locked" => p = q
  BY DEF MutualExclusion, Owning
<1>3. ASSUME NEW p \in Process, Load(p) PROVE RegistryInv'
  BY <1>1, <1>3 DEF Load, TransactionsAreLocked, TransactionIsolated,
                    TokensWithinCounter, lockVars
<1>4. ASSUME NEW p \in Process, Save(p) PROVE RegistryInv'
  <2>1. copy[p] = counter /\ counter' = counter + 1 /\ pc' = pc
    BY <1>4 DEF Save, TransactionIsolated, lockVars
  <2>2. TokensWithinCounter'
    BY <1>4, <2>1 DEF Save, TokensWithinCounter
  <2>3. TransactionsAreLocked' /\ TransactionIsolated'
    BY <1>2, <1>4, <2>1 DEF Save, TransactionsAreLocked, TransactionIsolated
  <2>4. QED BY <1>1, <2>2, <2>3
<1>5. ASSUME NEW p \in Process, EndTransaction(p) \/ Die(p) PROVE RegistryInv'
  BY <1>1, <1>5 DEF EndTransaction, Die, Leave, Crash, Goto, TransactionsAreLocked,
                    TransactionIsolated, TokensWithinCounter
<1>6. ASSUME UNCHANGED registryVars,
             \A p \in Process : pc'[p] = "locked" =>
                pc[p] = "locked" \/ txn[p] = "new",
             \A p \in Process : pc[p] = "locked" => pc'[p] = "locked"
      PROVE  RegistryInv'
  BY <1>1, <1>6 DEF registryVars, TransactionsAreLocked, TransactionIsolated,
                    TokensWithinCounter
<1>7. ASSUME NEW p \in Process, Enter(p) \/ Contend(p), UNCHANGED registryVars
      PROVE  RegistryInv'
  <2>1. pc[p] # "locked" /\ \A q \in Process : q # p => pc'[q] = pc[q]
    BY <1>7 DEF Enter, Contend, Look, Stat, ReadStamp, Judge, Rename, Mkdir,
                WriteStamp, Wait, RemoveDir, Goto
  <2>2. QED BY <1>6, <1>7, <2>1 DEF TransactionsAreLocked
<1>8. CASE Tick /\ UNCHANGED registryVars
  BY <1>6, <1>8 DEF Tick
<1>9. CASE UNCHANGED allVars
  BY <1>6, <1>9 DEF allVars, lockVars
<1>10. QED BY <1>3, <1>4, <1>5, <1>7, <1>8, <1>9 DEF RegistryNext

LEMMA RegistryInvariance == ASSUME Prompt PROVE RegistrySpec => []RegistryInv
<1>1. RegistryInit => RegistryInv
  <2>1. RegistryInit => LockInv
    BY LockInitInv DEF RegistryInit
  <2>2. RegistryInit => RegistryTypeOK
    BY MaxTokenAssumption DEF RegistryInit, RegistryTypeOK
  <2>3. RegistryInit => TransactionsAreLocked /\ TransactionIsolated
                          /\ TokensWithinCounter
    BY DEF RegistryInit, TransactionsAreLocked, TransactionIsolated, TokensWithinCounter
  <2>4. QED BY <2>1, <2>2, <2>3 DEF RegistryInv
<1>2. QED BY <1>1, RegistryStep, PTL DEF RegistrySpec

(* Under a prompt lock no registry update is lost.                         *)
THEOREM TransactionsAreIsolated ==
  ASSUME Prompt PROVE RegistrySpec => []TransactionIsolated
<1>1. RegistryInv => TransactionIsolated
  BY DEF RegistryInv
<1>2. QED BY <1>1, RegistryInvariance, PTL

(* Under a prompt lock a new owner's token exceeds all older ones.         *)
THEOREM TokensIncrease ==
  ASSUME Prompt PROVE RegistrySpec => NewTokenIsGreatest
<1>1. RegistryInv /\ [RegistryNext]_allVars => [NewTokenIsGreatestStep]_allVars
  <2> SUFFICES ASSUME RegistryInv, RegistryNext PROVE NewTokenIsGreatestStep
    OBVIOUS
  <2> USE DEF RegistryInv, RegistryTypeOK
  <2>1. ASSUME NEW p \in Process, Save(p) PROVE NewTokenIsGreatestStep
    <3>1. copy[p] = counter /\ token' = [token EXCEPT ![p] = counter + 1]
      BY <2>1 DEF Save, TransactionIsolated
    <3>2. \A q \in Process : token[q] <= counter /\ token[q] \in Nat /\ counter \in Nat
      BY DEF TokensWithinCounter
    <3>3. QED BY <3>1, <3>2 DEF NewTokenIsGreatestStep
  <2>2. ASSUME token' = token PROVE NewTokenIsGreatestStep
    BY <2>2 DEF NewTokenIsGreatestStep
  <2>3. QED BY <2>1, <2>2
            DEF RegistryNext, Load, EndTransaction, Die, registryVars
<1>2. QED BY <1>1, RegistryInvariance, PTL DEF RegistrySpec, NewTokenIsGreatest
=============================================================================
