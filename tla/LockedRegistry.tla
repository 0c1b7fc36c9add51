--------------------------- MODULE LockedRegistry ---------------------------
(***************************************************************************)
(* A registry transaction under DirectoryLock, file access by file access: *)
(* the load and the save of FileResourceLeaseManager.acquire for a write   *)
(* of one resource, of which this module keeps the fencing counter.  Where *)
(* the lock fails, so does what module ResourceLeases takes as one step.   *)
(***************************************************************************)
EXTENDS DirectoryLock

CONSTANT MaxToken  \* bound: tokens issued in a behaviour

ASSUME MaxTokenAssumption == MaxToken \in Nat

VARIABLES
  counter,  \* fencing_counters[resource] in the registry file
  txn,      \* process -> how far its transaction is
  copy,     \* process -> the counter in its memory
  token     \* process -> the token of its last lease, 0 before the first

registryVars == <<counter, txn, copy, token>>
allVars      == <<lockVars, registryVars>>

RegistryInit == /\ LockInit
                /\ counter = 0
                /\ txn = [p \in Process |-> "new"]
                /\ copy = [p \in Process |-> 0]
                /\ token = [p \in Process |-> 0]

(* registry = self._load()                                                 *)
Load(p) == /\ pc[p] = "locked" /\ txn[p] = "new"
           /\ txn' = [txn EXCEPT ![p] = "loaded"]
           /\ copy' = [copy EXCEPT ![p] = counter]
           /\ UNCHANGED <<lockVars, counter, token>>

SaveWithoutIncrement(p) ==
  /\ pc[p] = "locked" /\ txn[p] = "loaded" /\ copy[p] < MaxToken
  /\ txn' = [txn EXCEPT ![p] = "saved"]
  /\ counter' = copy[p]
  /\ copy' = [copy EXCEPT ![p] = copy[p]]
  /\ token' = [token EXCEPT ![p] = copy[p] + 1]
  /\ UNCHANGED lockVars

(* The next token, and self._save(live, counters), which os.replace makes  *)
(* one step; the lease is returned out of the same `with` block.           *)
Save(p) == /\ pc[p] = "locked" /\ txn[p] = "loaded" /\ copy[p] < MaxToken
           /\ txn' = [txn EXCEPT ![p] = "saved"]
           /\ counter' = copy[p] + 1
           /\ copy' = [copy EXCEPT ![p] = copy[p] + 1]
           /\ token' = [token EXCEPT ![p] = copy[p] + 1]
           /\ UNCHANGED lockVars

(* The `with` block ends: after the save, or at a conflict without one.    *)
EndTransaction(p) == /\ txn[p] # "new"
                     /\ Leave(p)
                     /\ txn' = [txn EXCEPT ![p] = "new"]
                     /\ UNCHANGED <<counter, copy, token>>

Die(p) == /\ Crash(p)
          /\ txn' = [txn EXCEPT ![p] = "new"]
          /\ UNCHANGED <<counter, copy, token>>

RegistryNext ==
  \/ \E p \in Process : \/ Load(p) \/ Save(p) \/ EndTransaction(p) \/ Die(p)
                        \/ (Enter(p) \/ Contend(p)) /\ UNCHANGED registryVars
  \/ Tick /\ UNCHANGED registryVars

RegistrySpec == RegistryInit /\ [][RegistryNext]_allVars

-----------------------------------------------------------------------------
(* Every variable keeps its type.                                          *)
RegistryTypeOK == /\ counter \in 0 .. MaxToken
                  /\ txn \in [Process -> {"new", "loaded", "saved"}]
                  /\ copy \in [Process -> 0 .. MaxToken]
                  /\ token \in [Process -> 0 .. MaxToken]

(* No lost update: as long as a process is inside its transaction, what it *)
(* loaded or saved is what the file holds, so that the load and the save   *)
(* behave as one step.                                                     *)
TransactionIsolated ==
  \A p \in Process : pc[p] = "locked" /\ txn[p] # "new" => copy[p] = counter

(* A new owner's token is greater than every token given out before.       *)
NewTokenIsGreatestStep ==
  \A p, q \in Process : token'[p] # token[p] => token'[p] > token[q]
NewTokenIsGreatest == [][NewTokenIsGreatestStep]_allVars

(* The inductive invariant, next to the lock's own.                        *)
TransactionsAreLocked == \A p \in Process : pc[p] # "locked" => txn[p] = "new"
TokensWithinCounter   == \A p \in Process : token[p] <= counter

RegistryInv == /\ LockInv /\ RegistryTypeOK
               /\ TransactionsAreLocked /\ TransactionIsolated /\ TokensWithinCounter
=============================================================================
