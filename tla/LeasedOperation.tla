--------------------------- MODULE LeasedOperation --------------------------
(***************************************************************************)
(* run_leased_operation: a scheduler process acquires a lease, a heartbeat *)
(* thread renews it while the operation runs, then the thread is joined    *)
(* and the lease released.  The operation writes through an adapter that   *)
(* compares fencing tokens (FencedResourceAdapter, outside this program).  *)
(* One operation at a time per process: the scheduler has one thread.      *)
(***************************************************************************)
EXTENDS ResourceLeases

CONSTANTS
  Interval,  \* heartbeat_interval_seconds
  Slack      \* how late a start or a renewal may be and still be in time

(* A renewal in time, after another in time, comes before the expiry.      *)
ASSUME HeartbeatAssumption ==
  Interval \in Nat \ {0} /\ Slack \in Nat /\ 2 * Slack + Interval < TTL

VARIABLES
  phase,      \* pid -> where its run_leased_operation is
  hb,         \* pid -> its _LeaseHeartbeat thread
  due,        \* pid -> when that thread should renew next
  verdict,    \* pid -> what the operation came to, before the release
  outcome,    \* pid -> what the scheduler made of the last operation
  tardy,      \* pid -> was a start or a renewal of it not in time
  overtaken,  \* pid -> was a conflicting lease granted while it ran
  highest,    \* the adapter's highest observed token of each resource
  writer      \* id of the lease whose write the adapter accepted last

opVars == <<phase, hb, due, verdict, outcome, tardy, overtaken, highest, writer>>
vars   == <<leaseVars, opVars>>

Active  == {"held", "running"}
Joining == {"stopping", "releasing"}

-----------------------------------------------------------------------------
OperationInit ==
  /\ LeaseInit
  /\ phase     = [p \in Process |-> "idle"]
  /\ hb        = [p \in Process |-> "off"]
  /\ due       = [p \in Process |-> 0]
  /\ verdict   = [p \in Process |-> "none"]
  /\ outcome   = [p \in Process |-> "none"]
  /\ tardy     = [p \in Process |-> FALSE]
  /\ overtaken = [p \in Process |-> FALSE]
  /\ highest   = [r \in Resource |-> 0]
  /\ writer    = [r \in Resource |-> -1]

Begin(p, request) ==
  /\ phase[p] = "idle"
  /\ Request(p, request)
  /\ phase' = [phase EXCEPT ![p] = "acquiring"]
  /\ outcome' = [outcome EXCEPT ![p] = "none"]
  /\ tardy' = [tardy EXCEPT ![p] = FALSE]
  /\ overtaken' = [overtaken EXCEPT ![p] = FALSE]
  /\ UNCHANGED <<hb, due, verdict, highest, writer>>

(* A granted lease overtakes the operations that still run and conflict.   *)
Acquired(p, failed) ==
  /\ Grant(p, failed)
  /\ phase' = [phase EXCEPT ![p] = "held"]
  /\ due' = [due EXCEPT ![p] = clock]
  /\ overtaken' = [q \in Process |->
       \/ overtaken[q]
       \/ /\ phase[q] \in Active
          /\ \E h \in handles[q] : Conflicting(h.claims, pending[p].claims)]
  /\ UNCHANGED <<hb, verdict, outcome, tardy, highest, writer>>

(* A poll that leaves acquire() inside.                                    *)
Poll(p) == /\ Retry(p) \/ \E failed \in LookupFailures : Contend(p, failed)
           /\ UNCHANGED opVars

(* Not granted: contention is retried by the scheduler, an error blocks.   *)
Refused(p) ==
  /\ \/ GiveUp(p) /\ outcome' = [outcome EXCEPT ![p] = "contended"]
     \/ LockTimeout(p) /\ outcome' = [outcome EXCEPT ![p] = "blocked"]
  /\ phase' = [phase EXCEPT ![p] = "idle"]
  /\ UNCHANGED <<hb, due, verdict, tardy, overtaken, highest, writer>>

(* on_acquired saved the graph and the heartbeat thread started.           *)
Start(p) ==
  /\ phase[p] = "held"
  /\ phase' = [phase EXCEPT ![p] = "running"]
  /\ hb' = [hb EXCEPT ![p] = "waiting"]
  /\ due' = [due EXCEPT ![p] = clock + Interval]
  /\ UNCHANGED <<leaseVars, verdict, outcome, tardy, overtaken, highest, writer>>

(* on_acquired raises, or the thread cannot be made or started: the        *)
(* operation never runs, the lease is released all the same.               *)
StartFailsAndKeepsLease(p) ==
  /\ phase[p] = "held"
  /\ phase' = [phase EXCEPT ![p] = "idle"]
  /\ outcome' = [outcome EXCEPT ![p] = "blocked"]
  /\ UNCHANGED <<leaseVars, hb, due, verdict, tardy, overtaken, highest, writer>>

StartFails(p) ==
  /\ phase[p] = "held"
  /\ phase' = [phase EXCEPT ![p] = "releasing"]
  /\ \E v \in {"unstarted", "raised"} : verdict' = [verdict EXCEPT ![p] = v]
  /\ UNCHANGED <<leaseVars, hb, due, outcome, tardy, overtaken, highest, writer>>

(* _LeaseHeartbeat._run: wait, renew, wait again; the first failing renew  *)
(* ends the thread, and it may fail whatever the record (TimeoutError).    *)
Wake(p) ==
  /\ up[p] /\ phase[p] = "running"
  /\ hb[p] = "waiting" /\ clock >= due[p]
  /\ hb' = [hb EXCEPT ![p] = "renewing"]
  /\ UNCHANGED <<leaseVars, phase, due, verdict, outcome, tardy, overtaken, highest, writer>>

Renewed(p) ==
  /\ hb[p] = "renewing"
  /\ \E h \in handles[p] : Renew(p, h)
  /\ hb' = [hb EXCEPT ![p] = "waiting"]
  /\ due' = [due EXCEPT ![p] = clock + Interval]
  /\ UNCHANGED <<phase, verdict, outcome, tardy, overtaken, highest, writer>>

RenewFails(p) ==
  /\ hb[p] = "renewing"
  /\ hb' = [hb EXCEPT ![p] = "failed"]
  /\ UNCHANGED <<leaseVars, phase, due, verdict, outcome, tardy, overtaken, highest, writer>>

SeeStop(p) ==
  /\ phase[p] \in Joining /\ hb[p] = "waiting"
  /\ hb' = [hb EXCEPT ![p] = "ended"]
  /\ UNCHANGED <<leaseVars, phase, due, verdict, outcome, tardy, overtaken, highest, writer>>

(* A side effect of the operation, through run_fenced_operation.           *)
Write(p, r) ==
  /\ phase[p] = "running"
  /\ \E h \in handles[p] :
       /\ r \in WriteResources(h.claims)
       /\ h.tokens[r] >= highest[r]
       /\ highest' = [highest EXCEPT ![r] = h.tokens[r]]
       /\ writer' = [writer EXCEPT ![r] = h.id]
  /\ UNCHANGED <<leaseVars, phase, hb, due, verdict, outcome, tardy, overtaken>>

FinishOperation(p) ==
  /\ phase[p] = "running"
  /\ phase' = [phase EXCEPT ![p] = "stopping"]
  /\ \E v \in {"value", "raised"} : verdict' = [verdict EXCEPT ![p] = v]
  /\ UNCHANGED <<leaseVars, hb, due, outcome, tardy, overtaken, highest, writer>>

WithHeartbeatError(v) == IF v = "value" THEN "error" ELSE v

(* stop(): the thread ended within the join timeout, or it did not.        *)
JoinedIgnoringErrors(p) ==
  /\ phase[p] = "stopping" /\ hb[p] \in {"ended", "failed"}
  /\ phase' = [phase EXCEPT ![p] = "releasing"]
  /\ UNCHANGED <<leaseVars, hb, due, verdict, outcome, tardy, overtaken, highest, writer>>

Joined(p) ==
  /\ phase[p] = "stopping" /\ hb[p] \in {"ended", "failed"}
  /\ phase' = [phase EXCEPT ![p] = "releasing"]
  /\ verdict' = [verdict EXCEPT ![p] =
                   IF hb[p] = "failed" THEN WithHeartbeatError(@) ELSE @]
  /\ UNCHANGED <<leaseVars, hb, due, outcome, tardy, overtaken, highest, writer>>

JoinNeverTimesOut(p) == FALSE /\ UNCHANGED vars

JoinTimesOut(p) ==
  /\ phase[p] = "stopping" /\ hb[p] \in {"waiting", "renewing"}
  /\ phase' = [phase EXCEPT ![p] = "releasing"]
  /\ verdict' = [verdict EXCEPT ![p] = WithHeartbeatError(@)]
  /\ UNCHANGED <<leaseVars, hb, due, outcome, tardy, overtaken, highest, writer>>

(* The result as _execute_ready_leaves applies it; a release that raises   *)
(* fails an executed operation.  Nothing renews a lease given up: a thread *)
(* still inside renew() would find no record, so it is forgotten here.     *)
Outcome(v, releaseRaised) ==
  CASE v = "value"     -> IF releaseRaised THEN "failed" ELSE "completed"
    [] v = "error"     -> "failed"
    [] v = "unstarted" -> "blocked"
    [] OTHER           -> "raised"

EndOperation(p) ==
  /\ phase[p] = "releasing"
  /\ \E h \in handles[p] :
       \/ Release(p, h)
          /\ outcome' = [outcome EXCEPT ![p] = Outcome(verdict[p], FALSE)]
       \/ ReleaseFails(p, h)
          /\ outcome' = [outcome EXCEPT ![p] = Outcome(verdict[p], TRUE)]
  /\ phase' = [phase EXCEPT ![p] = "idle"]
  /\ hb' = [hb EXCEPT ![p] = "off"]
  /\ due' = [due EXCEPT ![p] = 0]
  /\ verdict' = [verdict EXCEPT ![p] = "none"]
  /\ UNCHANGED <<tardy, overtaken, highest, writer>>

Die(p) ==
  /\ Crash(p)
  /\ phase' = [phase EXCEPT ![p] = "idle"]
  /\ hb' = [hb EXCEPT ![p] = "off"]
  /\ due' = [due EXCEPT ![p] = 0]
  /\ verdict' = [verdict EXCEPT ![p] = "none"]
  /\ outcome' = [outcome EXCEPT ![p] = "none"]
  /\ tardy' = [tardy EXCEPT ![p] = FALSE]
  /\ overtaken' = [overtaken EXCEPT ![p] = FALSE]
  /\ UNCHANGED <<highest, writer>>

(* Time passes, also while a start or a renewal is overdue.                *)
Waiting(p) == \/ phase[p] = "held"
              \/ phase[p] = "running" /\ hb[p] \in {"waiting", "renewing"}

PassTime == /\ Tick
            /\ tardy' = [p \in Process |-> \/ tardy[p]
                                           \/ Waiting(p) /\ clock >= due[p] + Slack]
            /\ UNCHANGED <<phase, hb, due, verdict, outcome, overtaken, highest, writer>>

OperationNext ==
  \/ \E p \in Process :
       \/ \E request \in Requests : Begin(p, request)
       \/ \E failed \in LookupFailures : Acquired(p, failed)
       \/ Poll(p) \/ Refused(p)
       \/ Start(p) \/ StartFails(p)
       \/ Wake(p) \/ Renewed(p) \/ RenewFails(p) \/ SeeStop(p)
       \/ \E r \in Resource : Write(p, r)
       \/ FinishOperation(p) \/ Joined(p) \/ JoinTimesOut(p) \/ EndOperation(p)
       \/ Die(p)
       \/ Restart(p) /\ UNCHANGED opVars
  \/ PassTime

OperationSpec == OperationInit /\ [][OperationNext]_vars

(* The scheduler's thread runs and the operation it calls comes back; the  *)
(* heartbeat thread need not: it may hang in renew() for ever.             *)
OperationFairness ==
  /\ WF_vars(PassTime)
  /\ \A p \in Process :
       /\ WF_vars((\E failed \in LookupFailures : Acquired(p, failed))
                  \/ Poll(p) \/ Refused(p))
       /\ WF_vars(Start(p) \/ StartFails(p))
       /\ WF_vars(FinishOperation(p))
       /\ WF_vars(Joined(p)) /\ WF_vars(JoinTimesOut(p)) /\ WF_vars(EndOperation(p))

FairOperationSpec == OperationSpec /\ OperationFairness

-----------------------------------------------------------------------------
(* Every variable keeps its type.                                          *)
OperationTypeOK ==
  /\ LeaseTypeOK
  /\ phase \in [Process -> {"idle", "acquiring"} \cup Active \cup Joining]
  /\ hb \in [Process -> {"off", "waiting", "renewing", "failed", "ended"}]
  /\ due \in [Process -> Nat]
  /\ verdict \in [Process -> {"none", "value", "error", "unstarted", "raised"}]
  /\ outcome \in [Process -> {"none", "completed", "failed", "blocked",
                              "contended", "raised"}]
  /\ tardy \in [Process -> BOOLEAN] /\ overtaken \in [Process -> BOOLEAN]
  /\ highest \in [Resource -> Nat]
  /\ writer \in [Resource -> Nat \cup {-1}]

(* run_leased_operation gives back what it acquired: a process between     *)
(* operations holds no lease, one inside holds exactly one.                *)
OneLeasePerOperation ==
  \A p \in Process :
    /\ phase[p] \in {"idle", "acquiring"} => handles[p] = {}
    /\ phase[p] \in Active \cup Joining => \E h \in handles[p] : handles[p] = {h}
    /\ phase[p] = "acquiring" <=> pending[p].stage # "none"

(* The start of the inductive invariant of the operations.                 *)
OperationInv == OperationTypeOK /\ OneLeasePerOperation

(* An operation reported as completed whose heartbeats were in time had    *)
(* its resources to itself from the grant to its last side effect: no      *)
(* conflicting lease was granted meanwhile, however late the others were.  *)
CompletedUndisturbed ==
  \A p \in Process : outcome[p] = "completed" /\ ~tardy[p] => ~overtaken[p]

(* Whatever heartbeats do, the writes a resource accepts come in the order *)
(* its leases were granted: a holder that was overtaken without noticing   *)
(* is rejected once its successor has written.                             *)
WritesFollowGrantsStep == \A r \in Resource : writer'[r] >= writer[r]
WritesFollowGrants == [][WritesFollowGrantsStep]_vars

(* run_leased_operation comes back, though a renew() may hang for ever.    *)
OperationReturns == \A p \in Process : phase[p] # "idle" ~> phase[p] = "idle"
=============================================================================
