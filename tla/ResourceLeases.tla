--------------------------- MODULE ResourceLeases ---------------------------
(***************************************************************************)
(* FileResourceLeaseManager: scheduler processes sharing one JSON registry *)
(* of resource leases.  A registry transaction (load, change, save inside  *)
(* `with self._registry_lock`) is one step here and reads the clock once;  *)
(* the directory lock that is to make it so is module DirectoryLock.       *)
(***************************************************************************)
EXTENDS Integers, FiniteSets

CONSTANTS
  Process,         \* operating-system pids that run a manager
  Resource,        \* canonical resource identities
  Requests,        \* the claim tuples callers ask for, before normalization
  LookupFailures,  \* sets of pids whose identity lookup may fail together
  TTL,             \* lease_ttl_seconds
  AcquireTimeout,  \* acquire_timeout_seconds
  MaxClock,        \* bound: the last instant of the model's clock
  MaxLeases,       \* bound: leases granted in a behaviour
  MaxIdentity      \* bound: times a pid is given to a new process

Mode  == {"read", "write"}
Claim == [resource : Resource, mode : Mode]

ASSUME LeaseAssumption ==
  /\ Requests \subseteq SUBSET Claim
  /\ LookupFailures \subseteq SUBSET Process
  /\ TTL \in Nat \ {0} /\ AcquireTimeout \in Nat \ {0}
  /\ MaxClock \in Nat /\ MaxLeases \in Nat /\ MaxIdentity \in Nat

VARIABLES
  clock,     \* time.time() of the host
  identity,  \* pid -> identity of the process that has it (start time)
  up,        \* pid -> is that process alive
  leases,    \* registry: the saved LeaseRecords
  counters,  \* registry: fencing_counters, 0 where a resource has none
  issued,    \* lease ids drawn so far (uuid4: always fresh)
  pending,   \* pid -> its acquire() in progress
  handles    \* pid -> the ResourceLease values its callers hold

leaseVars == <<clock, identity, up, leases, counters, issued, pending, handles>>

-----------------------------------------------------------------------------
(* Claims and leases.  A definition whose name says what is wrong with it  *)
(* (NextCountersUnsaved, GrantBesideTheDead) is a faulty variant of the    *)
(* one below it: the properties must notice when it takes its place.       *)

Lease == [id : Nat, pid : Process, identity : Nat, claims : SUBSET Claim,
          expires : Nat, tokens : [Resource -> Nat]]

NoAcquire == [stage |-> "none", claims |-> {}, deadline |-> 0]
Acquire   == [stage : {"none", "poll", "check"}, claims : SUBSET Claim,
              deadline : Nat]

(* One claim per resource; a write claim absorbs a read of the same one.   *)
Normalize(request) ==
  {c \in request : \/ c.mode = "write"
                   \/ [resource |-> c.resource, mode |-> "write"] \notin request}

WriteResources(claims) == {c.resource : c \in {d \in claims : d.mode = "write"}}

Clash(c, d) == /\ c.resource = d.resource
               /\ c.mode = "write" \/ d.mode = "write"

Conflicting(cs, ds) == \E c \in cs, d \in ds : Clash(c, d)

(* The token of a resource the lease does not write is 0: it has none.     *)
NextTokens(claims) ==
  [r \in Resource |-> IF r \in WriteResources(claims) THEN counters[r] + 1 ELSE 0]

NextCountersUnsaved(claims) == [r \in Resource |-> counters[r]]

NextCounters(claims) ==
  [r \in Resource |-> IF r \in WriteResources(claims) THEN counters[r] + 1
                                                      ELSE counters[r]]

NewLease(p, claims) ==
  [id |-> issued, pid |-> p, identity |-> identity[p], claims |-> claims,
   expires |-> clock + TTL, tokens |-> NextTokens(claims)]

(* lookup_process_identity(pid) = the recorded identity.  A lookup that    *)
(* fails (`failed`) returns None, as it does for a dead process.           *)
SameProcess(l, failed) == /\ l.pid \notin failed
                          /\ up[l.pid]
                          /\ identity[l.pid] = l.identity

LiveRecordsOneTickShort(failed) ==
  {l \in leases : l.expires > clock + 1 /\ SameProcess(l, failed)}

LiveRecords(failed) == {l \in leases : l.expires > clock /\ SameProcess(l, failed)}

Blockers(claims, failed) ==
  {l \in LiveRecords(failed) : Conflicting(claims, l.claims)}

Owns(p, h, l) == /\ l.id = h.id /\ l.pid = p /\ l.identity = identity[p]
                 /\ l.claims = h.claims /\ l.tokens = h.tokens

-----------------------------------------------------------------------------
LeaseInit ==
  /\ clock = 0
  /\ identity = [p \in Process |-> 0]
  /\ up = [p \in Process |-> TRUE]
  /\ leases = {}
  /\ counters = [r \in Resource |-> 0]
  /\ issued = 0
  /\ pending = [p \in Process |-> NoAcquire]
  /\ handles = [p \in Process |-> {}]

(* acquire() entered: claims normalized, deadline fixed.  An empty request *)
(* is answered without the registry; run_leased_operation never makes one. *)
Request(p, request) ==
  /\ up[p] /\ pending[p].stage = "none"
  /\ request # {}
  /\ clock + AcquireTimeout <= MaxClock
  /\ issued + Cardinality({q \in Process : pending[q].stage # "none"}) < MaxLeases
  /\ pending' = [pending EXCEPT ![p] = [stage |-> "poll",
                                        claims |-> Normalize(request),
                                        deadline |-> clock + AcquireTimeout]]
  /\ UNCHANGED <<clock, identity, up, leases, counters, issued, handles>>

(* A transaction of acquire() that finds no conflict.                      *)
GrantBesideTheDead(p, failed) ==
  LET claims == pending[p].claims
      lease  == NewLease(p, claims)
  IN  /\ up[p] /\ pending[p].stage = "poll"
      /\ Blockers(claims, failed) = {}
      /\ issued < MaxLeases
      /\ leases' = leases \cup {lease}
      /\ counters' = NextCounters(claims)
      /\ issued' = issued + 1
      /\ handles' = [handles EXCEPT ![p] = @ \cup {lease}]
      /\ pending' = [pending EXCEPT ![p] = NoAcquire]
      /\ UNCHANGED <<clock, identity, up>>

Grant(p, failed) ==
  LET claims == pending[p].claims
      lease  == NewLease(p, claims)
  IN  /\ up[p] /\ pending[p].stage = "poll"
      /\ Blockers(claims, failed) = {}
      /\ issued < MaxLeases
      /\ leases' = LiveRecords(failed) \cup {lease}
      /\ counters' = NextCounters(claims)
      /\ issued' = issued + 1
      /\ handles' = [handles EXCEPT ![p] = @ \cup {lease}]
      /\ pending' = [pending EXCEPT ![p] = NoAcquire]
      /\ UNCHANGED <<clock, identity, up>>

(* A transaction of acquire() that finds a conflict still drops the dead.  *)
Contend(p, failed) ==
  /\ up[p] /\ pending[p].stage = "poll"
  /\ Blockers(pending[p].claims, failed) # {}
  /\ leases' = LiveRecords(failed)
  /\ pending' = [pending EXCEPT ![p].stage = "check"]
  /\ UNCHANGED <<clock, identity, up, counters, issued, handles>>

(* Outside the lock: poll again before the deadline, give up from it on.   *)
Retry(p) ==
  /\ up[p] /\ pending[p].stage = "check"
  /\ clock < pending[p].deadline
  /\ pending' = [pending EXCEPT ![p].stage = "poll"]
  /\ UNCHANGED <<clock, identity, up, leases, counters, issued, handles>>

GiveUp(p) ==
  /\ up[p] /\ pending[p].stage = "check"
  /\ clock >= pending[p].deadline
  /\ pending' = [pending EXCEPT ![p] = NoAcquire]
  /\ UNCHANGED <<clock, identity, up, leases, counters, issued, handles>>

(* The registry lock itself was not obtained by the deadline: acquire()    *)
(* raises TimeoutError.                                                    *)
LockTimeout(p) ==
  /\ up[p] /\ pending[p].stage = "poll"
  /\ clock >= pending[p].deadline
  /\ pending' = [pending EXCEPT ![p] = NoAcquire]
  /\ UNCHANGED <<clock, identity, up, leases, counters, issued, handles>>

(* renew(): only the owner, and only a record that has not expired.        *)
RenewableAfterExpiry(p, h) == {l \in leases : Owns(p, h, l)}

Renewable(p, h) == {l \in leases : Owns(p, h, l) /\ l.expires > clock}

Renew(p, h) ==
  /\ up[p] /\ h \in handles[p]
  /\ \E l \in Renewable(p, h) :
       LET renewed == [l EXCEPT !.expires = clock + TTL]
       IN  /\ leases' = (leases \ {l}) \cup {renewed}
           /\ handles' = [handles EXCEPT ![p] = (@ \ {h}) \cup {renewed}]
  /\ UNCHANGED <<clock, identity, up, counters, issued, pending>>

(* release(): a record that is gone already is not an error.               *)
ReleaseEverything(p, h) ==
  /\ up[p] /\ h \in handles[p]
  /\ leases' = {l \in leases : l.pid # p}
  /\ handles' = [handles EXCEPT ![p] = @ \ {h}]
  /\ UNCHANGED <<clock, identity, up, counters, issued, pending>>

Release(p, h) ==
  /\ up[p] /\ h \in handles[p]
  /\ leases' = {l \in leases : ~Owns(p, h, l)}
  /\ handles' = [handles EXCEPT ![p] = @ \ {h}]
  /\ UNCHANGED <<clock, identity, up, counters, issued, pending>>

(* release() raises (registry lock timed out): the record stays behind.    *)
ReleaseFails(p, h) ==
  /\ up[p] /\ h \in handles[p]
  /\ handles' = [handles EXCEPT ![p] = @ \ {h}]
  /\ UNCHANGED <<clock, identity, up, leases, counters, issued, pending>>

(* The owner dies with its memory; later its pid may be used again.        *)
Crash(p) ==
  /\ up[p]
  /\ up' = [up EXCEPT ![p] = FALSE]
  /\ pending' = [pending EXCEPT ![p] = NoAcquire]
  /\ handles' = [handles EXCEPT ![p] = {}]
  /\ UNCHANGED <<clock, identity, leases, counters, issued>>

Restart(p) ==
  /\ ~up[p]
  /\ identity[p] < MaxIdentity
  /\ identity' = [identity EXCEPT ![p] = @ + 1]
  /\ up' = [up EXCEPT ![p] = TRUE]
  /\ UNCHANGED <<clock, leases, counters, issued, pending, handles>>

Tick == /\ clock < MaxClock
        /\ clock' = clock + 1
        /\ UNCHANGED <<identity, up, leases, counters, issued, pending, handles>>

Transact(p) == \E failed \in LookupFailures : Grant(p, failed) \/ Contend(p, failed)

LeaseNext ==
  \/ \E p \in Process :
       \/ \E request \in Requests : Request(p, request)
       \/ Transact(p)
       \/ Retry(p) \/ GiveUp(p) \/ LockTimeout(p)
       \/ \E h \in handles[p] : Renew(p, h) \/ Release(p, h) \/ ReleaseFails(p, h)
       \/ Crash(p) \/ Restart(p)
  \/ Tick

LeaseSpec == LeaseInit /\ [][LeaseNext]_leaseVars

-----------------------------------------------------------------------------
Held     == UNION {handles[p] : p \in Process}
Believed == {h \in Held : h.expires > clock}

(* Every variable keeps its type.                                          *)
LeaseTypeOK ==
  /\ clock \in Nat /\ issued \in Nat
  /\ identity \in [Process -> Nat]
  /\ up \in [Process -> BOOLEAN]
  /\ leases \subseteq Lease
  /\ counters \in [Resource -> Nat]
  /\ pending \in [Process -> Acquire]
  /\ handles \in [Process -> SUBSET Lease]

(* Lease ids are unique, in the registry and in the callers' memory, and   *)
(* the two agree on a lease they both know.                                *)
IdsAgree ==
  /\ \A l \in leases \cup Held : l.id < issued
  /\ \A l, m \in leases \cup Held : l.id = m.id => l = m

HandlesOwned ==
  \A p \in Process : \A h \in handles[p] : /\ up[p]
                                          /\ h.pid = p
                                          /\ h.identity = identity[p]

(* The registry never holds two leases that conflict, whoever crashed,     *)
(* whatever expired and however many acquires polled at once (acquire).    *)
ConflictFree ==
  \A l, m \in leases : l # m => ~Conflicting(l.claims, m.claims)

(* What load_registry demands of the file: a token for exactly the write   *)
(* claims, and no token above the persisted counter.  No sequence of       *)
(* transactions leaves a registry the next load rejects.                   *)
TokensWithinCounters ==
  \A l \in leases \cup Held : \A r \in Resource :
    /\ l.tokens[r] > 0 <=> r \in WriteResources(l.claims)
    /\ l.tokens[r] <= counters[r]

(* A lease its holder may still believe in (TTL not over) is in the        *)
(* registry, unchanged: nobody else's transaction dropped it.              *)
BelievedIsRegistered == Believed \subseteq leases

(* Mutual exclusion as the callers see it: no two leases whose TTL is not  *)
(* over conflict, in whatever processes they are held.                     *)
NoConflictingHolders ==
  \A g, h \in Believed : g # h => ~Conflicting(g.claims, h.claims)

(* A grant's fencing token is above every token of that resource still     *)
(* around: in the registry, or in the hands of a holder that lost its      *)
(* lease without noticing (_next_fencing_tokens).                          *)
FreshTokensStep ==
  \A p \in Process : \A h \in handles'[p] :
    h.id >= issued =>
      \A r \in WriteResources(h.claims), l \in leases \cup Held :
        l.tokens[r] < h.tokens[r]
FreshTokens == [][FreshTokensStep]_leaseVars

(* A lease that has not expired and whose owner lives leaves the registry  *)
(* only in the step in which the owner itself gives it up.                 *)
NoTheftStep ==
  \A l \in LiveRecords({}) :
    \/ \E m \in leases' : m.id = l.id
    \/ \E h \in handles[l.pid] : h.id = l.id /\ h \notin handles'[l.pid]
NoTheft == [][NoTheftStep]_leaseVars

(* The manager implements LeaseService: a grant is valid while its holder  *)
(* has it and its TTL is not over.                                         *)
Service == INSTANCE LeaseService WITH
  GrantId <- 0 .. MaxLeases - 1,
  valid <- {[id |-> h.id, pid |-> h.pid, claims |-> h.claims,
             tokens |-> h.tokens] : h \in Believed},
  spent <- 0 .. issued - 1,
  last  <- counters
ImplementsLeaseService == Service!ServiceSpec

(* The inductive invariant: whatever acquire, renew, release, expiry and   *)
(* pid reuse do, ids, owners, conflicts and tokens agree, and, when lookups*)
(* succeed, a lease its holder may believe in is registered.               *)
RegistryInv == /\ LeaseTypeOK /\ IdsAgree /\ HandlesOwned
               /\ ConflictFree /\ TokensWithinCounters
LeaseInv == RegistryInv /\ BelievedIsRegistered
=============================================================================
