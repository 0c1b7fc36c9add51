----------------------- MODULE LeasedOperationProofs ------------------------
(***************************************************************************)
(* What the manager of resource leases keeps for every number of           *)
(* processes, resources and requests and for every timing, and that it     *)
(* implements LeaseService; then what leased operations keep.  Their steps *)
(* are steps of the manager, so what is proved of the registry holds of    *)
(* them; on top of it stand the order of the writes and the effect of      *)
(* heartbeats in time.                                                     *)
(***************************************************************************)
EXTENDS LeasedOperation, TLAPS

USE LeaseAssumption

-----------------------------------------------------------------------------
(* Normalizing a request keeps it a set of claims (_normalize_claims).     *)
LEMMA NormalizeType ==
  ASSUME NEW request \in Requests
  PROVE  Normalize(request) \in SUBSET Claim
  BY DEF Normalize

(* A conflict does not depend on the order of its two sides.               *)
LEMMA ConflictingSymmetric ==
  ASSUME NEW cs, NEW ds, Conflicting(cs, ds)
  PROVE  Conflicting(ds, cs)
  BY DEF Conflicting, Clash

(* The lease acquire() builds is a lease.                                  *)
LEMMA NewLeaseType ==
  ASSUME LeaseTypeOK, NEW p \in Process, NEW claims \in SUBSET Claim
  PROVE  /\ NewLease(p, claims) \in Lease
         /\ NextCounters(claims) \in [Resource -> Nat]
  BY DEF LeaseTypeOK, NewLease, NextTokens, NextCounters, Lease

(* Every variable keeps its type: the first half of the induction.         *)
LEMMA TypeStep == LeaseTypeOK /\ [LeaseNext]_leaseVars => LeaseTypeOK'
<1> SUFFICES ASSUME LeaseTypeOK, [LeaseNext]_leaseVars PROVE LeaseTypeOK'
  OBVIOUS
<1> USE DEF LeaseTypeOK
<1>1. ASSUME NEW p \in Process, NEW request \in Requests, Request(p, request)
      PROVE  LeaseTypeOK'
  <2>1. [stage |-> "poll", claims |-> Normalize(request),
         deadline |-> clock + AcquireTimeout] \in Acquire
    BY NormalizeType DEF Acquire
  <2>2. QED BY <1>1, <2>1 DEF Request
<1>2. ASSUME NEW p \in Process, NEW failed \in LookupFailures, Grant(p, failed)
      PROVE  LeaseTypeOK'
  <2>1. pending[p].claims \in SUBSET Claim
    BY DEF Acquire
  <2>2. NewLease(p, pending[p].claims) \in Lease
    BY <2>1, NewLeaseType
  <2>3. NextCounters(pending[p].claims) \in [Resource -> Nat]
    BY <2>1, NewLeaseType
  <2>4. NoAcquire \in Acquire
    BY DEF NoAcquire, Acquire
  <2>5. QED BY <1>2, <2>2, <2>3, <2>4 DEF Grant, LiveRecords
<1>3. ASSUME NEW p \in Process, NEW failed \in LookupFailures, Contend(p, failed)
      PROVE  LeaseTypeOK'
  BY <1>3 DEF Contend, LiveRecords, Acquire
<1>4. ASSUME NEW p \in Process, Retry(p) PROVE LeaseTypeOK'
  BY <1>4 DEF Retry, Acquire
<1>5. ASSUME NEW p \in Process, GiveUp(p) \/ LockTimeout(p) PROVE LeaseTypeOK'
  BY <1>5 DEF GiveUp, LockTimeout, Acquire, NoAcquire
<1>6. ASSUME NEW p \in Process, NEW h \in handles[p], Renew(p, h)
      PROVE  LeaseTypeOK'
  <2>1. PICK l \in Renewable(p, h) :
          /\ leases' = (leases \ {l}) \cup {[l EXCEPT !.expires = clock + TTL]}
          /\ handles' = [handles EXCEPT
               ![p] = (@ \ {h}) \cup {[l EXCEPT !.expires = clock + TTL]}]
    BY <1>6 DEF Renew
  <2>2. l \in Lease
    BY DEF Renewable
  <2>3. [l EXCEPT !.expires = clock + TTL] \in Lease
    BY <2>2 DEF Lease
  <2>4. QED BY <1>6, <2>1, <2>3 DEF Renew
<1>7. ASSUME NEW p \in Process, NEW h \in handles[p], Release(p, h)
      PROVE  LeaseTypeOK'
  BY <1>7 DEF Release
<1>8. ASSUME NEW p \in Process, NEW h \in handles[p], ReleaseFails(p, h)
      PROVE  LeaseTypeOK'
  BY <1>8 DEF ReleaseFails
<1>9. ASSUME NEW p \in Process, Crash(p) PROVE LeaseTypeOK'
  BY <1>9 DEF Crash, Acquire, NoAcquire
<1>10. ASSUME NEW p \in Process, Restart(p) PROVE LeaseTypeOK'
  BY <1>10 DEF Restart
<1>11. CASE Tick
  BY <1>11 DEF Tick
<1>12. CASE UNCHANGED leaseVars
  BY <1>12 DEF leaseVars
<1>13. QED
  BY <1>1, <1>2, <1>3, <1>4, <1>5, <1>6, <1>7, <1>8, <1>9, <1>10, <1>11, <1>12
  DEF LeaseNext, Transact

(* Type correctness of the manager, for every value of the constants.      *)
THEOREM LeaseTypeCorrect == LeaseSpec => []LeaseTypeOK
<1>1. LeaseInit => LeaseTypeOK
  BY DEF LeaseInit, LeaseTypeOK, NoAcquire, Acquire
<1>2. QED BY <1>1, TypeStep, PTL DEF LeaseSpec

-----------------------------------------------------------------------------
(* A step that only loses leases and handles, or moves the clock, keeps    *)
(* what RegistryInv says of the leases there are.                          *)
LEMMA ShrinkKeeps ==
  ASSUME RegistryInv,
         leases' \subseteq leases,
         \A q \in Process : handles'[q] \subseteq handles[q],
         counters' = counters, issued' = issued
  PROVE  IdsAgree' /\ ConflictFree' /\ TokensWithinCounters'
<1>1. Held' \subseteq Held
  BY DEF Held
<1>2. IdsAgree'
  BY <1>1 DEF RegistryInv, IdsAgree
<1>3. ConflictFree'
  BY DEF RegistryInv, ConflictFree
<1>4. TokensWithinCounters'
  BY <1>1 DEF RegistryInv, TokensWithinCounters
<1>5. QED BY <1>2, <1>3, <1>4

(* A grant takes an id and tokens above all there are, and joins only      *)
(* leases it does not conflict with.                                       *)
LEMMA GrantKeeps ==
  ASSUME RegistryInv, NEW p \in Process, NEW failed \in LookupFailures,
         Grant(p, failed)
  PROVE  IdsAgree' /\ HandlesOwned' /\ ConflictFree' /\ TokensWithinCounters'
<1> DEFINE claims == pending[p].claims
           new    == NewLease(p, claims)
<1>1. /\ leases' = LiveRecords(failed) \cup {new}
      /\ LiveRecords(failed) \subseteq leases
      /\ Held' \subseteq Held \cup {new}
      /\ issued' = issued + 1
      /\ counters' = NextCounters(claims)
  BY DEF Grant, LiveRecords, Held, RegistryInv, LeaseTypeOK
<1>2. /\ claims \in SUBSET Claim
      /\ new \in Lease
  <2>1. claims \in SUBSET Claim
    BY DEF RegistryInv, LeaseTypeOK, Acquire
  <2>2. QED BY <2>1, NewLeaseType DEF RegistryInv
<1>3. /\ new.id = issued /\ new.pid = p /\ new.identity = identity[p]
      /\ new.claims = claims /\ new.tokens = NextTokens(claims)
  BY DEF NewLease
<1> HIDE DEF new, claims
<1>4. IdsAgree'
  <2>1. \A l \in leases \cup Held : l.id < issued /\ l.id \in Nat
    BY DEF RegistryInv, IdsAgree, LeaseTypeOK, Held, Lease
  <2>2. issued \in Nat
    BY DEF RegistryInv, LeaseTypeOK
  <2>3. \A l \in (leases \cup Held)' : l = new \/ l \in leases \cup Held
    BY <1>1
  <2>4. \A l \in (leases \cup Held)' : l.id < issued'
    BY <1>1, <1>3, <2>1, <2>2, <2>3
  <2>5. \A l, m \in (leases \cup Held)' : l.id = m.id => l = m
    BY <1>3, <2>1, <2>2, <2>3 DEF RegistryInv, IdsAgree
  <2>6. QED BY <2>4, <2>5 DEF IdsAgree
<1>5. HandlesOwned'
  <2>1. /\ handles' = [handles EXCEPT ![p] = @ \cup {new}]
        /\ up[p] /\ up' = up /\ identity' = identity
    BY DEF Grant, new, claims
  <2>2. QED BY <1>3, <2>1 DEF HandlesOwned, RegistryInv, LeaseTypeOK
<1>6. ConflictFree'
  <2>1. \A l \in LiveRecords(failed) : ~Conflicting(claims, l.claims)
    BY DEF Grant, Blockers, claims
  <2>2. \A l \in LiveRecords(failed) : ~Conflicting(l.claims, claims)
    BY <2>1, ConflictingSymmetric
  <2>3. QED BY <1>1, <1>3, <2>1, <2>2 DEF ConflictFree, RegistryInv
<1>7. TokensWithinCounters'
  <2>1. \A r \in Resource : /\ counters[r] \in Nat
                            /\ counters'[r] = IF r \in WriteResources(claims)
                                              THEN counters[r] + 1 ELSE counters[r]
                            /\ new.tokens[r] = IF r \in WriteResources(claims)
                                               THEN counters[r] + 1 ELSE 0
    BY <1>1, <1>3 DEF RegistryInv, LeaseTypeOK, NextCounters, NextTokens
  <2>2. \A r \in Resource : /\ new.tokens[r] > 0 <=> r \in WriteResources(new.claims)
                            /\ new.tokens[r] <= counters'[r]
    BY <1>3, <2>1
  <2>3. \A l \in leases \cup Held : \A r \in Resource :
          /\ l.tokens[r] > 0 <=> r \in WriteResources(l.claims)
          /\ l.tokens[r] <= counters'[r]
    <3>1. \A l \in leases \cup Held : \A r \in Resource : l.tokens[r] \in Nat
      BY DEF RegistryInv, LeaseTypeOK, Held, Lease
    <3>2. QED BY <2>1, <3>1 DEF RegistryInv, TokensWithinCounters
  <2>4. \A l \in (leases \cup Held)' : l = new \/ l \in leases \cup Held
    BY <1>1
  <2>5. QED BY <2>2, <2>3, <2>4 DEF TokensWithinCounters
<1>8. QED BY <1>4, <1>5, <1>6, <1>7

(* A handle and the record it renews are the same lease.                   *)
LEMMA HandleIsRecord ==
  ASSUME RegistryInv, NEW p \in Process, NEW h \in handles[p],
         NEW l \in leases, Owns(p, h, l)
  PROVE  l = h
  BY DEF RegistryInv, IdsAgree, Held, Owns

(* A renewal changes one lease's expiry, in the registry and in the hands  *)
(* of its owner, and nothing else.                                         *)
LEMMA RenewKeeps ==
  ASSUME RegistryInv, NEW p \in Process, NEW h \in handles[p], Renew(p, h)
  PROVE  IdsAgree' /\ HandlesOwned' /\ ConflictFree' /\ TokensWithinCounters'
<1>1. h \in leases /\ h \in Lease /\ h.pid = p /\ h.identity = identity[p]
  BY HandleIsRecord DEF Renew, Renewable, RegistryInv, LeaseTypeOK, HandlesOwned
<1> DEFINE new == [h EXCEPT !.expires = clock + TTL]
<1>2. /\ leases' = (leases \ {h}) \cup {new}
      /\ handles' = [handles EXCEPT ![p] = (@ \ {h}) \cup {new}]
      /\ counters' = counters /\ issued' = issued
      /\ up[p] /\ up' = up /\ identity' = identity
  BY HandleIsRecord DEF Renew, Renewable
<1>3. /\ new.id = h.id /\ new.pid = h.pid /\ new.identity = h.identity
      /\ new.claims = h.claims /\ new.tokens = h.tokens
  BY <1>1 DEF Lease
<1> HIDE DEF new
<1>4. HandlesOwned'
  BY <1>1, <1>2, <1>3 DEF HandlesOwned, RegistryInv, LeaseTypeOK
<1>5. \A l \in (leases \cup Held)' : l = new \/ (l \in leases \cup Held /\ l # h)
  <2>1. \A q \in Process : \A g \in handles'[q] :
          g = new \/ (g \in handles[q] /\ g # h)
    BY <1>1, <1>2 DEF RegistryInv, LeaseTypeOK, HandlesOwned
  <2>2. QED BY <1>2, <2>1 DEF Held
<1>6. IdsAgree'
  <2>1. \A l \in leases \cup Held : l.id < issued /\ (l.id = h.id => l = h)
    BY <1>1 DEF RegistryInv, IdsAgree
  <2>2. QED BY <1>1, <1>2, <1>3, <1>5, <2>1 DEF RegistryInv, IdsAgree
<1>7. ConflictFree'
  BY <1>1, <1>2, <1>3 DEF RegistryInv, ConflictFree
<1>8. TokensWithinCounters'
  BY <1>1, <1>2, <1>3, <1>5 DEF RegistryInv, TokensWithinCounters
<1>9. QED BY <1>4, <1>6, <1>7, <1>8

(* RegistryInv is inductive, whichever identity lookups fail.              *)
LEMMA RegistryStep == RegistryInv /\ [LeaseNext]_leaseVars => RegistryInv'
<1> SUFFICES ASSUME RegistryInv, [LeaseNext]_leaseVars PROVE RegistryInv'
  OBVIOUS
<1>1. LeaseTypeOK'
  BY TypeStep DEF RegistryInv
<1> USE DEF RegistryInv, LeaseTypeOK
<1> SUFFICES IdsAgree' /\ HandlesOwned' /\ ConflictFree' /\ TokensWithinCounters'
  BY <1>1
<1>2. ASSUME NEW p \in Process, NEW request \in Requests, Request(p, request)
      PROVE  IdsAgree' /\ HandlesOwned' /\ ConflictFree' /\ TokensWithinCounters'
  BY <1>2, ShrinkKeeps DEF Request, HandlesOwned
<1>3. ASSUME NEW p \in Process, NEW failed \in LookupFailures, Grant(p, failed)
      PROVE  IdsAgree' /\ HandlesOwned' /\ ConflictFree' /\ TokensWithinCounters'
  BY <1>3, GrantKeeps
<1>4. ASSUME NEW p \in Process, NEW failed \in LookupFailures, Contend(p, failed)
      PROVE  IdsAgree' /\ HandlesOwned' /\ ConflictFree' /\ TokensWithinCounters'
  BY <1>4, ShrinkKeeps DEF Contend, LiveRecords, HandlesOwned
<1>5. ASSUME NEW p \in Process, Retry(p) \/ GiveUp(p) \/ LockTimeout(p)
      PROVE  IdsAgree' /\ HandlesOwned' /\ ConflictFree' /\ TokensWithinCounters'
  BY <1>5, ShrinkKeeps DEF Retry, GiveUp, LockTimeout, HandlesOwned
<1>6. ASSUME NEW p \in Process, NEW h \in handles[p], Renew(p, h)
      PROVE  IdsAgree' /\ HandlesOwned' /\ ConflictFree' /\ TokensWithinCounters'
  BY <1>6, RenewKeeps
<1>7. ASSUME NEW p \in Process, NEW h \in handles[p],
             Release(p, h) \/ ReleaseFails(p, h)
      PROVE  IdsAgree' /\ HandlesOwned' /\ ConflictFree' /\ TokensWithinCounters'
  BY <1>7, ShrinkKeeps DEF Release, ReleaseFails, HandlesOwned
<1>8. ASSUME NEW p \in Process, Crash(p)
      PROVE  IdsAgree' /\ HandlesOwned' /\ ConflictFree' /\ TokensWithinCounters'
  BY <1>8, ShrinkKeeps DEF Crash, HandlesOwned
<1>9. ASSUME NEW p \in Process, Restart(p)
      PROVE  IdsAgree' /\ HandlesOwned' /\ ConflictFree' /\ TokensWithinCounters'
  BY <1>9, ShrinkKeeps DEF Restart, HandlesOwned
<1>10. CASE Tick
  BY <1>10, ShrinkKeeps DEF Tick, HandlesOwned
<1>11. CASE UNCHANGED leaseVars
  BY <1>11, ShrinkKeeps DEF leaseVars, HandlesOwned
<1>12. QED
  BY <1>2, <1>3, <1>4, <1>5, <1>6, <1>7, <1>8, <1>9, <1>10, <1>11
  DEF LeaseNext, Transact

LEMMA InitRegistryInv == LeaseInit => RegistryInv /\ BelievedIsRegistered
<1> SUFFICES ASSUME LeaseInit PROVE RegistryInv /\ BelievedIsRegistered
  OBVIOUS
<1>1. leases \cup Held = {}
  BY DEF LeaseInit, Held
<1>2. LeaseTypeOK
  BY DEF LeaseInit, LeaseTypeOK, NoAcquire, Acquire
<1>3. HandlesOwned
  BY DEF LeaseInit, HandlesOwned
<1>4. QED BY <1>1, <1>2, <1>3
  DEF RegistryInv, IdsAgree, ConflictFree, TokensWithinCounters,
      BelievedIsRegistered, Believed

(* The registry never holds two conflicting leases (ConflictFree), never   *)
(* a file its own loader rejects (TokensWithinCounters), and its ids agree *)
(* with the holders' (IdsAgree): whatever lookups fail, whoever crashes.   *)
THEOREM RegistryCorrect ==
  LeaseSpec => [](IdsAgree /\ HandlesOwned /\ ConflictFree /\ TokensWithinCounters)
<1>1. RegistryInv => IdsAgree /\ HandlesOwned /\ ConflictFree /\ TokensWithinCounters
  BY DEF RegistryInv
<1>2. QED BY <1>1, InitRegistryInv, RegistryStep, PTL DEF LeaseSpec

-----------------------------------------------------------------------------
(* When lookups do not fail, a transaction drops no lease whose holder may *)
(* still believe in it: the holder lives, under the recorded identity.     *)
LEMMA BelievedIsLive ==
  ASSUME RegistryInv, BelievedIsRegistered
  PROVE  Believed \subseteq LiveRecords({})
  BY DEF RegistryInv, HandlesOwned, BelievedIsRegistered, Believed, Held,
         LiveRecords, SameProcess

LEMMA BelievedStep ==
  ASSUME LookupFailures \subseteq {{}}
  PROVE  LeaseInv /\ [LeaseNext]_leaseVars => BelievedIsRegistered'
<1> SUFFICES ASSUME LeaseInv, [LeaseNext]_leaseVars PROVE BelievedIsRegistered'
  OBVIOUS
<1> USE DEF LeaseInv
<1>1. Believed \subseteq leases /\ Believed \subseteq LiveRecords({})
  BY BelievedIsLive DEF BelievedIsRegistered
<1>2. ASSUME clock' = clock, Held' \subseteq Held, Believed \subseteq leases'
      PROVE  BelievedIsRegistered'
  BY <1>2 DEF BelievedIsRegistered, Believed
<1>3. ASSUME clock' = clock, handles' = handles, leases' = leases
      PROVE  BelievedIsRegistered'
  BY <1>1, <1>2, <1>3 DEF Held
<1>4. ASSUME NEW p \in Process, NEW request \in Requests, Request(p, request)
      PROVE  BelievedIsRegistered'
  BY <1>3, <1>4 DEF Request
<1>5. ASSUME NEW p \in Process, NEW failed \in LookupFailures, Grant(p, failed)
      PROVE  BelievedIsRegistered'
  <2> DEFINE new == NewLease(p, pending[p].claims)
  <2>0. failed = {}
    OBVIOUS
  <2>1. /\ leases' = LiveRecords({}) \cup {new}
        /\ Held' \subseteq Held \cup {new}
        /\ clock' = clock
    <3>1. leases' = LiveRecords({}) \cup {new} /\ clock' = clock
      BY <1>5, <2>0 DEF Grant
    <3>2. handles' = [handles EXCEPT ![p] = @ \cup {new}]
      BY <1>5 DEF Grant
    <3>3. QED BY <3>1, <3>2 DEF Held, RegistryInv, LeaseTypeOK
  <2> HIDE DEF new
  <2>2. QED BY <1>1, <2>1 DEF BelievedIsRegistered, Believed
<1>6. ASSUME NEW p \in Process, NEW failed \in LookupFailures, Contend(p, failed)
      PROVE  BelievedIsRegistered'
  <2>0. failed = {}
    OBVIOUS
  <2>1. leases' = LiveRecords({}) /\ handles' = handles /\ clock' = clock
    BY <1>6, <2>0 DEF Contend
  <2>2. QED BY <1>1, <1>2, <2>1 DEF Held
<1>7. ASSUME NEW p \in Process, Retry(p) \/ GiveUp(p) \/ LockTimeout(p)
      PROVE  BelievedIsRegistered'
  BY <1>3, <1>7 DEF Retry, GiveUp, LockTimeout
<1>8. ASSUME NEW p \in Process, NEW h \in handles[p], Renew(p, h)
      PROVE  BelievedIsRegistered'
  <2> DEFINE new == [h EXCEPT !.expires = clock + TTL]
  <2>1. /\ leases' = (leases \ {h}) \cup {new}
        /\ handles' = [handles EXCEPT ![p] = (@ \ {h}) \cup {new}]
        /\ clock' = clock
    BY <1>8, HandleIsRecord DEF Renew, Renewable
  <2>2. \A g \in Held' : g = new \/ (g \in Held /\ g # h)
    BY <2>1 DEF Held, RegistryInv, LeaseTypeOK, HandlesOwned
  <2> HIDE DEF new
  <2>3. QED BY <1>1, <2>1, <2>2 DEF BelievedIsRegistered, Believed
<1>9. ASSUME NEW p \in Process, NEW h \in handles[p], Release(p, h)
      PROVE  BelievedIsRegistered'
  <2>1. /\ leases' = {l \in leases : ~Owns(p, h, l)}
        /\ handles' = [handles EXCEPT ![p] = @ \ {h}]
        /\ clock' = clock
    BY <1>9 DEF Release
  <2>2. h \notin Held' /\ Held' \subseteq Held
    BY <2>1 DEF Held, RegistryInv, LeaseTypeOK, HandlesOwned
  <2>3. \A l \in leases \ leases' : l = h
    BY <2>1, HandleIsRecord
  <2>4. QED BY <1>1, <2>1, <2>2, <2>3 DEF BelievedIsRegistered, Believed
<1>10. ASSUME NEW p \in Process, NEW h \in handles[p], ReleaseFails(p, h)
       PROVE  BelievedIsRegistered'
  BY <1>1, <1>2, <1>10 DEF ReleaseFails, Held, RegistryInv, LeaseTypeOK
<1>11. ASSUME NEW p \in Process, Crash(p)
       PROVE  BelievedIsRegistered'
  BY <1>1, <1>2, <1>11 DEF Crash, Held, RegistryInv, LeaseTypeOK
<1>12. ASSUME NEW p \in Process, Restart(p)
       PROVE  BelievedIsRegistered'
  BY <1>3, <1>12 DEF Restart
<1>13. CASE Tick
  <2>1. clock \in Nat /\ \A h \in Held : h.expires \in Nat
    BY DEF RegistryInv, LeaseTypeOK, Held, Lease
  <2>2. Held' = Held /\ leases' = leases /\ clock' = clock + 1
    BY <1>13 DEF Tick, Held
  <2>3. Believed' \subseteq Believed
    BY <2>1, <2>2 DEF Believed
  <2>4. QED BY <1>1, <2>2, <2>3 DEF BelievedIsRegistered
<1>14. CASE UNCHANGED leaseVars
  BY <1>3, <1>14 DEF leaseVars
<1>15. QED
  BY <1>4, <1>5, <1>6, <1>7, <1>8, <1>9, <1>10, <1>11, <1>12, <1>13, <1>14
  DEF LeaseNext, Transact

(* The invariant of the manager: ids, owners, conflicts and tokens agree,  *)
(* and no lease is dropped while its holder may believe in it.             *)
THEOREM LeaseInvariance ==
  ASSUME LookupFailures \subseteq {{}}
  PROVE  LeaseSpec => []LeaseInv
<1>1. LeaseInit => LeaseInv
  BY InitRegistryInv DEF LeaseInv
<1>2. LeaseInv /\ [LeaseNext]_leaseVars => LeaseInv'
  BY RegistryStep, BelievedStep DEF LeaseInv
<1>3. QED BY <1>1, <1>2, PTL DEF LeaseSpec

(* Mutual exclusion: when identity lookups do not fail, no two leases that *)
(* have not expired conflict, and each of them is in the registry.         *)
THEOREM HoldersExcludeEachOther ==
  ASSUME LookupFailures \subseteq {{}}
  PROVE  LeaseSpec => [](BelievedIsRegistered /\ NoConflictingHolders)
<1>1. LeaseInv => BelievedIsRegistered /\ NoConflictingHolders
  BY DEF LeaseInv, RegistryInv, BelievedIsRegistered, NoConflictingHolders,
         ConflictFree
<1>2. QED BY <1>1, LeaseInvariance, PTL

-----------------------------------------------------------------------------
(* No theft: when identity lookups do not fail, a record that has not      *)
(* expired and whose owner lives leaves the registry only as the owner     *)
(* gives its handle up (_live_records, acquire, release).                  *)
THEOREM LiveLeasesAreNotStolen ==
  ASSUME LookupFailures \subseteq {{}}
  PROVE  LeaseSpec => NoTheft
<1>1. LeaseTypeOK /\ [LeaseNext]_leaseVars => [NoTheftStep]_leaseVars
  <2> SUFFICES ASSUME LeaseTypeOK, LeaseNext, NEW l \in LiveRecords({})
               PROVE  \/ \E m \in leases' : m.id = l.id
                      \/ \E h \in handles[l.pid] : h.id = l.id /\ h \notin handles'[l.pid]
    BY DEF NoTheftStep
  <2>1. l \in leases /\ l \in Lease
    BY DEF LiveRecords, LeaseTypeOK
  <2>2. ASSUME NEW p \in Process, Transact(p) PROVE l \in leases'
    BY <2>2 DEF Transact, Grant, Contend
  <2>3. ASSUME NEW p \in Process, NEW h \in handles[p], Renew(p, h)
        PROVE  \E m \in leases' : m.id = l.id
    <3>1. PICK k \in leases : leases' = (leases \ {k}) \cup {[k EXCEPT !.expires = clock + TTL]}
      BY <2>3 DEF Renew, Renewable
    <3>2. [k EXCEPT !.expires = clock + TTL].id = k.id
      BY <3>1 DEF LeaseTypeOK, Lease
    <3>3. QED BY <2>1, <3>1, <3>2
  <2>4. ASSUME NEW p \in Process, NEW h \in handles[p], Release(p, h), l \notin leases'
        PROVE  h \in handles[l.pid] /\ h.id = l.id /\ h \notin handles'[l.pid]
    BY <2>1, <2>4 DEF Release, Owns, LeaseTypeOK
  <2>5. ASSUME leases' = leases PROVE l \in leases'
    BY <2>1, <2>5
  <2>6. ASSUME NEW p \in Process,
               \/ \E request \in Requests : Request(p, request)
               \/ Retry(p) \/ GiveUp(p) \/ LockTimeout(p) \/ Crash(p) \/ Restart(p)
               \/ \E h \in handles[p] : ReleaseFails(p, h)
        PROVE  leases' = leases
    BY <2>6 DEF Request, Retry, GiveUp, LockTimeout, Crash, Restart, ReleaseFails
  <2>7. Tick => leases' = leases
    BY DEF Tick
  <2>8. QED BY <2>2, <2>3, <2>4, <2>5, <2>6, <2>7 DEF LeaseNext
<1>2. QED BY <1>1, LeaseTypeCorrect, PTL DEF LeaseSpec, NoTheft

-----------------------------------------------------------------------------
(* Fencing: every grant's tokens are above all tokens of the same resource *)
(* in the registry or in any holder's memory, even if lookups fail.        *)
THEOREM FencingTokensAreFresh == LeaseSpec => FreshTokens
<1>1. RegistryInv /\ [LeaseNext]_leaseVars => [FreshTokensStep]_leaseVars
  <2> SUFFICES ASSUME RegistryInv, [LeaseNext]_leaseVars, ~UNCHANGED leaseVars
               PROVE  FreshTokensStep
    OBVIOUS
  <2>1. \A l \in leases \cup Held : l.id < issued /\ ~(l.id >= issued)
    BY DEF RegistryInv, IdsAgree, LeaseTypeOK, Held, Lease
  <2>2. ASSUME NEW p \in Process, NEW failed \in LookupFailures, Grant(p, failed)
        PROVE  FreshTokensStep
    <3> DEFINE claims == pending[p].claims
               new    == NewLease(p, claims)
    <3>1. handles' = [handles EXCEPT ![p] = @ \cup {new}]
      BY <2>2 DEF Grant
    <3>2. new.tokens = NextTokens(claims) /\ new.claims = claims
      BY DEF NewLease
    <3> HIDE DEF new, claims
    <3>3. \A r \in WriteResources(claims), l \in leases \cup Held :
            l.tokens[r] < new.tokens[r]
      <4>1. WriteResources(claims) \subseteq Resource
        BY DEF claims, RegistryInv, LeaseTypeOK, Acquire, Claim, WriteResources
      <4>2. \A r \in Resource : /\ counters[r] \in Nat
                                /\ \A l \in leases \cup Held :
                                     l.tokens[r] \in Nat /\ l.tokens[r] <= counters[r]
        BY DEF RegistryInv, LeaseTypeOK, TokensWithinCounters, Held, Lease
      <4>3. QED BY <3>2, <4>1, <4>2 DEF NextTokens
    <3>4. \A q \in Process : \A h \in handles'[q] : h = new \/ h \in Held
      BY <3>1 DEF RegistryInv, LeaseTypeOK, Held
    <3>5. QED BY <2>1, <3>2, <3>3, <3>4 DEF FreshTokensStep
  <2>3. ASSUME \A q \in Process : \A h \in handles'[q] :
                 \E l \in leases \cup Held : h.id = l.id
        PROVE  FreshTokensStep
    BY <2>1, <2>3 DEF FreshTokensStep
  <2>4. ASSUME \A q \in Process : handles'[q] \subseteq handles[q]
        PROVE  FreshTokensStep
    BY <2>3, <2>4 DEF Held
  <2>5. ASSUME NEW p \in Process, NEW h \in handles[p], Renew(p, h)
        PROVE  FreshTokensStep
    <3>1. PICK l \in leases : handles' =
             [handles EXCEPT ![p] = (@ \ {h}) \cup {[l EXCEPT !.expires = clock + TTL]}]
      BY <2>5 DEF Renew, Renewable
    <3>2. [l EXCEPT !.expires = clock + TTL].id = l.id
      BY <3>1 DEF RegistryInv, LeaseTypeOK, Lease
    <3>3. \A q \in Process : \A g \in handles'[q] :
            g = [l EXCEPT !.expires = clock + TTL] \/ g \in Held
      BY <3>1 DEF RegistryInv, LeaseTypeOK, Held
    <3>4. QED BY <2>3, <3>2, <3>3
  <2>6. ASSUME NEW p \in Process, NEW h \in handles[p],
               Release(p, h) \/ ReleaseFails(p, h)
        PROVE  FreshTokensStep
    BY <2>4, <2>6 DEF Release, ReleaseFails, RegistryInv, LeaseTypeOK
  <2>7. ASSUME NEW p \in Process,
               \/ \E request \in Requests : Request(p, request)
               \/ \E failed \in LookupFailures : Contend(p, failed)
               \/ Retry(p) \/ GiveUp(p) \/ LockTimeout(p) \/ Restart(p)
        PROVE  FreshTokensStep
    BY <2>4, <2>7 DEF Request, Contend, Retry, GiveUp, LockTimeout, Restart
  <2>8. ASSUME NEW p \in Process, Crash(p) PROVE FreshTokensStep
    BY <2>4, <2>8 DEF Crash, RegistryInv, LeaseTypeOK
  <2>9. CASE Tick
    BY <2>4, <2>9 DEF Tick
  <2>10. QED
    BY <2>2, <2>5, <2>6, <2>7, <2>8, <2>9 DEF LeaseNext, Transact
<1>2. QED BY <1>1, InitRegistryInv, RegistryStep, PTL DEF LeaseSpec, FreshTokens

-----------------------------------------------------------------------------
(* The manager implements LeaseService.  A grant is what a holder may still*)
(* rely on; a renewal, which changes an expiry only, is no step of the     *)
(* service.                                                                *)

Promise(h) == [id |-> h.id, pid |-> h.pid, claims |-> h.claims, tokens |-> h.tokens]
Promised   == {Promise(h) : h \in Believed}

(* A step after which a holder relies on nothing new ends some leases, or  *)
(* the service takes no step.                                              *)
LEMMA EndingImplements ==
  ASSUME Promised' \subseteq Promised, issued' = issued, counters' = counters
  PROVE  [Service!ServiceNext]_(Service!serviceVars)
<1>1. /\ Promised = {[id |-> h.id, pid |-> h.pid, claims |-> h.claims,
                      tokens |-> h.tokens] : h \in Believed}
      /\ Promised' = {[id |-> h.id, pid |-> h.pid, claims |-> h.claims,
                       tokens |-> h.tokens] : h \in Believed'}
  BY DEF Promised, Promise
<1>2. CASE Promised' = Promised
  BY <1>1, <1>2 DEF Service!serviceVars
<1>3. CASE Promised' # Promised
  <2> DEFINE ended == Promised \ Promised'
  <2>1. ended \in SUBSET Promised /\ ended # {} /\ Promised' = Promised \ ended
    BY <1>3
  <2> HIDE DEF ended
  <2>2. Service!ServiceNext
    BY <1>1, <2>1 DEF Service!ServiceNext, Service!EndLeases
  <2>3. QED BY <2>2
<1>4. QED BY <1>2, <1>3

(* So does one that takes handles away and moves the clock on.             *)
LEMMA LosingImplements ==
  ASSUME LeaseTypeOK, clock' \in {clock, clock + 1},
         \A q \in Process : handles'[q] \subseteq handles[q],
         issued' = issued, counters' = counters
  PROVE  [Service!ServiceNext]_(Service!serviceVars)
<1>1. Held' \subseteq Held
  BY DEF Held
<1>2. clock \in Nat /\ \A h \in Held : h.expires \in Nat
  BY DEF LeaseTypeOK, Held, Lease
<1>3. Believed' \subseteq Believed
  BY <1>1, <1>2 DEF Believed
<1>4. Promised' \subseteq Promised
  BY <1>3 DEF Promised
<1>5. QED BY <1>4, EndingImplements

LEMMA RenewImplements ==
  ASSUME LeaseInv, NEW p \in Process, NEW h \in handles[p], Renew(p, h)
  PROVE  [Service!ServiceNext]_(Service!serviceVars)
<1> DEFINE new == [h EXCEPT !.expires = clock + TTL]
<1>1. /\ h \in leases /\ h.expires > clock
      /\ handles' = [handles EXCEPT ![p] = (@ \ {h}) \cup {new}]
      /\ clock' = clock /\ counters' = counters /\ issued' = issued
  BY HandleIsRecord DEF Renew, Renewable, LeaseInv
<1>2. h \in Lease /\ h \in Believed
  BY <1>1 DEF LeaseInv, RegistryInv, LeaseTypeOK, Believed, Held
<1>3. Promise(new) = Promise(h)
  BY <1>2 DEF Promise, Lease
<1>4. \A g \in Held' : g = new \/ g \in Held
  BY <1>1 DEF Held, LeaseInv, RegistryInv, LeaseTypeOK
<1> HIDE DEF new
<1>5. \A g \in Believed' : g = new \/ g \in Believed
  BY <1>1, <1>4 DEF Believed
<1>6. Promised' \subseteq Promised
  BY <1>2, <1>3, <1>5 DEF Promised
<1>7. QED BY <1>1, <1>6, EndingImplements

LEMMA GrantImplements ==
  ASSUME LeaseInv, NEW p \in Process, Grant(p, {})
  PROVE  Service!ServiceNext
<1> DEFINE claims == pending[p].claims
           new    == NewLease(p, claims)
<1>1. /\ Blockers(claims, {}) = {} /\ issued < MaxLeases
      /\ handles' = [handles EXCEPT ![p] = @ \cup {new}]
      /\ counters' = NextCounters(claims) /\ issued' = issued + 1 /\ clock' = clock
  BY DEF Grant
<1>2. claims \in SUBSET Claim /\ new \in Lease
  BY NewLeaseType DEF LeaseInv, RegistryInv, LeaseTypeOK, Acquire
<1>3. /\ new.id = issued /\ new.pid = p /\ new.claims = claims
      /\ new.tokens = NextTokens(claims) /\ new.expires = clock + TTL
  BY DEF NewLease
<1>4. Held' = Held \cup {new}
  BY <1>1 DEF Held, LeaseInv, RegistryInv, LeaseTypeOK
<1> HIDE DEF new, claims
<1>5. clock \in Nat /\ issued \in Nat
  BY DEF LeaseInv, RegistryInv, LeaseTypeOK
<1>6. Believed' = Believed \cup {new}
  <2>1. new.expires > clock
    BY <1>3, <1>5
  <2>2. QED BY <1>1, <1>4, <2>1 DEF Believed
<1>7. \A g \in Promised : ~ Conflicting(claims, g.claims)
  <2>1. \A h \in Believed : ~ Conflicting(claims, h.claims)
    BY <1>1, BelievedIsLive DEF LeaseInv, Blockers
  <2>2. QED BY <2>1 DEF Promised, Promise
<1>8. Promised' = Promised \cup {[id |-> issued, pid |-> p, claims |-> claims,
                                  tokens |-> NextTokens(claims)]}
  BY <1>3, <1>6 DEF Promised, Promise
<1>9. /\ issued \in (0 .. MaxLeases - 1) \ (0 .. issued - 1)
      /\ 0 .. issued' - 1 = (0 .. issued - 1) \cup {issued}
  BY <1>1, <1>5
<1>10. /\ Promised = {[id |-> h.id, pid |-> h.pid, claims |-> h.claims,
                       tokens |-> h.tokens] : h \in Believed}
       /\ Promised' = {[id |-> h.id, pid |-> h.pid, claims |-> h.claims,
                        tokens |-> h.tokens] : h \in Believed'}
  BY DEF Promised, Promise
<1>11. /\ \A cs, ds : Service!Conflicting(cs, ds) <=> Conflicting(cs, ds)
       /\ Service!NextTokens(claims, counters) = NextTokens(claims)
       /\ counters' = [r \in Resource |-> IF r \in Service!WriteResources(claims)
                                          THEN counters[r] + 1 ELSE counters[r]]
       /\ Service!Claim = Claim
  BY <1>1 DEF Service!Conflicting, Conflicting, Service!Clash, Clash, Service!NextTokens,
              NextTokens, Service!WriteResources, WriteResources, NextCounters,
              Service!Claim, Claim, Mode
<1>12. claims \in SUBSET Service!Claim
  BY <1>2, <1>11
<1>13. QED
  BY <1>7, <1>8, <1>9, <1>10, <1>11, <1>12 DEF Service!ServiceNext, Service!GrantLease

LEMMA StepImplements ==
  ASSUME LookupFailures \subseteq {{}}, LeaseInv, [LeaseNext]_leaseVars
  PROVE  [Service!ServiceNext]_(Service!serviceVars)
<1> USE DEF LeaseInv, RegistryInv, LeaseTypeOK
<1>1. ASSUME NEW p \in Process, NEW failed \in LookupFailures, Grant(p, failed)
      PROVE  [Service!ServiceNext]_(Service!serviceVars)
  <2>1. failed = {}
    OBVIOUS
  <2>2. QED BY <1>1, <2>1, GrantImplements
<1>2. ASSUME NEW p \in Process, NEW h \in handles[p], Renew(p, h)
      PROVE  [Service!ServiceNext]_(Service!serviceVars)
  BY <1>2, RenewImplements
<1>3. ASSUME NEW p \in Process, NEW h \in handles[p], Release(p, h) \/ ReleaseFails(p, h)
      PROVE  [Service!ServiceNext]_(Service!serviceVars)
  BY <1>3, LosingImplements DEF Release, ReleaseFails
<1>4. ASSUME NEW p \in Process, Crash(p)
      PROVE  [Service!ServiceNext]_(Service!serviceVars)
  BY <1>4, LosingImplements DEF Crash
<1>5. ASSUME NEW p \in Process,
             \/ \E request \in Requests : Request(p, request)
             \/ \E failed \in LookupFailures : Contend(p, failed)
             \/ Retry(p) \/ GiveUp(p) \/ LockTimeout(p) \/ Restart(p)
      PROVE  [Service!ServiceNext]_(Service!serviceVars)
  BY <1>5, LosingImplements DEF Request, Contend, Retry, GiveUp, LockTimeout, Restart
<1>6. CASE Tick
  BY <1>6, LosingImplements DEF Tick
<1>7. CASE UNCHANGED leaseVars
  BY <1>7, LosingImplements DEF leaseVars
<1>8. QED BY <1>1, <1>2, <1>3, <1>4, <1>5, <1>6, <1>7 DEF LeaseNext, Transact

(* When identity lookups do not fail, the manager with its file, its clock *)
(* and its crashing processes does nothing the service does not allow: no  *)
(* grant conflicts with a valid one, every write grant takes the next      *)
(* number of its resource, and nothing brings a lost grant back.           *)
THEOREM ManagerImplementsService ==
  ASSUME LookupFailures \subseteq {{}}
  PROVE  LeaseSpec => ImplementsLeaseService
<1>1. LeaseInit => Service!ServiceInit
  <2> SUFFICES ASSUME LeaseInit PROVE Service!ServiceInit
    OBVIOUS
  <2>1. Held = {} /\ issued = 0 /\ counters = [r \in Resource |-> 0]
    BY DEF LeaseInit, Held
  <2>2. Believed = {} /\ 0 .. issued - 1 = {}
    BY <2>1 DEF Believed
  <2>3. QED BY <2>1, <2>2 DEF Service!ServiceInit
<1>2. LeaseInv /\ [LeaseNext]_leaseVars => [Service!ServiceNext]_(Service!serviceVars)
  BY StepImplements
<1>3. QED
  BY <1>1, <1>2, LeaseInvariance, PTL
  DEF LeaseSpec, ImplementsLeaseService, Service!ServiceSpec

HIDE LeaseAssumption

-----------------------------------------------------------------------------
(* Leased operations.                                                      *)

(* run_leased_operation touches the registry only by the manager's calls.  *)
LEMMA OperationStepsLeases == [OperationNext]_vars => [LeaseNext]_leaseVars
<1> SUFFICES ASSUME OperationNext PROVE [LeaseNext]_leaseVars
  BY DEF vars
<1>1. ASSUME NEW p \in Process, NEW request \in Requests, Begin(p, request)
      PROVE  LeaseNext
  BY <1>1 DEF Begin, LeaseNext
<1>2. ASSUME NEW p \in Process, NEW failed \in LookupFailures, Acquired(p, failed)
      PROVE  LeaseNext
  BY <1>2 DEF Acquired, LeaseNext, Transact
<1>3. ASSUME NEW p \in Process, Poll(p) PROVE LeaseNext
  BY <1>3 DEF Poll, LeaseNext, Transact
<1>4. ASSUME NEW p \in Process, Refused(p) PROVE LeaseNext
  BY <1>4 DEF Refused, LeaseNext
<1>5. ASSUME NEW p \in Process,
             \/ Start(p) \/ StartFails(p) \/ Wake(p) \/ RenewFails(p) \/ SeeStop(p)
             \/ \E r \in Resource : Write(p, r)
             \/ FinishOperation(p) \/ Joined(p) \/ JoinTimesOut(p)
      PROVE  UNCHANGED leaseVars
  BY <1>5 DEF Start, StartFails, Wake, RenewFails, SeeStop, Write, FinishOperation,
              Joined, JoinTimesOut
<1>6. ASSUME NEW p \in Process, Renewed(p) PROVE LeaseNext
  BY <1>6 DEF Renewed, LeaseNext
<1>7. ASSUME NEW p \in Process, EndOperation(p) PROVE LeaseNext
  BY <1>7 DEF EndOperation, LeaseNext
<1>8. ASSUME NEW p \in Process, Die(p) PROVE LeaseNext
  BY <1>8 DEF Die, LeaseNext
<1>9. ASSUME NEW p \in Process, Restart(p) PROVE LeaseNext
  BY <1>9 DEF LeaseNext
<1>10. CASE PassTime
  BY <1>10 DEF PassTime, LeaseNext
<1>11. QED
  BY <1>1, <1>2, <1>3, <1>4, <1>5, <1>6, <1>7, <1>8, <1>9, <1>10 DEF OperationNext

(* Leased operations implement the lease manager's specification.          *)
THEOREM OperationsUseTheManager == OperationSpec => LeaseSpec
<1>1. OperationInit => LeaseInit
  BY DEF OperationInit
<1>2. QED BY <1>1, OperationStepsLeases, PTL DEF OperationSpec, LeaseSpec

-----------------------------------------------------------------------------
(* The lease of an operation.                                              *)

LEMMA OperationTypeStep ==
  OperationTypeOK /\ [OperationNext]_vars => OperationTypeOK'
<1> SUFFICES ASSUME OperationTypeOK, [OperationNext]_vars PROVE OperationTypeOK'
  OBVIOUS
<1> DEFINE Types == /\ phase \in [Process -> {"idle", "acquiring"} \cup Active \cup Joining]
                    /\ hb \in [Process -> {"off", "waiting", "renewing", "failed", "ended"}]
                    /\ due \in [Process -> Nat]
                    /\ verdict \in [Process -> {"none", "value", "error", "unstarted", "raised"}]
                    /\ outcome \in [Process -> {"none", "completed", "failed", "blocked",
                                                "contended", "raised"}]
                    /\ tardy \in [Process -> BOOLEAN] /\ overtaken \in [Process -> BOOLEAN]
                    /\ highest \in [Resource -> Nat]
                    /\ writer \in [Resource -> Nat \cup {-1}]
<1> USE DEF Active, Joining
<1>1. LeaseTypeOK'
  BY OperationStepsLeases, TypeStep DEF OperationTypeOK
<1>2. LeaseTypeOK /\ Types
  BY DEF OperationTypeOK
<1>3. ASSUME NEW p \in Process, NEW request \in Requests, Begin(p, request)
      PROVE  Types'
  BY <1>2, <1>3 DEF Begin
<1>4. ASSUME NEW p \in Process, NEW failed \in LookupFailures, Acquired(p, failed)
      PROVE  Types'
  BY <1>2, <1>4 DEF Acquired, LeaseTypeOK
<1>5. ASSUME NEW p \in Process, Poll(p) \/ (Restart(p) /\ UNCHANGED opVars)
      PROVE  Types'
  BY <1>2, <1>5 DEF Poll, opVars
<1>6. ASSUME NEW p \in Process, Refused(p) PROVE Types'
  BY <1>2, <1>6 DEF Refused
<1>7. ASSUME NEW p \in Process, Start(p) PROVE Types'
  <2>1. clock + Interval \in Nat
    BY <1>2, HeartbeatAssumption DEF LeaseTypeOK
  <2>2. QED BY <1>2, <1>7, <2>1 DEF Start
<1>8. ASSUME NEW p \in Process,
             StartFails(p) \/ Wake(p) \/ RenewFails(p) \/ SeeStop(p) \/ FinishOperation(p)
      PROVE  Types'
  BY <1>2, <1>8 DEF StartFails, Wake, RenewFails, SeeStop, FinishOperation
<1>9. ASSUME NEW p \in Process, Renewed(p) PROVE Types'
  <2>1. clock + Interval \in Nat
    BY <1>2, HeartbeatAssumption DEF LeaseTypeOK
  <2>2. QED BY <1>2, <1>9, <2>1 DEF Renewed
<1>10. ASSUME NEW p \in Process, NEW r \in Resource, Write(p, r) PROVE Types'
  <2>1. PICK h \in handles[p] : /\ highest' = [highest EXCEPT ![r] = h.tokens[r]]
                                /\ writer' = [writer EXCEPT ![r] = h.id]
    BY <1>10 DEF Write
  <2>2. h.tokens[r] \in Nat /\ h.id \in Nat
    BY <1>2 DEF LeaseTypeOK, Lease
  <2>3. QED BY <1>2, <1>10, <2>1, <2>2 DEF Write
<1>11. ASSUME NEW p \in Process, Joined(p) \/ JoinTimesOut(p) PROVE Types'
  BY <1>2, <1>11 DEF Joined, JoinTimesOut, WithHeartbeatError
<1>12. ASSUME NEW p \in Process, EndOperation(p) PROVE Types'
  <2>1. \A raised \in BOOLEAN : Outcome(verdict[p], raised)
                                \in {"completed", "failed", "blocked", "raised"}
    BY DEF Outcome
  <2>2. \E raised \in BOOLEAN :
          outcome' = [outcome EXCEPT ![p] = Outcome(verdict[p], raised)]
    BY <1>12 DEF EndOperation
  <2>3. QED BY <1>2, <1>12, <2>1, <2>2 DEF EndOperation
<1>13. ASSUME NEW p \in Process, Die(p) PROVE Types'
  BY <1>2, <1>13 DEF Die
<1>14. ASSUME PassTime PROVE Types'
  <2>1. tardy' \in [Process -> BOOLEAN]
    BY <1>14 DEF PassTime
  <2>2. UNCHANGED <<phase, hb, due, verdict, outcome, overtaken, highest, writer>>
    BY <1>14 DEF PassTime
  <2>3. QED BY <1>2, <2>1, <2>2
<1>15. ASSUME UNCHANGED vars PROVE Types'
  <2>1. UNCHANGED opVars
    BY <1>15 DEF vars
  <2>2. QED BY <1>2, <2>1 DEF opVars
<1>16. Types'
  BY <1>3, <1>4, <1>5, <1>6, <1>7, <1>8, <1>9, <1>10, <1>11, <1>12, <1>13, <1>14, <1>15
     DEF OperationNext
<1>17. QED BY <1>1, <1>16 DEF OperationTypeOK

(* A process that keeps its handles and whether it acquires, and moves     *)
(* only between phases of one kind, still has one lease or none.           *)
LEMMA OneLeaseStep ==
  OperationInv /\ [OperationNext]_vars => OneLeasePerOperation'
<1> SUFFICES ASSUME OperationInv, [OperationNext]_vars, NEW q \in Process
             PROVE  /\ phase'[q] \in {"idle", "acquiring"} => handles'[q] = {}
                    /\ phase'[q] \in Active \cup Joining
                         => \E h \in handles'[q] : handles'[q] = {h}
                    /\ phase'[q] = "acquiring" <=> pending'[q].stage # "none"
  BY DEF OneLeasePerOperation
<1> DEFINE Has(x) == /\ phase[x] \in {"idle", "acquiring"} => handles[x] = {}
                     /\ phase[x] \in Active \cup Joining
                          => \E h \in handles[x] : handles[x] = {h}
                     /\ phase[x] = "acquiring" <=> pending[x].stage # "none"
<1> USE DEF Active, Joining
<1>1. /\ phase \in [Process -> {"idle", "acquiring"} \cup Active \cup Joining]
      /\ handles \in [Process -> SUBSET Lease] /\ pending \in [Process -> Acquire]
      /\ \A x \in Process : Has(x)
  BY DEF OperationInv, OperationTypeOK, LeaseTypeOK, OneLeasePerOperation
<1>2. ASSUME NEW p \in Process, NEW request \in Requests, Begin(p, request)
      PROVE  Has(q)'
  BY <1>1, <1>2 DEF Begin, Request, Acquire
<1>3. ASSUME NEW p \in Process, NEW failed \in LookupFailures, Acquired(p, failed)
      PROVE  Has(q)'
  <2>1. pending[p].stage = "poll" /\ phase[p] = "acquiring" /\ handles[p] = {}
    BY <1>1, <1>3 DEF Acquired, Grant
  <2>2. /\ handles' = [handles EXCEPT ![p] = {NewLease(p, pending[p].claims)}]
        /\ pending' = [pending EXCEPT ![p] = NoAcquire]
        /\ phase' = [phase EXCEPT ![p] = "held"]
    BY <1>3, <2>1, <1>1 DEF Acquired, Grant
  <2>3. QED BY <1>1, <2>2 DEF NoAcquire
<1>4. ASSUME NEW p \in Process, Poll(p) PROVE Has(q)'
  <2>1. /\ phase' = phase /\ handles' = handles
        /\ pending[p].stage # "none"
        /\ \/ pending' = [pending EXCEPT ![p].stage = "poll"]
           \/ pending' = [pending EXCEPT ![p].stage = "check"]
    BY <1>4 DEF Poll, Retry, Contend, opVars
  <2>2. QED BY <1>1, <2>1 DEF Acquire
<1>5. ASSUME NEW p \in Process, Refused(p) PROVE Has(q)'
  <2>1. /\ phase' = [phase EXCEPT ![p] = "idle"] /\ handles' = handles
        /\ pending[p].stage # "none" /\ pending' = [pending EXCEPT ![p] = NoAcquire]
    BY <1>5 DEF Refused, GiveUp, LockTimeout
  <2>2. QED BY <1>1, <2>1 DEF NoAcquire
<1>6. ASSUME NEW p \in Process,
             Start(p) \/ StartFails(p) \/ FinishOperation(p) \/ Joined(p) \/ JoinTimesOut(p)
      PROVE  Has(q)'
  <2>1. /\ handles' = handles /\ pending' = pending
        /\ phase[p] \in Active \cup Joining
        /\ \E f \in Active \cup Joining : phase' = [phase EXCEPT ![p] = f]
    BY <1>6 DEF Start, StartFails, FinishOperation, Joined, JoinTimesOut, leaseVars
  <2>2. QED BY <1>1, <2>1
<1>7. ASSUME NEW p \in Process,
             \/ Wake(p) \/ RenewFails(p) \/ SeeStop(p) \/ \E r \in Resource : Write(p, r)
             \/ Restart(p) /\ UNCHANGED opVars
      PROVE  Has(q)'
  <2>1. handles' = handles /\ pending' = pending /\ phase' = phase
    BY <1>7 DEF Wake, RenewFails, SeeStop, Write, Restart, opVars, leaseVars
  <2>2. QED BY <1>1, <2>1
<1>8. ASSUME NEW p \in Process, Renewed(p) PROVE Has(q)'
  <2>1. PICK h \in handles[p] :
          \E new : handles' = [handles EXCEPT ![p] = (@ \ {h}) \cup {new}]
    BY <1>8 DEF Renewed, Renew
  <2> PICK new : handles' = [handles EXCEPT ![p] = (@ \ {h}) \cup {new}]
    BY <2>1
  <2>2. handles[p] = {h} /\ phase' = phase /\ pending' = pending
    BY <1>1, <1>8 DEF Renewed, Renew
  <2>3. handles'[p] = {new} /\ \A x \in Process \ {p} : handles'[x] = handles[x]
    BY <1>1, <2>2
  <2>4. phase[p] \notin {"idle", "acquiring"} /\ \E l : handles'[p] = {l}
    BY <1>1, <2>2, <2>3
  <2>5. CASE q = p
    BY <1>1, <2>2, <2>4, <2>5
  <2>6. CASE q # p
    BY <1>1, <2>2, <2>3, <2>6
  <2>7. QED BY <2>5, <2>6
<1>9. ASSUME NEW p \in Process, EndOperation(p) PROVE Has(q)'
  <2>1. PICK h \in handles[p] : handles' = [handles EXCEPT ![p] = @ \ {h}]
    BY <1>9 DEF EndOperation, Release, ReleaseFails
  <2>2. /\ phase[p] = "releasing" /\ pending' = pending
        /\ phase' = [phase EXCEPT ![p] = "idle"]
    BY <1>9 DEF EndOperation, Release, ReleaseFails
  <2>4. handles[p] = {h}
    BY <1>1, <2>2
  <2>3. QED BY <1>1, <2>1, <2>2, <2>4
<1>10. ASSUME NEW p \in Process, Die(p) PROVE Has(q)'
  BY <1>1, <1>10 DEF Die, Crash, NoAcquire
<1>11. CASE PassTime \/ UNCHANGED vars
  BY <1>1, <1>11 DEF PassTime, Tick, vars, leaseVars, opVars
<1>12. QED
  BY <1>2, <1>3, <1>4, <1>5, <1>6, <1>7, <1>8, <1>9, <1>10, <1>11 DEF OperationNext

LEMMA OperationInitInv == OperationInit => OperationInv
<1> SUFFICES ASSUME OperationInit PROVE OperationInv
  OBVIOUS
<1>1. LeaseInit /\ LeaseTypeOK
  BY InitRegistryInv DEF OperationInit, RegistryInv
<1>2. OperationTypeOK
  BY <1>1 DEF OperationInit, OperationTypeOK, Active, Joining
<1>3. OneLeasePerOperation
  BY <1>1 DEF OperationInit, LeaseInit, OneLeasePerOperation, Active, Joining, NoAcquire
<1>4. QED BY <1>2, <1>3 DEF OperationInv

(* run_leased_operation gives back what it acquired, whatever raises or    *)
(* dies: inside it a process has one lease, outside none.                  *)
THEOREM OneLeaseEach == OperationSpec => []OperationInv
<1>1. OperationInv /\ [OperationNext]_vars => OperationInv'
  BY OperationTypeStep, OneLeaseStep DEF OperationInv
<1>2. QED BY OperationInitInv, <1>1, PTL DEF OperationSpec

-----------------------------------------------------------------------------
(* The order of the writes.                                                *)

(* The adapter never saw a token or an id that was not given out, a lease  *)
(* granted later carries greater tokens, and whoever may still write is    *)
(* not older than the last writer.                                         *)
SeenWasGiven == \A r \in Resource : highest[r] <= counters[r] /\ writer[r] < issued

TokensFollowIds ==
  \A l, m \in Held : \A r \in WriteResources(l.claims) \cap WriteResources(m.claims) :
    l.id < m.id => l.tokens[r] < m.tokens[r]

OldHoldersRejected ==
  \A l \in Held : \A r \in WriteResources(l.claims) :
    l.tokens[r] >= highest[r] => l.id >= writer[r]

WriteInv == /\ OperationTypeOK /\ RegistryInv
            /\ SeenWasGiven /\ TokensFollowIds /\ OldHoldersRejected

LEMMA WritableType ==
  ASSUME NEW claims \in SUBSET Claim
  PROVE  WriteResources(claims) \subseteq Resource
  BY DEF WriteResources, Claim

LEMMA HeldType ==
  ASSUME LeaseTypeOK, NEW l \in Held
  PROVE  /\ l \in Lease /\ l.id \in Nat /\ l.tokens \in [Resource -> Nat]
         /\ l.claims \in SUBSET Claim /\ WriteResources(l.claims) \subseteq Resource
  BY WritableType DEF LeaseTypeOK, Held, Lease

(* A step whose leases are the old ones, but for their expiry, and that    *)
(* writes nothing, keeps the order.                                        *)
LEMMA OrderKept ==
  ASSUME WriteInv,
         \A n \in Held' : \E l \in Held : /\ n.id = l.id /\ n.claims = l.claims
                                         /\ n.tokens = l.tokens,
         counters' = counters, issued' = issued, highest' = highest, writer' = writer
  PROVE  SeenWasGiven' /\ TokensFollowIds' /\ OldHoldersRejected'
<1>1. SeenWasGiven'
  BY DEF WriteInv, SeenWasGiven
<1>2. TokensFollowIds'
  <2> SUFFICES ASSUME NEW n \in Held', NEW o \in Held',
                      NEW r \in WriteResources(n.claims) \cap WriteResources(o.claims),
                      n.id < o.id
               PROVE  n.tokens[r] < o.tokens[r]
    BY DEF TokensFollowIds, WriteResources
  <2>1. PICK l \in Held : n.id = l.id /\ n.claims = l.claims /\ n.tokens = l.tokens
    OBVIOUS
  <2>2. PICK m \in Held : o.id = m.id /\ o.claims = m.claims /\ o.tokens = m.tokens
    OBVIOUS
  <2>3. QED BY <2>1, <2>2 DEF WriteInv, TokensFollowIds
<1>3. OldHoldersRejected'
  <2> SUFFICES ASSUME NEW n \in Held', NEW r \in WriteResources(n.claims),
                      n.tokens[r] >= highest[r]
               PROVE  n.id >= writer[r]
    BY DEF OldHoldersRejected, WriteResources
  <2>1. PICK l \in Held : n.id = l.id /\ n.claims = l.claims /\ n.tokens = l.tokens
    OBVIOUS
  <2>2. QED BY <2>1 DEF WriteInv, OldHoldersRejected
<1>4. QED BY <1>1, <1>2, <1>3

(* A grant is later than all and carries tokens above all.                 *)
LEMMA OrderOfGrant ==
  ASSUME WriteInv, NEW p \in Process, NEW failed \in LookupFailures,
         Grant(p, failed), highest' = highest, writer' = writer
  PROVE  SeenWasGiven' /\ TokensFollowIds' /\ OldHoldersRejected'
<1> DEFINE claims == pending[p].claims
           new    == NewLease(p, claims)
<1>1. /\ counters' = NextCounters(claims) /\ issued' = issued + 1
      /\ Held' \subseteq Held \cup {new}
  BY DEF Grant, Held, WriteInv, RegistryInv, LeaseTypeOK
<1>2. /\ LeaseTypeOK /\ issued \in Nat /\ claims \in SUBSET Claim
      /\ counters \in [Resource -> Nat]
      /\ highest \in [Resource -> Nat] /\ writer \in [Resource -> Nat \cup {-1}]
  BY DEF WriteInv, RegistryInv, OperationTypeOK, LeaseTypeOK, Acquire
<1>3. /\ new.id = issued /\ new.claims = claims
      /\ \A r \in WriteResources(claims) : new.tokens[r] = counters[r] + 1
  BY <1>2, WritableType DEF NewLease, NextTokens
<1>4. \A r \in Resource : counters'[r] \in Nat /\ counters'[r] >= counters[r]
  BY <1>1, <1>2 DEF NextCounters
<1>5. \A l \in Held : /\ l.id < issued
                      /\ \A r \in Resource : l.tokens[r] <= counters[r]
  BY DEF WriteInv, RegistryInv, IdsAgree, TokensWithinCounters
<1> HIDE DEF claims, new
<1>6. SeenWasGiven'
  <2> SUFFICES ASSUME NEW r \in Resource
               PROVE  highest[r] <= counters'[r] /\ writer[r] < issued + 1
    BY <1>1 DEF SeenWasGiven
  <2>1. /\ highest[r] <= counters[r] /\ writer[r] < issued
        /\ highest[r] \in Nat /\ counters[r] \in Nat /\ writer[r] \in Int
    BY <1>2 DEF WriteInv, SeenWasGiven
  <2>2. QED BY <2>1, <1>2, <1>4
<1>7. TokensFollowIds'
  <2> SUFFICES ASSUME NEW l \in Held', NEW m \in Held',
                      NEW r \in WriteResources(l.claims) \cap WriteResources(m.claims),
                      l.id < m.id
               PROVE  l.tokens[r] < m.tokens[r]
    BY DEF TokensFollowIds, WriteResources
  <2>1. CASE l \in Held /\ m \in Held
    BY <2>1 DEF WriteInv, TokensFollowIds
  <2>2. CASE l \in Held /\ m = new
    <3>1. r \in Resource /\ l.tokens[r] \in Nat /\ counters[r] \in Nat
      BY <1>2, <2>2, HeldType
    <3>2. l.tokens[r] <= counters[r] /\ m.tokens[r] = counters[r] + 1
      BY <1>3, <1>5, <2>2, <3>1
    <3>3. QED BY <3>1, <3>2
  <2>3. CASE l = new /\ m \in Held
    BY <1>2, <1>3, <1>5, <2>3, HeldType
  <2>4. CASE l = new /\ m = new
    BY <1>2, <1>3, <2>4
  <2>5. QED BY <1>1, <2>1, <2>2, <2>3, <2>4
<1>8. OldHoldersRejected'
  <2> SUFFICES ASSUME NEW l \in Held', NEW r \in WriteResources(l.claims),
                      l.tokens[r] >= highest[r]
               PROVE  l.id >= writer[r]
    BY DEF OldHoldersRejected, WriteResources
  <2>1. CASE l \in Held
    BY <2>1 DEF WriteInv, OldHoldersRejected
  <2>2. CASE l = new
    <3>1. r \in Resource
      BY <1>2, <1>3, <2>2, WritableType
    <3>2. writer[r] < issued /\ writer[r] \in Int
      BY <1>2, <3>1 DEF WriteInv, SeenWasGiven
    <3>3. QED BY <1>2, <1>3, <2>2, <3>2
  <2>3. QED BY <1>1, <2>1, <2>2
<1>9. QED BY <1>6, <1>7, <1>8

(* An accepted write rejects all older holders from then on.               *)
LEMMA OrderOfWrite ==
  ASSUME WriteInv, NEW p \in Process, NEW r \in Resource, Write(p, r)
  PROVE  /\ SeenWasGiven' /\ TokensFollowIds' /\ OldHoldersRejected'
         /\ WritesFollowGrantsStep
<1>1. PICK h \in handles[p] : /\ r \in WriteResources(h.claims)
                              /\ h.tokens[r] >= highest[r]
                              /\ highest' = [highest EXCEPT ![r] = h.tokens[r]]
                              /\ writer' = [writer EXCEPT ![r] = h.id]
  BY DEF Write
<1>2. /\ h \in Held /\ Held' = Held
      /\ counters' = counters /\ issued' = issued
  BY DEF Write, Held, leaseVars
<1>3. /\ LeaseTypeOK /\ issued \in Nat
      /\ counters \in [Resource -> Nat]
      /\ highest \in [Resource -> Nat] /\ writer \in [Resource -> Nat \cup {-1}]
  BY DEF WriteInv, RegistryInv, OperationTypeOK, LeaseTypeOK
<1>4. /\ h.id \in Nat /\ h.tokens[r] \in Nat
      /\ h.id < issued /\ h.tokens[r] <= counters[r] /\ h.id >= writer[r]
  BY <1>1, <1>2, <1>3, HeldType
     DEF WriteInv, RegistryInv, IdsAgree, TokensWithinCounters, OldHoldersRejected
<1>5. SeenWasGiven'
  BY <1>1, <1>2, <1>3, <1>4 DEF WriteInv, SeenWasGiven
<1>6. TokensFollowIds'
  BY <1>2 DEF WriteInv, TokensFollowIds, WriteResources
<1>7. OldHoldersRejected'
  <2> SUFFICES ASSUME NEW l \in Held, NEW s \in WriteResources(l.claims),
                      l.tokens[s] >= highest'[s]
               PROVE  l.id >= writer'[s]
    BY <1>2 DEF OldHoldersRejected, WriteResources
  <2>1. /\ l.id \in Nat /\ s \in Resource /\ l.tokens[s] \in Nat
    BY <1>3, HeldType
  <2>2. CASE s # r
    BY <1>1, <1>3, <2>1, <2>2 DEF WriteInv, OldHoldersRejected
  <2>3. CASE s = r
    <3>1. highest'[r] = h.tokens[r] /\ writer'[r] = h.id
      BY <1>1, <1>3
    <3>2. l.id < h.id => l.tokens[r] < h.tokens[r]
      BY <1>1, <1>2, <2>3 DEF WriteInv, TokensFollowIds
    <3>3. QED BY <1>4, <2>1, <2>3, <3>1, <3>2
  <2>4. QED BY <2>2, <2>3
<1>8. WritesFollowGrantsStep
  <2> SUFFICES ASSUME NEW s \in Resource PROVE writer'[s] >= writer[s]
    BY DEF WritesFollowGrantsStep
  <2>1. writer[s] \in Int
    BY <1>3
  <2>2. CASE s = r
    BY <1>1, <1>3, <1>4, <2>2
  <2>3. CASE s # r
    BY <1>1, <1>3, <2>1, <2>3
  <2>4. QED BY <2>2, <2>3
<1>9. QED BY <1>5, <1>6, <1>7, <1>8

LEMMA WriteStep ==
  WriteInv /\ [OperationNext]_vars => WriteInv' /\ [WritesFollowGrantsStep]_vars
<1> SUFFICES ASSUME WriteInv, [OperationNext]_vars
             PROVE  WriteInv' /\ [WritesFollowGrantsStep]_vars
  OBVIOUS
<1> DEFINE Ordered == SeenWasGiven /\ TokensFollowIds /\ OldHoldersRejected
           Same == \A n \in Held' : \E l \in Held :
                     n.id = l.id /\ n.claims = l.claims /\ n.tokens = l.tokens
           Still == highest' = highest /\ writer' = writer
<1>1. OperationTypeOK' /\ RegistryInv'
  BY OperationTypeStep, OperationStepsLeases, RegistryStep DEF WriteInv
<1>2. writer' = writer => WritesFollowGrantsStep
  <2>1. \A r \in Resource : writer[r] \in Int
    BY DEF WriteInv, OperationTypeOK
  <2>2. QED BY <2>1 DEF WritesFollowGrantsStep
<1>3. Held' \subseteq Held => Same
  OBVIOUS
<1>4. ASSUME NEW p \in Process, NEW request \in Requests, Begin(p, request)
      PROVE  Still /\ Ordered'
  <2>1. Held' = Held /\ counters' = counters /\ issued' = issued
    BY <1>4 DEF Begin, Request, Held
  <2>2. QED BY <1>3, <1>4, <2>1, OrderKept DEF Begin
<1>5. ASSUME NEW p \in Process, NEW failed \in LookupFailures, Acquired(p, failed)
      PROVE  Still /\ Ordered'
  BY <1>5, OrderOfGrant DEF Acquired
<1>6. ASSUME NEW p \in Process, Poll(p) PROVE Still /\ Ordered'
  <2>1. Held' = Held /\ counters' = counters /\ issued' = issued /\ Still
    BY <1>6 DEF Poll, Retry, Contend, Held, opVars
  <2>2. QED BY <1>3, <2>1, OrderKept
<1>7. ASSUME NEW p \in Process, Refused(p) PROVE Still /\ Ordered'
  <2>1. Held' = Held /\ counters' = counters /\ issued' = issued /\ Still
    BY <1>7 DEF Refused, GiveUp, LockTimeout, Held
  <2>2. QED BY <1>3, <2>1, OrderKept
<1>8. ASSUME NEW p \in Process,
             \/ Start(p) \/ StartFails(p) \/ Wake(p) \/ RenewFails(p) \/ SeeStop(p)
             \/ FinishOperation(p) \/ Joined(p) \/ JoinTimesOut(p)
      PROVE  Still /\ Ordered'
  <2>1. Held' = Held /\ counters' = counters /\ issued' = issued /\ Still
    BY <1>8 DEF Start, StartFails, Wake, RenewFails, SeeStop, FinishOperation, Joined,
                JoinTimesOut, Held, leaseVars
  <2>2. QED BY <1>3, <2>1, OrderKept
<1>9. ASSUME NEW p \in Process, Renewed(p) PROVE Still /\ Ordered'
  <2>1. PICK h \in handles[p] : Renew(p, h)
    BY <1>9 DEF Renewed
  <2>2. PICK l \in leases :
          /\ Owns(p, h, l)
          /\ handles' = [handles EXCEPT ![p] = (@ \ {h}) \cup
                                               {[l EXCEPT !.expires = clock + TTL]}]
    BY <2>1 DEF Renew, Renewable
  <2>3. l = h /\ h \in Lease /\ h \in Held
    BY <2>2, HandleIsRecord DEF WriteInv, RegistryInv, LeaseTypeOK, Held
  <2> DEFINE new == [h EXCEPT !.expires = clock + TTL]
  <2>4. new.id = h.id /\ new.claims = h.claims /\ new.tokens = h.tokens
    BY <2>3 DEF Lease
  <2>5. Held' \subseteq Held \cup {new}
    BY <2>2, <2>3 DEF Held, WriteInv, RegistryInv, LeaseTypeOK
  <2> HIDE DEF new
  <2>6. Same
    BY <2>3, <2>4, <2>5
  <2>7. counters' = counters /\ issued' = issued /\ Still
    BY <1>9, <2>1 DEF Renewed, Renew
  <2>8. QED BY <2>6, <2>7, OrderKept
<1>10. ASSUME NEW p \in Process, NEW r \in Resource, Write(p, r)
       PROVE  Ordered' /\ WritesFollowGrantsStep
  BY <1>10, OrderOfWrite
<1>11. ASSUME NEW p \in Process, EndOperation(p) PROVE Still /\ Ordered'
  <2>1. /\ \E h \in handles[p] : handles' = [handles EXCEPT ![p] = @ \ {h}]
        /\ counters' = counters /\ issued' = issued /\ Still
    BY <1>11 DEF EndOperation, Release, ReleaseFails
  <2>2. Held' \subseteq Held
    BY <2>1 DEF Held, WriteInv, RegistryInv, LeaseTypeOK
  <2>3. QED BY <1>3, <2>1, <2>2, OrderKept
<1>12. ASSUME NEW p \in Process, Die(p) PROVE Still /\ Ordered'
  <2>1. Held' \subseteq Held /\ counters' = counters /\ issued' = issued /\ Still
    BY <1>12 DEF Die, Crash, Held, WriteInv, RegistryInv, LeaseTypeOK
  <2>2. QED BY <1>3, <2>1, OrderKept
<1>13. ASSUME NEW p \in Process, Restart(p), UNCHANGED opVars PROVE Still /\ Ordered'
  <2>1. Held' = Held /\ counters' = counters /\ issued' = issued /\ Still
    BY <1>13 DEF Restart, Held, opVars
  <2>2. QED BY <1>3, <2>1, OrderKept
<1>14. ASSUME PassTime \/ UNCHANGED vars PROVE Still /\ Ordered'
  <2>1. Held' = Held /\ counters' = counters /\ issued' = issued /\ Still
    BY <1>14 DEF PassTime, Tick, Held, vars, leaseVars, opVars
  <2>2. QED BY <1>3, <2>1, OrderKept
<1> HIDE DEF Ordered, Still, Same
<1>15. (Still \/ WritesFollowGrantsStep) /\ Ordered'
  BY <1>4, <1>5, <1>6, <1>7, <1>8, <1>9, <1>10, <1>11, <1>12, <1>13, <1>14
     DEF OperationNext
<1>16. WriteInv'
  BY <1>1, <1>15 DEF WriteInv, Ordered
<1>17. QED BY <1>2, <1>15, <1>16 DEF Still

LEMMA WriteInitInv == OperationInit => WriteInv
<1> SUFFICES ASSUME OperationInit PROVE WriteInv
  OBVIOUS
<1>1. OperationTypeOK /\ RegistryInv
  BY OperationInitInv, InitRegistryInv DEF OperationInit, OperationInv
<1>2. Held = {}
  BY DEF OperationInit, LeaseInit, Held
<1>3. SeenWasGiven
  BY DEF OperationInit, LeaseInit, SeenWasGiven
<1>4. QED BY <1>1, <1>2, <1>3 DEF WriteInv, TokensFollowIds, OldHoldersRejected

(* Whatever heartbeats do, and even if identity lookups fail, the writes a *)
(* resource accepts come in the order its leases were granted.             *)
THEOREM AcceptedWritesAreOrdered == OperationSpec => WritesFollowGrants
<1>1. WriteInv /\ [OperationNext]_vars => WriteInv'
  BY WriteStep
<1>2. WriteInv /\ [OperationNext]_vars => [WritesFollowGrantsStep]_vars
  BY WriteStep
<1>3. QED BY WriteInitInv, <1>1, <1>2, PTL DEF OperationSpec, WritesFollowGrants

-----------------------------------------------------------------------------
(* Heartbeats in time.                                                     *)

(* Where the thread of a process can be in each phase, and when an outcome *)
(* stands.                                                                 *)
ThreadInPhase(p) ==
  /\ phase[p] \in {"idle", "acquiring", "held"} => hb[p] = "off"
  /\ phase[p] = "running" => hb[p] \in {"waiting", "renewing", "failed"}
  /\ phase[p] # "idle" => outcome[p] = "none"

(* While the heartbeats of a process are in time, the next one comes       *)
(* before its lease expires.                                               *)
Punctual(p) ==
  /\ phase[p] = "held" => \A h \in handles[p] : h.expires >= due[p] + TTL
  /\ phase[p] \in Active /\ hb[p] # "failed" /\ ~tardy[p] =>
       /\ clock <= due[p] + Slack
       /\ \A h \in handles[p] : h.expires > due[p] + Slack

(* An operation overtaken with its heartbeats in time has a thread that    *)
(* failed, and is on its way to an outcome other than "completed".         *)
NoticesOvertaking(p) ==
  ~tardy[p] /\ overtaken[p] =>
    \/ phase[p] = "idle" /\ outcome[p] # "completed"
    \/ phase[p] \in {"running", "stopping"} /\ hb[p] = "failed"
    \/ phase[p] = "releasing" /\ verdict[p] # "value"

Watched(p) == ThreadInPhase(p) /\ Punctual(p) /\ NoticesOvertaking(p)

TimingInv == OperationInv /\ LeaseInv /\ \A p \in Process : Watched(p)

(* What a step says of one process only changes nothing for the others.    *)
LEMMA OthersKept ==
  ASSUME TimingInv, NEW p \in Process, NEW q \in Process, q # p, clock' = clock,
         /\ phase'[q] = phase[q] /\ hb'[q] = hb[q] /\ due'[q] = due[q]
         /\ verdict'[q] = verdict[q] /\ outcome'[q] = outcome[q]
         /\ tardy'[q] = tardy[q] /\ overtaken'[q] = overtaken[q]
         /\ handles'[q] = handles[q]
  PROVE  Watched(q)'
  BY DEF TimingInv, Watched, ThreadInPhase, Punctual, NoticesOvertaking

(* The numbers the timing is about.                                        *)
LEMMA Moments ==
  ASSUME OperationInv, NEW p \in Process
  PROVE  /\ clock \in Nat /\ due[p] \in Nat
         /\ TTL \in Nat /\ Slack \in Nat /\ Interval \in Nat
         /\ 2 * Slack + Interval < TTL
         /\ \A h \in handles[p] : h.expires \in Nat
<1>1. OperationTypeOK /\ LeaseTypeOK
  BY DEF OperationInv, OperationTypeOK
<1>2. clock \in Nat /\ due[p] \in Nat
  BY <1>1 DEF OperationTypeOK, LeaseTypeOK
<1>3. \A h \in handles[p] : h.expires \in Nat
  BY <1>1 DEF LeaseTypeOK, Lease
<1>4. QED BY <1>2, <1>3, HeartbeatAssumption, LeaseAssumption

(* A grant finds no conflict with the lease of an operation whose next     *)
(* heartbeat is not late: that lease is live.                              *)
LEMMA GrantOvertakesTheLate ==
  ASSUME LookupFailures \subseteq {{}}, TimingInv,
         NEW p \in Process, NEW failed \in LookupFailures, Grant(p, failed),
         NEW q \in Process, phase[q] \in Active, hb[q] # "failed", ~tardy[q],
         NEW h \in handles[q]
  PROVE  ~Conflicting(h.claims, pending[p].claims)
<1>1. h.expires > clock
  <2>1. clock <= due[q] + Slack /\ h.expires > due[q] + Slack
    BY DEF TimingInv, Watched, Punctual
  <2>2. QED BY <2>1, Moments DEF TimingInv
<1>2. h \in LiveRecords(failed)
  <2>1. failed = {} /\ h \in Believed
    BY <1>1 DEF Believed, Held
  <2>2. RegistryInv /\ BelievedIsRegistered
    BY DEF TimingInv, LeaseInv
  <2>3. QED BY <2>1, <2>2, BelievedIsLive
<1>3. ~Conflicting(pending[p].claims, h.claims)
  BY <1>2 DEF Grant, Blockers
<1>4. QED BY <1>3, ConflictingSymmetric

LEMMA TimingStep ==
  ASSUME LookupFailures \subseteq {{}}
  PROVE  TimingInv /\ [OperationNext]_vars => TimingInv'
<1> SUFFICES ASSUME TimingInv, [OperationNext]_vars PROVE TimingInv'
  OBVIOUS
<1>1. OperationInv' /\ LeaseInv'
  BY OperationTypeStep, OneLeaseStep, OperationStepsLeases, RegistryStep, BelievedStep
     DEF TimingInv, OperationInv, LeaseInv
<1> SUFFICES ASSUME NEW q \in Process PROVE Watched(q)'
  BY <1>1 DEF TimingInv
<1> USE DEF Active, Joining
<1>2. /\ phase \in [Process -> {"idle", "acquiring"} \cup Active \cup Joining]
      /\ hb \in [Process -> {"off", "waiting", "renewing", "failed", "ended"}]
      /\ due \in [Process -> Nat]
      /\ verdict \in [Process -> {"none", "value", "error", "unstarted", "raised"}]
      /\ outcome \in [Process -> {"none", "completed", "failed", "blocked",
                                  "contended", "raised"}]
      /\ tardy \in [Process -> BOOLEAN] /\ overtaken \in [Process -> BOOLEAN]
      /\ handles \in [Process -> SUBSET Lease]
  BY DEF TimingInv, OperationInv, OperationTypeOK, LeaseTypeOK
<1>3. /\ clock \in Nat /\ due[q] \in Nat
      /\ TTL \in Nat /\ Slack \in Nat /\ Interval \in Nat
      /\ 2 * Slack + Interval < TTL
      /\ \A h \in handles[q] : h.expires \in Nat
  BY Moments DEF TimingInv
<1>4. Watched(q) /\ OperationInv
  BY DEF TimingInv
<1> USE DEF Watched, ThreadInPhase, Punctual, NoticesOvertaking
<1>5. ASSUME NEW p \in Process, NEW request \in Requests, Begin(p, request)
      PROVE  Watched(q)'
  <2>1. CASE q # p
    <3>1. /\ phase'[q] = phase[q] /\ hb'[q] = hb[q] /\ due'[q] = due[q]
          /\ verdict'[q] = verdict[q] /\ outcome'[q] = outcome[q]
          /\ tardy'[q] = tardy[q] /\ overtaken'[q] = overtaken[q]
          /\ handles'[q] = handles[q] /\ clock' = clock
      BY <1>2, <1>5, <2>1 DEF Begin, Request
    <3>2. QED BY <2>1, <3>1, OthersKept
  <2>2. CASE q = p
    BY <1>2, <1>4, <1>5, <2>2 DEF Begin
  <2>3. QED BY <2>1, <2>2
<1>6. ASSUME NEW p \in Process, Poll(p) PROVE Watched(q)'
  <2>1. clock' = clock /\ handles' = handles /\ UNCHANGED opVars
    BY <1>6 DEF Poll, Retry, Contend
  <2>2. QED BY <1>4, <2>1 DEF opVars
<1>7. ASSUME NEW p \in Process, Refused(p) PROVE Watched(q)'
  <2>1. /\ clock' = clock /\ handles' = handles /\ pending[p].stage # "none"
        /\ \E o \in {"contended", "blocked"} : outcome' = [outcome EXCEPT ![p] = o]
    BY <1>7 DEF Refused, GiveUp, LockTimeout
  <2>2. phase[p] = "acquiring"
    BY <2>1 DEF TimingInv, OperationInv, OneLeasePerOperation
  <2>3. CASE q # p
    BY <1>2, <1>7, <2>1, <2>3, OthersKept DEF Refused
  <2>4. CASE q = p
    BY <1>2, <1>4, <1>7, <2>1, <2>2, <2>4 DEF Refused
  <2>5. QED BY <2>3, <2>4
<1>8. ASSUME NEW p \in Process, Start(p) PROVE Watched(q)'
  <2>1. /\ clock' = clock /\ handles' = handles
        /\ due' = [due EXCEPT ![p] = clock + Interval]
    BY <1>8 DEF Start, leaseVars
  <2>2. CASE q # p
    BY <1>2, <1>8, <2>1, <2>2, OthersKept DEF Start
  <2>3. CASE q = p
    <3>1. /\ phase[q] = "held" /\ phase'[q] = "running" /\ hb'[q] = "waiting"
          /\ due'[q] = clock + Interval /\ hb[q] = "off"
          /\ outcome'[q] = outcome[q] /\ tardy'[q] = tardy[q]
          /\ overtaken'[q] = overtaken[q]
      BY <1>2, <1>4, <1>8, <2>1, <2>3 DEF Start
    <3>2. ASSUME ~tardy[q] PROVE /\ clock <= due'[q] + Slack
                                /\ \A h \in handles[q] : h.expires > due'[q] + Slack
      BY <1>3, <1>4, <3>1, <3>2
    <3>3. QED BY <1>4, <2>1, <3>1, <3>2
  <2>4. QED BY <2>2, <2>3
<1>9. ASSUME NEW p \in Process, StartFails(p) \/ FinishOperation(p) PROVE Watched(q)'
  <2>1. clock' = clock /\ handles' = handles
    BY <1>9 DEF StartFails, FinishOperation, leaseVars
  <2>2. CASE q # p
    BY <1>2, <1>9, <2>1, <2>2, OthersKept DEF StartFails, FinishOperation
  <2>3. CASE q = p
    BY <1>2, <1>4, <1>9, <2>1, <2>3 DEF StartFails, FinishOperation
  <2>4. QED BY <2>2, <2>3
<1>10. ASSUME NEW p \in Process, Wake(p) \/ RenewFails(p) \/ SeeStop(p) PROVE Watched(q)'
  <2>1. clock' = clock /\ handles' = handles
    BY <1>10 DEF Wake, RenewFails, SeeStop, leaseVars
  <2>2. CASE q # p
    BY <1>2, <1>10, <2>1, <2>2, OthersKept DEF Wake, RenewFails, SeeStop
  <2>3. CASE q = p
    BY <1>2, <1>4, <1>10, <2>1, <2>3 DEF Wake, RenewFails, SeeStop
  <2>4. QED BY <2>2, <2>3
<1>11. ASSUME NEW p \in Process, NEW r \in Resource, Write(p, r) PROVE Watched(q)'
  BY <1>4, <1>11 DEF Write, leaseVars
<1>12. ASSUME NEW p \in Process, Joined(p) \/ JoinTimesOut(p) PROVE Watched(q)'
  <2>1. clock' = clock /\ handles' = handles
    BY <1>12 DEF Joined, JoinTimesOut, leaseVars
  <2>2. CASE q # p
    BY <1>2, <1>12, <2>1, <2>2, OthersKept DEF Joined, JoinTimesOut
  <2>3. CASE q = p
    BY <1>2, <1>4, <1>12, <2>1, <2>3 DEF Joined, JoinTimesOut, WithHeartbeatError
  <2>4. QED BY <2>2, <2>3
<1>13. ASSUME NEW p \in Process, Die(p) PROVE Watched(q)'
  <2>1. clock' = clock /\ handles' = [handles EXCEPT ![p] = {}]
    BY <1>13 DEF Die, Crash
  <2>2. CASE q # p
    <3>1. /\ phase'[q] = phase[q] /\ hb'[q] = hb[q] /\ due'[q] = due[q]
          /\ verdict'[q] = verdict[q] /\ outcome'[q] = outcome[q]
          /\ tardy'[q] = tardy[q] /\ overtaken'[q] = overtaken[q]
          /\ handles'[q] = handles[q] /\ clock' = clock
      BY <1>2, <1>13, <2>1, <2>2 DEF Die
    <3>2. QED BY <2>2, <3>1, OthersKept
  <2>3. CASE q = p
    BY <1>2, <1>13, <2>1, <2>3 DEF Die
  <2>4. QED BY <2>2, <2>3
<1>14. ASSUME NEW p \in Process, Restart(p), UNCHANGED opVars PROVE Watched(q)'
  BY <1>4, <1>14 DEF Restart, opVars
<1>15. ASSUME NEW p \in Process, EndOperation(p) PROVE Watched(q)'
  <2>1. /\ clock' = clock /\ phase[p] = "releasing"
        /\ \E h \in handles[p] : handles' = [handles EXCEPT ![p] = @ \ {h}]
        /\ phase' = [phase EXCEPT ![p] = "idle"] /\ hb' = [hb EXCEPT ![p] = "off"]
        /\ due' = [due EXCEPT ![p] = 0] /\ verdict' = [verdict EXCEPT ![p] = "none"]
        /\ tardy' = tardy /\ overtaken' = overtaken
    BY <1>15 DEF EndOperation, Release, ReleaseFails
  <2>2. PICK raised \in BOOLEAN :
          outcome' = [outcome EXCEPT ![p] = Outcome(verdict[p], raised)]
    BY <1>15 DEF EndOperation
  <2>3. CASE q # p
    BY <1>2, <2>1, <2>2, <2>3, OthersKept
  <2>4. CASE q = p
    <3>1. verdict[p] # "value" => Outcome(verdict[p], raised) # "completed"
      BY DEF Outcome
    <3>2. QED BY <1>2, <1>4, <2>1, <2>2, <2>4, <3>1
  <2>5. QED BY <2>3, <2>4
<1>16. ASSUME NEW p \in Process, Renewed(p) PROVE Watched(q)'
  <2>1. PICK h \in handles[p] : Renew(p, h)
    BY <1>16 DEF Renewed
  <2>2. PICK l \in leases :
          /\ Owns(p, h, l)
          /\ handles' = [handles EXCEPT ![p] = (@ \ {h}) \cup
                                               {[l EXCEPT !.expires = clock + TTL]}]
    BY <2>1 DEF Renew, Renewable
  <2>3. /\ clock' = clock /\ phase' = phase /\ hb[p] = "renewing"
        /\ hb' = [hb EXCEPT ![p] = "waiting"]
        /\ due' = [due EXCEPT ![p] = clock + Interval]
        /\ UNCHANGED <<verdict, outcome, tardy, overtaken>>
    BY <1>16, <2>1 DEF Renewed, Renew
  <2>4. CASE q # p
    BY <1>2, <2>2, <2>3, <2>4, OthersKept
  <2>5. CASE q = p
    <3>1. handles[p] = {h}
      BY <1>2, <2>1 DEF TimingInv, OperationInv, OneLeasePerOperation
    <3>2. l \in Lease
      BY DEF TimingInv, OperationInv, OperationTypeOK, LeaseTypeOK
    <3>3. \A m \in handles'[p] : m.expires = clock + TTL
      BY <1>2, <2>2, <3>1, <3>2 DEF Lease
    <3>4. /\ clock <= due'[q] + Slack
          /\ \A m \in handles'[q] : m.expires > due'[q] + Slack
      BY <1>2, <1>3, <2>3, <2>5, <3>3
    <3>5. phase'[q] = phase[q] /\ hb'[q] = "waiting" /\ phase[q] # "held"
      BY <1>2, <1>4, <2>3, <2>5
    <3>6. QED BY <1>2, <1>4, <2>3, <2>5, <3>4, <3>5
  <2>6. QED BY <2>4, <2>5
<1>17. ASSUME NEW p \in Process, NEW failed \in LookupFailures, Acquired(p, failed)
       PROVE  Watched(q)'
  <2>1. /\ clock' = clock /\ pending[p].stage = "poll"
        /\ handles' = [handles EXCEPT ![p] = @ \cup {NewLease(p, pending[p].claims)}]
        /\ phase' = [phase EXCEPT ![p] = "held"] /\ due' = [due EXCEPT ![p] = clock]
        /\ UNCHANGED <<hb, verdict, outcome, tardy>>
    BY <1>17 DEF Acquired, Grant
  <2>2. phase[p] = "acquiring" /\ handles[p] = {}
    BY <2>1 DEF TimingInv, OperationInv, OneLeasePerOperation
  <2>3. ~tardy[q] /\ ~(phase[q] \in Active /\ hb[q] = "failed")
        => overtaken'[q] = overtaken[q]
    <3>1. SUFFICES ASSUME ~tardy[q], phase[q] \in Active => hb[q] # "failed"
                   PROVE  overtaken'[q] = overtaken[q]
      OBVIOUS
    <3>2. ASSUME phase[q] \in Active, NEW h \in handles[q]
          PROVE  ~Conflicting(h.claims, pending[p].claims)
      BY <1>17, <3>1, <3>2, GrantOvertakesTheLate DEF Acquired
    <3>3. ~(phase[q] \in Active /\ \E h \in handles[q] :
                                    Conflicting(h.claims, pending[p].claims))
      BY <3>2
    <3>4. overtaken'[q] = (overtaken[q] \/ FALSE)
      BY <1>17, <3>3 DEF Acquired
    <3>5. QED BY <1>2, <3>4
  <2>4. CASE q # p
    <3>1. /\ phase'[q] = phase[q] /\ hb'[q] = hb[q] /\ due'[q] = due[q]
          /\ verdict'[q] = verdict[q] /\ outcome'[q] = outcome[q]
          /\ tardy'[q] = tardy[q] /\ handles'[q] = handles[q] /\ clock' = clock
      BY <1>2, <2>1, <2>4
    <3>2. ThreadInPhase(q)' /\ Punctual(q)'
      BY <1>4, <3>1
    <3>3. NoticesOvertaking(q)'
      BY <1>4, <2>3, <3>1
    <3>4. QED BY <3>2, <3>3
  <2>5. CASE q = p
    <3>1. /\ handles'[q] = {NewLease(p, pending[p].claims)}
          /\ phase'[q] = "held" /\ due'[q] = clock /\ hb'[q] = hb[q] /\ hb[q] = "off"
          /\ outcome'[q] = "none" /\ tardy'[q] = tardy[q]
      BY <1>2, <1>4, <2>1, <2>2, <2>5
    <3>2. \A h \in handles'[q] : h.expires = clock + TTL
      BY <3>1 DEF NewLease
    <3>3. Punctual(q)'
      BY <1>3, <2>1, <3>1, <3>2
    <3>4. ThreadInPhase(q)'
      BY <3>1
    <3>5. NoticesOvertaking(q)'
      BY <1>4, <2>2, <2>3, <2>5, <3>1
    <3>6. QED BY <3>3, <3>4, <3>5
  <2>6. QED BY <2>4, <2>5
<1>18. ASSUME PassTime PROVE Watched(q)'
  <2>1. /\ clock' = clock + 1 /\ handles' = handles
        /\ UNCHANGED <<phase, hb, due, verdict, outcome, overtaken>>
    BY <1>18 DEF PassTime, Tick
  <2>2. ~tardy'[q] => ~tardy[q] /\ ~(Waiting(q) /\ clock >= due[q] + Slack)
    BY <1>18 DEF PassTime
  <2>3. ThreadInPhase(q)' /\ NoticesOvertaking(q)'
    BY <1>4, <2>1, <2>2
  <2>4. ASSUME phase[q] \in Active, hb[q] # "failed", ~tardy'[q]
        PROVE  clock + 1 <= due[q] + Slack
    <3>1. Waiting(q)
      BY <1>4, <2>4 DEF Waiting
    <3>2. QED BY <1>3, <2>2, <2>4, <3>1
  <2>5. Punctual(q)'
    BY <1>4, <2>1, <2>2, <2>4
  <2>6. QED BY <2>3, <2>5
<1>19. ASSUME UNCHANGED vars PROVE Watched(q)'
  <2>1. UNCHANGED leaseVars /\ UNCHANGED opVars
    BY <1>19 DEF vars
  <2>2. QED BY <1>4, <2>1 DEF leaseVars, opVars
<1>20. QED
  BY <1>5, <1>6, <1>7, <1>8, <1>9, <1>10, <1>11, <1>12, <1>13, <1>14, <1>15, <1>16,
     <1>17, <1>18, <1>19 DEF OperationNext

(* When identity lookups succeed, an operation reported as completed with  *)
(* its heartbeats in time was never overtaken, for all processes and TTLs. *)
THEOREM CompletedHadItAlone ==
  ASSUME LookupFailures \subseteq {{}}
  PROVE  OperationSpec => []CompletedUndisturbed
<1>1. OperationInit => TimingInv
  <2> SUFFICES ASSUME OperationInit PROVE TimingInv
    OBVIOUS
  <2>1. OperationInv /\ LeaseInv
    BY OperationInitInv, InitRegistryInv DEF OperationInit, LeaseInv
  <2>2. \A p \in Process : Watched(p)
    BY DEF OperationInit, Watched, ThreadInPhase, Punctual, NoticesOvertaking, Active
  <2>3. QED BY <2>1, <2>2 DEF TimingInv
<1>2. TimingInv /\ [OperationNext]_vars => TimingInv'
  BY TimingStep
<1>3. TimingInv => CompletedUndisturbed
  BY DEF TimingInv, Watched, ThreadInPhase, NoticesOvertaking, CompletedUndisturbed
<1>4. QED BY <1>1, <1>2, <1>3, PTL DEF OperationSpec
=============================================================================
