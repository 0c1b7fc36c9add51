---------------------------- MODULE LeaseService ----------------------------
(***************************************************************************)
(* What FileResourceLeaseManager promises its callers, with no clock, no   *)
(* registry file and no process identities: a set of valid grants that     *)
(* never conflict, and one fencing sequence per resource out of which      *)
(* every write grant takes the next number.  A grant may end at any time   *)
(* (release, expiry, death of its owner); nothing brings it back.          *)
(***************************************************************************)
EXTENDS Naturals

CONSTANTS
  Process,   \* who may be granted something
  Resource,  \* what is granted
  GrantId    \* names of grants

VARIABLES
  valid,   \* the grants whose holder may still rely on them
  spent,   \* the names of all grants ever made
  last     \* resource -> the last fencing token issued for it

serviceVars == <<valid, spent, last>>

Claim == [resource : Resource, mode : {"read", "write"}]

Clash(c, d) == /\ c.resource = d.resource
               /\ c.mode = "write" \/ d.mode = "write"

Conflicting(cs, ds) == \E c \in cs, d \in ds : Clash(c, d)

WriteResources(claims) == {c.resource : c \in {d \in claims : d.mode = "write"}}

NextTokens(claims, counters) ==
  [r \in Resource |-> IF r \in WriteResources(claims) THEN counters[r] + 1 ELSE 0]

ServiceInit == /\ valid = {} /\ spent = {}
               /\ last = [r \in Resource |-> 0]

(* A new grant, beside valid grants it does not conflict with.             *)
GrantLease(p, claims) ==
  /\ \A g \in valid : ~Conflicting(claims, g.claims)
  /\ \E n \in GrantId \ spent :
       /\ spent' = spent \cup {n}
       /\ valid' = valid \cup {[id |-> n, pid |-> p, claims |-> claims,
                                tokens |-> NextTokens(claims, last)]}
  /\ last' = [r \in Resource |-> IF r \in WriteResources(claims)
                                 THEN last[r] + 1 ELSE last[r]]

(* Grants end, one or several at a time; the fencing sequence survives.    *)
EndLeases(ended) == /\ ended # {}
                    /\ valid' = valid \ ended
                    /\ UNCHANGED <<spent, last>>

ServiceNext == \/ \E p \in Process, claims \in SUBSET Claim : GrantLease(p, claims)
               \/ \E ended \in SUBSET valid : EndLeases(ended)

ServiceSpec == ServiceInit /\ [][ServiceNext]_serviceVars
=============================================================================
