--------------------------- MODULE ProviderResources ---------------------------
(***************************************************************************)
(* The shared resources of the platform and the choice of a provider:      *)
(* ResourceCoordinator of providers/resources.py, ProviderRouter of        *)
(* providers/router.py and the registry it reads.  The methods of the      *)
(* coordinator hold its lock, so each is one step.                         *)
(***************************************************************************)
EXTENDS Naturals, FiniteSets, Sequences, SequencesExt

CONSTANTS
    Id,             \* providers that are registered
    Priority,       \* Priority[p]: lower is tried earlier
    NeedsCredential,\* providers that require a credential
    Small,          \* providers that offer the small model as well
    Job,            \* jobs of one user
    Platform,       \* providers with a key of the platform
    MaxUnits,       \* bound: units of one budget or one reservation
    MaxActive, MaxQueued,   \* FairUsePolicy
    NoLimit         \* the limit of an unknown budget

ASSUME ResourcesAssumption ==
    /\ Priority \in [Id -> Nat] /\ IsInjective(Priority) /\ NeedsCredential \subseteq Id /\ Small \subseteq Id
    /\ MaxActive \in Nat \ {0} /\ MaxQueued \in Nat /\ MaxUnits \in Nat /\ Platform \subseteq Id
    /\ IsFiniteSet(Job) /\ NoLimit \notin Nat \cup Id

VARIABLES
    budget,         \* budget[p]: [limit, used, availability]
    reservations,   \* reservations[j]: [provider, quantity] that job j holds, or Released
    active, queued, \* counts of the user
    job,            \* job[j]: [pc, provider, source] of the worker that calls
    excess          \* bookkeeping: excess[p]: what was granted beyond the limit by others

resVars == <<budget, reservations, active, queued, job, excess>>

(* What a health lookup may answer; "unknown" counts as healthy.           *)
Health == {"healthy", "degraded", "open"}
NoRoute == [provider |-> NoLimit, model |-> "none", source |-> "none"]
New == [pc |-> "new", provider |-> NoLimit, source |-> "none"]
Released == [provider |-> NoLimit, quantity |-> 0]

InitResources ==
    /\ budget = [p \in Id |-> [limit |-> NoLimit, used |-> 0, availability |-> "available"]]
    /\ reservations = [j \in Job |-> Released]
    /\ active = 0 /\ queued = 0
    /\ job = [j \in Job |-> New]
    /\ excess = [p \in Id |-> 0]

Monus(m, n) == IF m > n THEN m - n ELSE 0
Remaining(p) == Monus(budget[p].limit, budget[p].used)

(* The reservations of p are summed up unit by unit.                       *)
Units(p) == {unit \in Job \X (1..MaxUnits) :
                reservations[unit[1]].provider = p /\ unit[2] <= reservations[unit[1]].quantity}
Reserved(p) == Cardinality(Units(p))
-----------------------------------------------------------------------------
(* Administration and the providers themselves.                            *)
Overdrawn(p, b) == IF b.limit = NoLimit THEN 0 ELSE Monus(b.used + Reserved(p), b.limit)

SetBudget(p, limit) ==
    /\ budget' = [budget EXCEPT ![p] = [limit |-> limit, used |-> 0, availability |-> "available"]]
    /\ excess' = [excess EXCEPT ![p] = Overdrawn(p, budget'[p])]
    /\ UNCHANGED <<reservations, active, queued, job>>

Recover(p) ==
    /\ budget[p].availability # "available"
    /\ budget' = [budget EXCEPT ![p].availability = "available"]
    /\ UNCHANGED <<reservations, active, queued, job, excess>>

-----------------------------------------------------------------------------
(* ProviderRouter.route().  A request has preferred providers, perhaps one *)
(* model, a policy with two switches that exclude the user's keys or the   *)
(* platform's, and the providers for which the user has a key.  The health *)
(* of a provider is looked up when the providers are sorted (seen) and     *)
(* again when its turn comes (now), and may have changed in between.       *)
Requests == [preferred : {<<>>} \cup {<<p>> : p \in Id}, model : {"any", "small"},
             policy : {"user_first", "platform_first", "user_only", "platform_only"},
             allowUser : BOOLEAN, allowPlatform : BOOLEAN, user : SUBSET Id]

Lookups == [Id -> Health]

Models(p) == IF p \in Small THEN {"large", "small"} ELSE {"large"}

Position(seq, p) == IF p \in ToSet(seq) THEN CHOOSE i \in DOMAIN seq : seq[i] = p ELSE Len(seq) + 1

(* _ordered_providers(): the sort keys, most significant first.            *)
Rank(req, seen, p) == << Position(req.preferred, p), IF seen[p] = "degraded" THEN 1 ELSE 0, Priority[p] >>

Before(req, seen, p, q) ==
    LET a == Rank(req, seen, p)  b == Rank(req, seen, q)
    IN \E i \in DOMAIN a : a[i] < b[i] /\ \A k \in 1..i - 1 : a[k] = b[k]

MatchingModels(p, req) == {m \in Models(p) : req.model \in {"any", m}}

Allowed(req) ==
    {s \in {"user", "platform"} :
        IF s = "user" THEN req.allowUser /\ req.policy # "platform_only"
                      ELSE req.allowPlatform /\ req.policy # "user_only"}

Credentials(p, req) == {s \in {"user", "platform"} :
    IF s = "user" THEN p \in req.user ELSE p \in Platform}

(* Fault: the user's own key serves as a fallback of any policy.           *)
FaultyCandidates(p, req) == Credentials(p, req) \cap (Allowed(req) \cup {"user"})

Candidates(p, req) == Credentials(p, req) \cap Allowed(req)

FirstCandidate(p, req) ==
    LET found == Candidates(p, req)
        first == IF req.policy \in {"platform_first", "platform_only"} THEN "platform" ELSE "user"
    IN IF found = {} THEN "none" ELSE IF first \in found THEN first ELSE CHOOSE s \in found : TRUE

Usable(p, req, now) ==
    /\ now[p] # "open" /\ MatchingModels(p, req) # {}
    /\ p \in NeedsCredential => Candidates(p, req) # {}

Route(req, seen, now) ==
    LET usable == {p \in Id : Usable(p, req, now)}
        first == CHOOSE p \in usable : \A q \in usable \ {p} : Before(req, seen, p, q)
    IN IF usable = {} THEN NoRoute
       ELSE [provider |-> first, source |-> FirstCandidate(first, req),
             model |-> IF "large" \in MatchingModels(first, req) THEN "large" ELSE "small"]

Routes == {Route(req, seen, now) : req \in Requests, seen \in Lookups, now \in Lookups}
-----------------------------------------------------------------------------
(* The worker of a job.  Which calls it makes is its own affair; here they *)
(* are those that the coordinator and the router are there for, in order.  *)
Enqueue(j) ==
    /\ job[j].pc = "new" /\ queued < MaxQueued
    /\ queued' = queued + 1
    /\ job' = [job EXCEPT ![j].pc = "queued"]
    /\ UNCHANGED <<budget, reservations, active, excess>>

StartJob(j) ==
    /\ job[j].pc = "queued" /\ active < MaxActive
    /\ queued' = Monus(queued, 1) /\ active' = active + 1
    /\ job' = [job EXCEPT ![j].pc = "running"]
    /\ UNCHANGED <<budget, reservations, excess>>

FinishJob(j) ==
    /\ job[j].pc \in {"running", "routed", "served"}
    /\ active' = Monus(active, 1)
    /\ job' = [job EXCEPT ![j] = New]
    /\ UNCHANGED <<budget, reservations, queued, excess>>

RouteJob(j, route) ==
    /\ job[j].pc = "running"
    /\ job' = [job EXCEPT ![j] = [pc |-> "routed", provider |-> route.provider, source |-> route.source]]
    /\ UNCHANGED <<budget, reservations, active, queued, excess>>

(* Fault: what others have reserved is not counted.                        *)
FaultyFits(p, q) == budget[p].limit # NoLimit => q <= Remaining(p)

Fits(p, q) == budget[p].limit # NoLimit => Reserved(p) + q <= Remaining(p)

MayReserve(j, q) ==
    LET p == job[j].provider
    IN /\ job[j].pc = "routed" /\ job[j].source = "platform"
       /\ budget[p].availability = "available" /\ Fits(p, q)

Reserve(j, q) ==
    /\ MayReserve(j, q)
    /\ reservations' = [reservations EXCEPT ![j] = [provider |-> job[j].provider, quantity |-> q]]
    /\ job' = [job EXCEPT ![j] = [New EXCEPT !.pc = "granted"]]
    /\ UNCHANGED <<budget, active, queued, excess>>

(* What is used beyond the reservation was not known in advance.           *)
Settle(j, actual) ==
    LET p == reservations[j].provider  b == budget[p]  used == b.used + actual
    IN /\ job[j].pc = "granted" /\ b.used < MaxUnits
       /\ budget' = [budget EXCEPT ![p].used = used,
            ![p].availability = IF b.limit # NoLimit /\ used >= b.limit THEN "exhausted" ELSE @]
       /\ excess' = [excess EXCEPT ![p] = @ + Monus(actual, reservations[j].quantity)]
       /\ reservations' = [reservations EXCEPT ![j] = Released]
       /\ job' = [job EXCEPT ![j].pc = "served"]
       /\ UNCHANGED <<active, queued>>

Release(j) ==
    /\ job[j].pc = "granted"
    /\ reservations' = [reservations EXCEPT ![j] = Released]
    /\ job' = [job EXCEPT ![j].pc = "served"]
    /\ UNCHANGED <<budget, active, queued, excess>>

Work(j) ==
    \/ Enqueue(j) \/ StartJob(j) \/ FinishJob(j) \/ Release(j)
    \/ \E route \in Routes : RouteJob(j, route)
    \/ \E q \in 1..MaxUnits : Reserve(j, q)
    \/ \E n \in 0..MaxUnits : Settle(j, n)

NextResources ==
    \/ \E j \in Job : Work(j)
    \/ \E p \in Platform : Recover(p) \/ \E n \in 0..MaxUnits \cup {NoLimit} : SetBudget(p, n)
-----------------------------------------------------------------------------
(* The platform has never promised more of a known budget than it has,     *)
(* whatever is reserved, settled, released or recovered in any order, and  *)
(* apart from what a settlement or a new budget overdraws.                 *)
BudgetIsKept ==
    \A p \in Id : budget[p].limit # NoLimit =>
        budget[p].used + Reserved(p) <= budget[p].limit + excess[p]

(* Whom a request may be routed to, and with which keys.                   *)
MayUse(source, p, req) ==
    IF source = "user" THEN req.allowUser /\ req.policy # "platform_only" /\ p \in req.user
                       ELSE req.allowPlatform /\ req.policy # "user_only" /\ p \in Platform

Serves(p, req, now) ==
    /\ now[p] # "open"
    /\ req.model = "any" \/ req.model \in Models(p)
    /\ p \in NeedsCredential => MayUse("user", p, req) \/ MayUse("platform", p, req)

(* A request is refused only if nobody serves it when its turn comes; it   *)
(* goes to a preferred provider if that serves it, and never to one that   *)
(* looked degraded to the sort while an equally preferred one that did not *)
(* serves it.  A key is spent only where the request's policy and switches *)
(* allow it, and not while one that the policy prefers may be used.        *)
Justified(req, seen, now, r) ==
    /\ (r = NoRoute) <=> \A p \in Id : ~Serves(p, req, now)
    /\ r # NoRoute =>
        /\ Serves(r.provider, req, now) /\ r.model \in Models(r.provider)
        /\ \A p \in ToSet(req.preferred) : Serves(p, req, now) => r.provider \in ToSet(req.preferred)
        /\ \A p \in Id : seen[r.provider] = "degraded" /\ seen[p] # "degraded" /\ Serves(p, req, now)
                => r.provider \in ToSet(req.preferred)
        /\ r.source # "none" => MayUse(r.source, r.provider, req)
        /\ r.source = "platform" /\ req.policy = "user_first" => ~MayUse("user", r.provider, req)
        /\ r.source = "user" /\ req.policy = "platform_first" => ~MayUse("platform", r.provider, req)

EveryRouteIsJustified ==
    \A req \in Requests, seen \in Lookups, now \in Lookups :
        Justified(req, seen, now, Route(req, seen, now))

(* Whenever a job asks the router: whatever its request and whatever the   *)
(* two lookups answer, the route is justified.                             *)
RoutesAreJustified == \A j \in Job : job[j].pc = "running" => EveryRouteIsJustified
=============================================================================
