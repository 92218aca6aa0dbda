------------------------------ MODULE Gateway ------------------------------
(***************************************************************************)
(* internal/gatewayhttp, gatewayinvoke and gatewayroute: one HTTP request  *)
(* from the rate limiter to the Worker and back, for one Function, while   *)
(* discovery replaces the serving view.                                    *)
(*                                                                         *)
(* The handler looks the Function up twice: it authenticates against one   *)
(* view and Gateway.Invoke routes by the view that is current later, and   *)
(* leases an Endpoint of it when that view may be out of date again.  The  *)
(* hash of an affinity key is a constant of the Route revision.  Requests  *)
(* refused before they take a slot change nothing but the rate limiter.    *)
(***************************************************************************)
EXTENDS RouteSelect

CONSTANTS
    Requests,
    RequestIDs,     \* X-Request-ID, sent or generated
    Idempotency,    \* Idempotency-Key values
    NoKey,
    Tokens,         \* invocation tokens
    Public,         \* the policy of a Trigger that needs no token
    Endpoints,      \* Assignment IDs, numbered in their order
    Views,          \* what discovery may publish: see ViewOK
    Hash,           \* Hash[revision][key]: the first eight bytes of the digest
    MaxConcurrent,  \* Handler.slots
    RateBurst,      \* Handler.rate
    CursorSize,     \* the width of the Round-robin cursor (2^64)
    MaxViews        \* bound on the views published

\* What an Endpoint has in common with its Target: the Version and the generation,
\* which stand for the admission epoch and the policy digest of that generation.
identity(t) == [version |-> t.version, generation |-> t.generation]

\* A view: the Trigger's token (or Public) and enabled bit, the Route, and the
\* Endpoints, each of a Target of the Route.
ViewOK(v) ==
    /\ v.token \in Tokens \cup {Public} /\ v.enabled \in BOOLEAN
    /\ v.targets \in Seq(Target) /\ validateRouteTargets(v.targets)
    /\ DOMAIN v.target \subseteq Endpoints /\ IsFiniteSet(DOMAIN v.target)
    /\ Range(v.target) \subseteq {identity(t) : t \in Range(v.targets)}

ASSUME ViewsAssumption == \A v \in Views : ViewOK(v)

ASSUME GatewayAssumption ==
    /\ IsFiniteSet(Requests) /\ Endpoints \subseteq Nat
    /\ MaxConcurrent \in Nat /\ RateBurst \in Nat /\ MaxViews \in Nat \ {0}
    /\ CursorSize \in Nat \ {0}

VARIABLES
    views,          \* the views published so far; the last one is current
    tokens,         \* requests the rate limiter still allows now
    slots,          \* len(Handler.slots)
    req,            \* each request: its step and what it holds
    inflight,       \* Balancer.inflight
    roundRobin,     \* Balancer.roundRobin, by identity of the Target
    last            \* history: the tie broken last for each Target

gatewayVars == <<views, tokens, slots, req, inflight, roundRobin, last>>
balancer == <<inflight, roundRobin, last>>

\* A request: its keys and the token it presents, the view that was current
\* when it came, the view it is routed by and, once it is leased, its Endpoint.
Request ==
    [at : {"idle", "admitted", "authenticated", "routed", "leased"},
     id : RequestIDs \cup {NoKey}, idempotency : Idempotency \cup {NoKey},
     token : Tokens \cup {Public}, since : 0..MaxViews,
     endpoint : Endpoints \cup {0}, view : 0..MaxViews]

Idle ==
    [at |-> "idle", id |-> NoKey, idempotency |-> NoKey, token |-> Public, since |-> 0,
     endpoint |-> 0, view |-> 0]

Revision == Len(views)
CurrentView == views[Revision]
Identities == UNION {{identity(t) : t \in Range(v.targets)} : v \in Views}

GatewayInit ==
    /\ views \in {<<v>> : v \in Views}
    /\ tokens = RateBurst /\ slots = 0
    /\ req = [r \in Requests |-> Idle]
    /\ inflight = <<>>
    /\ roundRobin = [t \in Identities |-> 0]
    /\ last = [t \in Identities |-> [tied |-> {}, chosen |-> 0, cursor |-> 0]]

-----------------------------------------------------------------------------
\* The environment: discovery applies a view; the bucket refills with time.
PublishView(v) ==
    /\ Revision < MaxViews
    /\ views' = Append(views, v)
    /\ UNCHANGED <<tokens, slots, req, balancer>>

Refill ==
    /\ tokens < RateBurst /\ tokens' = tokens + 1
    /\ UNCHANGED <<views, slots, req, balancer>>

\* ServeHTTP: a token, then a slot without waiting.
Admit(r, id, idempotency, token) ==
    /\ req[r].at = "idle" /\ tokens > 0 /\ tokens' = tokens - 1
    /\ slots < MaxConcurrent /\ slots' = slots + 1
    /\ req' = [req EXCEPT ![r].at = "admitted", ![r].id = id, ![r].idempotency = idempotency,
                          ![r].token = token, ![r].since = Revision]
    /\ UNCHANGED <<views, balancer>>

\* Every slot is taken; the token is spent all the same.
Overloaded ==
    /\ tokens > 0 /\ slots = MaxConcurrent
    /\ tokens' = tokens - 1
    /\ UNCHANGED <<views, slots, req, balancer>>

\* The handler returns without a lease.
Leave(r) ==
    /\ req' = [req EXCEPT ![r] = Idle] /\ slots' = slots - 1
    /\ UNCHANGED <<views, tokens, balancer>>

\* lookupFunction and authenticate, on the view that is current now.
Authenticate(r) ==
    /\ req[r].at = "admitted" /\ CurrentView.token \in {Public, req[r].token}
    /\ req' = [req EXCEPT ![r].at = "authenticated"]
    /\ UNCHANGED <<views, tokens, slots, balancer>>

\* The credential is wrong, the request cannot be built, or the client left.
Refuse(r) == req[r].at \in {"admitted", "authenticated", "routed"} /\ Leave(r)

\* Gateway.Invoke looks the Function up again and goes on with that view.
Route(r) ==
    /\ req[r].at = "authenticated" /\ CurrentView.enabled
    /\ req' = [req EXCEPT ![r].at = "routed", ![r].view = Revision]
    /\ UNCHANGED <<views, tokens, slots, balancer>>

affinityKey(r) == IF req[r].idempotency # NoKey THEN req[r].idempotency ELSE req[r].id

RoutedBy(r) == views[req[r].view]

\* The Target that the key selects in the view the request is routed by.
Chosen(r) == identity(selectServing(RoutedBy(r).targets, Hash[req[r].view][affinityKey(r)]))

\* The Endpoints of that Target.
eligible(r) == {e \in DOMAIN RoutedBy(r).target : RoutedBy(r).target[e] = Chosen(r)}

Load(e) == IF e \in DOMAIN inflight THEN inflight[e] ELSE 0

\* The least loaded of them.
tied(r) == {e \in eligible(r) : \A o \in eligible(r) : Load(e) <= Load(o)}

\* The member of S at position n, counted from zero, in the order of the
\* Assignment IDs.
Ranked(S, n) == CHOOSE e \in S : Cardinality({o \in S : o < e}) = n

Lease(r, chosen) ==
    /\ inflight' = [e \in DOMAIN inflight \cup {chosen} |->
                       IF e = chosen THEN Load(e) + 1 ELSE inflight[e]]
    /\ last' = [last EXCEPT ![Chosen(r)] = [tied |-> tied(r), chosen |-> chosen,
                                            cursor |-> roundRobin[Chosen(r)]]]
    /\ req' = [req EXCEPT ![r].at = "leased", ![r].endpoint = chosen]

\* Mutation: the cursor stays where it is.
AcquireSame(r) ==
    /\ roundRobin' = roundRobin
    /\ Lease(r, Ranked(tied(r), roundRobin[Chosen(r)] % Cardinality(tied(r))))

\* Balancer.Acquire
Acquire(r) ==
    /\ roundRobin' = [roundRobin EXCEPT ![Chosen(r)] = (@ + 1) % CursorSize]
    /\ Lease(r, Ranked(tied(r), roundRobin[Chosen(r)] % Cardinality(tied(r))))

\* Gateway.Invoke: an Endpoint of the selected Target is leased.
Select(r) ==
    /\ req[r].at = "routed" /\ eligible(r) # {}
    /\ Acquire(r)
    /\ UNCHANGED <<views, tokens, slots>>

\* No enabled view, or no ready Endpoint of the selected Target.
Unavailable(r) ==
    /\ \/ req[r].at = "authenticated" /\ ~CurrentView.enabled
       \/ req[r].at = "routed" /\ eligible(r) = {}
    /\ Leave(r)

\* Mutation: a count that reaches zero stays in the map.
ReleaseToZero(r) == inflight' = [inflight EXCEPT ![req[r].endpoint] = @ - 1]

\* Lease.Release
Release(r) ==
    LET e == req[r].endpoint IN
    inflight' = IF inflight[e] <= 1 THEN [o \in DOMAIN inflight \ {e} |-> inflight[o]]
                ELSE [inflight EXCEPT ![e] = @ - 1]

\* The Worker answered, failed, was not resolved, or the deadline passed: the
\* deferred Release and the slot, whatever the view is now.
Finish(r) ==
    /\ req[r].at = "leased"
    /\ Release(r)
    /\ req' = [req EXCEPT ![r] = Idle] /\ slots' = slots - 1
    /\ UNCHANGED <<views, tokens, roundRobin, last>>

GatewayNext ==
    \/ \E v \in Views : PublishView(v)
    \/ Refill
    \/ \E r \in Requests, id \in RequestIDs, k \in Idempotency \cup {NoKey}, t \in Tokens :
          Admit(r, id, k, t)
    \/ Overloaded
    \/ \E r \in Requests :
        Authenticate(r) \/ Refuse(r) \/ Route(r) \/ Select(r) \/ Unavailable(r) \/ Finish(r)

GatewaySpec == GatewayInit /\ [][GatewayNext]_gatewayVars

-----------------------------------------------------------------------------
Leased(e) == {r \in Requests : req[r].at = "leased" /\ req[r].endpoint = e}

\* Every variable has its type; the limits of the limiter, of the slots and of
\* the cursor hold.
GatewayTypeOK ==
    /\ views \in Seq(Views) /\ Revision \in 1..MaxViews
    /\ tokens \in 0..RateBurst /\ slots \in 0..MaxConcurrent
    /\ req \in [Requests -> Request]
    /\ DOMAIN inflight \subseteq Endpoints
    /\ roundRobin \in [Identities -> 0..(CursorSize - 1)]

\* Every path out of the handler gives its slot back: the slots taken are
\* those of the requests in progress.
SlotsConserved == slots = Cardinality({r \in Requests : req[r].at # "idle"})

\* The in-flight count of an Endpoint is the number of leases on it, also when
\* later views no longer name it, and an Endpoint without leases has no entry.
InflightConserved ==
    /\ DOMAIN inflight = {e \in Endpoints : Leased(e) # {}}
    /\ \A e \in DOMAIN inflight : inflight[e] = Cardinality(Leased(e))

\* A request is only sent to an Endpoint of the Target that its affinity key
\* selects in the view it was routed by: no other Target stands in for one
\* without Endpoints.
TargetKept ==
    \A r \in Requests : req[r].at = "leased" =>
        RoutedBy(r).target[req[r].endpoint] = Chosen(r)

\* A request that reaches a Worker presented the token of some view that was
\* current while it was in progress, or that view was public, although it is
\* not always the view it is routed by.
TokenWasCurrent ==
    \A r \in Requests : req[r].at = "leased" =>
        \E k \in req[r].since..req[r].view : views[k].token \in {Public, req[r].token}

\* At every moment the handler's and the balancer's counts are those of the
\* requests in progress, and a leased request is where its token and its key
\* allow it to be (ServeHTTP, Invoke, Acquire, Release).
GatewayInvariant ==
    GatewayTypeOK /\ SlotsConserved /\ InflightConserved /\ TargetKept /\ TokenWasCurrent

\* The choice of a Target is exact for every Route an operator may write and for
\* the one the Gateway serves (routing.SelectServing): each hash has a Target,
\* each Target its share, and the order in which a Route lists them does not
\* matter.
EveryRouteExact == RoutesExact /\ RouteExact(CurrentView.targets)

\* Consecutive choices between the same tied Endpoints differ: the Round-robin
\* moves on, whatever happens to other Targets and views in between.  The one
\* exception is the cursor's return to zero, after 2^64 choices for a Target, when
\* the number of Endpoints does not divide its size.
RoundRobinMoves ==
    [][\A r \in Requests : req[r].at = "routed" /\ req'[r].at = "leased" =>
        LET before == last[Chosen(r)] IN
        (/\ Cardinality(before.tied) > 1 /\ before.cursor + 1 < CursorSize
         /\ tied(r) = before.tied)
            => req'[r].endpoint # before.chosen]_gatewayVars

=============================================================================
