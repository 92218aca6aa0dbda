----------------------------- MODULE ServingAuth -----------------------------
(***************************************************************************)
(* The Worker-side authorization gate of internal/servingauth as a value:  *)
(* one record holds the fields that Gate.mu protects, and every method is  *)
(* an operator from that record to the record it leaves behind.  A method  *)
(* that can fail returns [ok, gate]; the gate of a failed call is not      *)
(* always the gate it was given (AcceptAuthoritativeControl, the clock).   *)
(*                                                                         *)
(* Version, admission epoch, deployment generation and policy digest are   *)
(* only ever compared together: they are one Generation.  WorkerID and     *)
(* BootID are one Boot.  A live-only authorization has TTL 0 and a ttl     *)
(* authorization a positive TTL (Authorization.validate), so the lifetime  *)
(* is read off the TTL.                                                    *)
(***************************************************************************)
EXTENDS Integers, FiniteSets

CONSTANTS AssignmentIds, Generations, Boots, Self,
          ConnectionIds, SessionEpochs, DiscoveryEpochs,
          MaxTTL, MaxAuthorizations

ASSUME EpochAssumption == /\ SessionEpochs \subseteq Nat \ {0}
                          /\ DiscoveryEpochs \subseteq Nat \ {0}

ASSUME SelfAssumption == Self \in Boots

ASSUME LimitAssumption == /\ MaxTTL \in Nat \ {0}
                          /\ MaxAuthorizations \in Nat \ {0}

ASSUME AssignmentIdsFinite == IsFiniteSet(AssignmentIds)

\* The absence of a connection, an identity or a record.
None == [none |-> TRUE]

Modes == {"normal", "drain-only"}

Identity == [id : AssignmentIds, boot : Boots, session : SessionEpochs,
             generation : Generations, mode : Modes]

Fence == [assignment : Identity, disc : DiscoveryEpochs]

Connection == [cid : ConnectionIds, session : SessionEpochs, disc : DiscoveryEpochs]

LiveOnly == 0

Authorization == [fence : Fence, ttl : 0..MaxTTL]

AuthorizationRecord == [auth : Authorization, connection : Connection, receivedAt : Nat]

Gate == [highest : DiscoveryEpochs \cup {0}, session : SessionEpochs \cup {0},
         connection : Connection \cup {None}, connected : BOOLEAN,
         assignments : [AssignmentIds -> Identity \cup {None}],
         authorizations : [AssignmentIds -> AuthorizationRecord \cup {None}],
         lastElapsed : Nat, clockHealthy : BOOLEAN]

Cleared == [a \in AssignmentIds |-> None]

NewGate(now) == [highest |-> 0, session |-> 0, connection |-> None, connected |-> FALSE,
                 assignments |-> Cleared, authorizations |-> Cleared,
                 lastElapsed |-> now, clockHealthy |-> TRUE]

Failed(g) == [ok |-> FALSE, gate |-> g]

Done(g) == [ok |-> TRUE, gate |-> g]

-----------------------------------------------------------------------------
(* Control connection.                                                     *)

\* Mutation: a raised epoch leaves the stored authorizations alone.
RaiseEpochOnly(g, c) ==
  IF c.disc > g.highest THEN [g EXCEPT !.highest = c.disc, !.connected = FALSE] ELSE g

\* A higher discovery epoch is recorded, and voids every permission, before
\* the session epoch is looked at.
RaiseEpoch(g, c) ==
  IF c.disc > g.highest
    THEN [g EXCEPT !.highest = c.disc, !.authorizations = Cleared, !.connected = FALSE]
    ELSE g

OpenSession(g, c) ==
  [g EXCEPT !.session = c.session, !.assignments = Cleared, !.authorizations = Cleared,
            !.connection = c, !.connected = TRUE]

\* Mutation: the connection that was closed may come back under its session.
AcceptReconnect(g, c) ==
  LET r == RaiseEpoch(g, c)
  IN  IF c.disc < g.highest THEN Failed(g)
      ELSE IF c.session > g.session THEN Done(OpenSession(r, c))
      ELSE IF c.session = g.session /\ r.connection = c THEN Done([r EXCEPT !.connected = TRUE])
      ELSE Failed(r)

AcceptAuthoritativeControl(g, c) ==
  LET r == RaiseEpoch(g, c)
  IN  IF c.disc < g.highest THEN Failed(g)
      ELSE IF c.session > g.session THEN Done(OpenSession(r, c))
      ELSE IF c.session = g.session /\ r.connected /\ r.connection = c THEN Done(r)
      ELSE Failed(r)

CurrentControl(g, c) == g.connected /\ g.connection = c /\ c.disc = g.highest

\* CheckControl.
CheckControl(g, c) == CurrentControl(g, c)

CheckAssignment(g, c, f) ==
  /\ CurrentControl(g, c)
  /\ f.disc = c.disc
  /\ f.assignment.boot = Self
  /\ f.assignment.session = g.session

DisconnectControl(g, c) ==
  IF g.connection = c THEN [g EXCEPT !.connected = FALSE] ELSE g

-----------------------------------------------------------------------------
(* Permissions.                                                            *)

\* elapsedLocked: one reading behind an earlier one marks the clock unhealthy
\* for the rest of the boot.
ReadClock(g, now) ==
  IF g.clockHealthy /\ now >= g.lastElapsed
    THEN [g EXCEPT !.lastElapsed = now]
    ELSE [g EXCEPT !.clockHealthy = FALSE]

\* compatibleRefresh: an Assignment ID keeps the identity it was installed with.
CompatibleRefresh(g, identity) ==
  g.assignments[identity.id] \in {None, identity}

Tracked(g) == {a \in AssignmentIds : g.assignments[a] # None}

HasCapacity(g, a) ==
  g.assignments[a] # None \/ Cardinality(Tracked(g)) < MaxAuthorizations

Install(g, c, auth, now) ==
  LET identity == auth.fence.assignment
      r == ReadClock(g, now)
  IN  IF ~CheckAssignment(g, c, auth.fence) THEN Failed(g)
      ELSE IF ~(r.clockHealthy /\ CompatibleRefresh(r, identity) /\ HasCapacity(r, identity.id))
        THEN Failed(r)
      ELSE Done([r EXCEPT
             !.assignments[identity.id] = identity,
             !.authorizations[identity.id] =
                [auth |-> auth, connection |-> c, receivedAt |-> now]])

\* validLocked.
ValidRecord(g, record, now) ==
  /\ record.auth.fence.disc = g.highest
  /\ now >= record.receivedAt
  /\ IF record.auth.ttl = LiveOnly
       THEN CurrentControl(g, record.connection)
       ELSE now - record.receivedAt < record.auth.ttl

MatchingRecord(g, f) ==
  /\ f.disc >= g.highest
  /\ f.assignment.mode = "normal"
  /\ g.authorizations[f.assignment.id] # None
  /\ g.authorizations[f.assignment.id].auth.fence = f

\* A record found invalid is dropped; the identity it was installed with stays.
AuthorizeSync(g, f, now) ==
  LET r == ReadClock(g, now)
  IN  IF ~MatchingRecord(g, f) THEN Failed(g)
      ELSE IF ~r.clockHealthy THEN Failed(r)
      ELSE IF ValidRecord(r, r.authorizations[f.assignment.id], now) THEN Done(r)
      ELSE Failed([r EXCEPT !.authorizations[f.assignment.id] = None])

\* Mutation: the identity survives its authorization.
RevokeAuthorizationOnly(g, ids) ==
  [g EXCEPT !.authorizations = [a \in AssignmentIds |-> IF a \in ids THEN None ELSE @[a]]]

\* Revoke, for a set of Assignments.
Revoke(g, ids) ==
  [g EXCEPT !.assignments = [a \in AssignmentIds |-> IF a \in ids THEN None ELSE @[a]],
            !.authorizations = [a \in AssignmentIds |-> IF a \in ids THEN None ELSE @[a]]]

=============================================================================
