-------------------------- MODULE ServingGateProofs --------------------------
(***************************************************************************)
(* TLAPS proofs about ServingGate, for every set of Assignments, epochs,   *)
(* connections and every limit.                                            *)
(***************************************************************************)
EXTENDS ServingGate, FiniteSetTheorems, TLAPS

USE DEF None

\* AcceptAuthoritativeControl leaves a gate, whether or not it accepts.
LEMMA AcceptType ==
  ASSUME NEW g \in Gate, NEW c \in Connection
  PROVE  AcceptAuthoritativeControl(g, c).gate \in Gate
  BY EpochAssumption, Zenon
     DEF AcceptAuthoritativeControl, RaiseEpoch, OpenSession, Cleared, Failed, Done,
         Gate, Connection

\* DisconnectControl leaves a gate.
LEMMA DisconnectType ==
  ASSUME NEW g \in Gate, NEW c \in Connection
  PROVE  DisconnectControl(g, c) \in Gate
  BY Zenon DEF DisconnectControl, Gate

\* Reading the clock leaves a gate.
LEMMA ReadClockType ==
  ASSUME NEW g \in Gate, NEW t \in Nat
  PROVE  ReadClock(g, t) \in Gate
  BY Zenon DEF ReadClock, Gate

\* Install leaves a gate, whether or not it stores the authorization.
LEMMA InstallType ==
  ASSUME NEW g \in Gate, NEW c \in Connection, NEW auth \in Authorization, NEW t \in Nat
  PROVE  Install(g, c, auth, t).gate \in Gate
<1> DEFINE r == ReadClock(g, t)
           record == [auth |-> auth, connection |-> c, receivedAt |-> t]
           identity == auth.fence.assignment
<1>1. r \in Gate
  BY ReadClockType, Zenon
<1>2. record \in AuthorizationRecord /\ identity \in Identity /\ identity.id \in AssignmentIds
  BY Zenon DEF AuthorizationRecord, Authorization, Fence, Identity
<1>3. [r EXCEPT !.assignments[identity.id] = identity,
                !.authorizations[identity.id] = record] \in Gate
  <2> HIDE DEF r, record, identity
  <2> QED BY <1>1, <1>2, Zenon DEF Gate
<1> QED BY <1>1, <1>3, Zenon DEF Install, Failed, Done

\* AuthorizeSync leaves a gate, whether or not it accepts.
LEMMA AuthorizeType ==
  ASSUME NEW g \in Gate, NEW f \in Fence, NEW t \in Nat
  PROVE  AuthorizeSync(g, f, t).gate \in Gate
<1> DEFINE r == ReadClock(g, t)
<1>1. r \in Gate
  BY ReadClockType, Zenon
<1>2. [r EXCEPT !.authorizations[f.assignment.id] = None] \in Gate
  <2> HIDE DEF r
  <2> QED BY <1>1, Zenon DEF Gate
<1> QED BY <1>1, <1>2, Zenon DEF AuthorizeSync, Failed, Done

\* Revoke leaves a gate.
LEMMA RevokeType ==
  ASSUME NEW g \in Gate, NEW S
  PROVE  Revoke(g, S) \in Gate
  BY Zenon DEF Revoke, Gate

\* Every method of the gate, and every move of the clock, preserves the types.
LEMMA TypeStep == GateTypeOK /\ [GateNext]_gateVars => GateTypeOK'
<1> SUFFICES ASSUME GateTypeOK, [GateNext]_gateVars PROVE GateTypeOK'
  BY Zenon
<1>t. gate \in Gate /\ now \in Nat
  BY Zenon DEF GateTypeOK
<1>1. ASSUME NEW c \in Connection, AcceptControlStep(c) PROVE GateTypeOK'
  BY <1>t, <1>1, AcceptType, Zenon DEF AcceptControlStep, Silent, GateTypeOK
<1>2. ASSUME NEW c \in Connection, DisconnectStep(c) PROVE GateTypeOK'
  BY <1>t, <1>2, DisconnectType, Zenon DEF DisconnectStep, Silent, GateTypeOK
<1>3. ASSUME NEW c \in Connection, NEW auth \in Authorization, InstallStep(c, auth)
      PROVE  GateTypeOK'
  BY <1>t, <1>3, InstallType, Zenon DEF InstallStep, Answer, Silent, Authorization, GateTypeOK
<1>4. ASSUME NEW f \in Fence, AuthorizeStep(f) PROVE GateTypeOK'
  BY <1>t, <1>4, AuthorizeType, Zenon DEF AuthorizeStep, Answer, Silent, GateTypeOK
<1>5. ASSUME NEW a \in AssignmentIds, RevokeStep(a) PROVE GateTypeOK'
  BY <1>t, <1>5, RevokeType, Zenon DEF RevokeStep, Silent, GateTypeOK
<1>6. CASE GateTick
  BY <1>t, <1>6 DEF GateTick, Silent, GateTypeOK
<1>7. CASE ClockRegresses
  BY <1>t, <1>7, TimeAssumption DEF ClockRegresses, Silent, GateTypeOK
<1>8. CASE UNCHANGED gateVars
  BY <1>t, <1>8, Zenon DEF gateVars, GateTypeOK
<1> QED BY <1>1, <1>2, <1>3, <1>4, <1>5, <1>6, <1>7, <1>8, Zenon DEF GateNext

\* A new gate has its type.
LEMMA TypeInit == GateInit => GateTypeOK
  BY DEF GateInit, NewGate, Cleared, Silent, Gate, GateTypeOK

\* THEOREM: the gate's fields keep their types under every sequence of calls.
THEOREM GateTypeCorrect == GateSpec => []GateTypeOK
  BY TypeInit, TypeStep, PTL DEF GateSpec

-----------------------------------------------------------------------------
(* Stored authorizations.                                                  *)

\* The conjuncts of StoredIsCurrent for one Assignment of one gate.
StoredCurrentIn(g, a) ==
  g.authorizations[a] # None =>
    /\ g.authorizations[a].auth.fence.disc = g.highest
    /\ g.authorizations[a].auth.fence.assignment.session = g.session
    /\ g.authorizations[a].auth.fence.assignment.boot = Self
    /\ g.authorizations[a].auth.fence.assignment.id = a
    /\ g.authorizations[a].connection = g.connection
    /\ g.assignments[a] = g.authorizations[a].auth.fence.assignment

\* Accepting a connection, and refusing one after raising the epoch, keeps
\* only records of the present authority.
LEMMA AcceptStored ==
  ASSUME NEW g \in Gate, NEW c \in Connection, NEW a \in AssignmentIds, StoredCurrentIn(g, a)
  PROVE  StoredCurrentIn(AcceptAuthoritativeControl(g, c).gate, a)
  BY EpochAssumption, Zenon
     DEF StoredCurrentIn, AcceptAuthoritativeControl, RaiseEpoch, OpenSession, Cleared,
         Failed, Done, Gate, Connection

\* Reading the clock does not touch the records.
LEMMA ReadClockStored ==
  ASSUME NEW g \in Gate, NEW t \in Nat
  PROVE  LET r == ReadClock(g, t)
         IN  /\ r.authorizations = g.authorizations /\ r.assignments = g.assignments
             /\ r.highest = g.highest /\ r.session = g.session
             /\ r.connection = g.connection /\ r.connected = g.connected
  BY Zenon DEF ReadClock, Gate

\* Install stores a record of the present authority and disturbs no other.
LEMMA InstallStored ==
  ASSUME NEW g \in Gate, NEW c \in Connection, NEW auth \in Authorization, NEW t \in Nat,
         NEW a \in AssignmentIds, StoredCurrentIn(g, a)
  PROVE  StoredCurrentIn(Install(g, c, auth, t).gate, a)
<1> DEFINE r == ReadClock(g, t)
           record == [auth |-> auth, connection |-> c, receivedAt |-> t]
           identity == auth.fence.assignment
           h == [r EXCEPT !.assignments[identity.id] = identity,
                          !.authorizations[identity.id] = record]
<1>1. r \in Gate /\ StoredCurrentIn(r, a)
  BY ReadClockType, ReadClockStored, Zenon DEF StoredCurrentIn
<1>2. identity.id \in AssignmentIds
  BY Zenon DEF Authorization, Fence, Identity
<1>3. ASSUME CheckAssignment(g, c, auth.fence) PROVE StoredCurrentIn(h, a)
  <2>1. /\ r.connection = c /\ c.disc = r.highest /\ auth.fence.disc = c.disc
        /\ identity.boot = Self /\ identity.session = r.session
    BY <1>3, ReadClockStored, Zenon DEF CheckAssignment, CurrentControl
  <2>2. /\ h.authorizations = [r.authorizations EXCEPT ![identity.id] = record]
        /\ h.assignments = [r.assignments EXCEPT ![identity.id] = identity]
        /\ h.highest = r.highest /\ h.session = r.session /\ h.connection = r.connection
    <3> HIDE DEF r, record, identity
    <3> QED BY <1>1, Zenon DEF Gate
  <2>3. CASE a = identity.id
    <3>1. h.authorizations[a] = record /\ h.assignments[a] = identity
      BY <1>1, <1>2, <2>2, <2>3, Zenon DEF Gate
    <3>2. record.auth = auth /\ record.connection = c
      BY Zenon
    <3> HIDE DEF h, r, record
    <3> QED BY <2>1, <2>2, <2>3, <3>1, <3>2, Zenon DEF StoredCurrentIn
  <2>4. CASE a # identity.id
    <3>1. h.authorizations[a] = r.authorizations[a] /\ h.assignments[a] = r.assignments[a]
      BY <1>1, <1>2, <2>2, <2>4, Zenon DEF Gate
    <3> QED BY <1>1, <2>2, <3>1, Zenon DEF StoredCurrentIn
  <2> QED BY <2>3, <2>4, Zenon
<1> QED BY <1>1, <1>3, Zenon DEF Install, Failed, Done

\* AuthorizeSync drops at most the record it looked at.
LEMMA AuthorizeStored ==
  ASSUME NEW g \in Gate, NEW f \in Fence, NEW t \in Nat,
         NEW a \in AssignmentIds, StoredCurrentIn(g, a)
  PROVE  StoredCurrentIn(AuthorizeSync(g, f, t).gate, a)
<1> DEFINE r == ReadClock(g, t)
           h == [r EXCEPT !.authorizations[f.assignment.id] = None]
<1>1. r \in Gate /\ StoredCurrentIn(r, a)
  BY ReadClockType, ReadClockStored, Zenon DEF StoredCurrentIn
<1>2. StoredCurrentIn(h, a)
  <2>1. /\ h.authorizations[a] \in {None, r.authorizations[a]}
        /\ h.assignments = r.assignments
        /\ h.highest = r.highest /\ h.session = r.session /\ h.connection = r.connection
    <3> HIDE DEF r
    <3> QED BY <1>1, Zenon DEF Gate
  <2> HIDE DEF h, r
  <2> QED BY <1>1, <2>1, Zenon DEF StoredCurrentIn
<1> QED BY <1>1, <1>2, Zenon DEF AuthorizeSync, Failed, Done

\* Revoke drops the record and the identity of the same Assignments.
LEMMA RevokeStored ==
  ASSUME NEW g \in Gate, NEW S, NEW a \in AssignmentIds, StoredCurrentIn(g, a)
  PROVE  StoredCurrentIn(Revoke(g, S), a)
  BY Zenon DEF StoredCurrentIn, Revoke, Gate

\* Every step keeps the stored authorizations current.
LEMMA StoredStep == GateTypeOK /\ StoredIsCurrent /\ [GateNext]_gateVars => StoredIsCurrent'
<1> SUFFICES ASSUME GateTypeOK, StoredIsCurrent, [GateNext]_gateVars, NEW a \in AssignmentIds
             PROVE  StoredCurrentIn(gate, a)'
  BY Zenon DEF StoredIsCurrent, StoredCurrentIn
<1>t. gate \in Gate /\ now \in Nat
  BY Zenon DEF GateTypeOK
<1>s. StoredCurrentIn(gate, a)
  BY Zenon DEF StoredIsCurrent, StoredCurrentIn
<1>1. ASSUME NEW c \in Connection, AcceptControlStep(c) PROVE StoredCurrentIn(gate, a)'
  <2>1. StoredCurrentIn(AcceptAuthoritativeControl(gate, c).gate, a)
    BY <1>t, <1>s, AcceptStored, Zenon
  <2> QED BY <1>1, <2>1, Zenon DEF AcceptControlStep, StoredCurrentIn
<1>2. ASSUME NEW c \in Connection, DisconnectStep(c) PROVE StoredCurrentIn(gate, a)'
  BY <1>t, <1>s, <1>2, Zenon DEF DisconnectStep, DisconnectControl, StoredCurrentIn, Gate
<1>3. ASSUME NEW c \in Connection, NEW auth \in Authorization, InstallStep(c, auth)
      PROVE  StoredCurrentIn(gate, a)'
  <2>1. StoredCurrentIn(Install(gate, c, auth, now).gate, a)
    BY <1>t, <1>s, InstallStored, Zenon
  <2> QED BY <1>3, <2>1, Zenon DEF InstallStep, StoredCurrentIn
<1>4. ASSUME NEW f \in Fence, AuthorizeStep(f) PROVE StoredCurrentIn(gate, a)'
  <2>1. StoredCurrentIn(AuthorizeSync(gate, f, now).gate, a)
    BY <1>t, <1>s, AuthorizeStored, Zenon
  <2> QED BY <1>4, <2>1, Zenon DEF AuthorizeStep, StoredCurrentIn
<1>5. ASSUME NEW b \in AssignmentIds, RevokeStep(b) PROVE StoredCurrentIn(gate, a)'
  <2>1. StoredCurrentIn(Revoke(gate, {b}), a)
    BY <1>t, <1>s, RevokeStored, Zenon
  <2> QED BY <1>5, <2>1, Zenon DEF RevokeStep, StoredCurrentIn
<1>6. CASE GateTick \/ ClockRegresses \/ UNCHANGED gateVars
  BY <1>s, <1>6, Zenon DEF GateTick, ClockRegresses, gateVars, StoredCurrentIn
<1> QED BY <1>1, <1>2, <1>3, <1>4, <1>5, <1>6, Zenon DEF GateNext

\* THEOREM: whatever is stored belongs to the present discovery epoch, session
\* and connection, including after a connection that raised the epoch and was
\* then refused for its session.
THEOREM StoredAlwaysCurrent == GateSpec => []StoredIsCurrent
<1>1. GateInit => StoredIsCurrent
  BY DEF GateInit, NewGate, Cleared, StoredIsCurrent
<1> QED BY <1>1, StoredStep, GateTypeCorrect, PTL DEF GateSpec

-----------------------------------------------------------------------------
(* The bound on tracked identities.                                        *)

\* The tracked identities are a finite set.
LEMMA TrackedFinite == ASSUME NEW g PROVE IsFiniteSet(Tracked(g))
  BY AssignmentIdsFinite, FS_Subset, Zenon DEF Tracked

\* Tracking no more identities than before keeps the bound.
LEMMA FewerTracked ==
  ASSUME NEW g, NEW h, Tracked(h) \subseteq Tracked(g),
         Cardinality(Tracked(g)) <= MaxAuthorizations
  PROVE  Cardinality(Tracked(h)) <= MaxAuthorizations
<1>1. /\ Cardinality(Tracked(h)) \in Nat /\ Cardinality(Tracked(g)) \in Nat
      /\ Cardinality(Tracked(h)) <= Cardinality(Tracked(g))
  BY TrackedFinite, FS_Subset, FS_CardinalityType, Zenon
<1> QED BY <1>1, LimitAssumption

\* Install tracks one more identity only below the bound.
LEMMA InstallTracked ==
  ASSUME NEW g \in Gate, NEW c \in Connection, NEW auth \in Authorization, NEW t \in Nat,
         Cardinality(Tracked(g)) <= MaxAuthorizations
  PROVE  Cardinality(Tracked(Install(g, c, auth, t).gate)) <= MaxAuthorizations
<1> DEFINE r == ReadClock(g, t)
           identity == auth.fence.assignment
           record == [auth |-> auth, connection |-> c, receivedAt |-> t]
           h == [r EXCEPT !.assignments[identity.id] = identity,
                          !.authorizations[identity.id] = record]
<1>1. r \in Gate /\ Tracked(r) = Tracked(g)
  BY ReadClockType, ReadClockStored, Zenon DEF Tracked
<1>2. identity.id \in AssignmentIds
  BY Zenon DEF Authorization, Fence, Identity
<1>3. Tracked(h) \subseteq Tracked(g) \cup {identity.id}
  <2>1. h.assignments = [r.assignments EXCEPT ![identity.id] = identity]
    <3> HIDE DEF r, record, identity
    <3> QED BY <1>1, Zenon DEF Gate
  <2>2. r.assignments \in [AssignmentIds -> Identity \cup {None}]
    BY <1>1, Zenon DEF Gate
  <2> HIDE DEF h, r, identity
  <2> QED BY <1>1, <1>2, <2>1, <2>2, Zenon DEF Tracked
<1>4. ASSUME HasCapacity(r, identity.id)
      PROVE  Cardinality(Tracked(h)) <= MaxAuthorizations
  <2> HIDE DEF h, r, identity
  <2>1. CASE identity.id \in Tracked(g)
    <3>1. Tracked(h) \subseteq Tracked(g)
      BY <1>3, <2>1, Zenon
    <3> QED BY <3>1, FewerTracked, Zenon
  <2>2. CASE identity.id \notin Tracked(g)
    <3>1. Cardinality(Tracked(g)) < MaxAuthorizations
      BY <1>1, <1>2, <1>4, <2>2, Zenon DEF HasCapacity, Tracked
    <3>2. /\ IsFiniteSet(Tracked(g) \cup {identity.id})
          /\ Cardinality(Tracked(g) \cup {identity.id}) = Cardinality(Tracked(g)) + 1
      BY <2>2, TrackedFinite, FS_AddElement, Zenon
    <3>3. /\ Cardinality(Tracked(h)) \in Nat /\ Cardinality(Tracked(g)) \in Nat
          /\ Cardinality(Tracked(h)) <= Cardinality(Tracked(g) \cup {identity.id})
      BY <1>3, <3>2, TrackedFinite, FS_Subset, FS_CardinalityType, Zenon
    <3> QED BY <3>1, <3>2, <3>3, LimitAssumption
  <2> QED BY <2>1, <2>2, Zenon
<1>5. Cardinality(Tracked(r)) <= MaxAuthorizations
  BY <1>1, Zenon
<1> HIDE DEF h, r
<1>6. Install(g, c, auth, t).gate \in {g, r, h}
  BY Zenon DEF Install, Failed, Done, h, r
<1>7. Install(g, c, auth, t).gate = h => HasCapacity(r, identity.id) \/ h \in {g, r}
  BY Zenon DEF Install, Failed, Done, h, r
<1> QED BY <1>4, <1>5, <1>6, <1>7, Zenon

\* Every step keeps the number of tracked identities within the bound.
LEMMA TrackedStep == GateTypeOK /\ TrackedWithinLimit /\ [GateNext]_gateVars => TrackedWithinLimit'
<1> SUFFICES ASSUME GateTypeOK, TrackedWithinLimit, [GateNext]_gateVars PROVE TrackedWithinLimit'
  BY Zenon
<1>t. /\ gate \in Gate /\ now \in Nat
      /\ Cardinality(Tracked(gate)) <= MaxAuthorizations
  BY Zenon DEF GateTypeOK, TrackedWithinLimit
<1>w. ASSUME Tracked(gate') \subseteq Tracked(gate) PROVE TrackedWithinLimit'
  <2>1. Cardinality(Tracked(gate')) <= MaxAuthorizations
    BY <1>t, <1>w, FewerTracked, Zenon
  <2> QED BY <2>1, Zenon DEF TrackedWithinLimit, Tracked
<1>1. ASSUME NEW c \in Connection, AcceptControlStep(c) PROVE TrackedWithinLimit'
  <2>1. \A a \in AssignmentIds : gate'.assignments[a] \in {None, gate.assignments[a]}
    BY <1>t, <1>1, Zenon
       DEF AcceptControlStep, AcceptAuthoritativeControl, RaiseEpoch, OpenSession, Cleared,
           Failed, Done, Gate
  <2> QED BY <1>w, <2>1, Zenon DEF Tracked
<1>2. ASSUME NEW c \in Connection, DisconnectStep(c) PROVE TrackedWithinLimit'
  BY <1>t, <1>w, <1>2, Zenon DEF DisconnectStep, DisconnectControl, Tracked, Gate
<1>3. ASSUME NEW c \in Connection, NEW auth \in Authorization, InstallStep(c, auth)
      PROVE  TrackedWithinLimit'
  <2>1. Cardinality(Tracked(Install(gate, c, auth, now).gate)) <= MaxAuthorizations
    BY <1>t, InstallTracked, Zenon
  <2> QED BY <1>3, <2>1, Zenon DEF InstallStep, TrackedWithinLimit, Tracked
<1>4. ASSUME NEW f \in Fence, AuthorizeStep(f) PROVE TrackedWithinLimit'
  <2>1. gate'.assignments = gate.assignments
    BY <1>t, <1>4, Zenon DEF AuthorizeStep, AuthorizeSync, ReadClock, Failed, Done, Gate
  <2> QED BY <1>w, <2>1, Zenon DEF Tracked
<1>5. ASSUME NEW a \in AssignmentIds, RevokeStep(a) PROVE TrackedWithinLimit'
  <2>1. \A b \in AssignmentIds : gate'.assignments[b] \in {None, gate.assignments[b]}
    BY <1>t, <1>5, Zenon DEF RevokeStep, Revoke, Gate
  <2> QED BY <1>w, <2>1, Zenon DEF Tracked
<1>6. CASE GateTick \/ ClockRegresses \/ UNCHANGED gateVars
  BY <1>w, <1>6, Zenon DEF GateTick, ClockRegresses, gateVars
<1> QED BY <1>1, <1>2, <1>3, <1>4, <1>5, <1>6, Zenon DEF GateNext

\* THEOREM: the gate never tracks more identities than maxAuthorizations.
THEOREM TrackedAlwaysWithinLimit == GateSpec => []TrackedWithinLimit
<1>1. GateInit => TrackedWithinLimit
  <2> SUFFICES ASSUME GateInit PROVE TrackedWithinLimit
    BY Zenon
  <2>1. Tracked(gate) = {}
    BY Zenon DEF GateInit, NewGate, Cleared, Tracked
  <2> QED BY <2>1, FS_EmptySet, LimitAssumption DEF TrackedWithinLimit
<1> QED BY <1>1, TrackedStep, GateTypeCorrect, PTL DEF GateSpec

-----------------------------------------------------------------------------
(* Authority moves forward.                                                *)

\* THEOREM: no step lowers an epoch, reopens a connection without a higher
\* session, or heals the clock.
THEOREM AuthorityAlwaysMovesForward == GateSpec => AuthorityMovesForward
<1> DEFINE Forward == /\ gate'.highest >= gate.highest
                      /\ gate'.session >= gate.session
                      /\ gate'.connected /\ ~gate.connected => gate'.session > gate.session
                      /\ gate'.clockHealthy => gate.clockHealthy
<1>1. GateTypeOK /\ [GateNext]_gateVars => [Forward]_gateVars
  <2> SUFFICES ASSUME GateTypeOK, GateNext PROVE Forward
    BY Zenon
  <2>t. gate \in Gate /\ gate.highest \in Nat /\ gate.session \in Nat
    <3>1. gate \in Gate
      BY Zenon DEF GateTypeOK
    <3>2. gate.highest \in DiscoveryEpochs \cup {0} /\ gate.session \in SessionEpochs \cup {0}
      BY <3>1, Zenon DEF Gate
    <3>3. DiscoveryEpochs \cup {0} \subseteq Nat /\ SessionEpochs \cup {0} \subseteq Nat
      BY EpochAssumption
    <3> QED BY <3>1, <3>2, <3>3, Zenon
  <2>1. ASSUME NEW c \in Connection, AcceptControlStep(c) PROVE Forward
    BY <2>t, <2>1, EpochAssumption
       DEF AcceptControlStep, AcceptAuthoritativeControl, RaiseEpoch, OpenSession,
           Failed, Done, Gate, Connection
  <2>2. ASSUME NEW c \in Connection, DisconnectStep(c) PROVE Forward
    BY <2>t, <2>2 DEF DisconnectStep, DisconnectControl, Gate
  <2>3. ASSUME NEW c \in Connection, NEW auth \in Authorization, InstallStep(c, auth)
        PROVE  Forward
    <3> DEFINE r == ReadClock(gate, now)
               identity == auth.fence.assignment
               record == [auth |-> auth, connection |-> c, receivedAt |-> now]
               h == [r EXCEPT !.assignments[identity.id] = identity,
                              !.authorizations[identity.id] = record]
    <3>1. /\ r \in Gate
          /\ r.highest = gate.highest /\ r.session = gate.session
          /\ r.connected = gate.connected /\ (r.clockHealthy => gate.clockHealthy)
      BY <2>t, ReadClockType, ReadClockStored, Zenon DEF ReadClock, Gate, GateTypeOK
    <3>2. /\ h.highest = r.highest /\ h.session = r.session
          /\ h.connected = r.connected /\ h.clockHealthy = r.clockHealthy
      <4> HIDE DEF r, record, identity
      <4> QED BY <3>1, Zenon DEF Gate
    <3>3. gate' \in {gate, r, h}
      BY <2>3, Zenon DEF InstallStep, Install, Failed, Done
    <3> HIDE DEF h, r
    <3> QED BY <2>t, <3>1, <3>2, <3>3
  <2>4. ASSUME NEW f \in Fence, AuthorizeStep(f) PROVE Forward
    BY <2>t, <2>4 DEF AuthorizeStep, AuthorizeSync, ReadClock, Failed, Done, Gate
  <2>5. ASSUME NEW a \in AssignmentIds, RevokeStep(a) PROVE Forward
    BY <2>t, <2>5 DEF RevokeStep, Revoke, Gate
  <2>6. CASE GateTick \/ ClockRegresses
    BY <2>t, <2>6 DEF GateTick, ClockRegresses
  <2> QED BY <2>1, <2>2, <2>3, <2>4, <2>5, <2>6, Zenon DEF GateNext
<1> QED BY <1>1, GateTypeCorrect, PTL DEF GateSpec, AuthorityMovesForward

-----------------------------------------------------------------------------
(* The gate implements ServingPermission when its clock never moves back,  *)
(* which is what the process clock of clock.go guarantees.                 *)

\* What AuthorizeSync accepts, without the intermediate gate of ReadClock.
Accepts(g, f, t) ==
  /\ MatchingRecord(g, f)
  /\ g.clockHealthy
  /\ t >= g.lastElapsed
  /\ ValidRecord(g, g.authorizations[f.assignment.id], t)

\* AuthorizeSync accepts exactly then.
LEMMA AuthorizeAccepts ==
  ASSUME NEW g \in Gate, NEW f \in Fence, NEW t \in Nat
  PROVE  AuthorizeSync(g, f, t).ok <=> Accepts(g, f, t)
<1> DEFINE r == ReadClock(g, t)
<1>1. r.clockHealthy <=> g.clockHealthy /\ t >= g.lastElapsed
  BY Zenon DEF ReadClock, Gate
<1>2. ValidRecord(r, r.authorizations[f.assignment.id], t)
        <=> ValidRecord(g, g.authorizations[f.assignment.id], t)
  BY ReadClockStored DEF ValidRecord, CurrentControl
<1> HIDE DEF r
<1>3. AuthorizeSync(g, f, t).ok <=> /\ MatchingRecord(g, f) /\ r.clockHealthy
                                    /\ ValidRecord(r, r.authorizations[f.assignment.id], t)
  BY Zenon DEF AuthorizeSync, Failed, Done, r
<1> QED BY <1>1, <1>2, <1>3, Zenon DEF Accepts

\* Nothing was read or received later than now.
ClockBehind ==
  /\ gate.lastElapsed <= now
  /\ \A a \in AssignmentIds : gate.authorizations[a] # None =>
       gate.authorizations[a].receivedAt <= now

\* Without regressions the clock stays ahead of everything recorded.
LEMMA ClockBehindStep ==
  ~ClockRegresses /\ GateTypeOK /\ ClockBehind /\ [GateNext]_gateVars => ClockBehind'
<1> SUFFICES ASSUME ~ClockRegresses, GateTypeOK, ClockBehind, [GateNext]_gateVars PROVE ClockBehind'
  BY Zenon
<1>t. gate \in Gate /\ now \in Nat /\ gate.lastElapsed \in Nat
  <2>1. gate \in Gate /\ now \in Nat
    BY Zenon DEF GateTypeOK
  <2> QED BY <2>1, Zenon DEF Gate
<1>k. ASSUME now' = now, gate'.lastElapsed \in {gate.lastElapsed, now},
             \A a \in AssignmentIds :
               gate'.authorizations[a] \in {None, gate.authorizations[a]}
      PROVE  ClockBehind'
  <2>1. gate'.lastElapsed <= now'
    BY <1>t, <1>k DEF ClockBehind
  <2>2. ASSUME NEW a \in AssignmentIds, gate'.authorizations[a] # None
        PROVE  gate'.authorizations[a].receivedAt <= now'
    <3>1. gate'.authorizations[a] = gate.authorizations[a]
      BY <1>k, <2>2, Zenon
    <3> QED BY <1>k, <2>2, <3>1, Zenon DEF ClockBehind
  <2> QED BY <2>1, <2>2, Zenon DEF ClockBehind
<1>1. ASSUME NEW c \in Connection, AcceptControlStep(c) PROVE ClockBehind'
  <2>1. /\ gate'.lastElapsed = gate.lastElapsed /\ now' = now
        /\ \A a \in AssignmentIds : gate'.authorizations[a] \in {None, gate.authorizations[a]}
    BY <1>t, <1>1, Zenon
       DEF AcceptControlStep, AcceptAuthoritativeControl, RaiseEpoch, OpenSession, Cleared,
           Failed, Done, Gate
  <2> QED BY <1>k, <2>1, Zenon
<1>2. ASSUME NEW c \in Connection, DisconnectStep(c) PROVE ClockBehind'
  <2>1. /\ gate'.lastElapsed = gate.lastElapsed /\ now' = now
        /\ gate'.authorizations = gate.authorizations
    BY <1>t, <1>2, Zenon DEF DisconnectStep, DisconnectControl, Gate
  <2> QED BY <1>k, <2>1, Zenon
<1>3. ASSUME NEW c \in Connection, NEW auth \in Authorization, InstallStep(c, auth)
      PROVE  ClockBehind'
  <2> DEFINE r == ReadClock(gate, now)
             identity == auth.fence.assignment
             record == [auth |-> auth, connection |-> c, receivedAt |-> now]
             h == [r EXCEPT !.assignments[identity.id] = identity,
                            !.authorizations[identity.id] = record]
  <2>1. r \in Gate /\ r.lastElapsed \in {gate.lastElapsed, now}
          /\ r.authorizations = gate.authorizations
    BY <1>t, ReadClockType, ReadClockStored, Zenon DEF ReadClock, Gate
  <2>2. /\ h.lastElapsed = r.lastElapsed
        /\ \A a \in AssignmentIds : h.authorizations[a] \in {record, r.authorizations[a]}
    <3> HIDE DEF r, record, identity
    <3> QED BY <2>1, Zenon DEF Gate
  <2>3. record.receivedAt = now
    BY Zenon
  <2>4. gate' \in {gate, r, h} /\ now' = now
    BY <1>3, Zenon DEF InstallStep, Install, Failed, Done
  <2> HIDE DEF h, r, record
  <2> QED BY <1>t, <2>1, <2>2, <2>3, <2>4 DEF ClockBehind
<1>4. ASSUME NEW f \in Fence, AuthorizeStep(f) PROVE ClockBehind'
  <2> DEFINE r == ReadClock(gate, now)
             h == [r EXCEPT !.authorizations[f.assignment.id] = None]
  <2>1. r \in Gate /\ r.lastElapsed \in {gate.lastElapsed, now}
          /\ r.authorizations = gate.authorizations
    BY <1>t, ReadClockType, ReadClockStored, Zenon DEF ReadClock, Gate
  <2>2. /\ h.lastElapsed = r.lastElapsed
        /\ \A a \in AssignmentIds : h.authorizations[a] \in {None, r.authorizations[a]}
    <3> HIDE DEF r
    <3> QED BY <2>1, Zenon DEF Gate
  <2>3. gate' \in {gate, r, h} /\ now' = now
    BY <1>4, Zenon DEF AuthorizeStep, AuthorizeSync, Failed, Done
  <2> HIDE DEF h, r
  <2> QED BY <1>k, <2>1, <2>2, <2>3, Zenon
<1>5. ASSUME NEW b \in AssignmentIds, RevokeStep(b) PROVE ClockBehind'
  <2>1. /\ gate'.lastElapsed = gate.lastElapsed /\ now' = now
        /\ \A a \in AssignmentIds : gate'.authorizations[a] \in {None, gate.authorizations[a]}
    BY <1>t, <1>5, Zenon DEF RevokeStep, Revoke, Gate
  <2> QED BY <1>k, <2>1, Zenon
<1>6. CASE GateTick
  <2>1. now' = now + 1 /\ gate' = gate
    BY <1>6, Zenon DEF GateTick
  <2>2. \A a \in AssignmentIds : gate.authorizations[a] # None =>
          gate.authorizations[a].receivedAt \in Nat
    BY <1>t, Zenon DEF Gate, AuthorizationRecord
  <2> QED BY <1>t, <2>1, <2>2 DEF ClockBehind
<1>7. CASE ClockRegresses
  BY <1>7, Zenon
<1>8. CASE UNCHANGED gateVars
  BY <1>8, Zenon DEF gateVars, ClockBehind
<1> QED BY <1>1, <1>2, <1>3, <1>4, <1>5, <1>6, <1>7, <1>8, Zenon DEF GateNext

\* An acceptable fence belongs to the record stored under its Assignment.
LEMMA AcceptsMeans ==
  ASSUME NEW g \in Gate, NEW f \in Fence, NEW t \in Nat, Accepts(g, f, t)
  PROVE  /\ g.authorizations[f.assignment.id] # None
         /\ g.authorizations[f.assignment.id].auth.fence = f
         /\ f.assignment.mode = "normal"
         /\ f.assignment.id \in AssignmentIds
  BY Zenon DEF Accepts, MatchingRecord, Fence, Identity

\* With the records, the epochs and the connection unchanged and the clock
\* read at the same instant, the same fences are acceptable, or none.
LEMMA SameRecordsAccept ==
  ASSUME NEW g \in Gate, NEW h \in Gate, NEW t \in Nat, NEW f \in Fence,
         h.highest = g.highest, h.connection = g.connection,
         h.connected => g.connected,
         h.clockHealthy => g.clockHealthy,
         h.lastElapsed \in {g.lastElapsed, t},
         h.clockHealthy => t >= g.lastElapsed,
         h.authorizations[f.assignment.id] \in {None, g.authorizations[f.assignment.id]},
         Accepts(h, f, t)
  PROVE  Accepts(g, f, t)
  BY Zenon DEF Accepts, MatchingRecord, ValidRecord, CurrentControl

\* Time only takes permissions away.
LEMMA TickAccepts ==
  ASSUME NEW f \in Fence, GateTypeOK, ClockBehind, Accepts(gate, f, now + 1)
  PROVE  Accepts(gate, f, now)
<1>t. gate \in Gate /\ now \in Nat
  BY Zenon DEF GateTypeOK
<1> DEFINE record == gate.authorizations[f.assignment.id]
<1>1. record # None /\ f.assignment.id \in AssignmentIds
  BY <1>t, AcceptsMeans
<1>2. record \in AuthorizationRecord
  BY <1>t, <1>1, Zenon DEF Gate
<1>3. record.receivedAt \in Nat /\ record.receivedAt <= now /\ gate.lastElapsed <= now
        /\ record.auth.ttl \in Nat
  BY <1>1, <1>2 DEF ClockBehind, AuthorizationRecord, Authorization
<1> HIDE DEF record
<1>4. ValidRecord(gate, record, now)
  <2>1. ValidRecord(gate, record, now + 1)
    BY Zenon DEF Accepts, record
  <2> QED BY <1>t, <1>3, <2>1 DEF ValidRecord
<1> QED BY <1>3, <1>4, Zenon DEF Accepts, record

\* A successful Install makes its own fence acceptable, if the Assignment
\* takes calls, and leaves the fences of other Assignments as they were.
LEMMA InstallAccepts ==
  ASSUME NEW g \in Gate, NEW c \in Connection, NEW auth \in Authorization, NEW t \in Nat,
         Install(g, c, auth, t).ok, NEW x \in Fence
  PROVE  Accepts(Install(g, c, auth, t).gate, x, t) <=>
           \/ x.assignment.id # auth.fence.assignment.id /\ Accepts(g, x, t)
           \/ x = auth.fence /\ x.assignment.mode = "normal"
<1> DEFINE r == ReadClock(g, t)
           identity == auth.fence.assignment
           record == [auth |-> auth, connection |-> c, receivedAt |-> t]
           h == [r EXCEPT !.assignments[identity.id] = identity,
                          !.authorizations[identity.id] = record]
<1>1. /\ Install(g, c, auth, t).gate = h
      /\ CheckAssignment(g, c, auth.fence) /\ r.clockHealthy
  BY Zenon DEF Install, Failed, Done
<1>2. /\ r \in Gate /\ r.highest = g.highest /\ r.connection = g.connection
      /\ r.connected = g.connected /\ r.authorizations = g.authorizations
      /\ r.lastElapsed = t /\ g.clockHealthy /\ t >= g.lastElapsed
  BY <1>1, ReadClockType, ReadClockStored, Zenon DEF ReadClock, Gate
<1>3. record.auth = auth /\ record.connection = c /\ record.receivedAt = t /\ record # None
  BY Zenon DEF None
<1>4. identity.id \in AssignmentIds /\ x.assignment.id \in AssignmentIds
        /\ auth.fence \in Fence /\ auth.ttl \in Nat
  BY DEF Authorization, Fence, Identity
<1>5. /\ h.highest = g.highest /\ h.connection = g.connection /\ h.connected = g.connected
      /\ h.clockHealthy /\ h.lastElapsed = t
      /\ h.authorizations = [g.authorizations EXCEPT ![identity.id] = record]
      /\ g.authorizations = [a \in AssignmentIds |-> g.authorizations[a]]
  <2> HIDE DEF r, record, identity
  <2> QED BY <1>1, <1>2 DEF Gate
<1>6. auth.fence.disc = g.highest /\ CurrentControl(h, c)
  <2> HIDE DEF h
  <2> QED BY <1>1, <1>5, Zenon DEF CheckAssignment, CurrentControl
<1> HIDE DEF h, r, record
<1>7. CASE x.assignment.id = identity.id
  <2>1. h.authorizations[x.assignment.id] = record
    BY <1>4, <1>5, <1>7, Zenon
  <2>2. ValidRecord(h, record, t)
    BY <1>3, <1>4, <1>5, <1>6 DEF ValidRecord, LiveOnly
  <2>3. x.disc = g.highest => x.disc >= g.highest
    <3>1. x.disc \in Nat
      BY EpochAssumption, Zenon DEF Fence
    <3> QED BY <3>1
  <2>4. MatchingRecord(h, x) <=> x = auth.fence /\ x.assignment.mode = "normal"
    BY <1>3, <1>5, <1>6, <2>1, <2>3, Zenon DEF MatchingRecord
  <2>5. t >= h.lastElapsed
    BY <1>5
  <2>6. Accepts(h, x, t) <=> MatchingRecord(h, x)
    BY <1>5, <2>1, <2>2, <2>5, Zenon DEF Accepts
  <2> QED BY <1>1, <1>7, <2>4, <2>6, Zenon
<1>8. CASE x.assignment.id # identity.id
  <2>1. h.authorizations[x.assignment.id] = g.authorizations[x.assignment.id]
    BY <1>4, <1>5, <1>8, Zenon
  <2>2. MatchingRecord(h, x) <=> MatchingRecord(g, x)
    BY <1>5, <2>1, Zenon DEF MatchingRecord
  <2>3. ValidRecord(h, g.authorizations[x.assignment.id], t)
          <=> ValidRecord(g, g.authorizations[x.assignment.id], t)
    BY <1>5, Zenon DEF ValidRecord, CurrentControl
  <2>4. t >= h.lastElapsed
    BY <1>5
  <2>5. Accepts(h, x, t) <=> Accepts(g, x, t)
    BY <1>2, <1>5, <2>1, <2>2, <2>3, <2>4, Zenon DEF Accepts
  <2> QED BY <1>1, <1>8, <2>5, Zenon
<1> QED BY <1>7, <1>8, Zenon

\* The refinement mapping of granted, in terms of Accepts.
LEMMA AcceptableIs ==
  GateTypeOK => Acceptable = {f \in Fence : Accepts(gate, f, now)}
  BY AuthorizeAccepts, Zenon DEF Acceptable, GateTypeOK

\* A gate without records accepts nothing.
LEMMA ClearedAccepts ==
  ASSUME NEW g \in Gate, NEW t \in Nat, NEW f \in Fence, g.authorizations = Cleared
  PROVE  ~Accepts(g, f, t)
  BY Zenon DEF Accepts, MatchingRecord, Cleared, Fence, Identity

\* The fences that are acceptable after a step.
LEMMA AcceptableNext ==
  GateTypeOK' => Acceptable' = {f \in Fence : Accepts(gate', f, now')}
<1> SUFFICES ASSUME GateTypeOK' PROVE Acceptable' = {f \in Fence : Accepts(gate', f, now')}
  BY Zenon
<1>1. gate' \in Gate /\ now' \in Nat
  BY Zenon DEF GateTypeOK
<1>2. Acceptable' = {f \in Fence : AuthorizeSync(gate', f, now').ok}
  BY Zenon DEF Acceptable
<1>3. \A f \in Fence : AuthorizeSync(gate', f, now').ok <=> Accepts(gate', f, now')
  BY <1>1, AuthorizeAccepts, Zenon
<1> QED BY <1>2, <1>3, Zenon

\* A step after which the gate knows no more than before withdraws permissions.
LEMMA FewerPermissions ==
  ASSUME GateTypeOK, GateTypeOK', ClockBehind, now' = now, reply' = Silent,
         gate'.highest = gate.highest, gate'.session = gate.session,
         gate'.connection = gate.connection, gate'.connected => gate.connected,
         gate'.clockHealthy => gate.clockHealthy,
         gate'.lastElapsed \in {gate.lastElapsed, now},
         \A a \in AssignmentIds : gate'.authorizations[a] \in {None, gate.authorizations[a]}
  PROVE  Permission!Withdraw /\ ClockBehind'
<1>t. gate \in Gate /\ gate' \in Gate /\ now \in Nat /\ gate.lastElapsed \in Nat
  <2>1. gate \in Gate /\ gate' \in Gate /\ now \in Nat
    BY Zenon DEF GateTypeOK
  <2> QED BY <2>1, Zenon DEF Gate
<1>1. now >= gate.lastElapsed /\ \A x \in Fence : x.assignment.id \in AssignmentIds
  BY <1>t, Zenon DEF ClockBehind, Fence, Identity
<1>2. \A f \in Fence : Accepts(gate', f, now) => Accepts(gate, f, now)
  BY <1>t, <1>1, SameRecordsAccept, Zenon
<1>3. Acceptable' \subseteq Acceptable
  BY <1>2, AcceptableIs, AcceptableNext, Zenon
<1>4. ClockBehind'
  <2>1. gate'.lastElapsed <= now'
    BY <1>t, <1>1
  <2>2. ASSUME NEW a \in AssignmentIds, gate'.authorizations[a] # None
        PROVE  gate'.authorizations[a].receivedAt <= now'
    <3>1. gate'.authorizations[a] = gate.authorizations[a]
      BY <2>2, Zenon
    <3> QED BY <2>2, <3>1, Zenon DEF ClockBehind
  <2> QED BY <2>1, <2>2, Zenon DEF ClockBehind
<1> QED BY <1>3, <1>4, Zenon DEF Permission!Withdraw, Permission!Silent, Silent

\* A step to a higher epoch or session that clears every record is a new authority.
LEMMA HigherAuthority ==
  ASSUME GateTypeOK, GateTypeOK', ClockBehind, now' = now, reply' = Silent,
         gate'.authorizations = Cleared, gate'.lastElapsed = gate.lastElapsed,
         gate'.highest >= gate.highest, gate'.session >= gate.session,
         gate'.highest > gate.highest \/ gate'.session > gate.session
  PROVE  Permission!NewAuthority /\ ClockBehind'
<1>t. gate \in Gate /\ gate' \in Gate /\ now \in Nat
  BY Zenon DEF GateTypeOK
<1>n. gate.highest \in Nat /\ gate'.highest \in Nat /\ gate.session \in Nat /\ gate'.session \in Nat
  <2>1. /\ gate.highest \in DiscoveryEpochs \cup {0} /\ gate'.highest \in DiscoveryEpochs \cup {0}
        /\ gate.session \in SessionEpochs \cup {0} /\ gate'.session \in SessionEpochs \cup {0}
    BY <1>t, Zenon DEF Gate
  <2>2. DiscoveryEpochs \cup {0} \subseteq Nat /\ SessionEpochs \cup {0} \subseteq Nat
    BY EpochAssumption
  <2> QED BY <2>1, <2>2, Zenon
<1>1. Acceptable' = {}
  <2>1. \A f \in Fence : ~Accepts(gate', f, now)
    BY <1>t, ClearedAccepts, Zenon
  <2> QED BY <2>1, AcceptableNext, Zenon
<1>2. <<gate'.highest, gate'.session>> # <<gate.highest, gate.session>>
  BY <1>n
<1>3. ClockBehind'
  BY Zenon DEF ClockBehind, Cleared
<1> QED BY <1>n, <1>1, <1>2, <1>3, Zenon DEF Permission!NewAuthority, Permission!Silent, Silent

\* AcceptAuthoritativeControl changes nothing, or raises the epoch or the session
\* and clears every record.
LEMMA AcceptAuthority ==
  ASSUME NEW g \in Gate, NEW c \in Connection
  PROVE  LET h == AcceptAuthoritativeControl(g, c).gate
         IN  \/ h = g
             \/ /\ h.authorizations = Cleared /\ h.lastElapsed = g.lastElapsed
                /\ h.highest >= g.highest /\ h.session >= g.session
                /\ h.highest > g.highest \/ h.session > g.session
<1> DEFINE r == RaiseEpoch(g, c)
           h == AcceptAuthoritativeControl(g, c).gate
<1>n. g.highest \in Nat /\ g.session \in Nat /\ c.disc \in Nat /\ c.session \in Nat
  <2>1. g.highest \in DiscoveryEpochs \cup {0} /\ g.session \in SessionEpochs \cup {0}
    BY Zenon DEF Gate
  <2>2. DiscoveryEpochs \cup {0} \subseteq Nat /\ SessionEpochs \cup {0} \subseteq Nat
    BY EpochAssumption
  <2>3. c.disc \in DiscoveryEpochs /\ c.session \in SessionEpochs
    BY Zenon DEF Connection
  <2> QED BY <2>1, <2>2, <2>3, Zenon
<1>1. CASE c.disc > g.highest
  <2>1. /\ r.authorizations = Cleared /\ r.highest = c.disc /\ r.session = g.session
        /\ ~r.connected /\ r \in Gate /\ r.lastElapsed = g.lastElapsed
    BY <1>1, Zenon DEF RaiseEpoch, Gate, Cleared, Connection
  <2> HIDE DEF r
  <2>2. /\ OpenSession(r, c).authorizations = Cleared
        /\ OpenSession(r, c).highest = r.highest /\ OpenSession(r, c).session = c.session
        /\ OpenSession(r, c).lastElapsed = r.lastElapsed
    BY <2>1, Zenon DEF OpenSession, Gate
  <2>3. h = r \/ (h = OpenSession(r, c) /\ c.session > g.session)
    BY <1>n, <1>1, <2>1 DEF AcceptAuthoritativeControl, Failed, Done, r
  <2> QED BY <1>n, <1>1, <2>1, <2>2, <2>3
<1>2. CASE ~(c.disc > g.highest)
  <2>1. r = g
    BY <1>2, Zenon DEF RaiseEpoch
  <2>2. /\ OpenSession(g, c).authorizations = Cleared
        /\ OpenSession(g, c).highest = g.highest /\ OpenSession(g, c).session = c.session
        /\ OpenSession(g, c).lastElapsed = g.lastElapsed
    BY Zenon DEF OpenSession, Gate
  <2> HIDE DEF r
  <2>3. h = g \/ (h = OpenSession(g, c) /\ c.session > g.session)
    BY <2>1, Zenon DEF AcceptAuthoritativeControl, Failed, Done, r
  <2> QED BY <1>n, <2>2, <2>3
<1> QED BY <1>1, <1>2, Zenon

\* Every step of the gate is a step of ServingPermission or changes nothing
\* that ServingPermission sees.
LEMMA PermissionStep ==
  ~ClockRegresses /\ GateTypeOK /\ GateTypeOK' /\ ClockBehind /\ ClockBehind' /\ [GateNext]_gateVars
    => [Permission!PermissionNext]_(Permission!pvars)
<1> SUFFICES ASSUME ~ClockRegresses, GateTypeOK, GateTypeOK', ClockBehind, ClockBehind', [GateNext]_gateVars
             PROVE  [Permission!PermissionNext]_(Permission!pvars)
  BY Zenon
<1>t. gate \in Gate /\ gate' \in Gate /\ now \in Nat /\ now' \in Nat
  BY Zenon DEF GateTypeOK
<1>g. /\ Acceptable = {f \in Fence : Accepts(gate, f, now)}
      /\ Acceptable' = {f \in Fence : Accepts(gate', f, now')}
  BY AcceptableIs, AcceptableNext, Zenon
<1>w. ASSUME gate'.highest = gate.highest, gate'.session = gate.session, reply' = Silent,
             \A f \in Fence : Accepts(gate', f, now') => Accepts(gate, f, now)
      PROVE  Permission!Withdraw
  <2>1. Acceptable' \subseteq Acceptable
    BY <1>g, <1>w, Zenon
  <2> QED BY <1>w, <2>1, Zenon DEF Permission!Withdraw, Permission!Silent, Silent
<1>1. ASSUME NEW c \in Connection, AcceptControlStep(c)
      PROVE  Permission!Withdraw \/ Permission!NewAuthority
  <2>1. reply' = Silent /\ now' = now
    BY <1>1, Zenon DEF AcceptControlStep
  <2>2. PICK g \in Gate : g = gate
    BY <1>t, Zenon
  <2>3. gate' = AcceptAuthoritativeControl(g, c).gate
    BY <1>1, <2>2, Zenon DEF AcceptControlStep
  <2>4. \/ gate' = g
        \/ /\ gate'.authorizations = Cleared /\ gate'.lastElapsed = g.lastElapsed
           /\ gate'.highest >= g.highest /\ gate'.session >= g.session
           /\ gate'.highest > g.highest \/ gate'.session > g.session
    BY <2>3, AcceptAuthority, Zenon
  <2> QED BY <2>1, <2>2, <2>4, FewerPermissions, HigherAuthority, Zenon
<1>2. ASSUME NEW c \in Connection, DisconnectStep(c) PROVE Permission!Withdraw
  <2>1. /\ gate'.highest = gate.highest /\ gate'.session = gate.session
        /\ gate'.connection = gate.connection /\ (gate'.connected => gate.connected)
        /\ gate'.clockHealthy = gate.clockHealthy /\ gate'.lastElapsed = gate.lastElapsed
        /\ gate'.authorizations = gate.authorizations
        /\ reply' = Silent /\ now' = now
    BY <1>t, <1>2, Zenon DEF DisconnectStep, DisconnectControl, Gate
  <2> QED BY <2>1, FewerPermissions, Zenon
<1>3. ASSUME NEW c \in Connection, NEW auth \in Authorization, InstallStep(c, auth)
      PROVE  Permission!Grant \/ Permission!Withdraw
  <2> DEFINE r == Install(gate, c, auth, now)
  <2>1. gate' = r.gate /\ now' = now /\ Answer(r.ok, "installed", auth.fence)
    BY <1>3, Zenon DEF InstallStep
  <2>2. CASE r.ok
    <3>1. \A x \in Fence : Accepts(gate', x, now') <=>
             \/ x.assignment.id # auth.fence.assignment.id /\ Accepts(gate, x, now)
             \/ x = auth.fence /\ x.assignment.mode = "normal"
      BY <1>t, <2>1, <2>2, InstallAccepts, Zenon
    <3>2. auth.fence \in Fence
      BY Zenon DEF Authorization
    <3>3. Acceptable' = {h \in Acceptable : h.assignment.id # auth.fence.assignment.id}
                          \cup {h \in {auth.fence} : h.assignment.mode = "normal"}
      BY <1>g, <3>1, <3>2, Zenon
    <3>4. CheckAssignment(gate, c, auth.fence)
      BY <2>2, Zenon DEF Install, Failed
    <3>5. auth.fence.disc = gate.highest /\ auth.fence.assignment.session = gate.session
      BY <3>4, Zenon DEF CheckAssignment, CurrentControl
    <3>6. gate'.highest = gate.highest /\ gate'.session = gate.session
      <4> DEFINE q == ReadClock(gate, now)
                 identity == auth.fence.assignment
                 record == [auth |-> auth, connection |-> c, receivedAt |-> now]
      <4>1. gate' = [q EXCEPT !.assignments[identity.id] = identity,
                              !.authorizations[identity.id] = record]
        BY <2>1, <2>2, Zenon DEF Install, Failed, Done
      <4>2. q \in Gate /\ q.highest = gate.highest /\ q.session = gate.session
        BY <1>t, ReadClockType, ReadClockStored, Zenon DEF ReadClock, Gate
      <4> HIDE DEF q, record, identity
      <4> QED BY <4>1, <4>2, Zenon DEF Gate
    <3>7. reply' = [op |-> "installed", fence |-> auth.fence]
      BY <2>1, <2>2, Zenon DEF Answer
    <3> QED BY <3>2, <3>3, <3>5, <3>6, <3>7, Zenon DEF Permission!Grant
  <2>3. CASE ~r.ok
    <3>1. reply' = Silent
      BY <2>1, <2>3, Zenon DEF Answer
    <3>2. gate' \in {gate, ReadClock(gate, now)}
      BY <2>1, <2>3, Zenon DEF Install, Failed, Done
    <3>3. /\ gate'.highest = gate.highest /\ gate'.session = gate.session
          /\ gate'.connection = gate.connection /\ gate'.connected = gate.connected
          /\ (gate'.clockHealthy => gate.clockHealthy)
          /\ gate'.lastElapsed \in {gate.lastElapsed, now}
          /\ gate'.authorizations = gate.authorizations
      BY <1>t, <3>2, Zenon DEF ReadClock, Gate
    <3>4. now >= gate.lastElapsed
      BY <1>t, Zenon DEF ClockBehind, Gate
    <3>5. \A f \in Fence : Accepts(gate', f, now) => Accepts(gate, f, now)
      BY <1>t, <3>3, <3>4, SameRecordsAccept, Zenon
    <3> QED BY <1>w, <2>1, <3>1, <3>3, <3>5, Zenon
  <2> QED BY <2>2, <2>3, Zenon
<1>4. ASSUME NEW f \in Fence, AuthorizeStep(f) PROVE Permission!Accept \/ Permission!Withdraw
  <2> DEFINE r == AuthorizeSync(gate, f, now)
             q == ReadClock(gate, now)
  <2>1. gate' = r.gate /\ now' = now /\ Answer(r.ok, "accepted", f)
    BY <1>4, Zenon DEF AuthorizeStep
  <2>2. /\ q \in Gate /\ q.highest = gate.highest /\ q.session = gate.session
        /\ q.connection = gate.connection /\ q.connected = gate.connected
        /\ (q.clockHealthy => gate.clockHealthy)
        /\ q.lastElapsed \in {gate.lastElapsed, now}
        /\ q.authorizations = gate.authorizations
    BY <1>t, ReadClockType, Zenon DEF ReadClock, Gate
  <2>3. now >= gate.lastElapsed
    BY <1>t, Zenon DEF ClockBehind, Gate
  <2>4. CASE r.ok
    <3>1. gate' = q
      BY <2>1, <2>4, Zenon DEF AuthorizeSync, Failed, Done
    <3>2. Accepts(gate, f, now)
      BY <1>t, <2>4, AuthorizeAccepts, Zenon
    <3>3. q.clockHealthy /\ q.lastElapsed = now
      BY <1>t, <2>3, <3>2, Zenon DEF Accepts, ReadClock, Gate
    <3> HIDE DEF q
    <3>4. \A x \in Fence : Accepts(q, x, now) => Accepts(gate, x, now)
      BY <1>t, <2>2, <2>3, SameRecordsAccept, Zenon
    <3>5. \A x \in Fence : Accepts(gate, x, now) => Accepts(q, x, now)
      BY <1>t, <2>2, <2>3, <3>3 DEF Accepts, MatchingRecord, ValidRecord, CurrentControl
    <3>6. Acceptable' = Acceptable /\ f \in Acceptable
      BY <1>g, <2>1, <3>1, <3>2, <3>4, <3>5, Zenon
    <3>7. reply' = [op |-> "accepted", fence |-> f]
      BY <2>1, <2>4, Zenon DEF Answer
    <3> QED BY <2>2, <3>1, <3>6, <3>7, Zenon DEF Permission!Accept
  <2>5. CASE ~r.ok
    <3> DEFINE h == [q EXCEPT !.authorizations[f.assignment.id] = None]
    <3>1. reply' = Silent
      BY <2>1, <2>5, Zenon DEF Answer
    <3>2. gate' \in {gate, q, h}
      BY <2>1, <2>5, Zenon DEF AuthorizeSync, Failed, Done
    <3> HIDE DEF q
    <3>3. /\ h.highest = q.highest /\ h.session = q.session
          /\ h.connection = q.connection /\ h.connected = q.connected
          /\ h.clockHealthy = q.clockHealthy /\ h.lastElapsed = q.lastElapsed
          /\ \A a \in AssignmentIds : h.authorizations[a] \in {None, q.authorizations[a]}
      BY <2>2, Zenon DEF Gate
    <3> HIDE DEF h
    <3>4. /\ gate'.highest = gate.highest /\ gate'.session = gate.session
          /\ gate'.connection = gate.connection /\ gate'.connected = gate.connected
          /\ (gate'.clockHealthy => gate.clockHealthy)
          /\ gate'.lastElapsed \in {gate.lastElapsed, now}
          /\ \A a \in AssignmentIds : gate'.authorizations[a] \in {None, gate.authorizations[a]}
      BY <2>2, <3>2, <3>3, Zenon
    <3>5. \A x \in Fence : x.assignment.id \in AssignmentIds
      BY Zenon DEF Fence, Identity
    <3>6. \A x \in Fence : Accepts(gate', x, now) => Accepts(gate, x, now)
      BY <1>t, <2>3, <3>4, <3>5, SameRecordsAccept, Zenon
    <3> QED BY <1>w, <2>1, <3>1, <3>4, <3>6, Zenon
  <2> QED BY <2>4, <2>5, Zenon
<1>5. ASSUME NEW b \in AssignmentIds, RevokeStep(b) PROVE Permission!Withdraw
  <2>1. /\ gate'.highest = gate.highest /\ gate'.session = gate.session
        /\ gate'.connection = gate.connection /\ gate'.connected = gate.connected
        /\ gate'.clockHealthy = gate.clockHealthy /\ gate'.lastElapsed = gate.lastElapsed
        /\ \A a \in AssignmentIds : gate'.authorizations[a] \in {None, gate.authorizations[a]}
        /\ reply' = Silent /\ now' = now
    BY <1>t, <1>5, Zenon DEF RevokeStep, Revoke, Gate
  <2> QED BY <2>1, FewerPermissions, Zenon
<1>6. CASE GateTick
  <2>1. gate' = gate /\ now' = now + 1 /\ reply' = Silent
    BY <1>6, Zenon DEF GateTick
  <2>2. \A f \in Fence : Accepts(gate', f, now') => Accepts(gate, f, now)
    BY <2>1, TickAccepts, Zenon
  <2>3. Permission!Withdraw
    BY <1>w, <2>1, <2>2, Zenon
  <2> QED BY <2>3, Zenon DEF Permission!PermissionNext
<1>7. CASE ClockRegresses
  BY <1>7, Zenon
<1>8. CASE UNCHANGED gateVars
  <2>1. Acceptable' = Acceptable
    BY <1>8, Zenon DEF gateVars, Acceptable
  <2> QED BY <1>8, <2>1, Zenon DEF gateVars, Permission!pvars
<1> QED BY <1>1, <1>2, <1>3, <1>4, <1>5, <1>6, <1>7, <1>8, Zenon DEF GateNext, Permission!PermissionNext

\* With a clock that never moves back, the gate implements ServingPermission:
\* whatever the sets of identities, epochs and connections and however long
\* the clock runs, a fence AuthorizeSync once refused is accepted again only
\* after a new Install, and every accepted fence was installed.
THEOREM GateImplementsPermission ==
  ASSUME ~ClockMayRegress
  PROVE  GateSpec => ImplementsPermission
<1>1. GateInit => Permission!PermissionInit /\ ClockBehind
  <2> SUFFICES ASSUME GateInit PROVE Permission!PermissionInit /\ ClockBehind
    BY Zenon
  <2>1. /\ gate.highest = 0 /\ gate.session = 0 /\ gate.authorizations = Cleared
        /\ gate.lastElapsed = 0 /\ now = 0 /\ reply = Silent
    BY Zenon DEF GateInit, NewGate
  <2>2. Acceptable = {}
    <3>1. gate \in Gate /\ now \in Nat
      BY TypeInit, Zenon DEF GateTypeOK
    <3> QED BY <2>1, <3>1, TypeInit, AcceptableIs, ClearedAccepts, Zenon
  <2> QED BY <2>1, <2>2
          DEF Permission!PermissionInit, Permission!Silent, Silent, ClockBehind, Cleared
<1>c. ~ClockRegresses
  BY Zenon DEF ClockRegresses
<1>2. GateTypeOK /\ ClockBehind /\ [GateNext]_gateVars => ClockBehind'
  BY <1>c, ClockBehindStep, Zenon
<1>3. GateTypeOK /\ GateTypeOK' /\ ClockBehind /\ ClockBehind' /\ [GateNext]_gateVars
        => [Permission!PermissionNext]_(Permission!pvars)
  BY <1>c, PermissionStep, Zenon
<1> QED BY <1>1, <1>2, <1>3, GateTypeCorrect, PTL
        DEF GateSpec, ImplementsPermission, Permission!PermissionSpec

=============================================================================
