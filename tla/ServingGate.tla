----------------------------- MODULE ServingGate -----------------------------
(***************************************************************************)
(* The gate as a state machine: its callers may call any exported method,  *)
(* in any order, with any well-formed argument, while the clock it reads   *)
(* moves on (and, for an injected clock, may move back).  Each method runs *)
(* under Gate.mu and is one step.                                          *)
(***************************************************************************)
EXTENDS ServingAuth

CONSTANTS MaxTime, ClockMayRegress

ASSUME TimeAssumption == MaxTime \in Nat /\ ClockMayRegress \in BOOLEAN

VARIABLES gate, now, reply
(* gate     - the fields protected by Gate.mu                              *)
(* now      - what the monotonic clock reads                               *)
(* reply    - what the last call answered, as far as its caller relies on  *)
(*            it: a permission installed, a call accepted, nothing         *)

gateVars == <<gate, now, reply>>

Silent == [op |-> "none", fence |-> None]

Answer(ok, op, f) == reply' = IF ok THEN [op |-> op, fence |-> f] ELSE Silent

GateInit == now = 0 /\ gate = NewGate(now) /\ reply = Silent

AcceptControlStep(c) ==
  /\ gate' = AcceptAuthoritativeControl(gate, c).gate
  /\ reply' = Silent
  /\ UNCHANGED now

DisconnectStep(c) ==
  /\ gate' = DisconnectControl(gate, c)
  /\ reply' = Silent
  /\ UNCHANGED now

InstallStep(c, auth) ==
  LET r == Install(gate, c, auth, now)
  IN  /\ gate' = r.gate
      /\ Answer(r.ok, "installed", auth.fence)
      /\ UNCHANGED now

AuthorizeStep(f) ==
  LET r == AuthorizeSync(gate, f, now)
  IN  /\ gate' = r.gate
      /\ Answer(r.ok, "accepted", f)
      /\ UNCHANGED now

RevokeStep(a) ==
  /\ gate' = Revoke(gate, {a})
  /\ reply' = Silent
  /\ UNCHANGED now

GateTick ==
  /\ now < MaxTime
  /\ now' = now + 1
  /\ reply' = Silent
  /\ UNCHANGED gate

ClockRegresses ==
  /\ ClockMayRegress
  /\ now' \in {t \in 0..MaxTime : t < now}
  /\ reply' = Silent
  /\ UNCHANGED gate

GateNext ==
  \/ \E c \in Connection : AcceptControlStep(c) \/ DisconnectStep(c)
  \/ \E c \in Connection, auth \in Authorization : InstallStep(c, auth)
  \/ \E f \in Fence : AuthorizeStep(f)
  \/ \E a \in AssignmentIds : RevokeStep(a)
  \/ GateTick
  \/ ClockRegresses

GateSpec == GateInit /\ [][GateNext]_gateVars

-----------------------------------------------------------------------------
(* Properties.                                                             *)

\* Every field of the gate keeps its type under every sequence of calls.
GateTypeOK ==
  /\ gate \in Gate
  /\ now \in Nat
  /\ reply \in [op : {"none", "installed", "accepted"}, fence : Fence \cup {None}]

\* Nothing stored outlives its authority: a stored authorization carries the
\* highest discovery epoch and the current session, was received on the last
\* accepted connection, and names the identity tracked for its Assignment.
\* AcceptAuthoritativeControl clears records in two places so that this holds
\* even when a connection raises the epoch and is then refused.
StoredIsCurrent ==
  \A a \in AssignmentIds : gate.authorizations[a] # None =>
    LET f == gate.authorizations[a].auth.fence
    IN  /\ f.disc = gate.highest
        /\ f.assignment.session = gate.session
        /\ f.assignment.boot = Self
        /\ f.assignment.id = a
        /\ gate.authorizations[a].connection = gate.connection
        /\ gate.assignments[a] = f.assignment

\* The identities the gate tracks never exceed maxAuthorizations, however
\* installs, refreshes, expiries and revocations follow each other.
TrackedWithinLimit == Cardinality(Tracked(gate)) <= MaxAuthorizations

\* Authority only moves forward: no step lowers the discovery epoch or the
\* session, re-opens a closed connection without a higher session, or heals a
\* clock that was seen to move back.
AuthorityMovesForward ==
  [][/\ gate'.highest >= gate.highest
     /\ gate'.session >= gate.session
     /\ gate'.connected /\ ~gate.connected => gate'.session > gate.session
     /\ gate'.clockHealthy => gate.clockHealthy]_gateVars

-----------------------------------------------------------------------------
(* The gate implements ServingPermission.                                  *)

\* The fences AuthorizeSync would accept now.
Acceptable == {f \in Fence : AuthorizeSync(gate, f, now).ok}

Permission == INSTANCE ServingPermission WITH
  Fences <- Fence, epoch <- gate.highest, session <- gate.session, granted <- Acceptable

\* Records are only dropped when they are looked at, yet no caller can tell:
\* a fence that expiry, disconnection, revocation or a new authority made
\* unacceptable becomes acceptable again only by Install on the current
\* connection.
ImplementsPermission == Permission!PermissionSpec

=============================================================================
