-------------------------- MODULE ServingPermission --------------------------
(***************************************************************************)
(* What the authorization gate promises, with no connections, clocks or    *)
(* stored records: a set of fences that may be accepted right now.  Every  *)
(* permission belongs to the present discovery and session epoch, may be   *)
(* withdrawn at any moment, and comes back only by being granted again.    *)
(***************************************************************************)
EXTENDS Naturals

CONSTANTS Fences, None

VARIABLES epoch, session, granted, reply

pvars == <<epoch, session, granted, reply>>

Silent == [op |-> "none", fence |-> None]

PermissionInit == epoch = 0 /\ session = 0 /\ granted = {} /\ reply = Silent

\* A refresh replaces the permission of the same Assignment; a drain-only
\* Assignment takes no synchronous calls.
Grant == \E f \in Fences :
  /\ f.disc = epoch
  /\ f.assignment.session = session
  /\ reply' = [op |-> "installed", fence |-> f]
  /\ granted' = {h \in granted : h.assignment.id # f.assignment.id}
                  \cup {h \in {f} : h.assignment.mode = "normal"}
  /\ UNCHANGED <<epoch, session>>

Withdraw ==
  /\ granted' \subseteq granted
  /\ reply' = Silent
  /\ UNCHANGED <<epoch, session>>

NewAuthority ==
  /\ epoch' \in Nat /\ session' \in Nat
  /\ epoch' >= epoch /\ session' >= session
  /\ <<epoch', session'>> # <<epoch, session>>
  /\ granted' = {}
  /\ reply' = Silent

Accept == \E f \in granted :
  /\ reply' = [op |-> "accepted", fence |-> f]
  /\ UNCHANGED <<epoch, session, granted>>

PermissionNext == Grant \/ Withdraw \/ NewAuthority \/ Accept

PermissionSpec == PermissionInit /\ [][PermissionNext]_pvars

=============================================================================
