-------------------------- MODULE WorkerAgentProofs --------------------------
(***************************************************************************)
(* TLAPS proofs about WorkerAgent, for every set of Assignments,           *)
(* invocations and closers, every capacity and every bound.                *)
(***************************************************************************)
EXTENDS WorkerAgent, ServingGateProofs

-----------------------------------------------------------------------------
(* The inductive invariant.                                                *)

\* What is true of a Replica record between two locked sections, except that a
\* Replica with nobody left on it may still be draining.
Settling(r) ==
  /\ r.state \in {"Fetching", "Ready", "Draining"} \cup Terminal
  /\ r.preparing => /\ r.state \in {"Fetching", "Draining", "Lost"}
                    /\ r.users = 0 /\ r.active = 0 /\ ~r.lease /\ ~r.releasing /\ ~r.done
  /\ ~r.preparing => r.state # "Fetching"
  /\ r.state = "Ready" => r.lease
  /\ r.users # 0 => r.lease
  /\ r.lease => ~r.releasing
  /\ r.done => /\ r.state \in Terminal /\ ~r.lease /\ ~r.releasing /\ ~r.preparing
               /\ r.users = 0

\* finalizeIdleLocked has seen to the idle ones.
Sound(r) == Settling(r) /\ (r.state = "Draining" /\ ~r.preparing => r.users # 0)

\* What is true of one invocation's own record.
CallSound(x) ==
  /\ x.pc # "idle" => x.fence \in Fence
  /\ x.queue # "no" => x.pc \in Limiters
  /\ x.accepted => x.pc \in {"accepted", "finishing"}
  /\ x.pc = "accepted" => x.accepted

ReplicasSound == \A a \in AssignmentIds : Known(a) => Sound(replicas[a])

CallsSound == \A i \in Invocations : CallSound(inv[i])

\* An invocation that counts as a user is on the Replica it looked up.
UsersStay == \A i \in Invocations : inv[i].pc \in Counted => Same(i)

\* Only one closer closes the cache, and only after Close has begun.
ClosersSound ==
  /\ \A k \in Closers : /\ closer[k] # "idle" => closing
                        /\ closer[k] = "closing" => cacheClosing
  /\ \A j, k \in Closers : closer[j] = "closing" /\ closer[k] = "closing" => j = k

AgentInv ==
  /\ TypeOK /\ StoredIsCurrent /\ ReplicasSound /\ CallsSound /\ UsersAccounted /\ UsersStay
  /\ PermissionNeedsReadyReplica /\ PreparingIsCurrent /\ CacheClosesLast /\ ClosersSound

-----------------------------------------------------------------------------
(* Replica records.                                                        *)

\* A Replica record is not the absence of one.
LEMMA ReplicaNotNone == ASSUME NEW r \in Replica PROVE r # None
<1>1. DOMAIN r # DOMAIN None
  <2>1. "inc" \in DOMAIN r
    BY Zenon DEF Replica
  <2>2. "inc" \notin DOMAIN None
    BY Zenon DEF None
  <2> QED BY <2>1, <2>2, Zenon
<1> QED BY <1>1, Zenon

\* The fields no step of a Replica's life touches, and the counts.
SameReplica(r, x) ==
  /\ x.inc = r.inc /\ x.connection = r.connection /\ x.fence = r.fence
  /\ x.users = r.users /\ x.active = r.active

\* transitionLocked along an edge of the state graph.
LEMMA TransitionIs ==
  ASSUME NEW r \in Replica, NEW s \in States,
         r.state = s \/ <<r.state, s>> \in ValidReplicaTransition
  PROVE  /\ Transition(r, s) \in Replica
         /\ Transition(r, s) = [r EXCEPT !.state = s]
  BY Zenon DEF Transition, Replica

\* finalizeIdleLocked settles a Replica and changes nothing its users see.
LEMMA FinalizeSound ==
  ASSUME NEW r \in Replica, Settling(r)
  PROVE  LET x == FinalizeIdle(r)
         IN  /\ x \in Replica /\ Sound(x) /\ SameReplica(r, x)
             /\ x.preparing = r.preparing
             /\ x.state = r.state \/ (r.state = "Draining" /\ x.state = "Stopped")
<1> DEFINE s == IF r.state = "Draining" THEN Transition(r, "Stopped") ELSE r
           t == IF r.state = "Draining" THEN [r EXCEPT !.state = "Stopped"] ELSE r
<1>1. s = t
  <2>1. ASSUME r.state = "Draining" PROVE Transition(r, "Stopped") = [r EXCEPT !.state = "Stopped"]
    BY <2>1, TransitionIs, Zenon DEF States, Terminal, ValidReplicaTransition
  <2> QED BY <2>1, Zenon
<1>2. CASE r.users # 0 \/ r.preparing
  BY <1>2, Zenon DEF FinalizeIdle, Sound, SameReplica
<1>3. CASE ~(r.users # 0 \/ r.preparing)
  <2>1. FinalizeIdle(r) = IF t.state \notin Terminal THEN t
                          ELSE IF t.lease /\ ~t.releasing
                            THEN [t EXCEPT !.lease = FALSE, !.releasing = TRUE]
                          ELSE FinishTerminal(t)
    BY <1>1, <1>3, Zenon DEF FinalizeIdle
  <2>2. t \in Replica
    BY Zenon DEF Replica, States, Terminal
  <2>3. /\ t.state = IF r.state = "Draining" THEN "Stopped" ELSE r.state
        /\ t.lease = r.lease /\ t.preparing = r.preparing /\ t.releasing = r.releasing
        /\ t.users = r.users /\ t.done = r.done /\ t.active = r.active /\ t.inc = r.inc
        /\ t.connection = r.connection /\ t.fence = r.fence
    BY Zenon DEF Replica
  <2> HIDE DEF t
  <2>4. CASE t.state \notin Terminal
    <3>1. FinalizeIdle(r) = t
      BY <2>1, <2>4, Zenon
    <3>2. Sound(t)
      BY <1>3, <2>2, <2>3, <2>4, Zenon DEF Sound, Settling, Terminal
    <3> QED BY <2>2, <2>3, <3>1, <3>2, Zenon DEF SameReplica
  <2>5. CASE t.state \in Terminal /\ t.lease /\ ~t.releasing
    <3> DEFINE x == [t EXCEPT !.lease = FALSE, !.releasing = TRUE]
    <3>1. FinalizeIdle(r) = x
      BY <2>1, <2>5, Zenon
    <3>2. /\ x \in Replica /\ SameReplica(t, x) /\ x.preparing = t.preparing /\ x.state = t.state
          /\ ~x.lease /\ x.releasing /\ x.done = t.done
      BY <2>2, Zenon DEF Replica, SameReplica
    <3> HIDE DEF x
    <3>3. Sound(x)
      BY <1>3, <2>3, <2>5, <3>2, Zenon DEF Sound, Settling, Terminal, SameReplica
    <3> QED BY <2>3, <3>1, <3>2, <3>3, Zenon DEF SameReplica
  <2>6. CASE t.state \in Terminal /\ ~(t.lease /\ ~t.releasing)
    <3> DEFINE x == FinishTerminal(t)
    <3>1. FinalizeIdle(r) = x
      BY <2>1, <2>6, Zenon
    <3>2. /\ x \in Replica /\ SameReplica(t, x) /\ x.preparing = t.preparing /\ x.state = t.state
          /\ x.lease = t.lease /\ x.releasing = t.releasing
          /\ x.done => t.done \/ (~t.lease /\ ~t.releasing)
      BY <2>2, Zenon DEF Replica, SameReplica, FinishTerminal
    <3> HIDE DEF x
    <3>3. Sound(x)
      BY <1>3, <2>3, <2>6, <3>2, Zenon DEF Sound, Settling, Terminal, SameReplica
    <3> QED BY <2>3, <3>1, <3>2, <3>3, Zenon DEF SameReplica
  <2> QED BY <2>4, <2>5, <2>6, Zenon
<1> QED BY <1>2, <1>3, Zenon

\* drainReplicaLocked and loseReplicaLocked: the Replica is stopped for good, its
\* identity and its users stay.
LEMMA StopSound ==
  ASSUME NEW r \in Replica, Sound(r), NEW s \in {"Draining", "Lost"}
  PROVE  LET x == StopReplica(r, s)
         IN  /\ x \in Replica /\ Sound(x) /\ SameReplica(r, x)
             /\ x.preparing = r.preparing
             /\ x.state \notin Live
             /\ r.state \in Terminal => x = r
<1>1. CASE r.state \in Terminal
  BY <1>1, Zenon DEF StopReplica, SameReplica, Terminal, Live
<1>2. CASE r.state \notin Terminal
  <2> DEFINE t == [Transition(r, s) EXCEPT !.stop = TRUE, !.prepared = @ \/ ~r.preparing]
  <2>1. r.state = s \/ <<r.state, s>> \in ValidReplicaTransition
    BY <1>2, Zenon DEF Sound, Settling, ValidReplicaTransition, Live, Terminal
  <2>2. Transition(r, s) \in Replica /\ Transition(r, s) = [r EXCEPT !.state = s]
    BY <2>1, TransitionIs, Zenon DEF States, Terminal
  <2>3. /\ t \in Replica /\ SameReplica(r, t) /\ t.state = s /\ t.preparing = r.preparing
        /\ t.lease = r.lease /\ t.releasing = r.releasing /\ t.done = r.done
    BY <2>2, Zenon DEF Replica, SameReplica
  <2>4. StopReplica(r, s) = FinalizeIdle(t)
    BY <1>2, Zenon DEF StopReplica
  <2> HIDE DEF t
  <2>5. Settling(t)
    BY <1>2, <2>3, Zenon DEF Sound, Settling, SameReplica, Terminal
  <2>6. PICK x : x = FinalizeIdle(t)
    BY Zenon
  <2>7. /\ x \in Replica /\ Sound(x) /\ SameReplica(t, x) /\ x.preparing = t.preparing
        /\ x.state = t.state \/ (t.state = "Draining" /\ x.state = "Stopped")
    BY <2>3, <2>5, <2>6, FinalizeSound, Zenon
  <2> QED BY <1>2, <2>3, <2>4, <2>6, <2>7, Zenon DEF SameReplica, Live
<1> QED BY <1>1, <1>2, Zenon

\* The Replica finishPrepare leaves behind.
Prepared(r, outcome, shut, current) ==
  LET stopped == IF r.state = "Draining" THEN Transition(r, "Stopped") ELSE r
      failed == IF r.state \in {"Draining", "Lost"} THEN stopped ELSE Transition(r, "Failed")
      ready == Transition(Transition(Transition(r, "Validating"), "Compiling"), "Ready")
  IN  IF outcome = "error"
        THEN FinishTerminal([failed EXCEPT !.preparing = FALSE, !.stop = TRUE, !.prepared = TRUE])
      ELSE IF r.state \in {"Draining", "Lost"} \/ shut THEN HandBack(stopped)
      ELSE IF ~current THEN [HandBack(Transition(r, "Lost")) EXCEPT !.stop = TRUE]
      ELSE IF outcome = "mismatch"
        THEN [HandBack(Transition(r, "Failed")) EXCEPT !.stop = TRUE]
      ELSE [ready EXCEPT !.preparing = FALSE, !.prepared = TRUE, !.lease = TRUE]

\* finishPrepare, whatever the cache returned: the Replica is Ready with its
\* lease, or terminal and the lease on its way back.  Close stops every Replica
\* that still prepares, so that "closing" never meets one that does.
LEMMA PreparedSound ==
  ASSUME NEW r \in Replica, Sound(r), r.preparing, NEW outcome, NEW current \in BOOLEAN,
         NEW shut \in BOOLEAN, r.state = "Fetching" => ~shut
  PROVE  LET x == Prepared(r, outcome, shut, current)
         IN  x \in Replica /\ Sound(x) /\ SameReplica(r, x) /\ ~x.preparing
<1> DEFINE stopped == IF r.state = "Draining" THEN Transition(r, "Stopped") ELSE r
           failed == IF r.state \in {"Draining", "Lost"} THEN stopped ELSE Transition(r, "Failed")
           ready == Transition(Transition(Transition(r, "Validating"), "Compiling"), "Ready")
           x == Prepared(r, outcome, shut, current)
<1>0. /\ r.state \in {"Fetching", "Draining", "Lost"}
      /\ r.users = 0 /\ r.active = 0 /\ ~r.lease /\ ~r.releasing /\ ~r.done
  BY Zenon DEF Sound, Settling
<1>1. stopped = IF r.state = "Draining" THEN [r EXCEPT !.state = "Stopped"] ELSE r
  BY TransitionIs, Zenon DEF States, Terminal, ValidReplicaTransition
<1>2. ASSUME r.state = "Fetching", NEW s \in {"Failed", "Lost", "Validating"}
      PROVE  Transition(r, s) = [r EXCEPT !.state = s] /\ Transition(r, s) \in Replica
  BY <1>2, TransitionIs, Zenon DEF States, Terminal, ValidReplicaTransition, Live
<1>3. CASE outcome = "error"
  <2> DEFINE t == [failed EXCEPT !.preparing = FALSE, !.stop = TRUE, !.prepared = TRUE]
  <2>1. x = FinishTerminal(t)
    BY <1>3, Zenon DEF Prepared
  <2>2. failed = IF r.state = "Draining" THEN [r EXCEPT !.state = "Stopped"]
                 ELSE IF r.state = "Lost" THEN r ELSE [r EXCEPT !.state = "Failed"]
    BY <1>0, <1>1, <1>2, Zenon
  <2> HIDE DEF stopped, failed
  <2>3. /\ t \in Replica /\ SameReplica(r, t) /\ ~t.preparing /\ t.state \in Terminal
        /\ t.lease = r.lease /\ t.releasing = r.releasing /\ t.done = r.done
    BY <1>0, <2>2, Zenon DEF Replica, SameReplica, States, Terminal
  <2> HIDE DEF t
  <2>4. /\ FinishTerminal(t) \in Replica /\ SameReplica(t, FinishTerminal(t))
        /\ FinishTerminal(t).preparing = t.preparing /\ FinishTerminal(t).state = t.state
        /\ FinishTerminal(t).lease = t.lease /\ FinishTerminal(t).releasing = t.releasing
    BY <2>3, Zenon DEF FinishTerminal, Replica, SameReplica
  <2> QED BY <1>0, <2>1, <2>3, <2>4, Zenon DEF Sound, Settling, SameReplica, Terminal
<1>4. CASE outcome # "error" /\ r.state \in {"Draining", "Lost"}
  <2>1. x = HandBack(stopped)
    BY <1>4, Zenon DEF Prepared
  <2> HIDE DEF stopped
  <2>2. /\ HandBack(stopped) \in Replica /\ SameReplica(r, HandBack(stopped))
        /\ ~HandBack(stopped).preparing /\ HandBack(stopped).state \in Terminal
        /\ ~HandBack(stopped).lease /\ ~HandBack(stopped).done
    BY <1>0, <1>1, <1>4, Zenon DEF HandBack, Replica, SameReplica, States, Terminal
  <2> QED BY <1>0, <2>1, <2>2, Zenon DEF Sound, Settling, SameReplica, Terminal
<1>5. CASE outcome # "error" /\ r.state = "Fetching" /\ (~current \/ outcome = "mismatch")
  <2> DEFINE s == IF ~current THEN "Lost" ELSE "Failed"
             t == [r EXCEPT !.state = s]
             y == [HandBack(t) EXCEPT !.stop = TRUE]
  <2>1. x = y
    BY <1>2, <1>5, Zenon DEF Prepared
  <2>2. /\ y \in Replica /\ SameReplica(r, y)
        /\ ~y.preparing /\ y.state \in Terminal
        /\ ~y.lease /\ ~y.done
    BY <1>0, Zenon DEF HandBack, Replica, SameReplica, States, Terminal
  <2> HIDE DEF y
  <2> QED BY <1>0, <2>1, <2>2, Zenon DEF Sound, Settling, SameReplica, Terminal
<1>6. CASE outcome \notin {"error", "mismatch"} /\ r.state = "Fetching" /\ current
  <2>1. x = [ready EXCEPT !.preparing = FALSE, !.prepared = TRUE, !.lease = TRUE]
    BY <1>6, Zenon DEF Prepared
  <2>2. ready = [r EXCEPT !.state = "Ready"]
    <3> DEFINE v == [r EXCEPT !.state = "Validating"]
               c == [r EXCEPT !.state = "Compiling"]
    <3>1. Transition(r, "Validating") = v /\ v \in Replica /\ v.state = "Validating"
      BY <1>2, <1>6, Zenon DEF Replica
    <3>2. Transition(v, "Compiling") = c /\ c \in Replica /\ c.state = "Compiling"
      BY <3>1, Zenon DEF Transition, ValidReplicaTransition, Replica, States, Live
    <3>3. Transition(c, "Ready") = [r EXCEPT !.state = "Ready"]
      BY <3>2, Zenon DEF Transition, ValidReplicaTransition, Replica, States, Live
    <3> QED BY <3>1, <3>2, <3>3, Zenon
  <2> HIDE DEF ready
  <2>3. x \in Replica /\ SameReplica(r, x) /\ ~x.preparing /\ x.state = "Ready" /\ x.lease
        /\ x.releasing = r.releasing /\ x.done = r.done
    <3> QED BY <2>1, <2>2, Zenon DEF Replica, SameReplica, States, Live
  <2> QED BY <1>0, <2>3, Zenon DEF Sound, Settling, SameReplica, Terminal
<1> QED BY <1>0, <1>3, <1>4, <1>5, <1>6, Zenon

-----------------------------------------------------------------------------
(* What the parts of the invariant depend on.                              *)

AgentTypes ==
  /\ gate \in Gate /\ now \in Nat /\ now <= MaxTime
  /\ replicas \in [AssignmentIds -> Replica \cup {None}]
  /\ born \in [AssignmentIds -> 0..MaxIncarnations]
  /\ inv \in [Invocations -> Invocation]
  /\ closing \in BOOLEAN /\ cacheClosing \in BOOLEAN /\ closed \in BOOLEAN
  /\ closer \in [Closers -> {"idle", "waiting", "closing"}]

\* The types of everything but the last answer.
LEMMA TypesAre == TypeOK <=> AgentTypes /\ GateTypeOK
  BY Zenon DEF TypeOK, AgentTypes, GateTypeOK

\* Answering nobody keeps the type of the answer.
LEMMA SilentType == ASSUME AgentTypes', reply' = Silent PROVE TypeOK'
<1>1. reply' \in [op : {"none", "installed", "accepted"}, fence : Fence \cup {None}]
  BY Zenon DEF Silent
<1> QED BY <1>1, Zenon DEF TypeOK, AgentTypes, GateTypeOK

\* A known Replica has a sound record.
LEMMA KnownReplica ==
  ASSUME AgentInv, NEW a \in AssignmentIds, Known(a)
  PROVE  replicas[a] \in Replica /\ Sound(replicas[a])
  BY Zenon DEF AgentInv, TypeOK, ReplicasSound, Known

\* The invocations that use an Assignment are finitely many.
LEMMA UsersFinite ==
  ASSUME NEW a
  PROVE  /\ IsFiniteSet(UsersOf(a)) /\ Cardinality(UsersOf(a)) \in Nat
         /\ \A S \in SUBSET UsersOf(a) : IsFiniteSet(S) /\ Cardinality(S) \in Nat
<1>1. UsersOf(a) \subseteq Invocations /\ IsFiniteSet(Invocations)
  BY AgentAssumption, Zenon DEF UsersOf
<1> QED BY <1>1, FS_Subset, FS_CardinalityType, Zenon

\* As long as the invocations stand still, what is known of them stays true when
\* Replicas keep their identity and their counts, when new ones have no users
\* and only Replicas without users are forgotten.
LEMMA CallsFrame ==
  ASSUME AgentInv, inv' = inv,
         \A a \in AssignmentIds :
           /\ Known(a) /\ Known(a)' => SameReplica(replicas[a], replicas'[a])
           /\ Known(a) /\ ~Known(a)' => replicas[a].users = 0
           /\ ~Known(a) /\ Known(a)' => replicas'[a].users = 0 /\ replicas'[a].active = 0
  PROVE  CallsSound' /\ UsersAccounted' /\ UsersStay'
<1>1. CallsSound'
  BY Zenon DEF AgentInv, CallsSound, CallSound
<1>u. \A a : UsersOf(a)' = UsersOf(a)
  BY Zenon DEF UsersOf, Of
<1>2. UsersAccounted'
  <2> SUFFICES ASSUME NEW a \in AssignmentIds
               PROVE  /\ Known(a)' =>
                           /\ replicas'[a].users = Cardinality(UsersOf(a))
                           /\ replicas'[a].active = Cardinality({i \in UsersOf(a) : inv[i].accepted})
                      /\ ~Known(a)' => UsersOf(a) = {}
    BY <1>u, Zenon DEF UsersAccounted
  <2>1. CASE Known(a)
    <3>1. /\ replicas[a].users = Cardinality(UsersOf(a))
          /\ replicas[a].active = Cardinality({i \in UsersOf(a) : inv[i].accepted})
      BY <2>1, Zenon DEF AgentInv, UsersAccounted
    <3>2. replicas[a].users = 0 => UsersOf(a) = {}
      BY <3>1, UsersFinite, FS_EmptySet, Zenon
    <3> QED BY <2>1, <3>1, <3>2, Zenon DEF SameReplica
  <2>2. CASE ~Known(a)
    <3>1. UsersOf(a) = {}
      BY <2>2, Zenon DEF AgentInv, UsersAccounted
    <3>2. {i \in UsersOf(a) : inv[i].accepted} = {}
      BY <3>1, Zenon
    <3> QED BY <2>2, <3>1, <3>2, FS_EmptySet, Zenon
  <2> QED BY <2>1, <2>2, Zenon
<1>3. UsersStay'
  <2> SUFFICES ASSUME NEW i \in Invocations, inv[i].pc \in Counted
               PROVE  Same(i)'
    BY Zenon DEF UsersStay
  <2>1. Same(i)
    BY Zenon DEF AgentInv, UsersStay
  <2>2. Of(i) \in AssignmentIds /\ Of(i)' = Of(i)
    <3>1. inv[i].fence \in Fence
      BY Zenon DEF AgentInv, CallsSound, CallSound, Counted, Limiters
    <3> QED BY <3>1, Zenon DEF Of, Fence, Identity
  <2>3. PICK a \in AssignmentIds : a = Of(i)
    BY <2>2, Zenon
  <2>4. Known(a) /\ replicas[a].inc = inv[i].inc
    BY <2>1, <2>3, Zenon DEF Same
  <2>5. i \in UsersOf(a)
    BY <2>3, Zenon DEF UsersOf
  <2>6. Known(a)'
    <3>1. replicas[a].users = Cardinality(UsersOf(a))
      BY <2>4, Zenon DEF AgentInv, UsersAccounted
    <3>2. replicas[a].users # 0
      BY <2>5, <3>1, UsersFinite, FS_EmptySet, Zenon
    <3> QED BY <2>4, <3>2, Zenon
  <2>7. replicas'[a].inc = inv'[i].inc
    BY <2>4, <2>6, Zenon DEF SameReplica
  <2> QED BY <2>2, <2>3, <2>6, <2>7, Zenon DEF Same
<1> QED BY <1>1, <1>2, <1>3, Zenon

\* Once the cache is being closed, everything done stays done.
LEMMA CacheFrame ==
  ASSUME AgentInv, cacheClosing' = cacheClosing, closed' = closed, closing => closing',
         \A i \in Invocations : inv[i].pc \in {"idle", "looked"} /\ closing
           => inv'[i].pc \in {"idle", "looked"},
         \A a \in AssignmentIds : Known(a)' /\ closing =>
           Known(a) /\ (replicas[a].done => replicas'[a].done)
  PROVE  CacheClosesLast'
  BY Zenon DEF AgentInv, CacheClosesLast, AllDone

\* Nothing about the closers changes.
LEMMA ClosersFrame ==
  ASSUME AgentInv, UNCHANGED <<closing, closer, cacheClosing>>
  PROVE  ClosersSound'
  BY Zenon DEF AgentInv, ClosersSound

-----------------------------------------------------------------------------
(* Stopping Replicas.                                                      *)

\* What stopping a set of known Replicas leaves of the Replicas and of the gate.
LEMMA StopAllIs ==
  ASSUME AgentInv, NEW ids \in SUBSET AssignmentIds, \A a \in ids : Known(a),
         NEW s \in {"Draining", "Lost"}, NEW g \in Gate, StopAll(ids, s, g)
  PROVE  /\ replicas' \in [AssignmentIds -> Replica \cup {None}]
         /\ ReplicasSound'
         /\ \A a \in AssignmentIds :
              /\ Known(a)' <=> Known(a)
              /\ Known(a) => /\ SameReplica(replicas[a], replicas'[a])
                             /\ replicas'[a].preparing = replicas[a].preparing
                             /\ replicas[a].done => replicas'[a].done
              /\ a \in ids => replicas'[a].state \notin Live
              /\ a \notin ids => replicas'[a] = replicas[a]
         /\ gate' = Revoke(g, {a \in ids : replicas[a].state \notin Terminal})
<1> DEFINE x(a) == StopReplica(replicas[a], s)
<1>1. ASSUME NEW a \in AssignmentIds, Known(a)
      PROVE  /\ x(a) \in Replica /\ Sound(x(a)) /\ SameReplica(replicas[a], x(a))
             /\ x(a).preparing = replicas[a].preparing /\ x(a).state \notin Live
             /\ replicas[a].done => x(a) = replicas[a]
  <2>1. replicas[a] \in Replica /\ Sound(replicas[a])
    BY <1>1, KnownReplica, Zenon
  <2>2. PICK r \in Replica : r = replicas[a]
    BY <2>1, Zenon
  <2>3. Sound(r)
    BY <2>1, <2>2, Zenon
  <2>4. r.done => r.state \in Terminal
    BY <2>3, Zenon DEF Sound, Settling
  <2>5. PICK y : y = StopReplica(r, s)
    BY Zenon
  <2>6. /\ y \in Replica /\ Sound(y) /\ SameReplica(r, y)
        /\ y.preparing = r.preparing /\ y.state \notin Live /\ (r.state \in Terminal => y = r)
    BY <2>3, <2>5, StopSound, Zenon
  <2> QED BY <2>2, <2>4, <2>5, <2>6, Zenon
<1> HIDE DEF x
<1>2. \A a \in AssignmentIds : replicas'[a] = IF a \in ids THEN x(a) ELSE replicas[a]
  BY Zenon DEF StopAll, x
<1>3. DOMAIN replicas' = AssignmentIds
  BY Zenon DEF StopAll
<1>4. \A a \in AssignmentIds : replicas[a] \in Replica \cup {None}
  BY Zenon DEF AgentInv, TypeOK
<1>5. ASSUME NEW a \in AssignmentIds
      PROVE  /\ replicas'[a] \in Replica \cup {None}
             /\ Known(a)' <=> Known(a)
             /\ Known(a)' => Sound(replicas'[a])
             /\ Known(a) => /\ SameReplica(replicas[a], replicas'[a])
                            /\ replicas'[a].preparing = replicas[a].preparing
                            /\ replicas[a].done => replicas'[a].done
             /\ a \in ids => replicas'[a].state \notin Live
             /\ a \notin ids => replicas'[a] = replicas[a]
  <2>1. CASE a \in ids
    <3>1. Known(a) /\ replicas'[a] = x(a)
      BY <1>2, <2>1, Zenon
    <3>2. x(a) # None
      BY <1>1, <3>1, ReplicaNotNone, Zenon
    <3> QED BY <1>1, <2>1, <3>1, <3>2, Zenon DEF Known
  <2>2. CASE a \notin ids
    <3>1. replicas'[a] = replicas[a]
      BY <1>2, <2>2, Zenon
    <3>2. Known(a) => Sound(replicas[a])
      BY KnownReplica, Zenon
    <3> QED BY <1>4, <2>2, <3>1, <3>2, Zenon DEF Known, SameReplica
  <2> QED BY <2>1, <2>2, Zenon
<1>6. \E f : replicas' = [a \in AssignmentIds |-> f[a]]
  <2>1. replicas' = [a \in AssignmentIds |-> replicas'[a]]
    BY Zenon DEF StopAll
  <2> QED BY <2>1, Zenon
<1>7. replicas' \in [AssignmentIds -> Replica \cup {None}]
  BY <1>3, <1>5, <1>6, Zenon
<1> QED BY <1>5, <1>7, Zenon DEF ReplicasSound, StopAll

\* Revoke withdraws permissions and touches nothing else.
LEMMA RevokeIs ==
  ASSUME NEW g \in Gate, NEW S
  PROVE  LET h == Revoke(g, S)
         IN  /\ h.highest = g.highest /\ h.session = g.session /\ h.connection = g.connection
             /\ h.connected = g.connected /\ h.clockHealthy = g.clockHealthy
             /\ h.lastElapsed = g.lastElapsed
             /\ \A a \in AssignmentIds :
                  /\ h.assignments[a] = IF a \in S THEN None ELSE g.assignments[a]
                  /\ h.authorizations[a] = IF a \in S THEN None ELSE g.authorizations[a]
  BY Zenon DEF Revoke, Gate

\* StoredIsCurrent looks at one Assignment at a time.
LEMMA StoredIsAll == StoredIsCurrent <=> \A a \in AssignmentIds : StoredCurrentIn(gate, a)
  BY Zenon DEF StoredIsCurrent, StoredCurrentIn

\* Stopping Replicas keeps every part of the invariant but the closers', if the
\* gate g they are stopped under holds no more than the gate did before and every
\* Replica that goes on preparing does so under g's connection.
LEMMA StopsKeep ==
  ASSUME AgentInv, NEW ids \in SUBSET AssignmentIds, \A a \in ids : Known(a),
         NEW s \in {"Draining", "Lost"}, NEW g \in Gate, StopAll(ids, s, g), reply' = Silent,
         UNCHANGED <<inv, now, born, cacheClosing, closed>>,
         closing' \in BOOLEAN, closing => closing',
         closer' \in [Closers -> {"idle", "waiting", "closing"}],
         \A a \in AssignmentIds : StoredCurrentIn(g, a),
         \A a \in AssignmentIds : g.assignments[a] \in {None, gate.assignments[a]},
         \A a \in AssignmentIds \ ids :
           Known(a) /\ replicas[a].preparing /\ replicas[a].state \in Live =>
             ~closing' /\ CheckAssignment(g, replicas[a].connection, replicas[a].fence)
  PROVE  /\ TypeOK' /\ StoredIsCurrent' /\ ReplicasSound' /\ CallsSound' /\ UsersAccounted'
         /\ UsersStay' /\ PermissionNeedsReadyReplica' /\ PreparingIsCurrent'
         /\ CacheClosesLast'
<1> DEFINE S == {a \in ids : replicas[a].state \notin Terminal}
<1>1. /\ replicas' \in [AssignmentIds -> Replica \cup {None}]
      /\ ReplicasSound'
      /\ \A a \in AssignmentIds :
              /\ Known(a)' <=> Known(a)
              /\ Known(a) => /\ SameReplica(replicas[a], replicas'[a])
                             /\ replicas'[a].preparing = replicas[a].preparing
                             /\ replicas[a].done => replicas'[a].done
              /\ a \in ids => replicas'[a].state \notin Live
              /\ a \notin ids => replicas'[a] = replicas[a]
      /\ gate' = Revoke(g, S)
  BY StopAllIs, Zenon
<1> HIDE DEF S
<1>2. /\ gate' \in Gate
      /\ gate'.highest = g.highest /\ gate'.session = g.session /\ gate'.connection = g.connection
      /\ gate'.connected = g.connected
      /\ \A a \in AssignmentIds :
            gate'.assignments[a] = IF a \in S THEN None ELSE g.assignments[a]
  BY <1>1, RevokeType, RevokeIs
<1>3. TypeOK'
  <2>1. AgentTypes'
    BY <1>1, <1>2, Zenon DEF AgentInv, TypeOK, GateTypeOK, AgentTypes
  <2> QED BY <2>1, SilentType, Zenon
<1>4. StoredIsCurrent'
  <2>1. \A a \in AssignmentIds : StoredCurrentIn(gate', a)
    BY <1>1, RevokeStored, Zenon
  <2> QED BY <2>1, Zenon DEF StoredIsCurrent, StoredCurrentIn
<1>5. CallsSound' /\ UsersAccounted' /\ UsersStay'
  BY <1>1, CallsFrame, Zenon
<1>6. PermissionNeedsReadyReplica'
  <2> SUFFICES ASSUME NEW a \in AssignmentIds, gate'.assignments[a] # None
               PROVE  Ready(a)' /\ replicas'[a].fence.assignment = gate'.assignments[a]
    BY Zenon DEF PermissionNeedsReadyReplica
  <2>1. a \notin S /\ gate'.assignments[a] = gate.assignments[a] /\ gate.assignments[a] # None
    BY <1>2, Zenon
  <2>2. Ready(a) /\ replicas[a].fence.assignment = gate.assignments[a]
    BY <2>1, Zenon DEF AgentInv, PermissionNeedsReadyReplica
  <2>3. a \notin ids
    BY <2>1, <2>2, Zenon DEF S, Ready, Terminal
  <2> QED BY <1>1, <2>1, <2>2, <2>3, Zenon DEF Ready, Known
<1>7. PreparingIsCurrent'
  <2> SUFFICES ASSUME NEW a \in AssignmentIds, Known(a)', replicas'[a].preparing,
                      replicas'[a].state \in Live
               PROVE  ~closing' /\ CheckAssignment(gate', replicas'[a].connection, replicas'[a].fence)
    BY Zenon DEF PreparingIsCurrent
  <2>1. a \notin ids /\ replicas'[a] = replicas[a] /\ Known(a)
    BY <1>1, Zenon
  <2> QED BY <1>2, <2>1 DEF CheckAssignment, CurrentControl
<1>8. CacheClosesLast'
  BY <1>1, CacheFrame, Zenon
<1> QED BY <1>1, <1>3, <1>4, <1>5, <1>6, <1>7, <1>8, Zenon

\* A new connection keeps the invariant, whether it is accepted, refused, or
\* refused after it raised the epoch.
LEMMA AcceptControlKeeps ==
  ASSUME AgentInv, NEW c \in Connection, AcceptControl(c), reply' = Silent
  PROVE  AgentInv'
<1> DEFINE g == AcceptAuthoritativeControl(gate, c).gate
           fenced == {a \in AssignmentIds : Known(a) /\ g.session > gate.session
                        /\ replicas[a].fence.assignment.session # g.session}
           orphaned == {a \in AssignmentIds : Known(a) /\ replicas[a].preparing
                          /\ ~CheckAssignment(g, replicas[a].connection, replicas[a].fence)}
           ids == fenced \cup orphaned
<1>1. ~closing /\ StopAll(ids, "Lost", g) /\ UNCHANGED <<agentVars, inv>>
  BY Zenon DEF AcceptControl
<1>t. gate \in Gate
  BY Zenon DEF AgentInv, TypeOK, GateTypeOK
<1>2. g \in Gate
  BY <1>t, AcceptType, Zenon
<1>3. \A a \in AssignmentIds : StoredCurrentIn(g, a)
  BY <1>t, AcceptStored, StoredIsAll, Zenon DEF AgentInv
<1>4. \A a \in AssignmentIds : g.assignments[a] \in {None, gate.assignments[a]}
  BY <1>t, Zenon DEF AcceptAuthoritativeControl, RaiseEpoch, OpenSession, Cleared, Failed, Done, Gate
<1> HIDE DEF g
<1>5. ids \in SUBSET AssignmentIds /\ \A a \in ids : Known(a)
  BY Zenon
<1>6. \A a \in AssignmentIds \ ids :
        Known(a) /\ replicas[a].preparing =>
          CheckAssignment(g, replicas[a].connection, replicas[a].fence)
  BY Zenon
<1> HIDE DEF ids
<1>7. /\ UNCHANGED <<inv, now, born, cacheClosing, closed, closing, closer>>
      /\ closing \in BOOLEAN /\ closer \in [Closers -> {"idle", "waiting", "closing"}]
  BY <1>1, Zenon DEF agentVars, AgentInv, TypeOK
<1>8. /\ TypeOK' /\ StoredIsCurrent' /\ ReplicasSound' /\ CallsSound' /\ UsersAccounted'
      /\ UsersStay' /\ PermissionNeedsReadyReplica' /\ PreparingIsCurrent' /\ CacheClosesLast'
  BY <1>1, <1>2, <1>3, <1>4, <1>5, <1>6, <1>7, StopsKeep, Zenon
<1>9. ClosersSound'
  BY <1>7, ClosersFrame, Zenon
<1> QED BY <1>8, <1>9, Zenon DEF AgentInv

\* Losing the connection stops what was preparing under it and nothing else.
LEMMA DisconnectKeeps ==
  ASSUME AgentInv, NEW c \in Connection, Disconnect(c), reply' = Silent
  PROVE  AgentInv'
<1> DEFINE g == DisconnectControl(gate, c)
           ids == {a \in AssignmentIds : Known(a) /\ gate.connected /\ ~g.connected
                     /\ replicas[a].preparing /\ replicas[a].connection = c}
<1>1. StopAll(ids, "Lost", g) /\ UNCHANGED <<agentVars, inv>>
  BY Zenon DEF Disconnect
<1>t. gate \in Gate
  BY Zenon DEF AgentInv, TypeOK, GateTypeOK
<1>2. g \in Gate
  BY <1>t, DisconnectType, Zenon
<1>3. /\ g.assignments = gate.assignments /\ g.authorizations = gate.authorizations
      /\ g.highest = gate.highest /\ g.session = gate.session /\ g.connection = gate.connection
      /\ g.connected = (gate.connected /\ gate.connection # c)
  BY <1>t, Zenon DEF DisconnectControl, Gate
<1>4. \A a \in AssignmentIds : StoredCurrentIn(g, a)
  BY <1>3, StoredIsAll, Zenon DEF AgentInv, StoredCurrentIn
<1> HIDE DEF g
<1>5. ids \in SUBSET AssignmentIds /\ \A a \in ids : Known(a)
  BY Zenon
<1>6. ASSUME NEW a \in AssignmentIds \ ids, Known(a), replicas[a].preparing, replicas[a].state \in Live
      PROVE  ~closing /\ CheckAssignment(g, replicas[a].connection, replicas[a].fence)
  <2>1. ~closing /\ CheckAssignment(gate, replicas[a].connection, replicas[a].fence)
    BY <1>6, Zenon DEF AgentInv, PreparingIsCurrent
  <2>2. gate.connected /\ gate.connection = replicas[a].connection
    BY <2>1, Zenon DEF CheckAssignment, CurrentControl
  <2>3. g.connected
    BY <1>3, <1>6, <2>2, Zenon
  <2> QED BY <1>3, <2>1, <2>3, Zenon DEF CheckAssignment, CurrentControl
<1> HIDE DEF ids
<1>7. /\ UNCHANGED <<inv, now, born, cacheClosing, closed, closing, closer>>
      /\ closing \in BOOLEAN /\ closer \in [Closers -> {"idle", "waiting", "closing"}]
  BY <1>1, Zenon DEF agentVars, AgentInv, TypeOK
<1>8. /\ TypeOK' /\ StoredIsCurrent' /\ ReplicasSound' /\ CallsSound' /\ UsersAccounted'
      /\ UsersStay' /\ PermissionNeedsReadyReplica' /\ PreparingIsCurrent' /\ CacheClosesLast'
  BY <1>1, <1>2, <1>3, <1>4, <1>5, <1>6, <1>7, StopsKeep, Zenon
<1>9. ClosersSound'
  BY <1>7, ClosersFrame, Zenon
<1> QED BY <1>8, <1>9, Zenon DEF AgentInv

\* Cancel drains one Replica and revokes its permission.
LEMMA CancelKeeps ==
  ASSUME AgentInv, NEW c \in Connection, NEW f \in Fence, Cancel(c, f), reply' = Silent
  PROVE  AgentInv'
<1> DEFINE ids == {f.assignment.id}
<1>1. Known(f.assignment.id) /\ StopAll(ids, "Draining", gate) /\ UNCHANGED <<agentVars, inv>>
  BY Zenon DEF Cancel
<1>2. ids \in SUBSET AssignmentIds /\ \A a \in ids : Known(a)
  BY <1>1, Zenon DEF Fence, Identity
<1> HIDE DEF ids
<1>3. gate \in Gate /\ \A a \in AssignmentIds : StoredCurrentIn(gate, a)
  BY StoredIsAll, Zenon DEF AgentInv, TypeOK, GateTypeOK
<1>4. \A a \in AssignmentIds \ ids :
        Known(a) /\ replicas[a].preparing /\ replicas[a].state \in Live =>
          ~closing /\ CheckAssignment(gate, replicas[a].connection, replicas[a].fence)
  BY Zenon DEF AgentInv, PreparingIsCurrent
<1>7. /\ UNCHANGED <<inv, now, born, cacheClosing, closed, closing, closer>>
      /\ closing \in BOOLEAN /\ closer \in [Closers -> {"idle", "waiting", "closing"}]
  BY <1>1, Zenon DEF agentVars, AgentInv, TypeOK
<1>8. /\ TypeOK' /\ StoredIsCurrent' /\ ReplicasSound' /\ CallsSound' /\ UsersAccounted'
      /\ UsersStay' /\ PermissionNeedsReadyReplica' /\ PreparingIsCurrent' /\ CacheClosesLast'
  BY <1>1, <1>2, <1>3, <1>4, <1>7, StopsKeep, Zenon
<1>9. ClosersSound'
  BY <1>7, ClosersFrame, Zenon
<1> QED BY <1>8, <1>9, Zenon DEF AgentInv

\* Close drains every Replica, so that nothing goes on preparing.
LEMMA BeginCloseKeeps ==
  ASSUME AgentInv, NEW k \in Closers, BeginClose(k), reply' = Silent
  PROVE  AgentInv'
<1> DEFINE ids == {a \in AssignmentIds : Known(a)}
<1>1. /\ StopAll(ids, "Draining", gate) /\ closing' = TRUE /\ closer[k] = "idle"
      /\ closer' = [closer EXCEPT ![k] = "waiting"]
      /\ UNCHANGED <<now, born, inv, cacheClosing, closed>>
  BY Zenon DEF BeginClose
<1>2. ids \in SUBSET AssignmentIds /\ (\A a \in ids : Known(a)) /\ \A a \in AssignmentIds \ ids : ~Known(a)
  BY Zenon
<1> HIDE DEF ids
<1>3. gate \in Gate /\ \A a \in AssignmentIds : StoredCurrentIn(gate, a)
  BY StoredIsAll, Zenon DEF AgentInv, TypeOK, GateTypeOK
<1>7. closer' \in [Closers -> {"idle", "waiting", "closing"}]
  BY <1>1, Zenon DEF AgentInv, TypeOK
<1>8. /\ TypeOK' /\ StoredIsCurrent' /\ ReplicasSound' /\ CallsSound' /\ UsersAccounted'
      /\ UsersStay' /\ PermissionNeedsReadyReplica' /\ PreparingIsCurrent' /\ CacheClosesLast'
  BY <1>1, <1>2, <1>3, <1>7, StopsKeep, Zenon
<1>9. ClosersSound'
  <2>1. \A j \in Closers : closer'[j] = IF j = k THEN "waiting" ELSE closer[j]
    BY <1>1, Zenon DEF AgentInv, TypeOK
  <2> QED BY <1>1, <2>1 DEF AgentInv, ClosersSound
<1> QED BY <1>8, <1>9, Zenon DEF AgentInv

-----------------------------------------------------------------------------
(* The life of one Replica.                                                *)

\* One Replica moves on under its lock: its identity and counts stay, and it is
\* Ready if it was.
LEMMA ReplicaMoves ==
  ASSUME AgentInv, NEW a \in AssignmentIds, Known(a), NEW x \in Replica, Sound(x),
         replicas' = [replicas EXCEPT ![a] = x], SameReplica(replicas[a], x),
         replicas[a].done => x.done, ~x.preparing,
         replicas[a].state = "Ready" => x.state = "Ready",
         UNCHANGED <<gate, agentVars, inv>>, reply' = Silent
  PROVE  AgentInv'
<1>1. /\ UNCHANGED <<gate, now, born, inv, closing, closer, cacheClosing, closed>>
      /\ replicas \in [AssignmentIds -> Replica \cup {None}]
  BY Zenon DEF agentVars, AgentInv, TypeOK
<1>2. /\ replicas' \in [AssignmentIds -> Replica \cup {None}]
      /\ replicas'[a] = x /\ x # None
      /\ \A b \in AssignmentIds : b # a => replicas'[b] = replicas[b]
  BY <1>1, ReplicaNotNone, Zenon
<1>3. TypeOK'
  <2>1. AgentTypes'
    BY <1>1, <1>2, Zenon DEF AgentInv, TypeOK, GateTypeOK, AgentTypes
  <2> QED BY <2>1, SilentType, Zenon
<1>4. StoredIsCurrent'
  BY <1>1 DEF AgentInv, StoredIsCurrent
<1>5. ReplicasSound'
  BY <1>2, Zenon DEF AgentInv, ReplicasSound, Known
<1>6. CallsSound' /\ UsersAccounted' /\ UsersStay'
  <2>1. \A b \in AssignmentIds : (Known(b) <=> Known(b)')
                                 /\ SameReplica(replicas[b], replicas'[b])
    BY <1>2, Zenon DEF Known, SameReplica
  <2> QED BY <1>1, <2>1, CallsFrame, Zenon
<1>7. PermissionNeedsReadyReplica'
  <2> SUFFICES ASSUME NEW b \in AssignmentIds, gate.assignments[b] # None
               PROVE  Ready(b)' /\ replicas'[b].fence.assignment = gate.assignments[b]
    BY <1>1, Zenon DEF PermissionNeedsReadyReplica
  <2>1. Ready(b) /\ replicas[b].fence.assignment = gate.assignments[b]
    BY Zenon DEF AgentInv, PermissionNeedsReadyReplica
  <2> QED BY <1>2, <2>1, Zenon DEF Ready, Known, SameReplica
<1>8. PreparingIsCurrent'
  BY <1>1, <1>2, Zenon DEF AgentInv, PreparingIsCurrent, Known
<1>9. CacheClosesLast'
  <2>1. \A b \in AssignmentIds : Known(b)' => Known(b) /\ (replicas[b].done => replicas'[b].done)
    BY <1>2, Zenon DEF Known
  <2> QED BY <1>1, <2>1, CacheFrame, Zenon
<1>10. ClosersSound'
  BY <1>1, ClosersFrame, Zenon
<1> QED BY <1>3, <1>4, <1>5, <1>6, <1>7, <1>8, <1>9, <1>10, Zenon DEF AgentInv

\* finishPrepare keeps the invariant, whatever Cache.Acquire returned and whoever
\* stopped the Replica meanwhile.
LEMMA FinishPrepareKeeps ==
  ASSUME AgentInv, NEW a \in AssignmentIds, NEW outcome, FinishPrepare(a, outcome), reply' = Silent
  PROVE  AgentInv'
<1>1. Known(a) /\ replicas[a].preparing
  BY Zenon DEF FinishPrepare
<1>2. replicas[a] \in Replica /\ Sound(replicas[a])
  BY <1>1, KnownReplica, Zenon
<1>3. PICK r \in Replica : r = replicas[a]
  BY <1>2, Zenon
<1>4. PICK current \in BOOLEAN : current = CheckAssignment(gate, r.connection, r.fence)
  BY Zenon DEF CheckAssignment, CurrentControl
<1>5. closing \in BOOLEAN /\ (r.state = "Fetching" => ~closing)
  BY <1>1, <1>3, Zenon DEF AgentInv, TypeOK, PreparingIsCurrent, Live
<1>6. PICK shut \in BOOLEAN : shut = closing
  BY <1>5, Zenon
<1>7. PICK x : x = Prepared(r, outcome, shut, current)
  BY Zenon
<1>8. x \in Replica /\ Sound(x) /\ SameReplica(r, x) /\ ~x.preparing
  BY <1>1, <1>2, <1>3, <1>5, <1>6, <1>7, PreparedSound, Zenon
<1>9. replicas' = [replicas EXCEPT ![a] = x]
  BY <1>3, <1>4, <1>6, <1>7, Zenon DEF FinishPrepare, Prepared
<1>10. ~r.done /\ r.state # "Ready"
  BY <1>1, <1>2, <1>3, Zenon DEF Sound, Settling
<1>11. UNCHANGED <<gate, agentVars, inv>>
  BY Zenon DEF FinishPrepare
<1> QED BY <1>1, <1>3, <1>8, <1>9, <1>10, <1>11, ReplicaMoves, Zenon

\* A release that returns keeps the invariant.
LEMMA ReleaseLeaseKeeps ==
  ASSUME AgentInv, NEW a \in AssignmentIds, ReleaseLease(a), reply' = Silent
  PROVE  AgentInv'
<1>1. Known(a) /\ replicas[a].releasing /\ UNCHANGED <<gate, agentVars, inv>>
  BY Zenon DEF ReleaseLease
<1>2. replicas[a] \in Replica /\ Sound(replicas[a])
  BY <1>1, KnownReplica, Zenon
<1>3. PICK r \in Replica : r = replicas[a]
  BY <1>2, Zenon
<1> DEFINE t == [r EXCEPT !.releasing = FALSE]
           x == FinishTerminal(t)
<1>4. /\ t \in Replica /\ SameReplica(r, t) /\ t.state = r.state /\ t.preparing = r.preparing
      /\ t.lease = r.lease /\ ~t.releasing /\ t.done = r.done
  BY Zenon DEF Replica, SameReplica
<1>5. replicas' = [replicas EXCEPT ![a] = x]
  BY <1>3, Zenon DEF ReleaseLease, AgentInv, TypeOK
<1> HIDE DEF t
<1>6. /\ x \in Replica /\ SameReplica(t, x) /\ x.preparing = t.preparing /\ x.state = t.state
      /\ x.lease = t.lease /\ x.releasing = t.releasing
      /\ x.done <=> t.done \/ (t.state \in Terminal /\ ~t.preparing /\ t.users = 0 /\ ~t.lease /\ ~t.releasing)
  BY <1>4, Zenon DEF Replica, SameReplica, FinishTerminal
<1> HIDE DEF x
<1>7. Sound(x) /\ ~x.preparing
  BY <1>1, <1>2, <1>3, <1>4, <1>6, Zenon DEF Sound, Settling, SameReplica
<1>8. SameReplica(r, x) /\ (r.done => x.done) /\ (r.state = "Ready" => x.state = "Ready")
  BY <1>4, <1>6, Zenon DEF SameReplica
<1> QED BY <1>1, <1>3, <1>5, <1>6, <1>7, <1>8, ReplicaMoves, Zenon

\* Forgetting a Replica whose done channel is closed keeps the invariant: it has
\* no users and no permission left.
LEMMA AcknowledgeTerminalKeeps ==
  ASSUME AgentInv, NEW c \in Connection, NEW a \in AssignmentIds, AcknowledgeTerminal(c, a),
         reply' = Silent
  PROVE  AgentInv'
<1>1. /\ ~closing /\ Known(a) /\ replicas[a].state \in Terminal /\ replicas[a].done
      /\ replicas' = [replicas EXCEPT ![a] = None]
      /\ UNCHANGED <<gate, now, born, inv, closing, closer, cacheClosing, closed>>
  BY Zenon DEF AcknowledgeTerminal, agentVars
<1>t. replicas \in [AssignmentIds -> Replica \cup {None}]
  BY Zenon DEF AgentInv, TypeOK
<1>2. /\ replicas' \in [AssignmentIds -> Replica \cup {None}]
      /\ replicas'[a] = None
      /\ \A b \in AssignmentIds : b # a => replicas'[b] = replicas[b]
  BY <1>1, <1>t, Zenon
<1>3. TypeOK'
  <2>1. AgentTypes'
    BY <1>1, <1>2, Zenon DEF AgentInv, TypeOK, GateTypeOK, AgentTypes
  <2> QED BY <2>1, SilentType, Zenon
<1>4. StoredIsCurrent'
  BY <1>1, Zenon DEF AgentInv, StoredIsCurrent
<1>5. ReplicasSound'
  BY <1>2, Zenon DEF AgentInv, ReplicasSound, Known
<1>6. CallsSound' /\ UsersAccounted' /\ UsersStay'
  <2>1. replicas[a].users = 0
    BY <1>1, KnownReplica, Zenon DEF Sound, Settling
  <2>2. ASSUME NEW b \in AssignmentIds
        PROVE  /\ Known(b) /\ Known(b)' => SameReplica(replicas[b], replicas'[b])
               /\ Known(b) /\ ~Known(b)' => replicas[b].users = 0
               /\ ~(~Known(b) /\ Known(b)')
    BY <1>1, <1>2, <2>1, Zenon DEF Known, SameReplica
  <2> QED BY <1>1, <2>2, CallsFrame, Zenon
<1>7. PermissionNeedsReadyReplica'
  <2> SUFFICES ASSUME NEW b \in AssignmentIds, gate.assignments[b] # None
               PROVE  Ready(b)' /\ replicas'[b].fence.assignment = gate.assignments[b]
    BY <1>1, Zenon DEF PermissionNeedsReadyReplica
  <2>1. Ready(b) /\ replicas[b].fence.assignment = gate.assignments[b]
    BY Zenon DEF AgentInv, PermissionNeedsReadyReplica
  <2>2. b # a
    BY <1>1, <2>1, Zenon DEF Ready, Terminal
  <2> QED BY <1>2, <2>1, <2>2, Zenon DEF Ready, Known
<1>8. PreparingIsCurrent'
  BY <1>1, <1>2, Zenon DEF AgentInv, PreparingIsCurrent, Known
<1>9. CacheClosesLast'
  BY <1>1, CacheFrame, Zenon
<1>10. ClosersSound'
  BY <1>1, ClosersFrame, Zenon
<1> QED BY <1>3, <1>4, <1>5, <1>6, <1>7, <1>8, <1>9, <1>10, Zenon DEF AgentInv

\* Prepare adds a Replica bound to the current connection.
LEMMA PrepareKeeps ==
  ASSUME AgentInv, NEW c \in Connection, NEW f \in Fence, Prepare(c, f), reply' = Silent
  PROVE  AgentInv'
<1>0. PICK a \in AssignmentIds : a = f.assignment.id
  BY Zenon DEF Fence, Identity
<1>1. PICK inc : inc = born[a] + 1
  BY Zenon
<1> DEFINE n == NewReplica(c, f, inc)
           x == Transition(n, "Fetching")
<1>2. /\ ~closing /\ CheckAssignment(gate, c, f) /\ ~Known(a) /\ born[a] < MaxIncarnations
      /\ born' = [born EXCEPT ![a] = @ + 1]
      /\ replicas' = [replicas EXCEPT ![a] = x]
      /\ UNCHANGED <<gate, now, inv, closing, closer, cacheClosing, closed>>
  BY <1>0, <1>1, Zenon DEF Prepare
<1>t. /\ replicas \in [AssignmentIds -> Replica \cup {None}]
      /\ born \in [AssignmentIds -> 0..MaxIncarnations]
      /\ MaxIncarnations \in Nat
  BY AgentAssumption, Zenon DEF AgentInv, TypeOK
<1>3. inc \in 1..MaxIncarnations /\ born' \in [AssignmentIds -> 0..MaxIncarnations]
  BY <1>t, <1>1, <1>2
<1>4. n \in Replica /\ n.state = "Assigned"
  BY <1>3, Zenon DEF NewReplica, Replica, States, Live
<1>5. x = [n EXCEPT !.state = "Fetching"] /\ x \in Replica
  BY <1>4, TransitionIs, Zenon DEF ValidReplicaTransition, States, Live
<1>6. /\ x.state = "Fetching" /\ x.preparing /\ x.users = 0 /\ x.active = 0 /\ ~x.lease
      /\ ~x.releasing /\ ~x.done /\ x.connection = c /\ x.fence = f
  BY <1>5, Zenon DEF NewReplica
<1> HIDE DEF x
<1>7. Sound(x) /\ x # None
  BY <1>5, <1>6, ReplicaNotNone, Zenon DEF Sound, Settling
<1>8. /\ replicas' \in [AssignmentIds -> Replica \cup {None}]
      /\ replicas'[a] = x
      /\ \A b \in AssignmentIds : b # a => replicas'[b] = replicas[b]
  BY <1>2, <1>t, <1>5, Zenon
<1>9. TypeOK'
  <2>1. AgentTypes'
    BY <1>2, <1>3, <1>8, Zenon DEF AgentInv, TypeOK, GateTypeOK, AgentTypes
  <2> QED BY <2>1, SilentType, Zenon
<1>10. StoredIsCurrent'
  BY <1>2, Zenon DEF AgentInv, StoredIsCurrent
<1>11. ReplicasSound'
  BY <1>7, <1>8, Zenon DEF AgentInv, ReplicasSound, Known
<1>12. CallsSound' /\ UsersAccounted' /\ UsersStay'
  <2>1. ASSUME NEW b \in AssignmentIds
        PROVE  /\ Known(b) /\ Known(b)' => SameReplica(replicas[b], replicas'[b])
               /\ ~(Known(b) /\ ~Known(b)')
               /\ ~Known(b) /\ Known(b)' => replicas'[b].users = 0 /\ replicas'[b].active = 0
    BY <1>2, <1>6, <1>8, Zenon DEF Known, SameReplica
  <2> QED BY <1>2, <2>1, CallsFrame, Zenon
<1>13. PermissionNeedsReadyReplica'
  <2> SUFFICES ASSUME NEW b \in AssignmentIds, gate.assignments[b] # None
               PROVE  Ready(b)' /\ replicas'[b].fence.assignment = gate.assignments[b]
    BY <1>2, Zenon DEF PermissionNeedsReadyReplica
  <2>1. Ready(b) /\ replicas[b].fence.assignment = gate.assignments[b]
    BY Zenon DEF AgentInv, PermissionNeedsReadyReplica
  <2> QED BY <1>2, <1>8, <2>1, Zenon DEF Ready, Known
<1>14. PreparingIsCurrent'
  BY <1>2, <1>6, <1>8, Zenon DEF AgentInv, PreparingIsCurrent, Known
<1>15. CacheClosesLast'
  BY <1>2, CacheFrame, Zenon
<1>16. ClosersSound'
  BY <1>2, ClosersFrame, Zenon
<1> QED BY <1>9, <1>10, <1>11, <1>12, <1>13, <1>14, <1>15, <1>16, Zenon DEF AgentInv

\* What Install leaves of the gate's authority, and the one identity it may track.
LEMMA InstallIs ==
  ASSUME NEW g \in Gate, NEW c \in Connection, NEW auth \in Authorization, NEW t \in Nat
  PROVE  LET h == Install(g, c, auth, t).gate
         IN  /\ h.highest = g.highest /\ h.session = g.session /\ h.connection = g.connection
             /\ h.connected = g.connected
             /\ \A a \in AssignmentIds :
                  \/ h.assignments[a] = g.assignments[a]
                  \/ a = auth.fence.assignment.id /\ h.assignments[a] = auth.fence.assignment
<1> DEFINE r == ReadClock(g, t)
           record == [auth |-> auth, connection |-> c, receivedAt |-> t]
           identity == auth.fence.assignment
           h == [r EXCEPT !.assignments[identity.id] = identity,
                          !.authorizations[identity.id] = record]
<1>1. /\ r \in Gate
      /\ r.assignments = g.assignments /\ r.highest = g.highest /\ r.session = g.session
      /\ r.connection = g.connection /\ r.connected = g.connected
  BY ReadClockType, ReadClockStored, Zenon
<1>2. identity.id \in AssignmentIds
  BY Zenon DEF Authorization, Fence, Identity
<1>3. Install(g, c, auth, t).gate \in {g, r, h}
  BY Zenon DEF Install, Failed, Done
<1>4. /\ h.highest = r.highest /\ h.session = r.session /\ h.connection = r.connection
      /\ h.connected = r.connected
      /\ \A a \in AssignmentIds :
           h.assignments[a] = IF a = identity.id THEN identity ELSE r.assignments[a]
  <2> HIDE DEF r, record, identity
  <2> QED BY <1>1, <1>2, Zenon DEF Gate
<1> HIDE DEF h, r
<1> QED BY <1>1, <1>3, <1>4, Zenon

\* What the gate tracks and what is still preparing depend on the Replicas' states
\* and identities only.
LEMMA GateFrame ==
  ASSUME AgentInv, closing' = closing,
         gate'.highest = gate.highest, gate'.session = gate.session,
         gate'.connection = gate.connection, gate'.connected = gate.connected,
         \A a \in AssignmentIds :
           /\ Known(a)' <=> Known(a)
           /\ Known(a) => /\ replicas'[a].state = replicas[a].state
                          /\ replicas'[a].preparing = replicas[a].preparing
                          /\ replicas'[a].connection = replicas[a].connection
                          /\ replicas'[a].fence = replicas[a].fence
           /\ \/ gate'.assignments[a] = gate.assignments[a]
              \/ Ready(a) /\ replicas[a].fence.assignment = gate'.assignments[a]
  PROVE  PermissionNeedsReadyReplica' /\ PreparingIsCurrent'
<1>1. ASSUME NEW a \in AssignmentIds, gate'.assignments[a] # None
      PROVE  Ready(a)' /\ replicas'[a].fence.assignment = gate'.assignments[a]
  <2>1. Ready(a) /\ replicas[a].fence.assignment = gate'.assignments[a]
    BY <1>1, Zenon DEF AgentInv, PermissionNeedsReadyReplica
  <2> QED BY <2>1, Zenon DEF Ready
<1>2. ASSUME NEW a \in AssignmentIds, Known(a)', replicas'[a].preparing, replicas'[a].state \in Live
      PROVE  ~closing' /\ CheckAssignment(gate', replicas'[a].connection, replicas'[a].fence)
  <2>1. ~closing /\ CheckAssignment(gate, replicas[a].connection, replicas[a].fence)
    BY <1>2, Zenon DEF AgentInv, PreparingIsCurrent
  <2> QED BY <1>2, <2>1, Zenon DEF CheckAssignment, CurrentControl
<1> QED BY <1>1, <1>2, Zenon DEF PermissionNeedsReadyReplica, PreparingIsCurrent

\* An authorization is installed for a Ready Replica and for its very identity.
LEMMA InstallAuthorizationKeeps ==
  ASSUME AgentInv, NEW c \in Connection, NEW auth \in Authorization, InstallAuthorization(c, auth)
  PROVE  AgentInv'
<1>0. PICK a \in AssignmentIds : a = auth.fence.assignment.id
  BY Zenon DEF Authorization, Fence, Identity
<1>1. PICK r : r = Install(gate, c, auth, now)
  BY Zenon
<1>2. /\ Ready(a) /\ replicas[a].fence.assignment = auth.fence.assignment
      /\ gate' = r.gate /\ Answer(r.ok, "installed", auth.fence)
      /\ UNCHANGED <<replicas, now, born, inv, closing, closer, cacheClosing, closed>>
  BY <1>0, <1>1, Zenon DEF InstallAuthorization, agentVars
<1>t. gate \in Gate /\ now \in Nat
  BY Zenon DEF AgentInv, TypeOK, GateTypeOK
<1>3. /\ gate' \in Gate
      /\ \A b \in AssignmentIds : StoredCurrentIn(gate', b)
      /\ gate'.highest = gate.highest /\ gate'.session = gate.session
      /\ gate'.connection = gate.connection /\ gate'.connected = gate.connected
      /\ \A b \in AssignmentIds :
           \/ gate'.assignments[b] = gate.assignments[b]
           \/ b = a /\ gate'.assignments[b] = auth.fence.assignment
  <2>1. PICK g \in Gate : g = gate
    BY <1>t, Zenon
  <2>2. PICK t \in Nat : t = now
    BY <1>t, Zenon
  <2>3. PICK h : h = Install(g, c, auth, t).gate
    BY Zenon
  <2>4. \A b \in AssignmentIds : StoredCurrentIn(g, b)
    BY <2>1, StoredIsAll, Zenon DEF AgentInv
  <2>5. h \in Gate /\ \A b \in AssignmentIds : StoredCurrentIn(h, b)
    BY <2>3, <2>4, InstallType, InstallStored, Zenon
  <2>6. /\ h.highest = g.highest /\ h.session = g.session /\ h.connection = g.connection
        /\ h.connected = g.connected
        /\ \A b \in AssignmentIds :
             \/ h.assignments[b] = g.assignments[b]
             \/ b = auth.fence.assignment.id /\ h.assignments[b] = auth.fence.assignment
    BY <2>3, InstallIs, ZenonT(40)
  <2> QED BY <1>0, <1>1, <1>2, <2>1, <2>2, <2>3, <2>5, <2>6, Zenon
<1>4. TypeOK'
  <2>1. AgentTypes'
    BY <1>2, <1>3, Zenon DEF AgentInv, TypeOK, GateTypeOK, AgentTypes
  <2>2. reply' \in [op : {"none", "installed", "accepted"}, fence : Fence \cup {None}]
    BY <1>2, Zenon DEF Answer, Silent, Authorization
  <2> QED BY <2>1, <2>2, Zenon DEF TypeOK, AgentTypes, GateTypeOK
<1>5. StoredIsCurrent'
  BY <1>3, Zenon DEF StoredIsCurrent, StoredCurrentIn
<1>6. ReplicasSound'
  BY <1>2, Zenon DEF AgentInv, ReplicasSound, Known
<1>7. CallsSound' /\ UsersAccounted' /\ UsersStay'
  <2>1. \A b \in AssignmentIds : (Known(b)' <=> Known(b)) /\ SameReplica(replicas[b], replicas'[b])
    BY <1>2, Zenon DEF Known, SameReplica
  <2> QED BY <1>2, <2>1, CallsFrame, Zenon
<1>8. PermissionNeedsReadyReplica' /\ PreparingIsCurrent'
  <2>1. \A b \in AssignmentIds : Known(b)' <=> Known(b)
    BY <1>2, Zenon DEF Known
  <2> QED BY <1>2, <1>3, <2>1, GateFrame, Zenon
<1>9. CacheClosesLast'
  <2>1. \A b \in AssignmentIds : Known(b)' <=> Known(b)
    BY <1>2, Zenon DEF Known
  <2> QED BY <1>2, <2>1, CacheFrame, ZenonT(40)
<1>10. ClosersSound'
  BY <1>2, ClosersFrame, Zenon
<1> QED BY <1>4, <1>5, <1>6, <1>7, <1>8, <1>9, <1>10, Zenon DEF AgentInv

-----------------------------------------------------------------------------
(* Invocations.                                                            *)

\* The Assignment of an invocation past its first look is a known ID.
LEMMA CallAssignment ==
  ASSUME AgentInv, NEW i \in Invocations, inv[i].pc # "idle"
  PROVE  inv[i].fence \in Fence /\ Of(i) \in AssignmentIds
<1>1. inv[i].fence \in Fence
  BY Zenon DEF AgentInv, CallsSound, CallSound
<1> QED BY <1>1, Zenon DEF Of, Fence, Identity

\* A step of one invocation that neither enters nor leaves its Replica.
LEMMA CallMoves ==
  ASSUME AgentInv, NEW i \in Invocations, NEW x \in Invocation, CallSound(x),
         inv' = [inv EXCEPT ![i] = x],
         inv[i].pc \in Counted <=> x.pc \in Counted,
         x.pc \in Counted => x.fence = inv[i].fence /\ x.inc = inv[i].inc
                               /\ x.accepted = inv[i].accepted,
         UNCHANGED <<gate, replicas, agentVars>>, reply' = Silent
  PROVE  AgentInv'
<1>1. /\ UNCHANGED <<gate, replicas, now, born, closing, closer, cacheClosing, closed>>
      /\ inv \in [Invocations -> Invocation]
  BY Zenon DEF agentVars, AgentInv, TypeOK
<1>2. /\ inv' \in [Invocations -> Invocation]
      /\ inv'[i] = x /\ \A j \in Invocations : j # i => inv'[j] = inv[j]
  BY <1>1, Zenon
<1>k. \A a : Known(a)' <=> Known(a)
  BY <1>1, Zenon DEF Known
<1>3. TypeOK'
  <2>1. AgentTypes'
    BY <1>1, <1>2, Zenon DEF AgentInv, TypeOK, GateTypeOK, AgentTypes
  <2> QED BY <2>1, SilentType, Zenon
<1>4. StoredIsCurrent' /\ ReplicasSound'
  BY <1>1, <1>k, ZenonT(40) DEF AgentInv, StoredIsCurrent, ReplicasSound
<1>5. CallsSound'
  BY <1>2, Zenon DEF AgentInv, CallsSound
<1>6. UsersAccounted'
  <2>1. \A a : UsersOf(a)' = UsersOf(a)
    BY <1>2, Zenon DEF UsersOf, Of
  <2>2. \A j \in Invocations : inv[j].pc \in Counted => inv'[j].accepted = inv[j].accepted
    BY <1>2, Zenon
  <2>3. \A a : {j \in UsersOf(a) : inv'[j].accepted} = {j \in UsersOf(a) : inv[j].accepted}
    BY <2>2, Zenon DEF UsersOf
  <2> QED BY <1>1, <1>k, <2>1, <2>3, Zenon DEF AgentInv, UsersAccounted
<1>7. UsersStay'
  <2> SUFFICES ASSUME NEW j \in Invocations, inv'[j].pc \in Counted PROVE Same(j)'
    BY Zenon DEF UsersStay
  <2>1. inv[j].pc \in Counted /\ inv'[j].fence = inv[j].fence /\ inv'[j].inc = inv[j].inc
    BY <1>2, Zenon
  <2>2. Same(j)
    BY <2>1, Zenon DEF AgentInv, UsersStay
  <2> QED BY <1>1, <1>k, <2>1, <2>2, Zenon DEF Same, Of
<1>8. PermissionNeedsReadyReplica' /\ PreparingIsCurrent'
  BY <1>1, <1>k, GateFrame, Zenon
<1>9. CacheClosesLast'
  <2>1. \A j \in Invocations : inv[j].pc \in {"idle", "looked"} => inv'[j].pc \in {"idle", "looked"}
    BY <1>2, Zenon DEF Invocation, Pcs, Counted, Limiters
  <2> QED BY <1>1, <1>k, <2>1, CacheFrame, Zenon
<1>10. ClosersSound'
  BY <1>1, ClosersFrame, Zenon
<1> QED BY <1>3, <1>4, <1>5, <1>6, <1>7, <1>8, <1>9, <1>10, Zenon DEF AgentInv

\* A user of a Replica moves between its queues, or on to the end.
LEMMA UserMoves ==
  ASSUME AgentInv, NEW i \in Invocations, inv[i].pc \in Counted, NEW p \in Counted,
         NEW q \in {"no", "waiting", "leaving"},
         q # "no" => p \in Limiters,
         p = "finishing" \/ (inv[i].pc \notin {"accepted", "finishing"} /\ p # "accepted"),
         inv' = [inv EXCEPT ![i].pc = p, ![i].queue = q],
         UNCHANGED <<gate, replicas, agentVars>>, reply' = Silent
  PROVE  AgentInv'
<1>1. inv \in [Invocations -> Invocation] /\ CallSound(inv[i])
  BY Zenon DEF AgentInv, TypeOK, CallsSound
<1>2. PICK y \in Invocation : y = inv[i]
  BY <1>1, Zenon
<1> DEFINE x == [y EXCEPT !.pc = p, !.queue = q]
<1>3. inv' = [inv EXCEPT ![i] = x]
  BY <1>1, <1>2, Zenon
<1>4. /\ x \in Invocation /\ x.pc = p /\ x.queue = q /\ x.fence = y.fence /\ x.inc = y.inc
      /\ x.accepted = y.accepted
  BY Zenon DEF Invocation, Pcs
<1> HIDE DEF x
<1>5. CallSound(x)
  BY <1>1, <1>2, <1>4, Zenon DEF CallSound, Counted, Limiters
<1> QED BY <1>2, <1>3, <1>4, <1>5, CallMoves, Zenon

\* Every step of an invocation between entering its Replica and the serving
\* decision, and the end of its guest.
LEMMA QueueStepsKeep ==
  ASSUME AgentInv, NEW i \in Invocations, reply' = Silent,
         \/ AcquireSlot(i) \/ EnterQueue(i) \/ AcquireQueued(i) \/ LeaveQueue(i)
         \/ AdmissionStops(i) \/ Overloaded(i) \/ DeadlineExceeded(i) \/ Recheck(i)
         \/ AcceptanceStopped(i) \/ GuestEnds(i)
  PROVE  AgentInv'
<1>1. inv \in [Invocations -> Invocation] /\ CallSound(inv[i])
  BY Zenon DEF AgentInv, TypeOK, CallsSound
<1>2. inv[i].queue # "no" => inv[i].pc \in Limiters
  BY <1>1, Zenon DEF CallSound
<1>a. ASSUME NEW l \in Limiters PROVE After[l] \in Counted \ {"accepted", "finishing"}
  BY DEF After, Limiters, Counted
<1>3. ASSUME NEW q \in {"waiting", "leaving"}, inv[i].pc \in Limiters,
             inv' = [inv EXCEPT ![i].queue = q], UNCHANGED <<gate, replicas, agentVars>>
      PROVE  AgentInv'
  <2>1. PICK p \in Limiters : p = inv[i].pc
    BY <1>3, Zenon
  <2>2. inv' = [inv EXCEPT ![i].pc = p, ![i].queue = q]
    BY <1>1, <1>3, <2>1, Zenon DEF Invocation
  <2>3. p \in Counted /\ p \notin {"accepted", "finishing"}
    BY Zenon DEF Limiters, Counted
  <2> QED BY <1>3, <2>1, <2>2, <2>3, UserMoves, Zenon
<1>4. ASSUME NEW p \in Counted, Goto(i, p), UNCHANGED <<gate, replicas, agentVars>>,
             inv[i].pc \in Counted,
             p = "finishing" \/ (inv[i].pc \notin {"accepted", "finishing"} /\ p # "accepted")
      PROVE  AgentInv'
  BY <1>4, UserMoves, Zenon DEF Goto
<1>5. ASSUME inv[i].pc \in Limiters, Goto(i, After[inv[i].pc]), UNCHANGED <<gate, replicas, agentVars>>
      PROVE  AgentInv'
  <2>1. PICK p \in Counted \ {"accepted", "finishing"} : p = After[inv[i].pc]
    BY <1>5, <1>a, Zenon
  <2>2. inv[i].pc \in Counted /\ inv[i].pc \notin {"accepted", "finishing"}
    BY <1>5, Zenon DEF Limiters, Counted
  <2> QED BY <1>4, <1>5, <2>1, <2>2, Zenon
<1>6. "finishing" \in Counted /\ "program" \in Counted \ {"accepted", "finishing"}
  BY Zenon DEF Counted, Limiters
<1>7. CASE AcquireSlot(i) \/ LeaveQueue(i)
  BY <1>2, <1>5, <1>7, Zenon DEF AcquireSlot, LeaveQueue
<1>8. CASE EnterQueue(i) \/ AcquireQueued(i)
  BY <1>3, <1>8, Zenon DEF EnterQueue, AcquireQueued
<1>9. CASE AdmissionStops(i) \/ Overloaded(i) \/ DeadlineExceeded(i) \/ AcceptanceStopped(i) \/ GuestEnds(i)
  <2>1. inv[i].pc \in Counted /\ Goto(i, "finishing") /\ UNCHANGED <<gate, replicas, agentVars>>
    BY <1>9, Zenon DEF AdmissionStops, Overloaded, DeadlineExceeded, AcceptanceStopped, GuestEnds,
                Counted
  <2> QED BY <1>4, <1>6, <2>1, Zenon
<1>10. CASE Recheck(i)
  <2>1. PICK p \in {"program", "finishing"} : p = IF StillReady(i) THEN "program" ELSE "finishing"
    BY Zenon
  <2>2. inv[i].pc = "recheck" /\ Goto(i, p) /\ UNCHANGED <<gate, replicas, agentVars>>
    BY <1>10, <2>1, Zenon DEF Recheck
  <2>3. inv[i].pc \in Counted
    BY <2>2, Zenon DEF Counted
  <2> QED BY <1>4, <1>6, <2>2, <2>3, Zenon
<1> QED BY <1>7, <1>8, <1>9, <1>10, Zenon

\* The first look at the map, and being turned away at the second.
LEMMA LooksKeep ==
  ASSUME AgentInv, NEW i \in Invocations, reply' = Silent,
         TurnAway(i) \/ \E f \in Fence : Lookup(i, f)
  PROVE  AgentInv'
<1>0. Idle \in Invocation /\ CallSound(Idle) /\ "idle" \notin Counted /\ "looked" \notin Counted
  BY AgentAssumption DEF Idle, Invocation, Pcs, CallSound, Counted, Limiters
<1>1. CASE TurnAway(i)
  <2>1. inv' = [inv EXCEPT ![i] = Idle] /\ inv[i].pc = "looked" /\ UNCHANGED <<gate, replicas, agentVars>>
    BY <1>1, Zenon DEF TurnAway
  <2>2. Idle.pc = "idle"
    BY Zenon DEF Idle
  <2> QED BY <1>0, <2>1, <2>2, CallMoves, Zenon
<1>2. ASSUME NEW f \in Fence, Lookup(i, f) PROVE AgentInv'
  <2>1. PICK a \in AssignmentIds : a = f.assignment.id
    BY Zenon DEF Fence, Identity
  <2> DEFINE x == [Idle EXCEPT !.pc = "looked", !.fence = f, !.inc = replicas[a].inc]
  <2>2. /\ inv[i].pc = "idle" /\ Ready(a) /\ inv' = [inv EXCEPT ![i] = x]
        /\ UNCHANGED <<gate, replicas, agentVars>>
    BY <1>2, <2>1, Zenon DEF Lookup
  <2>3. replicas[a].inc \in 1..MaxIncarnations
    BY <2>2, Zenon DEF Ready, Known, AgentInv, TypeOK, Replica
  <2>4. x \in Invocation /\ x.pc = "looked" /\ x.queue = "no" /\ ~x.accepted /\ x.fence = f
    <3>1. replicas[a].inc \in 0..MaxIncarnations
      BY <2>3, AgentAssumption
    <3>2. PICK y \in Invocation : y = Idle
      BY <1>0, Zenon
    <3>3. y.queue = "no" /\ ~y.accepted
      BY <3>2, Zenon DEF Idle
    <3> QED BY <3>1, <3>2, <3>3, Zenon DEF Invocation, Pcs
  <2> HIDE DEF x
  <2>5. CallSound(x)
    BY <2>4, Zenon DEF CallSound
  <2> QED BY <1>0, <2>2, <2>4, <2>5, CallMoves, Zenon
<1> QED BY <1>1, <1>2, Zenon

\* The invocations of a Replica that were accepted and have not finished.
ActiveOf(a) == {j \in UsersOf(a) : inv[j].accepted}

\* One invocation moves together with its Replica: the invariant survives if the
\* counts follow the move, the Replica keeps its identity and its state (or has
\* just drained), and the gate keeps its authority and the identities it tracks.
LEMMA UserKeeps ==
  ASSUME AgentInv, NEW i \in Invocations, NEW y \in Invocation, CallSound(y),
         inv[i].pc # "idle", inv' = [inv EXCEPT ![i] = y],
         y.pc \in Counted => y.fence = inv[i].fence /\ y.inc = inv[i].inc,
         y.pc \in Counted \/ y.pc = "idle",
         closing /\ inv[i].pc = "looked" => y.pc = "idle",
         NEW a \in AssignmentIds, a = Of(i), Same(i),
         NEW x \in Replica, Sound(x), replicas' = [replicas EXCEPT ![a] = x],
         x.inc = replicas[a].inc, x.connection = replicas[a].connection,
         x.fence = replicas[a].fence, x.preparing = replicas[a].preparing,
         replicas[a].done => x.done,
         x.state = replicas[a].state \/ (replicas[a].state = "Draining" /\ x.state = "Stopped"),
         x.users = Cardinality(IF y.pc \in Counted THEN UsersOf(a) \cup {i} ELSE UsersOf(a) \ {i}),
         x.active = Cardinality(IF y.pc \in Counted /\ y.accepted
                                  THEN ActiveOf(a) \cup {i} ELSE ActiveOf(a) \ {i}),
         UNCHANGED agentVars, gate' \in Gate, \A b \in AssignmentIds : StoredCurrentIn(gate', b),
         reply' \in [op : {"none", "installed", "accepted"}, fence : Fence \cup {None}],
         gate'.highest = gate.highest, gate'.session = gate.session,
         gate'.connection = gate.connection, gate'.connected = gate.connected,
         gate'.assignments = gate.assignments
  PROVE  AgentInv'
<1>1. /\ UNCHANGED <<now, born, closing, closer, cacheClosing, closed>>
      /\ inv \in [Invocations -> Invocation]
      /\ replicas \in [AssignmentIds -> Replica \cup {None}]
  BY Zenon DEF agentVars, AgentInv, TypeOK
<1>2. /\ inv' \in [Invocations -> Invocation]
      /\ inv'[i] = y /\ \A j \in Invocations : j # i => inv'[j] = inv[j]
  BY <1>1, Zenon
<1>3. /\ replicas' \in [AssignmentIds -> Replica \cup {None}]
      /\ replicas'[a] = x /\ x # None /\ Known(a) /\ replicas[a].inc = inv[i].inc
      /\ \A b \in AssignmentIds : b # a => replicas'[b] = replicas[b]
  BY <1>1, ReplicaNotNone, Zenon DEF Same
<1>k. \A b \in AssignmentIds : Known(b)' <=> Known(b)
  BY <1>3, Zenon DEF Known
<1>o. \A j \in Invocations : inv'[j].pc \in Counted => Of(j)' = Of(j)
  BY <1>2, Zenon DEF Of
<1>4. TypeOK'
  BY <1>1, <1>2, <1>3, Zenon DEF AgentInv, TypeOK, GateTypeOK
<1>5. StoredIsCurrent'
  BY Zenon DEF StoredIsCurrent, StoredCurrentIn
<1>6. ReplicasSound'
  BY <1>3, <1>k, Zenon DEF AgentInv, ReplicasSound
<1>7. CallsSound'
  BY <1>2, Zenon DEF AgentInv, CallsSound
<1>8. UsersAccounted'
  <2>1. ASSUME NEW b \in AssignmentIds, b # a
        PROVE  UsersOf(b)' = UsersOf(b) /\ ActiveOf(b)' = ActiveOf(b)
    <3>1. UsersOf(b)' = UsersOf(b)
      <4>1. i \notin UsersOf(b) /\ i \notin UsersOf(b)'
        BY <1>2, <1>o, <2>1, Zenon DEF UsersOf
      <4>2. \A j \in Invocations : j # i => Of(j)' = Of(j)
        BY <1>2, Zenon DEF Of
      <4>3. \A j \in Invocations : j # i => (j \in UsersOf(b)' <=> j \in UsersOf(b))
        BY <1>2, <4>2, Zenon DEF UsersOf
      <4>4. UsersOf(b) \subseteq Invocations /\ UsersOf(b)' \subseteq Invocations
        BY Zenon DEF UsersOf
      <4>5. \A j : j \in UsersOf(b)' <=> j \in UsersOf(b)
        BY <4>1, <4>3, <4>4, Zenon
      <4> QED BY <4>5, Zenon
    <3>2. \A j \in UsersOf(b) : inv'[j] = inv[j]
      BY <1>2, <2>1, Zenon DEF UsersOf
    <3>3. {j \in UsersOf(b) : inv'[j].accepted} = {j \in UsersOf(b) : inv[j].accepted}
      BY <3>2, Zenon
    <3>4. ActiveOf(b)' = {j \in UsersOf(b) : inv'[j].accepted}
      BY <3>1, Zenon DEF ActiveOf
    <3> QED BY <3>1, <3>3, <3>4, Zenon DEF ActiveOf
  <2>2. UsersOf(a)' = IF y.pc \in Counted THEN UsersOf(a) \cup {i} ELSE UsersOf(a) \ {i}
    BY <1>2, <1>o, ZenonT(40) DEF UsersOf, Of
  <2>3. ActiveOf(a)' = IF y.pc \in Counted /\ y.accepted
                         THEN ActiveOf(a) \cup {i} ELSE ActiveOf(a) \ {i}
    <3>1. \A j \in Invocations :
             j \in ActiveOf(a)' <=> j \in UsersOf(a)' /\ inv'[j].accepted
      BY Zenon DEF ActiveOf
    <3>2. ActiveOf(a)' \subseteq Invocations /\ ActiveOf(a) \subseteq Invocations
      BY Zenon DEF ActiveOf, UsersOf
    <3> QED BY <1>2, <2>2, <3>1, <3>2, Zenon DEF ActiveOf
  <2> SUFFICES ASSUME NEW b \in AssignmentIds
               PROVE  /\ Known(b)' => /\ replicas'[b].users = Cardinality(UsersOf(b)')
                                      /\ replicas'[b].active = Cardinality(ActiveOf(b)')
                      /\ ~Known(b)' => UsersOf(b)' = {}
    BY Zenon DEF UsersAccounted, ActiveOf
  <2>4. CASE b = a
    BY <1>3, <1>k, <2>2, <2>3, <2>4, Zenon
  <2>5. CASE b # a
    <3>1. /\ Known(b) => /\ replicas[b].users = Cardinality(UsersOf(b))
                         /\ replicas[b].active = Cardinality(ActiveOf(b))
          /\ ~Known(b) => UsersOf(b) = {}
      BY Zenon DEF AgentInv, UsersAccounted, ActiveOf
    <3> QED BY <1>3, <1>k, <2>1, <2>5, <3>1, Zenon
  <2> QED BY <2>4, <2>5, Zenon
<1>9. UsersStay'
  <2> SUFFICES ASSUME NEW j \in Invocations, inv'[j].pc \in Counted PROVE Same(j)'
    BY Zenon DEF UsersStay
  <2>1. CASE j = i
    <3>1. Of(j)' = a /\ Known(a)'
      BY <1>3, <1>k, <1>o, <2>1, Zenon
    <3>2. replicas'[a].inc = inv'[j].inc
      BY <1>2, <1>3, <2>1, Zenon
    <3> QED BY <3>1, <3>2, Zenon DEF Same
  <2>2. CASE j # i
    <3>1. inv[j].pc \in Counted /\ inv'[j].inc = inv[j].inc /\ inv[j].pc # "idle"
      BY <1>2, <2>2, Zenon DEF Counted, Limiters
    <3>2. Same(j) /\ Of(j) \in AssignmentIds
      BY <3>1, CallAssignment, Zenon DEF AgentInv, UsersStay
    <3>3. PICK b \in AssignmentIds : b = Of(j)
      BY <3>2, Zenon
    <3>4. Of(j)' = b /\ Known(b) /\ replicas[b].inc = inv[j].inc
      BY <1>o, <3>2, <3>3, Zenon DEF Same
    <3>5. replicas'[b].inc = replicas[b].inc
      <4>1. CASE b = a  BY <1>3, <4>1, Zenon
      <4>2. CASE b # a  BY <1>3, <4>2, Zenon
      <4> QED BY <4>1, <4>2, Zenon
    <3>6. Known(b)' /\ replicas'[b].inc = inv'[j].inc
      BY <1>k, <3>1, <3>4, <3>5, Zenon
    <3> QED BY <3>4, <3>6, Zenon DEF Same
  <2> QED BY <2>1, <2>2, Zenon
<1>10. PermissionNeedsReadyReplica'
  <2> SUFFICES ASSUME NEW b \in AssignmentIds, gate.assignments[b] # None
               PROVE  Ready(b)' /\ replicas'[b].fence.assignment = gate.assignments[b]
    BY ZenonT(40) DEF PermissionNeedsReadyReplica
  <2>1. Ready(b) /\ replicas[b].fence.assignment = gate.assignments[b]
    BY Zenon DEF AgentInv, PermissionNeedsReadyReplica
  <2>2. Known(b)' /\ replicas[b].state # "Draining"
    BY <1>k, <2>1, Zenon DEF Ready
  <2>3. replicas'[b].state = "Ready" /\ replicas'[b].fence = replicas[b].fence
    <3>1. CASE b = a
      <4>1. x.state = replicas[b].state
        BY <2>2, <3>1, Zenon
      <4> QED BY <1>3, <2>1, <3>1, <4>1, Zenon DEF Ready
    <3>2. CASE b # a  BY <1>3, <2>1, <3>2, Zenon DEF Ready
    <3> QED BY <3>1, <3>2, Zenon
  <2> QED BY <2>1, <2>2, <2>3, Zenon DEF Ready
<1>11. PreparingIsCurrent'
  <2> SUFFICES ASSUME NEW b \in AssignmentIds, Known(b)', replicas'[b].preparing,
                      replicas'[b].state \in Live
               PROVE  ~closing' /\ CheckAssignment(gate', replicas'[b].connection, replicas'[b].fence)
    BY Zenon DEF PreparingIsCurrent
  <2>1. /\ Known(b) /\ replicas[b].preparing /\ replicas[b].state \in Live
        /\ replicas'[b].connection = replicas[b].connection /\ replicas'[b].fence = replicas[b].fence
    BY <1>3, <1>k, Zenon DEF Live
  <2>2. ~closing /\ CheckAssignment(gate, replicas[b].connection, replicas[b].fence)
    BY <2>1, Zenon DEF AgentInv, PreparingIsCurrent
  <2> QED BY <1>1, <2>1, <2>2, ZenonT(40) DEF CheckAssignment, CurrentControl
<1>12. CacheClosesLast'
  <2>1. \A j \in Invocations :
          inv[j].pc \in {"idle", "looked"} /\ closing => inv'[j].pc \in {"idle", "looked"}
    BY <1>2, Zenon
  <2>2. \A b \in AssignmentIds : Known(b)' => Known(b) /\ (replicas[b].done => replicas'[b].done)
    BY <1>3, <1>k, Zenon
  <2> QED BY <1>1, <2>1, <2>2, CacheFrame, Zenon
<1>13. ClosersSound'
  BY <1>1, ClosersFrame, Zenon
<1> QED BY <1>4, <1>5, <1>6, <1>7, <1>8, <1>9, <1>10, <1>11, <1>12, <1>13, Zenon DEF AgentInv

\* What is counted for the Replica of an invocation.
LEMMA Counts ==
  ASSUME AgentInv, NEW a \in AssignmentIds, Known(a)
  PROVE  /\ replicas[a].users = Cardinality(UsersOf(a))
         /\ replicas[a].active = Cardinality(ActiveOf(a))
         /\ IsFiniteSet(UsersOf(a)) /\ IsFiniteSet(ActiveOf(a))
         /\ replicas[a].users \in Nat /\ replicas[a].active \in Nat
<1>1. /\ replicas[a].users = Cardinality(UsersOf(a))
      /\ replicas[a].active = Cardinality(ActiveOf(a))
  BY Zenon DEF AgentInv, UsersAccounted, ActiveOf
<1>2. ActiveOf(a) \subseteq UsersOf(a)
  BY Zenon DEF ActiveOf
<1> QED BY <1>1, <1>2, UsersFinite, Zenon

\* An invocation enters its Replica only while the one it looked up is Ready.
LEMMA EnterKeeps ==
  ASSUME AgentInv, NEW i \in Invocations, Enter(i), reply' = Silent
  PROVE  AgentInv'
<1>1. /\ inv[i].pc = "looked" /\ ~closing /\ Same(i) /\ Ready(Of(i))
      /\ replicas' = [replicas EXCEPT ![Of(i)].users = @ + 1]
      /\ inv' = [inv EXCEPT ![i].pc = "replica", ![i].queue = "no"]
      /\ gate' = gate /\ UNCHANGED agentVars
  BY Zenon DEF Enter, StillReady, Goto
<1>2. PICK a \in AssignmentIds : a = Of(i)
  BY <1>1, CallAssignment, Zenon
<1>3. Known(a) /\ replicas[a] \in Replica /\ Sound(replicas[a]) /\ replicas[a].state = "Ready"
  BY <1>1, <1>2, KnownReplica, Zenon DEF Ready
<1>4. PICK r \in Replica : r = replicas[a]
  BY <1>3, Zenon
<1> DEFINE x == [r EXCEPT !.users = @ + 1]
<1>5. replicas' = [replicas EXCEPT ![a] = x]
  BY <1>1, <1>2, <1>4, Zenon DEF AgentInv, TypeOK
<1>6. /\ x \in Replica /\ x.users = r.users + 1 /\ x.active = r.active /\ x.state = r.state
      /\ x.inc = r.inc /\ x.connection = r.connection /\ x.fence = r.fence
      /\ x.preparing = r.preparing /\ x.lease = r.lease /\ x.releasing = r.releasing
      /\ x.done = r.done
  BY DEF Replica
<1> HIDE DEF x
<1>7. Sound(x)
  BY <1>3, <1>4, <1>6, Zenon DEF Sound, Settling, Terminal
<1>8. inv \in [Invocations -> Invocation] /\ CallSound(inv[i])
  BY Zenon DEF AgentInv, TypeOK, CallsSound
<1>9. PICK z \in Invocation : z = inv[i]
  BY <1>8, Zenon
<1> DEFINE y == [z EXCEPT !.pc = "replica", !.queue = "no"]
<1>10. inv' = [inv EXCEPT ![i] = y]
  BY <1>1, <1>8, <1>9, Zenon
<1>11. /\ y \in Invocation /\ y.pc = "replica" /\ y.queue = "no" /\ y.fence = z.fence
       /\ y.inc = z.inc /\ y.accepted = z.accepted
  BY Zenon DEF Invocation, Pcs, Counted, Limiters
<1> HIDE DEF y
<1>12. CallSound(y) /\ ~y.accepted /\ y.pc \in Counted
  BY <1>1, <1>8, <1>9, <1>11, Zenon DEF CallSound, Counted, Limiters
<1>13. i \notin UsersOf(a) /\ i \notin ActiveOf(a)
  BY <1>1, Zenon DEF UsersOf, ActiveOf, Counted, Limiters
<1>14. x.users = Cardinality(UsersOf(a) \cup {i}) /\ x.active = Cardinality(ActiveOf(a) \ {i})
  <2>1. Cardinality(UsersOf(a) \cup {i}) = Cardinality(UsersOf(a)) + 1
    BY <1>3, <1>13, Counts, FS_AddElement, Zenon
  <2>2. ActiveOf(a) \ {i} = ActiveOf(a)
    BY <1>13, Zenon
  <2> QED BY <1>3, <1>4, <1>6, <2>1, <2>2, Counts, Zenon
<1>15. gate \in Gate /\ \A b \in AssignmentIds : StoredCurrentIn(gate, b)
  BY StoredIsAll, Zenon DEF AgentInv, TypeOK, GateTypeOK
<1>16. reply' \in [op : {"none", "installed", "accepted"}, fence : Fence \cup {None}]
  BY Zenon DEF Silent
<1>17. /\ x.users = Cardinality(IF y.pc \in Counted THEN UsersOf(a) \cup {i} ELSE UsersOf(a) \ {i})
       /\ x.active = Cardinality(IF y.pc \in Counted /\ y.accepted
                                  THEN ActiveOf(a) \cup {i} ELSE ActiveOf(a) \ {i})
  BY <1>12, <1>14, Zenon
<1>18. y.fence = inv[i].fence /\ y.inc = inv[i].inc
  BY <1>9, <1>11, Zenon
<1>19. /\ gate' \in Gate /\ \A b \in AssignmentIds : StoredCurrentIn(gate', b)
       /\ inv[i].pc # "idle" /\ a = Of(i) /\ Same(i) /\ ~closing /\ UNCHANGED agentVars
  BY <1>1, <1>2, <1>15, Zenon
<1>20. /\ x \in Replica /\ x.state = replicas[a].state
       /\ x.inc = replicas[a].inc /\ x.connection = replicas[a].connection
       /\ x.fence = replicas[a].fence /\ x.preparing = replicas[a].preparing
       /\ replicas[a].done => x.done
  BY <1>4, <1>6, Zenon
<1>21. gate' = gate /\ y \in Invocation
  BY <1>1, <1>11, Zenon
<1> QED BY <1>5, <1>7, <1>10, <1>12, <1>16, <1>17, <1>18, <1>19, <1>20, <1>21, UserKeeps, Zenon

\* finishInvocation: the last user of a draining Replica stops it.
LEMMA FinishKeeps ==
  ASSUME AgentInv, NEW i \in Invocations, Finish(i), reply' = Silent
  PROVE  AgentInv'
<1>1. inv[i].pc = "finishing" /\ inv' = [inv EXCEPT ![i] = Idle] /\ gate' = gate /\ UNCHANGED agentVars
  BY Zenon DEF Finish
<1>2. PICK a \in AssignmentIds : a = Of(i)
  BY <1>1, CallAssignment, Zenon
<1>3. Same(i) /\ Known(a) /\ i \in UsersOf(a)
  BY <1>1, <1>2, Zenon DEF AgentInv, UsersStay, Counted, Same, UsersOf
<1>4. replicas[a] \in Replica /\ Sound(replicas[a])
  BY <1>3, KnownReplica, Zenon
<1>5. PICK r \in Replica : r = replicas[a]
  BY <1>4, Zenon
<1>6. PICK ran \in BOOLEAN : ran = inv[i].accepted
  BY Zenon DEF AgentInv, TypeOK, Invocation
<1>7. i \in ActiveOf(a) <=> ran
  BY <1>3, <1>6, Zenon DEF ActiveOf
<1> DEFINE t == [r EXCEPT !.users = @ - 1, !.active = IF ran THEN @ - 1 ELSE @]
           x == FinalizeIdle(t)
<1>8. replicas' = [replicas EXCEPT ![a] = x]
  BY <1>2, <1>5, <1>6, Zenon DEF Finish
<1>9. /\ r.users \in Nat /\ r.active \in Nat /\ r.users - 1 \in Nat
      /\ (IF ran THEN r.active - 1 ELSE r.active) \in Nat
      /\ r.users - 1 = Cardinality(UsersOf(a) \ {i})
      /\ (IF ran THEN r.active - 1 ELSE r.active) = Cardinality(ActiveOf(a) \ {i})
  <2>1. /\ Cardinality(UsersOf(a) \ {i}) = Cardinality(UsersOf(a)) - 1
        /\ IsFiniteSet(UsersOf(a) \ {i})
    BY <1>3, Counts, FS_RemoveElement, Zenon
  <2>2. ran => /\ Cardinality(ActiveOf(a) \ {i}) = Cardinality(ActiveOf(a)) - 1
               /\ IsFiniteSet(ActiveOf(a) \ {i})
    BY <1>3, <1>7, Counts, FS_RemoveElement, Zenon
  <2>3. ~ran => ActiveOf(a) \ {i} = ActiveOf(a)
    BY <1>7, Zenon
  <2>4. Cardinality(UsersOf(a) \ {i}) \in Nat /\ (ran => Cardinality(ActiveOf(a) \ {i}) \in Nat)
    BY <2>1, <2>2, FS_CardinalityType, Zenon
  <2> QED BY <1>3, <1>5, <2>1, <2>2, <2>3, <2>4, Counts, Zenon
<1>10. /\ t \in Replica /\ t.users = r.users - 1 /\ t.active = (IF ran THEN r.active - 1 ELSE r.active)
       /\ t.state = r.state /\ t.inc = r.inc /\ t.connection = r.connection /\ t.fence = r.fence
       /\ t.preparing = r.preparing /\ t.lease = r.lease /\ t.releasing = r.releasing
       /\ t.done = r.done
  BY <1>9, Zenon DEF Replica
<1> HIDE DEF t
<1>11. r.users # 0
  BY <1>9
<1>12. Settling(t) /\ ~r.done
  BY <1>4, <1>5, <1>10, <1>11, Zenon DEF Sound, Settling
<1>13. PICK v : v = FinalizeIdle(t)
  BY Zenon
<1>14. /\ v \in Replica /\ Sound(v) /\ SameReplica(t, v) /\ v.preparing = t.preparing
       /\ v.state = t.state \/ (t.state = "Draining" /\ v.state = "Stopped")
  BY <1>10, <1>12, <1>13, FinalizeSound, Zenon
<1>15. x = v
  BY <1>13, Zenon
<1> HIDE DEF x
<1>16. /\ v.users = Cardinality(UsersOf(a) \ {i}) /\ v.active = Cardinality(ActiveOf(a) \ {i})
       /\ v.inc = r.inc /\ v.connection = r.connection /\ v.fence = r.fence
  BY <1>9, <1>10, <1>14, Zenon DEF SameReplica
<1>17. gate \in Gate /\ \A b \in AssignmentIds : StoredCurrentIn(gate, b)
  BY StoredIsAll, Zenon DEF AgentInv, TypeOK, GateTypeOK
<1>18. reply' \in [op : {"none", "installed", "accepted"}, fence : Fence \cup {None}]
  BY Zenon DEF Silent
<1>19. Idle \in Invocation /\ CallSound(Idle) /\ Idle.pc = "idle" /\ "idle" \notin Counted
  BY AgentAssumption DEF Idle, Invocation, Pcs, CallSound, Counted, Limiters
<1> QED BY <1>1, <1>2, <1>3, <1>5, <1>8, <1>10, <1>12, <1>14, <1>15, <1>16, <1>17, <1>18, <1>19,
           UserKeeps, ZenonT(40)

\* What AuthorizeSync leaves of the gate's authority.
LEMMA AuthorizeIs ==
  ASSUME NEW g \in Gate, NEW f \in Fence, NEW t \in Nat
  PROVE  LET h == AuthorizeSync(g, f, t).gate
         IN  /\ h.highest = g.highest /\ h.session = g.session /\ h.connection = g.connection
             /\ h.connected = g.connected /\ h.assignments = g.assignments
<1> DEFINE r == ReadClock(g, t)
           h == [r EXCEPT !.authorizations[f.assignment.id] = None]
<1>1. /\ r \in Gate
      /\ r.assignments = g.assignments /\ r.highest = g.highest /\ r.session = g.session
      /\ r.connection = g.connection /\ r.connected = g.connected
  BY ReadClockType, ReadClockStored, Zenon
<1>2. AuthorizeSync(g, f, t).gate \in {g, r, h}
  BY Zenon DEF AuthorizeSync, Failed, Done
<1>3. /\ h.assignments = r.assignments /\ h.highest = r.highest /\ h.session = r.session
      /\ h.connection = r.connection /\ h.connected = r.connected
  <2> HIDE DEF r
  <2> QED BY <1>1, Zenon DEF Gate
<1> HIDE DEF h, r
<1> QED BY <1>1, <1>2, <1>3, Zenon

\* The gate after a serving decision: the same authority, nothing stale stored.
LEMMA AuthorizedGate ==
  ASSUME AgentInv, NEW f \in Fence, NEW ready \in BOOLEAN,
         gate' = IF ready THEN AuthorizeSync(gate, f, now).gate ELSE gate
  PROVE  /\ gate' \in Gate /\ \A b \in AssignmentIds : StoredCurrentIn(gate', b)
         /\ gate'.highest = gate.highest /\ gate'.session = gate.session
         /\ gate'.connection = gate.connection /\ gate'.connected = gate.connected
         /\ gate'.assignments = gate.assignments
<1>1. PICK g \in Gate : g = gate
  BY Zenon DEF AgentInv, TypeOK, GateTypeOK
<1>2. PICK t \in Nat : t = now
  BY Zenon DEF AgentInv, TypeOK, GateTypeOK
<1>3. \A b \in AssignmentIds : StoredCurrentIn(g, b)
  BY <1>1, StoredIsAll, Zenon DEF AgentInv
<1>4. PICK h : h = AuthorizeSync(g, f, t).gate
  BY Zenon
<1>5. h \in Gate /\ \A b \in AssignmentIds : StoredCurrentIn(h, b)
  BY <1>3, <1>4, AuthorizeType, AuthorizeStored, Zenon
<1>6. /\ h.highest = g.highest /\ h.session = g.session /\ h.connection = g.connection
      /\ h.connected = g.connected /\ h.assignments = g.assignments
  BY <1>4, AuthorizeIs, Zenon
<1>7. gate' = IF ready THEN h ELSE g
  BY <1>1, <1>2, <1>4, Zenon
<1> QED BY <1>1, <1>3, <1>5, <1>6, <1>7, Zenon

\* The serving decision: the invocation is counted as active exactly if it was
\* accepted.
LEMMA AcceptKeeps ==
  ASSUME AgentInv, NEW i \in Invocations, Accept(i)
  PROVE  AgentInv'
<1>0. PICK ready \in BOOLEAN : ready = StillReady(i)
  BY Zenon DEF StillReady, Same, Ready, Known
<1>1. PICK inTime \in BOOLEAN :
        LET d == AuthorizeSync(gate, inv[i].fence, now)
            accepted == ready /\ d.ok /\ inTime
        IN  /\ inv[i].pc = "check"
            /\ gate' = IF ready THEN d.gate ELSE gate
            /\ Answer(ready /\ d.ok, "accepted", inv[i].fence)
            /\ replicas' = IF accepted THEN [replicas EXCEPT ![Of(i)].active = @ + 1] ELSE replicas
            /\ inv' = [inv EXCEPT ![i].pc = IF accepted THEN "accepted" ELSE "finishing",
                                  ![i].accepted = accepted]
            /\ UNCHANGED agentVars
  BY <1>0, Zenon DEF Accept
<1>2. PICK accepted \in BOOLEAN :
        accepted = (ready /\ AuthorizeSync(gate, inv[i].fence, now).ok /\ inTime)
  BY Zenon
<1>3. /\ inv[i].pc = "check" /\ UNCHANGED agentVars
      /\ gate' = IF ready THEN AuthorizeSync(gate, inv[i].fence, now).gate ELSE gate
      /\ replicas' = IF accepted THEN [replicas EXCEPT ![Of(i)].active = @ + 1] ELSE replicas
      /\ inv' = [inv EXCEPT ![i].pc = IF accepted THEN "accepted" ELSE "finishing",
                            ![i].accepted = accepted]
  BY <1>1, <1>2, Zenon
<1>4. PICK a \in AssignmentIds : a = Of(i)
  BY <1>3, CallAssignment, Zenon
<1>5. PICK f \in Fence : f = inv[i].fence
  BY <1>3, CallAssignment, Zenon
<1>6. Same(i) /\ Known(a) /\ i \in UsersOf(a)
  BY <1>3, <1>4, Zenon DEF AgentInv, UsersStay, Counted, Same, UsersOf
<1>7. replicas[a] \in Replica /\ Sound(replicas[a])
  BY <1>6, KnownReplica, Zenon
<1>8. PICK r \in Replica : r = replicas[a]
  BY <1>7, Zenon
<1> DEFINE x == IF accepted THEN [r EXCEPT !.active = @ + 1] ELSE r
<1>9. replicas' = [replicas EXCEPT ![a] = x]
  BY <1>3, <1>4, <1>8, Zenon DEF AgentInv, TypeOK
<1>10. /\ x \in Replica /\ x.users = r.users
       /\ x.active = (IF accepted THEN r.active + 1 ELSE r.active)
       /\ x.state = r.state /\ x.inc = r.inc /\ x.connection = r.connection /\ x.fence = r.fence
       /\ x.preparing = r.preparing /\ x.lease = r.lease /\ x.releasing = r.releasing
       /\ x.done = r.done
  BY DEF Replica
<1> HIDE DEF x
<1>11. r.users # 0
  <2>1. r.users = Cardinality(UsersOf(a))
    BY <1>6, <1>8, Counts, Zenon
  <2> QED BY <1>6, <2>1, UsersFinite, FS_EmptySet, Zenon
<1>12. Sound(x)
  BY <1>7, <1>8, <1>10, <1>11, Zenon DEF Sound, Settling
<1>13. inv \in [Invocations -> Invocation] /\ CallSound(inv[i])
  BY Zenon DEF AgentInv, TypeOK, CallsSound
<1>14. PICK z \in Invocation : z = inv[i]
  BY <1>13, Zenon
<1> DEFINE y == [z EXCEPT !.pc = IF accepted THEN "accepted" ELSE "finishing", !.accepted = accepted]
<1>15. inv' = [inv EXCEPT ![i] = y]
  BY <1>3, <1>13, <1>14, Zenon
<1>16. /\ y \in Invocation /\ y.pc = (IF accepted THEN "accepted" ELSE "finishing")
       /\ y.queue = z.queue /\ y.fence = z.fence /\ y.inc = z.inc /\ y.accepted = accepted
  BY Zenon DEF Invocation, Pcs, Counted
<1> HIDE DEF y
<1>17. CallSound(y) /\ ~z.accepted /\ y.pc \in Counted
  BY <1>3, <1>5, <1>13, <1>14, <1>16, Zenon DEF CallSound, Counted, Limiters
<1>18. i \notin ActiveOf(a)
  BY <1>14, <1>17, Zenon DEF ActiveOf
<1>19. /\ x.users = Cardinality(IF y.pc \in Counted THEN UsersOf(a) \cup {i} ELSE UsersOf(a) \ {i})
       /\ x.active = Cardinality(IF y.pc \in Counted /\ y.accepted
                                  THEN ActiveOf(a) \cup {i} ELSE ActiveOf(a) \ {i})
  <2>1. UsersOf(a) \cup {i} = UsersOf(a) /\ ActiveOf(a) \ {i} = ActiveOf(a)
    BY <1>6, <1>18, Zenon
  <2>2. Cardinality(ActiveOf(a) \cup {i}) = Cardinality(ActiveOf(a)) + 1
    BY <1>6, <1>18, Counts, FS_AddElement, Zenon
  <2> QED BY <1>6, <1>8, <1>10, <1>16, <1>17, <2>1, <2>2, Counts, Zenon
<1>20. /\ gate' \in Gate /\ \A b \in AssignmentIds : StoredCurrentIn(gate', b)
       /\ gate'.highest = gate.highest /\ gate'.session = gate.session
       /\ gate'.connection = gate.connection /\ gate'.connected = gate.connected
       /\ gate'.assignments = gate.assignments
  BY <1>3, <1>5, AuthorizedGate, Zenon
<1>21. reply' \in [op : {"none", "installed", "accepted"}, fence : Fence \cup {None}]
  BY <1>1, <1>5, Zenon DEF Answer, Silent
<1>22. y.fence = inv[i].fence /\ y.inc = inv[i].inc /\ y \in Invocation
  BY <1>14, <1>16, Zenon
<1>23. /\ x \in Replica /\ x.state = replicas[a].state
       /\ x.inc = replicas[a].inc /\ x.connection = replicas[a].connection
       /\ x.fence = replicas[a].fence /\ x.preparing = replicas[a].preparing
       /\ replicas[a].done => x.done
  BY <1>8, <1>10, Zenon
<1>24. inv[i].pc # "idle" /\ inv[i].pc # "looked" /\ UNCHANGED agentVars
  BY <1>3, Zenon
<1> QED BY <1>4, <1>6, <1>9, <1>12, <1>15, <1>17, <1>19, <1>20, <1>21, <1>22, <1>23, <1>24, UserKeeps, Zenon

-----------------------------------------------------------------------------
(* Close and the clock.                                                    *)

\* Where gate, Replicas and invocations stand still, only what relates the
\* closers to the cache can change.
LEMMA StandStill ==
  ASSUME AgentInv, UNCHANGED <<gate, replicas, born, inv, closing>>, reply' = Silent,
         now' \in Nat, now' <= MaxTime, cacheClosing' \in BOOLEAN, closed' \in BOOLEAN,
         closer' \in [Closers -> {"idle", "waiting", "closing"}],
         CacheClosesLast', ClosersSound'
  PROVE  AgentInv'
<1>k. \A b : Known(b)' <=> Known(b)
  BY Zenon DEF Known
<1>1. TypeOK'
  <2>1. AgentTypes'
    BY Zenon DEF AgentInv, TypeOK, GateTypeOK, AgentTypes
  <2> QED BY <2>1, SilentType, Zenon
<1>2. StoredIsCurrent' /\ ReplicasSound'
  BY <1>k, Zenon DEF AgentInv, StoredIsCurrent, ReplicasSound
<1>3. CallsSound' /\ UsersAccounted' /\ UsersStay'
  <2>1. \A b \in AssignmentIds : SameReplica(replicas[b], replicas'[b])
    BY Zenon DEF SameReplica
  <2> QED BY <1>k, <2>1, CallsFrame, Zenon
<1>4. PermissionNeedsReadyReplica' /\ PreparingIsCurrent'
  BY <1>k, GateFrame, Zenon
<1> QED BY <1>1, <1>2, <1>3, <1>4, Zenon DEF AgentInv

\* A Replica with a user has its lease, is not releasing it, and is not done.
LEMMA UsedReplica ==
  ASSUME AgentInv, NEW i \in Invocations, inv[i].pc \in Counted
  PROVE  /\ Of(i) \in AssignmentIds /\ Same(i)
         /\ replicas[Of(i)].lease /\ ~replicas[Of(i)].releasing /\ ~replicas[Of(i)].done
<1>1. inv[i].pc # "idle"
  BY Zenon DEF Counted, Limiters
<1>2. PICK a \in AssignmentIds : a = Of(i)
  BY <1>1, CallAssignment, Zenon
<1>3. Same(i) /\ Known(a) /\ i \in UsersOf(a)
  BY <1>2, Zenon DEF AgentInv, UsersStay, Same, UsersOf
<1>4. replicas[a].users # 0
  <2>1. replicas[a].users = Cardinality(UsersOf(a))
    BY <1>3, Counts, Zenon
  <2> QED BY <1>3, <2>1, UsersFinite, FS_EmptySet, Zenon
<1>5. Sound(replicas[a])
  BY <1>3, KnownReplica, Zenon
<1> QED BY <1>2, <1>3, <1>4, <1>5, Zenon DEF Sound, Settling

\* The steps of Close after it has stopped everything.
LEMMA CloseStepsKeep ==
  ASSUME AgentInv, NEW k \in Closers, reply' = Silent,
         CloseCache(k) \/ CloseGivesUp(k) \/ \E ok \in BOOLEAN : CacheClosed(k, ok)
  PROVE  AgentInv'
<1>t. /\ closer \in [Closers -> {"idle", "waiting", "closing"}] /\ closed \in BOOLEAN
      /\ cacheClosing \in BOOLEAN /\ now \in Nat /\ now <= MaxTime
  BY Zenon DEF AgentInv, TypeOK, GateTypeOK
<1>s. /\ \A j \in Closers : /\ closer[j] # "idle" => closing
                            /\ closer[j] = "closing" => cacheClosing
      /\ \A j, l \in Closers : closer[j] = "closing" /\ closer[l] = "closing" => j = l
  BY Zenon DEF AgentInv, ClosersSound
<1>1. CASE CloseCache(k)
  <2>1. /\ closer[k] = "waiting" /\ AllDone /\ ~cacheClosing /\ cacheClosing' = ~closed
        /\ closer' = [closer EXCEPT ![k] = IF closed THEN "idle" ELSE "closing"]
        /\ UNCHANGED <<gate, now, replicas, born, inv, closing, closed>>
    BY <1>1, Zenon DEF CloseCache
  <2>2. CacheClosesLast'
    <3>1. \A i \in Invocations : inv[i].pc \in {"idle", "looked"}
      <4> SUFFICES ASSUME NEW i \in Invocations, inv[i].pc \in Counted PROVE FALSE
        BY Zenon DEF AgentInv, TypeOK, Invocation, Pcs
      <4>1. Known(Of(i)) /\ Of(i) \in AssignmentIds /\ ~replicas[Of(i)].done
        BY UsedReplica, Zenon DEF Same
      <4> QED BY <2>1, <4>1, Zenon DEF AllDone
    <3>2. closing /\ AllDone'
      BY <1>s, <2>1, Zenon DEF AllDone, Known
    <3> QED BY <2>1, <3>1, <3>2, Zenon DEF CacheClosesLast
  <2>3. \A j \in Closers : closer'[j] = IF j = k THEN (IF closed THEN "idle" ELSE "closing") ELSE closer[j]
    BY <1>t, <2>1, Zenon
  <2>4. ClosersSound'
    BY <1>s, <1>t, <2>1, <2>3, Zenon DEF ClosersSound
  <2>5. closer' \in [Closers -> {"idle", "waiting", "closing"}]
    BY <1>t, <2>1, Zenon
  <2> QED BY <1>t, <2>1, <2>2, <2>4, <2>5, StandStill, Zenon
<1>2. CASE CloseGivesUp(k)
  <2>1. /\ closer' = [closer EXCEPT ![k] = "idle"]
        /\ UNCHANGED <<gate, now, replicas, born, inv, closing, cacheClosing, closed>>
    BY <1>2, Zenon DEF CloseGivesUp
  <2>2. CacheClosesLast'
    BY <2>1, Zenon DEF AgentInv, CacheClosesLast, AllDone, Known
  <2>3. /\ \A j \in Closers : closer'[j] = IF j = k THEN "idle" ELSE closer[j]
        /\ closer' \in [Closers -> {"idle", "waiting", "closing"}]
    BY <1>t, <2>1, Zenon
  <2>4. ClosersSound'
    BY <1>s, <2>1, <2>3, Zenon DEF ClosersSound
  <2> QED BY <1>t, <2>1, <2>2, <2>3, <2>4, StandStill, Zenon
<1>3. ASSUME NEW ok \in BOOLEAN, CacheClosed(k, ok) PROVE AgentInv'
  <2>1. /\ closer[k] = "closing" /\ cacheClosing' = FALSE /\ closed' = (closed \/ ok)
        /\ closer' = [closer EXCEPT ![k] = "idle"]
        /\ UNCHANGED <<gate, now, replicas, born, inv, closing>>
    BY <1>3, Zenon DEF CacheClosed
  <2>2. CacheClosesLast'
    BY <1>s, <2>1, Zenon DEF AgentInv, CacheClosesLast, AllDone, Known
  <2>3. /\ \A j \in Closers : closer'[j] = IF j = k THEN "idle" ELSE closer[j]
        /\ closer' \in [Closers -> {"idle", "waiting", "closing"}]
    BY <1>t, <2>1, Zenon
  <2>4. ClosersSound'
    BY <1>s, <2>1, <2>3, Zenon DEF ClosersSound
  <2>5. cacheClosing' \in BOOLEAN /\ closed' \in BOOLEAN
    BY <2>1, Zenon
  <2> QED BY <1>t, <2>1, <2>2, <2>3, <2>4, <2>5, StandStill, Zenon
<1> QED BY <1>1, <1>2, <1>3, Zenon

\* The clock moves on.
LEMMA TickKeeps == ASSUME AgentInv, Tick, reply' = Silent PROVE AgentInv'
<1>1. /\ now' = now + 1 /\ now < MaxTime
      /\ UNCHANGED <<gate, replicas, born, inv, closing, closer, cacheClosing, closed>>
  BY Zenon DEF Tick
<1>2. now' \in Nat /\ now' <= MaxTime
  BY <1>1, TimeAssumption DEF AgentInv, TypeOK, GateTypeOK
<1>3. CacheClosesLast' /\ ClosersSound'
  BY <1>1, Zenon DEF AgentInv, CacheClosesLast, ClosersSound, AllDone, Known
<1>4. /\ cacheClosing' \in BOOLEAN /\ closed' \in BOOLEAN
      /\ closer' \in [Closers -> {"idle", "waiting", "closing"}]
  BY <1>1, Zenon DEF AgentInv, TypeOK
<1> QED BY <1>1, <1>2, <1>3, <1>4, StandStill, Zenon

-----------------------------------------------------------------------------
(* The invariant holds.                                                    *)

\* A new Agent has no Replica, no invocation and nobody closing it.
LEMMA AgentStart == Init => AgentInv
<1> SUFFICES ASSUME Init PROVE AgentInv
  BY Zenon
<1>1. GateTypeOK /\ StoredIsCurrent /\ now = 0 /\ \A a \in AssignmentIds : gate.assignments[a] = None
  BY TypeInit, Zenon DEF Init, GateInit, NewGate, Cleared, StoredIsCurrent
<1>2. /\ replicas = [a \in AssignmentIds |-> None] /\ born = [a \in AssignmentIds |-> 0]
      /\ inv = [i \in Invocations |-> Idle] /\ closing = FALSE
      /\ closer = [k \in Closers |-> "idle"] /\ cacheClosing = FALSE /\ closed = FALSE
  BY Zenon DEF Init
<1>3. Idle \in Invocation /\ CallSound(Idle) /\ Idle.pc = "idle" /\ "idle" \notin Counted
  BY AgentAssumption DEF Idle, Invocation, Pcs, CallSound, Counted, Limiters
<1>4. TypeOK
  <2>1. now <= MaxTime /\ 0 \in 0..MaxIncarnations
    BY <1>1, TimeAssumption, AgentAssumption
  <2> QED BY <1>1, <1>2, <1>3, <2>1, Zenon DEF TypeOK
<1>5. \A a \in AssignmentIds : ~Known(a)
  BY <1>2, Zenon DEF Known
<1>6. \A a \in AssignmentIds : UsersOf(a) = {}
  BY <1>2, <1>3, Zenon DEF UsersOf
<1>7. ReplicasSound /\ PreparingIsCurrent /\ PermissionNeedsReadyReplica
  BY <1>1, <1>5, Zenon DEF ReplicasSound, PreparingIsCurrent, PermissionNeedsReadyReplica
<1>8. CallsSound /\ UsersStay
  BY <1>2, <1>3, Zenon DEF CallsSound, UsersStay
<1>9. UsersAccounted
  BY <1>5, <1>6, Zenon DEF UsersAccounted
<1>10. CacheClosesLast /\ ClosersSound
  BY <1>2, Zenon DEF CacheClosesLast, ClosersSound
<1> QED BY <1>1, <1>4, <1>7, <1>8, <1>9, <1>10, Zenon DEF AgentInv

\* Every step of the Agent keeps the invariant.
LEMMA AgentStep == AgentInv /\ [Next]_<<vars, reply>> => AgentInv'
<1> SUFFICES ASSUME AgentInv, [Next]_<<vars, reply>> PROVE AgentInv'
  BY Zenon
<1>1. CASE ControlNext /\ reply' = Silent
  BY <1>1, AcceptControlKeeps, DisconnectKeeps, PrepareKeeps, CancelKeeps,
     AcknowledgeTerminalKeeps, Zenon DEF ControlNext
<1>2. ASSUME NEW a \in AssignmentIds, ReplicaNext(a), reply' = Silent PROVE AgentInv'
  BY <1>2, FinishPrepareKeeps, ReleaseLeaseKeeps, Zenon DEF ReplicaNext
<1>3. ASSUME NEW i \in Invocations, InvocationNext(i), reply' = Silent PROVE AgentInv'
  BY <1>3, LooksKeep, EnterKeeps, QueueStepsKeep, FinishKeeps, Zenon DEF InvocationNext
<1>4. ASSUME NEW k \in Closers, CloserNext(k), reply' = Silent PROVE AgentInv'
  BY <1>4, BeginCloseKeeps, CloseStepsKeep, Zenon DEF CloserNext
<1>5. ASSUME QuietNext, reply' = Silent PROVE AgentInv'
  BY <1>1, <1>2, <1>3, <1>4, <1>5, TickKeeps, Zenon DEF QuietNext
<1>6. CASE UNCHANGED <<vars, reply>>
  <2>1. UNCHANGED <<gate, now, replicas, born, inv, closing, closer, cacheClosing, closed, reply>>
    BY <1>6, Zenon DEF vars
  <2>2. \A b : Known(b)' <=> Known(b)
    BY <2>1, Zenon DEF Known
  <2>3. TypeOK' /\ StoredIsCurrent'
    BY <2>1, ZenonT(40) DEF AgentInv, TypeOK, GateTypeOK, StoredIsCurrent
  <2>4. ReplicasSound' /\ PermissionNeedsReadyReplica' /\ PreparingIsCurrent'
    BY <2>1, <2>2, GateFrame, Zenon DEF AgentInv, ReplicasSound
  <2>5. CallsSound' /\ UsersAccounted' /\ UsersStay'
    <3>1. \A b \in AssignmentIds : SameReplica(replicas[b], replicas'[b])
      BY <2>1, Zenon DEF SameReplica
    <3> QED BY <2>1, <2>2, <3>1, CallsFrame, Zenon
  <2>6. CacheClosesLast' /\ ClosersSound'
    BY <2>1, <2>2, CacheFrame, ClosersFrame, Zenon
  <2> QED BY <2>3, <2>4, <2>5, <2>6, Zenon DEF AgentInv
<1> QED BY <1>5, <1>6, InstallAuthorizationKeeps, AcceptKeeps, Zenon DEF Next

\* The invariant gives every user of a Replica its lease.
LEMMA LeaseHeld == AgentInv => LeaseOutlivesUsers
  BY UsedReplica, Zenon DEF LeaseOutlivesUsers

\* Of every behaviour of the Agent.
LEMMA AgentAlways == Spec => []AgentInv
  BY AgentStart, AgentStep, PTL DEF Spec

\* THEOREM: what every locked section of the Agent may rely on, for any number of
\* Assignments, invocations and closers and any capacities: transitionLocked never
\* panics, users and active count the calls they stand for, the lease outlives the
\* calls, done is closed last of a Replica and the cache last of the Agent.
THEOREM AgentHolds == Spec => []AgentInvariant
<1>1. AgentInv => AgentInvariant
  <2> SUFFICES ASSUME AgentInv PROVE AgentInvariant
    BY Zenon
  <2>1. NoPanic /\ DoneIsFinal
    BY Zenon DEF AgentInv, ReplicasSound, Sound, Settling, NoPanic, DoneIsFinal, Terminal
  <2>2. LeaseOutlivesUsers
    BY LeaseHeld, Zenon
  <2> QED BY <2>1, <2>2, Zenon DEF AgentInv, AgentInvariant
<1> QED BY <1>1, AgentAlways, PTL

\* THEOREM: the gate tracks an Assignment only while its Replica is Ready, with
\* the identity the Replica was prepared for.
THEOREM PermissionAlwaysNeedsReadyReplica == Spec => []PermissionNeedsReadyReplica
<1>1. AgentInv => PermissionNeedsReadyReplica
  BY Zenon DEF AgentInv
<1> QED BY <1>1, AgentAlways, PTL

\* THEOREM: behind the Agent as on its own, the gate stores nothing that its
\* authority has outlived.
THEOREM AgentStoresCurrent == Spec => []StoredIsCurrent
<1>1. AgentInv => StoredIsCurrent
  BY Zenon DEF AgentInv
<1> QED BY <1>1, AgentAlways, PTL

-----------------------------------------------------------------------------
(* The Agent implements ServingPermission.                                 *)

\* Revoking under a gate that knows no more, or has a new authority.
LEMMA StopPermission ==
  ASSUME AgentInv, AgentInv', ClockBehind, NEW g \in Gate, NEW S, gate' = Revoke(g, S),
         now' = now, reply' = Silent,
         \/ /\ g.highest = gate.highest /\ g.session = gate.session
            /\ g.connection = gate.connection /\ (g.connected => gate.connected)
            /\ g.clockHealthy = gate.clockHealthy /\ g.lastElapsed = gate.lastElapsed
            /\ g.authorizations = gate.authorizations
         \/ /\ g.authorizations = Cleared /\ g.lastElapsed = gate.lastElapsed
            /\ g.highest >= gate.highest /\ g.session >= gate.session
            /\ g.highest > gate.highest \/ g.session > gate.session
  PROVE  (Permission!Withdraw \/ Permission!NewAuthority) /\ ClockBehind'
<1>1. /\ gate'.highest = g.highest /\ gate'.session = g.session
      /\ gate'.connection = g.connection /\ gate'.connected = g.connected
      /\ gate'.clockHealthy = g.clockHealthy /\ gate'.lastElapsed = g.lastElapsed
      /\ \A a \in AssignmentIds : gate'.authorizations[a] \in {None, g.authorizations[a]}
      /\ g.authorizations = Cleared => gate'.authorizations = Cleared
  BY Zenon DEF Revoke, Gate, Cleared
<1>2. GateTypeOK /\ GateTypeOK'
  BY Zenon DEF AgentInv, TypeOK
<1> QED BY <1>1, <1>2, FewerPermissions, HigherAuthority, Zenon

\* Every step of the Agent is a step of ServingPermission or changes nothing that
\* ServingPermission sees.
LEMMA AgentPermissionStep ==
  AgentInv /\ AgentInv' /\ ClockBehind /\ [Next]_<<vars, reply>>
    => [Permission!PermissionNext]_(Permission!pvars) /\ ClockBehind'
<1> SUFFICES ASSUME AgentInv, AgentInv', ClockBehind, [Next]_<<vars, reply>>
             PROVE  [Permission!PermissionNext]_(Permission!pvars) /\ ClockBehind'
  BY Zenon
<1>t. GateTypeOK /\ GateTypeOK' /\ gate \in Gate
  BY Zenon DEF AgentInv, TypeOK, GateTypeOK
<1>w. ASSUME gate' = gate, now' = now, reply' = Silent PROVE Permission!Withdraw /\ ClockBehind'
  BY <1>t, <1>w, FewerPermissions, Zenon
<1>g. ASSUME GateNext, ~ClockRegresses
      PROVE  [Permission!PermissionNext]_(Permission!pvars) /\ ClockBehind'
  BY <1>t, <1>g, ClockBehindStep, PermissionStep, Zenon
<1>s. ASSUME NEW ids, NEW s, StopAll(ids, s, gate), now' = now, reply' = Silent
      PROVE  (Permission!Withdraw \/ Permission!NewAuthority) /\ ClockBehind'
  <2>1. PICK S : gate' = Revoke(gate, S)
    BY <1>s, Zenon DEF StopAll
  <2> QED BY <1>t, <1>s, <2>1, StopPermission, Zenon
<1>1. ASSUME NEW c \in Connection, AcceptControl(c), reply' = Silent
      PROVE  (Permission!Withdraw \/ Permission!NewAuthority) /\ ClockBehind'
  <2>1. PICK g : g = AcceptAuthoritativeControl(gate, c).gate
    BY Zenon
  <2>2. (\E ids : StopAll(ids, "Lost", g)) /\ now' = now
    BY <1>1, <2>1, Zenon DEF AcceptControl, agentVars
  <2>3. PICK S : gate' = Revoke(g, S)
    BY <2>2, Zenon DEF StopAll
  <2>4. PICK h \in Gate : h = gate
    BY <1>t, Zenon
  <2>5. \/ g = h
        \/ /\ g.authorizations = Cleared /\ g.lastElapsed = h.lastElapsed
           /\ g.highest >= h.highest /\ g.session >= h.session
           /\ g.highest > h.highest \/ g.session > h.session
    BY <2>1, <2>4, AcceptAuthority, Zenon
  <2>6. g \in Gate
    BY <1>t, <2>1, AcceptType, Zenon
  <2> QED BY <1>1, <2>2, <2>3, <2>4, <2>5, <2>6, StopPermission, Zenon
<1>2. ASSUME NEW c \in Connection, Disconnect(c), reply' = Silent
      PROVE  (Permission!Withdraw \/ Permission!NewAuthority) /\ ClockBehind'
  <2>1. PICK g : g = DisconnectControl(gate, c)
    BY Zenon
  <2>2. (\E ids : StopAll(ids, "Lost", g)) /\ now' = now
    BY <1>2, <2>1, Zenon DEF Disconnect, agentVars
  <2>3. PICK S : gate' = Revoke(g, S)
    BY <2>2, Zenon DEF StopAll
  <2>4. /\ g \in Gate
        /\ g.highest = gate.highest /\ g.session = gate.session
        /\ g.connection = gate.connection /\ (g.connected => gate.connected)
        /\ g.clockHealthy = gate.clockHealthy /\ g.lastElapsed = gate.lastElapsed
        /\ g.authorizations = gate.authorizations
    BY <1>t, <2>1, DisconnectType, Zenon DEF DisconnectControl, Gate
  <2> QED BY <1>2, <2>2, <2>3, <2>4, StopPermission, Zenon
<1>3. CASE ControlNext /\ reply' = Silent
  <2>1. ASSUME NEW c \in Connection, NEW f \in Fence, Prepare(c, f) \/ Cancel(c, f)
        PROVE  (Permission!Withdraw \/ Permission!NewAuthority) /\ ClockBehind'
    BY <1>w, <1>s, <1>3, <2>1, Zenon DEF Prepare, Cancel, agentVars
  <2>2. ASSUME NEW c \in Connection, NEW a \in AssignmentIds, AcknowledgeTerminal(c, a)
        PROVE  Permission!Withdraw /\ ClockBehind'
    BY <1>w, <1>3, <2>2, Zenon DEF AcknowledgeTerminal, agentVars
  <2> QED BY <1>1, <1>2, <1>3, <2>1, <2>2, Zenon DEF ControlNext, Permission!PermissionNext
<1>4. ASSUME NEW a \in AssignmentIds, ReplicaNext(a), reply' = Silent
      PROVE  Permission!Withdraw /\ ClockBehind'
  BY <1>w, <1>4, Zenon DEF ReplicaNext, FinishPrepare, ReleaseLease, agentVars
<1>5. ASSUME NEW i \in Invocations, InvocationNext(i), reply' = Silent
      PROVE  Permission!Withdraw /\ ClockBehind'
  <2>1. gate' = gate /\ now' = now
    BY <1>5, Zenon DEF InvocationNext, Lookup, Enter, TurnAway, AcquireSlot, EnterQueue, AcquireQueued,
                LeaveQueue, AdmissionStops, Overloaded, DeadlineExceeded, Recheck,
                AcceptanceStopped, GuestEnds, Finish, agentVars
  <2> QED BY <1>w, <1>5, <2>1, Zenon
<1>6. ASSUME NEW k \in Closers, CloserNext(k), reply' = Silent
      PROVE  (Permission!Withdraw \/ Permission!NewAuthority) /\ ClockBehind'
  BY <1>w, <1>s, <1>6, Zenon DEF CloserNext, BeginClose, CloseCache, CloseGivesUp, CacheClosed
<1>7. CASE Tick /\ reply' = Silent
  <2>1. GateTick
    BY <1>7, Zenon DEF Tick, GateTick
  <2>2. ~ClockRegresses
    BY <1>7, <1>t DEF Tick, ClockRegresses, GateTypeOK
  <2> QED BY <1>g, <2>1, <2>2, Zenon DEF GateNext
<1>8. CASE QuietNext /\ reply' = Silent
  BY <1>3, <1>4, <1>5, <1>6, <1>7, <1>8, Zenon DEF QuietNext, Permission!PermissionNext
<1>9. ASSUME NEW c \in Connection, NEW auth \in Authorization, InstallAuthorization(c, auth)
      PROVE  [Permission!PermissionNext]_(Permission!pvars) /\ ClockBehind'
  <2>1. InstallStep(c, auth)
    BY <1>9, Zenon DEF InstallAuthorization, InstallStep, agentVars
  <2>2. ~ClockRegresses
    BY <1>t, <2>1 DEF InstallStep, ClockRegresses, GateTypeOK
  <2> QED BY <1>g, <2>1, <2>2, Zenon DEF GateNext
<1>10. ASSUME NEW i \in Invocations, Accept(i)
       PROVE  [Permission!PermissionNext]_(Permission!pvars) /\ ClockBehind'
  <2>1. inv[i].pc = "check" /\ now' = now
    BY <1>10, Zenon DEF Accept, agentVars
  <2>2. PICK f \in Fence : f = inv[i].fence
    BY <2>1, CallAssignment, Zenon
  <2>3. CASE StillReady(i)
    <3>1. AuthorizeStep(f)
      <4>1. PICK r : r = AuthorizeSync(gate, f, now)
        BY Zenon
      <4>2. gate' = r.gate /\ Answer(TRUE /\ r.ok, "accepted", f)
        BY <1>10, <2>2, <2>3, <4>1, Zenon DEF Accept
      <4>3. (TRUE /\ r.ok) <=> r.ok
        BY Zenon
      <4> QED BY <2>1, <4>1, <4>2, <4>3, Zenon DEF AuthorizeStep, Answer
    <3>2. ~ClockRegresses
      BY <1>t, <2>1 DEF ClockRegresses, GateTypeOK
    <3> QED BY <1>g, <3>1, <3>2, Zenon DEF GateNext
  <2>4. CASE ~StillReady(i)
    <3>1. gate' = gate /\ reply' = Silent
      BY <1>10, <2>4, Zenon DEF Accept, Answer
    <3> QED BY <1>w, <2>1, <3>1, Zenon DEF Permission!PermissionNext
  <2> QED BY <2>3, <2>4, Zenon
<1>11. CASE UNCHANGED <<vars, reply>>
  <2>1. gate' = gate /\ now' = now /\ reply' = reply
    BY <1>11, Zenon DEF vars
  <2>2. Acceptable' = Acceptable
    BY <2>1, Zenon DEF Acceptable
  <2> QED BY <2>1, <2>2, Zenon DEF Permission!pvars, ClockBehind
<1> QED BY <1>8, <1>9, <1>10, <1>11, Zenon DEF Next

\* THEOREM: the Agent implements ServingPermission, whatever its invocations,
\* preparations and closers do: a permission lost by Cancel, Close, a new session,
\* disconnection or expiry comes back only with a new InstallAuthorization, and a
\* call is accepted only under a permission that was installed.
THEOREM AgentImplementsPermission == Spec => ImplementsPermission
<1>1. Init => Permission!PermissionInit /\ ClockBehind
  <2> SUFFICES ASSUME GateInit PROVE Permission!PermissionInit /\ ClockBehind
    BY Zenon DEF Init
  <2>1. /\ gate.highest = 0 /\ gate.session = 0 /\ gate.authorizations = Cleared
        /\ gate.lastElapsed = 0 /\ now = 0 /\ reply = Silent
    BY Zenon DEF GateInit, NewGate
  <2>2. Acceptable = {}
    <3>1. gate \in Gate /\ now \in Nat
      BY TypeInit, Zenon DEF GateTypeOK
    <3> QED BY <2>1, <3>1, TypeInit, AcceptableIs, ClearedAccepts, Zenon
  <2> QED BY <2>1, <2>2
          DEF Permission!PermissionInit, Permission!Silent, Silent, ClockBehind, Cleared
<1> QED BY <1>1, AgentPermissionStep, AgentAlways, PTL
        DEF Spec, ImplementsPermission, Permission!PermissionSpec

-----------------------------------------------------------------------------
(* Accepted calls.                                                         *)

\* No step but Accept accepts a call, and none takes an accepted call away.
LEMMA AcceptedStays ==
  ASSUME AgentInv, [Next]_<<vars, reply>>, NEW i \in Invocations
  PROVE  /\ inv[i].pc # "accepted" /\ inv'[i].pc = "accepted" => Accept(i)
         /\ inv[i].pc = "accepted" =>
              inv'[i].pc \in {"accepted", "finishing"} /\ inv'[i].fence = inv[i].fence
<1> DEFINE Kept == /\ inv[i].pc # "accepted" => inv'[i].pc # "accepted"
                   /\ inv[i].pc = "accepted" =>
                        inv'[i].pc \in {"accepted", "finishing"} /\ inv'[i].fence = inv[i].fence
<1>t. inv \in [Invocations -> Invocation] /\ \A j \in Invocations : CallSound(inv[j])
  BY Zenon DEF AgentInv, TypeOK, CallsSound
<1>0. ASSUME inv' = inv PROVE Kept
  BY <1>0, Zenon
<1>1. ASSUME NEW j \in Invocations, NEW p \in Pcs \ {"accepted"}, NEW q,
             inv' = [inv EXCEPT ![j].pc = p, ![j].queue = q],
             inv[j].pc = "accepted" => p = "finishing"
      PROVE  Kept
  BY <1>t, <1>1, Zenon DEF Invocation
<1>2. ASSUME NEW j \in Invocations, NEW x \in Invocation, inv' = [inv EXCEPT ![j] = x],
             inv[j].pc # "accepted", x.pc # "accepted"
      PROVE  Kept
  BY <1>t, <1>2, Zenon
<1>3. ASSUME NEW j \in Invocations, InvocationNext(j) PROVE Kept
  <2>a. ASSUME NEW l \in Limiters PROVE After[l] \in Pcs \ {"accepted"} /\ l # "accepted"
    BY DEF After, Limiters, Counted, Pcs
  <2>p. {"replica", "program", "finishing"} \subseteq Pcs \ {"accepted"}
    BY Zenon DEF Pcs, Counted, Limiters
  <2>g. ASSUME NEW p \in Pcs \ {"accepted"}, Goto(j, p), inv[j].pc = "accepted" => p = "finishing"
        PROVE  Kept
    BY <1>1, <2>g, Zenon DEF Goto
  <2>q. inv[j].queue = "leaving" => inv[j].pc \in Limiters
    BY <1>t, Zenon DEF CallSound
  <2>1. ASSUME inv[j].pc \in Limiters, Goto(j, After[inv[j].pc]) PROVE Kept
    BY <2>a, <2>g, <2>1, Zenon
  <2>2. CASE AcquireSlot(j) \/ LeaveQueue(j)
    BY <2>q, <2>1, <2>2, Zenon DEF AcquireSlot, LeaveQueue
  <2>3. CASE EnterQueue(j) \/ AcquireQueued(j)
    <3>1. PICK q : inv' = [inv EXCEPT ![j].queue = q]
      BY <2>3, Zenon DEF EnterQueue, AcquireQueued
    <3> QED BY <1>t, <3>1, Zenon DEF Invocation
  <2>4. CASE AdmissionStops(j) \/ Overloaded(j) \/ DeadlineExceeded(j) \/ AcceptanceStopped(j)
             \/ GuestEnds(j)
    BY <2>p, <2>g, <2>4, Zenon
       DEF AdmissionStops, Overloaded, DeadlineExceeded, AcceptanceStopped, GuestEnds
  <2>5. CASE Recheck(j)
    <3>1. PICK p \in {"program", "finishing"} : p = IF StillReady(j) THEN "program" ELSE "finishing"
      BY Zenon
    <3>2. inv[j].pc = "recheck" /\ Goto(j, p)
      BY <2>5, <3>1, Zenon DEF Recheck
    <3> QED BY <2>p, <2>g, <3>2, Zenon
  <2>6. CASE Enter(j)
    BY <2>p, <2>g, <2>6, Zenon DEF Enter
  <2>7. CASE TurnAway(j) \/ Finish(j)
    <3>1. Idle \in Invocation /\ Idle.pc = "idle"
      BY AgentAssumption DEF Idle, Invocation, Pcs
    <3> QED BY <1>2, <2>7, <3>1, Zenon DEF TurnAway, Finish
  <2>8. ASSUME NEW f \in Fence, Lookup(j, f) PROVE Kept
    <3>1. PICK x : inv' = [inv EXCEPT ![j] = x] /\ x.pc = "looked" /\ inv[j].pc = "idle"
      BY <2>8, Zenon DEF Lookup, Idle
    <3> QED BY <1>t, <3>1, Zenon
  <2> QED BY <1>3, <2>2, <2>3, <2>4, <2>5, <2>6, <2>7, <2>8, ZenonT(40) DEF InvocationNext
<1>4. ASSUME QuietNext PROVE Kept
  <2>1. CASE inv' = inv
    BY <1>0, <2>1, Zenon
  <2>2. inv' = inv \/ \E j \in Invocations : InvocationNext(j)
    BY <1>4, ZenonT(40) DEF QuietNext, ControlNext, AcceptControl, Disconnect, Prepare, Cancel,
                AcknowledgeTerminal, ReplicaNext, FinishPrepare, ReleaseLease, CloserNext,
                BeginClose, CloseCache, CloseGivesUp, CacheClosed, Tick
  <2> QED BY <1>3, <2>1, <2>2, Zenon
<1>5. ASSUME NEW c \in Connection, NEW auth \in Authorization, InstallAuthorization(c, auth) PROVE Kept
  BY <1>0, <1>5, Zenon DEF InstallAuthorization
<1>6. ASSUME NEW j \in Invocations, Accept(j), j # i PROVE Kept
  <2>1. inv'[i] = inv[i]
    BY <1>t, <1>6, Zenon DEF Accept
  <2> QED BY <2>1, Zenon
<1>7. ASSUME Accept(i) PROVE inv[i].pc # "accepted"
  BY <1>7, Zenon DEF Accept
<1>8. ASSUME UNCHANGED <<vars, reply>> PROVE Kept
  BY <1>0, <1>8, Zenon DEF vars
<1> HIDE DEF Kept
<1>9. Kept \/ Accept(i)
  <2>1. CASE Next
    BY <1>4, <1>5, <1>6, <2>1, ZenonT(40) DEF Next
  <2> QED BY <1>8, <2>1, Zenon
<1> QED BY <1>7, <1>9, Zenon DEF Kept

\* What a positive serving decision rests on.
LEMMA AuthorizedMeans ==
  ASSUME AgentInv, NEW f \in Fence, AuthorizeSync(gate, f, now).ok
  PROVE  /\ AuthorizeSync(gate, f, now).gate.clockHealthy
         /\ f.disc = gate.highest /\ f.assignment.session = gate.session
<1>1. gate \in Gate /\ now \in Nat
  BY Zenon DEF AgentInv, TypeOK, GateTypeOK
<1>2. PICK r \in Gate : r = ReadClock(gate, now)
  BY <1>1, ReadClockType, Zenon
<1>3. /\ MatchingRecord(gate, f) /\ r.clockHealthy
      /\ AuthorizeSync(gate, f, now).gate = r
  BY <1>2, Zenon DEF AuthorizeSync, Failed, Done
<1>4. PICK a \in AssignmentIds : a = f.assignment.id
  BY Zenon DEF Fence, Identity
<1>5. gate.authorizations[a] # None /\ gate.authorizations[a].auth.fence = f
  BY <1>3, <1>4, Zenon DEF MatchingRecord
<1>6. f.disc = gate.highest /\ f.assignment.session = gate.session
  BY <1>5, Zenon DEF AgentInv, StoredIsCurrent
<1> QED BY <1>3, <1>6, Zenon

\* THEOREM: a call is accepted only while its Replica is Ready, the Agent open and
\* its fence current, and no later step takes its Replica or its lease from it.
THEOREM AgentAcceptedRunsOn == Spec => AcceptedRunsOn
<1> DEFINE RunsOn ==
      \A i \in Invocations :
        /\ inv[i].pc # "accepted" /\ inv'[i].pc = "accepted" =>
             ~closing /\ Ready(Of(i)) /\ gate'.clockHealthy
               /\ inv[i].fence.disc = gate.highest
               /\ inv[i].fence.assignment.session = gate.session
        /\ inv[i].pc = "accepted" =>
             inv'[i].pc \in {"accepted", "finishing"}
               /\ replicas'[Of(i)] # None /\ replicas'[Of(i)].lease
<1>0. AgentInv' => LeaseOutlivesUsers'
  BY LeaseHeld, PTL
<1>1. AgentInv /\ AgentInv' /\ [Next]_<<vars, reply>> => [RunsOn]_vars
  <2> SUFFICES ASSUME AgentInv, AgentInv', [Next]_<<vars, reply>>, NEW i \in Invocations
               PROVE  /\ inv[i].pc # "accepted" /\ inv'[i].pc = "accepted" =>
                           ~closing /\ Ready(Of(i)) /\ gate'.clockHealthy
                             /\ inv[i].fence.disc = gate.highest
                             /\ inv[i].fence.assignment.session = gate.session
                      /\ inv[i].pc = "accepted" =>
                           inv'[i].pc \in {"accepted", "finishing"}
                             /\ replicas'[Of(i)] # None /\ replicas'[Of(i)].lease
    BY Zenon
  <2>1. ASSUME inv[i].pc # "accepted", inv'[i].pc = "accepted"
        PROVE  ~closing /\ Ready(Of(i)) /\ gate'.clockHealthy
                 /\ inv[i].fence.disc = gate.highest
                 /\ inv[i].fence.assignment.session = gate.session
    <3>1. Accept(i)
      BY <2>1, AcceptedStays, Zenon
    <3>2. PICK inTime \in BOOLEAN :
            LET d == AuthorizeSync(gate, inv[i].fence, now)
                accepted == StillReady(i) /\ d.ok /\ inTime
            IN  /\ inv[i].pc = "check"
                /\ gate' = IF StillReady(i) THEN d.gate ELSE gate
                /\ inv' = [inv EXCEPT ![i].pc = IF accepted THEN "accepted" ELSE "finishing",
                                      ![i].accepted = accepted]
      BY <3>1, Zenon DEF Accept
    <3>3. inv \in [Invocations -> Invocation]
      BY Zenon DEF AgentInv, TypeOK
    <3>4. StillReady(i) /\ AuthorizeSync(gate, inv[i].fence, now).ok
      BY <2>1, <3>2, <3>3, Zenon DEF Invocation
    <3>5. PICK f \in Fence : f = inv[i].fence
      BY <3>2, CallAssignment, Zenon
    <3>6. /\ AuthorizeSync(gate, f, now).gate.clockHealthy
          /\ f.disc = gate.highest /\ f.assignment.session = gate.session
      BY <3>4, <3>5, AuthorizedMeans, Zenon
    <3> QED BY <3>2, <3>4, <3>5, <3>6, Zenon DEF StillReady
  <2>2. ASSUME inv[i].pc = "accepted"
        PROVE  inv'[i].pc \in {"accepted", "finishing"}
                 /\ replicas'[Of(i)] # None /\ replicas'[Of(i)].lease
    <3>1. inv'[i].pc \in {"accepted", "finishing"} /\ inv'[i].fence = inv[i].fence
      BY <2>2, AcceptedStays, Zenon
    <3>2. Of(i)' = Of(i) /\ inv'[i].pc \in Counted
      BY <3>1, Zenon DEF Of, Counted
    <3>3. Same(i)' /\ replicas'[Of(i)].lease
      BY <1>0, <3>2, Zenon DEF LeaseOutlivesUsers
    <3> QED BY <3>1, <3>2, <3>3, Zenon DEF Same, Known
  <2> QED BY <2>1, <2>2, Zenon
<1> QED BY <1>1, AgentAlways, PTL DEF Spec, AcceptedRunsOn
=============================================================================
