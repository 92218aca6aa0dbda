-------------------------- MODULE DeploymentProofs --------------------------
(***************************************************************************)
(* TLAPS proofs about what a Version needs to run: the Artifact Store that *)
(* keeps its module, and the convergence pass that makes its placements    *)
(* real. The two parts use nothing of each other.                          *)
(***************************************************************************)
EXTENDS ArtifactStore, Convergence, TLAPS

-----------------------------------------------------------------------------
(***************************************************************************)
(* The Artifact Store: for any number of callers and digests, any          *)
(* assignment of digests to stripes, and corruptions, crashes and power    *)
(* failures at any point, what Put reported is still there as long as its  *)
(* shard directory is.                                                     *)
(***************************************************************************)

\* The steps between locking the stripe and unlocking it.
Inside == {"mkdir", "link", "verify", "remove", "relink", "sync", "cleanup"}
Digest(o) == op[o].digest

StoreTypes ==
    /\ closed \in BOOLEAN /\ faults \in 0..MaxFaults /\ shards \subseteq Stripes
    /\ blob \in [Digests -> {"none", "good", "bad"}] /\ synced \in [Digests -> {"none", "good", "bad"}]
    /\ present \subseteq Digests /\ created \subseteq Digests /\ unsynced \subseteq Digests

Threads ==
    /\ op \in [Ops -> StoreCalls \cup {Idle}] /\ lock \in [Stripes -> Ops \cup {"none"}]
    /\ tmp \subseteq Ops /\ succeeded \subseteq Ops
    /\ \A o \in succeeded : op[o] = Idle

\* A stripe is held by the one call that is inside it.
Locking ==
    /\ \A o \in Ops : op[o].at \in Inside => lock[Stripe[Digest(o)]] = o
    /\ \A s \in Stripes : lock[s] # "none" => op[lock[s]].at \in Inside /\ Stripe[Digest(lock[s])] = s

Control == Threads /\ Locking /\ TemporariesOwned /\ ClosedIsIdle

\* What a call has learned about its blob stays true until it has acted on it.
Learned ==
    \A o \in Ops :
        /\ op[o].at \in {"link", "relink"} => Stripe[Digest(o)] \in shards
        /\ op[o].at = "remove" => blob[Digest(o)] = "bad"
        /\ op[o].at = "cleanup" /\ blob[Digest(o)] = "good" => synced[Digest(o)] = "good"

\* A good blob is durable, or it is known that it is not yet.
Tracked ==
    \A d \in Digests : blob[d] = "good" =>
        \/ synced[d] = "good" \/ d \in unsynced
        \/ \E o \in Ops : op[o].at = "sync" /\ Digest(o) = d

\* A blob is in a shard directory.
Housed == \A d \in Digests : blob[d] # "none" \/ synced[d] # "none" => Stripe[d] \in shards

Kept == StoreTypes /\ Learned /\ Tracked /\ Housed /\ SucceededStays /\ CreatedSurvives /\ SuccessSurvives

Inv == Control /\ Kept

\* What an idle call is, kept as a name: it has no kind and no digest.
LEMMA IdleAt == Idle.at = "idle" BY Zenon DEF Idle

\* A call that is somewhere is a call of StoreCalls, and the Store is open.
LEMMA Busy ==
    ASSUME Inv, NEW o \in Ops, op[o].at # "idle"
    PROVE  op[o] # Idle /\ op[o] \in StoreCalls /\ Digest(o) \in Digests /\ ~closed /\ Stripe[Digest(o)] \in Stripes
<1>1. op[o] # Idle BY IdleAt, Zenon
<1>2. op[o] \in StoreCalls BY <1>1, Zenon DEF Inv, Control, Threads
<1>3. Digest(o) \in Digests BY <1>2, Zenon DEF StoreCalls, Digest
<1>4. ~closed BY <1>1, Zenon DEF Inv, Control, ClosedIsIdle
<1> QED BY <1>1, <1>2, <1>3, <1>4, Zenon DEF Stripes

\* Two calls inside for one stripe are one call.
LEMMA Exclusive ==
    ASSUME Inv, NEW o \in Ops, NEW p \in Ops, op[o].at \in Inside, op[p].at \in Inside, Stripe[Digest(o)] = Stripe[Digest(p)]
    PROVE  o = p
BY Zenon DEF Inv, Control, Locking

\* A call that moves on keeps its kind and digest; the others stay.
LEMMA Moved ==
    ASSUME Inv, NEW o \in Ops, op[o].at # "idle", NEW step \in {"lock", "mkdir", "link", "verify", "remove", "relink", "sync", "cleanup"},
           Goto(o, step)
    PROVE  /\ op' \in [Ops -> StoreCalls \cup {Idle}] /\ op'[o] \in StoreCalls
           /\ op'[o].at = step /\ op'[o].kind = op[o].kind /\ op'[o].digest = op[o].digest
           /\ \A p \in Ops \ {o} : op'[p] = op[p]
<1>1. PICK c : c = op[o] BY Zenon
<1>2. c \in StoreCalls BY <1>1, Busy, Zenon
<1>3. op' = [op EXCEPT ![o] = [c EXCEPT !.at = step]] BY <1>1, Zenon DEF Goto
<1>4. [c EXCEPT !.at = step] \in StoreCalls /\ [c EXCEPT !.at = step].at = step
      /\ [c EXCEPT !.at = step].kind = c.kind /\ [c EXCEPT !.at = step].digest = c.digest
  BY <1>2, Zenon DEF StoreCalls
<1>5. op \in [Ops -> StoreCalls \cup {Idle}] BY Zenon DEF Inv, Control, Threads
<1> QED BY <1>1, <1>3, <1>4, <1>5, Zenon

\* A step inside the lock, or before it, keeps locks and temporary files in order.
LEMMA GotoControl ==
    ASSUME Inv, NEW o \in Ops, op[o].at # "idle", NEW step \in {"lock", "mkdir", "link", "verify", "remove", "relink", "sync", "cleanup"},
           Goto(o, step), UNCHANGED thread, op[o].at \in Inside <=> step \in Inside
    PROVE  Control'
<1>1. /\ op' \in [Ops -> StoreCalls \cup {Idle}] /\ op'[o] \in StoreCalls
      /\ op'[o].at = step /\ op'[o].kind = op[o].kind /\ op'[o].digest = op[o].digest
      /\ \A p \in Ops \ {o} : op'[p] = op[p]
  BY Moved, Zenon
<1>2. op[o] # Idle /\ op'[o] # Idle /\ ~closed BY <1>1, Busy, IdleAt, Zenon
<1>3. Threads' BY <1>1, <1>2, Zenon DEF Inv, Control, Threads, thread
<1>4. Locking' BY <1>1 DEF Inv, Control, Threads, Locking, Digest, Stripes, thread
<1>5. TemporariesOwned' BY <1>1, <1>2, Zenon DEF Inv, Control, TemporariesOwned, thread
<1>6. ClosedIsIdle' BY <1>2, Zenon DEF ClosedIsIdle, thread
<1> QED BY <1>3, <1>4, <1>5, <1>6, Zenon DEF Control

\* The deferred calls of a call that ends, from whichever step.
LEMMA FinishControl ==
    ASSUME Inv, NEW o \in Ops, op[o].at # "idle", NEW ok \in BOOLEAN, NEW removed \in BOOLEAN, Finish(o, ok, removed)
    PROVE  Control' /\ op'[o].at = "idle" /\ closed' = closed /\ \A p \in Ops \ {o} : op'[p] = op[p]
<1>1. /\ op' = [op EXCEPT ![o] = Idle] /\ lock' = [s \in Stripes |-> IF lock[s] = o THEN "none" ELSE lock[s]]
      /\ tmp' = (IF removed THEN tmp \ {o} ELSE tmp) /\ closed' = closed
      /\ succeeded' = IF ok /\ removed THEN succeeded \cup {o} ELSE succeeded
  BY Zenon DEF Finish
<1>2. op'[o] = Idle /\ \A p \in Ops \ {o} : op'[p] = op[p] BY <1>1, Zenon DEF Inv, Control, Threads
<1>3. Threads'
  <2>1. op' \in [Ops -> StoreCalls \cup {Idle}] /\ lock' \in [Stripes -> Ops \cup {"none"}]
    BY <1>1, Zenon DEF Inv, Control, Threads
  <2>2. tmp' \subseteq Ops /\ succeeded' \subseteq Ops /\ \A p \in succeeded' : op'[p] = Idle
    BY <1>1, <1>2, Zenon DEF Inv, Control, Threads
  <2> QED BY <2>1, <2>2, Zenon DEF Threads
<1>4. \A p \in Ops \ {o} : op[p].at \in Inside => lock'[Stripe[Digest(p)]] = p
  <2> SUFFICES ASSUME NEW p \in Ops \ {o}, op[p].at \in Inside PROVE lock'[Stripe[Digest(p)]] = p BY Zenon
  <2>1. op[p].at # "idle" BY Zenon DEF Inside
  <2>2. Stripe[Digest(p)] \in Stripes BY <2>1, Busy, Zenon
  <2>3. lock[Stripe[Digest(p)]] = p BY Zenon DEF Inv, Control, Locking
  <2> QED BY <1>1, <2>2, <2>3, Zenon
<1>5. Locking'
  <2>1. "idle" \notin Inside BY Zenon DEF Inside
  <2>2. \A s \in Stripes : lock'[s] # "none" => lock'[s] = lock[s] /\ lock[s] # o BY <1>1, Zenon
  <2>3. \A s \in Stripes : lock[s] \in Ops \cup {"none"} BY Zenon DEF Inv, Control, Threads
  <2> QED BY <1>2, <1>4, <2>1, <2>2, <2>3, IdleAt DEF Inv, Control, Locking, Digest
<1>6. TemporariesOwned'
  <2>1. o \notin succeeded BY IdleAt, Zenon DEF Inv, Control, Threads
  <2>2. o \in succeeded' => o \notin tmp' BY <1>1, <2>1, Zenon
  <2>3. \A p \in Ops \ {o} : (p \in tmp' <=> p \in tmp) /\ (p \in succeeded' <=> p \in succeeded) BY <1>1, Zenon
  <2> QED BY <1>2, <2>2, <2>3, Zenon DEF Inv, Control, TemporariesOwned
<1>7. ClosedIsIdle' BY <1>1, <1>2, Zenon DEF Inv, Control, ClosedIsIdle
<1> QED BY <1>1, <1>2, <1>3, <1>5, <1>6, <1>7, IdleAt, Zenon DEF Control

\* A call that returns, whether its temporary file could be removed or not.
LEMMA ReturnControl ==
    ASSUME Inv, NEW o \in Ops, op[o].at # "idle", NEW ok \in BOOLEAN, Return(o, ok)
    PROVE  Control' /\ op'[o].at = "idle" /\ closed' = closed /\ \A p \in Ops \ {o} : op'[p] = op[p]
<1>1. PICK removed \in BOOLEAN : Finish(o, ok, removed) BY Zenon DEF Return
<1> QED BY <1>1, FinishControl, Zenon

\* A step that leaves the disk alone, and does not pass over a pending sync.
LEMMA DiskKept ==
    ASSUME Inv, NEW o \in Ops, \A p \in Ops \ {o} : op'[p] = op[p], UNCHANGED <<closed, disk>>,
           op[o].at # "sync", op'[o].at # "cleanup",
           op'[o].at = "remove" => blob[op'[o].digest] = "bad",
           op'[o].at \in {"link", "relink"} => Stripe[op'[o].digest] \in shards
    PROVE  Kept'
<1>1. StoreTypes' BY Zenon DEF Inv, Kept, StoreTypes, disk
<1>2. Learned' BY Zenon DEF Inv, Kept, Learned, Digest, disk
<1>3. Tracked' /\ Housed' BY DEF Inv, Kept, Tracked, Housed, Digest, disk
<1>4. SucceededStays' /\ CreatedSurvives' /\ SuccessSurvives'
  BY Zenon DEF Inv, Kept, SucceededStays, CreatedSurvives, SuccessSurvives, disk
<1> QED BY <1>1, <1>2, <1>3, <1>4, Zenon DEF Kept

\* A call begins.
LEMMA StartStep ==
    ASSUME Inv, NEW o \in Ops, NEW kind \in {"put", "open"}, NEW d \in Digests, Start(o, kind, d) PROVE Inv'
<1>1. PICK c : c = [at |-> IF kind = "put" THEN "copy" ELSE "lock", kind |-> kind, digest |-> d] BY Zenon
<1>2. c \in StoreCalls /\ c.at \in {"copy", "lock"} /\ c.kind = kind BY <1>1, Zenon DEF StoreCalls
<1>3. /\ ~closed /\ op[o] = Idle /\ op' = [op EXCEPT ![o] = c]
      /\ tmp' = (IF kind = "put" THEN tmp \cup {o} ELSE tmp \ {o}) /\ succeeded' = succeeded \ {o}
      /\ UNCHANGED <<closed, lock, disk>>
  BY <1>1, Zenon DEF Start
<1>4. op'[o] = c /\ \A p \in Ops \ {o} : op'[p] = op[p] BY <1>3, Zenon DEF Inv, Control, Threads
<1>5. op[o].at = "idle" /\ c # Idle BY <1>2, <1>3, IdleAt, Zenon
<1>6. Threads'
  <2>1. op' \in [Ops -> StoreCalls \cup {Idle}] /\ lock' \in [Stripes -> Ops \cup {"none"}]
    BY <1>2, <1>3, Zenon DEF Inv, Control, Threads
  <2>2. tmp' \subseteq Ops /\ succeeded' \subseteq Ops /\ \A p \in succeeded' : op'[p] = Idle
    BY <1>3, <1>4, Zenon DEF Inv, Control, Threads
  <2> QED BY <2>1, <2>2, Zenon DEF Threads
<1>7. Locking'
  <2>1. "idle" \notin Inside /\ c.at \notin Inside BY <1>2, Zenon DEF Inside
  <2>2. \A s \in Stripes : lock[s] # "none" => lock[s] # o /\ lock[s] \in Ops
    BY <1>5, <2>1 DEF Inv, Control, Threads, Locking
  <2> QED BY <1>3, <1>4, <2>1, <2>2 DEF Inv, Control, Locking, Digest
<1>8. TemporariesOwned'
  <2>1. o \in tmp' <=> c.kind = "put" BY <1>2, <1>3, Zenon
  <2>2. \A p \in Ops \ {o} : (p \in tmp' <=> p \in tmp) /\ (p \in succeeded' => p \in succeeded) BY <1>3, Zenon
  <2> QED BY <1>4, <1>5, <2>1, <2>2, Zenon DEF Inv, Control, TemporariesOwned
<1>9. ClosedIsIdle' BY <1>3, Zenon DEF ClosedIsIdle
<1>10. Kept' BY <1>2, <1>3, <1>4, <1>5, DiskKept, Zenon
<1> QED BY <1>6, <1>7, <1>8, <1>9, <1>10, Zenon DEF Inv, Control

\* A call ends without having changed the disk.
LEMMA GiveUpStep ==
    ASSUME Inv, NEW o \in Ops, op[o].at \in {"copy", "mkdir", "link", "relink", "verify", "remove", "cleanup"},
           Return(o, FALSE), UNCHANGED disk
    PROVE  Inv'
<1>1. Control' /\ op'[o].at = "idle" /\ closed' = closed /\ \A p \in Ops \ {o} : op'[p] = op[p] BY ReturnControl, Zenon
<1>2. Kept' BY <1>1, DiskKept, Zenon
<1> QED BY <1>1, <1>2, Zenon DEF Inv

\* The upload is complete; then the stripe is taken.
LEMMA CopyStep ==
    ASSUME Inv, NEW o \in Ops, Copy(o) PROVE Inv'
<1>1. op[o].at = "copy" /\ Goto(o, "lock") /\ UNCHANGED <<thread, disk>> BY Zenon DEF Copy, At
<1>2. "copy" \notin Inside /\ "lock" \notin Inside BY Zenon DEF Inside
<1>3. Control' BY <1>1, <1>2, GotoControl, Zenon
<1>4. op'[o].at = "lock" /\ \A p \in Ops \ {o} : op'[p] = op[p] BY <1>1, Moved, Zenon
<1>5. Kept' BY <1>1, <1>4, DiskKept, Zenon DEF thread
<1> QED BY <1>3, <1>5, Zenon DEF Inv

\* The stripe is taken: it was free, so nobody else is inside it.
LEMMA LockStep ==
    ASSUME Inv, NEW o \in Ops, Lock(o) PROVE Inv'
<1>1. PICK step : step \in {"mkdir", "verify"} /\ Goto(o, step) BY Zenon DEF Lock, Entered
<1>2. op[o].at = "lock" /\ lock[Stripe[Digest(o)]] = "none" /\ lock' = [lock EXCEPT ![Stripe[Digest(o)]] = o]
      /\ UNCHANGED <<closed, tmp, succeeded, disk>>
  BY Zenon DEF Lock, At, Digest
<1>3. /\ op' \in [Ops -> StoreCalls \cup {Idle}] /\ op'[o] \in StoreCalls
      /\ op'[o].at = step /\ op'[o].kind = op[o].kind /\ op'[o].digest = op[o].digest
      /\ \A p \in Ops \ {o} : op'[p] = op[p]
  BY <1>1, <1>2, Moved, Zenon
<1>4. op[o] # Idle /\ op'[o] # Idle /\ ~closed /\ Stripe[Digest(o)] \in Stripes BY <1>1, <1>2, <1>3, Busy, IdleAt, Zenon
<1>5. Threads'
  <2>1. lock' \in [Stripes -> Ops \cup {"none"}] BY <1>2, <1>4, Zenon DEF Inv, Control, Threads
  <2>2. \A p \in succeeded : op'[p] = Idle BY <1>3, <1>4, Zenon DEF Inv, Control, Threads
  <2> QED BY <1>2, <1>3, <2>1, <2>2, Zenon DEF Inv, Control, Threads
<1>6. Locking'
  <2>1. step \in Inside /\ "lock" \notin Inside BY <1>1, Zenon DEF Inside
  <2>2. lock'[Stripe[Digest(o)]] = o /\ \A s \in Stripes \ {Stripe[Digest(o)]} : lock'[s] = lock[s]
    BY <1>2, <1>4, Zenon DEF Inv, Control, Threads
  <2>3. \A p \in Ops \ {o} : op[p].at \in Inside => Stripe[Digest(p)] # Stripe[Digest(o)] /\ Stripe[Digest(p)] \in Stripes
    <3> SUFFICES ASSUME NEW p \in Ops \ {o}, op[p].at \in Inside
                 PROVE  Stripe[Digest(p)] # Stripe[Digest(o)] /\ Stripe[Digest(p)] \in Stripes
      BY Zenon
    <3>1. op[p].at # "idle" BY Zenon DEF Inside
    <3> QED BY <1>2, <3>1, Busy, OpsAssumption DEF Inv, Control, Locking
  <2>4. \A p \in Ops : op'[p].at \in Inside => lock'[Stripe[op'[p].digest]] = p
    BY <1>3, <2>1, <2>2, <2>3 DEF Inv, Control, Locking, Digest
  <2>5. \A s \in Stripes : lock'[s] # "none" => op'[lock'[s]].at \in Inside /\ Stripe[op'[lock'[s]].digest] = s
    <3> SUFFICES ASSUME NEW s \in Stripes, lock'[s] # "none"
                 PROVE  op'[lock'[s]].at \in Inside /\ Stripe[op'[lock'[s]].digest] = s
      BY Zenon
    <3>1. CASE s = Stripe[Digest(o)] BY <1>3, <2>1, <2>2, <3>1, Zenon DEF Digest
    <3>2. CASE s # Stripe[Digest(o)]
      <4>1. lock[s] # "none" /\ lock'[s] = lock[s] /\ lock[s] \in Ops BY <2>2, <3>2, Zenon DEF Inv, Control, Threads
      <4>2. op[lock[s]].at \in Inside /\ Stripe[Digest(lock[s])] = s BY <4>1, Zenon DEF Inv, Control, Locking
      <4>3. lock[s] # o BY <1>2, <2>1, <4>2, Zenon
      <4> QED BY <1>3, <4>1, <4>2, <4>3, Zenon DEF Digest
    <3> QED BY <3>1, <3>2, Zenon
  <2> QED BY <2>4, <2>5, Zenon DEF Locking, Digest
<1>7. TemporariesOwned' BY <1>2, <1>3, <1>4, Zenon DEF Inv, Control, TemporariesOwned
<1>8. ClosedIsIdle' BY <1>2, <1>4, Zenon DEF ClosedIsIdle
<1>9. Kept' BY <1>1, <1>2, <1>3, DiskKept, Zenon
<1> QED BY <1>5, <1>6, <1>7, <1>8, <1>9, Zenon DEF Inv, Control

\* The blob was found corrupt, or the entry taken: on to the next step.
LEMMA InsideStep ==
    ASSUME Inv, NEW o \in Ops, NEW step \in {"verify", "remove"}, op[o].at \in {"link", "verify"},
           Goto(o, step), UNCHANGED <<thread, disk>>, step = "remove" => blob[Digest(o)] = "bad"
    PROVE  Inv'
<1>1. op[o].at \in Inside /\ step \in Inside BY Zenon DEF Inside
<1>2. Control' BY <1>1, GotoControl, Zenon
<1>3. op'[o].at = step /\ op'[o].digest = op[o].digest /\ \A p \in Ops \ {o} : op'[p] = op[p] BY Moved, Zenon
<1>4. Kept' BY <1>3, DiskKept, Zenon DEF Digest, thread
<1> QED BY <1>2, <1>4, Zenon DEF Inv

\* While a call is inside, what another call learned is about another stripe.
LEMMA OthersElsewhere ==
    ASSUME Inv, NEW o \in Ops, op[o].at \in Inside, \A p \in Ops \ {o} : op'[p] = op[p]
    PROVE  \A p \in Ops \ {o} : op[p].at \in Inside => Stripe[Digest(p)] # Stripe[Digest(o)] /\ Digest(p) \in Digests
<1>1. "idle" \notin Inside BY Zenon DEF Inside
<1> QED BY <1>1, Exclusive, Busy, Zenon

\* The shard directory exists now.
LEMMA MakeShardStep ==
    ASSUME Inv, NEW o \in Ops, MakeShard(o) PROVE Inv'
<1>1. /\ op[o].at = "mkdir" /\ Goto(o, "link") /\ shards' = shards \cup {Stripe[Digest(o)]}
      /\ UNCHANGED <<thread, blob, synced, present, created, unsynced, faults>>
  BY Zenon DEF MakeShard, At, Digest
<1>2. op[o].at \in Inside /\ "link" \in Inside BY <1>1, Zenon DEF Inside
<1>3. Control' BY <1>1, <1>2, GotoControl, Zenon
<1>4. op'[o].at = "link" /\ op'[o].digest = Digest(o) /\ \A p \in Ops \ {o} : op'[p] = op[p]
  BY <1>1, Moved, Zenon DEF Digest
<1>5. Stripe[Digest(o)] \in Stripes BY <1>1, Busy, Zenon
<1>6. StoreTypes' BY <1>1, <1>5, Zenon DEF Inv, Kept, StoreTypes, thread
<1>7. Learned' BY <1>1, <1>4, Zenon DEF Inv, Kept, Learned, Digest
<1>8. Tracked' /\ Housed' BY <1>1, <1>4 DEF Inv, Kept, Tracked, Housed, Digest
<1>9. SucceededStays' /\ CreatedSurvives' /\ SuccessSurvives'
  BY <1>1, Zenon DEF Inv, Kept, SucceededStays, CreatedSurvives, SuccessSurvives
<1> QED BY <1>3, <1>6, <1>7, <1>8, <1>9, Zenon DEF Inv, Kept

\* Publishing under a free name: no success was ever reported for it and not
\* yet undone.
LEMMA PublishStep ==
    ASSUME Inv, NEW o \in Ops, op[o].at \in {"link", "relink"}, Goto(o, "sync"),
           blob[Digest(o)] = "none", blob' = [blob EXCEPT ![Digest(o)] = "good"],
           UNCHANGED <<thread, shards, synced, present, created, unsynced, faults>>
    PROVE  Inv'
<1>1. PICK d : d = Digest(o) BY Zenon
<1>2. op[o].at \in Inside /\ "sync" \in Inside BY Zenon DEF Inside
<1>3. Control' BY <1>2, GotoControl, Zenon
<1>4. op'[o].at = "sync" /\ op'[o].digest = d /\ \A p \in Ops \ {o} : op'[p] = op[p] BY <1>1, Moved, Zenon DEF Digest
<1>5. d \in Digests BY <1>1, Busy, Zenon
<1>6. blob'[d] = "good" /\ \A e \in Digests \ {d} : blob'[e] = blob[e] BY <1>1, <1>5, Zenon DEF Inv, Kept, StoreTypes
<1>7. \A p \in Ops \ {o} : op[p].at \in Inside => Stripe[op[p].digest] # Stripe[d] /\ op[p].digest \in Digests
  BY <1>1, <1>2, <1>4, OthersElsewhere, Zenon DEF Digest
<1>8. StoreTypes' BY <1>1, <1>5, Zenon DEF Inv, Kept, StoreTypes, thread
<1>9. Learned' BY <1>4, <1>6, <1>7 DEF Inv, Kept, Learned, Digest, Inside
<1>10. Tracked' BY <1>4, <1>6 DEF Inv, Kept, Tracked, Digest
<1>11. Stripe[d] \in shards BY <1>1, Zenon DEF Inv, Kept, Learned
<1>12. Housed' BY <1>6, <1>11, Zenon DEF Inv, Kept, Housed
<1>13. d \notin present /\ d \notin created BY <1>1, Zenon DEF Inv, Kept, SucceededStays, CreatedSurvives
<1>14. SucceededStays' /\ CreatedSurvives' /\ SuccessSurvives'
  BY <1>6, <1>8, <1>13, Zenon DEF Inv, Kept, StoreTypes, SucceededStays, CreatedSurvives, SuccessSurvives
<1> QED BY <1>3, <1>8, <1>9, <1>10, <1>12, <1>14, Zenon DEF Inv, Kept

\* What is true of every digest once the entries of a shard directory are synced:
\* in that directory the disk has what the process sees.
LEMMA Flushed ==
    ASSUME Inv, NEW s, FlushShard(s), blob' \in [Digests -> {"none", "good", "bad"}]
    PROVE  /\ synced' \in [Digests -> {"none", "good", "bad"}] /\ unsynced' \subseteq Digests
           /\ \A e \in Digests : Stripe[e] = s => synced'[e] = blob'[e]
           /\ \A e \in Digests : Stripe[e] # s => synced'[e] = synced[e] /\ (e \in unsynced => e \in unsynced')
<1>1. synced' = [d \in Digests |-> IF Stripe[d] = s THEN blob'[d] ELSE synced[d]]
      /\ unsynced' = {d \in unsynced : Stripe[d] # s}
  BY Zenon DEF FlushShard
<1>2. synced \in [Digests -> {"none", "good", "bad"}] /\ unsynced \subseteq Digests BY Zenon DEF Inv, Kept, StoreTypes
<1> QED BY <1>1, <1>2, Zenon

\* A corrupt blob is removed: it is still the corrupt one.
LEMMA RemoveStep ==
    ASSUME Inv, NEW o \in Ops, NEW flushed \in BOOLEAN, Remove(o, flushed) PROVE Inv'
<1>1. PICK d : d = Digest(o) BY Zenon
<1>2. /\ op[o].at = "remove" /\ blob' = [blob EXCEPT ![d] = "none"]
      /\ IF flushed THEN FlushShard(Stripe[d]) ELSE UNCHANGED <<synced, unsynced>>
      /\ UNCHANGED <<shards, present, created, faults>>
  BY <1>1, Zenon DEF Remove, At, Digest
<1>3. op[o].at \in Inside /\ "relink" \in Inside BY <1>2, Zenon DEF Inside
<1>4. d \in Digests /\ blob[d] = "bad" BY <1>1, <1>2, Busy, Zenon DEF Inv, Kept, Learned
<1>5. /\ Control' /\ closed' = closed /\ op'[o].at \in {"relink", "idle"}
      /\ (op'[o].at = "relink" => op'[o].digest = d)
      /\ \A p \in Ops \ {o} : op'[p] = op[p]
  <2>1. CASE op[o].kind = "put"
    <3>1. Goto(o, "relink") /\ UNCHANGED thread BY <2>1, Zenon DEF Remove
    <3> QED BY <1>1, <1>2, <1>3, <3>1, GotoControl, Moved, Zenon DEF thread, Digest
  <2>2. CASE op[o].kind # "put"
    <3>1. Return(o, FALSE) BY <2>2, Zenon DEF Remove
    <3> QED BY <1>2, <3>1, ReturnControl, Zenon
  <2> QED BY <2>1, <2>2, Zenon
<1>6. blob' \in [Digests -> {"none", "good", "bad"}] /\ blob'[d] = "none" /\ \A e \in Digests \ {d} : blob'[e] = blob[e]
  BY <1>2, <1>4, Zenon DEF Inv, Kept, StoreTypes
<1>7. /\ synced' \in [Digests -> {"none", "good", "bad"}] /\ unsynced' \subseteq Digests
      /\ \A e \in Digests : Stripe[e] # Stripe[d] => synced'[e] = synced[e]
      /\ \A e \in Digests : synced'[e] = blob'[e] \/ (synced'[e] = synced[e] /\ (e \in unsynced => e \in unsynced'))
  <2>1. CASE flushed BY <1>2, <1>6, <2>1, Flushed, Zenon
  <2>2. CASE ~flushed BY <1>2, <2>2, Zenon DEF Inv, Kept, StoreTypes
  <2> QED BY <2>1, <2>2, Zenon
<1>8. \A p \in Ops \ {o} : op[p].at \in Inside => Stripe[op[p].digest] # Stripe[d] /\ op[p].digest \in Digests
  BY <1>1, <1>3, <1>5, OthersElsewhere, Zenon DEF Digest
<1>9. StoreTypes' BY <1>2, <1>5, <1>6, <1>7, Zenon DEF Inv, Kept, StoreTypes
<1>10. Stripe[d] \in shards BY <1>4, Zenon DEF Inv, Kept, Housed
<1>11. Learned'
  <2>1. \A p \in Ops \ {o} : op[p].at \in Inside =>
          blob'[op[p].digest] = blob[op[p].digest] /\ synced'[op[p].digest] = synced[op[p].digest]
    BY <1>6, <1>7, <1>8, Zenon
  <2> QED BY <1>2, <1>5, <1>10, <2>1 DEF Inv, Kept, Learned, Digest, Inside
<1>12. Tracked'
  <2> SUFFICES ASSUME NEW e \in Digests, blob'[e] = "good"
               PROVE  synced'[e] = "good" \/ e \in unsynced' \/ \E p \in Ops : op'[p].at = "sync" /\ op'[p].digest = e
    BY Zenon DEF Tracked, Digest
  <2>1. blob[e] = "good" BY <1>6, Zenon
  <2>2. synced[e] = "good" \/ e \in unsynced \/ \E p \in Ops : op[p].at = "sync" /\ op[p].digest = e
    BY <2>1, Zenon DEF Inv, Kept, Tracked, Digest
  <2> QED BY <1>2, <1>5, <1>7, <2>2, Zenon
<1>13. Housed' BY <1>2, <1>6, <1>7, Zenon DEF Inv, Kept, Housed
<1>14. d \notin present /\ d \notin created BY <1>4, Zenon DEF Inv, Kept, SucceededStays, CreatedSurvives
<1>15. SucceededStays' BY <1>2, <1>6, <1>14, Zenon DEF Inv, Kept, StoreTypes, SucceededStays
<1>16. CreatedSurvives' /\ SuccessSurvives'
  <2>1. \A e \in created : e \in Digests /\ blob'[e] = "good" /\ synced'[e] = "good" /\ Stripe[e] \in shards
    BY <1>6, <1>7, <1>14, Zenon DEF Inv, Kept, StoreTypes, CreatedSurvives
  <2>2. \A e \in present : synced'[e] = "good" \/ e \in unsynced'
    BY <1>6, <1>7, <1>14, Zenon DEF Inv, Kept, StoreTypes, SucceededStays, SuccessSurvives
  <2> QED BY <1>2, <2>1, <2>2, Zenon DEF CreatedSurvives, SuccessSurvives
<1> QED BY <1>5, <1>9, <1>11, <1>12, <1>13, <1>15, <1>16, Zenon DEF Inv, Kept

\* The directory is synced: its entries are durable as they are.
LEMMA SyncDirectoryStep ==
    ASSUME Inv, NEW o \in Ops, SyncDirectory(o) PROVE Inv'
<1>1. PICK d : d = Digest(o) BY Zenon
<1>2. /\ op[o].at = "sync" /\ Goto(o, "cleanup") /\ FlushShard(Stripe[d])
      /\ UNCHANGED <<thread, shards, blob, present, created, faults>>
  BY <1>1, Zenon DEF SyncDirectory, At, Digest
<1>3. op[o].at \in Inside /\ "cleanup" \in Inside BY <1>2, Zenon DEF Inside
<1>4. Control' BY <1>2, <1>3, GotoControl, Zenon
<1>5. op'[o].at = "cleanup" /\ op'[o].digest = d /\ \A p \in Ops \ {o} : op'[p] = op[p]
  BY <1>1, <1>2, Moved, Zenon DEF Digest
<1>6. d \in Digests BY <1>1, <1>2, Busy, Zenon
<1>7. /\ synced' \in [Digests -> {"none", "good", "bad"}] /\ unsynced' \subseteq Digests
      /\ \A e \in Digests : Stripe[e] = Stripe[d] => synced'[e] = blob[e]
      /\ \A e \in Digests : Stripe[e] # Stripe[d] => synced'[e] = synced[e] /\ (e \in unsynced => e \in unsynced')
  <2>1. blob' = blob /\ blob \in [Digests -> {"none", "good", "bad"}] BY <1>2, Zenon DEF Inv, Kept, StoreTypes
  <2> QED BY <1>2, <2>1, Flushed, Zenon
<1>8. \A p \in Ops \ {o} : op[p].at \in Inside => Stripe[op[p].digest] # Stripe[d] /\ op[p].digest \in Digests
  BY <1>1, <1>3, <1>5, OthersElsewhere, Zenon DEF Digest
<1>9. StoreTypes' BY <1>2, <1>7, Zenon DEF Inv, Kept, StoreTypes, thread
<1>10. Learned'
  <2>1. \A p \in Ops \ {o} : op[p].at \in Inside => synced'[op[p].digest] = synced[op[p].digest] BY <1>7, <1>8, Zenon
  <2> QED BY <1>2, <1>5, <1>6, <1>7, <2>1 DEF Inv, Kept, Learned, Digest, Inside
<1>11. Tracked'
  <2> SUFFICES ASSUME NEW e \in Digests, blob[e] = "good"
               PROVE  synced'[e] = "good" \/ e \in unsynced' \/ \E p \in Ops : op'[p].at = "sync" /\ op'[p].digest = e
    BY <1>2, Zenon DEF Tracked, Digest
  <2>1. CASE Stripe[e] = Stripe[d] BY <1>7, <2>1, Zenon
  <2>2. CASE Stripe[e] # Stripe[d]
    <3>1. synced[e] = "good" \/ e \in unsynced \/ \E p \in Ops : op[p].at = "sync" /\ op[p].digest = e
      BY Zenon DEF Inv, Kept, Tracked, Digest
    <3> QED BY <1>1, <1>5, <1>7, <2>2, <3>1, Zenon DEF Digest
  <2> QED BY <2>1, <2>2, Zenon
<1>12. Housed' BY <1>2, <1>7, Zenon DEF Inv, Kept, Housed
<1>13. SucceededStays' BY <1>2, Zenon DEF Inv, Kept, SucceededStays
<1>14. CreatedSurvives' /\ SuccessSurvives'
  <2>1. \A e \in created : e \in Digests /\ blob[e] = "good" /\ synced'[e] = "good" /\ Stripe[e] \in shards
    BY <1>7, Zenon DEF Inv, Kept, StoreTypes, CreatedSurvives
  <2>2. \A e \in present : synced'[e] = "good" \/ e \in unsynced'
    BY <1>7, Zenon DEF Inv, Kept, StoreTypes, SucceededStays, SuccessSurvives
  <2> QED BY <1>2, <2>1, <2>2, Zenon DEF CreatedSurvives, SuccessSurvives
<1> QED BY <1>4, <1>9, <1>10, <1>11, <1>12, <1>13, <1>14, Zenon DEF Inv, Kept

\* The sync failed: Put fails, and the blob stays as one that may be lost.
LEMMA SyncFailsStep ==
    ASSUME Inv, NEW o \in Ops, SyncFails(o) PROVE Inv'
<1>1. PICK d : d = Digest(o) BY Zenon
<1>2. op[o].at = "sync" /\ Return(o, FALSE) /\ unsynced' = unsynced \cup {d}
      /\ UNCHANGED <<shards, blob, synced, present, created, faults>>
  BY <1>1, Zenon DEF SyncFails, At, Digest
<1>3. Control' /\ op'[o].at = "idle" /\ (\A p \in Ops \ {o} : op'[p] = op[p]) /\ closed' = closed
  BY <1>2, ReturnControl, Zenon
<1>4. d \in Digests BY <1>1, <1>2, Busy, Zenon
<1>5. StoreTypes' BY <1>2, <1>3, <1>4, Zenon DEF Inv, Kept, StoreTypes
<1>6. Learned' BY <1>2, <1>3, Zenon DEF Inv, Kept, Learned, Digest
<1>7. Tracked' /\ Housed' BY <1>1, <1>2, <1>3 DEF Inv, Kept, Tracked, Housed, Digest
<1>8. SucceededStays' /\ CreatedSurvives' /\ SuccessSurvives'
  BY <1>2, Zenon DEF Inv, Kept, SucceededStays, CreatedSurvives, SuccessSurvives
<1> QED BY <1>3, <1>5, <1>6, <1>7, <1>8, Zenon DEF Inv, Kept

\* Put succeeds because it found a good blob.
LEMMA VerifyGoodStep ==
    ASSUME Inv, NEW o \in Ops, VerifyGood(o) PROVE Inv'
<1>1. PICK d : d = Digest(o) BY Zenon
<1>2. /\ op[o].at = "verify" /\ blob[d] = "good" /\ Return(o, TRUE)
      /\ present' \in {present, present \cup {d}}
      /\ UNCHANGED <<shards, blob, synced, created, unsynced, faults>>
  BY <1>1, Zenon DEF VerifyGood, At, Digest
<1>3. Control' /\ op'[o].at = "idle" /\ (\A p \in Ops \ {o} : op'[p] = op[p]) /\ closed' = closed
  BY <1>2, ReturnControl, Zenon
<1>4. d \in Digests BY <1>1, <1>2, Busy, Zenon
<1>5. StoreTypes' BY <1>2, <1>3, <1>4, Zenon DEF Inv, Kept, StoreTypes
<1>6. Learned' BY <1>2, <1>3, Zenon DEF Inv, Kept, Learned, Digest
<1>7. Tracked' /\ Housed' BY <1>2, <1>3 DEF Inv, Kept, Tracked, Housed, Digest
<1>8. SucceededStays' /\ CreatedSurvives' BY <1>2, Zenon DEF Inv, Kept, SucceededStays, CreatedSurvives
<1>9. synced[d] = "good" \/ d \in unsynced
  <2>1. op[o].at \in Inside BY <1>2, Zenon DEF Inside
  <2>2. \A p \in Ops \ {o} : op[p].at = "sync" => Digest(p) # d BY <1>1, <1>3, <2>1, OthersElsewhere, Zenon DEF Inside
  <2>3. ~\E p \in Ops : op[p].at = "sync" /\ Digest(p) = d BY <1>2, <2>2, Zenon
  <2> QED BY <1>2, <1>4, <2>3, Zenon DEF Inv, Kept, Tracked
<1>10. SuccessSurvives' BY <1>2, <1>9, Zenon DEF Inv, Kept, SuccessSurvives
<1> QED BY <1>3, <1>5, <1>6, <1>7, <1>8, <1>10, Zenon DEF Inv, Kept

\* Put succeeds with the blob it published and synced.
LEMMA CleanupStep ==
    ASSUME Inv, NEW o \in Ops, Cleanup(o) PROVE Inv'
<1>1. PICK d : d = Digest(o) BY Zenon
<1>2. /\ op[o].at = "cleanup" /\ Finish(o, TRUE, TRUE)
      /\ present' = IF blob[d] = "good" THEN present \cup {d} ELSE present
      /\ created' = IF blob[d] = "good" THEN created \cup {d} ELSE created
      /\ UNCHANGED <<shards, blob, synced, unsynced, faults>>
  BY <1>1, Zenon DEF Cleanup, At, Digest
<1>3. Control' /\ op'[o].at = "idle" /\ (\A p \in Ops \ {o} : op'[p] = op[p]) /\ closed' = closed
  BY <1>2, FinishControl, Zenon
<1>4. d \in Digests /\ (blob[d] = "good" => synced[d] = "good" /\ Stripe[d] \in shards)
  BY <1>1, <1>2, Busy, Zenon DEF Inv, Kept, Learned, Housed
<1>5. StoreTypes' BY <1>2, <1>3, <1>4, Zenon DEF Inv, Kept, StoreTypes
<1>6. Learned' BY <1>2, <1>3, Zenon DEF Inv, Kept, Learned, Digest
<1>7. Tracked' /\ Housed' BY <1>2, <1>3 DEF Inv, Kept, Tracked, Housed, Digest
<1>8. SucceededStays' /\ CreatedSurvives' BY <1>2, <1>4, Zenon DEF Inv, Kept, SucceededStays, CreatedSurvives
<1>9. SuccessSurvives' BY <1>2, <1>4, Zenon DEF Inv, Kept, SuccessSurvives
<1> QED BY <1>3, <1>5, <1>6, <1>7, <1>8, <1>9, Zenon DEF Inv, Kept

\* The Store is closed, and opened by the next process.
LEMMA CloseOpenStep ==
    ASSUME Inv, Close \/ Open PROVE Inv'
<1>1. UNCHANGED <<op, lock, tmp, succeeded, disk>> /\ closed' \in BOOLEAN BY Zenon DEF Close, Open
<1>2. StoreTypes' /\ Learned' /\ Tracked' /\ Housed'
  BY <1>1, Zenon DEF Inv, Kept, StoreTypes, Learned, Tracked, Housed, Digest, disk
<1>3. SucceededStays' /\ CreatedSurvives' /\ SuccessSurvives'
  BY <1>1, Zenon DEF Inv, Kept, SucceededStays, CreatedSurvives, SuccessSurvives, disk
<1>4. Threads' /\ Locking' /\ TemporariesOwned' BY <1>1, Zenon DEF Inv, Control, Threads, Locking, Digest, TemporariesOwned
<1>5. ClosedIsIdle' BY <1>1, Zenon DEF Close, Open, ClosedIsIdle
<1> QED BY <1>2, <1>3, <1>4, <1>5, Zenon DEF Inv, Control, Kept

\* The disk corrupts a blob, whoever is at work on it.
LEMMA CorruptStep ==
    ASSUME Inv, NEW d \in Digests, Corrupt(d) PROVE Inv'
<1>1. /\ faults < MaxFaults /\ blob[d] = "good" /\ faults' = faults + 1
      /\ blob' = [blob EXCEPT ![d] = "bad"]
      /\ synced' = [synced EXCEPT ![d] = IF synced[d] = "good" THEN "bad" ELSE synced[d]]
      /\ present' = present \ {d} /\ created' = created \ {d}
      /\ UNCHANGED <<closed, op, lock, tmp, succeeded, shards, unsynced>>
  BY Zenon DEF Corrupt, thread
<1>2. blob'[d] = "bad" /\ \A e \in Digests \ {d} : blob'[e] = blob[e] /\ synced'[e] = synced[e]
  BY <1>1, Zenon DEF Inv, Kept, StoreTypes
<1>3. StoreTypes' BY <1>1, MaxFaultsAssumption DEF Inv, Kept, StoreTypes
<1>4. \A o \in Ops : op[o].at \in {"remove", "cleanup"} => op[o].digest \in Digests BY Busy, Zenon DEF Digest
<1>5. Learned' BY <1>1, <1>2, <1>4 DEF Inv, Kept, Learned, Digest
<1>6. Tracked' /\ Housed'
  <2>1. \A e \in Digests : (blob'[e] # "none" => blob[e] # "none") /\ (synced'[e] # "none" => synced[e] # "none")
    BY <1>1, <1>2, Zenon DEF Inv, Kept, StoreTypes
  <2> QED BY <1>1, <1>2, <2>1, Zenon DEF Inv, Kept, Tracked, Housed, Digest
<1>7. SucceededStays' /\ CreatedSurvives' /\ SuccessSurvives'
  BY <1>1, <1>2, Zenon DEF Inv, Kept, StoreTypes, SucceededStays, CreatedSurvives, SuccessSurvives
<1>8. Control' BY <1>1, Zenon DEF Inv, Control, Threads, Locking, Digest, TemporariesOwned, ClosedIsIdle
<1> QED BY <1>3, <1>5, <1>6, <1>7, <1>8, Zenon DEF Inv, Kept

\* The process dies, and a power failure loses any entries not synced, and any
\* shard directories with all they hold.
LEMMA CrashStep ==
    ASSUME Inv, NEW lost \in SUBSET Digests, NEW gone \in SUBSET shards, Crash(lost, gone) PROVE Inv'
<1>1. /\ faults < MaxFaults /\ faults' = faults + 1 /\ closed' = TRUE
      /\ op' = [o \in Ops |-> Idle] /\ lock' = [s \in Stripes |-> "none"]
      /\ tmp' = {} /\ succeeded' = {} /\ shards' = shards \ gone
      /\ unsynced' = (unsynced \cup {op[o].digest : o \in {p \in Ops : op[p].at = "sync"}}) \ lost
      /\ created' = {d \in created : Stripe[d] \notin gone} /\ present' = created'
  BY Zenon DEF Crash, At
<1>2. \A o \in Ops : op'[o] = Idle /\ op'[o].at = "idle" BY <1>1, IdleAt, Zenon
<1>3. \A o \in Ops : op[o].at = "sync" => op[o].digest \in Digests BY Busy, Zenon DEF Digest
<1>4. /\ blob' \in [Digests -> {"none", "good", "bad"}] /\ synced' \in [Digests -> {"none", "good", "bad"}]
      /\ \A d \in Digests : Stripe[d] \in gone => blob'[d] = "none" /\ synced'[d] = "none"
      /\ \A d \in Digests : Stripe[d] \notin gone =>
            blob'[d] = (IF d \in lost THEN synced[d] ELSE blob[d]) /\ synced'[d] = synced[d]
  <2>1. blob' = [d \in Digests |-> IF Stripe[d] \in gone THEN "none" ELSE IF d \in lost THEN synced[d] ELSE blob[d]]
        /\ synced' = [d \in Digests |-> IF Stripe[d] \in gone THEN "none" ELSE synced[d]]
    BY Zenon DEF Crash
  <2>2. blob \in [Digests -> {"none", "good", "bad"}] /\ synced \in [Digests -> {"none", "good", "bad"}]
    BY Zenon DEF Inv, Kept, StoreTypes
  <2> QED BY <2>1, <2>2, Zenon
<1>5. faults' \in 0..MaxFaults BY <1>1, MaxFaultsAssumption DEF Inv, Kept, StoreTypes
<1>6. unsynced' \subseteq Digests BY <1>1, <1>3, Zenon DEF Inv, Kept, StoreTypes
<1>7. StoreTypes' BY <1>1, <1>4, <1>5, <1>6, Zenon DEF Inv, Kept, StoreTypes
<1>8. Control'
  <2>1. "idle" \notin Inside BY Zenon DEF Inside
  <2> QED BY <1>1, <1>2, <2>1, Zenon DEF Control, Threads, Locking, TemporariesOwned, ClosedIsIdle
<1>9. Learned' BY <1>2, Zenon DEF Learned
<1>10. Tracked'
  <2> SUFFICES ASSUME NEW d \in Digests, blob'[d] = "good" PROVE synced'[d] = "good" \/ d \in unsynced'
    BY Zenon DEF Tracked
  <2>1. Stripe[d] \notin gone BY <1>4, Zenon
  <2>2. CASE d \in lost BY <1>4, <2>1, <2>2, Zenon
  <2>3. CASE d \notin lost
    <3>1. synced[d] = "good" \/ d \in unsynced \/ \E o \in Ops : op[o].at = "sync" /\ op[o].digest = d
      BY <1>4, <2>1, <2>3, Zenon DEF Inv, Kept, Tracked, Digest
    <3> QED BY <1>1, <1>4, <2>1, <2>3, <3>1, Zenon
  <2> QED BY <2>2, <2>3, Zenon
<1>11. Housed'
  <2> SUFFICES ASSUME NEW d \in Digests, blob'[d] # "none" \/ synced'[d] # "none" PROVE Stripe[d] \in shards'
    BY Zenon DEF Housed
  <2>1. Stripe[d] \notin gone BY <1>4, Zenon
  <2>2. blob[d] # "none" \/ synced[d] # "none" BY <1>4, <2>1, Zenon
  <2> QED BY <1>1, <2>1, <2>2, Zenon DEF Inv, Kept, Housed
<1>12. SucceededStays' /\ CreatedSurvives' /\ SuccessSurvives'
  <2>1. \A d \in created' : d \in Digests /\ blob'[d] = "good" /\ synced'[d] = "good" /\ Stripe[d] \in shards'
    BY <1>1, <1>4, Zenon DEF Inv, Kept, StoreTypes, CreatedSurvives
  <2> QED BY <1>1, <2>1, Zenon DEF SucceededStays, CreatedSurvives, SuccessSurvives
<1> QED BY <1>7, <1>8, <1>9, <1>10, <1>11, <1>12, Zenon DEF Inv, Kept

\* A fresh root has no blob and no call.
LEMMA Begin == Init => Inv
<1> SUFFICES ASSUME Init PROVE Inv BY Zenon
<1>1. \A o \in Ops : op[o] = Idle /\ op[o].at = "idle" BY IdleAt, Zenon DEF Init
<1>2. StoreTypes
  <2>1. closed \in BOOLEAN /\ shards \subseteq Stripes BY Zenon DEF Init
  <2>2. faults \in 0..MaxFaults BY MaxFaultsAssumption DEF Init
  <2>3. blob \in [Digests -> {"none", "good", "bad"}] /\ synced = blob BY Zenon DEF Init
  <2> QED BY <2>1, <2>2, <2>3, Zenon DEF Init, StoreTypes
<1>3. Control
  <2>1. "idle" \notin Inside BY Zenon DEF Inside
  <2> QED BY <1>1, <2>1, Zenon DEF Init, Control, Threads, Locking, TemporariesOwned, ClosedIsIdle
<1>4. Learned /\ Tracked /\ Housed BY <1>1, Zenon DEF Init, Learned, Tracked, Housed
<1>5. SucceededStays /\ CreatedSurvives /\ SuccessSurvives
  BY Zenon DEF Init, SucceededStays, CreatedSurvives, SuccessSurvives
<1> QED BY <1>2, <1>3, <1>4, <1>5, Zenon DEF Inv, Kept

\* The invariant holds of every reachable state: one step per operation.
LEMMA Invariant == Spec => []Inv
<1>1. ASSUME Inv, NEW o \in Ops, Upload(o) \/ Step(o) PROVE Inv'
  <2>1. CASE Copy(o) BY <1>1, <2>1, CopyStep, Zenon
  <2>2. CASE CopyFails(o) \/ MakeShardFails(o) \/ LinkFails(o) \/ VerifyFails(o) \/ RemoveFails(o) \/ CleanupFails(o)
    BY <1>1, <2>2, GiveUpStep, Zenon DEF CopyFails, MakeShardFails, LinkFails, VerifyFails, RemoveFails, CleanupFails, At
  <2>3. CASE Lock(o) BY <1>1, <2>3, LockStep, Zenon
  <2>4. CASE Link(o)
    <3>1. CASE blob[Digest(o)] = "none" BY <1>1, <2>4, <3>1, PublishStep, Zenon DEF Link, At, Digest
    <3>2. CASE blob[Digest(o)] # "none" BY <1>1, <2>4, <3>2, InsideStep, Zenon DEF Link, At, Digest, disk
    <3> QED BY <3>1, <3>2, Zenon
  <2>5. CASE VerifyGood(o) BY <1>1, <2>5, VerifyGoodStep, Zenon
  <2>6. CASE VerifyBad(o) BY <1>1, <2>6, InsideStep, Zenon DEF VerifyBad, At, Digest
  <2>7. CASE Remove(o, TRUE) \/ Remove(o, FALSE) BY <1>1, <2>7, RemoveStep, Zenon
  <2>8. CASE Relink(o) BY <1>1, <2>8, PublishStep, Zenon DEF Relink, At, Digest
  <2>9. CASE SyncDirectory(o) BY <1>1, <2>9, SyncDirectoryStep, Zenon
  <2>10. CASE SyncFails(o) BY <1>1, <2>10, SyncFailsStep, Zenon
  <2>11. CASE Cleanup(o) BY <1>1, <2>11, CleanupStep, Zenon
  <2>12. CASE MakeShard(o) BY <1>1, <2>12, MakeShardStep, Zenon
  <2> QED BY <1>1, <2>1, <2>2, <2>3, <2>4, <2>5, <2>6, <2>7, <2>8, <2>9, <2>10, <2>11, <2>12, Zenon DEF Step, Upload
<1>2. ASSUME Inv, UNCHANGED vars PROVE Inv'
  <2>1. StoreTypes' /\ Learned' /\ Tracked' /\ Housed'
    BY <1>2, Zenon DEF vars, Inv, Kept, StoreTypes, Learned, Tracked, Housed, Digest
  <2>2. SucceededStays' /\ CreatedSurvives' /\ SuccessSurvives'
    BY <1>2, Zenon DEF vars, Inv, Kept, SucceededStays, CreatedSurvives, SuccessSurvives
  <2>3. Control' BY <1>2, Zenon DEF vars, Inv, Control, Threads, Locking, Digest, TemporariesOwned, ClosedIsIdle
  <2> QED BY <2>1, <2>2, <2>3, Zenon DEF Inv, Kept
<1>3. ASSUME Inv, [Next]_vars PROVE Inv'
  BY <1>1, <1>2, <1>3, StartStep, CloseOpenStep, CorruptStep, CrashStep, Zenon DEF Next
<1> QED BY <1>3, Begin, PTL DEF Spec

\* At every moment, faults or not: a lock belongs to a call in progress, a
\* temporary file to a running Put or to one that reported an error, what Put
\* reported as Created survives every crash and every power failure that leaves
\* its shard directory, and so does every other success but that of a Put which
\* found the blob of an upload that never got to its directory sync.
THEOREM StoreHolds == Spec => []StoreInvariant
<1>1. ASSUME Inv PROVE StoreInvariant
  <2>1. \A s \in Stripes : lock[s] # "none" => op[lock[s]].at \in Inside BY <1>1, Zenon DEF Inv, Control, Locking
  <2>2. TypeOK BY <1>1, <2>1, Zenon DEF Inv, Kept, StoreTypes, Control, Threads, Inside, TypeOK
  <2> QED BY <1>1, <2>2, Zenon DEF Inv, Kept, Control, StoreInvariant
<1> QED BY <1>1, Invariant, PTL

\* A digest whose Put succeeded stays readable until the disk hurts it: no
\* other call of Put or OpenVerified removes the good blob.
THEOREM SuccessStays == Spec => []SucceededStays
<1>1. Inv => SucceededStays BY Zenon DEF Inv, Kept
<1> QED BY <1>1, Invariant, PTL

-----------------------------------------------------------------------------
(***************************************************************************)
(* The convergence pass: whatever the order of the passes, the failures    *)
(* and the calls, and wherever a pass is cut short, a view is whole, a     *)
(* Function has one Endpoint at most, candidates are backed by placements, *)
(* and a running call keeps its replica.                                   *)
(***************************************************************************)

\* What a Route or a pass may name: a Version or none.
Targets == Versions \cup {NoVersion}
\* The states of a replica of the Worker, and the records of intent, of the
\* Gateway's view and of a call.
ReplicaStates == {"none", "Ready", "Draining", "Stopped", "Failed"}
IntentRecord == [function : Functions, version : Versions, state : {"Assigned", "Cancelled"}]
View == [active : BOOLEAN, version : Targets, endpoints : SUBSET IDs]
Call == [at : {"selected", "running"}, function : Functions, assignment : IDs, version : Targets]

\* The pass in each of its phases.
Targeting == [at : {"targets"}, target : [Functions -> Targets]]
Placing == [at : {"placing"}, target : [Functions -> Targets], live : [Functions -> 0..MaxAssignments],
            todo : SUBSET Functions]
Listed == [at : {"listed"}, list : Seq(IntentRecord)]
Stepping == [at : {"reconciling"}, list : Seq(IntentRecord), version : [Functions -> Targets], todo : SUBSET IDs]
Collecting == [at : {"collecting"}, active : [Functions -> BOOLEAN], version : [Functions -> Targets],
               todo : SUBSET Functions, found : [Functions -> SUBSET IDs]]

\* The types of the state; nothing is known of a placement that intent does not
\* have.
Types ==
  /\ lifecycle \in [Functions -> {"Active", "Disabled"}]
  /\ route \in [Functions -> Targets]
  /\ intent \in Seq(IntentRecord) /\ Len(intent) <= MaxAssignments
  /\ replica \in [IDs -> ReplicaStates]
  /\ authorized \subseteq DOMAIN intent /\ candidates \subseteq DOMAIN intent
  /\ \A a \in IDs : replica[a] # "none" => a \in DOMAIN intent
  /\ view \in [Functions -> View] /\ \A f \in Functions : view[f].endpoints \subseteq DOMAIN intent
  /\ call \in [Calls -> Call \cup {AtRest}]

\* While a pass places, only it changes intent: what it found live for a Function
\* it has still to decide is all that is Assigned.  From the list on, intent
\* stays what was listed, and while there is a record to reconcile every candidate
\* is Assigned.  What was found for a Function was its candidate.
Steps ==
  /\ pass.list = intent /\ pass.todo \subseteq DOMAIN intent
  /\ pass.todo # {} => \A b \in candidates : intent[b].state = "Assigned"
Collects ==
  \A f \in Functions : /\ \A a \in pass.found[f] : a \in DOMAIN intent /\ intent[a].function = f
                       /\ \A a, b \in pass.found[f] : a = b
PassSound ==
  \/ pass = AtRest
  \/ pass \in Targeting
  \/ /\ pass \in Placing
     /\ \A f \in pass.todo : /\ pass.target[f] \in Versions
                             /\ pass.live[f] = 0 => Assigned(f) = {}
                             /\ pass.live[f] # 0 => pass.live[f] \in Assigned(f)
  \/ pass \in Listed /\ pass.list = intent
  \/ pass \in Stepping /\ Steps
  \/ pass \in Collecting /\ Collects

\* A Function has one Assigned placement at most.
OneAssigned == \A f \in Functions : \A a, b \in Assigned(f) : a = b

\* A call names a placement of the Version it was selected for, and a running
\* call has a replica that still runs.
CallsSound ==
  \A c \in Calls : call[c].at # "idle" =>
    /\ call[c].assignment \in DOMAIN intent
    /\ intent[call[c].assignment].version = call[c].version
    /\ call[c].at = "running" => replica[call[c].assignment] \in {"Ready", "Draining"}

\* The inductive invariant.
ConvergenceInv ==
  /\ Types /\ PassSound /\ OneAssigned /\ OneEndpoint
  /\ CandidatesBacked /\ ViewIsWhole /\ CallsSound

-----------------------------------------------------------------------------
(* What the phases are.                                                    *)

\* The records of intent.
LEMMA IntentRecords ==
  ASSUME Types
  PROVE  /\ DOMAIN intent = 1..Len(intent) /\ Len(intent) \in Nat
         /\ DOMAIN intent \subseteq IDs
         /\ \A a \in DOMAIN intent : /\ intent[a] \in IntentRecord /\ intent[a].function \in Functions
                                     /\ intent[a].version \in Versions
                                     /\ intent[a].state \in {"Assigned", "Cancelled"}
<1>1. intent \in Seq(IntentRecord) /\ Len(intent) <= MaxAssignments
  BY Zenon DEF Types
<1>2. DOMAIN intent = 1..Len(intent) /\ Len(intent) \in Nat
  BY <1>1
<1>3. DOMAIN intent \subseteq IDs
  BY <1>1, <1>2, BoundsAssumption DEF IDs
<1>4. \A a \in DOMAIN intent : intent[a] \in IntentRecord
  BY <1>1, <1>2
<1> QED BY <1>2, <1>3, <1>4, Zenon DEF IntentRecord

\* The phase tells what the pass carries.
LEMMA Phases ==
  ASSUME PassSound
  PROVE  /\ pass.at = "targets" => pass \in Targeting
         /\ pass.at = "placing" =>
              /\ pass \in Placing
              /\ \A f \in pass.todo : /\ pass.target[f] \in Versions
                                      /\ pass.live[f] = 0 => Assigned(f) = {}
                                      /\ pass.live[f] # 0 => pass.live[f] \in Assigned(f)
         /\ pass.at = "listed" => pass \in Listed /\ pass.list = intent
         /\ pass.at = "reconciling" => pass \in Stepping /\ Steps
         /\ pass.at = "collecting" => pass \in Collecting /\ Collects
<1>1. /\ AtRest.at = "idle" /\ \A p \in Targeting : p.at = "targets"
      /\ \A p \in Placing : p.at = "placing"
      /\ \A p \in Listed : p.at = "listed"
      /\ \A p \in Stepping : p.at = "reconciling"
      /\ \A p \in Collecting : p.at = "collecting"
  BY Zenon DEF AtRest, Targeting, Placing, Listed, Stepping, Collecting
<1> QED BY <1>1, Zenon DEF PassSound

\* What is Assigned follows from intent.
LEMMA AssignedFrame ==
  ASSUME UNCHANGED intent PROVE \A g : Assigned(g)' = Assigned(g)
BY Zenon DEF Assigned

\* A step that changes neither intent nor candidates nor the view.
LEMMA OnesFrame ==
  ASSUME OneAssigned, OneEndpoint, UNCHANGED <<intent, candidates, view>> PROVE OneAssigned' /\ OneEndpoint'
<1>1. OneAssigned' BY AssignedFrame, Zenon DEF OneAssigned
<1>2. OneEndpoint' BY Zenon DEF OneEndpoint
<1> QED BY <1>1, <1>2, Zenon

\* A step that does not concern the pass.
LEMMA PassFrame ==
  ASSUME PassSound, UNCHANGED <<intent, candidates, pass>> PROVE PassSound'
<1>1. Steps => Steps' BY Zenon DEF Steps
<1>2. Collects => Collects' BY Zenon DEF Collects
<1>3. \A f : Assigned(f)' = Assigned(f) BY AssignedFrame, Zenon
<1> QED BY <1>1, <1>2, <1>3, Zenon DEF PassSound

\* Operators change neither intent nor anything a pass has made of it.
LEMMA ControlKeeps ==
  ASSUME ConvergenceInv, UNCHANGED <<intent, worker, candidates, view, pass, call>>,
         lifecycle' \in [Functions -> {"Active", "Disabled"}], route' \in [Functions -> Targets]
  PROVE  ConvergenceInv'
<1>1. UNCHANGED <<intent, replica, authorized, candidates, view, pass, call>>
  BY Zenon DEF worker
<1>2. Types' BY <1>1, Zenon DEF ConvergenceInv, Types
<1>3. PassSound' BY <1>1, PassFrame, Zenon DEF ConvergenceInv
<1>5. OneAssigned' /\ OneEndpoint' BY <1>1, OnesFrame, Zenon DEF ConvergenceInv
<1>6. CandidatesBacked' /\ ViewIsWhole'
  BY <1>1 DEF ConvergenceInv, CandidatesBacked, ViewIsWhole
<1>7. CallsSound'
  BY <1>1, Zenon DEF ConvergenceInv, CallsSound
<1> QED BY <1>2, <1>3, <1>5, <1>6, <1>7, Zenon DEF ConvergenceInv

\* A step of the pass that only reads.
LEMMA PassKeeps ==
  ASSUME ConvergenceInv, UNCHANGED <<lifecycle, route, intent, worker, candidates, view, call>>, PassSound'
  PROVE  ConvergenceInv'
<1>1. UNCHANGED <<lifecycle, route, intent, replica, authorized, candidates, view, call>>
  BY Zenon DEF worker
<1>2. Types' BY <1>1, Zenon DEF ConvergenceInv, Types
<1>5. OneAssigned' /\ OneEndpoint' BY <1>1, OnesFrame, Zenon DEF ConvergenceInv
<1>6. CandidatesBacked' /\ ViewIsWhole'
  BY <1>1 DEF ConvergenceInv, CandidatesBacked, ViewIsWhole
<1>7. CallsSound'
  BY <1>1, Zenon DEF ConvergenceInv, CallsSound
<1> QED BY <1>2, <1>5, <1>6, <1>7, Zenon DEF ConvergenceInv

\* PlaceTargets reads what every Function should run.
LEMMA PlaceTargetsKeeps ==
  ASSUME ConvergenceInv, PlaceTargets PROVE ConvergenceInv'
<1>1. pass.at = "idle" /\ UNCHANGED <<control, intent, worker, candidates, view, call>>
  BY Zenon DEF PlaceTargets
<1>2. pass' \in Targeting
  <2>1. \A f \in Functions : servableTarget(f) \in Targets
    BY Zenon DEF ConvergenceInv, Types, servableTarget, Targets
  <2>2. pass' = [at |-> "targets", target |-> [f \in Functions |-> servableTarget(f)]]
    BY Zenon DEF PlaceTargets
  <2> QED BY <2>1, <2>2, Zenon DEF Targeting
<1>3. PassSound'
  BY <1>2, Zenon DEF PassSound
<1> QED BY <1>1, <1>3, PassKeeps, Zenon DEF control

\* The live placement a pass finds is the one the Function has.
LEMMA PlaceLiveKeeps ==
  ASSUME ConvergenceInv, PlaceLive PROVE ConvergenceInv'
<1> DEFINE live == [f \in Functions |-> IF Assigned(f) = {} THEN 0 ELSE Max(Assigned(f))]
           todo == {f \in Functions : pass.target[f] # NoVersion}
<1>1. pass.at = "targets" /\ UNCHANGED <<control, intent, worker, candidates, view, call>>
      /\ pass' = [at |-> "placing", target |-> pass.target, live |-> live, todo |-> todo]
  BY Zenon DEF PlaceLive
<1>2. pass \in Targeting /\ Types
  BY <1>1, Phases, Zenon DEF ConvergenceInv
<1>3. ASSUME NEW f \in Functions, Assigned(f) # {}
      PROVE  Max(Assigned(f)) \in Assigned(f) /\ Max(Assigned(f)) \in IDs /\ Max(Assigned(f)) # 0
  <2>1. PICK a \in Assigned(f) : TRUE
    BY <1>3, Zenon
  <2>2. Assigned(f) \subseteq IDs
    BY <1>2, IntentRecords, Zenon DEF Assigned
  <2>3. \A y \in Assigned(f) : a >= y
    <3>1. \A y \in Assigned(f) : y = a
      BY <2>1, Zenon DEF ConvergenceInv, OneAssigned
    <3>2. a \in Int
      BY <2>2, BoundsAssumption DEF IDs
    <3> QED BY <3>1, <3>2
  <2>4. Max(Assigned(f)) \in Assigned(f)
    BY <2>1, <2>3, Zenon DEF Max
  <2>5. \A y \in IDs : y # 0
    BY BoundsAssumption DEF IDs
  <2> QED BY <2>2, <2>4, <2>5, Zenon
<1>4. live \in [Functions -> 0..MaxAssignments]
  <2>1. \A f \in Functions : (IF Assigned(f) = {} THEN 0 ELSE Max(Assigned(f))) \in 0..MaxAssignments
    BY <1>3, BoundsAssumption DEF IDs
  <2> QED BY <2>1, Zenon
<1>5. todo \subseteq Functions /\ pass.target \in [Functions -> Targets]
  BY <1>2, Zenon DEF Targeting
<1>6. \A f \in todo : /\ pass.target[f] \in Versions
                      /\ live[f] = 0 => Assigned(f) = {}
                      /\ live[f] # 0 => live[f] \in Assigned(f)
  BY <1>3, <1>5, Zenon DEF Targets
<1> HIDE DEF live, todo
<1>7. pass' \in Placing /\ pass'.todo = todo /\ pass'.target = pass.target /\ pass'.live = live
  BY <1>1, <1>4, <1>5, Zenon DEF Placing
<1>8. \A f \in Functions : Assigned(f)' = Assigned(f)
  BY <1>1, Zenon DEF Assigned
<1>9. PassSound'
  <2>1. \A f \in pass'.todo : /\ pass'.target[f] \in Versions
                              /\ pass'.live[f] = 0 => Assigned(f)' = {}
                              /\ pass'.live[f] # 0 => pass'.live[f] \in Assigned(f)'
    BY <1>5, <1>6, <1>7, <1>8, Zenon
  <2> QED BY <1>7, <2>1, Zenon DEF PassSound
<1> QED BY <1>1, <1>9, PassKeeps, Zenon DEF control

\* A Function is decided without a change of intent.
LEMMA DecidedKeeps ==
  ASSUME ConvergenceInv, NEW f \in Functions, pass.at = "placing", pass' = [pass EXCEPT !.todo = @ \ {f}],
         UNCHANGED <<control, intent, worker, candidates, view, call>>
  PROVE  ConvergenceInv'
<1>2. /\ pass \in Placing
      /\ \A g \in pass.todo : /\ pass.target[g] \in Versions
                              /\ pass.live[g] = 0 => Assigned(g) = {}
                              /\ pass.live[g] # 0 => pass.live[g] \in Assigned(g)
  BY Phases, Zenon DEF ConvergenceInv
<1>3. /\ pass' \in Placing /\ pass'.todo = pass.todo \ {f} /\ pass'.target = pass.target
      /\ pass'.live = pass.live /\ pass'.at = "placing"
  BY <1>2, Zenon DEF Placing
<1>4. \A g : Assigned(g)' = Assigned(g)
  BY Zenon DEF Assigned
<1>5. PassSound'
  <2>1. \A g \in pass'.todo : /\ pass'.target[g] \in Versions
                              /\ pass'.live[g] = 0 => Assigned(g)' = {}
                              /\ pass'.live[g] # 0 => pass'.live[g] \in Assigned(g)'
    BY <1>2, <1>3, <1>4, Zenon
  <2> QED BY <1>3, <2>1, Zenon DEF PassSound
<1> QED BY <1>5, PassKeeps, Zenon DEF control

\* Reconcile lists intent.
LEMMA ReconcileListKeeps ==
  ASSUME ConvergenceInv, ReconcileList PROVE ConvergenceInv'
<1>1. /\ UNCHANGED <<control, intent, worker, candidates, view, call>>
      /\ pass' = [at |-> "listed", list |-> intent]
  BY Zenon DEF ReconcileList
<1>2. pass' \in Listed /\ pass'.list = intent'
  BY <1>1, Zenon DEF Listed, ConvergenceInv, Types
<1>3. PassSound'
  BY <1>2, Zenon DEF PassSound
<1> QED BY <1>1, <1>3, PassKeeps, Zenon DEF control

\* Candidates without intent are dropped before the first replica is looked at.
LEMMA ReconcileStatesKeeps ==
  ASSUME ConvergenceInv, ReconcileStates PROVE ConvergenceInv'
<1>1. /\ pass.at = "listed" /\ UNCHANGED <<lifecycle, route, intent, replica, authorized, view, call>>
      /\ pass' = [at |-> "reconciling", list |-> pass.list, version |-> route, todo |-> DOMAIN pass.list]
      /\ candidates' = {a \in candidates : a \in DOMAIN pass.list /\ pass.list[a].state = "Assigned"}
  BY Zenon DEF ReconcileStates, worker, control
<1>2. pass \in Listed /\ pass.list = intent /\ Types
  BY <1>1, Phases, Zenon DEF ConvergenceInv
<1>3. pass' \in Stepping /\ pass'.list = intent /\ pass'.todo = DOMAIN intent
  <2>1. DOMAIN pass.list \subseteq IDs
    BY <1>2, IntentRecords, Zenon
  <2> QED BY <1>1, <1>2, <2>1, Zenon DEF Listed, Stepping, Types
<1>4. Types'
  BY <1>1, <1>2, Zenon DEF Types
<1>5. candidates' \subseteq candidates /\ \A b \in candidates' : intent[b].state = "Assigned"
  BY <1>1, <1>2, Zenon
<1>6. PassSound'
  BY <1>1, <1>3, <1>5, Zenon DEF PassSound, Steps
<1>7. OneAssigned'
  BY <1>1, AssignedFrame, Zenon DEF ConvergenceInv, OneAssigned
<1>8. OneEndpoint'
  BY <1>1, <1>5, Zenon DEF ConvergenceInv, OneEndpoint
<1>9. CandidatesBacked' /\ ViewIsWhole'
  BY <1>1, <1>5, Zenon DEF ConvergenceInv, CandidatesBacked, ViewIsWhole
<1>10. CallsSound'
  BY <1>1, Zenon DEF ConvergenceInv, CallsSound
<1> QED BY <1>4, <1>6, <1>7, <1>8, <1>9, <1>10, Zenon DEF ConvergenceInv

\* Reconcile stops before it touches a candidate: there is nothing left to do.
LEMMA ReconcileStopsKeeps ==
  ASSUME ConvergenceInv, ReconcileStops PROVE ConvergenceInv'
<1>1. /\ pass.at = "listed" /\ UNCHANGED <<lifecycle, route, intent, worker, candidates, view, call>>
      /\ pass' = [at |-> "reconciling", list |-> pass.list, version |-> route, todo |-> {}]
  BY Zenon DEF ReconcileStops, CutShort
<1>2. pass \in Listed /\ pass.list = intent /\ Types
  BY <1>1, Phases, Zenon DEF ConvergenceInv
<1>3. pass' \in Stepping /\ pass'.list = intent /\ pass'.todo = {}
  BY <1>1, <1>2, Zenon DEF Listed, Stepping, Types
<1>4. PassSound'
  BY <1>1, <1>3, Zenon DEF PassSound, Steps
<1> QED BY <1>1, <1>4, PassKeeps, Zenon

\* A pass that stops leaves everything as it is.
LEMMA PassStopsKeeps ==
  ASSUME ConvergenceInv, PassStops PROVE ConvergenceInv'
<1>1. UNCHANGED <<lifecycle, route, intent, worker, candidates, view, call>> /\ pass' = AtRest
  BY Zenon DEF PassStops, CutShort
<1>2. PassSound'
  BY <1>1, Zenon DEF PassSound
<1> QED BY <1>1, <1>2, PassKeeps, Zenon

\* The sync reads the states.
LEMMA SyncStatesKeeps ==
  ASSUME ConvergenceInv, SyncStates PROVE ConvergenceInv'
<1>1. /\ UNCHANGED <<control, intent, worker, candidates, view, call>>
      /\ pass' = [at |-> "collecting", active |-> [f \in Functions |-> lifecycle[f] = "Active"],
                  version |-> route, todo |-> Functions, found |-> [f \in Functions |-> {}]]
  BY Zenon DEF SyncStates
<1>2. pass' \in Collecting /\ \A f \in Functions : pass'.found[f] = {}
  <2>1. [f \in Functions |-> lifecycle[f] = "Active"] \in [Functions -> BOOLEAN]
    BY Zenon
  <2>2. [f \in Functions |-> {}] \in [Functions -> SUBSET IDs]
    BY Zenon
  <2> QED BY <1>1, <2>1, <2>2, Zenon DEF Collecting, ConvergenceInv, Types
<1>3. PassSound'
  BY <1>2, Zenon DEF PassSound, Collects
<1> QED BY <1>1, <1>3, PassKeeps, Zenon DEF control

\* The synchroniser lists the candidates of one Function.
LEMMA SyncCandidatesKeeps ==
  ASSUME ConvergenceInv, NEW f \in Functions, SyncCandidates(f) PROVE ConvergenceInv'
<1> DEFINE found == {a \in candidates : intent[a].function = f /\ replica[a] = "Ready"}
<1>1. /\ pass.at = "collecting" /\ UNCHANGED <<control, intent, worker, candidates, view, call>>
      /\ pass' = [pass EXCEPT !.todo = @ \ {f}, !.found[f] = found]
  BY Zenon DEF SyncCandidates
<1>2. pass \in Collecting /\ Types /\ Collects
  BY <1>1, Phases, Zenon DEF ConvergenceInv
<1>3. /\ found \subseteq DOMAIN intent /\ found \subseteq IDs
      /\ \A a \in found : a \in candidates /\ intent[a].function = f
  BY <1>2, IntentRecords, Zenon DEF Types
<1> HIDE DEF found
<1>4. pass' \in Collecting /\ \A g \in Functions : pass'.found[g] = IF g = f THEN found ELSE pass.found[g]
  BY <1>1, <1>2, <1>3, Zenon DEF Collecting
<1>5. \A a, b \in found : a = b
  BY <1>3, Zenon DEF ConvergenceInv, OneEndpoint
<1>6. Collects'
  <2> SUFFICES ASSUME NEW g \in Functions
               PROVE  /\ \A a \in pass'.found[g] : a \in DOMAIN intent /\ intent[a].function = g
                      /\ \A a, b \in pass'.found[g] : a = b
    BY <1>1, Zenon DEF Collects
  <2>1. CASE g = f
    BY <1>3, <1>4, <1>5, <2>1, Zenon
  <2>2. CASE g # f
    BY <1>2, <1>4, <2>2, Zenon DEF Collects
  <2> QED BY <2>1, <2>2, Zenon
<1>7. PassSound'
  BY <1>4, <1>6, Zenon DEF PassSound
<1> QED BY <1>1, <1>7, PassKeeps, Zenon DEF control

\* The batch is built from one reading of the states: it is whole whatever the
\* Routes have become since.
LEMMA SyncApplyKeeps ==
  ASSUME ConvergenceInv, SyncApply PROVE ConvergenceInv'
<1> DEFINE Ends(f) == {a \in pass.found[f] : Included(f, a)}
<1>1. /\ pass.at = "collecting"
      /\ UNCHANGED <<lifecycle, route, intent, replica, authorized, candidates, call>>
      /\ pass' = AtRest
      /\ view' = [f \in Functions |-> [active |-> pass.active[f], version |-> pass.version[f],
                                       endpoints |-> Ends(f)]]
  BY Zenon DEF SyncApply, worker, control
<1>2. pass \in Collecting /\ Types /\ Collects
  BY <1>1, Phases, Zenon DEF ConvergenceInv
<1>3. \A f \in Functions : /\ Ends(f) \subseteq DOMAIN intent /\ Ends(f) \subseteq IDs
                           /\ \A a \in Ends(f) : /\ pass.active[f] /\ intent[a].function = f
                                                 /\ intent[a].version = pass.version[f]
                           /\ \A a, b \in Ends(f) : a = b
  BY <1>2, IntentRecords, Zenon DEF Included, Collects
<1> HIDE DEF Ends
<1>4. pass.active \in [Functions -> BOOLEAN] /\ pass.version \in [Functions -> Targets]
  BY <1>2, Zenon DEF Collecting
<1>5. \A f \in Functions : [active |-> pass.active[f], version |-> pass.version[f], endpoints |-> Ends(f)] \in View
  BY <1>3, <1>4, Zenon DEF View
<1>6. view' \in [Functions -> View]
  BY <1>1, <1>5, Zenon
<1>7. \A f \in Functions : /\ view'[f].active = pass.active[f] /\ view'[f].version = pass.version[f]
                           /\ view'[f].endpoints = Ends(f)
  BY <1>1, Zenon
<1>8. Types'
  BY <1>1, <1>2, <1>3, <1>6, <1>7, Zenon DEF Types
<1>9. ViewIsWhole'
  BY <1>1, <1>3, <1>7 DEF ViewIsWhole
<1>10. PassSound'
  BY <1>1, Zenon DEF PassSound
<1>11. OneAssigned'
  BY <1>1, AssignedFrame, Zenon DEF ConvergenceInv, OneAssigned
<1>12. OneEndpoint'
  BY <1>1, <1>3, <1>7 DEF ConvergenceInv, OneEndpoint
<1>13. CandidatesBacked'
  BY <1>1, Zenon DEF ConvergenceInv, CandidatesBacked
<1>14. CallsSound'
  BY <1>1, Zenon DEF ConvergenceInv, CallsSound
<1> QED BY <1>8, <1>9, <1>10, <1>11, <1>12, <1>13, <1>14, Zenon DEF ConvergenceInv

-----------------------------------------------------------------------------
(* Placement.                                                              *)

\* Cancelling leaves the Function without a placement until a later pass, and its
\* candidate the one it had.
LEMMA PlaceCancelKeeps ==
  ASSUME ConvergenceInv, NEW f \in Functions, PlaceCancel(f) PROVE ConvergenceInv'
<1>1. PICK l : l = pass.live[f]
  BY Zenon
<1>2. /\ pass.at = "placing" /\ f \in pass.todo /\ l # 0
      /\ intent' = [intent EXCEPT ![l].state = "Cancelled"]
      /\ pass' = [pass EXCEPT !.todo = @ \ {f}]
      /\ UNCHANGED <<lifecycle, route, replica, authorized, candidates, view, call>>
  BY <1>1, Zenon DEF PlaceCancel, Placed, worker, control
<1>3. /\ pass \in Placing /\ Types
      /\ \A g \in pass.todo : /\ pass.target[g] \in Versions
                              /\ pass.live[g] = 0 => Assigned(g) = {}
                              /\ pass.live[g] # 0 => pass.live[g] \in Assigned(g)
  BY <1>2, Phases, Zenon DEF ConvergenceInv
<1>4. l \in DOMAIN intent /\ intent[l].function = f /\ intent[l].state = "Assigned"
  BY <1>1, <1>2, <1>3, Zenon DEF Assigned
<1>5. /\ pass' \in Placing /\ pass'.todo = pass.todo \ {f} /\ pass'.target = pass.target
      /\ pass'.live = pass.live /\ pass'.at = "placing"
  BY <1>2, <1>3, Zenon DEF Placing
<1>6. intent \in Seq(IntentRecord) /\ Len(intent) <= MaxAssignments
  BY <1>3, Zenon DEF Types
<1>7. PICK r \in IntentRecord : /\ r = [intent[l] EXCEPT !.state = "Cancelled"]
                          /\ r.function = intent[l].function /\ r.version = intent[l].version
                          /\ r.state = "Cancelled"
  <2>1. \A x \in IntentRecord : LET y == [x EXCEPT !.state = "Cancelled"] IN
           y \in IntentRecord /\ y.function = x.function /\ y.version = x.version /\ y.state = "Cancelled"
    BY Zenon DEF IntentRecord
  <2>2. intent[l] \in IntentRecord
    BY <1>4, <1>6
  <2> QED BY <2>1, <2>2, Zenon
<1>8. r.function = f /\ r.version = intent[l].version /\ r.state = "Cancelled"
  BY <1>4, <1>7, Zenon
<1>9. intent' = [intent EXCEPT ![l] = r]
  BY <1>2, <1>7, Zenon
<1>10. /\ intent' \in Seq(IntentRecord) /\ Len(intent') = Len(intent) /\ DOMAIN intent' = DOMAIN intent
       /\ intent'[l] = r /\ \A a \in DOMAIN intent : a # l => intent'[a] = intent[a]
  BY <1>4, <1>6, <1>9
<1>11. \A a \in DOMAIN intent : /\ intent'[a].function = intent[a].function
                                /\ intent'[a].version = intent[a].version
  BY <1>4, <1>8, <1>10, Zenon
<1>12. Assigned(f)' = {}
  <2>1. \A a \in Assigned(f) : a = l
    BY <1>1, <1>2, <1>3, Zenon DEF ConvergenceInv, OneAssigned
  <2> QED BY <1>4, <1>8, <1>10, <2>1 DEF Assigned
<1>13. \A g \in Functions : g # f => Assigned(g)' = Assigned(g)
  BY <1>4, <1>8, <1>10, Zenon DEF Assigned
<1>14. Types'
  <2>1. Len(intent') <= MaxAssignments
    BY <1>6, <1>10, Zenon
  <2> QED BY <1>2, <1>3, <1>10, <2>1, Zenon DEF Types
<1>15. PassSound'
  <2>1. \A g \in pass'.todo : /\ pass'.target[g] \in Versions
                              /\ pass'.live[g] = 0 => Assigned(g)' = {}
                              /\ pass'.live[g] # 0 => pass'.live[g] \in Assigned(g)'
    <3>1. \A g \in pass'.todo : g \in pass.todo /\ g \in Functions /\ g # f
      BY <1>3, <1>5, Zenon DEF Placing
    <3> QED BY <1>3, <1>5, <1>13, <3>1, Zenon
  <2> QED BY <1>5, <2>1, Zenon DEF PassSound
<1>17. OneAssigned'
  BY <1>12, <1>13 DEF ConvergenceInv, OneAssigned
<1>18. OneEndpoint'
  BY <1>2, <1>3, <1>11 DEF ConvergenceInv, OneEndpoint, Types
<1>19. CandidatesBacked'
  BY <1>2, Zenon DEF ConvergenceInv, CandidatesBacked
<1>20. ViewIsWhole'
  BY <1>2, <1>3, <1>11 DEF ConvergenceInv, ViewIsWhole, Types
<1>21. CallsSound'
  BY <1>2, <1>10, <1>11 DEF ConvergenceInv, CallsSound
<1> QED BY <1>14, <1>15, <1>17, <1>18, <1>19, <1>20, <1>21, Zenon DEF ConvergenceInv

\* A placement is committed only for a Function that has none.
LEMMA PlaceCommitKeeps ==
  ASSUME ConvergenceInv, NEW f \in Functions, PlaceCommit(f) PROVE ConvergenceInv'
<1>1. /\ pass.at = "placing" /\ f \in pass.todo /\ pass.live[f] = 0 /\ Len(intent) < MaxAssignments
      /\ pass' = [pass EXCEPT !.todo = @ \ {f}]
      /\ UNCHANGED <<lifecycle, route, changes, replica, authorized, candidates, view, call>>
  BY Zenon DEF PlaceCommit, Placed, worker, control
<1>2. /\ pass \in Placing /\ Types
      /\ \A g \in pass.todo : /\ pass.target[g] \in Versions
                              /\ pass.live[g] = 0 => Assigned(g) = {}
                              /\ pass.live[g] # 0 => pass.live[g] \in Assigned(g)
  BY <1>1, Phases, Zenon DEF ConvergenceInv
<1>3. CASE intent' = intent
  <2>1. UNCHANGED <<control, intent, worker, candidates, view, call>>
    BY <1>1, <1>3, Zenon DEF worker, control
  <2> QED BY <1>1, <2>1, DecidedKeeps, Zenon
<1>4. ASSUME intent' # intent PROVE ConvergenceInv'
  <2>0. PICK v \in Versions : v = pass.target[f]
    BY <1>1, <1>2, Zenon
  <2>1. PICK r \in IntentRecord : /\ r = [function |-> f, version |-> pass.target[f], state |-> "Assigned"]
                            /\ r.function = f /\ r.state = "Assigned"
    <3>1. [function |-> f, version |-> v, state |-> "Assigned"] \in IntentRecord
      BY Zenon DEF IntentRecord
    <3> QED BY <2>0, <3>1, Zenon
  <2>2. intent' = Append(intent, r)
    BY <1>4, <2>1, Zenon DEF PlaceCommit
  <2>3. intent \in Seq(IntentRecord) /\ Len(intent) \in Nat
    BY <1>2 DEF Types
  <2>4. PICK n \in Nat : n = Len(intent) + 1
    BY <2>3
  <2>5. /\ intent' \in Seq(IntentRecord) /\ Len(intent') = n /\ DOMAIN intent' = DOMAIN intent \cup {n}
        /\ n \notin DOMAIN intent /\ intent'[n] = r /\ \A a \in DOMAIN intent : intent'[a] = intent[a]
    BY <2>2, <2>3, <2>4
  <2>6. n \in IDs /\ replica[n] = "none" /\ n <= MaxAssignments
    <3>1. n \in IDs /\ n <= MaxAssignments
      BY <1>1, <2>3, <2>4, BoundsAssumption DEF IDs
    <3> QED BY <1>2, <2>5, <3>1, Zenon DEF Types
  <2>7. /\ pass' \in Placing /\ pass'.todo = pass.todo \ {f} /\ pass'.target = pass.target
        /\ pass'.live = pass.live /\ pass'.at = "placing"
    BY <1>1, <1>2, Zenon DEF Placing
  <2>8. Assigned(f) = {} /\ Assigned(f)' = {n}
    <3>1. Assigned(f) = {}
      BY <1>1, <1>2, Zenon
    <3> QED BY <2>1, <2>5, <3>1, Zenon DEF Assigned
  <2>9. \A g \in Functions : g # f => Assigned(g)' = Assigned(g)
    BY <2>1, <2>5, Zenon DEF Assigned
  <2>10. Types'
    BY <1>1, <1>2, <2>5, <2>6, Zenon DEF Types
  <2>11. PassSound'
    <3>1. \A g \in pass'.todo : g \in pass.todo /\ g \in Functions /\ g # f
      BY <1>2, <2>7, Zenon DEF Placing
    <3>2. \A g \in pass'.todo : /\ pass'.target[g] \in Versions
                                /\ pass'.live[g] = 0 => Assigned(g)' = {}
                                /\ pass'.live[g] # 0 => pass'.live[g] \in Assigned(g)'
      BY <1>2, <2>7, <2>9, <3>1, Zenon
    <3> QED BY <2>7, <3>2, Zenon DEF PassSound
  <2>13. OneAssigned'
    BY <2>8, <2>9 DEF ConvergenceInv, OneAssigned
  <2>14. OneEndpoint'
    BY <1>1, <1>2, <2>5 DEF ConvergenceInv, OneEndpoint, Types
  <2>15. CandidatesBacked'
    BY <1>1, Zenon DEF ConvergenceInv, CandidatesBacked
  <2>16. ViewIsWhole'
    BY <1>1, <1>2, <2>5 DEF ConvergenceInv, ViewIsWhole, Types
  <2>17. CallsSound'
    BY <1>1, <2>5, Zenon DEF ConvergenceInv, CallsSound
  <2> QED BY <2>10, <2>11, <2>13, <2>14, <2>15, <2>16, <2>17, Zenon DEF ConvergenceInv
<1> QED BY <1>3, <1>4, Zenon

-----------------------------------------------------------------------------
(* Reconciling one record.                                                 *)

\* What the outcomes for a record have in common: a replica is a candidate only
\* when its record is Assigned, it is Ready and it has its authorization, and it is
\* never taken from under its calls.
LEMMA ReplicaKeeps ==
  ASSUME ConvergenceInv, NEW a, NEW state, Reconciling(a, state), UNCHANGED <<lifecycle, route>>,
         NEW s \in ReplicaStates, replica' = [replica EXCEPT ![a] = s],
         \A b : b # a => (b \in authorized <=> b \in authorized') /\ (b \in candidates' => b \in candidates),
         a \in candidates' => s = "Ready" /\ state = "Assigned" /\ a \in authorized',
         Running(a) # {} => s \in {"Ready", "Draining"}
  PROVE  ConvergenceInv'
<1>1. /\ pass.at = "reconciling" /\ a \in pass.todo /\ pass.list[a].state = state
      /\ pass' = [pass EXCEPT !.todo = @ \ {a}]
      /\ UNCHANGED <<lifecycle, route, intent, view, call>>
  BY Zenon DEF Reconciling
<1>2. pass \in Stepping /\ Steps /\ Types
  BY <1>1, Phases, Zenon DEF ConvergenceInv
<1>3. pass' \in Stepping /\ pass'.list = pass.list /\ pass'.todo = pass.todo \ {a}
  BY <1>1, <1>2, Zenon DEF Stepping
<1>4. a \in DOMAIN intent /\ a \in IDs /\ intent[a].state = state
  BY <1>1, <1>2, IntentRecords, Zenon DEF Steps
<1>5. /\ replica' \in [IDs -> ReplicaStates] /\ replica'[a] = s
      /\ \A b \in IDs : b # a => replica'[b] = replica[b]
  BY <1>2, <1>4, Zenon DEF Types
<1>6. Types'
  <2>1. authorized' \subseteq DOMAIN intent' /\ candidates' \subseteq DOMAIN intent'
    BY <1>1, <1>2, <1>4, Zenon DEF Types
  <2>2. \A b \in IDs : replica'[b] # "none" => b \in DOMAIN intent'
    BY <1>1, <1>2, <1>4, <1>5, Zenon DEF Types
  <2> QED BY <1>1, <1>2, <1>5, <2>1, <2>2, Zenon DEF Types
<1>7. \A b \in candidates' : intent[b].state = "Assigned"
  BY <1>1, <1>2, <1>4, Zenon DEF Steps
<1>8. PassSound'
  <2>1. Steps'
    BY <1>1, <1>2, <1>3, <1>7, Zenon DEF Steps
  <2> QED BY <1>3, <2>1, Zenon DEF PassSound
<1>9. \A b \in DOMAIN intent : b \in IDs
  BY <1>2, IntentRecords, Zenon
<1>10. OneAssigned'
  BY <1>1, AssignedFrame, Zenon DEF ConvergenceInv, OneAssigned
<1>11. OneEndpoint'
  <2>1. \A f \in Functions : \A b, c \in candidates' : intent[b].function = f /\ intent[c].function = f => b = c
    <3> SUFFICES ASSUME NEW f \in Functions, NEW b \in candidates', NEW c \in candidates',
                        intent[b].function = f, intent[c].function = f
                 PROVE  b = c
      BY Zenon
    <3>1. candidates' \subseteq DOMAIN intent
      BY <1>1, <1>6, Zenon DEF Types
    <3>2. b \in Assigned(f) /\ c \in Assigned(f)
      BY <1>7, <3>1, Zenon DEF Assigned
    <3> QED BY <3>2, Zenon DEF ConvergenceInv, OneAssigned
  <2> QED BY <1>1, <2>1, Zenon DEF ConvergenceInv, OneEndpoint
<1>12. CandidatesBacked'
  <2>1. \A b \in candidates' : b \in IDs
    BY <1>2, <1>4, <1>9, Zenon DEF Types
  <2> QED BY <1>5, <2>1, Zenon DEF ConvergenceInv, CandidatesBacked
<1>13. ViewIsWhole'
  BY <1>1, Zenon DEF ConvergenceInv, ViewIsWhole
<1>14. CallsSound'
  <2> SUFFICES ASSUME NEW c \in Calls, call[c].at # "idle"
               PROVE  /\ call[c].assignment \in DOMAIN intent
                      /\ intent[call[c].assignment].version = call[c].version
                      /\ call[c].at = "running" => replica'[call[c].assignment] \in {"Ready", "Draining"}
    BY <1>1, Zenon DEF CallsSound
  <2>1. /\ call[c].assignment \in DOMAIN intent
        /\ intent[call[c].assignment].version = call[c].version
        /\ call[c].at = "running" => replica[call[c].assignment] \in {"Ready", "Draining"}
    BY Zenon DEF ConvergenceInv, CallsSound
  <2>2. call[c].at = "running" /\ call[c].assignment = a => Running(a) # {}
    BY Zenon DEF Running
  <2> QED BY <1>5, <1>9, <2>1, <2>2, Zenon
<1> QED BY <1>6, <1>8, <1>10, <1>11, <1>12, <1>13, <1>14, Zenon DEF ConvergenceInv

\* An accepted call is on a replica that is Ready or Draining.
LEMMA RunningOn ==
  ASSUME ConvergenceInv, NEW a, Running(a) # {} PROVE replica[a] \in {"Ready", "Draining"}
BY Zenon DEF ConvergenceInv, CallsSound, Running

\* The record of a step is listed, so its replica has a state.
LEMMA RecordState ==
  ASSUME ConvergenceInv, NEW a, NEW state, Reconciling(a, state)
  PROVE  a \in IDs /\ replica[a] \in ReplicaStates /\ replica \in [IDs -> ReplicaStates]
<1>1. pass.at = "reconciling" /\ a \in pass.todo
  BY Zenon DEF Reconciling
<1>2. pass \in Stepping /\ Types
  BY <1>1, Phases, Zenon DEF ConvergenceInv
<1>3. a \in IDs
  BY <1>1, <1>2, Zenon DEF Stepping
<1> QED BY <1>2, <1>3, Zenon DEF Types

\* A record that only loses its candidate.
LEMMA DroppedKeeps ==
  ASSUME ConvergenceInv, NEW a, Reconciling(a, "Assigned"), UNCHANGED <<lifecycle, route>>,
         candidates' = candidates \ {a}, UNCHANGED worker
  PROVE  ConvergenceInv'
<1>1. replica[a] \in ReplicaStates /\ replica \in [IDs -> ReplicaStates]
  BY RecordState, Zenon
<1>2. replica' = [replica EXCEPT ![a] = replica[a]] /\ authorized' = authorized
  BY <1>1, Zenon DEF worker
<1>3. Running(a) # {} => replica[a] \in {"Ready", "Draining"}
  BY RunningOn, Zenon
<1> QED BY <1>1, <1>2, <1>3, ReplicaKeeps, Zenon

\* Reconcile of an Assigned placement that succeeds, or is refused by its request.
LEMMA ReconcileAssignedKeeps ==
  ASSUME ConvergenceInv, NEW a, ReconcileAssigned(a) PROVE ConvergenceInv'
<1>1. Reconciling(a, "Assigned") /\ UNCHANGED <<lifecycle, route>>
  BY Zenon DEF ReconcileAssigned, control
<1>2. CASE candidates' = candidates \ {a} /\ UNCHANGED worker
  BY <1>1, <1>2, DroppedKeeps, Zenon
<1>3. CASE /\ replica' = [replica EXCEPT ![a] = "Ready"]
           /\ authorized' = authorized \cup {a} /\ candidates' = candidates \cup {a}
  <2>1. "Ready" \in ReplicaStates
    BY Zenon DEF ReplicaStates
  <2> QED BY <1>1, <1>3, <2>1, ReplicaKeeps, Zenon
<1> QED BY <1>2, <1>3, Zenon DEF ReconcileAssigned

\* Reconcile of an Assigned placement whose replica cannot be prepared.
LEMMA PrepareFailsKeeps ==
  ASSUME ConvergenceInv, NEW a, PrepareFails(a) PROVE ConvergenceInv'
<1>1. /\ Reconciling(a, "Assigned") /\ UNCHANGED <<lifecycle, route>> /\ replica[a] = "none"
      /\ replica' = [replica EXCEPT ![a] = "Failed"] /\ candidates' = candidates \ {a} /\ authorized' = authorized
  BY Zenon DEF PrepareFails, control
<1>2. Running(a) = {}
  BY <1>1, RunningOn, Zenon
<1>3. "Failed" \in ReplicaStates
  BY Zenon DEF ReplicaStates
<1> QED BY <1>1, <1>2, <1>3, ReplicaKeeps, Zenon

\* Reconcile of an Assigned placement that the Agent has no room for.
LEMMA PrepareRefusedKeeps ==
  ASSUME ConvergenceInv, NEW a, PrepareRefused(a) PROVE ConvergenceInv'
BY DroppedKeeps, Zenon DEF PrepareRefused, CutShort

\* Reconcile of an Assigned placement whose candidate cannot be installed.
LEMMA InstallFailsKeeps ==
  ASSUME ConvergenceInv, NEW a, InstallFails(a) PROVE ConvergenceInv'
<1>1. PICK s : s = Drained(a)
  BY Zenon
<1>2. /\ Reconciling(a, "Assigned") /\ UNCHANGED <<lifecycle, route>>
      /\ replica' = [replica EXCEPT ![a] = s] /\ candidates' = candidates \ {a} /\ authorized' = authorized \ {a}
  BY <1>1, Zenon DEF InstallFails, control
<1>3. s \in ReplicaStates /\ (Running(a) # {} => s = "Draining")
  BY <1>1, Zenon DEF ReplicaStates, Drained
<1> QED BY <1>2, <1>3, ReplicaKeeps, Zenon

\* Reconcile of a cancelled placement: its replica is drained.
LEMMA ReconcileCancelledKeeps ==
  ASSUME ConvergenceInv, NEW a, ReconcileCancelled(a) PROVE ConvergenceInv'
<1>1. PICK s, t : /\ s = IF replica[a] = "Ready" THEN Drained(a) ELSE replica[a]
                  /\ t = IF terminal(s) THEN "none" ELSE s
  BY Zenon
<1>2. /\ Reconciling(a, "Cancelled") /\ UNCHANGED <<lifecycle, route>>
      /\ replica' = [replica EXCEPT ![a] = t] /\ candidates' = candidates \ {a} /\ authorized' = authorized \ {a}
  BY <1>1, Zenon DEF ReconcileCancelled, control
<1>3. replica[a] \in ReplicaStates
  BY <1>2, RecordState, Zenon
<1>4. t \in ReplicaStates
  BY <1>1, <1>3, Zenon DEF ReplicaStates, Drained, terminal
<1>5. Running(a) # {} => t = "Draining"
  <2> SUFFICES ASSUME Running(a) # {} PROVE t = "Draining"
    BY Zenon
  <2>1. replica[a] \in {"Ready", "Draining"}
    BY RunningOn, Zenon
  <2> QED BY <1>1, <2>1, Zenon DEF Drained, terminal
<1> QED BY <1>2, <1>4, <1>5, ReplicaKeeps, Zenon

-----------------------------------------------------------------------------
(* Calls.                                                                  *)

\* A call moves: nothing else depends on it.
LEMMA CallKeeps ==
  ASSUME ConvergenceInv, UNCHANGED <<control, intent, worker, candidates, view, pass>>,
         call' \in [Calls -> Call \cup {AtRest}], CallsSound'
  PROVE  ConvergenceInv'
<1>1. UNCHANGED <<lifecycle, route, intent, replica, authorized, candidates, view, pass>>
  BY Zenon DEF worker, control
<1>2. Types' BY <1>1, Zenon DEF ConvergenceInv, Types
<1>3. PassSound' BY <1>1, PassFrame, Zenon DEF ConvergenceInv
<1>5. OneAssigned' /\ OneEndpoint' BY <1>1, OnesFrame, Zenon DEF ConvergenceInv
<1>6. CandidatesBacked' /\ ViewIsWhole'
  BY <1>1 DEF ConvergenceInv, CandidatesBacked, ViewIsWhole
<1> QED BY <1>2, <1>3, <1>5, <1>6, Zenon DEF ConvergenceInv

\* The Gateway selects an Endpoint for a call.
LEMMA SelectKeeps ==
  ASSUME ConvergenceInv, NEW c \in Calls, NEW f \in Functions, NEW a \in IDs, Select(c, f, a)
  PROVE  ConvergenceInv'
<1>1. /\ a \in view[f].endpoints /\ UNCHANGED <<control, intent, worker, candidates, view, pass>>
      /\ intent' = intent /\ replica' = replica
  BY Zenon DEF Select, worker
<1>2. a \in DOMAIN intent /\ intent[a].version = view[f].version /\ view[f].version \in Targets
      /\ call \in [Calls -> Call \cup {AtRest}]
  BY <1>1, Zenon DEF ConvergenceInv, ViewIsWhole, Types, View
<1>3. PICK y \in Call : /\ y = [at |-> "selected", function |-> f, assignment |-> a, version |-> view[f].version]
                        /\ y.at = "selected" /\ y.assignment = a /\ y.version = view[f].version
  <2>1. \A v \in Targets : [at |-> "selected", function |-> f, assignment |-> a, version |-> v] \in Call
    BY Zenon DEF Call
  <2> QED BY <1>2, <2>1, Zenon
<1>4. call' = [call EXCEPT ![c] = y]
  BY <1>3, Zenon DEF Select
<1>5. call' \in [Calls -> Call \cup {AtRest}] /\ call'[c] = y /\ \A d \in Calls : d # c => call'[d] = call[d]
  BY <1>2, <1>4, Zenon
<1>6. CallsSound'
  BY <1>1, <1>2, <1>3, <1>5, Zenon DEF ConvergenceInv, CallsSound
<1> QED BY <1>1, <1>5, <1>6, CallKeeps, Zenon

\* The Worker accepts a selected call, or refuses it.
LEMMA AcceptKeeps ==
  ASSUME ConvergenceInv, NEW c \in Calls, Accept(c) PROVE ConvergenceInv'
<1>1. /\ call[c].at = "selected" /\ UNCHANGED <<control, intent, worker, candidates, view, pass>>
      /\ intent' = intent /\ replica' = replica
      /\ call \in [Calls -> Call \cup {AtRest}]
  BY Zenon DEF Accept, worker, ConvergenceInv, Types
<1>2. call[c] \in Call
  BY <1>1 DEF AtRest
<1>3. \A x \in Call : LET y == [x EXCEPT !.at = "running"] IN
         y \in Call /\ y.at = "running" /\ y.assignment = x.assignment /\ y.version = x.version
  BY Zenon DEF Call
<1>4. PICK y \in Call \cup {AtRest} :
         /\ call' = [call EXCEPT ![c] = y]
         /\ \/ y = AtRest
            \/ /\ replica[call[c].assignment] = "Ready"
               /\ y.at = "running" /\ y.assignment = call[c].assignment /\ y.version = call[c].version
  <2>1. CASE replica[call[c].assignment] = "Ready" /\ call[c].assignment \in authorized
    <3>1. call' = [call EXCEPT ![c] = [call[c] EXCEPT !.at = "running"]]
      BY <2>1, Zenon DEF Accept
    <3> QED BY <1>2, <1>3, <2>1, <3>1, Zenon
  <2>2. CASE ~(replica[call[c].assignment] = "Ready" /\ call[c].assignment \in authorized)
    <3>1. call' = [call EXCEPT ![c] = AtRest]
      BY <2>2, Zenon DEF Accept
    <3> QED BY <3>1, Zenon
  <2> QED BY <2>1, <2>2, Zenon
<1>5. call' \in [Calls -> Call \cup {AtRest}] /\ call'[c] = y /\ \A d \in Calls : d # c => call'[d] = call[d]
  BY <1>1, <1>4, Zenon
<1>6. AtRest.at = "idle"
  BY Zenon DEF AtRest
<1>7. CallsSound'
  BY <1>1, <1>4, <1>5, <1>6, Zenon DEF ConvergenceInv, CallsSound
<1> QED BY <1>1, <1>5, <1>7, CallKeeps, Zenon

\* The last call of a draining replica stops it, and no other call is on it.
LEMMA FinishKeeps ==
  ASSUME ConvergenceInv, NEW c \in Calls, FinishCall(c) PROVE ConvergenceInv'
<1>1. PICK a : a = call[c].assignment
  BY Zenon
<1>2. /\ call[c].at = "running" /\ call' = [call EXCEPT ![c] = AtRest]
      /\ UNCHANGED <<lifecycle, route, intent, authorized, candidates, view, pass>>
      /\ replica' = IF replica[a] = "Draining" /\ Running(a) = {c}
                    THEN [replica EXCEPT ![a] = "Stopped"] ELSE replica
  BY <1>1, Zenon DEF FinishCall, control
<1>3. Types /\ a \in DOMAIN intent /\ a \in IDs
  BY <1>1, <1>2, IntentRecords, Zenon DEF ConvergenceInv, CallsSound
<1>4. /\ call' \in [Calls -> Call \cup {AtRest}] /\ call'[c].at = "idle"
      /\ \A d \in Calls : d # c => call'[d] = call[d]
  BY <1>2, <1>3, Zenon DEF Types, AtRest
<1>5. /\ replica' \in [IDs -> ReplicaStates]
      /\ \A b \in IDs : /\ replica'[b] = "Ready" <=> replica[b] = "Ready"
                        /\ replica'[b] # "none" => replica[b] # "none"
                        /\ replica'[b] # replica[b] => b = a /\ Running(a) = {c}
  BY <1>2, <1>3, Zenon DEF Types, ReplicaStates
<1>6. Types'
  BY <1>2, <1>3, <1>4, <1>5, Zenon DEF Types
<1>7. PassSound'
  BY <1>2, PassFrame, Zenon DEF ConvergenceInv
<1>8. \A b \in DOMAIN intent : b \in IDs
  BY <1>3, IntentRecords, Zenon
<1>9. OneAssigned' /\ OneEndpoint'
  BY <1>2, OnesFrame, Zenon DEF ConvergenceInv
<1>12. CandidatesBacked'
  BY <1>2, <1>3, <1>5, <1>8, Zenon DEF ConvergenceInv, CandidatesBacked, Types
<1>13. ViewIsWhole'
  BY <1>2, Zenon DEF ConvergenceInv, ViewIsWhole
<1>14. CallsSound'
  <2> SUFFICES ASSUME NEW d \in Calls, call'[d].at # "idle"
               PROVE  /\ call'[d].assignment \in DOMAIN intent
                      /\ intent[call'[d].assignment].version = call'[d].version
                      /\ call'[d].at = "running" => replica'[call'[d].assignment] \in {"Ready", "Draining"}
    BY <1>2, Zenon DEF CallsSound
  <2>1. d # c /\ call'[d] = call[d]
    BY <1>4, Zenon
  <2>2. /\ call[d].assignment \in DOMAIN intent
        /\ intent[call[d].assignment].version = call[d].version
        /\ call[d].at = "running" => replica[call[d].assignment] \in {"Ready", "Draining"}
    BY <2>1, Zenon DEF ConvergenceInv, CallsSound
  <2>3. call[d].at = "running" /\ call[d].assignment = a => Running(a) # {c}
    BY <2>1, Zenon DEF Running
  <2> QED BY <1>5, <1>8, <2>1, <2>2, <2>3, Zenon
<1> QED BY <1>6, <1>7, <1>9, <1>12, <1>13, <1>14, Zenon DEF ConvergenceInv

-----------------------------------------------------------------------------
(* The invariant.                                                          *)

\* Nothing is placed at the start.
LEMMA ConvergenceStart == ConvergenceInit => ConvergenceInv
<1> SUFFICES ASSUME ConvergenceInit PROVE ConvergenceInv
  BY Zenon
<1>1. /\ intent = <<>> /\ authorized = {} /\ candidates = {} /\ pass = AtRest
      /\ \A a \in IDs : replica[a] = "none"
      /\ \A f \in Functions : view[f] = [active |-> FALSE, version |-> NoVersion, endpoints |-> {}]
      /\ \A c \in Calls : call[c] = AtRest
  BY Zenon DEF ConvergenceInit
<1>2. intent \in Seq(IntentRecord) /\ Len(intent) = 0 /\ DOMAIN intent = {}
  BY <1>1
<1>3. [active |-> FALSE, version |-> NoVersion, endpoints |-> {}] \in View
  BY Zenon DEF View, Targets
<1>4. \A f \in Functions : view[f].endpoints = {}
  BY <1>1
<1>5. Types
  <2>1. lifecycle \in [Functions -> {"Active", "Disabled"}] /\ route \in [Functions -> Targets]
    BY Zenon DEF ConvergenceInit, Targets
  <2>2. replica \in [IDs -> ReplicaStates] /\ call \in [Calls -> Call \cup {AtRest}]
    BY Zenon DEF ConvergenceInit, ReplicaStates
  <2>3. view \in [Functions -> View]
    BY <1>3, Zenon DEF ConvergenceInit
  <2>4. Len(intent) <= MaxAssignments
    BY <1>2, BoundsAssumption
  <2> QED BY <1>1, <1>2, <1>4, <2>1, <2>2, <2>3, <2>4, Zenon DEF Types
<1>6. PassSound
  BY <1>1, Zenon DEF PassSound
<1>7. OneEndpoint
  BY <1>1, <1>4, Zenon DEF OneEndpoint
<1>8. OneAssigned
  BY <1>2, Zenon DEF OneAssigned, Assigned
<1>9. CandidatesBacked /\ ViewIsWhole
  BY <1>1, <1>4, Zenon DEF CandidatesBacked, ViewIsWhole
<1>10. CallsSound
  BY <1>1 DEF CallsSound, AtRest
<1> QED BY <1>5, <1>6, <1>7, <1>8, <1>9, <1>10, Zenon DEF ConvergenceInv

\* The invariant holds of every reachable state: one case per step.
LEMMA ConvergenceAlways == ConvergenceSpec => []ConvergenceInv
<1>1. ASSUME ConvergenceInv, [ConvergenceNext]_convergenceVars PROVE ConvergenceInv'
  <2>1. CASE Operator
    <3>0. /\ lifecycle \in [Functions -> {"Active", "Disabled"}] /\ route \in [Functions -> Targets]
      BY <1>1, Zenon DEF ConvergenceInv, Types
    <3>1. ASSUME NEW f \in Functions, NEW v \in Versions, Publish(f, v) PROVE ConvergenceInv'
      <4>1. /\ UNCHANGED <<intent, worker, candidates, view, pass, call>> /\ lifecycle' = lifecycle
            /\ route' = [route EXCEPT ![f] = v]
        BY <3>1, Zenon DEF Publish
      <4>2. route' \in [Functions -> Targets]
        BY <3>0, <4>1, Zenon DEF Targets
      <4> QED BY <1>1, <3>0, <4>1, <4>2, ControlKeeps, Zenon
    <3>2. ASSUME NEW f \in Functions, NEW l \in {"Active", "Disabled"}, SetLifecycle(f, l) PROVE ConvergenceInv'
      <4>1. /\ UNCHANGED <<intent, worker, candidates, view, pass, call>> /\ route' = route
            /\ lifecycle' = [lifecycle EXCEPT ![f] = l]
        BY <3>2, Zenon DEF SetLifecycle
      <4>2. lifecycle' \in [Functions -> {"Active", "Disabled"}]
        BY <3>0, <4>1, Zenon
      <4> QED BY <1>1, <3>0, <4>1, <4>2, ControlKeeps, Zenon
    <3> QED BY <2>1, <3>1, <3>2, Zenon DEF Operator
  <2>2. CASE Converge
    <3>1. CASE PlaceTargets BY <1>1, <3>1, PlaceTargetsKeeps, Zenon
    <3>2. CASE PlaceLive BY <1>1, <3>2, PlaceLiveKeeps, Zenon
    <3>3. ASSUME NEW f \in Functions, PlaceSkip(f) PROVE ConvergenceInv'
      <4>1. /\ pass.at = "placing" /\ pass' = [pass EXCEPT !.todo = @ \ {f}]
            /\ UNCHANGED <<control, intent, worker, candidates, view, call>>
        BY <3>3, Zenon DEF PlaceSkip, Placed
      <4> QED BY <1>1, <4>1, DecidedKeeps, Zenon
    <3>4. ASSUME NEW f \in Functions, PlaceCancel(f) PROVE ConvergenceInv'
      BY <1>1, <3>4, PlaceCancelKeeps, Zenon
    <3>5. ASSUME NEW f \in Functions, PlaceCommit(f) PROVE ConvergenceInv'
      BY <1>1, <3>5, PlaceCommitKeeps, Zenon
    <3>6. ASSUME NEW f \in Functions, SyncCandidates(f) PROVE ConvergenceInv'
      BY <1>1, <3>6, SyncCandidatesKeeps, Zenon
    <3>7. CASE ReconcileList BY <1>1, <3>7, ReconcileListKeeps, Zenon
    <3>8. CASE ReconcileStates BY <1>1, <3>8, ReconcileStatesKeeps, Zenon
    <3>9. CASE ReconcileStops BY <1>1, <3>9, ReconcileStopsKeeps, Zenon
    <3>10. ASSUME NEW a \in IDs, ReconcileAssigned(a) \/ PrepareFails(a) \/ PrepareRefused(a)
           PROVE  ConvergenceInv'
      BY <1>1, <3>10, ReconcileAssignedKeeps, PrepareFailsKeeps, PrepareRefusedKeeps, Zenon
    <3>11. ASSUME NEW a \in IDs, InstallFails(a) \/ ReconcileCancelled(a) PROVE ConvergenceInv'
      BY <1>1, <3>11, InstallFailsKeeps, ReconcileCancelledKeeps, Zenon
    <3>12. CASE SyncStates BY <1>1, <3>12, SyncStatesKeeps, Zenon
    <3>13. CASE SyncApply BY <1>1, <3>13, SyncApplyKeeps, Zenon
    <3>14. CASE PassStops BY <1>1, <3>14, PassStopsKeeps, Zenon
    <3> QED BY <2>2, <3>1, <3>2, <3>3, <3>4, <3>5, <3>6, <3>7, <3>8, <3>9, <3>10, <3>11, <3>12,
               <3>13, <3>14, Zenon DEF Converge
  <2>3. CASE Gateway
    <3>1. ASSUME NEW c \in Calls, NEW f \in Functions, NEW a \in IDs, Select(c, f, a) PROVE ConvergenceInv'
      BY <1>1, <3>1, SelectKeeps, Zenon
    <3>2. ASSUME NEW c \in Calls, Accept(c) PROVE ConvergenceInv'
      BY <1>1, <3>2, AcceptKeeps, Zenon
    <3>3. ASSUME NEW c \in Calls, FinishCall(c) PROVE ConvergenceInv'
      BY <1>1, <3>3, FinishKeeps, Zenon
    <3> QED BY <2>3, <3>1, <3>2, <3>3, Zenon DEF Gateway
  <2>4. CASE UNCHANGED convergenceVars
    <3>1. UNCHANGED <<intent, worker, candidates, view, pass, call>> /\ UNCHANGED <<lifecycle, route>>
      BY <2>4, Zenon DEF convergenceVars, control
    <3>2. lifecycle' \in [Functions -> {"Active", "Disabled"}] /\ route' \in [Functions -> Targets]
      BY <1>1, <3>1, Zenon DEF ConvergenceInv, Types
    <3> QED BY <1>1, <3>1, <3>2, ControlKeeps, Zenon
  <2> QED BY <1>1, <2>1, <2>2, <2>3, <2>4, Zenon DEF ConvergenceNext
<1> QED BY <1>1, ConvergenceStart, PTL DEF ConvergenceSpec

\* Whatever operators change between the reads of a pass, wherever a pass is cut
\* short, and whichever replica fails to prepare or to be authorized: a Function
\* never has two candidates or Endpoints, a candidate always is a Ready and
\* authorized replica, the view the Gateway holds is one projection, and nothing
\* is prepared before its intent.
THEOREM ConvergenceHolds == ConvergenceSpec => []ConvergenceInvariant
<1>1. ConvergenceInv => ConvergenceInvariant
  <2> SUFFICES ASSUME ConvergenceInv PROVE ConvergenceInvariant
    BY Zenon
  <2>0. Types
    BY Zenon DEF ConvergenceInv
  <2>1. ConvergenceTypeOK
    <3>1. \A f \in Functions : view[f] \in
             [active : BOOLEAN, version : Versions \cup {NoVersion}, endpoints : SUBSET DOMAIN intent]
      <4> SUFFICES ASSUME NEW f \in Functions PROVE view[f] \in
             [active : BOOLEAN, version : Versions \cup {NoVersion}, endpoints : SUBSET DOMAIN intent]
        BY Zenon
      <4>1. view[f] \in View /\ view[f].endpoints \subseteq DOMAIN intent
        BY <2>0, Zenon DEF Types
      <4> QED BY <4>1, Zenon DEF View, Targets
    <3>2. \A a \in DOMAIN intent : intent[a] \in IntentRecord
      BY <2>0, IntentRecords, Zenon
    <3>3. authorized \cup candidates \cup {a \in IDs : replica[a] # "none"} \subseteq DOMAIN intent
      BY <2>0, Zenon DEF Types
    <3> QED BY <2>0, <3>1, <3>2, <3>3, Zenon DEF ConvergenceTypeOK, Types, IntentRecord, Targets, ReplicaStates
  <2> QED BY <2>1, Zenon DEF ConvergenceInvariant, ConvergenceInv
<1> QED BY <1>1, ConvergenceAlways, PTL

\* An accepted call keeps its replica until it ends, and runs the Version of the
\* Route it was selected under, whatever the passes cancel meanwhile.
THEOREM CallsAlwaysKeepTheirReplica == ConvergenceSpec => []CallsKeepTheirReplica
<1>1. ConvergenceInv => CallsKeepTheirReplica
  BY Zenon DEF ConvergenceInv, CallsSound, CallsKeepTheirReplica
<1> QED BY <1>1, ConvergenceAlways, PTL
=============================================================================
