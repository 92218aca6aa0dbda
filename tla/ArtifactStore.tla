--------------------------- MODULE ArtifactStore ---------------------------
(***************************************************************************)
(* internal/artifact: the content-addressed store on disk.  Put writes a   *)
(* temporary file, verifies it, and publishes it with a hard link under    *)
(* the lock of the digest's stripe; OpenVerified re-reads a blob before it *)
(* returns it; both remove a corrupt blob.                                 *)
(*                                                                         *)
(* A blob is none, good (its bytes have its digest) or bad.  "blob" is the *)
(* directory the process sees and "synced" the one a power failure leaves: *)
(* syncDirectory copies the first to the second for one shard directory.   *)
(* The first two hex digits of a digest select both its lock and its shard *)
(* directory, so Stripe stands for either.  The bytes of a temporary file  *)
(* are synced before it is linked, so only entries can be lost.  Nothing   *)
(* syncs blobs/sha256, where the entries of the shard directories are.     *)
(***************************************************************************)
EXTENDS Integers, FiniteSets

CONSTANTS
    Digests,
    Stripe,         \* digestLock, blobPath: lock and shard of each digest (256 in the code)
    Ops,            \* callers of Put and OpenVerified
    MaxFaults       \* bound on corruptions and crashes

ASSUME StripeAssumption == Stripe \in [Digests -> Nat]
ASSUME OpsAssumption == "none" \notin Ops
ASSUME MaxFaultsAssumption == MaxFaults \in Nat

VARIABLES
    closed,         \* Store.closed
    op,             \* each call: the step it is at, and its arguments
    lock,           \* digestLocks: the holder of each stripe, or "none"
    tmp,            \* callers of which the last Put's temporary file exists
    shards,         \* the shard directories that exist
    blob, synced,   \* the entry of each digest
    present,        \* history: Put succeeded, and nothing hurt the blob since
    created,        \* history: Put reported Created, not corrupted since
    unsynced,       \* history: published by a Put that ended before its sync did
    succeeded,      \* history: callers whose last call reported no error
    faults

vars == <<closed, op, lock, tmp, shards, blob, synced, present, created, unsynced,
          succeeded, faults>>
disk == <<shards, blob, synced, present, created, unsynced, faults>>
thread == <<closed, lock, tmp, succeeded>>

Stripes == {Stripe[d] : d \in Digests}
Idle == [at |-> "idle"]
StoreCalls == [at : {"copy", "lock", "mkdir", "link", "verify", "remove", "relink", "sync", "cleanup"},
          kind : {"put", "open"}, digest : Digests]

Init ==
    /\ closed = FALSE
    /\ op = [o \in Ops |-> Idle] /\ lock = [s \in Stripes |-> "none"]
    /\ tmp = {} /\ shards = {} /\ succeeded = {}
    /\ blob = [d \in Digests |-> "none"] /\ synced = blob
    /\ present = {} /\ created = {} /\ unsynced = {} /\ faults = 0

-----------------------------------------------------------------------------
At(o, step) == op[o].at = step
Goto(o, step) == op' = [op EXCEPT ![o].at = step]

\* A call ends: its stripe is unlocked.  An error of the Remove in Put's
\* deferred function is joined to the answer.
Finish(o, ok, removed) ==
    /\ op' = [op EXCEPT ![o] = Idle]
    /\ lock' = [s \in Stripes |-> IF lock[s] = o THEN "none" ELSE lock[s]]
    /\ tmp' = IF removed THEN tmp \ {o} ELSE tmp
    /\ succeeded' = IF ok /\ removed THEN succeeded \cup {o} ELSE succeeded
    /\ closed' = closed

\* It ends with its temporary file still there, if it has one: the deferred
\* Remove may fail.
Return(o, ok) ==
    \E removed \in BOOLEAN : (removed \/ o \in tmp) /\ Finish(o, ok, removed)

\* begin; Put also creates its temporary file.  What an earlier Put of this
\* caller left behind is not looked at again.
Start(o, kind, d) ==
    /\ ~closed /\ op[o] = Idle
    /\ op' = [op EXCEPT ![o] = [at |-> IF kind = "put" THEN "copy" ELSE "lock", kind |-> kind, digest |-> d]]
    /\ tmp' = IF kind = "put" THEN tmp \cup {o} ELSE tmp \ {o}
    /\ succeeded' = succeeded \ {o}
    /\ UNCHANGED <<closed, lock, disk>>

\* The upload was written, has the expected digest, and was synced.
Copy(o) ==
    /\ At(o, "copy") /\ Goto(o, "lock")
    /\ UNCHANGED <<thread, disk>>

\* Too large, the wrong digest, a cancelled context, or an I/O error.
CopyFails(o) == At(o, "copy") /\ Return(o, FALSE) /\ UNCHANGED disk

Entered(o) == Goto(o, IF op[o].kind = "put" THEN "mkdir" ELSE "verify")

\* Mutation: the digest is not locked.
LockNothing(o) ==
    /\ At(o, "lock") /\ Entered(o)
    /\ UNCHANGED <<thread, disk>>

Lock(o) ==
    LET s == Stripe[op[o].digest] IN
    /\ At(o, "lock") /\ lock[s] = "none"
    /\ lock' = [lock EXCEPT ![s] = o]
    /\ Entered(o)
    /\ UNCHANGED <<closed, tmp, succeeded, disk>>

\* MkdirAll of the shard directory.
MakeShard(o) ==
    /\ At(o, "mkdir") /\ Goto(o, "link")
    /\ shards' = shards \cup {Stripe[op[o].digest]}
    /\ UNCHANGED <<thread, blob, synced, present, created, unsynced, faults>>

MakeShardFails(o) == At(o, "mkdir") /\ Return(o, FALSE) /\ UNCHANGED disk

Link(o) ==
    LET d == op[o].digest IN
    /\ At(o, "link")
    /\ IF blob[d] = "none"
       THEN Goto(o, "sync") /\ blob' = [blob EXCEPT ![d] = "good"]
       ELSE Goto(o, "verify") /\ UNCHANGED blob
    /\ UNCHANGED <<thread, shards, synced, present, created, unsynced, faults>>

\* Either Link fails, and not because there is a blob.
LinkFails(o) ==
    /\ op[o].at \in {"link", "relink"}
    /\ Return(o, FALSE) /\ UNCHANGED disk

\* verifyFile reads the whole blob.  A good one is returned, or makes Put
\* succeed with Created false.
VerifyGood(o) ==
    LET d == op[o].digest IN
    /\ At(o, "verify") /\ blob[d] = "good"
    /\ Return(o, TRUE)
    /\ present' = IF op[o].kind = "put" /\ o \in succeeded' THEN present \cup {d} ELSE present
    /\ UNCHANGED <<shards, blob, synced, created, unsynced, faults>>

VerifyBad(o) ==
    /\ At(o, "verify") /\ blob[op[o].digest] = "bad"
    /\ Goto(o, "remove")
    /\ UNCHANGED <<thread, disk>>

\* There is no blob to open, or reading it is cancelled or fails.
VerifyFails(o) == At(o, "verify") /\ Return(o, FALSE) /\ UNCHANGED disk

\* syncDirectory: the entries of a shard directory reach the disk as they are.
FlushShard(s) ==
    /\ synced' = [d \in Digests |-> IF Stripe[d] = s THEN blob'[d] ELSE synced[d]]
    /\ unsynced' = {d \in unsynced : Stripe[d] # s}

\* removeCorrupt; its directory sync may fail (flushed is FALSE).  Put goes on
\* to link its own file either way.
Remove(o, flushed) ==
    LET d == op[o].digest IN
    /\ At(o, "remove")
    /\ blob' = [blob EXCEPT ![d] = "none"]
    /\ IF flushed THEN FlushShard(Stripe[d]) ELSE UNCHANGED <<synced, unsynced>>
    /\ IF op[o].kind = "put" THEN Goto(o, "relink") /\ UNCHANGED thread ELSE Return(o, FALSE)
    /\ UNCHANGED <<shards, present, created, faults>>

\* Mutation: a failed removal is retried without a bound.
RemoveRetries(o) ==
    /\ At(o, "remove") /\ Goto(o, "verify")
    /\ UNCHANGED <<thread, disk>>

\* The corrupt entry cannot be removed: the second link finds it again.
RemoveFails(o) == At(o, "remove") /\ Return(o, FALSE) /\ UNCHANGED disk

Relink(o) ==
    LET d == op[o].digest IN
    /\ At(o, "relink") /\ blob[d] = "none"
    /\ blob' = [blob EXCEPT ![d] = "good"]
    /\ Goto(o, "sync")
    /\ UNCHANGED <<thread, shards, synced, present, created, unsynced, faults>>

\* Mutation: the published entry is not synced.
SyncNothing(o) ==
    /\ At(o, "sync") /\ Goto(o, "cleanup")
    /\ UNCHANGED <<thread, disk>>

SyncDirectory(o) ==
    /\ At(o, "sync") /\ Goto(o, "cleanup")
    /\ UNCHANGED <<thread, shards, blob, present, created, faults>>
    /\ FlushShard(Stripe[op[o].digest])

\* Put fails with its blob published.
SyncFails(o) ==
    /\ At(o, "sync") /\ Return(o, FALSE)
    /\ unsynced' = unsynced \cup {op[o].digest}
    /\ UNCHANGED <<shards, blob, synced, present, created, faults>>

\* The name of the temporary file is removed: Put reports Created.
Cleanup(o) ==
    LET d == op[o].digest IN
    /\ At(o, "cleanup")
    /\ Finish(o, TRUE, TRUE)
    /\ present' = IF blob[d] = "good" THEN present \cup {d} ELSE present
    /\ created' = IF blob[d] = "good" THEN created \cup {d} ELSE created
    /\ UNCHANGED <<shards, blob, synced, unsynced, faults>>

\* It cannot be removed: Put fails with its blob published and synced, and the
\* deferred function tries once more.
CleanupFails(o) == At(o, "cleanup") /\ Return(o, FALSE) /\ UNCHANGED disk

\* Close takes the write lock: every call has ended.
Close ==
    /\ ~closed /\ \A o \in Ops : op[o] = Idle
    /\ closed' = TRUE
    /\ UNCHANGED <<op, lock, tmp, succeeded, disk>>

\* The next process opens the root.
Open ==
    /\ closed /\ closed' = FALSE
    /\ UNCHANGED <<op, lock, tmp, succeeded, disk>>

\* The environment: the bytes of a blob change on disk.
Corrupt(d) ==
    /\ faults < MaxFaults /\ blob[d] = "good"
    /\ faults' = faults + 1
    /\ blob' = [blob EXCEPT ![d] = "bad"]
    /\ synced' = [synced EXCEPT ![d] = IF @ = "good" THEN "bad" ELSE @]
    /\ present' = present \ {d} /\ created' = created \ {d}
    /\ UNCHANGED <<thread, op, shards, unsynced>>

\* The environment: the process ends at any point.  A power failure loses the
\* entries "lost" that were not synced, and the shard directories "gone" of
\* which the entry had not reached the disk by itself, with all they hold.
Crash(lost, gone) ==
    /\ faults < MaxFaults /\ ~closed
    /\ faults' = faults + 1
    /\ closed' = TRUE
    /\ op' = [o \in Ops |-> Idle] /\ lock' = [s \in Stripes |-> "none"]
    /\ tmp' = {} /\ succeeded' = {}
    /\ shards' = shards \ gone
    /\ blob' = [d \in Digests |-> IF Stripe[d] \in gone THEN "none"
                                  ELSE IF d \in lost THEN synced[d] ELSE blob[d]]
    /\ synced' = [d \in Digests |-> IF Stripe[d] \in gone THEN "none" ELSE synced[d]]
    /\ unsynced' = (unsynced \cup {op[o].digest : o \in {p \in Ops : At(p, "sync")}}) \ lost
    /\ created' = {d \in created : Stripe[d] \notin gone} /\ present' = created'

\* The source of the upload decides how long it takes.
Upload(o) == Copy(o) \/ CopyFails(o)

Step(o) ==
    \/ Lock(o) \/ MakeShard(o) \/ MakeShardFails(o) \/ Link(o) \/ LinkFails(o)
    \/ VerifyGood(o) \/ VerifyBad(o) \/ VerifyFails(o)
    \/ Remove(o, TRUE) \/ Remove(o, FALSE) \/ RemoveFails(o) \/ Relink(o)
    \/ SyncDirectory(o) \/ SyncFails(o) \/ Cleanup(o) \/ CleanupFails(o)

Next ==
    \/ \E o \in Ops, kind \in {"put", "open"}, d \in Digests : Start(o, kind, d)
    \/ \E o \in Ops : Upload(o) \/ Step(o)
    \/ Close \/ Open
    \/ \E d \in Digests : Corrupt(d)
    \/ \E lost \in SUBSET Digests, gone \in SUBSET shards : Crash(lost, gone)

Spec == Init /\ [][Next]_vars

\* A call that has its upload runs until it blocks on a stripe, and sync.Mutex
\* starves no waiter.
FairSpec == Spec /\ \A o \in Ops : WF_vars(Step(o)) /\ SF_vars(Lock(o))

-----------------------------------------------------------------------------
\* Every variable has its type, and a stripe is held by a call that is between
\* its locking step and its end.
TypeOK ==
    /\ closed \in BOOLEAN /\ faults \in 0..MaxFaults
    /\ op \in [Ops -> StoreCalls \cup {Idle}] /\ tmp \subseteq Ops /\ succeeded \subseteq Ops
    /\ lock \in [Stripes -> Ops \cup {"none"}] /\ shards \subseteq Stripes
    /\ {blob, synced} \subseteq [Digests -> {"none", "good", "bad"}]
    /\ present \subseteq Digests /\ created \subseteq Digests /\ unsynced \subseteq Digests
    /\ \A s \in Stripes : lock[s] # "none" =>
        op[lock[s]].at \in {"mkdir", "link", "verify", "remove", "relink", "sync", "cleanup"}

\* A digest whose Put succeeded stays readable while the disk is sound: no
\* slow verifier of an older corrupt blob, and no other upload, removes the
\* good blob that replaced it.
SucceededStays == \A d \in present : blob[d] = "good"

\* What Put reported as Created is in its shard directory, seen and synced, so
\* that a power failure that leaves the shard directory leaves the blob.  (Put
\* never syncs the entry of a new shard directory: "created" loses the blobs of
\* the directories that are gone.)
CreatedSurvives ==
    \A d \in created : blob[d] = "good" /\ synced[d] = "good" /\ Stripe[d] \in shards

\* So is every other success, but for one case: an earlier upload published the
\* blob and failed or died before its directory was synced, and a later one
\* finds it and does not sync it again.
SuccessSurvives == \A d \in present : synced[d] = "good" \/ d \in unsynced

\* A running Put has its temporary file, and one that ended leaves it behind
\* only if it reports an error: the Remove on the way out failed.
TemporariesOwned ==
    \A o \in Ops :
        /\ op[o] # Idle => (o \in tmp <=> op[o].kind = "put")
        /\ op[o] = Idle /\ o \in succeeded => o \notin tmp

\* No call uses the root after Close closed it.
ClosedIsIdle == closed => \A o \in Ops : op[o] = Idle

\* At every moment, faults or not: a temporary file has its running Put or one
\* that failed, and what Put reported as Created, or found synced, survives with
\* its shard directory (Put, OpenVerified, Close).
StoreInvariant ==
    TypeOK /\ CreatedSurvives /\ SuccessSurvives /\ TemporariesOwned /\ ClosedIsIdle

\* Every call ends once its upload has: no path out of Put or OpenVerified
\* leaves a stripe locked against another.
CallsEnd == \A o \in Ops : op[o].at \notin {"idle", "copy"} ~> op[o] = Idle
=============================================================================
