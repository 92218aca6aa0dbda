--------------------------- MODULE OperationLedger ---------------------------
(***************************************************************************)
(* The idempotency ledger (internal/controlplane/operation.go): the        *)
(* terminal outcome of every management write, kept under the Operation ID *)
(* its client chose, then a tombstone that only reserves the ID.  Each     *)
(* method runs under the ledger's own lock; garbage collection takes no    *)
(* other lock, so it can fall between any two of them.                     *)
(***************************************************************************)
EXTENDS Integers, Sequences, FiniteSets

CONSTANTS
    Operations,    \* Operation IDs
    MaxOperations, \* maxOperations: capacity of the ledger
    OperationTTL,  \* operationTTL
    TombstoneTTL   \* tombstoneTTL

ASSUME LedgerAssumption ==
    /\ MaxOperations \in Nat \ {0}
    /\ OperationTTL \in Nat \ {0} /\ TombstoneTTL \in Nat \ {0}

VARIABLES
    records,       \* Ledger.records: Operation ID |-> completed operation
    tombstones     \* Ledger.tombstones: Operation ID |-> when it was tombstoned

ledger == <<records, tombstones>>

LedgerInit == records = <<>> /\ tombstones = <<>>

\* What a lookup distinguishes: never seen, or whose retry window has ended.
Unknown(id) == id \notin DOMAIN records \cup DOMAIN tombstones
Expired(id) == id \in DOMAIN tombstones

\* Full counts tombstones too: they reserve their ID.
Full == Cardinality(DOMAIN records) + Cardinality(DOMAIN tombstones) >= MaxOperations

\* complete, nothing retained and room left: the record goes in.
Insert(id, record) ==
    /\ records' = [k \in DOMAIN records \cup {id} |-> IF k = id THEN record ELSE records[k]]
    /\ UNCHANGED tombstones

Elapsed(cutoff) == {k \in DOMAIN records : records[k].completedAt + OperationTTL <= cutoff}

\* Mutation: an expired record is dropped without a tombstone.
ForgetElapsed(cutoff) ==
    /\ records' = [k \in DOMAIN records \ Elapsed(cutoff) |-> records[k]]
    /\ UNCHANGED tombstones

\* GC: outcomes past their retention leave tombstones, which go in their turn.
CollectLedger(cutoff) ==
    LET buried == [k \in DOMAIN tombstones \cup Elapsed(cutoff) |->
                      IF k \in Elapsed(cutoff) THEN cutoff ELSE tombstones[k]]
    IN  /\ records' = [k \in DOMAIN records \ Elapsed(cutoff) |-> records[k]]
        /\ tombstones' = [k \in {j \in DOMAIN buried : buried[j] + TombstoneTTL > cutoff} |->
                             buried[k]]
=============================================================================
