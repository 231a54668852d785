-------------------------- MODULE PatchOperations --------------------------
(***************************************************************************)
(* Encrypted patch operations and their replay, vaultsync/sync_queue.py:   *)
(* EncryptedPatchOperation, _advance_metadata, _CollectionReplay and       *)
(* AuthenticatedCollectionSnapshot.                                        *)
(*                                                                         *)
(* An operation carries one envelope: an object, the revision it creates,  *)
(* the revision it replaces and whether it deletes.  Ciphertext is left    *)
(* out, so an operation is its own fingerprint.  Identifiers that the code *)
(* compares as strings are numbers here.                                   *)
(***************************************************************************)
EXTENDS Integers, Sequences, FiniteSets

CONSTANTS
    Devices,          \* author_device_id, compared in the order key
    Objects,          \* object_id
    Revisions,        \* envelope revisions
    Operations,       \* the operations clients may create
    None,
    MaximumOperations \* MAXIMUM_QUEUE_OPERATIONS

Envelope == [object : Objects, revision : Revisions,
             parent : Revisions \cup {None}, tombstone : BOOLEAN]
Operation == [id : Nat, author : Devices, sequence : Nat \ {0},
              lamport : Nat \ {0}, envelope : Envelope]

\* order_key, the total order of transport and conflict resolution.
OrderKey(op) == <<op.lamport, op.author, op.sequence, op.id>>
OrderKeys == (Nat \ {0}) \X Devices \X (Nat \ {0}) \X Nat

SequenceKey(op) == <<op.author, op.sequence>>
Owners == UNION {[keys -> Nat] : keys \in SUBSET {SequenceKey(p) : p \in Operations}}

\* _CollectionReplay and AuthenticatedCollectionSnapshot.
Collections ==
    [records : [Objects -> Envelope \cup {None}],  \* object_id -> envelope
     applied : SUBSET Operations,                  \* applied_fingerprints
     sequences : [Devices -> Nat],                 \* author_sequences
     owners : Owners,                              \* author_sequence_owners
     lastOrder : OrderKeys \cup {None}]

ASSUME OperationsAssumption ==
    /\ Devices \subseteq Nat
    /\ Operations \subseteq Operation
    /\ IsFiniteSet(Operations)
    /\ MaximumOperations \in Nat
    /\ None \notin Revisions \cup Envelope \cup OrderKeys
    /\ None \notin Collections

\* Fault: the author decides before the logical clock.
KeyBelowByAuthor(k, m) ==
    \/ k[2] < m[2]
    \/ k[2] = m[2] /\ k[3] < m[3]
    \/ k[2] = m[2] /\ k[3] = m[3] /\ k[4] < m[4]

KeyBelow(k, m) ==
    \/ k[1] < m[1]
    \/ k[1] = m[1] /\ k[2] < m[2]
    \/ k[1] = m[1] /\ k[2] = m[2] /\ k[3] < m[3]
    \/ k[1] = m[1] /\ k[2] = m[2] /\ k[3] = m[3] /\ k[4] < m[4]

Before(p, q) == KeyBelow(OrderKey(p), OrderKey(q))

Latest(ops) == CHOOSE p \in ops : \A q \in ops \ {p} : Before(q, p)
Earliest(ops) == CHOOSE p \in ops : \A q \in ops \ {p} : Before(p, q)
-----------------------------------------------------------------------------
(***************************************************************************)
(* Replay: the records a collection holds after some operations, and what  *)
(* it needs to know to accept the next one.                                *)
(***************************************************************************)
EmptyReplay ==
    [records |-> [o \in Objects |-> None], applied |-> {},
     sequences |-> [d \in Devices |-> 0], owners |-> [k \in {} |-> 0], lastOrder |-> None]

ObjectRevision(replay, o) ==
    IF replay.records[o] = None THEN None ELSE replay.records[o].revision

\* Fault: the parent named in the envelope is not compared.
AdvanceAllowedAnyParent(replay, op) ==
    /\ replay.lastOrder # None => KeyBelow(replay.lastOrder, OrderKey(op))
    /\ op.sequence = replay.sequences[op.author] + 1

\* _advance_metadata: strictly later in the order, the author's next
\* operation, on top of the object's current revision.
AdvanceAllowed(replay, op) ==
    /\ replay.lastOrder # None => KeyBelow(replay.lastOrder, OrderKey(op))
    /\ op.sequence = replay.sequences[op.author] + 1
    /\ op.envelope.parent = ObjectRevision(replay, op.envelope.object)

Known(replay, op) == \E p \in replay.applied : p.id = op.id

\* _CollectionReplay.apply accepts op as new.
Applicable(replay, op) ==
    /\ ~Known(replay, op)
    /\ Cardinality(replay.applied) < MaximumOperations
    /\ SequenceKey(op) \in DOMAIN replay.owners => replay.owners[SequenceKey(op)] = op.id
    /\ AdvanceAllowed(replay, op)

Apply(replay, op) ==
    [records |-> [replay.records EXCEPT ![op.envelope.object] = op.envelope],
     applied |-> replay.applied \cup {op},
     sequences |-> [replay.sequences EXCEPT ![op.author] = op.sequence],
     owners |-> [k \in DOMAIN replay.owners \cup {SequenceKey(op)} |->
                    IF k = SequenceKey(op) THEN op.id ELSE replay.owners[k]],
     lastOrder |-> OrderKey(op)]

\* What base becomes with none of ops, with the first of them, and so on.
Replays(base, ops) ==
    LET after[n \in 0 .. Len(ops)] == IF n = 0 THEN base ELSE Apply(after[n - 1], ops[n])
    IN  after
Replayed(base, ops) == Replays(base, ops)[Len(ops)]

\* Each of ops is accepted as new by what the ones before it made of base.
Replayable(base, ops) ==
    \A i \in 1 .. Len(ops) : Applicable(Replays(base, ops)[i - 1], ops[i])

\* A snapshot is a replay put to rest: from_dict admits it only if every
\* author's sequence is whole and every fingerprint has exactly one owner.
SnapshotAdmitted(s) ==
    LET Owned(d) == {k \in DOMAIN s.owners : k[1] = d}
        ownerIds == {s.owners[k] : k \in DOMAIN s.owners}
    IN  /\ s.applied # {}
        /\ Cardinality(s.applied) <= MaximumOperations
        /\ s.lastOrder # None
        /\ \E p \in s.applied : p.id = s.lastOrder[4]
        /\ \A d \in Devices : {k[2] : k \in Owned(d)} = 1 .. s.sequences[d]
        /\ Cardinality(DOMAIN s.owners) = Cardinality(s.applied)
        /\ Cardinality(ownerIds) = Cardinality(s.applied)
        /\ ownerIds = {p.id : p \in s.applied}
=============================================================================
