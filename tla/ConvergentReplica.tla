------------------------- MODULE ConvergentReplica -------------------------
(***************************************************************************)
(* DurableEncryptedConvergentReplica (vaultsync/sync_queue.py): two or     *)
(* more devices each keep an encrypted file of the operations they have    *)
(* accepted, the authenticated snapshots they merged, and which of their   *)
(* own operations still await acceptance elsewhere.  Every change replaces *)
(* the file atomically; synchronize_to is a loop of such changes, on two   *)
(* files, that a crash may cut anywhere.                                   *)
(*                                                                         *)
(* Operations travel in any order and any number of times.                 *)
(***************************************************************************)
EXTENDS PatchOperations

CONSTANTS
    DigestRank(_),  \* the order of snapshot digests
    MaxBaselines,   \* bound on the snapshots a device merges
    MaxCrashes      \* bound on interrupted synchronisations

\* Every encryption names its result afresh (uuid4), so a revision belongs to
\* one numbered edit of one device.
ASSUME RevisionsAssumption ==
    \A p, q \in Operations : p.envelope.revision = q.envelope.revision =>
        p.author = q.author /\ p.sequence = q.sequence

VARIABLES
    operations,  \* per device: operations held whole
    snapshots,   \* per device: snapshots merged
    pending,     \* per device: own operations not yet confirmed
    session,     \* per device: a running synchronize_to, or None
    crashes      \* how many sessions were cut short

vars == <<operations, snapshots, pending, session, crashes>>

SnapshotOperations(snaps) == UNION {s.applied : s \in snaps}

\* Every operation whose fingerprint a history holds.
Receipts(ops, snaps) == ops \cup SnapshotOperations(snaps)
Accepted(d) == Receipts(operations[d], snapshots[d])

SnapshotEnvelopes(snaps) ==
    UNION {{s.records[o] : o \in Objects} \ {None} : s \in snaps}

\* _validate_convergent_history.
NoAlias(ops, snaps) ==
    \A p, q \in Receipts(ops, snaps) :
        p.id = q.id \/ (p.author = q.author /\ p.sequence = q.sequence) => p = q

\* A snapshot covers an author's operations up to a sequence: another one of
\* those is refused.
NothingBehindSnapshots(ops, snaps) ==
    \A p \in ops \ SnapshotOperations(snaps), s \in snaps :
        p.sequence > s.sequences[p.author]

\* A revision names one envelope, and parents never lead back to it.
RevisionsSound(ops, snaps) ==
    LET envelopes == {p.envelope : p \in ops} \cup SnapshotEnvelopes(snaps)
        ParentOf(e) == {f \in envelopes : f.object = e.object /\ f.revision = e.parent}
    IN  /\ \A e, f \in envelopes :
              e.object = f.object /\ e.revision = f.revision => e = f
        \* acyclic: every set of envelopes has one whose parent is not in it
        /\ \A loop \in (SUBSET envelopes) \ {{}} :
              \E e \in loop : ParentOf(e) \cap loop = {}

ValidHistory(ops, snaps) ==
    /\ NoAlias(ops, snaps)
    /\ NothingBehindSnapshots(ops, snaps)
    /\ RevisionsSound(ops, snaps)
    /\ Cardinality(Receipts(ops, snaps)) <= MaximumOperations
-----------------------------------------------------------------------------
(***************************************************************************)
(* Reduction of what a device holds to one record per object.              *)
(***************************************************************************)
Dominates(newer, older) ==
    /\ Cardinality(newer.applied) > Cardinality(older.applied)
    /\ \A k \in DOMAIN older.owners :
          k \in DOMAIN newer.owners /\ newer.owners[k] = older.owners[k]

\* Fault: only the digest decides between snapshots.
LastByDigest(snaps) ==
    CHOOSE s \in snaps : \A t \in snaps : DigestRank(t) <= DigestRank(s)

\* The undominated snapshot with the greatest digest.
ChosenSnapshot(snaps) ==
    LET undominated == {s \in snaps : ~\E t \in snaps \ {s} : Dominates(t, s)}
    IN  CHOOSE s \in undominated : \A t \in undominated : DigestRank(t) <= DigestRank(s)

\* Fault: the record is chosen among all candidates, deleted or not.
ResolveIgnoringDeletion(ops, snaps, o) ==
    LET explicit == {p \in ops : p.envelope.object = o}
        baseline == {s \in snaps : s.records[o] # None}
    IN  IF explicit # {} THEN Latest(explicit).envelope
        ELSE IF baseline # {} THEN ChosenSnapshot(baseline).records[o]
        ELSE None

\* A deletion hides every live candidate; an explicit operation outranks a
\* snapshot's record.
Resolve(ops, snaps, o) ==
    LET candidates == {p \in ops : p.envelope.object = o}
        records == {s \in snaps : s.records[o] # None}
        deleted == \/ \E p \in candidates : p.envelope.tombstone
                   \/ \E s \in records : s.records[o].tombstone
        explicit == {p \in candidates : deleted => p.envelope.tombstone}
        baseline == {s \in records : deleted => s.records[o].tombstone}
    IN  IF explicit # {} THEN Latest(explicit).envelope
        ELSE IF baseline # {} THEN ChosenSnapshot(baseline).records[o]
        ELSE None

Record(d, o) == Resolve(operations[d], snapshots[d], o)
Deleted(d, o) == LET r == Record(d, o) IN r # None /\ r.tombstone
-----------------------------------------------------------------------------
Init ==
    /\ operations = [d \in Devices |-> {}]
    /\ snapshots = [d \in Devices |-> {}]
    /\ pending = [d \in Devices |-> {}]
    /\ session = [d \in Devices |-> None]
    /\ crashes = 0

Knows(d, op) == \E p \in Accepted(d) : p.id = op.id

\* What ingesting op does to d's file, when it does not raise.
Ingests(d, op) ==
    /\ ~Knows(d, op)
    /\ ValidHistory(operations[d] \cup {op}, snapshots[d])

\* The device's user edits: the application numbers its operations in order,
\* advances its clock past what it has seen and names the record it edits.
Authors(d, op) ==
    /\ op.author = d
    /\ op.sequence = Cardinality({p \in Accepted(d) : p.author = d}) + 1
    /\ \A p \in Accepted(d) : p.lamport < op.lamport
    /\ op.envelope.parent = IF Record(d, op.envelope.object) = None THEN None
                            ELSE Record(d, op.envelope.object).revision

QueueLocal(d, op) ==
    /\ Authors(d, op)
    /\ Ingests(d, op)
    /\ operations' = [operations EXCEPT ![d] = @ \cup {op}]
    /\ pending' = [pending EXCEPT ![d] = @ \cup {op}]
    /\ UNCHANGED <<snapshots, session, crashes>>

Issued == UNION {operations[d] : d \in Devices}

\* Any operation ever issued may arrive, late, again or out of order; a known
\* one and one that does not fit change nothing.
IngestRemote(d, op) ==
    /\ op \in Issued
    /\ Ingests(d, op)
    /\ operations' = [operations EXCEPT ![d] = @ \cup {op}]
    /\ UNCHANGED <<snapshots, pending, session, crashes>>

\* The snapshots a collection compacts to after appending some of ops.
BaselinesOf(ops) ==
    LET Sorted(q) == \A i \in 2 .. Len(q) : Before(q[i - 1], q[i])
        seqs == UNION {{q \in [1 .. Cardinality(t) -> t] : Sorted(q)} :
                          t \in (SUBSET ops) \ {{}}}
    IN  {Replayed(EmptyReplay, q) : q \in {p \in seqs : Replayable(EmptyReplay, p)}}

\* An authenticated snapshot of a collection of issued operations.
MergeSnapshot(d) ==
    /\ Cardinality(snapshots[d]) < MaxBaselines
    /\ \E s \in BaselinesOf(UNION {Accepted(e) : e \in Devices}) \ snapshots[d] :
          /\ ValidHistory(operations[d], snapshots[d] \cup {s})
          /\ snapshots' = [snapshots EXCEPT ![d] = @ \cup {s}]
    /\ UNCHANGED <<operations, pending, session, crashes>>

\* synchronize_to lists the pending operations once.
StartSession(d, e) ==
    /\ session[d] = None /\ e # d
    /\ pending[d] # {}
    /\ session' = [session EXCEPT ![d] = [to |-> e, queue |-> pending[d], sent |-> FALSE]]
    /\ UNCHANGED <<operations, snapshots, pending, crashes>>

Current(d) == Earliest(session[d].queue)

\* Fault: an operation the other side already holds is an error.
SendNextOnce(d) ==
    /\ session[d] # None
    /\ ~session[d].sent
    /\ IF Ingests(session[d].to, Current(d))
       THEN /\ operations' = [operations EXCEPT ![session[d].to] = @ \cup {Current(d)}]
            /\ session' = [session EXCEPT ![d].sent = TRUE]
       ELSE session' = [session EXCEPT ![d] = None] /\ UNCHANGED operations
    /\ UNCHANGED <<snapshots, pending, crashes>>

\* remote.ingest_remote: accepted or already known, else the session raises.
SendNext(d) ==
    /\ session[d] # None
    /\ ~session[d].sent
    /\ LET op == Current(d)
           to == session[d].to
       IN  \/ /\ op \in Accepted(to)
              /\ session' = [session EXCEPT ![d].sent = TRUE]
              /\ UNCHANGED operations
           \/ /\ Ingests(to, op)
              /\ operations' = [operations EXCEPT ![to] = @ \cup {op}]
              /\ session' = [session EXCEPT ![d].sent = TRUE]
           \/ /\ op \notin Accepted(to) /\ ~Ingests(to, op)
              /\ session' = [session EXCEPT ![d] = None]
              /\ UNCHANGED operations
    /\ UNCHANGED <<snapshots, pending, crashes>>

\* Fault: the confirmed operation stays in the list.
ConfirmSentAgain(d) ==
    /\ session[d] # None
    /\ session[d].sent
    /\ pending' = [pending EXCEPT ![d] = @ \ {Current(d)}]
    /\ session' = [session EXCEPT ![d].sent = FALSE]
    /\ UNCHANGED <<operations, snapshots, crashes>>

\* confirm_remote_acceptance, then the next operation of the list.
ConfirmSent(d) ==
    /\ session[d] # None
    /\ session[d].sent
    /\ pending' = [pending EXCEPT ![d] = @ \ {Current(d)}]
    /\ session' = [session EXCEPT ![d] =
          IF @.queue = {Current(d)} THEN None
          ELSE [to |-> @.to, queue |-> @.queue \ {Current(d)}, sent |-> FALSE]]
    /\ UNCHANGED <<operations, snapshots, crashes>>

\* The process stops between two file writes.
Crash(d) ==
    /\ session[d] # None
    /\ crashes < MaxCrashes
    /\ crashes' = crashes + 1
    /\ session' = [session EXCEPT ![d] = None]
    /\ UNCHANGED <<operations, snapshots, pending>>

Synchronize(d) == (\E e \in Devices : StartSession(d, e)) \/ SendNext(d) \/ ConfirmSent(d)

Next == \E d \in Devices :
    \/ \E op \in Operations : QueueLocal(d, op)
    \/ \E op \in Issued : IngestRemote(d, op)
    \/ MergeSnapshot(d)
    \/ Synchronize(d)
    \/ Crash(d)

Spec == Init /\ [][Next]_vars

\* A device that is up goes on synchronising.
FairSpec == Spec /\ \A d \in Devices : WF_vars(Synchronize(d))
-----------------------------------------------------------------------------
\* Type correctness of the replicas' files and of running sessions.
TypeOK ==
    /\ operations \in [Devices -> SUBSET Operations]
    /\ \A d \in Devices :
          /\ pending[d] \subseteq operations[d]
          /\ \A s \in snapshots[d] : SnapshotAdmitted(s) /\ s.applied \subseteq Operations
          /\ session[d] # None => session[d].queue # {} /\ session[d].queue \subseteq pending[d]
          /\ ValidHistory(operations[d], snapshots[d])

\* Delete wins for good: once a device's record of an object is a deletion it
\* stays one, whatever arrives later, late or replayed
\* (_resolve_convergent_records; the contract's delete fence).
DeletionIsFinal ==
    [][\A d \in Devices, o \in Objects : Deleted(d, o) => Deleted(d, o)']_vars

\* Without snapshots the record shown is never one that an accepted live edit
\* was made on top of: the total order respects causality for clocks that
\* advance past what their device has seen.
NoStaleWinner ==
    \A d \in Devices, o \in Objects :
        LET shown == Record(d, o)
        IN  snapshots[d] = {} /\ shown # None /\ ~shown.tombstone =>
                \A p \in operations[d] :
                    p.envelope.object = o => p.envelope.parent # shown.revision

\* Of snapshots that follow one another the latest decides: with no explicit
\* operation and no deletion for an object, its record is the one in the
\* snapshot that contains all the others (_snapshot_dominates).
NewestBaselineWins ==
    \A d \in Devices, o \in Objects : \A s \in snapshots[d] :
        /\ \A t \in snapshots[d] : t.applied \subseteq s.applied
        /\ \A p \in operations[d] : p.envelope.object # o
        /\ s.records[o] # None
        /\ \A e \in SnapshotEnvelopes(snapshots[d]) : e.object = o => ~e.tombstone
        => Record(d, o) = s.records[o]

\* The contract's claim that the accepted operations are a set whose reduction
\* does not depend on how they were delivered.
DeliveryOrderDoesNotMatter ==
    \A d, e \in Devices : Accepted(d) = Accepted(e) =>
        \A o \in Objects : Record(d, o) = Record(e, o)

\* What devices queue is delivered in the end, through crashes and retries, and
\* they end up showing the same records, if they go on synchronising and merge
\* no snapshot (with one, DeliveryOrderDoesNotMatter fails).
EventuallyAgree ==
    [](\A d \in Devices : snapshots[d] = {}) =>
        <>[](\A d, e \in Devices, o \in Objects :
                pending[d] = {} /\ Record(d, o) = Record(e, o))
=============================================================================
