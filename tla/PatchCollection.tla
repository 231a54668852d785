-------------------------- MODULE PatchCollection --------------------------
(***************************************************************************)
(* DurableEncryptedPatchCollection (vaultsync/sync_queue.py): an encrypted *)
(* file holding an authenticated snapshot and the operations appended      *)
(* since.  Every call loads the file, replays the tail on the snapshot and *)
(* replaces the file atomically, so a crash leaves the state before a call *)
(* or the state after it and nothing is kept in memory between calls.      *)
(***************************************************************************)
EXTENDS PatchOperations

VARIABLES snapshot,  \* a replay put to rest, or None
          tail       \* the operations appended since

vars == <<snapshot, tail>>

\* _load_collection: the tail replayed on the snapshot.
Loaded == IF snapshot = None THEN EmptyReplay ELSE snapshot
Replay == Replayed(Loaded, tail)

Init == snapshot = None /\ tail = <<>>

\* A known operation with the same bytes is accepted again without effect; one
\* with other bytes, or out of place, raises.
AppendOperation(op) ==
    /\ Applicable(Replay, op)
    /\ tail' = Append(tail, op)
    /\ UNCHANGED snapshot

\* Fault: the tail is kept although the snapshot covers it.
CompactKeepingTail ==
    /\ Replay.applied # {}
    /\ SnapshotAdmitted(Replay)
    /\ snapshot' = Replay
    /\ UNCHANGED tail

\* The replay becomes the snapshot and the tail is empty, in one file write.
Compact ==
    /\ Replay.applied # {}
    /\ SnapshotAdmitted(Replay)
    /\ snapshot' = Replay
    /\ tail' = <<>>

Next == Compact \/ \E op \in Operations : AppendOperation(op)

Spec == Init /\ [][Next]_vars
-----------------------------------------------------------------------------
\* The file always loads again (_load_collection): its tail is sorted, repeats
\* no identifier, and each of its operations applies to what precedes it.  Nor
\* does compaction get stuck: the snapshot it would make passes the checks that
\* loading it will run (_create calls from_dict).
AlwaysLoadable ==
    /\ \A i \in 1 .. Len(tail) - 1 : Before(tail[i], tail[i + 1])
    /\ \A i, j \in 1 .. Len(tail) : tail[i].id = tail[j].id => i = j
    /\ Replayable(Loaded, tail)
    /\ snapshot # None => SnapshotAdmitted(snapshot)
    /\ Replay.applied # {} => SnapshotAdmitted(Replay)

\* Compaction changes no answer: through any number of compactions and
\* restarts the collection is the log of everything appended to it.
Log == INSTANCE PatchLog WITH log <- Replay.applied, records <- Replay.records
ImplementsLog == Log!Spec
=============================================================================
