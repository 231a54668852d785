------------------------------ MODULE PatchLog ------------------------------
(***************************************************************************)
(* What a patch collection promises: it is the set of operations appended  *)
(* to it, in their total order.  Each author's operations form a whole     *)
(* sequence, each operation replaces the object's latest revision, and a   *)
(* record is the envelope of the last operation on its object.             *)
(***************************************************************************)
EXTENDS PatchOperations

VARIABLES log,      \* the operations appended so far
          records   \* the record of each object, or None

OnObject(ops, o) == {p \in ops : p.envelope.object = o}
RecordOf(ops, o) ==
    IF OnObject(ops, o) = {} THEN None ELSE Latest(OnObject(ops, o)).envelope
RevisionOf(ops, o) == IF RecordOf(ops, o) = None THEN None ELSE RecordOf(ops, o).revision

\* op continues the history ops: last in order, next of its author, on top of
\* the latest revision of its object.
Continues(ops, op) ==
    /\ \A p \in ops : Before(p, op) /\ p.id # op.id
    /\ op.sequence = Cardinality({p \in ops : p.author = op.author}) + 1
    /\ op.envelope.parent = RevisionOf(ops, op.envelope.object)

Init == log = {} /\ records = [o \in Objects |-> None]

Extend(op) ==
    /\ Cardinality(log) < MaximumOperations
    /\ Continues(log, op)
    /\ log' = log \cup {op}
    /\ records' = [o \in Objects |-> RecordOf(log', o)]

Next == \E op \in Operations : Extend(op)

Spec == Init /\ [][Next]_<<log, records>>
=============================================================================
