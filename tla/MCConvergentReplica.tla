------------------------ MODULE MCConvergentReplica ------------------------
(***************************************************************************)
(* Two devices editing the same objects, each in any order of clocks.      *)
(***************************************************************************)
EXTENDS ConvergentReplica

CONSTANTS a, MaxLamport,
          Names,      \* identifiers: author and sequence
          Deletions   \* those that may delete

EditOperations ==
    {[id |-> n, author |-> n \div 10, sequence |-> n % 10, lamport |-> l,
      envelope |-> [object |-> o, revision |-> n, parent |-> p, tombstone |-> t]] :
        n \in Names, l \in 1 .. MaxLamport, o \in Objects,
        p \in Names \cup {None}, t \in BOOLEAN}
LocalEdits == {p \in EditOperations : p.envelope.tombstone => p.id \in Deletions}

\* Digests that order larger snapshots below smaller ones.
Rank(s) ==
    LET Weight(i, w) == IF \E p \in s.applied : p.id = i THEN w ELSE 0
    IN  -(Weight(11, 1) + Weight(21, 2) + Weight(12, 4) + Weight(22, 8))
=============================================================================
