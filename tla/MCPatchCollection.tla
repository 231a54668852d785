------------------------- MODULE MCPatchCollection -------------------------
(***************************************************************************)
(* Two devices write two objects.  Every operation either device could     *)
(* name: any place in its sequence, any clock, any parent, deleting or     *)
(* not, under its own identifier or under one already used.                *)
(***************************************************************************)
EXTENDS PatchCollection

CONSTANTS a, b, MaxSequence, MaxLamport

RevisionNames == {10 * d + s : d \in Devices, s \in 1 .. MaxSequence}

Op(id, author, seq, lamport, object, parent, tombstone) ==
    [id |-> id, author |-> author, sequence |-> seq, lamport |-> lamport,
     envelope |-> [object |-> object, revision |-> 10 * author + seq,
                   parent |-> parent, tombstone |-> tombstone]]

AnyOperations ==
    {Op(IF reused THEN 11 ELSE 10 * d + s, d, s, l, o, p, t) :
        reused \in BOOLEAN, d \in Devices, s \in 1 .. MaxSequence,
        l \in 1 .. MaxLamport, o \in Objects, p \in RevisionNames \cup {None},
        t \in BOOLEAN}
=============================================================================
