----------------------- MODULE ConvergentReplicaProofs -----------------------
(***************************************************************************)
(* Theorems about convergent replicas, for any number of devices and any   *)
(* operations, snapshots, delays, repetitions and crashes.                 *)
(*                                                                         *)
(* A snapshot is what a patch collection compacts to, so what the theorems *)
(* need of it is what PatchCollectionProofs shows of every replay (Sound). *)
(* That module speaks of its own copies of the operators of                *)
(* PatchOperations; the first lemmas here identify the two.                *)
(***************************************************************************)
EXTENDS ConvergentReplica, FiniteSetTheorems, SequenceTheorems, TLAPS

Collection == INSTANCE PatchCollectionProofs WITH snapshot <- None, tail <- <<>>

\* SHA-256 digests, compared as text, are as good as numbers.
DigestsAreNumbers == \A s : DigestRank(s) \in Int

Baseline(s) == Collection!Sound(s) /\ s.applied # {}

\* A replica holds a deletion of o, in an operation or in a snapshot.
HasDeletion(ops, snaps, o) ==
    \/ \E p \in ops : p.envelope.object = o /\ p.envelope.tombstone
    \/ \E s \in snaps : s.records[o] # None /\ s.records[o].tombstone

\* What o's record is chosen from.
Explicit(ops, snaps, o) ==
    {p \in ops : p.envelope.object = o
                 /\ (HasDeletion(ops, snaps, o) => p.envelope.tombstone)}
Kept(ops, snaps, o) ==
    {s \in snaps : s.records[o] # None
                   /\ (HasDeletion(ops, snaps, o) => s.records[o].tombstone)}

Session == [to : Devices, queue : SUBSET Operations, sent : BOOLEAN]

FilesTyped ==
    /\ operations \in [Devices -> SUBSET Operations]
    /\ snapshots \in [Devices -> SUBSET Collections]
    /\ pending \in [Devices -> SUBSET Operations]
    /\ session \in [Devices -> Session \cup {None}]

Listed ==
    \A d \in Devices :
        /\ pending[d] \subseteq operations[d]
        /\ session[d] # None =>
              session[d].queue # {} /\ session[d].queue \subseteq pending[d]

Histories == \A d \in Devices : ValidHistory(operations[d], snapshots[d])

Baselines ==
    \A d \in Devices :
        /\ IsFiniteSet(snapshots[d])
        /\ \A s \in snapshots[d] : Baseline(s) /\ s.applied \subseteq Issued

\* The device that authored an operation holds it.
Origins == \A p \in Issued : p \in operations[p.author]

\* An edit's clock is past that of the operation it was made on.
ParentsBefore ==
    \A p \in Issued : p.envelope.parent # None =>
        \E q \in Issued : /\ q.envelope.revision = p.envelope.parent
                          /\ q.lamport < p.lamport

ReplicaInv == FilesTyped /\ Listed /\ Histories /\ Baselines /\ Origins /\ ParentsBefore
-----------------------------------------------------------------------------
(***************************************************************************)
(* The operators of the two modules are the same.                          *)
(***************************************************************************)
LEMMA SameSize == ASSUME NEW S PROVE Collection!Cardinality(S) = Cardinality(S)
BY DEF Collection!Cardinality, Cardinality

LEMMA SameFinite == ASSUME NEW S PROVE Collection!IsFiniteSet(S) <=> IsFiniteSet(S)
BY DEF Collection!IsFiniteSet, IsFiniteSet

LEMMA SameKeys ==
    ASSUME NEW p, NEW q
    PROVE  /\ Collection!OrderKey(p) = OrderKey(p)
           /\ Collection!SequenceKey(p) = SequenceKey(p)
           /\ Collection!KeyBelow(p, q) <=> KeyBelow(p, q)
           /\ Collection!Before(p, q) <=> Before(p, q)
BY DEF Collection!OrderKey, Collection!SequenceKey, Collection!KeyBelow, Collection!Before,
       OrderKey, SequenceKey, KeyBelow, Before

LEMMA SameSets ==
    /\ Collection!Envelope = Envelope
    /\ Collection!Operation = Operation
    /\ Collection!OrderKeys = OrderKeys
    /\ Collection!Collections = Collections
<1>1. Collection!Envelope = Envelope
  BY DEF Collection!Envelope, Envelope
<1>2. Collection!Operation = Operation
  BY <1>1 DEF Collection!Operation, Operation
<1>3. Collection!OrderKeys = OrderKeys
  BY DEF Collection!OrderKeys, OrderKeys
<1>4. Collection!Owners = Owners
  BY DEF Collection!Owners, Collection!SequenceKey, Owners, SequenceKey
<1>5. Collection!Collections = Collections
  BY <1>1, <1>3, <1>4 DEF Collection!Collections, Collections
<1> QED
  BY <1>1, <1>2, <1>3, <1>5

LEMMA SameAssumption == Collection!OperationsAssumption
BY OperationsAssumption, SameSets, SameFinite DEF Collection!OperationsAssumption

LEMMA SameReplays ==
    ASSUME NEW base, NEW ops
    PROVE  Collection!Replays(base, ops) = Replays(base, ops)
BY DEF Collection!Replays, Collection!Apply, Collection!SequenceKey, Collection!OrderKey,
       Replays, Apply, SequenceKey, OrderKey

LEMMA SameApplicable ==
    ASSUME NEW r, NEW op
    PROVE  Collection!Applicable(r, op) <=> Applicable(r, op)
<1>1. Collection!Known(r, op) <=> Known(r, op)
  BY DEF Collection!Known, Known
<1>2. Collection!AdvanceAllowed(r, op) <=> AdvanceAllowed(r, op)
  BY SameKeys DEF Collection!AdvanceAllowed, Collection!ObjectRevision,
                  AdvanceAllowed, ObjectRevision
<1> QED
  BY <1>1, <1>2, SameKeys, SameSize DEF Collection!Applicable, Applicable

LEMMA SameAdmitted ==
    ASSUME NEW s
    PROVE  Collection!SnapshotAdmitted(s) <=> SnapshotAdmitted(s)
BY SameSize DEF Collection!SnapshotAdmitted, SnapshotAdmitted

LEMMA SameEmpty == Collection!EmptyReplay = EmptyReplay
BY DEF Collection!EmptyReplay, EmptyReplay
-----------------------------------------------------------------------------
(***************************************************************************)
(* Operations and snapshots.                                               *)
(***************************************************************************)
LEMMA Fields ==
    ASSUME NEW p \in Operations
    PROVE  /\ p.author \in Devices /\ p.lamport \in Nat /\ p.sequence \in Nat
           /\ p.envelope # None /\ p.envelope.revision # None
BY SameAssumption, Collection!Fields

\* Before orders any two operations of different identifiers.
LEMMA TotalOrder ==
    ASSUME NEW p \in Operations, NEW q \in Operations, NEW r \in Operations
    PROVE  /\ Before(p, q) => ~Before(q, p)
           /\ Before(p, q) /\ Before(q, r) => Before(p, r)
           /\ p.id = q.id \/ Before(p, q) \/ Before(q, p)
           /\ Before(p, q) => p.lamport <= q.lamport
<1>1. /\ Before(p, q) => ~Before(q, p)
      /\ Before(p, q) /\ Before(q, r) => Before(p, r)
  BY SameAssumption, SameKeys, Collection!BeforeOrders
<1>2. \A x, y \in {p, q} : Before(x, y) <=>
          \/ x.lamport < y.lamport
          \/ x.lamport = y.lamport /\ x.author < y.author
          \/ x.lamport = y.lamport /\ x.author = y.author /\ x.sequence < y.sequence
          \/ x.lamport = y.lamport /\ x.author = y.author /\ x.sequence = y.sequence
             /\ x.id < y.id
  BY DEF Before, KeyBelow, OrderKey
<1>3. \A x \in {p, q} : /\ x.lamport \in Nat /\ x.author \in Nat
                        /\ x.sequence \in Nat /\ x.id \in Nat
  BY SameAssumption, Collection!Fields
<1>4. p.id = q.id \/ Before(p, q) \/ Before(q, p)
  BY <1>2, <1>3
<1>5. Before(p, q) => p.lamport <= q.lamport
  BY <1>2, <1>3
<1> QED
  BY <1>1, <1>4, <1>5

\* What a sound replay is made of, in this module's terms.
LEMMA SoundFacts ==
    ASSUME NEW s, Baseline(s)
    PROVE  /\ s \in Collections
           /\ s.applied \in SUBSET Operations /\ s.applied # {}
           /\ Cardinality(s.applied) \in Nat
           /\ SnapshotAdmitted(s)
           /\ \A o \in Objects : s.records[o] # None =>
                 \E p \in s.applied : p.envelope = s.records[o] /\ p.envelope.object = o
<1>1. Collection!Sound(s) /\ s.applied # {}
  BY DEF Baseline
<1>2. /\ s.applied \in SUBSET Operations
      /\ Collection!IsFiniteSet(s.applied) /\ Collection!Cardinality(s.applied) \in Nat
  BY <1>1, SameAssumption, Collection!SoundTypes
<1>3. s \in Collections
  BY <1>1, SameSets DEF Collection!Sound
<1>4. Collection!SnapshotAdmitted(s)
  BY <1>1, SameAssumption, Collection!SoundAdmitted
<1>5. \A o \in Objects : s.records[o] # None =>
         \E p \in s.applied : p.envelope = s.records[o] /\ p.envelope.object = o
  BY <1>1, SameAssumption, Collection!RecordsApplied
<1> QED
  BY <1>1, <1>2, <1>3, <1>4, <1>5, SameSize, SameAdmitted

LEMMA LargerDominates ==
    ASSUME NEW r, Baseline(r), NEW s, Baseline(s), r.applied \subseteq s.applied, r # s
    PROVE  Dominates(s, r)
<1>1. /\ Collection!Cardinality(r.applied) < Collection!Cardinality(s.applied)
      /\ \A k \in DOMAIN r.owners : k \in DOMAIN s.owners /\ s.owners[k] = r.owners[k]
  BY SameAssumption, Collection!SoundContained DEF Baseline
<1>2. Cardinality(r.applied) < Cardinality(s.applied)
  BY <1>1, SameSize
<1>3. Cardinality(r.applied) \in Nat /\ Cardinality(s.applied) \in Nat
  BY SoundFacts
<1> QED
  BY <1>1, <1>2, <1>3 DEF Dominates

\* What compaction makes of some of ops.
LEMMA BaselineFacts ==
    ASSUME NEW ops \in SUBSET Operations, NEW s \in BaselinesOf(ops)
    PROVE  Baseline(s) /\ s.applied \subseteq ops
<1>1. PICK t \in (SUBSET ops) \ {{}} : \E q \in [1 .. Cardinality(t) -> t] :
         Replayable(EmptyReplay, q) /\ s = Replayed(EmptyReplay, q)
  BY DEF BaselinesOf
<1>2. PICK q \in [1 .. Cardinality(t) -> t] :
         Replayable(EmptyReplay, q) /\ s = Replayed(EmptyReplay, q)
  BY <1>1
<1>3. IsFiniteSet(t) /\ Cardinality(t) \in Nat \ {0}
  <2>1. IsFiniteSet(t)
    BY OperationsAssumption, FS_Subset
  <2>2. Cardinality(t) \in Nat /\ Cardinality(t) # 0
    BY <2>1, FS_CardinalityType, FS_EmptySet
  <2> QED
    BY <2>1, <2>2
<1>4. q \in Seq(ops) /\ Len(q) = Cardinality(t) /\ q # <<>>
  <2>1. q \in [1 .. Cardinality(t) -> ops]
    BY <1>2
  <2> QED
    BY <1>3, <2>1
<1>5. Collection!Replayable(Collection!EmptyReplay, q)
  BY <1>2, SameEmpty, SameReplays, SameApplicable DEF Collection!Replayable, Replayable
<1>6. s = Collection!Replayed(Collection!EmptyReplay, q)
  BY <1>2, SameEmpty, SameReplays DEF Collection!Replayed, Replayed
<1>7. Collection!Sound(s) /\ s.applied # {} /\ s.applied \subseteq ops
  BY <1>4, <1>5, <1>6, SameAssumption, Collection!BaselineSound
<1> QED
  BY <1>7 DEF Baseline
-----------------------------------------------------------------------------
(***************************************************************************)
(* What a record is chosen from, and what it is.                           *)
(***************************************************************************)
\* A finite set that R orders has a greatest element.
LEMMA Greatest ==
    ASSUME NEW S, IsFiniteSet(S), S # {}, NEW R,
           \A x, y, z \in S : <<x, y>> \in R /\ <<y, z>> \in R => <<x, z>> \in R,
           \A x, y \in S : x # y => <<x, y>> \in R \/ <<y, x>> \in R
    PROVE  \E m \in S : \A x \in S \ {m} : <<x, m>> \in R
<1> DEFINE Top(T) == \E m \in T : \A x \in T \ {m} : <<x, m>> \in R
           wrong == {n \in Nat : \E T \in SUBSET S :
                        T # {} /\ Cardinality(T) = n /\ ~Top(T)}
<1> SUFFICES ASSUME wrong # {} PROVE FALSE
  <2>1. Cardinality(S) \in Nat
    BY FS_CardinalityType
  <2> QED
    BY <2>1
<1>1. PICK n \in wrong : \A m \in wrong : n <= m
  <2>1. wrong \in SUBSET Nat
    OBVIOUS
  <2> HIDE DEF wrong
  <2> QED
    BY <2>1, SameAssumption, Collection!Least
<1>2. PICK T \in SUBSET S : T # {} /\ Cardinality(T) = n /\ ~Top(T)
  OBVIOUS
<1>3. PICK x : x \in T
  BY <1>2
<1>4. /\ T \ {x} \in SUBSET S /\ IsFiniteSet(T)
      /\ Cardinality(T \ {x}) \in Nat /\ Cardinality(T \ {x}) = n - 1 /\ n \in Nat
  <2>1. IsFiniteSet(T) /\ IsFiniteSet(T \ {x})
    BY FS_Subset
  <2> QED
    BY <1>2, <1>3, <2>1, FS_RemoveElement, FS_CardinalityType
<1>5. CASE T \ {x} = {}
  BY <1>2, <1>3, <1>5
<1>6. CASE T \ {x} # {}
  <2>1. n - 1 \notin wrong
    BY <1>1, <1>4
  <2>2. Top(T \ {x})
    BY <1>4, <1>6, <2>1
  <2>3. PICK m \in T \ {x} : \A y \in (T \ {x}) \ {m} : <<y, m>> \in R
    BY <2>2
  <2>4. CASE <<x, m>> \in R
    <3>1. \A y \in T \ {m} : <<y, m>> \in R
      BY <2>3, <2>4
    <3> QED
      BY <1>2, <2>3, <3>1
  <2>5. CASE <<m, x>> \in R
    <3>1. \A y \in T \ {x} : <<y, x>> \in R
      BY <1>3, <2>3, <2>5
    <3> QED
      BY <1>2, <1>3, <3>1
  <2> QED
    BY <1>3, <2>3, <2>4, <2>5
<1> QED
  BY <1>5, <1>6

Distinct(ops) == \A p, q \in ops : p.id = q.id => p = q

\* Latest and Earliest are what their names say.
LEMMA LatestIs ==
    ASSUME NEW ops \in SUBSET Operations, ops # {}, Distinct(ops)
    PROVE  Latest(ops) \in ops /\ \A p \in ops \ {Latest(ops)} : Before(p, Latest(ops))
<1> DEFINE R == {z \in Operations \X Operations : Before(z[1], z[2])}
<1>1. \A p, q \in Operations : <<p, q>> \in R <=> Before(p, q)
  OBVIOUS
<1> HIDE DEF R
<1>2. IsFiniteSet(ops)
  BY OperationsAssumption, FS_Subset
<1>3. \A x, y, z \in ops : <<x, y>> \in R /\ <<y, z>> \in R => <<x, z>> \in R
  BY <1>1, TotalOrder
<1>4. \A x, y \in ops : x # y => <<x, y>> \in R \/ <<y, x>> \in R
  BY <1>1, TotalOrder DEF Distinct
<1>5. \E m \in ops : \A p \in ops \ {m} : <<p, m>> \in R
  BY <1>2, <1>3, <1>4, Greatest
<1>6. \E m \in ops : \A p \in ops \ {m} : Before(p, m)
  BY <1>1, <1>5
<1> QED
  BY <1>6 DEF Latest

LEMMA EarliestIs ==
    ASSUME NEW ops \in SUBSET Operations, ops # {}, Distinct(ops)
    PROVE  Earliest(ops) \in ops
<1> DEFINE R == {z \in Operations \X Operations : Before(z[2], z[1])}
<1>1. \A p, q \in Operations : <<p, q>> \in R <=> Before(q, p)
  OBVIOUS
<1> HIDE DEF R
<1>2. IsFiniteSet(ops)
  BY OperationsAssumption, FS_Subset
<1>3. \A x, y, z \in ops : <<x, y>> \in R /\ <<y, z>> \in R => <<x, z>> \in R
  BY <1>1, TotalOrder
<1>4. \A x, y \in ops : x # y => <<x, y>> \in R \/ <<y, x>> \in R
  BY <1>1, TotalOrder DEF Distinct
<1>5. \E m \in ops : \A p \in ops \ {m} : <<p, m>> \in R
  BY <1>2, <1>3, <1>4, Greatest
<1>6. \E m \in ops : \A p \in ops \ {m} : Before(m, p)
  BY <1>1, <1>5
<1> QED
  BY <1>6 DEF Earliest

\* ChosenSnapshot is one of the snapshots, and no other dominates it.
LEMMA ChosenIs ==
    ASSUME DigestsAreNumbers, NEW snaps, IsFiniteSet(snaps), snaps # {},
           \A s \in snaps : Baseline(s)
    PROVE  /\ ChosenSnapshot(snaps) \in snaps
           /\ ~\E t \in snaps \ {ChosenSnapshot(snaps)} : Dominates(t, ChosenSnapshot(snaps))
<1> DEFINE undominated == {s \in snaps : ~\E t \in snaps \ {s} : Dominates(t, s)}
           bySize == {z \in snaps \X snaps :
                         Cardinality(z[1].applied) <= Cardinality(z[2].applied)}
           byDigest == {z \in snaps \X snaps : DigestRank(z[1]) <= DigestRank(z[2])}
<1>1. \A s \in snaps : Cardinality(s.applied) \in Nat
  BY SoundFacts
<1>2. \A s, t \in snaps :
         <<s, t>> \in bySize <=> Cardinality(s.applied) <= Cardinality(t.applied)
  OBVIOUS
<1>3. \A s, t \in snaps : <<s, t>> \in byDigest <=> DigestRank(s) <= DigestRank(t)
  OBVIOUS
<1> HIDE DEF bySize, byDigest
<1>4. PICK m \in snaps : \A s \in snaps \ {m} : <<s, m>> \in bySize
  <2>1. \A x, y, z \in snaps : <<x, y>> \in bySize /\ <<y, z>> \in bySize => <<x, z>> \in bySize
    BY <1>1, <1>2
  <2>2. \A x, y \in snaps : x # y => <<x, y>> \in bySize \/ <<y, x>> \in bySize
    BY <1>1, <1>2
  <2> QED
    BY <2>1, <2>2, Greatest
<1>5. m \in undominated
  <2> SUFFICES ASSUME NEW t \in snaps \ {m}, Dominates(t, m) PROVE FALSE
    OBVIOUS
  <2>1. Cardinality(t.applied) > Cardinality(m.applied)
    BY DEF Dominates
  <2>2. Cardinality(t.applied) <= Cardinality(m.applied)
    BY <1>2, <1>4
  <2>3. Cardinality(t.applied) \in Nat /\ Cardinality(m.applied) \in Nat
    BY <1>1
  <2> HIDE DEF undominated
  <2> QED
    BY <2>1, <2>2, <2>3
<1>6. IsFiniteSet(undominated)
  BY FS_Subset
<1>7. \E s \in undominated : \A t \in undominated : DigestRank(t) <= DigestRank(s)
  <2>1. undominated \subseteq snaps
    OBVIOUS
  <2> HIDE DEF undominated
  <2>2. \A s \in snaps : DigestRank(s) \in Int
    BY DEF DigestsAreNumbers
  <2>3. \A x, y, z \in undominated :
           <<x, y>> \in byDigest /\ <<y, z>> \in byDigest => <<x, z>> \in byDigest
    BY <1>3, <2>1, <2>2
  <2>4. \A x, y \in undominated : x # y => <<x, y>> \in byDigest \/ <<y, x>> \in byDigest
    BY <1>3, <2>1, <2>2
  <2>5. PICK s \in undominated : \A t \in undominated \ {s} : <<t, s>> \in byDigest
    BY <1>5, <1>6, <2>3, <2>4, Greatest
  <2>6. ASSUME NEW t \in undominated PROVE DigestRank(t) <= DigestRank(s)
    <3>1. t \in snaps /\ s \in snaps
      BY <2>1
    <3>2. CASE t = s
      BY <2>2, <3>1, <3>2
    <3>3. CASE t # s
      BY <1>3, <2>5, <3>1, <3>3
    <3> QED
      BY <3>2, <3>3
  <2> QED
    BY <2>6
<1>8. ChosenSnapshot(snaps)
      = CHOOSE s \in undominated : \A t \in undominated : DigestRank(t) <= DigestRank(s)
  BY DEF ChosenSnapshot
<1>9. ChosenSnapshot(snaps) \in undominated
  <2> HIDE DEF undominated
  <2> QED
    BY <1>7, <1>8
<1> QED
  BY <1>9

LEMMA ResolveIs ==
    ASSUME NEW ops, NEW snaps, NEW o
    PROVE  Resolve(ops, snaps, o) =
              IF Explicit(ops, snaps, o) # {} THEN Latest(Explicit(ops, snaps, o)).envelope
              ELSE IF Kept(ops, snaps, o) # {}
                   THEN ChosenSnapshot(Kept(ops, snaps, o)).records[o]
              ELSE None
<1> DEFINE candidates == {p \in ops : p.envelope.object = o}
           records == {s \in snaps : s.records[o] # None}
           deleted == \/ \E p \in candidates : p.envelope.tombstone
                      \/ \E s \in records : s.records[o].tombstone
           explicit == {p \in candidates : deleted => p.envelope.tombstone}
           baseline == {s \in records : deleted => s.records[o].tombstone}
<1>1. deleted <=> HasDeletion(ops, snaps, o)
  BY DEF HasDeletion
<1>2. explicit = Explicit(ops, snaps, o)
  <2> HIDE DEF deleted
  <2> QED
    BY <1>1 DEF Explicit
<1>3. baseline = Kept(ops, snaps, o)
  <2> HIDE DEF deleted
  <2> QED
    BY <1>1 DEF Kept
<1>4. Resolve(ops, snaps, o) = IF explicit # {} THEN Latest(explicit).envelope
                               ELSE IF baseline # {} THEN ChosenSnapshot(baseline).records[o]
                               ELSE None
  BY DEF Resolve
<1> HIDE DEF explicit, baseline
<1> QED
  BY <1>2, <1>3, <1>4

\* A history whose records can be told.
Readable(ops, snaps) ==
    /\ ops \in SUBSET Operations /\ Distinct(ops)
    /\ IsFiniteSet(snaps) /\ \A s \in snaps : Baseline(s)

\* The record shown is that of an operation accepted, which deletes exactly if
\* some candidate does.
LEMMA RecordFacts ==
    ASSUME DigestsAreNumbers, NEW ops, NEW snaps, Readable(ops, snaps), NEW o \in Objects
    PROVE  LET shown == Resolve(ops, snaps, o) IN
           /\ shown # None =>
                 \E p \in Receipts(ops, snaps) : p.envelope = shown /\ p.envelope.object = o
           /\ (shown # None /\ shown.tombstone) <=> HasDeletion(ops, snaps, o)
<1> DEFINE shown == Resolve(ops, snaps, o)
           E == Explicit(ops, snaps, o)
           K == Kept(ops, snaps, o)
<1>1. shown = IF E # {} THEN Latest(E).envelope
              ELSE IF K # {} THEN ChosenSnapshot(K).records[o] ELSE None
  BY ResolveIs
<1>2. HasDeletion(ops, snaps, o) => E # {} \/ K # {}
  BY DEF HasDeletion, Explicit, Kept
<1>3. (\E p \in ops : p.envelope.object = o /\ p.envelope.tombstone)
      \/ (\E s \in snaps : s.records[o] # None /\ s.records[o].tombstone)
      => HasDeletion(ops, snaps, o)
  BY DEF HasDeletion
<1>4. \A p \in E : p \in ops /\ p.envelope.object = o
                   /\ (HasDeletion(ops, snaps, o) => p.envelope.tombstone)
  BY DEF Explicit
<1>5. \A s \in K : s \in snaps /\ s.records[o] # None
                   /\ (HasDeletion(ops, snaps, o) => s.records[o].tombstone)
  BY DEF Kept
<1> HIDE DEF E, K, shown
<1>6. CASE E # {}
  <2>1. E \in SUBSET Operations /\ Distinct(E)
    BY <1>4 DEF Readable, Distinct
  <2>2. Latest(E) \in E
    BY <1>6, <2>1, LatestIs
  <2>3. Latest(E) \in ops /\ Latest(E).envelope.object = o /\ shown = Latest(E).envelope
        /\ (HasDeletion(ops, snaps, o) => shown.tombstone) /\ shown # None
    BY <1>1, <1>4, <1>6, <2>2, Fields DEF Readable
  <2>4. shown.tombstone => HasDeletion(ops, snaps, o)
    BY <1>3, <2>3
  <2>5. Latest(E) \in Receipts(ops, snaps)
    BY <2>3 DEF Receipts
  <2> QED
    BY <2>3, <2>4, <2>5 DEF shown
<1>7. CASE E = {} /\ K # {}
  <2>1. IsFiniteSet(K) /\ \A s \in K : Baseline(s)
    <3>1. K \in SUBSET snaps
      BY <1>5
    <3> QED
      BY <1>5, <3>1, FS_Subset DEF Readable
  <2> DEFINE c == ChosenSnapshot(K)
  <2>2. c \in K
    BY <1>7, <2>1, ChosenIs
  <2> HIDE DEF c
  <2>3. c \in snaps /\ shown = c.records[o] /\ shown # None
        /\ (HasDeletion(ops, snaps, o) => shown.tombstone) /\ Baseline(c)
    BY <1>1, <1>5, <1>7, <2>1, <2>2 DEF c
  <2>4. shown.tombstone => HasDeletion(ops, snaps, o)
    BY <1>3, <2>3
  <2>5. PICK p \in c.applied : p.envelope = shown /\ p.envelope.object = o
    BY <2>3, SoundFacts
  <2>6. p \in Receipts(ops, snaps)
    BY <2>3, <2>5 DEF Receipts, SnapshotOperations
  <2> QED
    BY <2>3, <2>4, <2>5, <2>6 DEF shown
<1>8. CASE E = {} /\ K = {}
  BY <1>1, <1>2, <1>8 DEF shown
<1> QED
  BY <1>6, <1>7, <1>8
-----------------------------------------------------------------------------
(***************************************************************************)
(* The inductive invariant.                                                *)
(***************************************************************************)
LEMMA HistoryReadable ==
    ASSUME ReplicaInv, NEW d \in Devices
    PROVE  /\ Readable(operations[d], snapshots[d])
           /\ Accepted(d) \subseteq Issued /\ Issued \subseteq Operations
           /\ NoAlias(operations[d], snapshots[d])
<1>1. \A e \in Devices : operations[e] \in SUBSET Operations /\ operations[e] \subseteq Issued
  BY DEF ReplicaInv, FilesTyped, Issued
<1>2. Issued \subseteq Operations
  BY <1>1 DEF Issued
<1>3. NoAlias(operations[d], snapshots[d])
  BY DEF ReplicaInv, Histories, ValidHistory
<1>4. Distinct(operations[d])
  BY <1>3 DEF NoAlias, Receipts, Distinct
<1>5. IsFiniteSet(snapshots[d]) /\ \A s \in snapshots[d] : Baseline(s)
  BY DEF ReplicaInv, Baselines
<1>6. Accepted(d) \subseteq Issued
  BY <1>1 DEF ReplicaInv, Baselines, Accepted, Receipts, SnapshotOperations
<1> QED
  BY <1>1, <1>2, <1>3, <1>4, <1>5, <1>6 DEF Readable

LEMMA ReplicaInit == Init => ReplicaInv
<1> SUFFICES ASSUME Init PROVE ReplicaInv
  OBVIOUS
<1>1. \A d \in Devices : /\ operations[d] = {} /\ snapshots[d] = {} /\ pending[d] = {}
                         /\ session[d] = None
  BY DEF Init
<1>2. FilesTyped
  BY DEF Init, FilesTyped
<1>3. Listed
  BY <1>1 DEF Listed
<1>4. Issued = {}
  BY <1>1 DEF Issued
<1>5. ValidHistory({}, {})
  <2>1. Receipts({}, {}) = {} /\ SnapshotEnvelopes({}) = {} /\ SnapshotOperations({}) = {}
    BY DEF Receipts, SnapshotEnvelopes, SnapshotOperations
  <2>2. Cardinality({}) = 0 /\ 0 <= MaximumOperations
    BY FS_EmptySet, OperationsAssumption
  <2>3. NoAlias({}, {}) /\ NothingBehindSnapshots({}, {})
    BY <2>1 DEF NoAlias, NothingBehindSnapshots
  <2>4. RevisionsSound({}, {})
    BY <2>1 DEF RevisionsSound
  <2> QED
    BY <2>1, <2>2, <2>3, <2>4 DEF ValidHistory
<1>6. Histories
  BY <1>1, <1>5 DEF Histories
<1>7. Baselines
  BY <1>1, FS_EmptySet DEF Baselines
<1> QED
  BY <1>2, <1>3, <1>4, <1>6, <1>7 DEF ReplicaInv, Origins, ParentsBefore

\* A device's file gains the operation op, that its author has.
LEMMA Gains ==
    ASSUME ReplicaInv, NEW d \in Devices, NEW op \in Operations, Ingests(d, op),
           operations' = [operations EXCEPT ![d] = @ \cup {op}],
           UNCHANGED snapshots,
           op \in Issued \/ op.author = d,
           op \in Issued \/ op.envelope.parent = None
              \/ \E q \in Issued : /\ q.envelope.revision = op.envelope.parent
                                   /\ q.lamport < op.lamport
    PROVE  /\ operations' \in [Devices -> SUBSET Operations]
           /\ \A e \in Devices : operations[e] \subseteq operations'[e]
           /\ (Histories /\ Baselines /\ Origins /\ ParentsBefore)'
<1>1. operations \in [Devices -> SUBSET Operations]
  BY DEF ReplicaInv, FilesTyped
<1>2. operations' \in [Devices -> SUBSET Operations]
  BY <1>1
<1>3. /\ operations'[d] = operations[d] \cup {op}
      /\ \A e \in Devices : e # d => operations'[e] = operations[e]
  BY <1>1
<1>4. \A e \in Devices : operations[e] \subseteq operations'[e]
  BY <1>3
<1>5. Issued' = Issued \cup {op}
  BY <1>3 DEF Issued
<1>6. Histories'
  BY <1>3 DEF ReplicaInv, Histories, Ingests
<1>7. Baselines'
  BY <1>5 DEF ReplicaInv, Baselines
<1>8. Origins'
  <2> SUFFICES ASSUME NEW p \in Issued' PROVE p \in operations'[p.author]
    BY DEF Origins
  <2>1. CASE p \in Issued
    <3>1. p \in operations[p.author]
      BY <2>1 DEF ReplicaInv, Origins
    <3>2. p.author \in Devices
      BY <2>1, HistoryReadable, Fields
    <3> QED
      BY <1>4, <3>1, <3>2
  <2>2. CASE p \notin Issued
    BY <1>3, <1>5, <2>2
  <2> QED
    BY <2>1, <2>2
<1>9. ParentsBefore'
  <2> SUFFICES ASSUME NEW p \in Issued', p.envelope.parent # None
               PROVE  \E q \in Issued' : /\ q.envelope.revision = p.envelope.parent
                                         /\ q.lamport < p.lamport
    BY DEF ParentsBefore
  <2>1. \E q \in Issued : /\ q.envelope.revision = p.envelope.parent
                          /\ q.lamport < p.lamport
    <3>1. CASE p \in Issued
      BY <3>1 DEF ReplicaInv, ParentsBefore
    <3>2. CASE p \notin Issued
      BY <1>5, <3>2
    <3> QED
      BY <3>1, <3>2
  <2> QED
    BY <1>5, <2>1
<1> QED
  BY <1>2, <1>4, <1>6, <1>7, <1>8, <1>9

\* Everything but the two lists of a device stays as it was.
LEMMA Frame ==
    ASSUME ReplicaInv, UNCHANGED <<operations, snapshots>>
    PROVE  (Histories /\ Baselines /\ Origins /\ ParentsBefore)'
BY DEF ReplicaInv, Histories, Baselines, Origins, ParentsBefore, Issued

LEMMA ByQueueLocal ==
    ASSUME DigestsAreNumbers, ReplicaInv, NEW d \in Devices, NEW op \in Operations,
           QueueLocal(d, op)
    PROVE  ReplicaInv'
<1> DEFINE o == op.envelope.object
<1>1. op.author = d
  BY DEF QueueLocal, Authors
<1>2. o \in Objects
  BY SameAssumption, Collection!Fields
<1>3. op.envelope.parent = None
         \/ \E q \in Issued : /\ q.envelope.revision = op.envelope.parent
                              /\ q.lamport < op.lamport
  <2>1. CASE Record(d, o) = None
    BY <2>1 DEF QueueLocal, Authors
  <2>2. CASE Record(d, o) # None
    <3>1. PICK q \in Accepted(d) : q.envelope = Record(d, o)
      BY <1>2, <2>2, HistoryReadable, RecordFacts DEF Record, Accepted
    <3>2. q.lamport < op.lamport /\ op.envelope.parent = Record(d, o).revision
      BY <2>2, <3>1 DEF QueueLocal, Authors
    <3> QED
      BY <3>1, <3>2, HistoryReadable
  <2> QED
    BY <2>1, <2>2
<1>4. /\ operations' \in [Devices -> SUBSET Operations]
      /\ \A e \in Devices : operations[e] \subseteq operations'[e]
      /\ (Histories /\ Baselines /\ Origins /\ ParentsBefore)'
  BY <1>1, <1>3, Gains DEF QueueLocal
<1>5. FilesTyped'
  <2>1. pending' \in [Devices -> SUBSET Operations]
    BY DEF QueueLocal, ReplicaInv, FilesTyped
  <2> QED
    BY <1>4, <2>1 DEF QueueLocal, ReplicaInv, FilesTyped
<1>6. Listed'
  <2>1. /\ operations'[d] = operations[d] \cup {op} /\ pending'[d] = pending[d] \cup {op}
        /\ \A e \in Devices : e # d => pending'[e] = pending[e]
    BY DEF QueueLocal, ReplicaInv, FilesTyped
  <2>2. session' = session
    BY DEF QueueLocal
  <2> QED
    BY <1>4, <2>1, <2>2 DEF ReplicaInv, Listed
<1> QED
  BY <1>4, <1>5, <1>6 DEF ReplicaInv

LEMMA ByIngestRemote ==
    ASSUME ReplicaInv, NEW d \in Devices, NEW op, IngestRemote(d, op)
    PROVE  ReplicaInv'
<1>1. op \in Issued /\ op \in Operations
  BY HistoryReadable DEF IngestRemote
<1>2. /\ operations' \in [Devices -> SUBSET Operations]
      /\ \A e \in Devices : operations[e] \subseteq operations'[e]
      /\ (Histories /\ Baselines /\ Origins /\ ParentsBefore)'
  BY <1>1, Gains DEF IngestRemote
<1>3. FilesTyped'
  BY <1>2 DEF IngestRemote, ReplicaInv, FilesTyped
<1>4. Listed'
  BY <1>2 DEF IngestRemote, ReplicaInv, Listed
<1> QED
  BY <1>2, <1>3, <1>4 DEF ReplicaInv

LEMMA ByMergeSnapshot ==
    ASSUME ReplicaInv, NEW d \in Devices, MergeSnapshot(d)
    PROVE  ReplicaInv'
<1> DEFINE held == UNION {Accepted(e) : e \in Devices}
<1>1. PICK s \in BaselinesOf(held) :
         /\ ValidHistory(operations[d], snapshots[d] \cup {s})
         /\ snapshots' = [snapshots EXCEPT ![d] = @ \cup {s}]
  BY DEF MergeSnapshot
<1>2. held \subseteq Issued /\ held \in SUBSET Operations
  BY HistoryReadable
<1> HIDE DEF held
<1>3. Baseline(s) /\ s.applied \subseteq Issued /\ s \in Collections
  BY <1>2, BaselineFacts, SoundFacts
<1>4. snapshots \in [Devices -> SUBSET Collections]
      /\ UNCHANGED <<operations, pending, session, crashes>>
  BY DEF ReplicaInv, FilesTyped, MergeSnapshot
<1>5. /\ snapshots'[d] = snapshots[d] \cup {s}
      /\ \A e \in Devices : e # d => snapshots'[e] = snapshots[e]
      /\ snapshots' \in [Devices -> SUBSET Collections]
  BY <1>1, <1>3, <1>4
<1>6. FilesTyped'
  BY <1>4, <1>5 DEF ReplicaInv, FilesTyped
<1>7. Histories'
  BY <1>1, <1>4, <1>5 DEF ReplicaInv, Histories
<1>8. Issued' = Issued
  BY <1>4 DEF Issued
<1>9. Baselines'
  <2> SUFFICES ASSUME NEW e \in Devices
               PROVE  /\ IsFiniteSet(snapshots'[e])
                      /\ \A r \in snapshots'[e] : Baseline(r) /\ r.applied \subseteq Issued
    BY <1>8 DEF Baselines
  <2>1. IsFiniteSet(snapshots[e])
        /\ \A r \in snapshots[e] : Baseline(r) /\ r.applied \subseteq Issued
    BY DEF ReplicaInv, Baselines
  <2>2. CASE e = d
    <3>1. IsFiniteSet(snapshots[d] \cup {s})
      BY <2>1, <2>2, FS_AddElement
    <3> QED
      BY <1>3, <1>5, <2>1, <2>2, <3>1
  <2>3. CASE e # d
    BY <1>5, <2>1, <2>3
  <2> QED
    BY <2>2, <2>3
<1>10. (Origins /\ ParentsBefore)'
  BY <1>4, <1>8 DEF ReplicaInv, Origins, ParentsBefore
<1>11. Listed'
  BY <1>4 DEF ReplicaInv, Listed
<1> QED
  BY <1>6, <1>7, <1>9, <1>10, <1>11 DEF ReplicaInv

LEMMA SessionFacts ==
    ASSUME ReplicaInv, NEW d \in Devices, session[d] # None
    PROVE  /\ session[d] \in Session /\ session[d].to \in Devices
           /\ session[d].queue # {} /\ session[d].queue \subseteq pending[d]
           /\ pending[d] \subseteq operations[d]
           /\ Current(d) \in session[d].queue
           /\ Current(d) \in Issued /\ Current(d) \in Operations
<1>1. session[d] \in Session
  BY DEF ReplicaInv, FilesTyped
<1>2. /\ session[d].queue # {} /\ session[d].queue \subseteq pending[d]
      /\ pending[d] \subseteq operations[d]
  BY DEF ReplicaInv, Listed
<1>3. session[d].queue \in SUBSET Operations /\ session[d].to \in Devices
  BY <1>1 DEF Session
<1>4. Distinct(session[d].queue)
  BY <1>2, HistoryReadable DEF Readable, Distinct
<1>5. Current(d) \in session[d].queue
  BY <1>2, <1>3, <1>4, EarliestIs DEF Current
<1>6. Current(d) \in Issued
  BY <1>2, <1>5 DEF Issued
<1> QED
  BY <1>1, <1>2, <1>3, <1>5, <1>6

\* A session ends, begins or goes on; the others stay as they are.
LEMMA ByStartSession ==
    ASSUME ReplicaInv, NEW d \in Devices, NEW e \in Devices, StartSession(d, e)
    PROVE  ReplicaInv'
<1> DEFINE new == [to |-> e, queue |-> pending[d], sent |-> FALSE]
<1>1. /\ pending[d] # {} /\ session' = [session EXCEPT ![d] = new]
      /\ UNCHANGED <<operations, snapshots, pending>>
  BY DEF StartSession
<1>2. /\ session \in [Devices -> Session \cup {None}]
      /\ pending[d] \in SUBSET Operations
  BY DEF ReplicaInv, FilesTyped
<1>3. new \in Session /\ new.queue = pending[d]
  BY <1>2 DEF Session
<1> HIDE DEF new
<1>4. /\ session' \in [Devices -> Session \cup {None}] /\ session'[d] = new
      /\ \A c \in Devices : c # d => session'[c] = session[c]
  BY <1>1, <1>2, <1>3
<1>5. FilesTyped'
  BY <1>1, <1>4 DEF ReplicaInv, FilesTyped
<1>6. Listed'
  BY <1>1, <1>3, <1>4 DEF ReplicaInv, Listed
<1> QED
  BY <1>1, <1>5, <1>6, Frame DEF ReplicaInv

LEMMA BySendNext ==
    ASSUME ReplicaInv, NEW d \in Devices, SendNext(d)
    PROVE  ReplicaInv'
<1> DEFINE op == Current(d)
           to == session[d].to
<1>1. /\ session[d] # None /\ UNCHANGED <<snapshots, pending>>
      /\ session \in [Devices -> Session \cup {None}]
  BY DEF SendNext, ReplicaInv, FilesTyped
<1>2. /\ session[d] \in Session /\ to \in Devices /\ op \in Issued /\ op \in Operations
  BY <1>1, SessionFacts
<1>3. /\ operations' \in [Devices -> SUBSET Operations]
      /\ \A e \in Devices : operations[e] \subseteq operations'[e]
      /\ (Histories /\ Baselines /\ Origins /\ ParentsBefore)'
  <2>1. CASE UNCHANGED operations
    <3>1. UNCHANGED <<operations, snapshots>>
      BY <1>1, <2>1
    <3> QED
      BY <2>1, <3>1, Frame DEF ReplicaInv, FilesTyped
  <2>2. CASE Ingests(to, op) /\ operations' = [operations EXCEPT ![to] = @ \cup {op}]
    <3> HIDE DEF op, to
    <3> QED
      BY <1>1, <1>2, <2>2, Gains
  <2> QED
    BY <2>1, <2>2 DEF SendNext
<1>4. session' = [session EXCEPT ![d].sent = TRUE] \/ session' = [session EXCEPT ![d] = None]
  BY DEF SendNext
<1>5. \A c \in Devices : c # d => session'[c] = session[c]
  BY <1>1, <1>4
<1>6. session'[d] # None => session'[d] = [session[d] EXCEPT !.sent = TRUE]
  BY <1>1, <1>4
<1>7. [session[d] EXCEPT !.sent = TRUE] \in Session
      /\ [session[d] EXCEPT !.sent = TRUE].queue = session[d].queue
  BY <1>2 DEF Session
<1>8. session' \in [Devices -> Session \cup {None}]
  BY <1>1, <1>4, <1>7
<1>9. FilesTyped'
  BY <1>1, <1>3, <1>8 DEF ReplicaInv, FilesTyped
<1>10. Listed'
  BY <1>1, <1>3, <1>5, <1>6, <1>7 DEF ReplicaInv, Listed
<1> QED
  BY <1>3, <1>9, <1>10 DEF ReplicaInv

LEMMA ByConfirmSent ==
    ASSUME ReplicaInv, NEW d \in Devices, ConfirmSent(d)
    PROVE  ReplicaInv'
<1> DEFINE rest == session[d].queue \ {Current(d)}
           next == [to |-> session[d].to, queue |-> rest, sent |-> FALSE]
<1>1. /\ session[d] # None /\ UNCHANGED <<operations, snapshots>>
      /\ pending' = [pending EXCEPT ![d] = @ \ {Current(d)}]
      /\ session' = [session EXCEPT ![d] =
            IF session[d].queue = {Current(d)} THEN None ELSE next]
  BY DEF ConfirmSent
<1>2. /\ pending \in [Devices -> SUBSET Operations]
      /\ session \in [Devices -> Session \cup {None}]
  BY DEF ReplicaInv, FilesTyped
<1>3. /\ session[d] \in Session /\ session[d].to \in Devices
      /\ session[d].queue # {} /\ session[d].queue \subseteq pending[d]
  BY <1>1, SessionFacts
<1>4. next \in Session /\ next.queue = rest
  BY <1>3 DEF Session
<1>5. session[d].queue # {Current(d)} => rest # {}
  BY <1>3
<1>6. /\ pending' \in [Devices -> SUBSET Operations] /\ pending'[d] = pending[d] \ {Current(d)}
      /\ \A c \in Devices : c # d => pending'[c] = pending[c]
  BY <1>1, <1>2
<1>7. rest \subseteq pending'[d]
  BY <1>3, <1>6
<1> HIDE DEF next, rest
<1>8. /\ session' \in [Devices -> Session \cup {None}]
      /\ \A c \in Devices : c # d => session'[c] = session[c]
      /\ session'[d] # None => session'[d] = next /\ session[d].queue # {Current(d)}
  BY <1>1, <1>2, <1>4
<1>9. FilesTyped'
  BY <1>1, <1>6, <1>8 DEF ReplicaInv, FilesTyped
<1>10. Listed'
  BY <1>1, <1>4, <1>5, <1>6, <1>7, <1>8 DEF ReplicaInv, Listed
<1> QED
  BY <1>1, <1>9, <1>10, Frame DEF ReplicaInv

LEMMA ByCrash ==
    ASSUME ReplicaInv, NEW d \in Devices, Crash(d)
    PROVE  ReplicaInv'
<1>1. /\ UNCHANGED <<operations, snapshots, pending>>
      /\ session' = [session EXCEPT ![d] = None]
      /\ session \in [Devices -> Session \cup {None}]
  BY DEF Crash, ReplicaInv, FilesTyped
<1>2. FilesTyped'
  BY <1>1 DEF ReplicaInv, FilesTyped
<1>3. Listed'
  BY <1>1 DEF ReplicaInv, Listed
<1> QED
  BY <1>1, <1>2, <1>3, Frame DEF ReplicaInv

LEMMA ReplicaNext ==
    ASSUME DigestsAreNumbers, ReplicaInv, [Next]_vars
    PROVE  ReplicaInv'
<1>1. ASSUME NEW d \in Devices, NEW op \in Operations, QueueLocal(d, op)
      PROVE  ReplicaInv'
  BY <1>1, ByQueueLocal
<1>2. ASSUME NEW d \in Devices, NEW op \in Issued, IngestRemote(d, op)
      PROVE  ReplicaInv'
  BY <1>2, ByIngestRemote
<1>3. ASSUME NEW d \in Devices, MergeSnapshot(d)
      PROVE  ReplicaInv'
  BY <1>3, ByMergeSnapshot
<1>4. ASSUME NEW d \in Devices, Synchronize(d)
      PROVE  ReplicaInv'
  BY <1>4, ByStartSession, BySendNext, ByConfirmSent DEF Synchronize
<1>5. ASSUME NEW d \in Devices, Crash(d)
      PROVE  ReplicaInv'
  BY <1>5, ByCrash
<1>6. CASE UNCHANGED vars
  <2>1. UNCHANGED <<operations, snapshots, pending, session>>
    BY <1>6 DEF vars
  <2>2. (FilesTyped /\ Listed)'
    BY <2>1 DEF ReplicaInv, FilesTyped, Listed
  <2> QED
    BY <2>1, <2>2, Frame DEF ReplicaInv
<1> QED
  BY <1>1, <1>2, <1>3, <1>4, <1>5, <1>6 DEF Next

\* The inductive invariant: files and lists fit together, every snapshot is
\* sound and made of issued operations, and edits come after what they edit.
THEOREM Invariance ==
    ASSUME DigestsAreNumbers
    PROVE  Spec => []ReplicaInv
<1>1. Init => ReplicaInv
  BY ReplicaInit
<1>2. ReplicaInv /\ [Next]_vars => ReplicaInv'
  BY ReplicaNext
<1> QED
  BY <1>1, <1>2, PTL DEF Spec

\* A replica's file only grows.
LEMMA StepsGrow ==
    ASSUME ReplicaInv, [Next]_vars, NEW d \in Devices
    PROVE  operations[d] \subseteq operations'[d] /\ snapshots[d] \subseteq snapshots'[d]
<1> DEFINE Gained == \E c \in Devices, p \in Operations :
                        operations' = [operations EXCEPT ![c] = @ \cup {p}]
<1>1. /\ operations \in [Devices -> SUBSET Operations]
      /\ snapshots \in [Devices -> SUBSET Collections]
  BY DEF ReplicaInv, FilesTyped
<1>2. \/ UNCHANGED operations
      \/ Gained
  <2>1. ASSUME NEW e \in Devices, NEW op \in Operations, QueueLocal(e, op)
        PROVE  Gained
    BY <2>1 DEF QueueLocal
  <2>2. ASSUME NEW e \in Devices, NEW op \in Issued, IngestRemote(e, op)
        PROVE  Gained
    BY <2>2, HistoryReadable DEF IngestRemote
  <2>3. ASSUME NEW e \in Devices, SendNext(e)
        PROVE  \/ UNCHANGED operations
               \/ Gained
    <3>1. session[e] # None
      BY <2>3 DEF SendNext
    <3>2. session[e].to \in Devices /\ Current(e) \in Operations
      BY <3>1, SessionFacts
    <3> QED
      BY <2>3, <3>2 DEF SendNext
  <2> QED
    BY <2>1, <2>2, <2>3
    DEF Next, Synchronize, MergeSnapshot, StartSession, ConfirmSent, Crash, vars
<1>3. \/ UNCHANGED snapshots
      \/ \E e \in Devices : \E s : snapshots' = [snapshots EXCEPT ![e] = @ \cup {s}]
  BY DEF Next, QueueLocal, IngestRemote, MergeSnapshot, Synchronize, StartSession, SendNext,
         ConfirmSent, Crash, vars
<1>4. operations[d] \subseteq operations'[d]
  BY <1>1, <1>2
<1>5. snapshots[d] \subseteq snapshots'[d]
  BY <1>1, <1>3
<1> QED
  BY <1>4, <1>5
-----------------------------------------------------------------------------
(***************************************************************************)
(* What it means for users.                                                *)
(***************************************************************************)
\* TypeOK: a replica's file passes the checks of _load_convergent_replica after
\* every change, and a session sends only what its device still has pending.
THEOREM TypeCorrect ==
    ASSUME DigestsAreNumbers
    PROVE  Spec => []TypeOK
<1>1. ReplicaInv => TypeOK
  <2> SUFFICES ASSUME ReplicaInv PROVE TypeOK
    OBVIOUS
  <2>1. \A d \in Devices : \A s \in snapshots[d] :
           SnapshotAdmitted(s) /\ s.applied \subseteq Operations
    BY SoundFacts DEF ReplicaInv, Baselines
  <2>2. operations \in [Devices -> SUBSET Operations]
    BY DEF ReplicaInv, FilesTyped
  <2> QED
    BY <2>1, <2>2 DEF ReplicaInv, Listed, Histories, TypeOK
<1> QED
  BY <1>1, Invariance, PTL

\* DeletionIsFinal: whatever arrives, late or again, _resolve_convergent_records
\* never turns a deletion into anything else.
THEOREM DeletionsStay ==
    ASSUME DigestsAreNumbers
    PROVE  Spec => DeletionIsFinal
<1>1. ASSUME ReplicaInv, ReplicaInv', [Next]_vars, NEW d \in Devices, NEW o \in Objects,
             Deleted(d, o)
      PROVE  Deleted(d, o)'
  <2>1. operations[d] \subseteq operations'[d] /\ snapshots[d] \subseteq snapshots'[d]
    BY <1>1, StepsGrow
  <2>2. HasDeletion(operations[d], snapshots[d], o)
    BY <1>1, HistoryReadable, RecordFacts DEF Deleted, Record
  <2>3. HasDeletion(operations'[d], snapshots'[d], o)
    BY <2>1, <2>2 DEF HasDeletion
  <2>4. Readable(operations'[d], snapshots'[d])
    BY <1>1 DEF ReplicaInv, FilesTyped, Histories, ValidHistory, NoAlias, Receipts, Distinct,
                Baselines, Readable
  <2> QED
    BY <2>3, <2>4, RecordFacts DEF Deleted, Record
<1>2. ReplicaInv /\ ReplicaInv' /\ [Next]_vars
      => [\A d \in Devices, o \in Objects : Deleted(d, o) => Deleted(d, o)']_vars
  BY <1>1
<1> QED
  BY <1>2, Invariance, PTL DEF Spec, DeletionIsFinal

\* NoStaleWinner: without snapshots, no accepted edit loses to the revision it
\* was made on.
THEOREM NoEditLoses ==
    ASSUME DigestsAreNumbers
    PROVE  Spec => []NoStaleWinner
<1>1. ReplicaInv => NoStaleWinner
  <2> SUFFICES ASSUME ReplicaInv, NEW d \in Devices, NEW o \in Objects,
                      snapshots[d] = {}, Record(d, o) # None, ~Record(d, o).tombstone,
                      NEW p \in operations[d], p.envelope.object = o,
                      p.envelope.parent = Record(d, o).revision
               PROVE  FALSE
    BY DEF NoStaleWinner
  <2> DEFINE E == Explicit(operations[d], snapshots[d], o)
             w == Latest(E)
  <2>1. /\ Readable(operations[d], snapshots[d]) /\ Issued \subseteq Operations
        /\ \A e \in Devices : NoAlias(operations[e], snapshots[e])
    BY HistoryReadable
  <2>2. ~HasDeletion(operations[d], snapshots[d], o)
    BY <2>1, RecordFacts DEF Record
  <2>3. p \in E /\ \A q \in E : q \in operations[d]
    BY <2>2 DEF Explicit
  <2>4. E \in SUBSET Operations /\ Distinct(E)
    BY <2>1, <2>3 DEF Readable, Distinct
  <2> HIDE DEF E
  <2>5. w \in E /\ \A q \in E \ {w} : Before(q, w)
    BY <2>3, <2>4, LatestIs
  <2>6. Record(d, o) = w.envelope
    BY <2>3, ResolveIs DEF Record, E
  <2> HIDE DEF w
  <2>7. w \in Issued /\ p \in Issued /\ w \in Operations /\ p \in Operations
    BY <2>1, <2>3, <2>5 DEF Issued
  <2>8. p.envelope.parent = w.envelope.revision /\ p.envelope.parent # None
    BY <2>6, <2>7, Fields
  <2>9. PICK q \in Issued : /\ q.envelope.revision = w.envelope.revision
                            /\ q.lamport < p.lamport
    BY <2>7, <2>8 DEF ReplicaInv, ParentsBefore
  <2>10. q = w
    <3>1. q.author = w.author /\ q.sequence = w.sequence
      BY <2>1, <2>7, <2>9, RevisionsAssumption
    <3>2. q \in operations[w.author] /\ w \in operations[w.author] /\ w.author \in Devices
      BY <2>7, <3>1, Fields DEF ReplicaInv, Origins
    <3> QED
      BY <2>1, <3>1, <3>2 DEF NoAlias, Receipts
  <2>11. p.lamport <= w.lamport
    <3>1. CASE p = w
      BY <2>7, <3>1, Fields
    <3>2. CASE p # w
      BY <2>3, <2>5, <2>7, <3>2, TotalOrder
    <3> QED
      BY <3>1, <3>2
  <2> QED
    BY <2>7, <2>9, <2>10, <2>11, Fields
<1> QED
  BY <1>1, Invariance, PTL

\* NewestBaselineWins: _snapshot_dominates picks the snapshot that contains all
\* the others, whatever its digest.
THEOREM NewestWins ==
    ASSUME DigestsAreNumbers
    PROVE  Spec => []NewestBaselineWins
<1>1. ReplicaInv => NewestBaselineWins
  <2> SUFFICES ASSUME ReplicaInv, NEW d \in Devices, NEW o \in Objects,
                      NEW s \in snapshots[d],
                      \A t \in snapshots[d] : t.applied \subseteq s.applied,
                      \A p \in operations[d] : p.envelope.object # o,
                      s.records[o] # None,
                      \A e \in SnapshotEnvelopes(snapshots[d]) : e.object = o => ~e.tombstone
               PROVE  Record(d, o) = s.records[o]
    BY DEF NewestBaselineWins
  <2> DEFINE K == Kept(operations[d], snapshots[d], o)
             c == ChosenSnapshot(K)
  <2>1. Readable(operations[d], snapshots[d])
    BY HistoryReadable
  <2>2. ~HasDeletion(operations[d], snapshots[d], o)
    <3> SUFFICES ASSUME NEW t \in snapshots[d], t.records[o] # None, t.records[o].tombstone
                 PROVE  FALSE
      BY DEF HasDeletion
    <3>1. t.records[o] \in SnapshotEnvelopes(snapshots[d])
      BY DEF SnapshotEnvelopes
    <3>2. t.records[o].object = o
      BY <2>1, SoundFacts DEF Readable
    <3> QED
      BY <3>1, <3>2
  <2>3. Explicit(operations[d], snapshots[d], o) = {}
    BY DEF Explicit
  <2>4. s \in K /\ K \in SUBSET snapshots[d]
    BY <2>2 DEF Kept
  <2> HIDE DEF K
  <2>5. IsFiniteSet(K) /\ \A t \in K : Baseline(t)
    BY <2>1, <2>4, FS_Subset DEF Readable
  <2>6. c \in K /\ ~\E t \in K \ {c} : Dominates(t, c)
    BY <2>4, <2>5, ChosenIs
  <2>7. Record(d, o) = c.records[o]
    BY <2>3, <2>4, ResolveIs DEF Record, K
  <2> HIDE DEF c
  <2>8. c = s
    <3> SUFFICES ASSUME c # s PROVE FALSE
      OBVIOUS
    <3>1. Dominates(s, c)
      BY <2>4, <2>5, <2>6, LargerDominates
    <3> QED
      BY <2>4, <2>6, <3>1
  <2> QED
    BY <2>7, <2>8
<1> QED
  BY <1>1, Invariance, PTL
=============================================================================
