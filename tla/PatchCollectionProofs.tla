------------------------ MODULE PatchCollectionProofs ------------------------
(***************************************************************************)
(* Theorems about patch collections, for any operations of any devices: a  *)
(* collection always loads, and it is the log of what was appended to it.  *)
(*                                                                         *)
(* What a replay is worth is a predicate of it alone (Sound), kept by each *)
(* operation applied, hence by the replay of any tail: the induction is    *)
(* over the tail's length, by its least counterexample.                    *)
(***************************************************************************)
EXTENDS PatchCollection, FiniteSetTheorems, FunctionTheorems, SequenceTheorems,
        WellFoundedInduction, TLAPS

By(ops, d) == {p \in ops : p.author = d}
On(ops, o) == {p \in ops : p.envelope.object = o}
Last(ops, p) == p \in ops /\ \A q \in ops \ {p} : Before(q, p)

\* A replay of some operations, in the order of their keys: each author's are
\* whole and owned once, each record is the last envelope of its object.
Sound(r) ==
    /\ r \in Collections
    /\ Cardinality(r.applied) <= MaximumOperations
    /\ \A p, q \in r.applied :
          p.id = q.id \/ SequenceKey(p) = SequenceKey(q) => p = q
    /\ \A o \in Objects :
          \/ On(r.applied, o) = {} /\ r.records[o] = None
          \/ \E p : Last(On(r.applied, o), p) /\ r.records[o] = p.envelope
    /\ \A d \in Devices :
          /\ {p.sequence : p \in By(r.applied, d)} = 1 .. r.sequences[d]
          /\ Cardinality(By(r.applied, d)) = r.sequences[d]
    /\ DOMAIN r.owners = {SequenceKey(p) : p \in r.applied}
    /\ \A p \in r.applied : r.owners[SequenceKey(p)] = p.id
    /\ \/ r.applied = {} /\ r.lastOrder = None
       \/ \E p : Last(r.applied, p) /\ r.lastOrder = OrderKey(p)

\* Replaying ops on base has one result.
Steps(base, ops, f) ==
    f = [n \in 0 .. Len(ops) |-> IF n = 0 THEN base ELSE Apply(f[n - 1], ops[n])]
Determined(base, ops) == \A g : Steps(base, ops, g) <=> g = Replays(base, ops)

Ordered ==
    /\ \A i, j \in 1 .. Len(tail) : i < j => Before(tail[i], tail[j])
    /\ \A i, j \in 1 .. Len(tail) : i # j => tail[i].id # tail[j].id
    /\ \A i \in 1 .. Len(tail) : tail[i] \in Replay.applied

PatchInv ==
    /\ tail \in Seq(Operations)
    /\ Replayable(Loaded, tail)
    /\ snapshot # None => Sound(snapshot) /\ snapshot.applied # {}
    /\ Ordered
-----------------------------------------------------------------------------
(***************************************************************************)
(* The total order.                                                        *)
(***************************************************************************)
LEMMA Fields ==
    ASSUME NEW p \in Operations
    PROVE  /\ p.id \in Nat /\ p.author \in Devices /\ p.author \in Nat
           /\ p.sequence \in Nat \ {0} /\ p.lamport \in Nat \ {0}
           /\ p.envelope \in Envelope /\ p.envelope.object \in Objects
           /\ p.envelope.revision \in Revisions /\ p.envelope # None
           /\ p.envelope.revision # None
           /\ OrderKey(p) \in OrderKeys /\ OrderKey(p) # None
<1>1. p \in Operation /\ Devices \subseteq Nat
      /\ None \notin Revisions \cup Envelope \cup OrderKeys
  BY OperationsAssumption
<1>2. /\ p.id \in Nat /\ p.author \in Devices /\ p.author \in Nat
      /\ p.sequence \in Nat \ {0} /\ p.lamport \in Nat \ {0} /\ p.envelope \in Envelope
  BY <1>1 DEF Operation
<1>3. p.envelope.object \in Objects /\ p.envelope.revision \in Revisions
  BY <1>2 DEF Envelope
<1>4. OrderKey(p) \in OrderKeys
  BY <1>2 DEF OrderKey, OrderKeys
<1> QED
  BY <1>1, <1>2, <1>3, <1>4

LEMMA KeysOf ==
    ASSUME NEW p \in Operations
    PROVE  /\ OrderKey(p)[1] = p.lamport /\ OrderKey(p)[2] = p.author
           /\ OrderKey(p)[3] = p.sequence /\ OrderKey(p)[4] = p.id
           /\ p.lamport \in Nat /\ p.author \in Nat /\ p.sequence \in Nat /\ p.id \in Nat
BY Fields DEF OrderKey

LEMMA BeforeOrders ==
    ASSUME NEW p \in Operations, NEW q \in Operations, NEW r \in Operations
    PROVE  /\ ~Before(p, p)
           /\ Before(p, q) => ~Before(q, p)
           /\ Before(p, q) /\ Before(q, r) => Before(p, r)
<1>1. \A x, y \in {p, q, r} : Before(x, y) <=>
          \/ x.lamport < y.lamport
          \/ x.lamport = y.lamport /\ x.author < y.author
          \/ x.lamport = y.lamport /\ x.author = y.author /\ x.sequence < y.sequence
          \/ x.lamport = y.lamport /\ x.author = y.author /\ x.sequence = y.sequence
             /\ x.id < y.id
  BY KeysOf DEF Before, KeyBelow
<1>2. \A x \in {p, q, r} : /\ x.lamport \in Nat /\ x.author \in Nat
                           /\ x.sequence \in Nat /\ x.id \in Nat
  BY KeysOf
<1>3. ~Before(p, p)
  BY <1>1, <1>2
<1>4. Before(p, q) => ~Before(q, p)
  BY <1>1, <1>2
<1>5. Before(p, q) /\ Before(q, r) => Before(p, r)
  BY <1>1, <1>2
<1> QED
  BY <1>3, <1>4, <1>5

\* At most one operation is the last.
LEMMA LastIsOne ==
    ASSUME NEW ops \in SUBSET Operations, NEW p, NEW q, Last(ops, p), Last(ops, q)
    PROVE  p = q
<1> SUFFICES ASSUME p # q PROVE FALSE
  OBVIOUS
<1>1. p \in Operations /\ q \in Operations /\ Before(p, q) /\ Before(q, p)
  BY DEF Last
<1> QED
  BY <1>1, BeforeOrders
-----------------------------------------------------------------------------
(***************************************************************************)
(* Replaying a sequence.                                                   *)
(***************************************************************************)
LEMMA ReplaysDetermined ==
    ASSUME NEW base, NEW ops, NEW f,
           Steps(base, ops, f), \A g : Steps(base, ops, g) => g = f
    PROVE  Determined(base, ops) /\ Replays(base, ops) = f
<1>1. Replays(base, ops) = CHOOSE g : Steps(base, ops, g)
  BY DEF Replays, Steps
<1>2. Steps(base, ops, CHOOSE g : Steps(base, ops, g))
  OBVIOUS
<1>3. Replays(base, ops) = f
  BY <1>1, <1>2
<1>4. \A g : Steps(base, ops, g) <=> g = f
  OBVIOUS
<1> QED
  BY <1>3, <1>4 DEF Determined

LEMMA NothingToReplay ==
    ASSUME NEW base
    PROVE  /\ Determined(base, <<>>)
           /\ Replays(base, <<>>)[0] = base /\ Replayed(base, <<>>) = base
<1> DEFINE f == [n \in {0} |-> base]
<1>1. Len(<<>>) = 0 /\ 0 .. 0 = {0}
  BY EmptySeq
<1>2. \A g : Steps(base, <<>>, g) <=> g = f
  <2> TAKE g
  <2>1. Steps(base, <<>>, g) <=> g = [n \in {0} |-> IF n = 0 THEN base
                                                    ELSE Apply(g[n - 1], <<>>[n])]
    BY <1>1 DEF Steps
  <2>2. [n \in {0} |-> IF n = 0 THEN base ELSE Apply(g[n - 1], <<>>[n])] = f
    OBVIOUS
  <2> QED
    BY <2>1, <2>2
<1>3. Determined(base, <<>>) /\ Replays(base, <<>>) = f
  <2> HIDE DEF f
  <2> QED
    BY <1>2, ReplaysDetermined
<1> QED
  BY <1>1, <1>3 DEF Replayed

\* Appending an operation changes no earlier step of a replay, and adds one.
LEMMA OneMore ==
    ASSUME NEW base, NEW S, NEW ops \in Seq(S), NEW op \in S, Determined(base, ops)
    PROVE  /\ Determined(base, Append(ops, op))
           /\ \A n \in 0 .. Len(ops) :
                 Replays(base, Append(ops, op))[n] = Replays(base, ops)[n]
           /\ Replays(base, Append(ops, op))[Len(ops) + 1] = Apply(Replayed(base, ops), op)
           /\ Replayed(base, Append(ops, op)) = Apply(Replayed(base, ops), op)
<1> DEFINE m == Len(ops)
           more == Append(ops, op)
           f == Replays(base, ops)
           f1 == [n \in 0 .. (m + 1) |-> IF n = m + 1 THEN Apply(f[m], op) ELSE f[n]]
<1>1. m \in Nat /\ Len(more) = m + 1 /\ more[m + 1] = op
      /\ \A n \in 1 .. m : more[n] = ops[n]
  BY AppendProperties, LenProperties
<1>2. Steps(base, ops, f) /\ \A g : Steps(base, ops, g) => g = f
  BY DEF Determined, f
<1>3. f = [n \in 0 .. m |-> IF n = 0 THEN base ELSE Apply(f[n - 1], ops[n])]
  BY <1>2 DEF Steps
<1> HIDE DEF m, more, f
<1>4. Steps(base, more, f1)
  <2> DEFINE h == [n \in 0 .. (m + 1) |-> IF n = 0 THEN base ELSE Apply(f1[n - 1], more[n])]
  <2>1. ASSUME NEW n \in 0 .. (m + 1) PROVE f1[n] = h[n]
    <3>1. CASE n = 0
      <4>1. f1[0] = f[0] /\ f[0] = base
        BY <1>1, <1>3
      <4>2. h[0] = base
        BY <1>1
      <4> QED
        BY <3>1, <4>1, <4>2
    <3>2. CASE n \in 1 .. m
      <4>1. n \in 0 .. m /\ n - 1 \in 0 .. m /\ n - 1 \in 0 .. (m + 1)
            /\ n # m + 1 /\ n - 1 # m + 1 /\ n # 0
        BY <1>1, <3>2
      <4>2. f1[n] = f[n] /\ f1[n - 1] = f[n - 1]
        BY <2>1, <4>1
      <4>3. f[n] = Apply(f[n - 1], ops[n])
        BY <1>3, <4>1
      <4>4. h[n] = Apply(f1[n - 1], more[n])
        BY <2>1, <4>1
      <4> QED
        BY <1>1, <3>2, <4>2, <4>3, <4>4
    <3>3. CASE n = m + 1
      <4>1. m \in 0 .. (m + 1) /\ m + 1 \in 0 .. (m + 1) /\ m # m + 1 /\ m + 1 # 0
            /\ (m + 1) - 1 = m
        BY <1>1
      <4>2. f1[m + 1] = Apply(f[m], op) /\ f1[m] = f[m]
        BY <4>1
      <4>3. h[m + 1] = Apply(f1[m], more[m + 1])
        BY <4>1
      <4> QED
        BY <1>1, <3>3, <4>2, <4>3
    <3> QED
      BY <1>1, <3>1, <3>2, <3>3
  <2>2. DOMAIN f1 = 0 .. (m + 1) /\ DOMAIN h = 0 .. (m + 1)
        /\ f1 = [n \in 0 .. (m + 1) |-> f1[n]] /\ h = [n \in 0 .. (m + 1) |-> h[n]]
    OBVIOUS
  <2> HIDE DEF f1
  <2>3. h = [n \in 0 .. (m + 1) |-> IF n = 0 THEN base ELSE Apply(f1[n - 1], more[n])]
    OBVIOUS
  <2> HIDE DEF h
  <2>4. f1 = h
    BY <2>1, <2>2
  <2> QED
    BY <1>1, <2>3, <2>4 DEF Steps
<1>5. ASSUME NEW g, Steps(base, more, g)
      PROVE  g = f1
  <2>1. g = [n \in 0 .. (m + 1) |-> IF n = 0 THEN base ELSE Apply(g[n - 1], more[n])]
    BY <1>1, <1>5 DEF Steps
  <2> DEFINE e == [n \in 0 .. m |-> g[n]]
             e1 == [n \in 0 .. m |-> IF n = 0 THEN base ELSE Apply(e[n - 1], ops[n])]
  <2>2. ASSUME NEW n \in 0 .. m PROVE e[n] = e1[n]
    <3>1. n \in 0 .. (m + 1) /\ (n # 0 => n - 1 \in 0 .. m /\ n \in 1 .. m)
      BY <1>1
    <3>2. e[n] = IF n = 0 THEN base ELSE Apply(g[n - 1], more[n])
      BY <2>1, <3>1
    <3>3. n # 0 => e[n - 1] = g[n - 1] /\ more[n] = ops[n]
      BY <1>1, <3>1
    <3> QED
      BY <3>2, <3>3
  <2>3. e1 = [n \in 0 .. m |-> IF n = 0 THEN base ELSE Apply(e[n - 1], ops[n])]
        /\ DOMAIN e = 0 .. m /\ e = [n \in 0 .. m |-> e[n]]
        /\ \A n \in 0 .. m : e[n] = g[n]
    OBVIOUS
  <2>4. DOMAIN e1 = 0 .. m /\ e1 = [n \in 0 .. m |-> e1[n]]
    OBVIOUS
  <2> HIDE DEF e, e1
  <2>5. e = e1
    BY <2>2, <2>3, <2>4
  <2>6. e = f
    BY <1>2, <2>3, <2>5 DEF Steps, m
  <2>7. g[m + 1] = Apply(g[m], op)
    <3>1. m + 1 \in 0 .. (m + 1) /\ m + 1 # 0 /\ (m + 1) - 1 = m
      BY <1>1
    <3> QED
      BY <1>1, <2>1, <3>1
  <2>8. ASSUME NEW n \in 0 .. (m + 1) PROVE g[n] = f1[n]
    <3>1. n \in 0 .. m \/ n = m + 1
      BY <1>1
    <3>2. m \in 0 .. m /\ \A k \in 0 .. m : k # m + 1
      BY <1>1
    <3> QED
      BY <2>3, <2>6, <2>7, <2>8, <3>1, <3>2
  <2>9. DOMAIN g = 0 .. (m + 1) /\ g = [n \in 0 .. (m + 1) |-> g[n]]
    BY <2>1
  <2>10. DOMAIN f1 = 0 .. (m + 1) /\ f1 = [n \in 0 .. (m + 1) |-> f1[n]]
    OBVIOUS
  <2> HIDE DEF f1
  <2> QED
    BY <2>8, <2>9, <2>10
<1>6. Determined(base, more) /\ Replays(base, more) = f1
  <2> HIDE DEF f1
  <2>1. \A g : Steps(base, more, g) => g = f1
    BY <1>5
  <2> QED
    BY <1>4, <2>1, ReplaysDetermined
<1>8. \A n \in 0 .. m : n \in 0 .. (m + 1) /\ n # m + 1
  BY <1>1
<1>9. m + 1 \in 0 .. (m + 1)
  BY <1>1
<1>10. Replayed(base, ops) = f[m]
  BY DEF Replayed, f, m
<1>11. (\A n \in 0 .. m : f1[n] = f[n]) /\ f1[m + 1] = Apply(f[m], op)
  BY <1>8, <1>9
<1>12. Replayed(base, more) = f1[m + 1]
  BY <1>1, <1>6 DEF Replayed
<1> QED
  BY <1>6, <1>10, <1>11, <1>12 DEF m, more, f

\* A set of numbers has a least one: the principle behind every induction here.
LEMMA Least ==
    ASSUME NEW S \in SUBSET Nat, S # {}
    PROVE  \E n \in S : \A m \in S : n <= m
<1> DEFINE R == OpToRel(<, Nat)
<1>1. IsWellFoundedOn(R, Nat)
  BY NatLessThanWellFounded
<1>2. \A x, y \in Nat : <<x, y>> \in R <=> x < y
  BY DEF OpToRel
<1> HIDE DEF R
<1>3. PICK x \in S : \A y \in S : ~(<<y, x>> \in R)
  BY <1>1, WFMin
<1>4. \A y \in S : ~(y < x)
  BY <1>2, <1>3
<1>5. \A y \in S : x <= y
  BY <1>4
<1> QED
  BY <1>5

\* Replays, defined recursively, has exactly one value on every sequence.
LEMMA AlwaysDetermined ==
    ASSUME NEW base, NEW S, NEW ops \in Seq(S)
    PROVE  Determined(base, ops)
<1> DEFINE wrong == {n \in Nat : \E q \in Seq(S) : Len(q) = n /\ ~Determined(base, q)}
<1> SUFFICES ASSUME wrong # {} PROVE FALSE
  <2>1. Len(ops) \in Nat
    BY LenProperties
  <2> QED
    BY <2>1
<1>1. PICK n \in wrong : \A m \in wrong : n <= m
  <2> HIDE DEF wrong
  <2>1. wrong \in SUBSET Nat
    BY DEF wrong
  <2> QED
    BY <2>1, Least
<1>2. PICK q \in Seq(S) : Len(q) = n /\ ~Determined(base, q)
  OBVIOUS
<1>3. q # <<>>
  BY <1>2, NothingToReplay
<1>4. PICK p \in Seq(S), e \in S : q = Append(p, e)
  BY <1>3, SequenceEmptyOrAppend
<1>5. Len(p) \in Nat /\ Len(q) = Len(p) + 1
  BY <1>4, LenProperties, AppendProperties
<1>6. Determined(base, p)
  <2>1. ~(n <= Len(p))
    BY <1>2, <1>5
  <2>2. Len(p) \notin wrong
    BY <1>1, <2>1
  <2> QED
    BY <1>5, <2>2
<1> QED
  BY <1>2, <1>4, <1>6, OneMore

\* A replay starts from its base and applies its operations in turn.
LEMMA InTurn ==
    ASSUME NEW base, NEW S, NEW ops \in Seq(S)
    PROVE  /\ Replays(base, ops)[0] = base
           /\ \A n \in 1 .. Len(ops) :
                 Replays(base, ops)[n] = Apply(Replays(base, ops)[n - 1], ops[n])
<1> DEFINE f == Replays(base, ops)
<1>1. Steps(base, ops, f)
  BY AlwaysDetermined DEF Determined
<1>2. f = [n \in 0 .. Len(ops) |-> IF n = 0 THEN base ELSE Apply(f[n - 1], ops[n])]
  BY <1>1 DEF Steps
<1>3. Len(ops) \in Nat
  BY LenProperties
<1> HIDE DEF f
<1>4. 0 \in 0 .. Len(ops) /\ \A n \in 1 .. Len(ops) : n \in 0 .. Len(ops) /\ n # 0
  BY <1>3
<1>5. f[0] = base
  BY <1>2, <1>4
<1>6. \A n \in 1 .. Len(ops) : f[n] = Apply(f[n - 1], ops[n])
  BY <1>2, <1>4
<1> QED
  BY <1>5, <1>6 DEF f
-----------------------------------------------------------------------------
(***************************************************************************)
(* One operation applied to a sound replay.                                *)
(***************************************************************************)
LEMMA SoundTypes ==
    ASSUME NEW r, Sound(r)
    PROVE  /\ r.records \in [Objects -> Envelope \cup {None}]
           /\ r.applied \in SUBSET Operations
           /\ r.sequences \in [Devices -> Nat]
           /\ r.owners \in Owners
           /\ r.lastOrder \in OrderKeys \cup {None}
           /\ r # None
           /\ IsFiniteSet(r.applied) /\ Cardinality(r.applied) \in Nat
<1>1. r \in Collections /\ None \notin Collections
  BY OperationsAssumption DEF Sound
<1>2. r.applied \in SUBSET Operations
  BY <1>1 DEF Collections
<1>3. IsFiniteSet(r.applied)
  BY <1>2, OperationsAssumption, FS_Subset
<1>4. Cardinality(r.applied) \in Nat
  BY <1>3, FS_CardinalityType
<1> QED
  BY <1>1, <1>2, <1>3, <1>4 DEF Collections

\* An operation that applies is after everything applied, and its own.
LEMMA AllBefore ==
    ASSUME NEW r, Sound(r), NEW op \in Operations, Applicable(r, op),
           NEW p \in r.applied
    PROVE  Before(p, op) /\ p.id # op.id /\ SequenceKey(p) # SequenceKey(op)
<1>1. r.applied \in SUBSET Operations /\ p \in Operations
  BY SoundTypes
<1>2. p.id # op.id
  BY DEF Applicable, Known
<1>3. Before(p, op)
  <2>1. PICK m : Last(r.applied, m) /\ r.lastOrder = OrderKey(m)
    BY DEF Sound
  <2>2. m \in Operations /\ r.lastOrder # None
    BY <1>1, <2>1, Fields DEF Last
  <2>3. Before(m, op)
    BY <2>1, <2>2 DEF Applicable, AdvanceAllowed, Before
  <2>4. p = m \/ Before(p, m)
    BY <2>1 DEF Last
  <2> QED
    BY <1>1, <2>2, <2>3, <2>4, BeforeOrders
<1>4. SequenceKey(p) # SequenceKey(op)
  <2> SUFFICES ASSUME p.author = op.author, p.sequence = op.sequence PROVE FALSE
    BY DEF SequenceKey
  <2>1. op.author \in Devices /\ p \in By(r.applied, op.author)
    BY Fields DEF By
  <2>2. p.sequence \in 1 .. r.sequences[op.author]
    BY <2>1 DEF Sound
  <2>3. op.sequence = r.sequences[op.author] + 1 /\ r.sequences[op.author] \in Nat
    BY <2>1, SoundTypes DEF Applicable, AdvanceAllowed
  <2> QED
    BY <2>2, <2>3
<1> QED
  BY <1>2, <1>3, <1>4

LEMMA ApplyTypes ==
    ASSUME NEW r, Sound(r), NEW op \in Operations
    PROVE  Apply(r, op) \in Collections
<1> DEFINE keys == DOMAIN r.owners \cup {SequenceKey(op)}
           owned == [k \in keys |-> IF k = SequenceKey(op) THEN op.id ELSE r.owners[k]]
<1>1. PICK ks \in SUBSET {SequenceKey(p) : p \in Operations} : r.owners \in [ks -> Nat]
  <2>1. r.owners \in Owners
    BY SoundTypes
  <2> QED
    BY <2>1 DEF Owners
<1>2. keys \in SUBSET {SequenceKey(p) : p \in Operations}
  BY <1>1
<1>3. owned \in [keys -> Nat]
  BY <1>1, Fields
<1>4. owned \in Owners
  BY <1>2, <1>3 DEF Owners
<1>5. [r.records EXCEPT ![op.envelope.object] = op.envelope]
      \in [Objects -> Envelope \cup {None}]
  BY SoundTypes, Fields
<1>6. r.applied \cup {op} \in SUBSET Operations
  BY SoundTypes
<1>7. [r.sequences EXCEPT ![op.author] = op.sequence] \in [Devices -> Nat]
  BY SoundTypes, Fields
<1>8. OrderKey(op) \in OrderKeys \cup {None}
  BY Fields
<1>9. Apply(r, op).owners = owned
  BY DEF Apply
<1> HIDE DEF owned
<1> QED
  BY <1>4, <1>5, <1>6, <1>7, <1>8, <1>9 DEF Apply, Collections

LEMMA Applied ==
    ASSUME NEW r, NEW op
    PROVE  LET r1 == Apply(r, op) IN
           /\ r1.applied = r.applied \cup {op}
           /\ r1.records = [r.records EXCEPT ![op.envelope.object] = op.envelope]
           /\ r1.sequences = [r.sequences EXCEPT ![op.author] = op.sequence]
           /\ r1.lastOrder = OrderKey(op)
           /\ DOMAIN r1.owners = DOMAIN r.owners \cup {SequenceKey(op)}
           /\ \A k \in DOMAIN r.owners \cup {SequenceKey(op)} :
                 r1.owners[k] = IF k = SequenceKey(op) THEN op.id ELSE r.owners[k]
BY DEF Apply

\* _CollectionReplay.apply keeps a replay sound.
LEMMA ApplySound ==
    ASSUME NEW r, Sound(r), NEW op \in Operations, Applicable(r, op)
    PROVE  Sound(Apply(r, op))
<1> DEFINE r1 == Apply(r, op)
<1>1. r1 \in Collections
  BY ApplyTypes
<1>2. /\ r1.applied = r.applied \cup {op}
      /\ r1.records = [r.records EXCEPT ![op.envelope.object] = op.envelope]
      /\ r1.sequences = [r.sequences EXCEPT ![op.author] = op.sequence]
      /\ r1.lastOrder = OrderKey(op)
      /\ DOMAIN r1.owners = DOMAIN r.owners \cup {SequenceKey(op)}
      /\ \A k \in DOMAIN r.owners \cup {SequenceKey(op)} :
            r1.owners[k] = IF k = SequenceKey(op) THEN op.id ELSE r.owners[k]
  BY Applied
<1> HIDE DEF r1
<1>3. op \notin r.applied /\ r.applied \in SUBSET Operations
      /\ \A p \in r.applied : Before(p, op) /\ p.id # op.id /\ SequenceKey(p) # SequenceKey(op)
  BY AllBefore, SoundTypes
<1>4. Cardinality(r1.applied) <= MaximumOperations
  <2>1. Cardinality(r1.applied) = Cardinality(r.applied) + 1
    <3>1. IsFiniteSet(r.applied)
      BY SoundTypes
    <3>2. Cardinality(r.applied \cup {op}) = Cardinality(r.applied) + 1
      BY <1>3, <3>1, FS_AddElement
    <3> QED
      BY <1>2, <3>2
  <2>2. Cardinality(r.applied) < MaximumOperations
    BY DEF Applicable
  <2> QED
    BY <2>1, <2>2, SoundTypes, OperationsAssumption
<1>5. \A p, q \in r1.applied :
         p.id = q.id \/ SequenceKey(p) = SequenceKey(q) => p = q
  BY <1>2, <1>3 DEF Sound
<1>6. ASSUME NEW o \in Objects
      PROVE  \/ On(r1.applied, o) = {} /\ r1.records[o] = None
             \/ \E p : Last(On(r1.applied, o), p) /\ r1.records[o] = p.envelope
  <2>1. CASE o = op.envelope.object
    <3>1. Last(On(r1.applied, o), op)
      BY <1>2, <1>3, <2>1 DEF Last, On
    <3>2. r1.records[o] = op.envelope
      BY <1>2, <2>1, SoundTypes
    <3> QED
      BY <3>1, <3>2
  <2>2. CASE o # op.envelope.object
    <3>1. On(r1.applied, o) = On(r.applied, o)
      BY <1>2, <2>2 DEF On
    <3>2. r1.records[o] = r.records[o]
      BY <1>2, <2>2, SoundTypes
    <3> QED
      BY <3>1, <3>2 DEF Sound
  <2> QED
    BY <2>1, <2>2
<1>7. ASSUME NEW d \in Devices
      PROVE  /\ {p.sequence : p \in By(r1.applied, d)} = 1 .. r1.sequences[d]
             /\ Cardinality(By(r1.applied, d)) = r1.sequences[d]
  <2>1. /\ {p.sequence : p \in By(r.applied, d)} = 1 .. r.sequences[d]
        /\ Cardinality(By(r.applied, d)) = r.sequences[d]
        /\ r.sequences[d] \in Nat
    BY SoundTypes DEF Sound
  <2>2. CASE d = op.author
    <3>1. By(r1.applied, d) = By(r.applied, d) \cup {op} /\ op \notin By(r.applied, d)
      BY <1>2, <1>3, <2>2 DEF By
    <3>2. r1.sequences[d] = op.sequence /\ op.sequence = r.sequences[d] + 1
      BY <1>2, <2>2, SoundTypes DEF Applicable, AdvanceAllowed
    <3>3. {p.sequence : p \in By(r1.applied, d)} = 1 .. r1.sequences[d]
      <4>1. {p.sequence : p \in By(r1.applied, d)} = (1 .. r.sequences[d]) \cup {op.sequence}
        BY <2>1, <3>1
      <4>2. (1 .. r.sequences[d]) \cup {r.sequences[d] + 1} = 1 .. (r.sequences[d] + 1)
        BY <2>1
      <4> QED
        BY <3>2, <4>1, <4>2
    <3>4. IsFiniteSet(By(r.applied, d))
      BY SoundTypes, FS_Subset DEF By
    <3>5. Cardinality(By(r1.applied, d)) = r.sequences[d] + 1
      BY <2>1, <3>1, <3>4, FS_AddElement
    <3> QED
      BY <3>2, <3>3, <3>5
  <2>3. CASE d # op.author
    <3>1. By(r1.applied, d) = By(r.applied, d)
      BY <1>2, <2>3 DEF By
    <3>2. r1.sequences[d] = r.sequences[d]
      BY <1>2, <2>3, SoundTypes
    <3> QED
      BY <2>1, <3>1, <3>2
  <2> QED
    BY <2>2, <2>3
<1>8. DOMAIN r1.owners = {SequenceKey(p) : p \in r1.applied}
  <2>1. DOMAIN r.owners = {SequenceKey(p) : p \in r.applied}
    BY DEF Sound
  <2> QED
    BY <1>2, <2>1
<1>9. ASSUME NEW p \in r1.applied
      PROVE  r1.owners[SequenceKey(p)] = p.id
  <2>1. DOMAIN r.owners = {SequenceKey(q) : q \in r.applied}
        /\ \A q \in r.applied : r.owners[SequenceKey(q)] = q.id
    BY DEF Sound
  <2> QED
    BY <1>2, <1>3, <2>1
<1>10. Last(r1.applied, op) /\ r1.lastOrder = OrderKey(op)
  BY <1>2, <1>3 DEF Last
<1> QED
  BY <1>1, <1>4, <1>5, <1>6, <1>7, <1>8, <1>9, <1>10 DEF Sound, r1

LEMMA EmptySound == Sound(EmptyReplay)
<1> DEFINE e == EmptyReplay
<1>1. /\ e.applied = {} /\ e.lastOrder = None /\ DOMAIN e.owners = {}
      /\ e.records = [o \in Objects |-> None] /\ e.sequences = [d \in Devices |-> 0]
      /\ e.owners = [k \in {} |-> 0]
  BY DEF EmptyReplay
<1>2. e.owners \in Owners
  <2>1. {} \in SUBSET {SequenceKey(p) : p \in Operations}
    OBVIOUS
  <2>2. e.owners \in [{} -> Nat]
    BY <1>1
  <2> QED
    BY <2>1, <2>2 DEF Owners
<1>3. e \in Collections
  BY <1>1, <1>2 DEF EmptyReplay, Collections
<1>4. Cardinality({}) = 0 /\ 0 <= MaximumOperations
  BY FS_EmptySet, OperationsAssumption
<1>5. (\A o : On({}, o) = {}) /\ (\A d : By({}, d) = {}) /\ 1 .. 0 = {}
  BY DEF On, By
<1>6. \A d \in Devices : /\ {p.sequence : p \in By(e.applied, d)} = 1 .. e.sequences[d]
                         /\ Cardinality(By(e.applied, d)) = e.sequences[d]
  BY <1>1, <1>4, <1>5
<1> HIDE DEF e
<1>7. Sound(e)
  BY <1>1, <1>3, <1>4, <1>5, <1>6 DEF Sound
<1> QED
  BY <1>7 DEF e

\* What a sound base becomes, with operations that apply in turn, is sound.
LEMMA ReplaysSound ==
    ASSUME NEW base, Sound(base), NEW ops \in Seq(Operations), Replayable(base, ops),
           NEW i \in 0 .. Len(ops)
    PROVE  Sound(Replays(base, ops)[i])
<1> DEFINE f == Replays(base, ops)
           wrong == {n \in Nat : n <= Len(ops) /\ ~Sound(f[n])}
<1>1. Len(ops) \in Nat
  BY LenProperties
<1> SUFFICES ASSUME wrong # {} PROVE FALSE
  BY <1>1
<1>2. PICK n \in wrong : \A m \in wrong : n <= m
  <2>1. wrong \in SUBSET Nat
    OBVIOUS
  <2> HIDE DEF wrong
  <2> QED
    BY <2>1, Least
<1>3. n \in Nat /\ n <= Len(ops) /\ ~Sound(f[n])
  OBVIOUS
<1>4. n # 0
  BY <1>3, InTurn
<1>5. n \in 1 .. Len(ops) /\ n - 1 \in Nat /\ n - 1 <= Len(ops) /\ ~(n <= n - 1)
  BY <1>1, <1>3, <1>4
<1>6. Sound(f[n - 1])
  BY <1>2, <1>5
<1>7. f[n] = Apply(f[n - 1], ops[n])
  BY <1>5, InTurn
<1>8. Applicable(f[n - 1], ops[n]) /\ ops[n] \in Operations
  BY <1>5, ElementOfSeq DEF Replayable
<1> HIDE DEF f
<1> QED
  BY <1>3, <1>6, <1>7, <1>8, ApplySound

\* A replay has applied nothing but its base's operations and its own.
LEMMA ReplaysApplied ==
    ASSUME NEW base, NEW S, NEW ops \in Seq(S), NEW i \in 0 .. Len(ops)
    PROVE  Replays(base, ops)[i].applied \subseteq base.applied \cup S
<1> DEFINE f == Replays(base, ops)
           wrong == {n \in Nat : n <= Len(ops) /\ ~(f[n].applied \subseteq base.applied \cup S)}
<1>1. Len(ops) \in Nat
  BY LenProperties
<1> SUFFICES ASSUME wrong # {} PROVE FALSE
  BY <1>1
<1>2. PICK n \in wrong : \A m \in wrong : n <= m
  <2>1. wrong \in SUBSET Nat
    OBVIOUS
  <2> HIDE DEF wrong
  <2> QED
    BY <2>1, Least
<1>3. n \in Nat /\ n <= Len(ops) /\ ~(f[n].applied \subseteq base.applied \cup S)
  OBVIOUS
<1>4. n # 0
  BY <1>3, InTurn
<1>5. n \in 1 .. Len(ops) /\ n - 1 \in Nat /\ n - 1 <= Len(ops) /\ ~(n <= n - 1)
  BY <1>1, <1>3, <1>4
<1>6. f[n - 1].applied \subseteq base.applied \cup S
  BY <1>2, <1>5
<1>7. f[n] = Apply(f[n - 1], ops[n]) /\ ops[n] \in S
  BY <1>5, InTurn, ElementOfSeq
<1>8. f[n].applied = f[n - 1].applied \cup {ops[n]}
  BY <1>7 DEF Apply
<1> HIDE DEF f
<1> QED
  BY <1>3, <1>6, <1>7, <1>8

\* What a collection of some of S compacts to.
LEMMA BaselineSound ==
    ASSUME NEW S \in SUBSET Operations, NEW ops \in Seq(S), ops # <<>>,
           Replayable(EmptyReplay, ops)
    PROVE  /\ Sound(Replayed(EmptyReplay, ops))
           /\ Replayed(EmptyReplay, ops).applied # {}
           /\ Replayed(EmptyReplay, ops).applied \subseteq S
<1> DEFINE f == Replays(EmptyReplay, ops)
           n == Len(ops)
<1>1. n \in 1 .. n /\ n \in 0 .. n
  BY LenProperties, EmptySeq
<1>2. ops \in Seq(Operations)
  BY ElementOfSeq, LenProperties
<1>3. Replayed(EmptyReplay, ops) = f[n]
  BY DEF Replayed
<1>4. Sound(f[n])
  BY <1>1, <1>2, EmptySound, ReplaysSound
<1>5. f[n].applied = f[n - 1].applied \cup {ops[n]}
  <2>1. f[n] = Apply(f[n - 1], ops[n])
    BY <1>1, InTurn
  <2> QED
    BY <2>1 DEF Apply
<1>6. f[n].applied \subseteq EmptyReplay.applied \cup S
  BY <1>1, ReplaysApplied
<1>7. EmptyReplay.applied = {}
  BY DEF EmptyReplay
<1> QED
  BY <1>3, <1>4, <1>5, <1>6, <1>7
-----------------------------------------------------------------------------
(***************************************************************************)
(* A sound replay passes the checks of a snapshot.                         *)
(***************************************************************************)
LEMMA OneToOne ==
    ASSUME NEW S, IsFiniteSet(S), NEW T, NEW f \in [S -> T],
           \A x, y \in S : f[x] = f[y] => x = y,
           \A t \in T : \E x \in S : f[x] = t
    PROVE  Cardinality(T) = Cardinality(S)
<1>1. f \in Bijection(S, T)
  BY Fun_IsBij
<1>2. ExistsBijection(S, T)
  BY <1>1, Fun_ExistsBij
<1> QED
  BY <1>2, FS_Bijection

\* SnapshotAdmitted, the checks of from_dict, holds of every sound replay.
LEMMA SoundAdmitted ==
    ASSUME NEW r, Sound(r), r.applied # {}
    PROVE  SnapshotAdmitted(r)
<1> DEFINE ownerIds == {r.owners[k] : k \in DOMAIN r.owners}
<1>1. /\ r.applied \in SUBSET Operations /\ IsFiniteSet(r.applied)
      /\ DOMAIN r.owners = {SequenceKey(p) : p \in r.applied}
      /\ \A p \in r.applied : r.owners[SequenceKey(p)] = p.id
      /\ \A p, q \in r.applied :
            p.id = q.id \/ SequenceKey(p) = SequenceKey(q) => p = q
  BY SoundTypes DEF Sound
<1>2. r.lastOrder # None /\ \E p \in r.applied : p.id = r.lastOrder[4]
  <2>1. PICK m : Last(r.applied, m) /\ r.lastOrder = OrderKey(m)
    BY DEF Sound
  <2>2. m \in r.applied /\ m \in Operations
    BY <1>1, <2>1 DEF Last
  <2> QED
    BY <2>1, <2>2, Fields, KeysOf
<1>3. ASSUME NEW d \in Devices
      PROVE  {k[2] : k \in {k \in DOMAIN r.owners : k[1] = d}} = 1 .. r.sequences[d]
  <2>1. {p.sequence : p \in By(r.applied, d)} = 1 .. r.sequences[d]
    BY DEF Sound
  <2>2. \A p : SequenceKey(p)[1] = p.author /\ SequenceKey(p)[2] = p.sequence
    BY DEF SequenceKey
  <2>3. {k[2] : k \in {k \in DOMAIN r.owners : k[1] = d}}
        = {p.sequence : p \in By(r.applied, d)}
    BY <1>1, <2>2 DEF By
  <2> QED
    BY <2>1, <2>3
<1>4. ownerIds = {p.id : p \in r.applied}
  BY <1>1
<1>5. Cardinality(DOMAIN r.owners) = Cardinality(r.applied)
  <2> DEFINE f == [p \in r.applied |-> SequenceKey(p)]
  <2>1. /\ f \in [r.applied -> DOMAIN r.owners]
        /\ \A x, y \in r.applied : f[x] = f[y] => x = y
        /\ \A t \in DOMAIN r.owners : \E x \in r.applied : f[x] = t
    BY <1>1
  <2> HIDE DEF f
  <2> QED
    BY <1>1, <2>1, OneToOne
<1>6. Cardinality(ownerIds) = Cardinality(r.applied)
  <2> DEFINE f == [p \in r.applied |-> p.id]
  <2>1. /\ f \in [r.applied -> ownerIds]
        /\ \A x, y \in r.applied : f[x] = f[y] => x = y
        /\ \A t \in ownerIds : \E x \in r.applied : f[x] = t
    BY <1>1, <1>4
  <2> HIDE DEF f, ownerIds
  <2> QED
    BY <1>1, <2>1, OneToOne
<1>7. Cardinality(r.applied) <= MaximumOperations
  BY DEF Sound
<1> QED
  BY <1>2, <1>3, <1>4, <1>5, <1>6, <1>7 DEF SnapshotAdmitted
-----------------------------------------------------------------------------
(***************************************************************************)
(* A sound replay is what it has applied.                                  *)
(***************************************************************************)
LEMMA RecordsApplied ==
    ASSUME NEW r, Sound(r), NEW o \in Objects, r.records[o] # None
    PROVE  \E p \in r.applied : p.envelope = r.records[o] /\ p.envelope.object = o
<1>1. PICK p : Last(On(r.applied, o), p) /\ r.records[o] = p.envelope
  BY DEF Sound
<1> QED
  BY <1>1 DEF Last, On

LEMMA SoundDetermined ==
    ASSUME NEW r, Sound(r), NEW s, Sound(s), r.applied = s.applied
    PROVE  r = s
<1>1. /\ r.records \in [Objects -> Envelope \cup {None}]
      /\ s.records \in [Objects -> Envelope \cup {None}]
      /\ r.sequences \in [Devices -> Nat] /\ s.sequences \in [Devices -> Nat]
      /\ r.applied \in SUBSET Operations
  BY SoundTypes
<1>2. ASSUME NEW o \in Objects PROVE r.records[o] = s.records[o]
  <2>1. CASE On(r.applied, o) = {}
    <3>1. ~\E p : Last(On(r.applied, o), p)
      BY <2>1 DEF Last
    <3> QED
      BY <3>1 DEF Sound
  <2>2. CASE On(r.applied, o) # {}
    <3>1. PICK p : Last(On(r.applied, o), p) /\ r.records[o] = p.envelope
      BY <2>2 DEF Sound
    <3>2. PICK q : Last(On(r.applied, o), q) /\ s.records[o] = q.envelope
      BY <2>2 DEF Sound
    <3>3. On(r.applied, o) \in SUBSET Operations
      BY <1>1 DEF On
    <3> QED
      BY <3>1, <3>2, <3>3, LastIsOne
  <2> QED
    BY <2>1, <2>2
<1>3. ASSUME NEW d \in Devices PROVE r.sequences[d] = s.sequences[d]
  BY DEF Sound
<1>4. r.lastOrder = s.lastOrder
  <2>1. CASE r.applied = {}
    <3>1. ~\E p : Last(r.applied, p)
      BY <2>1 DEF Last
    <3> QED
      BY <3>1 DEF Sound
  <2>2. CASE r.applied # {}
    <3>1. PICK p : Last(r.applied, p) /\ r.lastOrder = OrderKey(p)
      BY <2>2 DEF Sound
    <3>2. PICK q : Last(r.applied, q) /\ s.lastOrder = OrderKey(q)
      BY <2>2 DEF Sound
    <3> QED
      BY <1>1, <3>1, <3>2, LastIsOne
  <2> QED
    BY <2>1, <2>2
<1>5. r.owners = s.owners
  <2>1. /\ DOMAIN r.owners = DOMAIN s.owners
        /\ \A k \in DOMAIN r.owners : r.owners[k] = s.owners[k]
    BY DEF Sound
  <2>2. r.owners \in Owners /\ s.owners \in Owners
    BY SoundTypes
  <2>3. r.owners = [k \in DOMAIN r.owners |-> r.owners[k]]
        /\ s.owners = [k \in DOMAIN s.owners |-> s.owners[k]]
    BY <2>2 DEF Owners
  <2> QED
    BY <2>1, <2>3
<1>6. r.records = s.records /\ r.sequences = s.sequences
  BY <1>1, <1>2, <1>3
<1>7. r \in Collections /\ s \in Collections
  BY DEF Sound
<1> QED
  BY <1>4, <1>5, <1>6, <1>7 DEF Collections

\* The owners of what one sound replay has applied are the owners of the other,
\* and there are fewer of them.
LEMMA SoundContained ==
    ASSUME NEW r, Sound(r), NEW s, Sound(s), r.applied \subseteq s.applied, r # s
    PROVE  /\ Cardinality(r.applied) < Cardinality(s.applied)
           /\ \A k \in DOMAIN r.owners : k \in DOMAIN s.owners /\ s.owners[k] = r.owners[k]
<1>1. r.applied # s.applied
  BY SoundDetermined
<1>2. Cardinality(r.applied) < Cardinality(s.applied)
  <2>1. IsFiniteSet(s.applied) /\ Cardinality(r.applied) \in Nat
        /\ Cardinality(s.applied) \in Nat
    BY SoundTypes
  <2>2. Cardinality(r.applied) <= Cardinality(s.applied)
        /\ (Cardinality(r.applied) = Cardinality(s.applied) => r.applied = s.applied)
    BY <2>1, FS_Subset
  <2> QED
    BY <1>1, <2>1, <2>2
<1>3. ASSUME NEW k \in DOMAIN r.owners
      PROVE  k \in DOMAIN s.owners /\ s.owners[k] = r.owners[k]
  BY DEF Sound
<1> QED
  BY <1>2, <1>3
-----------------------------------------------------------------------------
(***************************************************************************)
(* The inductive invariant.                                                *)
(***************************************************************************)
LEMMA LoadedSound == PatchInv => Sound(Replay) /\ Loaded # None /\ Sound(Loaded)
<1> SUFFICES ASSUME PatchInv PROVE Sound(Replay) /\ Loaded # None /\ Sound(Loaded)
  OBVIOUS
<1>1. Sound(Loaded)
  BY EmptySound DEF PatchInv, Loaded
<1>2. Len(tail) \in 0 .. Len(tail)
  BY LenProperties DEF PatchInv
<1>3. Sound(Replay)
  BY <1>1, <1>2, ReplaysSound DEF PatchInv, Replay, Replayed
<1> QED
  BY <1>1, <1>3, SoundTypes

LEMMA PatchInit == Init => PatchInv
<1> SUFFICES ASSUME Init PROVE PatchInv
  OBVIOUS
<1>1. snapshot = None /\ tail = <<>> /\ Len(tail) = 0 /\ tail \in Seq(Operations)
  BY DEF Init
<1>2. Loaded = EmptyReplay
  BY <1>1 DEF Loaded
<1>3. \A i \in 1 .. Len(tail) : FALSE
  BY <1>1
<1>4. Ordered /\ Replayable(Loaded, tail)
  BY <1>3 DEF Ordered, Replayable
<1> QED
  BY <1>1, <1>4 DEF PatchInv

LEMMA PatchAppend ==
    ASSUME NEW op \in Operations
    PROVE  PatchInv /\ AppendOperation(op) => PatchInv' /\ Replay' = Apply(Replay, op)
<1> SUFFICES ASSUME PatchInv, AppendOperation(op)
             PROVE  PatchInv' /\ Replay' = Apply(Replay, op)
  OBVIOUS
<1> DEFINE m == Len(tail)
<1>1. /\ Applicable(Replay, op) /\ tail' = Append(tail, op) /\ snapshot' = snapshot
      /\ tail \in Seq(Operations)
  BY DEF AppendOperation, PatchInv
<1>2. Loaded' = Loaded
  BY <1>1 DEF Loaded
<1>3. /\ \A n \in 0 .. m : Replays(Loaded, tail')[n] = Replays(Loaded, tail)[n]
      /\ Replays(Loaded, tail')[m + 1] = Apply(Replay, op)
      /\ Replayed(Loaded, tail') = Apply(Replay, op)
  <2>1. Determined(Loaded, tail)
    BY <1>1, AlwaysDetermined
  <2> QED
    BY <1>1, <2>1, OneMore DEF Replay
<1>4. Replay' = Replayed(Loaded, tail')
  BY <1>2 DEF Replay
<1>5. /\ m \in Nat /\ Len(tail') = m + 1 /\ tail'[m + 1] = op /\ tail' \in Seq(Operations)
      /\ \A n \in 1 .. m : tail'[n] = tail[n] /\ tail[n] \in Operations
  BY <1>1, AppendProperties, LenProperties, ElementOfSeq
<1>6. Sound(Replay) /\ Sound(Apply(Replay, op)) /\ Replay.applied \in SUBSET Operations
      /\ Apply(Replay, op).applied = Replay.applied \cup {op}
  BY <1>1, LoadedSound, ApplySound, SoundTypes, Applied
<1>7. \A p \in Replay.applied : Before(p, op) /\ p.id # op.id
  BY <1>1, <1>6, AllBefore
<1>8. \A i \in 1 .. m + 1 : i \in 1 .. m \/ i = m + 1
  BY <1>5
<1>9. ASSUME NEW i \in 1 .. m + 1
       PROVE  Applicable(Replays(Loaded, tail')[i - 1], tail'[i])
  <2>1. CASE i \in 1 .. m
    <3>1. i - 1 \in 0 .. m
      BY <1>5, <2>1
    <3> QED
      BY <1>3, <1>5, <2>1, <3>1 DEF PatchInv, Replayable
  <2>2. CASE i = m + 1
    <3>1. i - 1 = m /\ m \in 0 .. m
      BY <1>5, <2>2
    <3>2. Replays(Loaded, tail')[i - 1] = Replay
      BY <1>3, <3>1 DEF Replay, Replayed
    <3> QED
      BY <1>1, <1>5, <2>2, <3>2
  <2> QED
    BY <1>8, <2>1, <2>2
<1>10. Ordered'
  <2> HIDE DEF m
  <2>1. /\ \A i, j \in 1 .. m : i < j => Before(tail[i], tail[j])
        /\ \A i, j \in 1 .. m : i # j => tail[i].id # tail[j].id
        /\ \A i \in 1 .. m : tail[i] \in Replay.applied
    BY DEF PatchInv, Ordered, m
  <2>2. Replay'.applied = Replay.applied \cup {op}
    BY <1>3, <1>4, <1>6
  <2>3. \A i, j \in 1 .. m + 1 : i < j => Before(tail'[i], tail'[j])
    <3>1. \A i, j \in 1 .. m + 1 : i < j => i \in 1 .. m
      BY <1>5
    <3> QED
      BY <1>5, <1>7, <1>8, <2>1, <3>1
  <2>4. \A i, j \in 1 .. m + 1 : i # j => tail'[i].id # tail'[j].id
    BY <1>5, <1>7, <1>8, <2>1
  <2>5. \A i \in 1 .. m + 1 : tail'[i] \in Replay'.applied
    BY <1>5, <1>8, <2>1, <2>2
  <2> QED
    BY <1>5, <2>3, <2>4, <2>5 DEF Ordered
<1>11. Replayable(Loaded, tail')
  BY <1>5, <1>9 DEF Replayable
<1>12. snapshot' # None => Sound(snapshot') /\ snapshot'.applied # {}
  BY <1>1 DEF PatchInv
<1> HIDE DEF m
<1>13. PatchInv'
  BY <1>2, <1>5, <1>10, <1>11, <1>12 DEF PatchInv
<1> QED
  BY <1>3, <1>4, <1>13

LEMMA PatchCompact == PatchInv /\ Compact => PatchInv' /\ Replay' = Replay
<1> SUFFICES ASSUME PatchInv, Compact PROVE PatchInv' /\ Replay' = Replay
  OBVIOUS
<1>1. snapshot' = Replay /\ tail' = <<>> /\ Replay.applied # {}
  BY DEF Compact
<1>2. Sound(Replay) /\ Replay # None
  BY LoadedSound, SoundTypes
<1>3. Loaded' = Replay
  BY <1>1, <1>2 DEF Loaded
<1>4. Replay' = Replay
  BY <1>1, <1>3, NothingToReplay DEF Replay
<1>5. Len(tail') = 0 /\ tail' \in Seq(Operations)
  BY <1>1
<1>6. \A i \in 1 .. Len(tail') : FALSE
  BY <1>5
<1>7. (Ordered /\ Replayable(Loaded, tail))'
  BY <1>6 DEF Ordered, Replayable
<1> QED
  BY <1>1, <1>2, <1>4, <1>5, <1>7 DEF PatchInv

LEMMA PatchStutter == PatchInv /\ UNCHANGED vars => PatchInv' /\ Replay' = Replay
BY DEF vars, PatchInv, Ordered, Loaded, Replay

\* The inductive invariant: the snapshot is sound and the tail, sorted, applies
\* to it in turn, after every append and every compaction.
THEOREM Invariance == Spec => []PatchInv
<1>1. Init => PatchInv
  BY PatchInit
<1>2. PatchInv /\ [Next]_vars => PatchInv'
  BY PatchAppend, PatchCompact, PatchStutter DEF Next
<1> QED
  BY <1>1, <1>2, PTL DEF Spec

\* AlwaysLoadable: whatever was appended and compacted, _load_collection
\* accepts the file again, and so does from_dict the snapshot compaction makes.
THEOREM Loadable == Spec => []AlwaysLoadable
<1>1. PatchInv => AlwaysLoadable
  <2> SUFFICES ASSUME PatchInv PROVE AlwaysLoadable
    OBVIOUS
  <2>1. Len(tail) \in Nat
    BY LenProperties DEF PatchInv
  <2>2. \A i \in 1 .. Len(tail) - 1 :
           i \in 1 .. Len(tail) /\ i + 1 \in 1 .. Len(tail) /\ i < i + 1
    BY <2>1
  <2>3. \A i \in 1 .. Len(tail) - 1 : Before(tail[i], tail[i + 1])
    BY <2>2 DEF PatchInv, Ordered
  <2>4. \A i, j \in 1 .. Len(tail) : tail[i].id = tail[j].id => i = j
    BY DEF PatchInv, Ordered
  <2>5. Replay.applied # {} => SnapshotAdmitted(Replay)
    BY LoadedSound, SoundAdmitted
  <2>6. snapshot # None => SnapshotAdmitted(snapshot)
    BY SoundAdmitted DEF PatchInv
  <2> QED
    BY <2>3, <2>4, <2>5, <2>6 DEF PatchInv, AlwaysLoadable
<1> QED
  BY <1>1, Invariance, PTL
-----------------------------------------------------------------------------
(***************************************************************************)
(* The collection is the log.                                              *)
(***************************************************************************)
LEMMA SameOrder == \A p, q : Log!Before(p, q) <=> Before(p, q)
BY DEF Log!Before, Log!KeyBelow, Log!OrderKey, Before, KeyBelow, OrderKey

LEMMA SameSize == ASSUME NEW S PROVE Log!Cardinality(S) = Cardinality(S)
BY DEF Log!Cardinality, Cardinality

\* Each record of a sound replay is the log's record of its object.
LEMMA RecordsAreLatest ==
    ASSUME NEW r, Sound(r)
    PROVE  /\ \A o \in Objects : Log!RecordOf(r.applied, o) = r.records[o]
           /\ r.records = [o \in Objects |-> Log!RecordOf(r.applied, o)]
<1>1. ASSUME NEW o \in Objects
      PROVE  Log!RecordOf(r.applied, o) = r.records[o]
  <2> DEFINE S == On(r.applied, o)
             l == CHOOSE p \in S : \A q \in S \ {p} : Log!Before(q, p)
  <2>1. Log!OnObject(r.applied, o) = S
    BY DEF Log!OnObject, On
  <2>2. Log!RecordOf(r.applied, o) = IF S = {} THEN None ELSE l.envelope
    BY <2>1 DEF Log!RecordOf, Log!Latest
  <2>3. S \in SUBSET Operations
    BY SoundTypes DEF On
  <2> HIDE DEF S
  <2>4. CASE \E p : Last(S, p) /\ r.records[o] = p.envelope
    <3>1. PICK p : Last(S, p) /\ r.records[o] = p.envelope
      BY <2>4
    <3>2. p \in S /\ \A q \in S \ {p} : Log!Before(q, p)
      BY <3>1, SameOrder DEF Last
    <3>3. l \in S /\ \A q \in S \ {l} : Log!Before(q, l)
      BY <3>2
    <3> HIDE DEF l
    <3>4. Last(S, l)
      BY <3>3, SameOrder DEF Last
    <3>5. l = p
      BY <2>3, <3>1, <3>4, LastIsOne
    <3> QED
      BY <2>2, <3>1, <3>2, <3>5
  <2>5. CASE S = {} /\ r.records[o] = None
    BY <2>2, <2>5
  <2> QED
    BY <2>4, <2>5 DEF Sound, S
<1>2. r.records = [o \in Objects |-> r.records[o]]
  BY SoundTypes
<1> QED
  BY <1>1, <1>2

LEMMA AppendExtends ==
    ASSUME PatchInv, NEW op \in Operations, AppendOperation(op)
    PROVE  Log!Extend(op)
<1>1. /\ Sound(Replay) /\ Applicable(Replay, op)
      /\ Replay' = Apply(Replay, op) /\ Sound(Replay')
      /\ op.author \in Devices /\ op.envelope.object \in Objects
  <2>1. Sound(Replay) /\ Applicable(Replay, op)
    BY LoadedSound DEF AppendOperation
  <2>2. Replay' = Apply(Replay, op)
    BY PatchAppend
  <2> QED
    BY <2>1, <2>2, ApplySound, Fields
<1>2. Cardinality(Replay.applied) < MaximumOperations
  BY <1>1 DEF Applicable
<1>3. Log!Continues(Replay.applied, op)
  <2>1. \A p \in Replay.applied : Log!Before(p, op) /\ p.id # op.id
    BY <1>1, AllBefore, SameOrder
  <2>2. op.sequence = Cardinality({p \in Replay.applied : p.author = op.author}) + 1
    <3>1. Cardinality(By(Replay.applied, op.author)) = Replay.sequences[op.author]
      BY <1>1 DEF Sound
    <3>2. op.sequence = Replay.sequences[op.author] + 1
      BY <1>1 DEF Applicable, AdvanceAllowed
    <3> QED
      BY <3>1, <3>2 DEF By
  <2>3. op.envelope.parent = Log!RevisionOf(Replay.applied, op.envelope.object)
    <3>1. Log!RecordOf(Replay.applied, op.envelope.object)
          = Replay.records[op.envelope.object]
      BY <1>1, RecordsAreLatest
    <3>2. op.envelope.parent = ObjectRevision(Replay, op.envelope.object)
      BY <1>1 DEF Applicable, AdvanceAllowed
    <3> QED
      BY <3>1, <3>2 DEF Log!RevisionOf, ObjectRevision
  <2> QED
    BY <2>1, <2>2, <2>3, SameSize DEF Log!Continues
<1>4. Replay'.applied = Replay.applied \cup {op}
  BY <1>1, Applied
<1>5. Replay'.records = [o \in Objects |-> Log!RecordOf(Replay'.applied, o)]
  BY <1>1, RecordsAreLatest
<1> QED
  BY <1>2, <1>3, <1>4, <1>5, SameSize DEF Log!Extend

\* ImplementsLog: each appended operation extends the log by that operation, and
\* compaction, like a restart, leaves the log and the records as they were.
THEOREM Refinement == Spec => ImplementsLog
<1>1. Init => Log!Init
  <2> SUFFICES ASSUME Init PROVE Log!Init
    OBVIOUS
  <2>1. Replay = EmptyReplay
    BY NothingToReplay DEF Init, Loaded, Replay
  <2> QED
    BY <2>1 DEF EmptyReplay, Log!Init
<1>2. PatchInv /\ [Next]_vars => [Log!Next]_<<Replay.applied, Replay.records>>
  <2> SUFFICES ASSUME PatchInv, [Next]_vars
               PROVE  Log!Next \/ UNCHANGED <<Replay.applied, Replay.records>>
    OBVIOUS
  <2>1. ASSUME NEW op \in Operations, AppendOperation(op) PROVE Log!Next
    BY <2>1, AppendExtends DEF Log!Next
  <2>2. CASE Compact
    BY <2>2, PatchCompact
  <2>3. CASE UNCHANGED vars
    BY <2>3, PatchStutter
  <2> QED
    BY <2>1, <2>2, <2>3 DEF Next
<1> QED
  BY <1>1, <1>2, Invariance, PTL DEF Spec, ImplementsLog, Log!Spec
=============================================================================
