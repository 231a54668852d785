------------------------ MODULE EpochActivationProofs ------------------------
(***************************************************************************)
(* Theorems about the epochs, membership and commitment log of a vault,    *)
(* for every set of devices and every limit.                               *)
(*                                                                         *)
(* What the tables say is restated as operators of their contents, so that *)
(* what a step adds to a table can be told from what it leaves.            *)
(***************************************************************************)
EXTENDS EpochActivation, FiniteSetTheorems, SequenceTheorems, TLAPS

Enrolled(rows, plan) == {e \in rows : e.activation = plan.root}
NextOf(rows, plan) == plan.epoch + Cardinality(Enrolled(rows, plan))
RosterOf(rows, plan, generation) ==
    [d \in Devices |->
        IF \E e \in Enrolled(rows, plan) : e.generation < generation /\ e.target = d
        THEN "ACTIVE" ELSE Removed(plan)[d]]
FullRoster(rows, plan) == RosterOf(rows, plan, NextOf(rows, plan))

InLog(log_, root) == \E i \in 1 .. Len(log_) : log_[i].root = root
Precedes(log_, first, second) ==
    \E i, j \in 1 .. Len(log_) :
        i <= j /\ log_[i].root = first /\ log_[j].root = second

\* A root names one message, and what is stored was signed.
Messages ==
    /\ \A v \in views : v.root <= signed
    /\ \A v, w \in views : v.root = w.root => v = w
    /\ \A p \in plans : p.root <= signed
    /\ \A p, q \in plans : p.root = q.root => p = q
    /\ \A i \in 1 .. Len(commitments) :
          commitments[i] \in views /\ commitments[i].sequence = i
    /\ \A i \in 1 .. Len(activations) : activations[i] \in plans
    /\ \A e \in enrollments :
          \E i \in 1 .. Len(activations) : e.activation = activations[i].root

\* Every activation is the next epoch; nothing is ahead of the next one.
Epochs ==
    /\ \A i \in 1 .. Len(activations) : activations[i].epoch = FirstEpoch + i
    /\ \A i \in 1 .. Len(commitments) :
          commitments[i].epoch \in FirstEpoch .. (FirstEpoch + Len(activations))
    /\ \A p \in plans :
          p.epoch \in (FirstEpoch + 1) .. (FirstEpoch + Len(activations) + 1)
    /\ \A i \in 1 .. Len(staged) : staged[i].epoch = FirstEpoch + Len(activations) + 1

\* An enrollment was issued by a member for a stranger, on what was there.
Issued(rows, e, plan) ==
    /\ e.epoch = plan.epoch
    /\ e.prior = RosterOf(rows, plan, e.generation)
    /\ RosterOf(rows, plan, e.generation)[e.target] = "absent"
    /\ RosterOf(rows, plan, e.generation)[e.issuer] = "ACTIVE"

Rebuilds(rows, log_, plan) ==
    /\ MayRemove(plan.prior, plan.target, plan.signer)
    /\ \A e \in Enrolled(rows, plan) :
          /\ e.generation \in plan.epoch .. (NextOf(rows, plan) - 1)
          /\ Issued(rows, e, plan)
          /\ Precedes(log_, plan.state, e.state)
    /\ \A e, f \in Enrolled(rows, plan) :
          e # f => /\ f.generation # e.generation
                   /\ f.generation < e.generation => Precedes(log_, f.state, e.state)

\* The plans follow one another and cut the log into epochs.
Continuous(rows, log_, plans_) ==
    /\ \A i \in 2 .. Len(plans_) :
          /\ plans_[i].prior = FullRoster(rows, plans_[i - 1])
          /\ Precedes(log_, plans_[i - 1].state, plans_[i].state)
    /\ \A k \in 1 .. Len(plans_) : InLog(log_, plans_[k].state)
    /\ \A k \in 1 .. Len(plans_), p \in 1 .. Len(log_), i \in 1 .. Len(log_) :
          log_[p].root = plans_[k].state =>
              (i <= p <=> log_[i].epoch < plans_[k].epoch)
    /\ \A k \in 1 .. Len(plans_), i \in 1 .. Len(log_) :
          log_[i].epoch = plans_[k].epoch => log_[i].author = plans_[k].signer

Rebuilding == Activated => Rebuilds(enrollments, commitments, Current)
History == Continuous(enrollments, commitments, activations)

Gone == \A i \in 1 .. Len(activations) :
            FullRoster(enrollments, Current)[activations[i].target] = "REVOKED"

Keys ==
    Activated => \A d \in ActiveIn(FullRoster(enrollments, Current)) :
        \/ [epoch |-> Current.epoch, recipient |-> d] \in deliveries
        \/ \E e \in Enrolled(enrollments, Current) : e.target = d

Writers ==
    /\ Activated => Current.signer \in registered
    /\ ~Activated /\ commitments # <<>> => commitments[1].author \in registered

EpochInv ==
    /\ TypeOK /\ Messages /\ Epochs /\ Rebuilding /\ History /\ Gone /\ Keys /\ Writers
-----------------------------------------------------------------------------
(***************************************************************************)
(* Rows, rosters and epochs.                                               *)
(***************************************************************************)
StagedRows == [plan : Nat, epoch : Nat, recipient : Devices]

\* The first so many numbers are that many.
LEMMA FirstNumbers ==
    ASSUME NEW n \in Nat
    PROVE  IsFiniteSet(1 .. n) /\ Cardinality(1 .. n) = n
BY FS_Interval

LEMMA SeqFacts ==
    ASSUME NEW S, NEW seq \in Seq(S)
    PROVE  /\ Len(seq) \in Nat /\ DOMAIN seq = 1 .. Len(seq)
           /\ \A i \in 1 .. Len(seq) : seq[i] \in S
BY ElementOfSeq, LenProperties

LEMMA AppendFacts ==
    ASSUME NEW S, NEW seq \in Seq(S), NEW e \in S
    PROVE  /\ Append(seq, e) \in Seq(S) /\ Len(Append(seq, e)) = Len(seq) + 1
           /\ Append(seq, e) # <<>>
           /\ \A i \in 1 .. Len(seq) : Append(seq, e)[i] = seq[i]
           /\ Append(seq, e)[Len(seq) + 1] = e
           /\ \A i \in 1 .. (Len(seq) + 1) : i \in 1 .. Len(seq) \/ i = Len(seq) + 1
BY AppendProperties, LenProperties

\* The members of a finite set of positions are numbered from one.
LEMMA Ranked ==
    ASSUME NEW n \in Nat, NEW I \in SUBSET (1 .. n)
    PROVE  /\ IsFiniteSet(I) /\ Cardinality(I) \in 0 .. n
           /\ \A r \in 1 .. Cardinality(I) :
                 \E i \in I : Cardinality({j \in I : j <= i}) = r
<1> DEFINE Below(i) == {j \in I : j <= i}
           rank == [i \in I |-> Cardinality(Below(i))]
           m == Cardinality(I)
           R == {rank[i] : i \in I}
<1>1. IsFiniteSet(1 .. n) /\ Cardinality(1 .. n) = n
  BY FirstNumbers
<1>2. IsFiniteSet(I) /\ m \in Nat /\ m <= n
  BY <1>1, FS_Subset, FS_CardinalityType
<1>3. \A i \in I : /\ IsFiniteSet(Below(i)) /\ Cardinality(Below(i)) \in Nat
                   /\ Cardinality(Below(i)) <= m
  <2> TAKE i \in I
  <2>1. Below(i) \in SUBSET I
    OBVIOUS
  <2> QED
    BY <1>2, <2>1, FS_Subset, FS_CardinalityType
<1>4. \A i \in I : Cardinality(Below(i)) >= 1
  <2> TAKE i \in I
  <2>1. i \in Below(i)
    OBVIOUS
  <2>2. Cardinality(Below(i)) # 0
    BY <1>3, <2>1, FS_EmptySet
  <2> QED
    BY <1>3, <2>2
<1>5. \A i, j \in I : i < j => Cardinality(Below(i)) < Cardinality(Below(j))
  <2> SUFFICES ASSUME NEW i \in I, NEW j \in I, i < j
               PROVE  Cardinality(Below(i)) < Cardinality(Below(j))
    OBVIOUS
  <2>1. Below(i) \in SUBSET Below(j)
    <3>1. \A k \in I : k <= i => k <= j
      <4> TAKE k \in I
      <4>1. k \in Nat /\ i \in Nat /\ j \in Nat
        OBVIOUS
      <4> QED
        BY <4>1
    <3> QED
      BY <3>1
  <2>2. j \in Below(j) /\ j \notin Below(i)
    OBVIOUS
  <2>3. Cardinality(Below(i)) <= Cardinality(Below(j))
        /\ Cardinality(Below(i)) # Cardinality(Below(j))
    BY <1>3, <2>1, <2>2, FS_Subset
  <2> QED
    BY <1>3, <2>3
<1> HIDE DEF Below
<1>6. \A i, j \in I : rank[i] = rank[j] => i = j
  <2> SUFFICES ASSUME NEW i \in I, NEW j \in I, rank[i] = rank[j], i # j
               PROVE  FALSE
    OBVIOUS
  <2>1. i < j \/ j < i
    OBVIOUS
  <2>2. Cardinality(Below(i)) = Cardinality(Below(j))
    OBVIOUS
  <2> QED
    BY <1>3, <1>5, <2>1, <2>2
<1>7. rank \in Bijection(I, R)
  <2>1. rank \in [I -> R] /\ \A r \in R : \E i \in I : rank[i] = r
    OBVIOUS
  <2> QED
    BY <1>6, <2>1 DEF Bijection, Injection, Surjection, IsInjective
<1>8. IsFiniteSet(R) /\ Cardinality(R) = m
  BY <1>2, <1>7, FS_Bijection DEF ExistsBijection
<1>9. R \in SUBSET (1 .. m)
  BY <1>2, <1>3, <1>4
<1>10. IsFiniteSet(1 .. m) /\ Cardinality(1 .. m) = m
  <2>1. m \in Nat
    BY <1>2
  <2> HIDE DEF m
  <2> QED
    BY <2>1, FirstNumbers
<1>11. R = 1 .. m
  BY <1>8, <1>9, <1>10, FS_Subset
<1>12. \A r \in 1 .. m : \E i \in I : Cardinality(Below(i)) = r
  BY <1>11
<1> QED
  BY <1>2, <1>12 DEF Below

LEMMA Least ==
    ASSUME NEW n \in Nat, NEW I \in SUBSET (1 .. n), I # {}
    PROVE  \E i \in I : \A j \in I : i <= j
<1>1. /\ IsFiniteSet(I) /\ Cardinality(I) \in 0 .. n
      /\ \A r \in 1 .. Cardinality(I) :
            \E i \in I : Cardinality({j \in I : j <= i}) = r
  BY Ranked
<1>2. 1 \in 1 .. Cardinality(I)
  <2>1. Cardinality(I) # 0
    BY <1>1, FS_EmptySet
  <2> QED
    BY <1>1, <2>1
<1>3. PICK i \in I : Cardinality({j \in I : j <= i}) = 1
  BY <1>1, <1>2
<1>4. IsFiniteSet({j \in I : j <= i})
  <2>1. {j \in I : j <= i} \in SUBSET I
    OBVIOUS
  <2> QED
    BY <1>1, <2>1, FS_Subset
<1>5. PICK x : {j \in I : j <= i} = {x}
  BY <1>3, <1>4, FS_Singleton
<1>6. \A j \in I : i <= j
  <2> TAKE j \in I
  <2>1. i \in Nat /\ j \in Nat
    OBVIOUS
  <2>2. i \in {k \in I : k <= i}
    BY <2>1
  <2>3. j <= i => j \in {k \in I : k <= i}
    OBVIOUS
  <2>4. j <= i => j = i
    BY <1>5, <2>2, <2>3
  <2> QED
    BY <2>1, <2>4
<1> QED
  BY <1>6

\* Rows deleted by position leave rows of the table.
LEMMA RowsLeft ==
    ASSUME staged \in Seq(StagedRows), NEW I \in SUBSET (DOMAIN staged)
    PROVE  /\ RowsAt(I) \in Seq(StagedRows)
           /\ Len(RowsAt(I)) = Cardinality(I) /\ Cardinality(I) \in 0 .. Len(staged)
           /\ \A n \in 1 .. Len(RowsAt(I)) : \E i \in I : RowsAt(I)[n] = staged[i]
<1> DEFINE m == Cardinality(I)
           At(n) == CHOOSE i \in I : Cardinality({j \in I : j <= i}) = n
<1>1. /\ Len(staged) \in Nat /\ DOMAIN staged = 1 .. Len(staged)
      /\ \A i \in 1 .. Len(staged) : staged[i] \in StagedRows
  BY SeqFacts
<1>2. m \in 0 .. Len(staged) /\ \A n \in 1 .. m : At(n) \in I
  BY <1>1, Ranked
<1>3. RowsAt(I) = [n \in 1 .. m |-> staged[At(n)]]
  BY DEF RowsAt
<1> HIDE DEF m, At
<1>4. \A n \in 1 .. m : staged[At(n)] \in StagedRows
  BY <1>1, <1>2
<1>5. RowsAt(I) \in [1 .. m -> StagedRows] /\ m \in Nat
  BY <1>1, <1>2, <1>3, <1>4
<1>6. RowsAt(I) \in Seq(StagedRows)
  BY <1>5, SeqDef
<1>7. Len(RowsAt(I)) = m
  BY <1>5, <1>6, LenProperties
<1>8. \A n \in 1 .. m : RowsAt(I)[n] = staged[At(n)]
  BY <1>3
<1> QED
  BY <1>2, <1>6, <1>7, <1>8 DEF m

\* The module's operators in terms of the tables' contents.
LEMMA Restated ==
    /\ \A plan : Under(plan) = Enrolled(enrollments, plan)
    /\ \A plan : NextGeneration(plan) = NextOf(enrollments, plan)
    /\ \A plan, g : Roster(plan, g) = RosterOf(enrollments, plan, g)
    /\ Activated => Membership = FullRoster(enrollments, Current)
BY DEF Under, NextGeneration, Roster, Membership, Enrolled, NextOf, RosterOf, FullRoster

LEMMA RegistryTypes ==
    ASSUME NEW rows, NEW plan \in Plans, NEW g
    PROVE  /\ Removed(plan) \in Registries /\ RosterOf(rows, plan, g) \in Registries
           /\ FullRoster(rows, plan) \in Registries
BY DEF Plans, Registries, States, Removed, RosterOf, FullRoster

TablesOK ==
    /\ Len(commitments) \in Nat /\ DOMAIN commitments = 1 .. Len(commitments)
    /\ \A i \in 1 .. Len(commitments) : commitments[i] \in Views
    /\ Len(activations) \in Nat /\ DOMAIN activations = 1 .. Len(activations)
    /\ \A i \in 1 .. Len(activations) : activations[i] \in Plans
    /\ Len(staged) \in Nat /\ DOMAIN staged = 1 .. Len(staged)
    /\ \A i \in 1 .. Len(staged) : staged[i] \in StagedRows
    /\ Activated <=> Len(activations) > 0
    /\ commitments # <<>> <=> Len(commitments) > 0
    /\ Activated => Len(activations) \in 1 .. Len(activations) /\ Current \in Plans
    /\ commitments # <<>> =>
          Len(commitments) \in 1 .. Len(commitments) /\ LastView \in Views

LEMMA SequencesHold == TypeOK => TablesOK
<1> SUFFICES ASSUME TypeOK PROVE TablesOK
  OBVIOUS
<1>1. commitments \in Seq(Views) /\ activations \in Seq(Plans) /\ staged \in Seq(StagedRows)
  BY DEF TypeOK, StagedRows
<1>2. /\ Len(commitments) \in Nat /\ DOMAIN commitments = 1 .. Len(commitments)
      /\ \A i \in 1 .. Len(commitments) : commitments[i] \in Views
      /\ commitments # <<>> <=> Len(commitments) > 0
  BY <1>1, SeqFacts, EmptySeq
<1>3. /\ Len(activations) \in Nat /\ DOMAIN activations = 1 .. Len(activations)
      /\ \A i \in 1 .. Len(activations) : activations[i] \in Plans
      /\ Activated <=> Len(activations) > 0
  BY <1>1, SeqFacts, EmptySeq DEF Activated
<1>4. /\ Len(staged) \in Nat /\ DOMAIN staged = 1 .. Len(staged)
      /\ \A i \in 1 .. Len(staged) : staged[i] \in StagedRows
  BY <1>1, SeqFacts
<1>5. Activated => Len(activations) \in 1 .. Len(activations) /\ Current \in Plans
  BY <1>3 DEF Current
<1>6. commitments # <<>> =>
          Len(commitments) \in 1 .. Len(commitments) /\ LastView \in Views
  BY <1>2 DEF LastView
<1> QED
  BY <1>2, <1>3, <1>4, <1>5, <1>6 DEF TablesOK

LEMMA KeyEpochIs ==
    ASSUME TypeOK, Epochs
    PROVE  /\ KeyEpoch = FirstEpoch + Len(activations) /\ KeyEpoch \in Nat
           /\ FirstEpoch \in Nat \ {0}
           /\ Activated => Current.epoch = KeyEpoch
<1>1. TablesOK /\ FirstEpoch \in Nat \ {0}
  BY SequencesHold, LimitsAssumption
<1>2. CASE Activated
  BY <1>1, <1>2 DEF TablesOK, KeyEpoch, Current, Epochs
<1>3. CASE ~Activated /\ commitments = <<>>
  BY <1>1, <1>3 DEF TablesOK, KeyEpoch
<1>4. CASE ~Activated /\ commitments # <<>>
  <2>1. Len(activations) = 0
    BY <1>1, <1>4 DEF TablesOK
  <2>2. LastView.epoch \in FirstEpoch .. (FirstEpoch + Len(activations))
    BY <1>1, <1>4 DEF TablesOK, LastView, Epochs
  <2> QED
    BY <1>1, <1>4, <2>1, <2>2 DEF KeyEpoch
<1> QED
  BY <1>2, <1>3, <1>4

\* A root in the log names one view.
LEMMA RootsDiffer ==
    ASSUME TypeOK, Messages
    PROVE  \A i, j \in 1 .. Len(commitments) :
              commitments[i].root = commitments[j].root => i = j
BY DEF Messages

\* Nothing is enrolled under a plan not accepted yet, and each accepted plan
\* has a root of its own.
LEMMA PlansDiffer ==
    ASSUME TypeOK, Messages, Epochs
    PROVE  /\ \A i, j \in 1 .. Len(activations) :
                 activations[i].root = activations[j].root => i = j
           /\ \A p \in plans : p.epoch = KeyEpoch + 1 => Enrolled(enrollments, p) = {}
<1>1. TablesOK /\ KeyEpoch = FirstEpoch + Len(activations) /\ FirstEpoch \in Nat
  BY SequencesHold, KeyEpochIs
<1>2. \A i, j \in 1 .. Len(activations) :
          activations[i].root = activations[j].root => i = j
  <2> SUFFICES ASSUME NEW i \in 1 .. Len(activations), NEW j \in 1 .. Len(activations),
                      activations[i].root = activations[j].root
               PROVE  i = j
    OBVIOUS
  <2>1. activations[i] = activations[j]
    BY DEF Messages
  <2>2. FirstEpoch + i = FirstEpoch + j
    BY <2>1 DEF Epochs
  <2> QED
    BY <1>1, <2>2
<1>3. ASSUME NEW p \in plans, p.epoch = KeyEpoch + 1, NEW e \in Enrolled(enrollments, p)
      PROVE  FALSE
  <2>1. PICK i \in 1 .. Len(activations) : e.activation = activations[i].root
    BY <1>3 DEF Messages, Enrolled
  <2>2. activations[i] = p
    BY <1>3, <2>1 DEF Messages, Enrolled
  <2>3. p.epoch = FirstEpoch + i
    BY <2>2 DEF Epochs
  <2> QED
    BY <1>1, <1>3, <2>3 DEF TablesOK
<1> QED
  BY <1>2, <1>3
-----------------------------------------------------------------------------
(***************************************************************************)
(* Steps that sign a message or add a device to the account.               *)
(***************************************************************************)
LEMMA MembershipTypes ==
    ASSUME TypeOK
    PROVE  Membership \in Registries /\ AccountRegistry \in Registries
                                     /\ EmptyRegistry \in Registries
<1>1. AccountRegistry \in Registries /\ EmptyRegistry \in Registries
  BY DEF AccountRegistry, EmptyRegistry, Registries, States
<1>2. CASE Activated
  BY <1>1, <1>2, SequencesHold, Restated, RegistryTypes DEF TablesOK
<1>3. CASE ~Activated
  BY <1>1, <1>3 DEF Membership
<1> QED
  BY <1>1, <1>2, <1>3

\* What the tables say is as before.
LEMMA LogKept ==
    ASSUME EpochInv, UNCHANGED log, registered \subseteq registered'
    PROVE  Rebuilding' /\ History' /\ Gone' /\ Keys' /\ Writers'
<1>1. /\ UNCHANGED commitments /\ UNCHANGED activations /\ UNCHANGED deliveries
      /\ UNCHANGED staged /\ UNCHANGED enrollments
  BY DEF log
<1>2. Activated' <=> Activated
  BY <1>1 DEF Activated
<1>3. Rebuilding'
  <2>1. Rebuilding
    BY DEF EpochInv
  <2> QED
    BY <1>1, <2>1 DEF Rebuilding, Activated, Current
<1>4. History'
  <2>1. History
    BY DEF EpochInv
  <2> QED
    BY <1>1, <2>1 DEF History
<1>5. Gone'
  <2>1. Gone
    BY DEF EpochInv
  <2> QED
    BY <1>1, <2>1 DEF Gone, Current
<1>6. Keys'
  <2>1. Keys
    BY DEF EpochInv
  <2> QED
    BY <1>1, <2>1 DEF Keys, Activated, Current
<1>7. Writers'
  <2>1. Writers
    BY DEF EpochInv
  <2> QED
    BY <1>1, <2>1 DEF Writers, Activated, Current
<1> QED
  BY <1>3, <1>4, <1>5, <1>6, <1>7

\* What the log's own parts of the invariants say is as before, too.
LEMMA LogStillSigned ==
    ASSUME TypeOK, Messages, Epochs, UNCHANGED log, signed \in Nat, signed' \in Nat,
           signed <= signed', views \subseteq views', plans \subseteq plans',
           \A v \in views' : v.root \in Nat /\ v.root <= signed',
           \A v, w \in views' : v.root = w.root => v = w,
           \A p \in plans' : p.root \in Nat /\ p.root <= signed',
           \A p, q \in plans' : p.root = q.root => p = q,
           \A p \in plans' \ plans : p.epoch = KeyEpoch + 1
    PROVE  Messages' /\ Epochs'
<1>1. /\ UNCHANGED commitments /\ UNCHANGED activations
      /\ UNCHANGED staged /\ UNCHANGED enrollments
  BY DEF log
<1>2. Messages'
  <2>1. \A i \in 1 .. Len(commitments') :
          commitments'[i] \in views' /\ commitments'[i].sequence = i
    BY <1>1 DEF Messages
  <2>2. \A i \in 1 .. Len(activations') : activations'[i] \in plans'
    BY <1>1 DEF Messages
  <2>3. \A e \in enrollments' :
          \E i \in 1 .. Len(activations') : e.activation = activations'[i].root
    BY <1>1 DEF Messages
  <2> QED
    BY <2>1, <2>2, <2>3 DEF Messages
<1>3. Epochs'
  <2>1. \A p \in plans' :
          p.epoch \in (FirstEpoch + 1) .. (FirstEpoch + Len(activations) + 1)
    <3>1. /\ KeyEpoch = FirstEpoch + Len(activations) /\ FirstEpoch \in Nat
          /\ Len(activations) \in Nat
      BY KeyEpochIs, SequencesHold DEF TablesOK
    <3> SUFFICES ASSUME NEW p \in plans'
                 PROVE  p.epoch \in (FirstEpoch + 1) .. (FirstEpoch + Len(activations) + 1)
      OBVIOUS
    <3>2. CASE p \in plans
      BY <3>2 DEF Epochs
    <3>3. CASE p \notin plans
      BY <3>1, <3>3
    <3> QED
      BY <3>2, <3>3
  <2> QED
    BY <1>1, <2>1 DEF Epochs
<1> QED
  BY <1>2, <1>3

LEMMA AddDeviceStep ==
    ASSUME EpochInv, NEW d \in Devices, AddDevice(d)
    PROVE  EpochInv'
<1>1. /\ registered' = registered \cup {d} /\ UNCHANGED log
      /\ UNCHANGED commitments /\ UNCHANGED activations /\ UNCHANGED deliveries
      /\ UNCHANGED staged /\ UNCHANGED enrollments
      /\ UNCHANGED views /\ UNCHANGED plans /\ UNCHANGED proofs /\ UNCHANGED signed
  BY DEF AddDevice, log, messages
<1>2. TypeOK'
  BY <1>1 DEF EpochInv, TypeOK
<1>3. Messages' /\ Epochs'
  BY <1>1 DEF EpochInv, Messages, Epochs
<1>4. Rebuilding' /\ History' /\ Gone' /\ Keys' /\ Writers'
  BY <1>1, LogKept
<1> QED
  BY <1>2, <1>3, <1>4 DEF EpochInv

LEMMA SignViewStep ==
    ASSUME EpochInv, NEW d \in Devices, SignView(d)
    PROVE  EpochInv'
<1> DEFINE v == [root |-> signed', sequence |-> Len(commitments) + 1,
                 previous |-> IF commitments = <<>> THEN Zero ELSE LastView.root,
                 registry |-> Membership,
                 previousRegistry |-> IF commitments = <<>> THEN EmptyRegistry
                                      ELSE LastView.registry,
                 epoch |-> KeyEpoch, author |-> d]
<1>1. TypeOK /\ Messages /\ Epochs /\ TablesOK
  BY SequencesHold DEF EpochInv
<1>2. /\ signed' = signed + 1 /\ signed \in Nat /\ signed' \in 0 .. MaxSigned
      /\ views' = views \cup {v}
      /\ UNCHANGED registered /\ UNCHANGED log /\ UNCHANGED plans /\ UNCHANGED proofs
  BY <1>1, LimitsAssumption DEF SignView, Sign, TypeOK
<1>3. v \in Views
  <2>1. /\ (IF commitments = <<>> THEN Zero ELSE LastView.root) \in Nat
        /\ (IF commitments = <<>> THEN EmptyRegistry ELSE LastView.registry) \in Registries
    BY <1>1, MembershipTypes DEF Zero, TablesOK, Views
  <2>2. Membership \in Registries /\ KeyEpoch \in Nat /\ Len(commitments) + 1 \in Nat
    BY <1>1, MembershipTypes, KeyEpochIs DEF TablesOK
  <2> QED
    BY <1>2, <2>1, <2>2 DEF Views
<1>4. v.root = signed + 1
  BY <1>2
<1> HIDE DEF v
<1>5. TypeOK'
  BY <1>1, <1>2, <1>3 DEF TypeOK, log
<1>6. Messages' /\ Epochs'
  <2>1. \A w \in views : w.root \in Nat /\ w.root <= signed
    BY <1>1 DEF TypeOK, Views, Messages
  <2>2. \A w \in views' : w.root \in Nat /\ w.root <= signed'
    BY <1>2, <1>4, <2>1
  <2>3. \A w, x \in views' : w.root = x.root => w = x
    <3>1. \A w, x \in views : w.root = x.root => w = x
      BY <1>1 DEF Messages
    <3>2. \A w \in views : w.root # v.root
      BY <1>2, <1>4, <2>1
    <3> QED
      BY <1>2, <3>1, <3>2
  <2>4. /\ \A p \in plans' : p.root \in Nat /\ p.root <= signed'
        /\ \A p, q \in plans' : p.root = q.root => p = q
    BY <1>1, <1>2 DEF TypeOK, Plans, Messages
  <2> QED
    BY <1>1, <1>2, <2>2, <2>3, <2>4, LogStillSigned
<1>7. Rebuilding' /\ History' /\ Gone' /\ Keys' /\ Writers'
  BY <1>2, LogKept
<1> QED
  BY <1>5, <1>6, <1>7 DEF EpochInv

LEMMA SignPlanStep ==
    ASSUME EpochInv, NEW d \in Devices, NEW target \in Devices, SignPlan(d, target)
    PROVE  EpochInv'
<1> DEFINE p == [root |-> signed', epoch |-> KeyEpoch + 1, state |-> LastView.root,
                 prior |-> Membership, target |-> target, signer |-> d]
<1>1. TypeOK /\ Messages /\ Epochs /\ TablesOK
  BY SequencesHold DEF EpochInv
<1>2. /\ signed' = signed + 1 /\ signed \in Nat /\ signed' \in 0 .. MaxSigned
      /\ plans' = plans \cup {p} /\ commitments # <<>>
      /\ UNCHANGED registered /\ UNCHANGED log /\ UNCHANGED views /\ UNCHANGED proofs
  BY <1>1, LimitsAssumption DEF SignPlan, Sign, TypeOK
<1>3. p \in Plans
  <2>1. Membership \in Registries /\ KeyEpoch + 1 \in Nat /\ LastView.root \in Nat
    BY <1>1, <1>2, MembershipTypes, KeyEpochIs DEF TablesOK, Views
  <2> QED
    BY <1>2, <2>1 DEF Plans
<1>4. p.root = signed + 1 /\ p.epoch = KeyEpoch + 1
  BY <1>2
<1> HIDE DEF p
<1>5. TypeOK'
  BY <1>1, <1>2, <1>3 DEF TypeOK, log
<1>6. Messages' /\ Epochs'
  <2>1. \A q \in plans : q.root \in Nat /\ q.root <= signed
    BY <1>1 DEF TypeOK, Plans, Messages
  <2>2. \A q \in plans' : q.root \in Nat /\ q.root <= signed'
    BY <1>2, <1>4, <2>1
  <2>3. \A q, r \in plans' : q.root = r.root => q = r
    <3>1. \A q, r \in plans : q.root = r.root => q = r
      BY <1>1 DEF Messages
    <3>2. \A q \in plans : q.root # p.root
      BY <1>2, <1>4, <2>1
    <3> QED
      BY <1>2, <3>1, <3>2
  <2>4. /\ \A w \in views' : w.root \in Nat /\ w.root <= signed'
        /\ \A w, x \in views' : w.root = x.root => w = x
    <3>1. \A w \in views : w.root \in Nat /\ w.root <= signed
      BY <1>1 DEF TypeOK, Views, Messages
    <3> QED
      BY <1>1, <1>2, <3>1 DEF Messages
  <2>5. \A q \in plans' \ plans : q.epoch = KeyEpoch + 1
    BY <1>2, <1>4
  <2> QED
    BY <1>1, <1>2, <2>2, <2>3, <2>4, <2>5, LogStillSigned
<1>7. Rebuilding' /\ History' /\ Gone' /\ Keys' /\ Writers'
  BY <1>2, LogKept
<1> QED
  BY <1>5, <1>6, <1>7 DEF EpochInv

LEMMA SignEnrollmentStep ==
    ASSUME EpochInv, NEW d \in Devices, NEW target \in Devices, SignEnrollment(d, target)
    PROVE  EpochInv'
<1> DEFINE e == [root |-> signed', activation |-> Current.root,
                 generation |-> NextGeneration(Current), epoch |-> Current.epoch,
                 state |-> LastView.root, prior |-> Membership,
                 target |-> target, issuer |-> d]
<1>1. TypeOK /\ Messages /\ Epochs /\ TablesOK
  BY SequencesHold DEF EpochInv
<1>2. /\ signed' = signed + 1 /\ signed \in Nat /\ signed' \in 0 .. MaxSigned
      /\ proofs' = proofs \cup {e} /\ Activated
      /\ UNCHANGED registered /\ UNCHANGED log /\ UNCHANGED views /\ UNCHANGED plans
  BY <1>1, LimitsAssumption DEF SignEnrollment, Sign, TypeOK
<1>3. e \in Proofs
  <2>1. Membership \in Registries /\ Current.epoch \in Nat /\ Current.root \in Nat
    BY <1>1, <1>2, MembershipTypes DEF TablesOK, Plans
  <2>2. NextGeneration(Current) \in Nat
    <3>1. Under(Current) \in SUBSET enrollments /\ IsFiniteSet(enrollments)
      BY <1>1 DEF Under, TypeOK
    <3>2. Cardinality(Under(Current)) \in Nat
      BY <3>1, FS_Subset, FS_CardinalityType
    <3> QED
      BY <2>1, <3>2 DEF NextGeneration
  <2>3. LastView.root \in Nat
    <3>1. History /\ Len(activations) \in 1 .. Len(activations)
      BY <1>1, <1>2 DEF EpochInv, TablesOK
    <3>2. Len(commitments) > 0
      BY <1>1, <3>1 DEF History, Continuous, InLog, TablesOK
    <3> QED
      BY <1>1, <3>2 DEF TablesOK, Views
  <2> QED
    BY <1>2, <2>1, <2>2, <2>3 DEF Proofs
<1> HIDE DEF e
<1>4. TypeOK'
  BY <1>1, <1>2, <1>3 DEF TypeOK, log
<1>5. Messages' /\ Epochs'
  <2>1. /\ \A w \in views' : w.root \in Nat /\ w.root <= signed'
        /\ \A w, x \in views' : w.root = x.root => w = x
    <3>1. \A w \in views : w.root \in Nat /\ w.root <= signed
      BY <1>1 DEF TypeOK, Views, Messages
    <3> QED
      BY <1>1, <1>2, <3>1 DEF Messages
  <2>2. /\ \A p \in plans' : p.root \in Nat /\ p.root <= signed'
        /\ \A p, q \in plans' : p.root = q.root => p = q
    <3>1. \A p \in plans : p.root \in Nat /\ p.root <= signed
      BY <1>1 DEF TypeOK, Plans, Messages
    <3> QED
      BY <1>1, <1>2, <3>1 DEF Messages
  <2> QED
    BY <1>1, <1>2, <2>1, <2>2, LogStillSigned
<1>6. Rebuilding' /\ History' /\ Gone' /\ Keys' /\ Writers'
  BY <1>2, LogKept
<1> QED
  BY <1>4, <1>5, <1>6 DEF EpochInv
-----------------------------------------------------------------------------
(***************************************************************************)
(* A view joins the log.                                                   *)
(***************************************************************************)
LEMMA AppendStep ==
    ASSUME EpochInv, NEW d \in Devices, NEW v \in views, AppendCommitment(d, v)
    PROVE  EpochInv'
<1> DEFINE n == Len(commitments)
           Q == 1 .. n
<1>1. /\ TypeOK /\ Messages /\ Epochs /\ TablesOK
      /\ Rebuilding /\ History /\ Gone /\ Keys /\ Writers
  BY SequencesHold DEF EpochInv
<1>2. /\ commitments' = Append(commitments, v) /\ v \in Views
      /\ v.sequence = n + 1 /\ v.epoch = KeyEpoch /\ v.author = Authority(d)
      /\ n < MaxCommitments /\ VaultSession(d)
      /\ UNCHANGED registered /\ UNCHANGED activations /\ UNCHANGED deliveries
      /\ UNCHANGED staged /\ UNCHANGED enrollments
      /\ UNCHANGED views /\ UNCHANGED plans /\ UNCHANGED proofs /\ UNCHANGED signed
  BY <1>1 DEF AppendCommitment, Continues, messages, TypeOK
<1>3. /\ n \in Nat
      /\ commitments' \in Seq(Views) /\ Len(commitments') = n + 1
      /\ commitments' # <<>>
      /\ \A i \in 1 .. n : commitments'[i] = commitments[i]
      /\ commitments'[n + 1] = v
      /\ \A i \in 1 .. (n + 1) : i \in 1 .. n \/ i = n + 1
  <2>1. commitments \in Seq(Views)
    BY <1>1 DEF TypeOK
  <2> QED
    BY <1>2, <2>1, AppendFacts, SeqFacts
<1>4. /\ v.epoch = FirstEpoch + Len(activations) /\ FirstEpoch \in Nat
      /\ Activated => Current.epoch = v.epoch
  BY <1>1, <1>2, KeyEpochIs
<1>5. Activated' <=> Activated
  BY <1>2 DEF Activated
<1>6. TypeOK'
  <2>1. Len(commitments') <= MaxCommitments
    BY <1>2, <1>3, LimitsAssumption
  <2> QED
    BY <1>1, <1>2, <1>3, <2>1 DEF TypeOK
<1>7. Messages'
  <2>1. \A i \in 1 .. Len(commitments') :
          commitments'[i] \in views' /\ commitments'[i].sequence = i
    BY <1>1, <1>2, <1>3 DEF Messages
  <2> QED
    BY <1>1, <1>2, <2>1 DEF Messages
<1>8. Epochs'
  <2>1. \A i \in 1 .. Len(commitments') :
          commitments'[i].epoch \in FirstEpoch .. (FirstEpoch + Len(activations))
    BY <1>1, <1>3, <1>4 DEF Epochs, TablesOK
  <2> QED
    BY <1>1, <1>2, <2>1 DEF Epochs
<1>9. \A r, s : Precedes(commitments, r, s) => Precedes(commitments', r, s)
  BY <1>3 DEF Precedes
<1>10. \A r : InLog(commitments, r) => InLog(commitments', r)
  BY <1>3 DEF InLog
<1>11. Rebuilding'
  <2> SUFFICES ASSUME Activated
               PROVE  Rebuilds(enrollments, commitments', Current)
    BY <1>2, <1>5 DEF Rebuilding, Current
  <2>1. Rebuilds(enrollments, commitments, Current)
    BY <1>1 DEF Rebuilding
  <2> QED
    BY <1>9, <2>1 DEF Rebuilds
<1>12. History'
  <2> DEFINE k_ == Len(activations)
  <2>1. Continuous(enrollments, commitments, activations)
    BY <1>1 DEF History
  <2>2. \A i \in 2 .. k_ :
          /\ activations[i].prior = FullRoster(enrollments, activations[i - 1])
          /\ Precedes(commitments', activations[i - 1].state, activations[i].state)
    BY <1>9, <2>1 DEF Continuous
  <2>3. \A k \in 1 .. k_ : InLog(commitments', activations[k].state)
    BY <1>10, <2>1 DEF Continuous
  <2>4. ASSUME NEW k \in 1 .. k_, NEW p \in 1 .. Len(commitments'),
               NEW i \in 1 .. Len(commitments'),
               commitments'[p].root = activations[k].state
        PROVE  i <= p <=> commitments'[i].epoch < activations[k].epoch
    <3>1. PICK q \in 1 .. n : commitments[q].root = activations[k].state
      BY <2>1 DEF Continuous, InLog
    <3>2. p = q
      <4>1. \A i_, j_ \in 1 .. Len(commitments') :
               commitments'[i_].root = commitments'[j_].root => i_ = j_
        <5> SUFFICES ASSUME NEW i_ \in 1 .. Len(commitments'),
                            NEW j_ \in 1 .. Len(commitments'),
                            commitments'[i_].root = commitments'[j_].root
                     PROVE  i_ = j_
          OBVIOUS
        <5>1. commitments'[i_] = commitments'[j_]
          BY <1>7 DEF Messages
        <5> QED
          BY <1>7, <5>1 DEF Messages
      <4>2. q \in 1 .. Len(commitments') /\ commitments'[q] = commitments[q]
        BY <1>3, <3>1
      <4> QED
        BY <2>4, <3>1, <4>1, <4>2
    <3>3. CASE i \in 1 .. n
      <4>1. commitments'[i] = commitments[i] /\ q \in 1 .. n
        BY <1>3, <3>1, <3>3
      <4>2. i <= q <=> commitments[i].epoch < activations[k].epoch
        BY <2>1, <3>1, <3>3 DEF Continuous
      <4> QED
        BY <3>2, <4>1, <4>2
    <3>4. CASE i = n + 1
      <4>1. ~(i <= p)
        BY <1>3, <3>1, <3>2, <3>4
      <4>2. activations[k].epoch = FirstEpoch + k /\ k_ \in Nat
        BY <1>1 DEF Epochs, TablesOK
      <4>3. ~(v.epoch < activations[k].epoch)
        BY <1>4, <4>2
      <4> QED
        BY <1>3, <3>4, <4>1, <4>3
    <3> QED
      BY <1>3, <3>3, <3>4
  <2>5. ASSUME NEW k \in 1 .. k_, NEW i \in 1 .. Len(commitments'),
               commitments'[i].epoch = activations[k].epoch
        PROVE  commitments'[i].author = activations[k].signer
    <3>1. CASE i \in 1 .. n
      BY <1>3, <2>1, <2>5, <3>1 DEF Continuous
    <3>2. CASE i = n + 1
      <4>1. activations[k].epoch = FirstEpoch + k /\ k_ \in Nat
        BY <1>1 DEF Epochs, TablesOK
      <4>2. v.epoch = activations[k].epoch
        BY <1>3, <2>5, <3>2
      <4>3. k = k_
        BY <1>4, <4>1, <4>2
      <4>4. Activated
        BY <1>1, <4>1, <4>3 DEF TablesOK
      <4>5. v.author = Current.signer
        BY <1>2, <4>4 DEF Authority
      <4> QED
        BY <1>3, <3>2, <4>3, <4>5 DEF Current
    <3> QED
      BY <1>3, <3>1, <3>2
  <2>6. Continuous(enrollments, commitments', activations)
    BY <2>2, <2>3, <2>4, <2>5 DEF Continuous
  <2> QED
    BY <1>2, <2>6 DEF History
<1>13. Gone' /\ Keys'
  BY <1>1, <1>2, <1>5 DEF Gone, Keys, Activated, Current
<1>14. Writers'
  <2>1. Activated => Current.signer \in registered
    BY <1>1 DEF Writers
  <2>2. ~Activated => commitments'[1].author \in registered
    <3> SUFFICES ASSUME ~Activated PROVE commitments'[1].author \in registered
      OBVIOUS
    <3>1. CASE commitments = <<>>
      <4>1. v.author = d /\ d \in registered /\ n = 0
        BY <1>1, <1>2, <3>1 DEF Authority, VaultSession, TablesOK
      <4> QED
        BY <1>3, <4>1
    <3>2. CASE commitments # <<>>
      <4>1. commitments'[1] = commitments[1]
        BY <1>1, <1>3, <3>2 DEF TablesOK
      <4> QED
        BY <1>1, <3>2, <4>1 DEF Writers
    <3> QED
      BY <3>1, <3>2
  <2> QED
    BY <1>2, <1>5, <2>1, <2>2 DEF Writers, Activated, Current
<1> QED
  BY <1>6, <1>7, <1>8, <1>11, <1>12, <1>13, <1>14 DEF EpochInv
-----------------------------------------------------------------------------
(***************************************************************************)
(* A delivery is staged.                                                   *)
(***************************************************************************)
LEMMA RoomIsMade ==
    ASSUME TypeOK, NEW plan,
           Len(staged) < MaxStaged \/ StagedFor(plan) # DOMAIN staged
    PROVE  /\ Rows(plan) \in Seq(StagedRows) /\ Len(Rows(plan)) < MaxStaged
           /\ \A n \in 1 .. Len(Rows(plan)) :
                 \E i \in 1 .. Len(staged) : Rows(plan)[n] = staged[i]
<1>1. /\ staged \in Seq(StagedRows) /\ Len(staged) \in Nat /\ Len(staged) <= MaxStaged
      /\ DOMAIN staged = 1 .. Len(staged) /\ MaxStaged \in Nat
  BY SeqFacts, LimitsAssumption DEF TypeOK, StagedRows
<1>2. CASE Len(staged) < MaxStaged
  BY <1>1, <1>2 DEF Rows
<1>3. CASE ~(Len(staged) < MaxStaged)
  <2> DEFINE others == DOMAIN staged \ StagedFor(plan)
             oldest == CHOOSE i \in others : \A j \in others : i <= j
             I == {i \in DOMAIN staged : staged[i].plan # staged[oldest].plan}
  <2>1. others # {} /\ others \in SUBSET (1 .. Len(staged))
    BY <1>1, <1>3 DEF StagedFor
  <2>2. \E i \in others : \A j \in others : i <= j
    <3>1. Len(staged) \in Nat
      BY <1>1
    <3> HIDE DEF others
    <3> QED
      BY <2>1, <3>1, Least
  <2>3. oldest \in others
    BY <2>2
  <2>4. I \in SUBSET (1 .. Len(staged)) /\ oldest \notin I /\ oldest \in 1 .. Len(staged)
    BY <1>1, <2>1, <2>3
  <2>5. Rows(plan) = RowsAt(I)
    BY <1>3 DEF Rows
  <2> HIDE DEF I, oldest, others
  <2>6. /\ RowsAt(I) \in Seq(StagedRows)
        /\ Len(RowsAt(I)) = Cardinality(I) /\ Cardinality(I) \in 0 .. Len(staged)
        /\ \A n \in 1 .. Len(RowsAt(I)) : \E i \in I : RowsAt(I)[n] = staged[i]
    BY <1>1, <2>4, RowsLeft
  <2>7. Cardinality(I) < Len(staged)
    <3>1. IsFiniteSet(1 .. Len(staged)) /\ Cardinality(1 .. Len(staged)) = Len(staged)
      <4>1. Len(staged) \in Nat
        BY <1>1
      <4> QED
        BY <4>1, FirstNumbers
    <3>2. Cardinality(I) # Len(staged)
      BY <2>4, <3>1, FS_Subset
    <3> QED
      BY <1>1, <2>6, <3>2
  <2> QED
    BY <1>1, <2>4, <2>5, <2>6, <2>7
<1> QED
  BY <1>2, <1>3

LEMMA StageStep ==
    ASSUME EpochInv, NEW plan \in plans, NEW r \in Devices, StageDelivery(plan, r)
    PROVE  EpochInv'
<1> DEFINE row == [plan |-> plan.root, epoch |-> plan.epoch, recipient |-> r]
<1>1. /\ TypeOK /\ Messages /\ Epochs /\ TablesOK
      /\ Rebuilding /\ History /\ Gone /\ Keys /\ Writers
  BY SequencesHold DEF EpochInv
<1>2. /\ staged' = Append(Rows(plan), row) /\ NotYetActivated(plan)
      /\ Len(staged) < MaxStaged \/ StagedFor(plan) # DOMAIN staged
      /\ UNCHANGED registered /\ UNCHANGED commitments /\ UNCHANGED activations
      /\ UNCHANGED deliveries /\ UNCHANGED enrollments
      /\ UNCHANGED views /\ UNCHANGED plans /\ UNCHANGED proofs /\ UNCHANGED signed
  BY DEF StageDelivery, messages
<1>3. /\ Rows(plan) \in Seq(StagedRows) /\ Len(Rows(plan)) < MaxStaged
      /\ \A n \in 1 .. Len(Rows(plan)) :
            \E i \in 1 .. Len(staged) : Rows(plan)[n] = staged[i]
  BY <1>1, <1>2, RoomIsMade
<1>4. row \in StagedRows
  BY <1>1 DEF TypeOK, Plans, StagedRows
<1>5. plan.epoch = FirstEpoch + Len(activations) + 1
  <2>1. /\ plan.epoch \in (FirstEpoch + 1) .. (FirstEpoch + Len(activations) + 1)
        /\ FirstEpoch \in Nat /\ Len(activations) \in Nat
        /\ \A i \in 1 .. Len(activations) : activations[i].epoch = FirstEpoch + i
    BY <1>1, LimitsAssumption DEF Epochs, TablesOK
  <2>2. \A i \in 1 .. Len(activations) : FirstEpoch + i # plan.epoch
    BY <1>1, <1>2, <2>1 DEF NotYetActivated, TablesOK
  <2>3. (plan.epoch - FirstEpoch) \notin 1 .. Len(activations)
    BY <2>1, <2>2
  <2>4. \A e \in Int, f, n \in Nat :
          e \in (f + 1) .. (f + n + 1) /\ (e - f) \notin 1 .. n => e = f + n + 1
    OBVIOUS
  <2>5. plan.epoch \in Int
    BY <2>1
  <2> QED
    BY <2>1, <2>3, <2>4, <2>5
<1>6. row.epoch = plan.epoch
  OBVIOUS
<1> HIDE DEF row
<1>7. /\ staged' \in Seq(StagedRows) /\ Len(staged') = Len(Rows(plan)) + 1
      /\ \A i \in 1 .. Len(Rows(plan)) : staged'[i] = Rows(plan)[i]
      /\ staged'[Len(Rows(plan)) + 1] = row
      /\ \A i \in 1 .. (Len(Rows(plan)) + 1) :
            i \in 1 .. Len(Rows(plan)) \/ i = Len(Rows(plan)) + 1
  BY <1>2, <1>3, <1>4, AppendFacts
<1>8. TypeOK'
  <2>1. Len(staged') <= MaxStaged
    <3>1. Len(Rows(plan)) \in Nat /\ MaxStaged \in Nat
      BY <1>3, SeqFacts, LimitsAssumption
    <3> QED
      BY <1>3, <1>7, <3>1
  <2> QED
    BY <1>1, <1>2, <1>7, <2>1 DEF TypeOK, StagedRows
<1>9. Messages'
  BY <1>1, <1>2 DEF Messages
<1>10. Epochs'
  <2>1. \A i \in 1 .. Len(staged') : staged'[i].epoch = FirstEpoch + Len(activations) + 1
    BY <1>1, <1>3, <1>5, <1>6, <1>7 DEF Epochs
  <2> QED
    BY <1>1, <1>2, <2>1 DEF Epochs
<1>11. Rebuilding' /\ History' /\ Gone' /\ Keys' /\ Writers'
  BY <1>1, <1>2 DEF Rebuilding, History, Gone, Keys, Writers, Activated, Current
<1> QED
  BY <1>8, <1>9, <1>10, <1>11 DEF EpochInv
-----------------------------------------------------------------------------
(***************************************************************************)
(* An activation is accepted with its deliveries.                          *)
(***************************************************************************)
Delivered(plan) ==
    {[epoch |-> plan.epoch, recipient |-> staged[i].recipient] : i \in StagedFor(plan)}

LEMMA DeliveredFacts ==
    ASSUME TypeOK, NEW plan \in Plans, AllPrepared(plan)
    PROVE  /\ Delivered(plan) =
                 {[epoch |-> plan.epoch, recipient |-> d] : d \in Recipients(plan)}
           /\ Delivered(plan) \in SUBSET [epoch : Nat, recipient : Devices]
           /\ IsFiniteSet(Delivered(plan))
           /\ Cardinality(Delivered(plan)) = Cardinality(Recipients(plan))
<1> DEFINE F == StagedFor(plan)
           R == Recipients(plan)
           T == {[epoch |-> plan.epoch, recipient |-> d] : d \in R}
           f == [i \in F |-> staged[i].recipient]
           g == [d \in R |-> [epoch |-> plan.epoch, recipient |-> d]]
<1>1. TablesOK /\ R \subseteq Devices /\ plan.epoch \in Nat
  BY SequencesHold DEF Recipients, ActiveIn, Plans
<1>2. {staged[i].recipient : i \in F} = R
  BY DEF AllPrepared
<1>3. IsFiniteSet(F)
  <2>1. F \in SUBSET (1 .. Len(staged)) /\ Len(staged) \in Nat
    BY <1>1 DEF StagedFor, TablesOK
  <2> HIDE DEF F
  <2> QED
    BY <2>1, Ranked
<1>4. Delivered(plan) = T
  <2> HIDE DEF F, R
  <2>1. Delivered(plan) = {[epoch |-> plan.epoch, recipient |-> staged[i].recipient] : i \in F}
    BY DEF Delivered, F
  <2>2. \A i \in F : staged[i].recipient \in R
    BY <1>2
  <2>3. \A d \in R : \E i \in F : staged[i].recipient = d
    BY <1>2
  <2> QED
    BY <2>1, <2>2, <2>3
<1> HIDE DEF F, R
<1>5. f \in Surjection(F, R)
  <2>1. \A i \in F : staged[i].recipient \in R
    BY <1>2
  <2>2. \A d \in R : \E i \in F : staged[i].recipient = d
    BY <1>2
  <2>3. f \in [F -> R] /\ \A d \in R : \E i \in F : f[i] = d
    BY <2>1, <2>2
  <2> QED
    BY <2>3 DEF Surjection
<1>6. IsFiniteSet(R)
  BY <1>3, <1>5, FS_Surjection
<1>7. g \in Bijection(R, T)
  <2>1. g \in [R -> T] /\ \A t \in T : \E d \in R : g[d] = t
    OBVIOUS
  <2>2. \A d, e \in R : g[d] = g[e] => d = e
    <3> SUFFICES ASSUME NEW d \in R, NEW e \in R, g[d] = g[e] PROVE d = e
      OBVIOUS
    <3>1. g[d].recipient = d /\ g[e].recipient = e
      OBVIOUS
    <3> QED
      BY <3>1
  <2> QED
    BY <2>1, <2>2 DEF Bijection, Injection, Surjection, IsInjective
<1>8. IsFiniteSet(T) /\ Cardinality(T) = Cardinality(R)
  BY <1>6, <1>7, FS_Bijection DEF ExistsBijection
<1>9. T \in SUBSET [epoch : Nat, recipient : Devices]
  BY <1>1
<1> QED
  BY <1>4, <1>8, <1>9 DEF R

LEMMA ActivateStep ==
    ASSUME EpochInv, NEW plan \in plans, AcceptActivation(plan)
    PROVE  EpochInv'
<1> DEFINE n == Len(activations)
<1>1. /\ TypeOK /\ Messages /\ Epochs /\ TablesOK
      /\ Rebuilding /\ History /\ Gone /\ Keys /\ Writers
  BY SequencesHold DEF EpochInv
<1>2. /\ activations' = Append(activations, plan) /\ plan \in Plans
      /\ deliveries' = deliveries \cup Delivered(plan)
      /\ staged' = StagedLater(plan) /\ commitments # <<>>
      /\ VaultSession(plan.signer) /\ Follows(plan) /\ AllPrepared(plan)
      /\ Cardinality(deliveries) + Cardinality(Recipients(plan)) <= MaxRows
      /\ UNCHANGED registered /\ UNCHANGED commitments /\ UNCHANGED enrollments
      /\ UNCHANGED views /\ UNCHANGED plans /\ UNCHANGED proofs /\ UNCHANGED signed
  BY <1>1 DEF AcceptActivation, Delivered, messages, TypeOK
<1>3. /\ n \in Nat
      /\ activations' \in Seq(Plans) /\ Len(activations') = n + 1
      /\ activations' # <<>>
      /\ \A i \in 1 .. n : activations'[i] = activations[i]
      /\ activations'[n + 1] = plan
      /\ \A i \in 1 .. (n + 1) : i \in 1 .. n \/ i = n + 1
  <2>1. activations \in Seq(Plans)
    BY <1>1 DEF TypeOK
  <2> QED
    BY <1>2, <2>1, AppendFacts, SeqFacts
<1>4. Activated' /\ Current' = plan
  BY <1>2, <1>3 DEF Activated, Current
<1>5. /\ KeyEpoch = FirstEpoch + n /\ FirstEpoch \in Nat
      /\ plan.epoch = FirstEpoch + n + 1 /\ plan.prior = Membership
      /\ plan.state = LastView.root
      /\ MayRemove(plan.prior, plan.target, plan.signer)
  BY <1>1, <1>2, <1>3, KeyEpochIs DEF Follows
<1>6. Enrolled(enrollments, plan) = {}
  BY <1>1, <1>5, PlansDiffer
<1>7. /\ FullRoster(enrollments, plan) = Removed(plan)
      /\ \A d \in Devices : Removed(plan)[d] = IF d = plan.target THEN "REVOKED"
                                               ELSE plan.prior[d]
  BY <1>2, <1>6 DEF FullRoster, RosterOf, Removed, Plans, Registries
<1>8. staged' = <<>>
  <2>1. {i \in DOMAIN staged : staged[i].epoch > plan.epoch} = {}
    <3>1. \A i \in 1 .. Len(staged) : staged[i].epoch = FirstEpoch + n + 1
      BY <1>1 DEF Epochs
    <3>2. \A i \in 1 .. Len(staged) : ~(staged[i].epoch > plan.epoch)
      BY <1>3, <1>5, <3>1
    <3> QED
      BY <1>1, <3>2 DEF TablesOK
  <2>2. staged' = RowsAt({})
    BY <1>2, <2>1 DEF StagedLater
  <2>3. Len(RowsAt({})) = 0 /\ RowsAt({}) \in Seq(StagedRows)
    <3>1. staged \in Seq(StagedRows) /\ {} \in SUBSET DOMAIN staged
      BY <1>1 DEF TypeOK, StagedRows
    <3> QED
      BY <3>1, RowsLeft, FS_EmptySet
  <2> QED
    BY <2>2, <2>3, EmptySeq
<1>9. TypeOK'
  <2>1. /\ Delivered(plan) \in SUBSET [epoch : Nat, recipient : Devices]
        /\ IsFiniteSet(Delivered(plan))
        /\ Cardinality(Delivered(plan)) = Cardinality(Recipients(plan))
    BY <1>1, <1>2, DeliveredFacts
  <2>2. IsFiniteSet(deliveries') /\ Cardinality(deliveries') <= MaxRows
    <3>1. IsFiniteSet(deliveries)
      BY <1>1 DEF TypeOK
    <3>2. /\ IsFiniteSet(deliveries')
          /\ Cardinality(deliveries') = Cardinality(deliveries)
                + Cardinality(Delivered(plan)) - Cardinality(deliveries \cap Delivered(plan))
      BY <1>2, <2>1, <3>1, FS_Union
    <3>3. Cardinality(deliveries \cap Delivered(plan)) \in Nat
      <4>1. deliveries \cap Delivered(plan) \in SUBSET deliveries
        OBVIOUS
      <4> QED
        BY <3>1, <4>1, FS_Subset, FS_CardinalityType
    <3>4. /\ Cardinality(deliveries) \in Nat /\ Cardinality(Recipients(plan)) \in Nat
          /\ MaxRows \in Nat
      BY <2>1, <3>1, FS_CardinalityType, LimitsAssumption
    <3> QED
      BY <1>2, <2>1, <3>2, <3>3, <3>4
  <2>3. deliveries' \in SUBSET [epoch : Nat, recipient : Devices]
    BY <1>1, <1>2, <2>1 DEF TypeOK
  <2>4. /\ staged' \in Seq([plan : Nat, epoch : Nat, recipient : Devices])
        /\ Len(staged') <= MaxStaged
    BY <1>8, EmptySeq, LimitsAssumption
  <2> QED
    BY <1>1, <1>2, <1>3, <2>2, <2>3, <2>4 DEF TypeOK
<1>10. Messages'
  <2>1. \A i \in 1 .. Len(activations') : activations'[i] \in plans
    BY <1>1, <1>3 DEF Messages
  <2>2. \A e \in enrollments :
          \E i \in 1 .. Len(activations') : e.activation = activations'[i].root
    <3> SUFFICES ASSUME NEW e \in enrollments
                 PROVE  \E i \in 1 .. Len(activations') : e.activation = activations'[i].root
      OBVIOUS
    <3>1. PICK i \in 1 .. n : e.activation = activations[i].root
      BY <1>1 DEF Messages
    <3> QED
      BY <1>3, <3>1
  <2> QED
    BY <1>1, <1>2, <2>1, <2>2 DEF Messages
<1>11. Epochs'
  <2>1. \A i \in 1 .. Len(activations') : activations'[i].epoch = FirstEpoch + i
    <3> SUFFICES ASSUME NEW i \in 1 .. (n + 1)
                 PROVE  activations'[i].epoch = FirstEpoch + i
      BY <1>3
    <3>1. CASE i \in 1 .. n
      BY <1>1, <1>3, <3>1 DEF Epochs
    <3>2. CASE i = n + 1
      <4>1. activations'[i] = plan /\ n \in Nat /\ FirstEpoch \in Nat
        BY <1>3, <1>5, <3>2
      <4> QED
        BY <1>5, <3>2, <4>1
    <3> QED
      BY <1>3, <3>1, <3>2
  <2>2. \A i \in 1 .. Len(commitments) :
          commitments[i].epoch \in FirstEpoch .. (FirstEpoch + Len(activations'))
    BY <1>1, <1>3, <1>5 DEF Epochs
  <2>3. \A p \in plans :
          p.epoch \in (FirstEpoch + 1) .. (FirstEpoch + Len(activations') + 1)
    BY <1>1, <1>3, <1>5 DEF Epochs
  <2>4. Len(staged') = 0
    BY <1>8, EmptySeq
  <2> QED
    BY <1>2, <2>1, <2>2, <2>3, <2>4 DEF Epochs
<1>12. Rebuilding'
  <2>1. Rebuilds(enrollments, commitments, plan)
    BY <1>5, <1>6 DEF Rebuilds
  <2> QED
    BY <1>2, <1>4, <2>1 DEF Rebuilding
<1>13. /\ Len(commitments) \in 1 .. Len(commitments)
       /\ commitments[Len(commitments)].root = plan.state
       /\ \A i, j \in 1 .. Len(commitments) :
             commitments[i].root = commitments[j].root => i = j
  BY <1>1, <1>2, <1>5, RootsDiffer DEF TablesOK, LastView
<1>14. History'
  <2>1. Continuous(enrollments, commitments, activations)
    BY <1>1 DEF History
  <2>2. ASSUME NEW i \in 2 .. Len(activations')
        PROVE  /\ activations'[i].prior = FullRoster(enrollments, activations'[i - 1])
               /\ Precedes(commitments, activations'[i - 1].state, activations'[i].state)
    <3>1. CASE i \in 2 .. n
      <4>1. activations'[i] = activations[i] /\ activations'[i - 1] = activations[i - 1]
        BY <1>3, <3>1
      <4> QED
        BY <2>1, <3>1, <4>1 DEF Continuous
    <3>2. CASE i = n + 1
      <4>1. n \in 1 .. n /\ i - 1 = n
        BY <1>3, <2>2, <3>2
      <4>2. activations'[i] = plan /\ activations'[i - 1] = Current /\ Activated
        BY <1>1, <1>3, <3>2, <4>1 DEF Current, TablesOK
      <4>3. plan.prior = FullRoster(enrollments, Current)
        BY <1>5, <4>2, Restated
      <4>4. Precedes(commitments, activations[n].state, plan.state)
        <5>1. PICK p \in 1 .. Len(commitments) : commitments[p].root = activations[n].state
          BY <2>1, <4>1 DEF Continuous, InLog
        <5>2. p <= Len(commitments)
          BY <5>1
        <5> QED
          BY <1>13, <5>1, <5>2 DEF Precedes
      <4> QED
        BY <4>2, <4>3, <4>4 DEF Current
    <3> QED
      BY <1>3, <3>1, <3>2
  <2>3. \A k \in 1 .. Len(activations') : InLog(commitments, activations'[k].state)
    <3>1. InLog(commitments, plan.state)
      BY <1>13 DEF InLog
    <3> QED
      BY <1>3, <2>1, <3>1 DEF Continuous
  <2>4. \A i \in 1 .. Len(commitments) : commitments[i].epoch < plan.epoch
    <3> TAKE i \in 1 .. Len(commitments)
    <3>1. commitments[i].epoch \in FirstEpoch .. (FirstEpoch + n)
      BY <1>1 DEF Epochs
    <3> QED
      BY <1>3, <1>5, <3>1
  <2>5. ASSUME NEW k \in 1 .. Len(activations'), NEW p \in 1 .. Len(commitments),
               NEW i \in 1 .. Len(commitments),
               commitments[p].root = activations'[k].state
        PROVE  i <= p <=> commitments[i].epoch < activations'[k].epoch
    <3>1. CASE k \in 1 .. n
      BY <1>3, <2>1, <2>5, <3>1 DEF Continuous
    <3>2. CASE k = n + 1
      <4>1. p = Len(commitments)
        BY <1>3, <1>13, <2>5, <3>2
      <4>2. i <= p
        BY <4>1
      <4> QED
        BY <1>3, <2>4, <3>2, <4>2
    <3> QED
      BY <1>3, <3>1, <3>2
  <2>6. ASSUME NEW k \in 1 .. Len(activations'), NEW i \in 1 .. Len(commitments),
               commitments[i].epoch = activations'[k].epoch
        PROVE  commitments[i].author = activations'[k].signer
    <3>1. CASE k \in 1 .. n
      BY <1>3, <2>1, <2>6, <3>1 DEF Continuous
    <3>2. CASE k = n + 1
      <4>1. commitments[i].epoch = plan.epoch /\ commitments[i].epoch < plan.epoch
        BY <1>3, <2>4, <2>6, <3>2
      <4>2. plan.epoch \in Nat
        BY <1>2 DEF Plans
      <4> QED
        BY <4>1, <4>2
    <3> QED
      BY <1>3, <3>1, <3>2
  <2>7. Continuous(enrollments, commitments, activations')
    BY <2>2, <2>3, <2>5, <2>6 DEF Continuous
  <2> QED
    BY <1>2, <2>7 DEF History
<1>15. Gone'
  <2>1. \A i \in 1 .. (n + 1) :
          FullRoster(enrollments, plan)[activations'[i].target] = "REVOKED"
    <3> SUFFICES ASSUME NEW i \in 1 .. (n + 1)
                 PROVE  Removed(plan)[activations'[i].target] = "REVOKED"
      BY <1>7
    <3>1. CASE i \in 1 .. n
      <4>1. activations'[i] = activations[i] /\ activations[i] \in Plans /\ Activated
        BY <1>1, <1>3, <3>1 DEF TablesOK
      <4>2. FullRoster(enrollments, Current)[activations[i].target] = "REVOKED"
        BY <1>1, <3>1 DEF Gone
      <4>3. plan.prior[activations[i].target] = "REVOKED"
        BY <1>5, <4>1, <4>2, Restated
      <4>4. activations[i].target \in Devices
        BY <4>1 DEF Plans
      <4> QED
        BY <1>7, <4>1, <4>3, <4>4
    <3>2. CASE i = n + 1
      BY <1>2, <1>3, <1>7, <3>2 DEF Plans
    <3> QED
      BY <1>3, <3>1, <3>2
  <2> QED
    BY <1>2, <1>3, <1>4, <2>1 DEF Gone
<1>16. Keys'
  <2>1. \A d \in ActiveIn(FullRoster(enrollments, plan)) :
          [epoch |-> plan.epoch, recipient |-> d] \in deliveries'
    <3>1. ActiveIn(FullRoster(enrollments, plan)) = Recipients(plan)
      BY <1>7 DEF Recipients
    <3>2. Delivered(plan) =
             {[epoch |-> plan.epoch, recipient |-> d] : d \in Recipients(plan)}
      BY <1>1, <1>2, DeliveredFacts
    <3> QED
      BY <1>2, <3>1, <3>2
  <2> QED
    BY <1>2, <1>4, <2>1 DEF Keys
<1>17. Writers'
  BY <1>2, <1>4 DEF Writers, VaultSession
<1> QED
  BY <1>9, <1>10, <1>11, <1>12, <1>14, <1>15, <1>16, <1>17 DEF EpochInv
-----------------------------------------------------------------------------
(***************************************************************************)
(* An enrollment is accepted.                                              *)
(***************************************************************************)
LEMMA EnrolledFinite ==
    ASSUME TypeOK, NEW plan \in Plans
    PROVE  /\ Enrolled(enrollments, plan) \in SUBSET Proofs
           /\ IsFiniteSet(Enrolled(enrollments, plan))
           /\ Cardinality(Enrolled(enrollments, plan)) \in Nat
           /\ NextOf(enrollments, plan) \in Nat /\ plan.epoch <= NextOf(enrollments, plan)
<1>1. Enrolled(enrollments, plan) \in SUBSET enrollments
  BY DEF Enrolled
<1>2. IsFiniteSet(enrollments) /\ enrollments \in SUBSET Proofs
  BY DEF TypeOK
<1>3. /\ IsFiniteSet(Enrolled(enrollments, plan))
      /\ Cardinality(Enrolled(enrollments, plan)) \in Nat
  BY <1>1, <1>2, FS_Subset, FS_CardinalityType
<1>4. plan.epoch \in Nat
  BY DEF Plans
<1> QED
  BY <1>1, <1>2, <1>3, <1>4 DEF NextOf

LEMMA EnrollStep ==
    ASSUME EpochInv, NEW proof \in proofs, AcceptEnrollment(proof)
    PROVE  EpochInv'
<1> DEFINE rows == enrollments \cup {proof}
           k_ == Len(activations)
           next == NextOf(enrollments, Current)
<1>1. /\ TypeOK /\ Messages /\ Epochs /\ TablesOK
      /\ Rebuilding /\ History /\ Gone /\ Keys /\ Writers
  BY SequencesHold DEF EpochInv
<1>2. /\ enrollments' = rows /\ proof \in Proofs /\ Activated /\ Fits(proof)
      /\ UNCHANGED registered /\ UNCHANGED commitments /\ UNCHANGED activations
      /\ UNCHANGED deliveries /\ UNCHANGED staged
      /\ UNCHANGED views /\ UNCHANGED plans /\ UNCHANGED proofs /\ UNCHANGED signed
  BY <1>1 DEF AcceptEnrollment, messages, TypeOK
<1>3. /\ Current \in Plans /\ k_ \in 1 .. k_ /\ k_ \in Nat /\ Current = activations[k_]
      /\ Activated'
  BY <1>1, <1>2 DEF TablesOK, Current, Activated
<1>4. /\ proof.activation = Current.root /\ proof.epoch = Current.epoch
      /\ proof.generation = next
      /\ proof.prior = FullRoster(enrollments, Current)
      /\ FullRoster(enrollments, Current)[proof.target] = "absent"
      /\ FullRoster(enrollments, Current)[proof.issuer] = "ACTIVE"
      /\ proof.state = LastView.root
  BY <1>2, Restated DEF Fits, Attested, FullRoster
<1>5. /\ Enrolled(enrollments, Current) \in SUBSET Proofs
      /\ IsFiniteSet(Enrolled(enrollments, Current)) /\ next \in Nat
      /\ Current.epoch \in Nat /\ Current.epoch <= next
  BY <1>1, <1>3, EnrolledFinite DEF Plans
<1>6. Rebuilds(enrollments, commitments, Current)
  BY <1>1, <1>2 DEF Rebuilding
<1>7. \A e \in Enrolled(enrollments, Current) :
          e.generation \in Nat /\ e.generation < next
  BY <1>5, <1>6 DEF Rebuilds
<1>8. proof \notin Enrolled(enrollments, Current)
  BY <1>4, <1>5, <1>7
<1>9. Enrolled(rows, Current) = Enrolled(enrollments, Current) \cup {proof}
  BY <1>4 DEF Enrolled
<1>10. NextOf(rows, Current) = next + 1
  <2>1. Cardinality(Enrolled(rows, Current)) = Cardinality(Enrolled(enrollments, Current)) + 1
    BY <1>5, <1>8, <1>9, FS_AddElement
  <2>2. Cardinality(Enrolled(enrollments, Current)) \in Nat
    BY <1>5, FS_CardinalityType
  <2> QED
    BY <1>5, <2>1, <2>2 DEF NextOf
<1>11. \A i \in 1 .. k_ : i # k_ =>
          /\ Enrolled(rows, activations[i]) = Enrolled(enrollments, activations[i])
          /\ FullRoster(rows, activations[i]) = FullRoster(enrollments, activations[i])
  <2> SUFFICES ASSUME NEW i \in 1 .. k_, i # k_
               PROVE  /\ Enrolled(rows, activations[i]) = Enrolled(enrollments, activations[i])
                      /\ FullRoster(rows, activations[i])
                            = FullRoster(enrollments, activations[i])
    OBVIOUS
  <2>1. activations[i].root # Current.root
    BY <1>1, <1>3, PlansDiffer
  <2>2. Enrolled(rows, activations[i]) = Enrolled(enrollments, activations[i])
    BY <1>4, <2>1 DEF Enrolled
  <2> QED
    BY <2>2 DEF FullRoster, RosterOf, NextOf
<1>12. \A g \in Nat : g <= next =>
          RosterOf(rows, Current, g) = RosterOf(enrollments, Current, g)
  <2> SUFFICES ASSUME NEW g \in Nat, g <= next
               PROVE  RosterOf(rows, Current, g) = RosterOf(enrollments, Current, g)
    OBVIOUS
  <2>1. ~(proof.generation < g)
    BY <1>4, <1>5
  <2> HIDE DEF rows
  <2> QED
    BY <1>9, <2>1 DEF RosterOf
<1>13. \A d \in Devices :
          FullRoster(rows, Current)[d] =
             IF d = proof.target THEN "ACTIVE" ELSE FullRoster(enrollments, Current)[d]
  <2> TAKE d \in Devices
  <2>1. (\E e \in Enrolled(rows, Current) : e.generation < next + 1 /\ e.target = d)
           <=> \/ d = proof.target
               \/ \E e \in Enrolled(enrollments, Current) : e.generation < next /\ e.target = d
    <3>1. \A e \in Enrolled(enrollments, Current) :
             e.generation < next /\ e.generation < next + 1
      BY <1>5, <1>7
    <3>2. proof.generation < next + 1
      BY <1>4, <1>5
    <3> HIDE DEF rows, next
    <3> QED
      BY <1>9, <3>1, <3>2
  <2>2. /\ FullRoster(rows, Current)[d] =
             IF \E e \in Enrolled(rows, Current) : e.generation < next + 1 /\ e.target = d
             THEN "ACTIVE" ELSE Removed(Current)[d]
        /\ FullRoster(enrollments, Current)[d] =
             IF \E e \in Enrolled(enrollments, Current) : e.generation < next /\ e.target = d
             THEN "ACTIVE" ELSE Removed(Current)[d]
    BY <1>10 DEF FullRoster, RosterOf
  <2> HIDE DEF rows, next
  <2> QED
    BY <2>1, <2>2
<1>14. proof.target \in Devices
  BY <1>2 DEF Proofs
<1>15. TypeOK'
  <2>1. IsFiniteSet(rows)
    BY <1>1, FS_AddElement DEF TypeOK
  <2> QED
    BY <1>1, <1>2, <2>1 DEF TypeOK
<1>16. Messages'
  <2>1. \A e \in rows : \E i \in 1 .. k_ : e.activation = activations[i].root
    BY <1>1, <1>3, <1>4 DEF Messages
  <2> QED
    BY <1>1, <1>2, <2>1 DEF Messages
<1>17. Epochs'
  BY <1>1, <1>2 DEF Epochs
<1>18. Rebuilding'
  <2>1. InLog(commitments, LastView.root) /\ Len(commitments) \in 1 .. Len(commitments)
        /\ commitments[Len(commitments)].root = LastView.root
    <3>1. InLog(commitments, Current.state)
      BY <1>1, <1>3 DEF History, Continuous
    <3>2. Len(commitments) \in 1 .. Len(commitments)
      BY <1>1, <3>1 DEF InLog, TablesOK
    <3> QED
      BY <3>2 DEF InLog, LastView
  <2>2. \A r : InLog(commitments, r) => Precedes(commitments, r, proof.state)
    <3> SUFFICES ASSUME NEW r, InLog(commitments, r)
                 PROVE  Precedes(commitments, r, proof.state)
      OBVIOUS
    <3>1. PICK i \in 1 .. Len(commitments) : commitments[i].root = r
      BY DEF InLog
    <3>2. i <= Len(commitments)
      BY <3>1
    <3> QED
      BY <1>4, <2>1, <3>1, <3>2 DEF Precedes
  <2>3. Precedes(commitments, Current.state, proof.state)
    BY <1>1, <1>3, <2>2 DEF History, Continuous
  <2>4. \A e \in Enrolled(enrollments, Current) : Precedes(commitments, e.state, proof.state)
    <3> TAKE e \in Enrolled(enrollments, Current)
    <3>1. InLog(commitments, e.state)
      BY <1>6 DEF Rebuilds, Precedes, InLog
    <3> QED
      BY <2>2, <3>1
  <2>5. ASSUME NEW e \in Enrolled(rows, Current)
        PROVE  /\ e.generation \in Current.epoch .. (NextOf(rows, Current) - 1)
               /\ Issued(rows, e, Current)
               /\ Precedes(commitments, Current.state, e.state)
    <3>1. CASE e \in Enrolled(enrollments, Current)
      <4>1. /\ e.generation \in Current.epoch .. (next - 1)
            /\ Issued(enrollments, e, Current)
            /\ Precedes(commitments, Current.state, e.state)
        BY <1>6, <3>1 DEF Rebuilds
      <4>2. RosterOf(rows, Current, e.generation) = RosterOf(enrollments, Current, e.generation)
        <5>1. e.generation \in Nat /\ e.generation <= next
          BY <1>5, <1>7, <3>1
        <5> QED
          BY <1>12, <5>1
      <4>3. Issued(rows, e, Current)
        BY <4>1, <4>2 DEF Issued
      <4>4. e.generation \in Current.epoch .. (NextOf(rows, Current) - 1)
        BY <1>5, <1>10, <4>1
      <4> QED
        BY <4>1, <4>3, <4>4
    <3>2. CASE e = proof
      <4>1. RosterOf(rows, Current, next) = FullRoster(enrollments, Current)
        <5>1. next <= next
          BY <1>5
        <5> QED
          BY <1>5, <1>12, <5>1 DEF FullRoster
      <4>2. Issued(rows, e, Current)
        BY <1>4, <3>2, <4>1 DEF Issued
      <4>3. e.generation \in Current.epoch .. (NextOf(rows, Current) - 1)
        BY <1>4, <1>5, <1>10, <3>2
      <4> QED
        BY <2>3, <3>2, <4>2, <4>3
    <3> QED
      BY <1>9, <3>1, <3>2
  <2>6. ASSUME NEW e \in Enrolled(rows, Current), NEW f \in Enrolled(rows, Current), e # f
        PROVE  /\ f.generation # e.generation
               /\ f.generation < e.generation => Precedes(commitments, f.state, e.state)
    <3>1. CASE e \in Enrolled(enrollments, Current) /\ f \in Enrolled(enrollments, Current)
      BY <1>6, <2>6, <3>1 DEF Rebuilds
    <3>2. CASE e = proof /\ f \in Enrolled(enrollments, Current)
      <4>1. f.generation < next /\ f.generation \in Nat
        BY <1>7, <3>2
      <4> QED
        BY <1>4, <1>5, <2>4, <3>2, <4>1
    <3>3. CASE f = proof /\ e \in Enrolled(enrollments, Current)
      <4>1. e.generation < next /\ e.generation \in Nat
        BY <1>7, <3>3
      <4> QED
        BY <1>4, <1>5, <3>3, <4>1
    <3> QED
      BY <1>9, <2>6, <3>1, <3>2, <3>3
  <2>7. Rebuilds(rows, commitments, Current)
    <3>1. MayRemove(Current.prior, Current.target, Current.signer)
      BY <1>6 DEF Rebuilds
    <3> QED
      BY <2>5, <2>6, <3>1 DEF Rebuilds
  <2> QED
    BY <1>2, <2>7 DEF Rebuilding, Current
<1>19. History'
  <2>1. Continuous(enrollments, commitments, activations)
    BY <1>1 DEF History
  <2>2. \A i \in 2 .. k_ : activations[i].prior = FullRoster(rows, activations[i - 1])
    <3> TAKE i \in 2 .. k_
    <3>1. i - 1 \in 1 .. k_ /\ i - 1 # k_
      BY <1>3
    <3> QED
      BY <1>11, <2>1, <3>1 DEF Continuous
  <2> HIDE DEF rows
  <2>3. Continuous(rows, commitments, activations)
    BY <2>1, <2>2 DEF Continuous
  <2> QED
    BY <1>2, <2>3 DEF History
<1>20. Gone'
  <2>1. \A i \in 1 .. k_ : FullRoster(rows, Current)[activations[i].target] = "REVOKED"
    <3> TAKE i \in 1 .. k_
    <3>1. FullRoster(enrollments, Current)[activations[i].target] = "REVOKED"
      BY <1>1 DEF Gone
    <3>2. activations[i].target # proof.target
      BY <1>4, <3>1
    <3>3. activations[i].target \in Devices
      BY <1>1 DEF TablesOK, Plans
    <3> QED
      BY <1>13, <3>1, <3>2, <3>3
  <2> QED
    BY <1>2, <2>1 DEF Gone, Current
<1>21. Keys'
  <2>1. \A d \in ActiveIn(FullRoster(rows, Current)) :
          \/ [epoch |-> Current.epoch, recipient |-> d] \in deliveries
          \/ \E e \in Enrolled(rows, Current) : e.target = d
    <3> TAKE d \in ActiveIn(FullRoster(rows, Current))
    <3>1. CASE d = proof.target
      BY <1>9, <3>1
    <3>2. CASE d # proof.target
      <4>1. d \in ActiveIn(FullRoster(enrollments, Current))
        BY <1>13, <3>2 DEF ActiveIn
      <4> QED
        BY <1>1, <1>2, <1>9, <4>1 DEF Keys
    <3> QED
      BY <3>1, <3>2
  <2> QED
    BY <1>2, <2>1 DEF Keys, Current
<1>22. Writers'
  BY <1>1, <1>2 DEF Writers, Activated, Current
<1> QED
  BY <1>15, <1>16, <1>17, <1>18, <1>19, <1>20, <1>21, <1>22 DEF EpochInv
-----------------------------------------------------------------------------
(***************************************************************************)
(* The invariant, and what it says of the properties.                      *)
(***************************************************************************)
LEMMA Stuttering ==
    ASSUME EpochInv, UNCHANGED vars
    PROVE  EpochInv'
<1>1. /\ UNCHANGED registered /\ UNCHANGED log
      /\ UNCHANGED commitments /\ UNCHANGED activations /\ UNCHANGED deliveries
      /\ UNCHANGED staged /\ UNCHANGED enrollments
      /\ UNCHANGED views /\ UNCHANGED plans /\ UNCHANGED proofs /\ UNCHANGED signed
  BY DEF vars, log, messages
<1>2. TypeOK'
  BY <1>1 DEF EpochInv, TypeOK
<1>3. Messages' /\ Epochs'
  BY <1>1 DEF EpochInv, Messages, Epochs
<1>4. Rebuilding' /\ History' /\ Gone' /\ Keys' /\ Writers'
  BY <1>1, LogKept
<1> QED
  BY <1>2, <1>3, <1>4 DEF EpochInv

LEMMA InitiallySound == Init => EpochInv
<1> SUFFICES ASSUME Init PROVE EpochInv
  OBVIOUS
<1>1. /\ registered = Founders /\ commitments = <<>> /\ activations = <<>>
      /\ deliveries = {} /\ staged = <<>> /\ enrollments = {}
      /\ views = {} /\ plans = {} /\ proofs = {} /\ signed = 0
  BY DEF Init
<1>2. /\ Len(commitments) = 0 /\ Len(activations) = 0 /\ Len(staged) = 0
      /\ ~Activated
      /\ \A i : ~(i \in 1 .. Len(commitments)) /\ ~(i \in 1 .. Len(activations))
                /\ ~(i \in 1 .. Len(staged)) /\ ~(i \in 2 .. Len(activations))
  BY <1>1, EmptySeq DEF Activated
<1>3. TypeOK
  <2>1. IsFiniteSet({}) /\ Cardinality({}) = 0
    BY FS_EmptySet
  <2>2. /\ commitments \in Seq(Views) /\ activations \in Seq(Plans)
        /\ staged \in Seq([plan : Nat, epoch : Nat, recipient : Devices])
    BY <1>1, EmptySeq
  <2> QED
    BY <1>1, <1>2, <2>1, <2>2, LimitsAssumption, DevicesAssumption DEF TypeOK
<1>4. Messages
  BY <1>1, <1>2 DEF Messages
<1>5. Epochs
  BY <1>1, <1>2 DEF Epochs
<1>6. History
  BY <1>2 DEF History, Continuous
<1>7. Rebuilding /\ Gone /\ Keys /\ Writers
  BY <1>1, <1>2 DEF Rebuilding, Gone, Keys, Writers
<1> QED
  BY <1>3, <1>4, <1>5, <1>6, <1>7 DEF EpochInv

LEMMA StepsAreSound == EpochInv /\ [Next]_vars => EpochInv'
<1> SUFFICES ASSUME EpochInv, [Next]_vars PROVE EpochInv'
  OBVIOUS
<1>1. ASSUME NEW d \in Devices, AddDevice(d)
      PROVE  EpochInv'
  BY <1>1, AddDeviceStep
<1>2. ASSUME NEW d \in Devices, SignView(d)
      PROVE  EpochInv'
  BY <1>2, SignViewStep
<1>3. ASSUME NEW d \in Devices, NEW target \in Devices, SignPlan(d, target)
      PROVE  EpochInv'
  BY <1>3, SignPlanStep
<1>4. ASSUME NEW d \in Devices, NEW target \in Devices, SignEnrollment(d, target)
      PROVE  EpochInv'
  BY <1>4, SignEnrollmentStep
<1>5. ASSUME NEW d \in Devices, NEW v \in views, AppendCommitment(d, v)
      PROVE  EpochInv'
  BY <1>5, AppendStep
<1>6. ASSUME NEW plan \in plans, AcceptActivation(plan)
      PROVE  EpochInv'
  BY <1>6, ActivateStep
<1>7. ASSUME NEW plan \in plans, NEW r \in Devices, StageDelivery(plan, r)
      PROVE  EpochInv'
  BY <1>7, StageStep
<1>8. ASSUME NEW proof \in proofs, AcceptEnrollment(proof)
      PROVE  EpochInv'
  BY <1>8, EnrollStep
<1>9. CASE UNCHANGED vars
  BY <1>9, Stuttering
<1> QED
  BY <1>1, <1>2, <1>3, <1>4, <1>5, <1>6, <1>7, <1>8, <1>9 DEF Next

\* A root in the log has the position of its view, and one only.
LEMMA Positions ==
    ASSUME TypeOK, Messages
    PROVE  /\ \A i \in 1 .. Len(commitments) : Position(commitments[i].root) = i
           /\ \A r : InLog(commitments, r) => Position(r) \in 1 .. Len(commitments)
           /\ \A r, s : Precedes(commitments, r, s) => Position(r) <= Position(s)
<1>1. DOMAIN commitments = 1 .. Len(commitments) /\ Len(commitments) \in Nat
  BY SequencesHold DEF TablesOK
<1>2. \A i \in 1 .. Len(commitments) : Position(commitments[i].root) = i
  <2> TAKE i \in 1 .. Len(commitments)
  <2>1. \A j \in DOMAIN commitments : commitments[j].root = commitments[i].root <=> j = i
    BY <1>1, RootsDiffer
  <2> QED
    BY <1>1, <2>1 DEF Position
<1>3. \A r : InLog(commitments, r) => Position(r) \in 1 .. Len(commitments)
  BY <1>2 DEF InLog
<1>4. \A r, s : Precedes(commitments, r, s) => Position(r) <= Position(s)
  BY <1>2 DEF Precedes
<1> QED
  BY <1>2, <1>3, <1>4

LEMMA InvRebuilds == EpochInv => MembershipRebuilds
<1> SUFFICES ASSUME EpochInv, Activated PROVE MembershipRebuilds
  BY DEF MembershipRebuilds
<1>1. /\ TypeOK /\ Messages /\ TablesOK /\ History
      /\ Rebuilds(enrollments, commitments, Current)
  BY SequencesHold DEF EpochInv, Rebuilding
<1>2. /\ MayRemove(Current.prior, Current.target, Current.signer)
      /\ \A e \in Enrolled(enrollments, Current) :
            /\ e.generation \in Current.epoch .. (NextOf(enrollments, Current) - 1)
            /\ Issued(enrollments, e, Current)
            /\ Precedes(commitments, Current.state, e.state)
      /\ \A e, f \in Enrolled(enrollments, Current) :
            e # f => /\ f.generation # e.generation
                     /\ f.generation < e.generation =>
                           Precedes(commitments, f.state, e.state)
  BY <1>1 DEF Rebuilds
<1>3. Position(Current.state) > 0
  <2>1. InLog(commitments, Current.state)
    BY <1>1 DEF History, Continuous, Current, TablesOK
  <2>2. Position(Current.state) \in 1 .. Len(commitments) /\ Len(commitments) \in Nat
    BY <1>1, <2>1, Positions DEF TablesOK
  <2> QED
    BY <2>2
<1>4. Under(Current) = Enrolled(enrollments, Current)
      /\ NextGeneration(Current) = NextOf(enrollments, Current)
  BY Restated
<1>5. ASSUME NEW e \in Enrolled(enrollments, Current)
      PROVE  /\ Attested(e, Current, e.generation)
             /\ Position(e.state) >= Position(Current.state)
  <2>1. Issued(enrollments, e, Current) /\ Precedes(commitments, Current.state, e.state)
    BY <1>2, <1>5
  <2>2. Roster(Current, e.generation) = RosterOf(enrollments, Current, e.generation)
    BY Restated
  <2>3. e.activation = Current.root
    BY <1>5 DEF Enrolled
  <2>4. Attested(e, Current, e.generation)
    BY <2>1, <2>2, <2>3 DEF Attested, Issued
  <2>5. Position(Current.state) <= Position(e.state)
    BY <1>1, <2>1, Positions
  <2>6. /\ Position(Current.state) \in Nat /\ Position(e.state) \in Nat
    <3>1. InLog(commitments, Current.state) /\ InLog(commitments, e.state)
      BY <2>1 DEF Precedes, InLog
    <3>2. Len(commitments) \in Nat
      BY <1>1 DEF TablesOK
    <3> QED
      BY <1>1, <3>1, <3>2, Positions
  <2> QED
    BY <2>4, <2>5, <2>6
<1>6. ASSUME NEW e \in Enrolled(enrollments, Current),
             NEW f \in Enrolled(enrollments, Current), f # e
      PROVE  /\ f.generation # e.generation
             /\ f.generation < e.generation => Position(f.state) <= Position(e.state)
  BY <1>1, <1>2, <1>6, Positions
<1> QED
  BY <1>2, <1>3, <1>4, <1>5, <1>6 DEF MembershipRebuilds

LEMMA InvHistory == EpochInv => HistoryVerifies
<1> SUFFICES ASSUME EpochInv PROVE HistoryVerifies
  OBVIOUS
<1>1. /\ TypeOK /\ Messages /\ TablesOK /\ Epochs
      /\ Continuous(enrollments, commitments, activations)
      /\ FirstEpoch \in Nat
  BY SequencesHold, LimitsAssumption DEF EpochInv, History
<1>2. ASSUME NEW i \in 2 .. Len(activations)
      PROVE  /\ activations[i].epoch = activations[i - 1].epoch + 1
             /\ activations[i].prior =
                   Roster(activations[i - 1], NextGeneration(activations[i - 1]))
             /\ Position(activations[i].state) >= Position(activations[i - 1].state)
  <2>1. i \in 1 .. Len(activations) /\ i - 1 \in 1 .. Len(activations) /\ i \in Nat
    BY <1>1 DEF TablesOK
  <2>2. activations[i].epoch = activations[i - 1].epoch + 1
    <3>1. activations[i].epoch = FirstEpoch + i
          /\ activations[i - 1].epoch = FirstEpoch + (i - 1)
      BY <1>1, <2>1 DEF Epochs
    <3> QED
      BY <1>1, <2>1, <3>1
  <2>3. activations[i].prior = FullRoster(enrollments, activations[i - 1])
        /\ Precedes(commitments, activations[i - 1].state, activations[i].state)
    BY <1>1 DEF Continuous
  <2>4. FullRoster(enrollments, activations[i - 1])
            = Roster(activations[i - 1], NextGeneration(activations[i - 1]))
    BY Restated DEF FullRoster
  <2>5. /\ Position(activations[i - 1].state) <= Position(activations[i].state)
        /\ Position(activations[i - 1].state) \in Nat
        /\ Position(activations[i].state) \in Nat
    <3>1. InLog(commitments, activations[i].state)
          /\ InLog(commitments, activations[i - 1].state)
      BY <2>3 DEF Precedes, InLog
    <3>2. Len(commitments) \in Nat
      BY <1>1 DEF TablesOK
    <3>3. /\ Position(activations[i - 1].state) \in 1 .. Len(commitments)
          /\ Position(activations[i].state) \in 1 .. Len(commitments)
      BY <1>1, <3>1, Positions
    <3> QED
      BY <1>1, <2>3, <3>2, <3>3, Positions
  <2> QED
    BY <2>2, <2>3, <2>4, <2>5
<1>3. ASSUME NEW k \in 1 .. Len(activations), NEW i \in 1 .. Len(commitments)
      PROVE  /\ i <= Position(activations[k].state) <=>
                   commitments[i].epoch < activations[k].epoch
             /\ commitments[i].epoch = activations[k].epoch =>
                   commitments[i].author = activations[k].signer
  <2>1. PICK p \in 1 .. Len(commitments) : commitments[p].root = activations[k].state
    BY <1>1, <1>3 DEF Continuous, InLog
  <2>2. Position(activations[k].state) = p
    BY <1>1, <2>1, Positions
  <2>3. i <= p <=> commitments[i].epoch < activations[k].epoch
    BY <1>1, <2>1 DEF Continuous
  <2>4. commitments[i].epoch = activations[k].epoch =>
            commitments[i].author = activations[k].signer
    BY <1>1 DEF Continuous
  <2> QED
    BY <2>2, <2>3, <2>4
<1>4. DOMAIN activations = 1 .. Len(activations) /\ DOMAIN commitments = 1 .. Len(commitments)
  BY <1>1 DEF TablesOK
<1> QED
  BY <1>2, <1>3, <1>4 DEF HistoryVerifies

LEMMA InvRemoved == EpochInv => RemovedStaysOut
<1> SUFFICES ASSUME EpochInv, NEW i \in DOMAIN activations
             PROVE  Membership[activations[i].target] # "ACTIVE"
  BY DEF RemovedStaysOut
<1>1. TablesOK /\ Gone
  BY SequencesHold DEF EpochInv
<1>2. i \in 1 .. Len(activations) /\ Activated
  BY <1>1 DEF TablesOK
<1>3. FullRoster(enrollments, Current)[activations[i].target] = "REVOKED"
  BY <1>1, <1>2 DEF Gone
<1>4. Membership = FullRoster(enrollments, Current)
  BY <1>2, Restated
<1> QED
  BY <1>3, <1>4

LEMMA InvKeys == EpochInv => MembersHoldKeys
<1> SUFFICES ASSUME EpochInv, Activated PROVE MembersHoldKeys
  BY DEF MembersHoldKeys
<1>1. TypeOK /\ TablesOK /\ Epochs /\ Keys
  BY SequencesHold DEF EpochInv
<1>2. Membership = FullRoster(enrollments, Current)
      /\ Under(Current) = Enrolled(enrollments, Current)
  BY Restated
<1>3. \A d \in ActiveIn(Membership) :
          \/ [epoch |-> Current.epoch, recipient |-> d] \in deliveries
          \/ \E e \in Under(Current) : e.target = d
  BY <1>1, <1>2 DEF Keys
<1>4. \A i \in DOMAIN staged : staged[i].epoch = Current.epoch + 1
  <2>1. Current.epoch = FirstEpoch + Len(activations)
    BY <1>1, KeyEpochIs
  <2> QED
    BY <1>1, <2>1 DEF Epochs, TablesOK
<1> QED
  BY <1>3, <1>4 DEF MembersHoldKeys

LEMMA InvWriter == EpochInv => WriterIsMember
<1> SUFFICES ASSUME EpochInv, commitments # <<>>, NEW d \in Devices
             PROVE  VaultSession(Authority(d))
  BY DEF WriterIsMember
<1>1. TypeOK /\ TablesOK /\ Rebuilding /\ Writers
  BY SequencesHold DEF EpochInv
<1>2. CASE ~Activated
  <2>1. Authority(d) \in registered
    BY <1>1, <1>2 DEF Authority, Writers
  <2> QED
    BY <1>2, <2>1 DEF VaultSession
<1>3. CASE Activated
  <2> DEFINE s == Current.signer
  <2>1. s \in registered /\ Current \in Plans /\ Authority(d) = s
    BY <1>1, <1>3 DEF Writers, TablesOK, Authority
  <2>2. s # Current.target /\ s \in Devices /\ Current.prior[s] = "ACTIVE"
    BY <1>1, <1>3 DEF Rebuilding, Rebuilds, MayRemove, ActiveIn
  <2>3. Removed(Current)[s] = "ACTIVE"
    BY <2>1, <2>2 DEF Removed, Plans, Registries
  <2>4. Membership[s] = "ACTIVE"
    BY <1>3, <2>2, <2>3, Restated DEF FullRoster, RosterOf
  <2>5. s \in ActiveIn(Membership)
    BY <2>2, <2>4 DEF ActiveIn
  <2> QED
    BY <2>1, <2>5 DEF VaultSession
<1> QED
  BY <1>2, <1>3
-----------------------------------------------------------------------------
\* Whatever is signed on a state already gone, and whenever it is sent, the
\* tables commitments.py and enrollments.py write in app.py's calls say the
\* same story: messages with a root of their own, epochs one by one, rows an
\* activation or an enrollment left for each member.
THEOREM Invariance == Spec => []EpochInv
<1>1. Init => EpochInv
  BY InitiallySound
<1>2. EpochInv /\ [Next]_vars => EpochInv'
  BY StepsAreSound
<1> QED
  BY <1>1, <1>2, PTL DEF Spec

\* The tables hold what their schema says, within LIMIT and
\* MAX_VAULT_ROTATION_ROWS, however rows are dropped to make room (put_delivery).
THEOREM TypeCorrect == Spec => []TypeOK
<1>1. EpochInv => TypeOK
  BY DEF EpochInv
<1> QED
  BY <1>1, Invariance, PTL

\* No accepted activation, view or enrollment leaves tables that
\* _rebuild_membership refuses to read.
THEOREM RebuildsAlways == Spec => []MembershipRebuilds
<1> QED
  BY InvRebuilds, Invariance, PTL

\* The activations accepted continue each other's membership and cut the log
\* by epoch and signer, so a device that reads them all can verify them
\* (accept_activation, append).
THEOREM HistoryHolds == Spec => []HistoryVerifies
<1> QED
  BY InvHistory, Invariance, PTL

\* A device an activation removed is not a member again, through whatever
\* enrollment signed before or after (verify_enrollment_attestation).
THEOREM RemovedStays == Spec => []RemovedStaysOut
<1> QED
  BY InvRemoved, Invariance, PTL

\* Every member has its delivery of the epoch or the enrollment that gave it,
\* and nothing staged is for an epoch in force (accept_activation, put_delivery).
THEOREM KeysHeld == Spec => []MembersHoldKeys
<1> QED
  BY InvKeys, Invariance, PTL

\* The device that must sign the next view is a member (append).
THEOREM WriterHolds == Spec => []WriterIsMember
<1> QED
  BY InvWriter, Invariance, PTL
=============================================================================
