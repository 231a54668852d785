------------------------- MODULE AccountAccessProofs -------------------------
(***************************************************************************)
(* Theorems about accounts, devices, challenges and sessions, for every    *)
(* set of accounts, devices, callers and transitions and every limit.      *)
(*                                                                         *)
(* The invariant has four concerns: the tables with their queues and slots,*)
(* the custody of each challenge, what a call in progress was let in with, *)
(* and the registries with the chains they add up.                         *)
(***************************************************************************)
EXTENDS AccountAccess, FiniteSetTheorems, SequenceTheorems, TLAPS

\* The queue is in order of expiry, and nothing in it outlives what is put in now.
InOrder(queue, lifetime) ==
    /\ \A i, j \in 1 .. Len(queue) : i <= j => queue[i].expires <= queue[j].expires
    /\ \A i \in 1 .. Len(queue) : queue[i].expires <= clock + lifetime

EntriesOf(queue, k) == {i \in DOMAIN queue : queue[i].device = k}

ChallengeTable ==
    /\ \A k \in DeviceKeys :
         /\ challengeSlots[k] = Cardinality(EntriesOf(challengeQueue, k))
         /\ challengeSlots[k] <= MaxChallengesPerDevice
    /\ Len(challengeQueue) <= MaxChallenges
    /\ \A c \in challenges : \E i \in DOMAIN challengeQueue :
          challengeQueue[i] = [expires |-> c.expires, serial |-> c.serial,
                                device |-> DeviceKey(c)]
    /\ InOrder(challengeQueue, ChallengeLifetime)

SessionTable ==
    /\ \A k \in DeviceKeys :
         /\ sessionSlots[k] = CountFor(sessions, k)
         /\ sessionSlots[k] <= MaxSessionsPerDevice
    /\ IsFiniteSet(sessions) /\ Cardinality(sessions) <= MaxSessions
    /\ \A s \in sessions : s.token <= granted
    /\ \A s \in sessions : \E i \in DOMAIN sessionQueue :
          sessionQueue[i] = [expires |-> s.expires, token |-> s.token]
    /\ InOrder(sessionQueue, SessionLifetime)

InSession(p) == calls[p] # None /\ calls[p].op = "session"

\* A challenge is in one place: in the table, with the one call that took it,
\* or with the one session it was granted.
Custody ==
    /\ \A c \in challenges : c.serial <= issued
    /\ \A c, d \in challenges : c.serial = d.serial => c = d
    /\ \A g \in grants : g.challenge.serial <= issued
    /\ \A g \in grants, c \in challenges : g.challenge.serial # c.serial
    /\ \A p \in Callers : InSession(p) =>
         /\ calls[p].challenge.serial <= issued
         /\ \A c \in challenges : c.serial # calls[p].challenge.serial
         /\ \A g \in grants : g.challenge.serial # calls[p].challenge.serial
         /\ \A q \in Callers :
              InSession(q) /\ calls[q].challenge.serial = calls[p].challenge.serial
                => p = q
    /\ SessionsAreEarned

Known(a) == accounts[a] # None

\* What a call in progress was let in with.
CallsAreFounded ==
    \A p \in Callers : calls[p] # None =>
        /\ calls[p].verified => Genuine(calls[p])
        /\ calls[p].op = "bootstrap" => calls[p].transition.parent = None
        /\ calls[p].op = "session" => Known(calls[p].challenge.account)
        /\ calls[p].op = "device" => Known(calls[p].transition.account)

HoldersAreKnown ==
    /\ \A c \in challenges : Known(c.account)
    /\ \A s \in sessions : Known(s.account)

\* The first n devices and revisions of a chain.
DevicesOf(chain, n) == {chain[j].device : j \in 1 .. n}
RevisionsOf(chain, n) == {chain[j].revision : j \in 1 .. n}

\* A registry is the sum of its chain, and the chain is well founded.
SumOf(registry, chain) ==
    /\ chain # <<>> /\ Len(chain) <= MaxDevices
    /\ registry.revision = chain[Len(chain)].revision
    /\ registry.devices = DevicesOf(chain, Len(chain))
    /\ registry.used = RevisionsOf(chain, Len(chain))
    /\ IsFiniteSet(registry.devices) /\ Cardinality(registry.devices) = Len(chain)
    /\ chain[1].parent = None /\ chain[1].signer = chain[1].device
    /\ \A i \in 2 .. Len(chain) :
         /\ chain[i].parent = chain[i - 1].revision
         /\ chain[i].signer \in DevicesOf(chain, i - 1)
         /\ chain[i].device \notin DevicesOf(chain, i - 1)
         /\ chain[i].revision \notin RevisionsOf(chain, i - 1)

Registered ==
    /\ \A a \in Accounts : IF Known(a) THEN SumOf(accounts[a], lineage[a])
                           ELSE lineage[a] = <<>>
    /\ IsFiniteSet({a \in Accounts : Known(a)})

AccessInv ==
    /\ TypeOK /\ ChallengeTable /\ SessionTable /\ Custody
    /\ CallsAreFounded /\ HoldersAreKnown /\ Registered
-----------------------------------------------------------------------------
(***************************************************************************)
(* Expiry queues.                                                          *)
(***************************************************************************)
\* The first so many numbers are that many.
LEMMA FirstNumbers ==
    ASSUME NEW n \in Nat
    PROVE  IsFiniteSet(1 .. n) /\ Cardinality(1 .. n) = n
BY FS_Interval

LEMMA SeqFacts ==
    ASSUME NEW S, NEW queue \in Seq(S)
    PROVE  /\ Len(queue) \in Nat /\ DOMAIN queue = 1 .. Len(queue)
           /\ \A i \in 1 .. Len(queue) : queue[i] \in S
BY ElementOfSeq, LenProperties

\* The due entries of a queue in order are its first ones.
LEMMA DueFacts ==
    ASSUME NEW S, NEW queue \in Seq(S), \A e \in S : e.expires \in Nat,
           NEW lifetime, InOrder(queue, lifetime), clock \in Nat
    PROVE  /\ Due(queue) \in 0 .. Len(queue)
           /\ \A i \in 1 .. Due(queue) : queue[i].expires <= clock
<1> DEFINE D == {i \in DOMAIN queue : queue[i].expires <= clock}
<1>1. /\ Len(queue) \in Nat /\ DOMAIN queue = 1 .. Len(queue)
      /\ \A i \in 1 .. Len(queue) : queue[i].expires \in Nat
  BY SeqFacts
<1>2. IsFiniteSet(1 .. Len(queue)) /\ Cardinality(1 .. Len(queue)) = Len(queue)
  <2>1. Len(queue) \in Nat
    BY <1>1
  <2> QED
    BY <2>1, FirstNumbers
<1>3. /\ IsFiniteSet(D) /\ Cardinality(D) \in Nat
      /\ Cardinality(D) <= Len(queue)
  BY <1>1, <1>2, FS_Subset, FS_CardinalityType
<1>4. Due(queue) = Cardinality(D)
  BY DEF Due
<1>5. ASSUME NEW i \in 1 .. Due(queue), ~(queue[i].expires <= clock) PROVE FALSE
  <2>1. i \in 1 .. Len(queue)
    BY <1>1, <1>3, <1>4
  <2>2. D \subseteq 1 .. (i - 1)
    BY <1>1, <1>5, <2>1 DEF InOrder
  <2>3. IsFiniteSet(1 .. (i - 1)) /\ Cardinality(1 .. (i - 1)) = i - 1
    BY <2>1, FirstNumbers
  <2>4. Cardinality(D) <= i - 1
    BY <2>2, <2>3, FS_Subset
  <2> QED
    BY <1>3, <1>4, <1>5, <2>1, <2>4
<1> QED
  BY <1>1, <1>3, <1>4, <1>5

\* What pruning leaves of a queue: its other entries, in their order.
LEMMA UndueFacts ==
    ASSUME NEW S, NEW queue \in Seq(S), \A e \in S : e.expires \in Nat,
           NEW lifetime \in Nat, InOrder(queue, lifetime), clock \in Nat
    PROVE  /\ Undue(queue) \in Seq(S)
           /\ Len(Undue(queue)) = Len(queue) - Due(queue)
           /\ \A i \in 1 .. Len(Undue(queue)) : Undue(queue)[i] = queue[Due(queue) + i]
           /\ InOrder(Undue(queue), lifetime)
           /\ \A j \in Due(queue) + 1 .. Len(queue) :
                 \E i \in DOMAIN Undue(queue) : Undue(queue)[i] = queue[j]
<1> DEFINE m == Due(queue)
<1>1. /\ Len(queue) \in Nat /\ m \in Nat /\ m <= Len(queue)
      /\ \A i \in 1 .. Len(queue) : queue[i] \in S /\ queue[i].expires \in Nat
  BY SeqFacts, DueFacts
<1> HIDE DEF m
<1>2. /\ Undue(queue) \in Seq(S) /\ Len(Undue(queue)) = Len(queue) - m
      /\ \A i \in 1 .. Len(queue) - m : Undue(queue)[i] = queue[m + i]
  BY <1>1, SubSeqProperties DEF Undue, m
<1>3. InOrder(Undue(queue), lifetime)
  <2>1. /\ \A i, j \in 1 .. Len(queue) : i <= j => queue[i].expires <= queue[j].expires
        /\ \A i \in 1 .. Len(queue) : queue[i].expires <= clock + lifetime
    BY DEF InOrder
  <2>2. \A i \in 1 .. Len(queue) - m : m + i \in 1 .. Len(queue)
    BY <1>1
  <2>3. ASSUME NEW i \in 1 .. Len(queue) - m, NEW j \in 1 .. Len(queue) - m, i <= j
        PROVE  Undue(queue)[i].expires <= Undue(queue)[j].expires
    <3>1. m + i <= m + j
      BY <1>1, <2>3
    <3> QED
      BY <1>2, <2>1, <2>2, <3>1
  <2>4. \A i \in 1 .. Len(queue) - m : Undue(queue)[i].expires <= clock + lifetime
    BY <1>2, <2>1, <2>2
  <2> QED
    BY <1>2, <2>3, <2>4 DEF InOrder
<1>4. ASSUME NEW j \in m + 1 .. Len(queue)
      PROVE  \E i \in DOMAIN Undue(queue) : Undue(queue)[i] = queue[j]
  <2>1. j - m \in 1 .. Len(Undue(queue)) /\ m + (j - m) = j
    BY <1>1, <1>2
  <2>2. DOMAIN Undue(queue) = 1 .. Len(Undue(queue))
    BY <1>2, SeqFacts
  <2> QED
    BY <1>2, <2>1, <2>2
<1> QED
  BY <1>2, <1>3, <1>4 DEF m

\* An entry made now goes to the end of the queue and leaves it in order.
LEMMA AppendedFacts ==
    ASSUME NEW S, NEW queue \in Seq(S), \A e \in S : e.expires \in Nat,
           NEW lifetime \in Nat, InOrder(queue, lifetime), clock \in Nat,
           NEW entry \in S, entry.expires = clock + lifetime
    PROVE  /\ Append(queue, entry) \in Seq(S)
           /\ Len(Append(queue, entry)) = Len(queue) + 1
           /\ InOrder(Append(queue, entry), lifetime)
           /\ \E i \in DOMAIN Append(queue, entry) : Append(queue, entry)[i] = entry
           /\ \A j \in DOMAIN queue :
                 /\ j \in DOMAIN Append(queue, entry)
                 /\ Append(queue, entry)[j] = queue[j]
<1> DEFINE longer == Append(queue, entry)
<1>1. /\ Len(queue) \in Nat /\ DOMAIN queue = 1 .. Len(queue)
      /\ \A i \in 1 .. Len(queue) : queue[i].expires \in Nat
  BY SeqFacts
<1>2. /\ longer \in Seq(S) /\ Len(longer) = Len(queue) + 1
      /\ longer[Len(queue) + 1] = entry
      /\ \A i \in 1 .. Len(queue) : longer[i] = queue[i]
      /\ DOMAIN longer = 1 .. Len(longer)
  BY AppendProperties, SeqFacts
<1> HIDE DEF longer
<1>3. InOrder(longer, lifetime)
  <2>1. \A i, j \in 1 .. Len(queue) : i <= j => queue[i].expires <= queue[j].expires
    BY DEF InOrder
  <2>2. \A i \in 1 .. Len(queue) : queue[i].expires <= clock + lifetime
    BY DEF InOrder
  <2>3. \A i \in 1 .. Len(queue) + 1 :
           /\ longer[i].expires \in Nat /\ longer[i].expires <= clock + lifetime
           /\ i # Len(queue) + 1 => longer[i].expires = queue[i].expires
    BY <1>1, <1>2, <2>2
  <2>4. ASSUME NEW i \in 1 .. Len(queue) + 1, NEW j \in 1 .. Len(queue) + 1, i <= j
        PROVE  longer[i].expires <= longer[j].expires
    <3>1. CASE j = Len(queue) + 1
      BY <1>2, <2>3, <3>1
    <3>2. CASE j # Len(queue) + 1
      <4>1. i \in 1 .. Len(queue) /\ j \in 1 .. Len(queue)
        BY <1>1, <2>4, <3>2
      <4>2. longer[i].expires = queue[i].expires /\ longer[j].expires = queue[j].expires
        BY <1>2, <4>1
      <4> QED
        BY <2>1, <2>4, <4>1, <4>2
    <3> QED
      BY <3>1, <3>2
  <2> QED
    BY <1>2, <2>3, <2>4 DEF InOrder
<1>4. \E i \in DOMAIN longer : longer[i] = entry
  BY <1>1, <1>2
<1>5. ASSUME NEW j \in DOMAIN queue PROVE j \in DOMAIN longer /\ longer[j] = queue[j]
  BY <1>1, <1>2
<1> QED
  BY <1>2, <1>3, <1>4, <1>5 DEF longer

\* The clock never puts a queue out of order.
LEMMA LaterInOrder ==
    ASSUME NEW S, NEW queue \in Seq(S), \A e \in S : e.expires \in Nat,
           NEW lifetime \in Nat, InOrder(queue, lifetime),
           clock \in Nat, clock' \in {clock, clock + 1}
    PROVE  /\ \A i, j \in 1 .. Len(queue) : i <= j => queue[i].expires <= queue[j].expires
           /\ \A i \in 1 .. Len(queue) : queue[i].expires <= clock' + lifetime
<1>1. \A i \in 1 .. Len(queue) : queue[i].expires \in Nat
  BY SeqFacts
<1> QED
  BY <1>1 DEF InOrder

LEMMA EntriesAreFinite ==
    ASSUME NEW S, NEW queue \in Seq(S), NEW k
    PROVE  IsFiniteSet(EntriesOf(queue, k)) /\ Cardinality(EntriesOf(queue, k)) \in Nat
<1>1. DOMAIN queue = 1 .. Len(queue) /\ Len(queue) \in Nat
  BY SeqFacts
<1>2. IsFiniteSet(DOMAIN queue)
  BY <1>1, FirstNumbers
<1> QED
  BY <1>2, FS_Subset, FS_CardinalityType DEF EntriesOf

\* An entry counts for its own device.
LEMMA AppendCount ==
    ASSUME NEW S, NEW queue \in Seq(S), NEW entry \in S, NEW k
    PROVE  Cardinality(EntriesOf(Append(queue, entry), k))
             = Cardinality(EntriesOf(queue, k)) + IF entry.device = k THEN 1 ELSE 0
<1> DEFINE longer == Append(queue, entry)
           last == Len(queue) + 1
<1>1. DOMAIN queue = 1 .. Len(queue) /\ Len(queue) \in Nat
  BY SeqFacts
<1>2. /\ longer \in Seq(S) /\ Len(longer) = last
      /\ longer[last] = entry
      /\ \A i \in 1 .. Len(queue) : longer[i] = queue[i]
      /\ DOMAIN longer = 1 .. last
  BY AppendProperties, SeqFacts
<1>3. IsFiniteSet(EntriesOf(queue, k)) /\ Cardinality(EntriesOf(queue, k)) \in Nat
  BY EntriesAreFinite
<1>4. last \notin EntriesOf(queue, k)
  BY <1>1 DEF EntriesOf
<1> HIDE DEF longer
<1>5. EntriesOf(longer, k) = EntriesOf(queue, k) \cup IF entry.device = k THEN {last} ELSE {}
  BY <1>1, <1>2 DEF EntriesOf
<1>6. CASE entry.device = k
  <2>1. EntriesOf(longer, k) = EntriesOf(queue, k) \cup {last}
    BY <1>5, <1>6
  <2> HIDE DEF last
  <2> QED
    BY <1>3, <1>4, <1>6, <2>1, FS_AddElement DEF longer
<1>7. CASE entry.device # k
  <2>1. EntriesOf(longer, k) = EntriesOf(queue, k)
    BY <1>5, <1>7
  <2> QED
    BY <1>3, <1>7, <2>1 DEF longer
<1> QED
  BY <1>6, <1>7

\* The entries of a device are those among the first ones and those behind.
LEMMA SplitCount ==
    ASSUME NEW S, NEW queue \in Seq(S), NEW m \in 0 .. Len(queue), NEW k
    PROVE  /\ Cardinality({i \in 1 .. m : queue[i].device = k}) \in Nat
           /\ Cardinality(EntriesOf(queue, k))
                = Cardinality({i \in 1 .. m : queue[i].device = k})
                  + Cardinality(EntriesOf(SubSeq(queue, m + 1, Len(queue)), k))
<1> DEFINE rest == SubSeq(queue, m + 1, Len(queue))
           A == {i \in 1 .. m : queue[i].device = k}
           B == {i \in m + 1 .. Len(queue) : queue[i].device = k}
           C == EntriesOf(rest, k)
<1>1. /\ Len(queue) \in Nat /\ m \in Nat /\ m <= Len(queue)
      /\ DOMAIN queue = 1 .. Len(queue) /\ \A i \in 1 .. Len(queue) : queue[i] \in S
  BY SeqFacts
<1>2. /\ rest \in Seq(S) /\ Len(rest) = Len(queue) - m
      /\ \A i \in 1 .. Len(queue) - m : rest[i] = queue[m + i]
  <2>1. m + 1 \in Nat /\ \A i \in m + 1 .. Len(queue) : queue[i] \in S
    BY <1>1
  <2> QED
    BY <1>1, <2>1, SubSeqProperties
<1> HIDE DEF rest
<1>3. DOMAIN rest = 1 .. Len(queue) - m
  BY <1>2, SeqFacts
<1>4. EntriesOf(queue, k) = A \cup B /\ A \cap B = {}
  BY <1>1 DEF EntriesOf
<1>5. IsFiniteSet(A) /\ Cardinality(A) \in Nat
  <2>1. IsFiniteSet(1 .. m)
    BY <1>1, FirstNumbers
  <2> QED
    BY <2>1, FS_Subset, FS_CardinalityType
<1>6. IsFiniteSet(C) /\ Cardinality(C) \in Nat
  BY <1>2, EntriesAreFinite
<1>7. IsFiniteSet(B) /\ Cardinality(B) = Cardinality(C)
  <2> DEFINE f == [i \in C |-> m + i]
  <2>1. C = {i \in 1 .. Len(queue) - m : queue[m + i].device = k}
    BY <1>2, <1>3 DEF EntriesOf
  <2>2. f \in [C -> B]
    BY <1>1, <2>1
  <2>3. \A i, j \in C : f[i] = f[j] => i = j
    BY <1>1, <2>1
  <2>4. \A j \in B : \E i \in C : f[i] = j
    <3> SUFFICES ASSUME NEW j \in B PROVE \E i \in C : f[i] = j
      OBVIOUS
    <3>1. j - m \in C /\ m + (j - m) = j
      BY <1>1, <2>1
    <3> QED
      BY <3>1
  <2> HIDE DEF f, C, B
  <2>5. f \in Bijection(C, B)
    BY <2>2, <2>3, <2>4 DEF Bijection, Injection, Surjection, IsInjective
  <2> QED
    BY <1>6, <2>5, FS_Bijection DEF ExistsBijection
<1>8. Cardinality(A \cup B) = Cardinality(A) + Cardinality(B) - Cardinality(A \cap B)
  BY <1>5, <1>7, FS_Union
<1>9. Cardinality(A \cap B) = 0
  BY <1>4, FS_EmptySet
<1> HIDE DEF A, B, C
<1>10. Cardinality(EntriesOf(queue, k)) = Cardinality(A) + Cardinality(C)
  BY <1>4, <1>5, <1>6, <1>7, <1>8, <1>9
<1> QED
  BY <1>5, <1>10 DEF A, C, rest
-----------------------------------------------------------------------------
(***************************************************************************)
(* Counting sessions.                                                      *)
(***************************************************************************)
LEMMA CountIsNatural ==
    ASSUME NEW S, IsFiniteSet(S), NEW k
    PROVE  /\ IsFiniteSet({s \in S : DeviceKey(s) = k})
           /\ CountFor(S, k) \in Nat
BY FS_Subset, FS_CardinalityType DEF CountFor

LEMMA DropCount ==
    ASSUME NEW S, IsFiniteSet(S), NEW X \in SUBSET S, NEW k
    PROVE  /\ CountFor(S \ X, k) = CountFor(S, k) - CountFor(X, k)
           /\ CountFor(X, k) \in Nat /\ CountFor(S \ X, k) \in Nat
<1> DEFINE A == {s \in S \ X : DeviceKey(s) = k}
           B == {s \in X : DeviceKey(s) = k}
<1>1. IsFiniteSet(X) /\ IsFiniteSet(S \ X)
  BY FS_Subset
<1>2. /\ IsFiniteSet(A) /\ CountFor(S \ X, k) \in Nat
      /\ IsFiniteSet(B) /\ CountFor(X, k) \in Nat
  BY <1>1, CountIsNatural
<1>3. A \cup B = {s \in S : DeviceKey(s) = k} /\ A \cap B = {}
  OBVIOUS
<1>4. CountFor(S, k) = Cardinality(A \cup B)
  BY <1>3 DEF CountFor
<1>5. Cardinality(A \cup B) = Cardinality(A) + Cardinality(B) - Cardinality(A \cap B)
  BY <1>2, FS_Union
<1>6. Cardinality(A \cap B) = 0
  BY <1>3, FS_EmptySet
<1>7. CountFor(S \ X, k) = Cardinality(A) /\ CountFor(X, k) = Cardinality(B)
  BY DEF CountFor
<1> HIDE DEF A, B
<1> QED
  BY <1>2, <1>4, <1>5, <1>6, <1>7

LEMMA AddCount ==
    ASSUME NEW S, IsFiniteSet(S), NEW s, s \notin S, NEW k
    PROVE  CountFor(S \cup {s}, k) = CountFor(S, k) + IF DeviceKey(s) = k THEN 1 ELSE 0
<1> DEFINE A == {t \in S : DeviceKey(t) = k}
<1>1. IsFiniteSet(A) /\ s \notin A /\ CountFor(S, k) = Cardinality(A)
      /\ Cardinality(A) \in Nat
  BY CountIsNatural DEF CountFor
<1> DEFINE B == {t \in S \cup {s} : DeviceKey(t) = k}
<1>2. CountFor(S \cup {s}, k) = Cardinality(B)
  BY DEF CountFor
<1>3. CASE DeviceKey(s) = k
  <2>1. B = A \cup {s}
    BY <1>3
  <2> HIDE DEF A, B
  <2>2. Cardinality(A \cup {s}) = Cardinality(A) + 1
    BY <1>1, FS_AddElement
  <2> QED
    BY <1>1, <1>2, <1>3, <2>1, <2>2
<1>4. CASE DeviceKey(s) # k
  <2>1. B = A
    BY <1>4
  <2> HIDE DEF A, B
  <2> QED
    BY <1>1, <1>2, <1>4, <2>1
<1> QED
  BY <1>3, <1>4
-----------------------------------------------------------------------------
(***************************************************************************)
(* The table of challenges, with its queue and its slots.                  *)
(***************************************************************************)
ChallengeEntries == [expires : Nat, serial : Serials, device : DeviceKeys]
SessionEntries == [expires : Nat, token : Serials]

ChallengeTypes ==
    /\ challenges \subseteq Challenges /\ issued \in 0 .. MaxIssued
    /\ challengeQueue \in Seq(ChallengeEntries)
    /\ challengeSlots \in [DeviceKeys -> Nat]

LEMMA Limits ==
    /\ ChallengeLifetime \in Nat /\ SessionLifetime \in Nat
    /\ MaxAccounts \in Nat \ {0} /\ MaxDevices \in Nat \ {0}
    /\ MaxChallenges \in Nat \ {0} /\ MaxChallengesPerDevice \in Nat \ {0}
    /\ MaxSessions \in Nat \ {0} /\ MaxSessionsPerDevice \in Nat \ {0}
    /\ MaxIssued \in Nat /\ MaxTime \in Nat
BY LimitsAssumption

LEMMA ChallengesKept ==
    ASSUME ChallengeTypes, ChallengeTable, clock \in Nat, clock' \in {clock, clock + 1},
           challenges' \subseteq challenges,
           UNCHANGED <<challengeQueue, challengeSlots, issued>>
    PROVE  ChallengeTypes' /\ ChallengeTable'
<1>1. \A e \in ChallengeEntries : e.expires \in Nat
  BY DEF ChallengeEntries
<1>2. InOrder(challengeQueue, ChallengeLifetime)'
  BY <1>1, Limits, LaterInOrder DEF ChallengeTypes, ChallengeTable, InOrder
<1> QED
  BY <1>2 DEF ChallengeTypes, ChallengeTable, EntriesOf

\* The slots freed are those of the entries popped.
LEMMA ChallengesPruned ==
    ASSUME ChallengeTypes, ChallengeTable, clock \in Nat
    PROVE  /\ SlotsAfterPrune \in [DeviceKeys -> Nat]
           /\ \A k \in DeviceKeys :
                 /\ SlotsAfterPrune[k] = Cardinality(EntriesOf(Undue(challengeQueue), k))
                 /\ SlotsAfterPrune[k] <= MaxChallengesPerDevice
           /\ Undue(challengeQueue) \in Seq(ChallengeEntries)
           /\ Len(Undue(challengeQueue)) <= MaxChallenges
           /\ InOrder(Undue(challengeQueue), ChallengeLifetime)
           /\ \A c \in challenges \ ExpiredChallenges :
                 \E i \in DOMAIN Undue(challengeQueue) :
                    Undue(challengeQueue)[i] = [expires |-> c.expires, serial |-> c.serial,
                                                device |-> DeviceKey(c)]
<1> DEFINE queue == challengeQueue
           m == Due(challengeQueue)
<1>1. /\ queue \in Seq(ChallengeEntries) /\ \A e \in ChallengeEntries : e.expires \in Nat
      /\ InOrder(queue, ChallengeLifetime) /\ ChallengeLifetime \in Nat
      /\ Len(queue) \in Nat /\ DOMAIN queue = 1 .. Len(queue)
  BY Limits, SeqFacts DEF ChallengeTypes, ChallengeTable, ChallengeEntries
<1>2. m \in 0 .. Len(queue) /\ \A i \in 1 .. m : queue[i].expires <= clock
  BY <1>1, DueFacts
<1>3. /\ Undue(queue) \in Seq(ChallengeEntries)
      /\ Len(Undue(queue)) = Len(queue) - m
      /\ InOrder(Undue(queue), ChallengeLifetime)
      /\ \A j \in m + 1 .. Len(queue) :
            \E i \in DOMAIN Undue(queue) : Undue(queue)[i] = queue[j]
  BY <1>1, UndueFacts
<1>4. \A k \in DeviceKeys :
         /\ SlotsAfterPrune[k] = Cardinality(EntriesOf(Undue(queue), k))
         /\ SlotsAfterPrune[k] \in Nat /\ SlotsAfterPrune[k] <= MaxChallengesPerDevice
  <2> SUFFICES ASSUME NEW k \in DeviceKeys
               PROVE  /\ SlotsAfterPrune[k] = Cardinality(EntriesOf(Undue(queue), k))
                      /\ SlotsAfterPrune[k] \in Nat
                      /\ SlotsAfterPrune[k] <= MaxChallengesPerDevice
    OBVIOUS
  <2> DEFINE popped == Cardinality({i \in 1 .. m : queue[i].device = k})
  <2>1. popped \in Nat /\ Cardinality(EntriesOf(queue, k))
          = popped + Cardinality(EntriesOf(Undue(queue), k))
    BY <1>1, <1>2, SplitCount DEF Undue
  <2>2. Cardinality(EntriesOf(Undue(queue), k)) \in Nat
    BY <1>3, EntriesAreFinite
  <2>3. SlotsAfterPrune[k] = challengeSlots[k] - popped
    BY DEF SlotsAfterPrune
  <2>4. /\ challengeSlots[k] = Cardinality(EntriesOf(queue, k))
        /\ challengeSlots[k] <= MaxChallengesPerDevice
    BY DEF ChallengeTable
  <2> HIDE DEF popped
  <2> QED
    BY <2>1, <2>2, <2>3, <2>4, Limits
<1>5. SlotsAfterPrune \in [DeviceKeys -> Nat]
  BY <1>4 DEF SlotsAfterPrune
<1>6. Len(Undue(queue)) <= MaxChallenges
  BY <1>1, <1>2, <1>3, Limits DEF ChallengeTable
<1>7. ASSUME NEW c \in challenges \ ExpiredChallenges
      PROVE  \E i \in DOMAIN Undue(queue) :
                Undue(queue)[i] = [expires |-> c.expires, serial |-> c.serial,
                                   device |-> DeviceKey(c)]
  <2> DEFINE entry == [expires |-> c.expires, serial |-> c.serial,
                       device |-> DeviceKey(c)]
  <2>1. PICK j \in 1 .. Len(queue) : queue[j] = entry
    BY <1>1 DEF ChallengeTable
  <2>2. j \notin 1 .. m
    <3> SUFFICES ASSUME j \in 1 .. m PROVE FALSE
      OBVIOUS
    <3>1. c.expires <= clock /\ queue[j].serial = c.serial
      BY <1>2, <2>1
    <3> QED
      BY <3>1 DEF ExpiredChallenges
  <2>3. j \in m + 1 .. Len(queue)
    BY <1>1, <1>2, <2>2
  <2> QED
    BY <1>3, <2>1, <2>3
<1> QED
  BY <1>3, <1>4, <1>5, <1>6, <1>7

LEMMA ChallengeIssued ==
    ASSUME ChallengeTypes, ChallengeTable, clock \in Nat,
           NEW a \in Accounts, NEW d \in Devices, IssueChallenge(a, d)
    PROVE  ChallengeTypes' /\ ChallengeTable'
<1> DEFINE live == challenges \ ExpiredChallenges
           queue == Undue(challengeQueue)
           slots == SlotsAfterPrune
           c == [serial |-> issued + 1, account |-> a, device |-> d,
                 expires |-> clock + ChallengeLifetime]
           entry == [expires |-> clock + ChallengeLifetime, serial |-> issued + 1,
                     device |-> <<a, d>>]
<1>1. /\ slots \in [DeviceKeys -> Nat] /\ queue \in Seq(ChallengeEntries)
      /\ \A k \in DeviceKeys : /\ slots[k] = Cardinality(EntriesOf(queue, k))
                               /\ slots[k] <= MaxChallengesPerDevice
      /\ Len(queue) <= MaxChallenges /\ InOrder(queue, ChallengeLifetime)
      /\ \A e \in live : \E i \in DOMAIN queue :
            queue[i] = [expires |-> e.expires, serial |-> e.serial,
                        device |-> DeviceKey(e)]
  BY ChallengesPruned
<1>2. live \subseteq Challenges /\ live \subseteq challenges /\ clock' = clock
  BY DEF IssueChallenge, ChallengeTypes
<1>3. <<a, d>> \in DeviceKeys
  BY DEF DeviceKeys
<1> HIDE DEF live, queue, slots
<1>4. CASE challenges' = live /\ challengeQueue' = queue /\ challengeSlots' = slots
           /\ UNCHANGED issued
  <2>1. InOrder(challengeQueue, ChallengeLifetime)'
    BY <1>1, <1>2, <1>4 DEF InOrder
  <2> QED
    BY <1>1, <1>2, <1>4, <2>1 DEF ChallengeTypes, ChallengeTable, EntriesOf
<1>5. CASE /\ Len(queue) < MaxChallenges /\ slots[<<a, d>>] < MaxChallengesPerDevice
           /\ issued < MaxIssued /\ issued' = issued + 1
           /\ challenges' = live \cup {c}
           /\ challengeQueue' = Append(queue, entry)
           /\ challengeSlots' = [slots EXCEPT ![<<a, d>>] = @ + 1]
  <2>0. /\ issued' \in Serials /\ issued' \in 0 .. MaxIssued
        /\ clock + ChallengeLifetime \in Nat /\ Len(queue) \in Nat
    BY <1>1, <1>5, Limits, SeqFacts DEF ChallengeTypes, Serials
  <2>1. c \in Challenges /\ entry \in ChallengeEntries
    BY <1>3, <1>5, <2>0 DEF Challenges, ChallengeEntries
  <2>a. /\ entry.expires = clock + ChallengeLifetime /\ entry.device = <<a, d>>
        /\ entry = [expires |-> c.expires, serial |-> c.serial, device |-> DeviceKey(c)]
    BY DEF DeviceKey
  <2> HIDE DEF entry, c
  <2>2. \A e \in ChallengeEntries : e.expires \in Nat
    BY DEF ChallengeEntries
  <2>3. /\ Append(queue, entry) \in Seq(ChallengeEntries)
        /\ Len(Append(queue, entry)) = Len(queue) + 1
        /\ InOrder(Append(queue, entry), ChallengeLifetime)
        /\ \E i \in DOMAIN Append(queue, entry) : Append(queue, entry)[i] = entry
        /\ \A j \in DOMAIN queue :
              /\ j \in DOMAIN Append(queue, entry)
              /\ Append(queue, entry)[j] = queue[j]
    BY <1>1, <2>1, <2>2, <2>a, Limits, AppendedFacts
  <2>4. \A k \in DeviceKeys :
           Cardinality(EntriesOf(Append(queue, entry), k))
             = Cardinality(EntriesOf(queue, k)) + IF <<a, d>> = k THEN 1 ELSE 0
    BY <1>1, <2>1, <2>a, AppendCount
  <2>5. \A k \in DeviceKeys :
           challengeSlots'[k] = slots[k] + IF <<a, d>> = k THEN 1 ELSE 0
    <3> DEFINE key == <<a, d>>
    <3> SUFFICES ASSUME NEW k \in DeviceKeys
                 PROVE  challengeSlots'[k] = slots[k] + IF key = k THEN 1 ELSE 0
      OBVIOUS
    <3>1. /\ challengeSlots' = [slots EXCEPT ![key] = slots[key] + 1]
          /\ slots \in [DeviceKeys -> Nat]
      BY <1>1, <1>5
    <3>2. slots[k] \in Nat
      BY <3>1
    <3> HIDE DEF key
    <3> QED
      BY <3>1, <3>2
  <2>6. /\ \A k \in DeviceKeys :
              /\ challengeSlots'[k] = Cardinality(EntriesOf(challengeQueue', k))
              /\ challengeSlots'[k] <= MaxChallengesPerDevice
        /\ challengeSlots' \in [DeviceKeys -> Nat]
    <3>1. \A k \in DeviceKeys : slots[k] \in Nat
      BY <1>1
    <3>2. \A k \in DeviceKeys :
             challengeSlots'[k] = Cardinality(EntriesOf(challengeQueue', k))
      BY <1>1, <1>5, <2>4, <2>5
    <3>3. \A k \in DeviceKeys : challengeSlots'[k] <= MaxChallengesPerDevice
      <4> SUFFICES ASSUME NEW k \in DeviceKeys
                   PROVE  challengeSlots'[k] <= MaxChallengesPerDevice
        OBVIOUS
      <4>1. CASE <<a, d>> = k
        <5>1. /\ challengeSlots'[k] = slots[k] + 1 /\ slots[k] \in Nat
              /\ slots[k] < MaxChallengesPerDevice
          BY <1>5, <2>5, <3>1, <4>1
        <5> QED
          BY <5>1, Limits
      <4>2. CASE <<a, d>> # k
        <5>1. challengeSlots'[k] = slots[k] /\ slots[k] \in Nat
          BY <2>5, <3>1, <4>2
        <5> QED
          BY <1>1, <5>1
      <4> QED
        BY <4>1, <4>2
    <3>4. challengeSlots' \in [DeviceKeys -> Nat]
      BY <1>1, <1>3, <1>5
    <3> QED
      BY <3>2, <3>3, <3>4
  <2>7. \A e \in challenges' : \E i \in DOMAIN challengeQueue' :
           challengeQueue'[i] = [expires |-> e.expires, serial |-> e.serial,
                                 device |-> DeviceKey(e)]
    <3> SUFFICES ASSUME NEW e \in challenges'
                 PROVE  \E i \in DOMAIN challengeQueue' :
                           challengeQueue'[i] = [expires |-> e.expires,
                              serial |-> e.serial, device |-> DeviceKey(e)]
      OBVIOUS
    <3>1. CASE e = c
      BY <1>5, <2>3, <2>a, <3>1
    <3>2. CASE e \in live
      BY <1>1, <1>5, <2>3, <3>2
    <3> QED
      BY <1>5, <3>1, <3>2
  <2>8. Len(challengeQueue') <= MaxChallenges
    BY <1>5, <2>0, <2>3, Limits
  <2>9. InOrder(challengeQueue, ChallengeLifetime)'
    BY <1>2, <1>5, <2>3 DEF InOrder
  <2> QED
    BY <1>2, <1>5, <2>0, <2>1, <2>3, <2>6, <2>7, <2>8, <2>9
    DEF ChallengeTypes, ChallengeTable, EntriesOf
<1>6. Len(queue) \in Nat /\ slots[<<a, d>>] \in Nat
  BY <1>1, <1>3, SeqFacts
<1> QED
  BY <1>4, <1>5, <1>6, Limits DEF IssueChallenge, live, queue, slots
-----------------------------------------------------------------------------
(***************************************************************************)
(* The table of sessions, with its queue and its slots.                    *)
(***************************************************************************)
SessionTypes ==
    /\ sessions \subseteq Sessions /\ granted \in 0 .. MaxIssued
    /\ sessionQueue \in Seq(SessionEntries)
    /\ sessionSlots \in [DeviceKeys -> Nat]

LEMMA SessionsKept ==
    ASSUME SessionTypes, SessionTable, clock \in Nat, clock' \in {clock, clock + 1},
           UNCHANGED <<sessions, sessionQueue, sessionSlots, granted>>
    PROVE  SessionTypes' /\ SessionTable'
<1>1. \A e \in SessionEntries : e.expires \in Nat
  BY DEF SessionEntries
<1>2. InOrder(sessionQueue, SessionLifetime)'
  BY <1>1, Limits, LaterInOrder DEF SessionTypes, SessionTable, InOrder
<1> QED
  BY <1>2 DEF SessionTypes, SessionTable, CountFor

\* Whatever sessions are dropped, each gives its slot back.
LEMMA SlotsFollowDrops ==
    ASSUME SessionTypes, SessionTable, NEW X \in SUBSET sessions
    PROVE  /\ DropSessions(X) \in [DeviceKeys -> Nat]
           /\ \A k \in DeviceKeys :
                 /\ DropSessions(X)[k] = CountFor(sessions \ X, k)
                 /\ DropSessions(X)[k] <= MaxSessionsPerDevice
           /\ IsFiniteSet(sessions \ X)
           /\ Cardinality(sessions \ X) \in Nat
           /\ Cardinality(sessions \ X) <= MaxSessions
<1>1. ASSUME NEW k \in DeviceKeys
      PROVE  /\ DropSessions(X)[k] = CountFor(sessions \ X, k)
             /\ DropSessions(X)[k] \in Nat
             /\ DropSessions(X)[k] <= MaxSessionsPerDevice
  <2>1. /\ CountFor(sessions \ X, k) = CountFor(sessions, k) - CountFor(X, k)
        /\ CountFor(X, k) \in Nat /\ CountFor(sessions \ X, k) \in Nat
    BY DropCount DEF SessionTable
  <2>2. /\ sessionSlots[k] = CountFor(sessions, k) /\ sessionSlots[k] \in Nat
        /\ sessionSlots[k] <= MaxSessionsPerDevice
    BY DEF SessionTable, SessionTypes
  <2>3. DropSessions(X)[k] = sessionSlots[k] - CountFor(X, k)
    BY DEF DropSessions
  <2> QED
    BY <2>1, <2>2, <2>3, Limits
<1>2. DropSessions(X) \in [DeviceKeys -> Nat]
  BY <1>1 DEF DropSessions
<1>3. /\ IsFiniteSet(sessions \ X)
      /\ Cardinality(sessions \ X) <= Cardinality(sessions)
      /\ Cardinality(sessions \ X) \in Nat /\ Cardinality(sessions) \in Nat
  BY FS_Subset, FS_CardinalityType DEF SessionTable
<1>4. Cardinality(sessions \ X) <= MaxSessions
  <2>1. Cardinality(sessions) <= MaxSessions
    BY DEF SessionTable
  <2> QED
    BY <1>3, <2>1, Limits
<1> QED
  BY <1>1, <1>2, <1>3, <1>4

LEMMA SessionDropped ==
    ASSUME SessionTypes, SessionTable, clock' = clock, NEW s \in sessions, DropExpired(s)
    PROVE  SessionTypes' /\ SessionTable' /\ sessions' \subseteq sessions /\ UNCHANGED grants
<1>1. /\ sessions' = sessions \ {s} /\ sessionSlots' = DropSessions({s})
      /\ UNCHANGED <<sessionQueue, granted, grants>>
  BY DEF DropExpired
<1>2. /\ sessionSlots' \in [DeviceKeys -> Nat]
      /\ \A k \in DeviceKeys : /\ sessionSlots'[k] = CountFor(sessions', k)
                               /\ sessionSlots'[k] <= MaxSessionsPerDevice
      /\ IsFiniteSet(sessions') /\ Cardinality(sessions') <= MaxSessions
  BY <1>1, SlotsFollowDrops
<1>3. InOrder(sessionQueue, SessionLifetime)'
  BY <1>1 DEF SessionTable, InOrder
<1> QED
  BY <1>1, <1>2, <1>3 DEF SessionTypes, SessionTable, CountFor

\* What the queue keeps of the sessions that are not pruned.
LEMMA SessionsPruned ==
    ASSUME SessionTypes, SessionTable, clock \in Nat
    PROVE  /\ Undue(sessionQueue) \in Seq(SessionEntries)
           /\ InOrder(Undue(sessionQueue), SessionLifetime)
           /\ \A s \in sessions \ ExpiredSessions :
                 \E i \in DOMAIN Undue(sessionQueue) :
                    Undue(sessionQueue)[i] = [expires |-> s.expires, token |-> s.token]
<1> DEFINE queue == sessionQueue
           m == Due(sessionQueue)
<1>1. /\ queue \in Seq(SessionEntries) /\ \A e \in SessionEntries : e.expires \in Nat
      /\ InOrder(queue, SessionLifetime) /\ SessionLifetime \in Nat
      /\ Len(queue) \in Nat /\ DOMAIN queue = 1 .. Len(queue)
  BY Limits, SeqFacts DEF SessionTypes, SessionTable, SessionEntries
<1>2. m \in 0 .. Len(queue) /\ \A i \in 1 .. m : queue[i].expires <= clock
  BY <1>1, DueFacts
<1>3. /\ Undue(queue) \in Seq(SessionEntries)
      /\ InOrder(Undue(queue), SessionLifetime)
      /\ \A j \in m + 1 .. Len(queue) :
            \E i \in DOMAIN Undue(queue) : Undue(queue)[i] = queue[j]
  BY <1>1, UndueFacts
<1>4. ASSUME NEW s \in sessions \ ExpiredSessions
      PROVE  \E i \in DOMAIN Undue(queue) :
                Undue(queue)[i] = [expires |-> s.expires, token |-> s.token]
  <2> DEFINE entry == [expires |-> s.expires, token |-> s.token]
  <2>1. PICK j \in 1 .. Len(queue) : queue[j] = entry
    BY <1>1 DEF SessionTable
  <2>2. j \notin 1 .. m
    <3> SUFFICES ASSUME j \in 1 .. m PROVE FALSE
      OBVIOUS
    <3>1. s.expires <= clock /\ queue[j].token = s.token
      BY <1>2, <2>1
    <3> QED
      BY <3>1 DEF ExpiredSessions
  <2>3. j \in m + 1 .. Len(queue)
    BY <1>1, <1>2, <2>2
  <2> QED
    BY <1>3, <2>1, <2>3
<1> QED
  BY <1>3, <1>4

\* A session is granted, or the due ones are dropped and none is.
LEMMA SessionGranted ==
    ASSUME SessionTypes, SessionTable, clock \in Nat,
           NEW p, calls[p].challenge \in Challenges, CommitSession(p)
    PROVE  SessionTypes' /\ SessionTable'
<1> DEFINE live == sessions \ ExpiredSessions
           queue == Undue(sessionQueue)
           slots == DropSessions(ExpiredSessions)
           c == calls[p].challenge
           key == DeviceKey(c)
           s == [token |-> granted + 1, account |-> c.account,
                 device |-> c.device, expires |-> clock + SessionLifetime]
           entry == [expires |-> clock + SessionLifetime, token |-> granted + 1]
<1>1. /\ slots \in [DeviceKeys -> Nat]
      /\ \A k \in DeviceKeys : /\ slots[k] = CountFor(live, k)
                               /\ slots[k] <= MaxSessionsPerDevice
      /\ IsFiniteSet(live) /\ Cardinality(live) \in Nat
      /\ Cardinality(live) <= MaxSessions
  BY SlotsFollowDrops DEF ExpiredSessions
<1>2. /\ queue \in Seq(SessionEntries) /\ InOrder(queue, SessionLifetime)
      /\ \A t \in live : \E i \in DOMAIN queue :
            queue[i] = [expires |-> t.expires, token |-> t.token]
  BY SessionsPruned
<1>3. /\ clock' = clock /\ live \subseteq sessions /\ live \subseteq Sessions
      /\ \A t \in live : t.token <= granted
  BY DEF CommitSession, SessionTypes, SessionTable
<1>4. key \in DeviceKeys
  BY DEF DeviceKey, DeviceKeys, Challenges
<1>5. \/ /\ sessions' = live /\ sessionQueue' = queue /\ sessionSlots' = slots
         /\ UNCHANGED granted
      \/ /\ Cardinality(live) < MaxSessions /\ slots[key] < MaxSessionsPerDevice
         /\ granted < MaxIssued /\ granted' = granted + 1
         /\ sessions' = live \cup {s}
         /\ sessionQueue' = Append(queue, entry)
         /\ sessionSlots' = [slots EXCEPT ![key] = @ + 1]
  BY DEF CommitSession
<1>6. s.token = granted + 1 /\ DeviceKey(s) = key
  BY DEF DeviceKey
<1>7. c.account \in Accounts /\ c.device \in Devices
  BY DEF Challenges
<1> HIDE DEF live, queue, slots, c, key
<1>8. CASE /\ sessions' = live /\ sessionQueue' = queue /\ sessionSlots' = slots
           /\ UNCHANGED granted
  <2>1. InOrder(sessionQueue, SessionLifetime)'
    BY <1>2, <1>3, <1>8 DEF InOrder
  <2> QED
    BY <1>1, <1>2, <1>3, <1>8, <2>1 DEF SessionTypes, SessionTable, CountFor
<1>9. CASE /\ Cardinality(live) < MaxSessions /\ slots[key] < MaxSessionsPerDevice
           /\ granted < MaxIssued /\ granted' = granted + 1
           /\ sessions' = live \cup {s}
           /\ sessionQueue' = Append(queue, entry)
           /\ sessionSlots' = [slots EXCEPT ![key] = @ + 1]
  <2>0. /\ granted \in Nat /\ granted' \in Serials /\ granted' \in 0 .. MaxIssued
        /\ clock + SessionLifetime \in Nat
    BY <1>9, Limits DEF SessionTypes, Serials
  <2>1. s \in Sessions /\ entry \in SessionEntries
    BY <1>7, <1>9, <2>0 DEF Sessions, SessionEntries
  <2>2. \A e \in SessionEntries : e.expires \in Nat
    BY DEF SessionEntries
  <2>3. /\ entry.expires = clock + SessionLifetime
        /\ entry = [expires |-> s.expires, token |-> s.token]
    OBVIOUS
  <2> HIDE DEF entry, s
  <2>4. /\ Append(queue, entry) \in Seq(SessionEntries)
        /\ InOrder(Append(queue, entry), SessionLifetime)
        /\ \E i \in DOMAIN Append(queue, entry) : Append(queue, entry)[i] = entry
        /\ \A j \in DOMAIN queue :
              /\ j \in DOMAIN Append(queue, entry)
              /\ Append(queue, entry)[j] = queue[j]
    BY <1>2, <2>1, <2>2, <2>3, Limits, AppendedFacts
  <2>5. s \notin live
    BY <1>3, <1>6, <2>0
  <2>6. /\ IsFiniteSet(sessions') /\ Cardinality(sessions') <= MaxSessions
    <3>1. IsFiniteSet(live \cup {s}) /\ Cardinality(live \cup {s}) = Cardinality(live) + 1
      BY <1>1, <2>5, FS_AddElement
    <3> QED
      BY <1>1, <1>9, <3>1, Limits
  <2>7. ASSUME NEW k \in DeviceKeys
        PROVE  /\ sessionSlots'[k] = CountFor(sessions', k)
               /\ sessionSlots'[k] <= MaxSessionsPerDevice
    <3>1. CountFor(live \cup {s}, k) = CountFor(live, k) + IF key = k THEN 1 ELSE 0
      BY <1>1, <1>6, <2>5, AddCount
    <3>2. /\ sessionSlots' = [slots EXCEPT ![key] = slots[key] + 1]
          /\ slots \in [DeviceKeys -> Nat] /\ slots[k] \in Nat
      BY <1>1, <1>9
    <3>3. sessionSlots'[k] = slots[k] + IF key = k THEN 1 ELSE 0
      BY <3>2
    <3>4. slots[k] = CountFor(live, k) /\ slots[k] <= MaxSessionsPerDevice
      BY <1>1
    <3>5. key = k => slots[k] < MaxSessionsPerDevice
      BY <1>9
    <3>6. sessions' = live \cup {s}
      BY <1>9
    <3>7. sessionSlots'[k] <= MaxSessionsPerDevice
      BY <3>2, <3>3, <3>4, <3>5, Limits
    <3> QED
      BY <3>1, <3>3, <3>4, <3>6, <3>7
  <2>8. sessionSlots' \in [DeviceKeys -> Nat]
    BY <1>1, <1>4, <1>9
  <2>9. ASSUME NEW t \in sessions'
        PROVE  /\ t.token <= granted'
               /\ \E i \in DOMAIN sessionQueue' :
                     sessionQueue'[i] = [expires |-> t.expires, token |-> t.token]
    <3>1. CASE t = s
      BY <1>6, <1>9, <2>0, <2>3, <2>4, <3>1
    <3>2. CASE t \in live
      <4>1. t.token <= granted'
        <5>1. t.token \in Nat
          BY <1>3, <3>2 DEF Sessions, Serials
        <5> QED
          BY <1>3, <1>9, <2>0, <3>2, <5>1
      <4> QED
        BY <1>2, <1>9, <2>4, <3>2, <4>1
    <3> QED
      BY <1>9, <3>1, <3>2
  <2>10. InOrder(sessionQueue, SessionLifetime)'
    BY <1>3, <1>9, <2>4 DEF InOrder
  <2>11. sessions' \subseteq Sessions /\ sessionQueue' \in Seq(SessionEntries)
    BY <1>3, <1>9, <2>1, <2>4
  <2> QED
    BY <2>0, <2>6, <2>7, <2>8, <2>9, <2>10, <2>11 DEF SessionTypes, SessionTable, CountFor
<1> QED
  BY <1>5, <1>8, <1>9
-----------------------------------------------------------------------------
(***************************************************************************)
(* Calls.                                                                  *)
(***************************************************************************)
CallTypes ==
    /\ limiters \in [{"bootstrap", "account"} ->
                        [started : Instants \cup {None}, count : Nat]]
    /\ calls \in [Callers -> Calls \cup {None}]

LEMMA CallFacts ==
    ASSUME CallTypes, NEW p \in Callers, calls[p] # None
    PROVE  /\ calls[p] \in Calls /\ calls[p].verified \in BOOLEAN
           /\ calls[p].op \in {"bootstrap", "session", "device"}
           /\ calls[p].op = "bootstrap" =>
                 /\ calls[p] \in BootstrapCalls
                 /\ calls[p].transition \in TransitionRecords
                 /\ calls[p].admission \in Serials
           /\ calls[p].op = "session" =>
                 calls[p] \in SessionCalls /\ calls[p].challenge \in Challenges
           /\ calls[p].op = "device" =>
                 calls[p] \in DeviceCalls /\ calls[p].transition \in TransitionRecords
<1>1. calls[p] \in Calls
  BY DEF CallTypes
<1>2. CASE calls[p] \in BootstrapCalls
  BY <1>1, <1>2 DEF BootstrapCalls
<1>3. CASE calls[p] \in SessionCalls
  BY <1>1, <1>3 DEF SessionCalls
<1>4. CASE calls[p] \in DeviceCalls
  BY <1>1, <1>4 DEF DeviceCalls
<1> QED
  BY <1>1, <1>2, <1>3, <1>4 DEF Calls

LEMMA BeginFacts ==
    ASSUME CallTypes, NEW p \in Callers, NEW call \in Calls, Begin(p, call)
    PROVE  /\ calls' \in [Callers -> Calls \cup {None}]
           /\ calls'[p] = call
           /\ \A q \in Callers : q # p => calls'[q] = calls[q]
BY DEF CallTypes, Begin

LEMMA ReturnFacts ==
    ASSUME CallTypes, NEW p \in Callers, Return(p)
    PROVE  /\ calls' \in [Callers -> Calls \cup {None}]
           /\ calls'[p] = None
           /\ \A q \in Callers : q # p => calls'[q] = calls[q]
BY DEF CallTypes, Return

\* A verification leaves a call as it was, now verified, or ends it.
LEMMA VerifyFacts ==
    ASSUME CallTypes, clock \in Instants, NEW p \in Callers, Verify(p)
    PROVE  /\ CallTypes'
           /\ \A q \in Callers : q # p => calls'[q] = calls[q]
           /\ calls[p] # None
           /\ calls'[p] # None =>
                 calls'[p] = [calls[p] EXCEPT !.verified = TRUE] /\ Genuine(calls[p])
<1> DEFINE class == ClassOf(calls[p])
           w == CurrentWindow(class)
           next == [calls[p] EXCEPT !.verified = TRUE]
<1>1. calls[p] # None /\ calls[p] \in Calls
  BY CallFacts DEF Verify
<1>2. class \in {"bootstrap", "account"}
  BY DEF ClassOf
<1>3. /\ w \in [started : Instants \cup {None}, count : Nat]
      /\ [started |-> w.started, count |-> w.count + 1]
           \in [started : Instants \cup {None}, count : Nat]
  <2> HIDE DEF class
  <2>1. limiters[class] \in [started : Instants \cup {None}, count : Nat]
    BY <1>2 DEF CallTypes
  <2> QED
    BY <2>1 DEF CurrentWindow
<1> HIDE DEF class, w
<1>4. limiters' \in [{"bootstrap", "account"} ->
                       [started : Instants \cup {None}, count : Nat]]
  BY <1>2, <1>3 DEF Verify, CallTypes, class, w
<1>5. next \in Calls
  <2>1. CASE calls[p] \in BootstrapCalls
    <3>1. next \in BootstrapCalls
      BY <2>1 DEF BootstrapCalls
    <3> QED
      BY <3>1 DEF Calls
  <2>2. CASE calls[p] \in SessionCalls
    <3>1. next \in SessionCalls
      BY <2>2 DEF SessionCalls
    <3> QED
      BY <3>1 DEF Calls
  <2>3. CASE calls[p] \in DeviceCalls
    <3>1. next \in DeviceCalls
      BY <2>3 DEF DeviceCalls
    <3> QED
      BY <3>1 DEF Calls
  <2> QED
    BY <1>1, <2>1, <2>2, <2>3 DEF Calls
<1> HIDE DEF next
<1>6. CASE Return(p)
  BY <1>1, <1>4, <1>6, ReturnFacts DEF CallTypes
<1>7. CASE Begin(p, next) /\ Genuine(calls[p])
  BY <1>1, <1>4, <1>5, <1>7, BeginFacts DEF CallTypes, next
<1> QED
  BY <1>6, <1>7 DEF Verify, next
-----------------------------------------------------------------------------
(***************************************************************************)
(* Custody of challenges.                                                  *)
(***************************************************************************)
GrantTypes == grants \subseteq [token : Serials, challenge : Challenges, at : Instants]

\* No call takes a challenge it did not hold.
NoneTaken == \A q \in Callers : InSession(q)' =>
                InSession(q) /\ calls'[q].challenge = calls[q].challenge

LEMMA CustodyKept ==
    ASSUME Custody, challenges' \subseteq challenges, UNCHANGED <<issued, grants>>, NoneTaken
    PROVE  Custody'
<1>1. UNCHANGED issued /\ UNCHANGED grants
  OBVIOUS
<1>2. ASSUME NEW p \in Callers, InSession(p)'
      PROVE  /\ calls'[p].challenge.serial <= issued'
             /\ \A c \in challenges' : c.serial # calls'[p].challenge.serial
             /\ \A g \in grants' : g.challenge.serial # calls'[p].challenge.serial
             /\ \A q \in Callers :
                  InSession(q)' /\ calls'[q].challenge.serial = calls'[p].challenge.serial
                    => p = q
  BY <1>1, <1>2 DEF Custody, NoneTaken
<1>3. SessionsAreEarned'
  BY <1>1 DEF Custody, SessionsAreEarned
<1> QED
  BY <1>1, <1>2, <1>3 DEF Custody, InSession

LEMMA CustodyIssued ==
    ASSUME Custody, ChallengeTypes, GrantTypes, CallTypes,
           NEW a \in Accounts, NEW d \in Devices, IssueChallenge(a, d)
    PROVE  Custody'
<1> DEFINE live == challenges \ ExpiredChallenges
           new == [serial |-> issued + 1, account |-> a, device |-> d,
                   expires |-> clock + ChallengeLifetime]
<1>1. UNCHANGED grants /\ UNCHANGED calls /\ live \subseteq challenges
  BY DEF IssueChallenge, sessionVars
<1>2. NoneTaken
  BY <1>1 DEF NoneTaken, InSession
<1>3. issued \in Nat /\ new.serial = issued + 1
  BY Limits DEF ChallengeTypes
<1>4. \/ challenges' = live /\ UNCHANGED issued
      \/ challenges' = live \cup {new} /\ issued' = issued + 1
  BY DEF IssueChallenge
<1>5. /\ \A c \in challenges : c.serial \in Nat
      /\ \A g \in grants : g.challenge.serial \in Nat
      /\ \A p \in Callers : InSession(p) => calls[p].challenge.serial \in Nat
  <2>1. \A c \in Challenges : c.serial \in Nat
    BY DEF Challenges, Serials
  <2>2. \A p \in Callers : InSession(p) => calls[p].challenge \in Challenges
    BY CallFacts DEF InSession
  <2> QED
    BY <2>1, <2>2 DEF ChallengeTypes, GrantTypes
<1> HIDE DEF live, new
<1>6. CASE challenges' = live /\ UNCHANGED issued
  BY <1>1, <1>2, <1>6, CustodyKept
<1>7. CASE challenges' = live \cup {new} /\ issued' = issued + 1
  <2>1. /\ \A c \in challenges : c.serial <= issued
        /\ \A c, e \in challenges : c.serial = e.serial => c = e
        /\ \A g \in grants : g.challenge.serial <= issued
        /\ \A g \in grants, c \in challenges : g.challenge.serial # c.serial
    BY DEF Custody
  <2>2. /\ \A c \in challenges' : c.serial <= issued'
        /\ \A g \in grants : g.challenge.serial <= issued'
    BY <1>1, <1>3, <1>5, <1>7, <2>1
  <2>3. \A c, e \in challenges' : c.serial = e.serial => c = e
    BY <1>1, <1>3, <1>5, <1>7, <2>1
  <2>4. \A g \in grants, c \in challenges' : g.challenge.serial # c.serial
    BY <1>1, <1>3, <1>5, <1>7, <2>1
  <2>5. \A p \in Callers : InSession(p) =>
           /\ calls[p].challenge.serial <= issued'
           /\ \A c \in challenges' : c.serial # calls[p].challenge.serial
           /\ \A g \in grants : g.challenge.serial # calls[p].challenge.serial
           /\ \A q \in Callers :
                InSession(q) /\ calls[q].challenge.serial = calls[p].challenge.serial
                  => p = q
    <3> SUFFICES ASSUME NEW p \in Callers, InSession(p)
                 PROVE  /\ calls[p].challenge.serial <= issued'
                        /\ \A c \in challenges' : c.serial # calls[p].challenge.serial
                        /\ \A g \in grants :
                             g.challenge.serial # calls[p].challenge.serial
                        /\ \A q \in Callers :
                             /\ InSession(q)
                             /\ calls[q].challenge.serial = calls[p].challenge.serial
                             => p = q
      OBVIOUS
    <3>1. /\ calls[p].challenge.serial <= issued
          /\ \A c \in challenges : c.serial # calls[p].challenge.serial
          /\ \A g \in grants : g.challenge.serial # calls[p].challenge.serial
          /\ \A q \in Callers :
               InSession(q) /\ calls[q].challenge.serial = calls[p].challenge.serial
                 => p = q
      BY DEF Custody
    <3>2. calls[p].challenge.serial \in Nat
      BY <1>5
    <3> QED
      BY <1>1, <1>3, <1>7, <3>1, <3>2
  <2>6. SessionsAreEarned'
    BY <1>1 DEF Custody, SessionsAreEarned
  <2> QED
    BY <1>1, <2>2, <2>3, <2>4, <2>5, <2>6 DEF Custody, InSession
<1> QED
  BY <1>4, <1>6, <1>7

\* The challenge leaves the table for the call that took it.
LEMMA CustodyTaken ==
    ASSUME Custody, CallTypes, NEW p \in Callers, NEW c \in challenges,
           challenges' = challenges \ {c}, UNCHANGED issued, UNCHANGED grants,
           calls'[p] # None, calls'[p].challenge = c,
           \A q \in Callers : q # p => calls'[q] = calls[q]
    PROVE  Custody'
<1>1. /\ \A e \in challenges : e.serial <= issued
      /\ \A e, f \in challenges : e.serial = f.serial => e = f
      /\ \A g \in grants : g.challenge.serial <= issued
      /\ \A g \in grants, e \in challenges : g.challenge.serial # e.serial
  BY DEF Custody
<1>2. ASSUME NEW q \in Callers, InSession(q)', q # p
      PROVE  /\ InSession(q) /\ calls'[q].challenge = calls[q].challenge
             /\ calls[q].challenge.serial <= issued
             /\ \A e \in challenges : e.serial # calls[q].challenge.serial
             /\ \A g \in grants : g.challenge.serial # calls[q].challenge.serial
             /\ \A r \in Callers :
                  InSession(r) /\ calls[r].challenge.serial = calls[q].challenge.serial
                    => q = r
  BY <1>2 DEF Custody, InSession
<1>3. ASSUME NEW q \in Callers, InSession(q)'
      PROVE  /\ calls'[q].challenge.serial <= issued'
             /\ \A e \in challenges' : e.serial # calls'[q].challenge.serial
             /\ \A g \in grants' : g.challenge.serial # calls'[q].challenge.serial
             /\ \A r \in Callers :
                  InSession(r)' /\ calls'[r].challenge.serial = calls'[q].challenge.serial
                    => q = r
  <2>1. CASE q = p
    <3>1. \A r \in Callers :
             InSession(r)' /\ calls'[r].challenge.serial = c.serial => p = r
      BY <1>2
    <3> QED
      BY <1>1, <2>1, <3>1
  <2>2. CASE q # p
    <3>1. \A r \in Callers : InSession(r)'
             /\ calls'[r].challenge.serial = calls'[q].challenge.serial => q = r
      <4> SUFFICES ASSUME NEW r \in Callers, InSession(r)',
                          calls'[r].challenge.serial = calls'[q].challenge.serial
                   PROVE  q = r
        OBVIOUS
      <4>1. CASE r = p
        BY <1>2, <1>3, <2>2, <4>1
      <4>2. CASE r # p
        BY <1>2, <1>3, <2>2, <4>2
      <4> QED
        BY <4>1, <4>2
    <3> QED
      BY <1>2, <1>3, <2>2, <3>1
  <2> QED
    BY <2>1, <2>2
<1>4. SessionsAreEarned'
  BY DEF Custody, SessionsAreEarned
<1> QED
  BY <1>1, <1>3, <1>4 DEF Custody, InSession

\* The challenge leaves the call that held it for the session it was granted.
LEMMA CustodyGranted ==
    ASSUME Custody, CallTypes, NEW p \in Callers, InSession(p), NEW g,
           g.challenge = calls[p].challenge, g.at < g.challenge.expires,
           grants' = grants \cup {g}, UNCHANGED challenges, UNCHANGED issued,
           calls'[p] = None, \A q \in Callers : q # p => calls'[q] = calls[q]
    PROVE  Custody'
<1>1. /\ \A h \in grants : h.challenge.serial <= issued
      /\ \A h \in grants, e \in challenges : h.challenge.serial # e.serial
      /\ calls[p].challenge.serial <= issued
      /\ \A c \in challenges : c.serial # calls[p].challenge.serial
      /\ \A h \in grants : h.challenge.serial # calls[p].challenge.serial
  BY DEF Custody
<1>2. ASSUME NEW q \in Callers, InSession(q)'
      PROVE  /\ q # p /\ InSession(q) /\ calls'[q].challenge = calls[q].challenge
             /\ calls[q].challenge.serial <= issued
             /\ \A e \in challenges : e.serial # calls[q].challenge.serial
             /\ \A h \in grants : h.challenge.serial # calls[q].challenge.serial
             /\ \A r \in Callers :
                  InSession(r) /\ calls[r].challenge.serial = calls[q].challenge.serial
                    => q = r
  BY <1>2 DEF Custody, InSession
<1>3. ASSUME NEW q \in Callers, InSession(q)'
      PROVE  /\ calls'[q].challenge.serial <= issued'
             /\ \A e \in challenges' : e.serial # calls'[q].challenge.serial
             /\ \A h \in grants' : h.challenge.serial # calls'[q].challenge.serial
             /\ \A r \in Callers :
                  InSession(r)' /\ calls'[r].challenge.serial = calls'[q].challenge.serial
                    => q = r
  <2>1. g.challenge.serial # calls[q].challenge.serial
    BY <1>2, <1>3
  <2> QED
    BY <1>2, <1>3, <2>1
<1>4. SessionsAreEarned'
  <2>1. \A h, i \in grants : h.challenge.serial = i.challenge.serial => h = i
    BY DEF Custody, SessionsAreEarned
  <2>2. \A h \in grants : h.at < h.challenge.expires
    BY DEF Custody, SessionsAreEarned
  <2>3. \A h \in grants : h.challenge.serial # g.challenge.serial
    BY <1>1
  <2> QED
    BY <2>1, <2>2, <2>3 DEF SessionsAreEarned
<1> QED
  BY <1>1, <1>3, <1>4 DEF Custody, InSession
-----------------------------------------------------------------------------
(***************************************************************************)
(* Registries and their chains.                                            *)
(***************************************************************************)
Links == [parent : Revisions \cup {None}, revision : Revisions,
          device : Devices, signer : Devices]

AccountTypes ==
    /\ accounts \in [Accounts -> Registries \cup {None}]
    /\ admissions \in [Accounts -> Serials \cup {None}]
    /\ minted \in 0 .. MaxIssued
    /\ lineage \in [Accounts -> Seq(Links)]

LEMMA LinkType ==
    ASSUME NEW t \in TransitionRecords
    PROVE  Accepted(t) \in Links
BY DEF Accepted, Links, TransitionRecords

\* A chain of one link is what a bootstrap leaves.
LEMMA FirstLink ==
    ASSUME NEW t \in TransitionRecords, t.parent = None, t.signer = t.device
    PROVE  SumOf([revision |-> t.revision, devices |-> {t.device}, used |-> {t.revision}],
                 <<Accepted(t)>>)
<1> DEFINE link == Accepted(t)
           chain == <<link>>
           registry == [revision |-> t.revision, devices |-> {t.device},
                        used |-> {t.revision}]
<1>1. /\ link.parent = None /\ link.signer = link.device
      /\ link.device = t.device /\ link.revision = t.revision
  BY DEF Accepted
<1> HIDE DEF link
<1>2. chain # <<>> /\ Len(chain) = 1 /\ chain[1] = link
  OBVIOUS
<1> HIDE DEF chain
<1>3. /\ DevicesOf(chain, Len(chain)) = {link.device}
      /\ RevisionsOf(chain, Len(chain)) = {link.revision}
  BY <1>2 DEF DevicesOf, RevisionsOf
<1>4. IsFiniteSet({t.device}) /\ Cardinality({t.device}) = 1
  BY FS_Singleton
<1>5. Len(chain) <= MaxDevices
  BY <1>2, Limits
<1>6. \A i \in 2 .. Len(chain) : FALSE
  BY <1>2
<1>7. /\ registry.revision = t.revision /\ registry.devices = {t.device}
      /\ registry.used = {t.revision}
  OBVIOUS
<1> HIDE DEF registry
<1>8. SumOf(registry, chain)
  BY <1>1, <1>2, <1>3, <1>4, <1>5, <1>6, <1>7 DEF SumOf
<1> QED
  BY <1>8 DEF registry, chain, link

\* A chain grows by a link that succeeds its last one.
LEMMA NextLink ==
    ASSUME NEW chain \in Seq(Links), NEW registry \in Registries, SumOf(registry, chain),
           NEW t \in TransitionRecords,
           registry.revision = t.parent, t.revision \notin registry.used,
           Cardinality(registry.devices) < MaxDevices,
           t.signer \in registry.devices, t.device \notin registry.devices
    PROVE  SumOf([revision |-> t.revision, devices |-> registry.devices \cup {t.device},
                  used |-> registry.used \cup {t.revision}],
                 Append(chain, Accepted(t)))
<1> DEFINE link == Accepted(t)
           longer == Append(chain, link)
           n == Len(chain)
           grown == [revision |-> t.revision, devices |-> registry.devices \cup {t.device},
                     used |-> registry.used \cup {t.revision}]
<1>1. /\ link \in Links /\ link.parent = t.parent /\ link.signer = t.signer
      /\ link.device = t.device /\ link.revision = t.revision
  BY LinkType DEF Accepted
<1> HIDE DEF link
<1>2. /\ n \in Nat /\ n <= MaxDevices /\ chain # <<>>
      /\ registry.revision = chain[n].revision
      /\ registry.devices = DevicesOf(chain, n)
      /\ registry.used = RevisionsOf(chain, n)
      /\ IsFiniteSet(registry.devices) /\ Cardinality(registry.devices) = n
      /\ chain[1].parent = None /\ chain[1].signer = chain[1].device
  BY SeqFacts DEF SumOf
<1>3. \A i \in 2 .. n :
         /\ chain[i].parent = chain[i - 1].revision
         /\ chain[i].signer \in DevicesOf(chain, i - 1)
         /\ chain[i].device \notin DevicesOf(chain, i - 1)
         /\ chain[i].revision \notin RevisionsOf(chain, i - 1)
  BY DEF SumOf
<1>4. /\ Len(longer) = n + 1 /\ longer[n + 1] = link
      /\ \A i \in 1 .. n : longer[i] = chain[i]
  BY <1>1, AppendProperties
<1>5. n >= 1
  BY <1>2, EmptySeq
<1> HIDE DEF longer, n
<1>6. /\ \A i \in 1 .. n : /\ DevicesOf(longer, i) = DevicesOf(chain, i)
                           /\ RevisionsOf(longer, i) = RevisionsOf(chain, i)
      /\ DevicesOf(longer, n + 1) = registry.devices \cup {t.device}
      /\ RevisionsOf(longer, n + 1) = registry.used \cup {t.revision}
  <2>1. ASSUME NEW i \in 1 .. n
        PROVE  /\ DevicesOf(longer, i) = DevicesOf(chain, i)
               /\ RevisionsOf(longer, i) = RevisionsOf(chain, i)
    <3>1. \A j \in 1 .. i : longer[j] = chain[j]
      BY <1>2, <1>4
    <3> QED
      BY <3>1 DEF DevicesOf, RevisionsOf
  <2>2. 1 .. (n + 1) = (1 .. n) \cup {n + 1}
    BY <1>2
  <2>3. /\ {longer[j].device : j \in (1 .. n) \cup {n + 1}}
             = {chain[j].device : j \in 1 .. n} \cup {link.device}
        /\ {longer[j].revision : j \in (1 .. n) \cup {n + 1}}
             = {chain[j].revision : j \in 1 .. n} \cup {link.revision}
    BY <1>4
  <2> QED
    BY <1>1, <1>2, <2>1, <2>2, <2>3 DEF DevicesOf, RevisionsOf
<1>7. /\ IsFiniteSet(registry.devices \cup {t.device})
      /\ Cardinality(registry.devices \cup {t.device}) = n + 1
  BY <1>2, FS_AddElement
<1>8. \A i \in 2 .. n + 1 :
         /\ longer[i].parent = longer[i - 1].revision
         /\ longer[i].signer \in DevicesOf(longer, i - 1)
         /\ longer[i].device \notin DevicesOf(longer, i - 1)
         /\ longer[i].revision \notin RevisionsOf(longer, i - 1)
  <2> SUFFICES ASSUME NEW i \in 2 .. n + 1
               PROVE  /\ longer[i].parent = longer[i - 1].revision
                      /\ longer[i].signer \in DevicesOf(longer, i - 1)
                      /\ longer[i].device \notin DevicesOf(longer, i - 1)
                      /\ longer[i].revision \notin RevisionsOf(longer, i - 1)
    OBVIOUS
  <2>1. CASE i = n + 1
    <3>1. i - 1 = n /\ n \in 1 .. n /\ longer[n] = chain[n] /\ longer[i] = link
      BY <1>2, <1>4, <1>5, <2>1
    <3>2. /\ DevicesOf(longer, n) = registry.devices
          /\ RevisionsOf(longer, n) = registry.used
      BY <1>2, <1>6, <3>1
    <3> QED
      BY <1>1, <1>2, <3>1, <3>2
  <2>2. CASE i # n + 1
    <3>1. i \in 2 .. n /\ i \in 1 .. n /\ i - 1 \in 1 .. n
      BY <1>2, <2>2
    <3>2. /\ longer[i] = chain[i] /\ longer[i - 1] = chain[i - 1]
          /\ DevicesOf(longer, i - 1) = DevicesOf(chain, i - 1)
          /\ RevisionsOf(longer, i - 1) = RevisionsOf(chain, i - 1)
      BY <1>4, <1>6, <3>1
    <3> QED
      BY <1>3, <3>1, <3>2
  <2> QED
    BY <2>1, <2>2
<1>9. /\ longer # <<>> /\ Len(longer) <= MaxDevices
      /\ longer[1].parent = None /\ longer[1].signer = longer[1].device
  <2>1. longer[1] = chain[1] /\ Len(longer) # 0
    BY <1>2, <1>4, <1>5
  <2> QED
    BY <1>2, <1>4, <2>1, Limits
<1>10. /\ grown.revision = t.revision
       /\ grown.devices = registry.devices \cup {t.device}
       /\ grown.used = registry.used \cup {t.revision}
  OBVIOUS
<1> HIDE DEF grown
<1>11. SumOf(grown, longer)
  BY <1>1, <1>4, <1>6, <1>7, <1>8, <1>9, <1>10 DEF SumOf
<1> QED
  BY <1>11 DEF grown, longer, link

LEMMA AccountsKept ==
    ASSUME AccountTypes, Registered, UNCHANGED <<accounts, lineage>>
    PROVE  Registered' /\ \A a \in Accounts : Known(a)' <=> Known(a)
<1>1. \A a \in Accounts : Known(a)' <=> Known(a)
  BY DEF Known
<1>2. {a \in Accounts : Known(a)'} = {a \in Accounts : Known(a)}
  BY <1>1
<1>3. \A a \in Accounts : IF Known(a)' THEN SumOf(accounts'[a], lineage'[a])
                          ELSE lineage'[a] = <<>>
  BY <1>1 DEF Registered
<1> QED
  BY <1>1, <1>2, <1>3 DEF Registered, SumOf, DevicesOf, RevisionsOf

LEMMA Bootstrapped ==
    ASSUME AccountTypes, CallTypes, CallsAreFounded, Registered,
           NEW p \in Callers, CommitBootstrap(p), StillAdmitted(calls[p]),
           NEW t, t = calls[p].transition
    PROVE  /\ AccountTypes' /\ Registered'
           /\ \A a \in Accounts : Known(a) => Known(a)'
           /\ \A a \in Accounts : ~Known(a) /\ Known(a)' =>
                 /\ admissions[a] # None /\ admissions'[a] = None
                 /\ calls[p] # None /\ calls[p].op = "bootstrap"
                 /\ calls[p].transition.account = a /\ calls[p].admission = admissions[a]
           /\ Cardinality({a \in Accounts : Known(a)'}) <= MaxAccounts
<1> DEFINE b == t.account
           registry == [revision |-> t.revision, devices |-> {t.device},
                        used |-> {t.revision}]
           chain == <<Accepted(t)>>
           K == {a \in Accounts : Known(a)}
<1>1. /\ calls[p] # None /\ calls[p].op = "bootstrap" /\ calls[p].verified
      /\ t \in TransitionRecords /\ calls[p].admission \in Serials
  BY CallFacts DEF CommitBootstrap, InCommit
<1>2. t.parent = None /\ t.signer = t.device
  BY <1>1 DEF CallsAreFounded, Genuine
<1>3. /\ b \in Accounts /\ accounts[b] = None /\ admissions[b] = calls[p].admission
      /\ Cardinality(K) < MaxAccounts
  BY <1>1 DEF StillAdmitted, RoomForAccount, TransitionRecords, Known
<1>4. /\ accounts' = [accounts EXCEPT ![b] = registry]
      /\ admissions' = [admissions EXCEPT ![b] = None]
      /\ lineage' = [lineage EXCEPT ![b] = chain]
      /\ minted' = minted
  BY DEF CommitBootstrap
<1>5. registry \in Registries /\ registry # None
  <2>1. registry \in Registries
    BY <1>1 DEF Registries, TransitionRecords
  <2> QED
    BY <2>1, NoneAssumption
<1>6. chain \in Seq(Links)
  BY <1>1, LinkType
<1>7. SumOf(registry, chain)
  BY <1>1, <1>2, FirstLink
<1> HIDE DEF b, registry, chain
<1>8. /\ accounts'[b] = registry /\ lineage'[b] = chain /\ admissions'[b] = None
      /\ \A a \in Accounts : a # b =>
            accounts'[a] = accounts[a] /\ lineage'[a] = lineage[a]
  BY <1>3, <1>4 DEF AccountTypes
<1>9. AccountTypes'
  BY <1>3, <1>4, <1>5, <1>6 DEF AccountTypes
<1>10. /\ Known(b)' /\ ~Known(b)
       /\ \A a \in Accounts : a # b => (Known(a)' <=> Known(a))
  BY <1>3, <1>5, <1>8 DEF Known
<1>11. {a \in Accounts : Known(a)'} = K \cup {b}
  BY <1>3, <1>10
<1>12. /\ IsFiniteSet(K \cup {b}) /\ Cardinality(K \cup {b}) = Cardinality(K) + 1
       /\ Cardinality(K) \in Nat
  BY <1>10, FS_AddElement, FS_CardinalityType DEF Registered
<1>13. \A a \in Accounts : IF Known(a)' THEN SumOf(accounts'[a], lineage'[a])
                           ELSE lineage'[a] = <<>>
  BY <1>7, <1>8, <1>10 DEF Registered
<1>14. Registered'
  BY <1>11, <1>12, <1>13 DEF Registered, SumOf, DevicesOf, RevisionsOf
<1>15. admissions[b] # None
  BY <1>1, <1>3, NoneAssumption
<1> HIDE DEF K
<1>16. Cardinality(K \cup {b}) <= MaxAccounts
  BY <1>3, <1>12, Limits
<1> QED
  BY <1>1, <1>3, <1>8, <1>9, <1>10, <1>11, <1>14, <1>15, <1>16 DEF b

LEMMA DeviceAdded ==
    ASSUME AccountTypes, CallTypes, CallsAreFounded, Registered,
           NEW p \in Callers, calls[p] # None, calls[p].op = "device",
           NEW t, t = calls[p].transition,
           Extends(t), t.device \notin accounts[t.account].devices,
           accounts' = [accounts EXCEPT ![t.account] =
               [revision |-> t.revision, devices |-> @.devices \cup {t.device},
                used |-> @.used \cup {t.revision}]],
           lineage' = [lineage EXCEPT ![t.account] = Append(@, Accepted(t))],
           UNCHANGED admissions, UNCHANGED minted
    PROVE  /\ AccountTypes' /\ Registered'
           /\ \A a \in Accounts : Known(a)' <=> Known(a)
<1> DEFINE b == t.account
           registry == accounts[b]
           chain == lineage[b]
           grown == [revision |-> t.revision, devices |-> registry.devices \cup {t.device},
                     used |-> registry.used \cup {t.revision}]
           longer == Append(chain, Accepted(t))
<1>1. t \in TransitionRecords /\ Known(b)
  BY CallFacts DEF CallsAreFounded
<1>2. /\ b \in Accounts /\ registry \in Registries /\ chain \in Seq(Links)
      /\ SumOf(registry, chain)
  BY <1>1 DEF TransitionRecords, AccountTypes, Registered, Known
<1>3. /\ registry.revision = t.parent /\ t.revision \notin registry.used
      /\ Cardinality(registry.devices) < MaxDevices
      /\ t.signer \in registry.devices /\ t.device \notin registry.devices
  BY DEF Extends
<1>4. SumOf(grown, longer)
  BY <1>1, <1>2, <1>3, NextLink
<1>5. grown \in Registries /\ longer \in Seq(Links)
  <2>1. longer \in Seq(Links)
    BY <1>1, <1>2, LinkType, AppendProperties
  <2>2. grown \in Registries
    BY <1>1, <1>2 DEF Registries, TransitionRecords
  <2> QED
    BY <2>1, <2>2
<1>6. grown # None
  BY <1>5, NoneAssumption
<1>7. accounts' = [accounts EXCEPT ![b] = grown] /\ lineage' = [lineage EXCEPT ![b] = longer]
  OBVIOUS
<1> HIDE DEF grown, longer, b
<1>8. /\ accounts'[b] = grown /\ lineage'[b] = longer
      /\ \A a \in Accounts : a # b =>
            accounts'[a] = accounts[a] /\ lineage'[a] = lineage[a]
  BY <1>2, <1>7 DEF AccountTypes
<1> HIDE DEF registry, chain
<1>9. AccountTypes'
  <2>1. accounts' \in [Accounts -> Registries \cup {None}]
    BY <1>2, <1>5, <1>7 DEF AccountTypes
  <2>2. lineage' \in [Accounts -> Seq(Links)]
    BY <1>2, <1>5, <1>7 DEF AccountTypes
  <2> QED
    BY <2>1, <2>2 DEF AccountTypes
<1>10. \A a \in Accounts : Known(a)' <=> Known(a)
  BY <1>1, <1>6, <1>8 DEF Known
<1>11. {a \in Accounts : Known(a)'} = {a \in Accounts : Known(a)}
  BY <1>10
<1>12. \A a \in Accounts : IF Known(a)' THEN SumOf(accounts'[a], lineage'[a])
                           ELSE lineage'[a] = <<>>
  BY <1>1, <1>4, <1>8, <1>10 DEF Registered
<1>13. Registered'
  BY <1>11, <1>12 DEF Registered, SumOf, DevicesOf, RevisionsOf
<1> QED
  BY <1>9, <1>10, <1>13
-----------------------------------------------------------------------------
(***************************************************************************)
(* Every step keeps the invariant.                                         *)
(***************************************************************************)
LEMMA TypeParts ==
    /\ TypeOK <=> /\ clock \in Instants /\ AccountTypes /\ ChallengeTypes
                  /\ SessionTypes /\ CallTypes /\ GrantTypes
    /\ TypeOK' <=> /\ clock' \in Instants /\ AccountTypes' /\ ChallengeTypes'
                   /\ SessionTypes' /\ CallTypes' /\ GrantTypes'
BY DEF TypeOK, AccountTypes, ChallengeTypes, SessionTypes, CallTypes, GrantTypes,
       ChallengeEntries, SessionEntries, Links

\* Calls that stay or end, and holders that stay or go, keep their accounts.
LEMMA FoundedKept ==
    ASSUME CallsAreFounded, HoldersAreKnown, CallTypes, ChallengeTypes, SessionTypes,
           \A a \in Accounts : Known(a) => Known(a)',
           challenges' \subseteq challenges, sessions' \subseteq sessions,
           \A q \in Callers : calls'[q] \in {calls[q], None}
    PROVE  CallsAreFounded' /\ HoldersAreKnown'
<1>1. ASSUME NEW p \in Callers, calls'[p] # None
      PROVE  /\ calls'[p] = calls[p]
             /\ calls[p].verified => Genuine(calls[p])
             /\ calls[p].op = "bootstrap" => calls[p].transition.parent = None
             /\ calls[p].op = "session" =>
                   /\ calls[p].challenge.account \in Accounts
                   /\ Known(calls[p].challenge.account)
             /\ calls[p].op = "device" =>
                   /\ calls[p].transition.account \in Accounts
                   /\ Known(calls[p].transition.account)
  <2>1. calls'[p] = calls[p] /\ calls[p] # None
    BY <1>1
  <2> QED
    BY <2>1, CallFacts DEF CallsAreFounded, Challenges, TransitionRecords
<1>2. CallsAreFounded'
  <2>1. ASSUME NEW p \in Callers, calls'[p] # None
        PROVE  /\ calls'[p].verified => Genuine(calls'[p])
               /\ calls'[p].op = "bootstrap" => calls'[p].transition.parent = None
               /\ calls'[p].op = "session" => accounts'[calls'[p].challenge.account] # None
               /\ calls'[p].op = "device" => accounts'[calls'[p].transition.account] # None
    <3>1. calls'[p] = calls[p]
      BY <1>1, <2>1
    <3>2. /\ calls[p].verified => Genuine(calls[p])
          /\ calls[p].op = "bootstrap" => calls[p].transition.parent = None
      BY <1>1, <2>1
    <3>3. /\ calls[p].op = "session" => accounts'[calls[p].challenge.account] # None
          /\ calls[p].op = "device" => accounts'[calls[p].transition.account] # None
      BY <1>1, <2>1 DEF Known
    <3> QED
      BY <3>1, <3>2, <3>3
  <2> QED
    BY <2>1 DEF CallsAreFounded, Genuine, Known
<1>3. HoldersAreKnown'
  <2>1. \A c \in challenges : c.account \in Accounts
    BY DEF ChallengeTypes, Challenges
  <2>2. \A s \in sessions : s.account \in Accounts
    BY DEF SessionTypes, Sessions
  <2> QED
    BY <2>1, <2>2 DEF HoldersAreKnown, Known
<1> QED
  BY <1>2, <1>3

\* A call that begins is founded if what it was let in with is.
LEMMA FoundedBegun ==
    ASSUME CallsAreFounded, HoldersAreKnown, NEW p \in Callers, NEW call \in Calls,
           UNCHANGED accounts, challenges' \subseteq challenges, UNCHANGED sessions,
           calls'[p] = call, \A q \in Callers : q # p => calls'[q] = calls[q],
           call.verified => Genuine(call),
           call.op = "bootstrap" => call.transition.parent = None,
           call.op = "session" => Known(call.challenge.account),
           call.op = "device" => Known(call.transition.account)
    PROVE  CallsAreFounded' /\ HoldersAreKnown'
<1>1. HoldersAreKnown'
  BY DEF HoldersAreKnown, Known
<1>2. ASSUME NEW q \in Callers, calls'[q] # None
      PROVE  /\ calls'[q].verified => Genuine(calls'[q])
             /\ calls'[q].op = "bootstrap" => calls'[q].transition.parent = None
             /\ calls'[q].op = "session" => accounts'[calls'[q].challenge.account] # None
             /\ calls'[q].op = "device" => accounts'[calls'[q].transition.account] # None
  <2>1. CASE q = p
    BY <2>1 DEF Known
  <2>2. CASE q # p
    BY <1>2, <2>2 DEF CallsAreFounded, Known
  <2> QED
    BY <2>1, <2>2
<1>3. CallsAreFounded'
  BY <1>2 DEF CallsAreFounded, Genuine, Known
<1> QED
  BY <1>1, <1>3

Rest == /\ TypeOK /\ ChallengeTable /\ SessionTable
        /\ AccountTypes /\ ChallengeTypes /\ SessionTypes /\ CallTypes /\ GrantTypes
        /\ clock \in Nat

LEMMA RestFollows == AccessInv => Rest
BY TypeParts, Limits DEF AccessInv, Rest, Instants

LEMMA TickStep ==
    ASSUME AccessInv, Tick
    PROVE  AccessInv'
<1>1. Rest
  BY RestFollows
<1>2. /\ clock' \in Instants /\ clock' = clock + 1
      /\ UNCHANGED <<accounts, lineage>> /\ UNCHANGED <<admissions, minted>>
      /\ UNCHANGED <<challengeQueue, challengeSlots, issued>> /\ UNCHANGED challenges
      /\ UNCHANGED <<sessions, sessionQueue, sessionSlots, granted>>
      /\ UNCHANGED <<issued, grants>> /\ UNCHANGED <<limiters, calls>>
  BY <1>1, Limits
  DEF Tick, accountVars, challengeVars, sessionVars, Instants, Rest
<1>3. ChallengeTypes' /\ ChallengeTable'
  BY <1>1, <1>2, ChallengesKept DEF Rest
<1>4. SessionTypes' /\ SessionTable'
  BY <1>1, <1>2, SessionsKept DEF Rest
<1>5. AccountTypes' /\ CallTypes' /\ GrantTypes'
  BY <1>1, <1>2 DEF Rest, AccountTypes, CallTypes, GrantTypes
<1>6. Registered' /\ \A a \in Accounts : Known(a)' <=> Known(a)
  BY <1>1, <1>2, AccountsKept DEF AccessInv, Rest
<1>7. Custody'
  <2>1. NoneTaken
    BY <1>2 DEF NoneTaken, InSession
  <2> QED
    BY <1>2, <2>1, CustodyKept DEF AccessInv
<1>8. CallsAreFounded' /\ HoldersAreKnown'
  BY <1>1, <1>2, <1>6, FoundedKept DEF AccessInv, Rest
<1> QED
  BY <1>2, <1>3, <1>4, <1>5, <1>6, <1>7, <1>8, TypeParts DEF AccessInv

\* What a step that leaves challenges, sessions and calls alone leaves true.
LEMMA AdmissionStep ==
    ASSUME AccessInv, NEW a \in Accounts, IssueBootstrapAdmission(a)
    PROVE  AccessInv'
<1>1. Rest
  BY RestFollows
<1>2. /\ UNCHANGED clock /\ clock \in Instants
      /\ UNCHANGED <<accounts, lineage>>
      /\ UNCHANGED <<challengeQueue, challengeSlots, issued>> /\ UNCHANGED challenges
      /\ UNCHANGED <<sessions, sessionQueue, sessionSlots, granted>>
      /\ UNCHANGED <<issued, grants>> /\ UNCHANGED <<limiters, calls>>
  BY <1>1
  DEF IssueBootstrapAdmission, challengeVars, sessionVars, Rest, TypeOK
<1>3. ChallengeTypes' /\ ChallengeTable'
  BY <1>1, <1>2, ChallengesKept DEF Rest
<1>4. SessionTypes' /\ SessionTable'
  BY <1>1, <1>2, SessionsKept DEF Rest
<1>5. AccountTypes' /\ CallTypes' /\ GrantTypes'
  <2>1. minted + 1 \in Serials /\ minted + 1 \in 0 .. MaxIssued
    BY <1>1, Limits DEF IssueBootstrapAdmission, Rest, AccountTypes, Serials
  <2>2. /\ minted' = minted + 1
        /\ admissions' = [admissions EXCEPT ![a] = minted + 1]
    BY DEF IssueBootstrapAdmission
  <2>3. AccountTypes'
    BY <1>1, <1>2, <2>1, <2>2 DEF Rest, AccountTypes
  <2> QED
    BY <1>1, <1>2, <2>3 DEF Rest, CallTypes, GrantTypes
<1>6. Registered' /\ \A b \in Accounts : Known(b)' <=> Known(b)
  BY <1>1, <1>2, AccountsKept DEF AccessInv, Rest
<1>7. Custody'
  <2>1. NoneTaken
    BY <1>2 DEF NoneTaken, InSession
  <2> QED
    BY <1>2, <2>1, CustodyKept DEF AccessInv
<1>8. CallsAreFounded' /\ HoldersAreKnown'
  BY <1>1, <1>2, <1>6, FoundedKept DEF AccessInv, Rest
<1> QED
  BY <1>2, <1>3, <1>4, <1>5, <1>6, <1>7, <1>8, TypeParts DEF AccessInv

LEMMA ChallengeStep ==
    ASSUME AccessInv, NEW a \in Accounts, NEW d \in Devices, IssueChallenge(a, d)
    PROVE  AccessInv'
<1>1. Rest
  BY RestFollows
<1>2. /\ UNCHANGED clock /\ clock \in Instants
      /\ UNCHANGED <<accounts, lineage>> /\ UNCHANGED <<admissions, minted>>
      /\ UNCHANGED <<sessions, sessionQueue, sessionSlots, granted>>
      /\ UNCHANGED grants /\ UNCHANGED <<limiters, calls>>
  BY <1>1
  DEF IssueChallenge, accountVars, sessionVars, Rest, TypeOK
<1>3. ChallengeTypes' /\ ChallengeTable'
  BY <1>1, ChallengeIssued DEF Rest
<1>4. SessionTypes' /\ SessionTable'
  BY <1>1, <1>2, SessionsKept DEF Rest
<1>5. AccountTypes' /\ CallTypes' /\ GrantTypes'
  BY <1>1, <1>2 DEF Rest, AccountTypes, CallTypes, GrantTypes
<1>6. Registered' /\ \A b \in Accounts : Known(b)' <=> Known(b)
  BY <1>1, <1>2, AccountsKept DEF AccessInv, Rest
<1>7. Custody'
  BY <1>1, CustodyIssued DEF AccessInv, Rest
<1>8. CallsAreFounded'
  BY <1>2 DEF AccessInv, CallsAreFounded, Genuine, Known
<1>9. HoldersAreKnown'
  <2>1. \A c \in challenges' : c \in challenges \/ c.account = a
    BY DEF IssueChallenge
  <2>2. accounts[a] # None
    BY DEF IssueChallenge
  <2> QED
    BY <1>2, <2>1, <2>2 DEF AccessInv, HoldersAreKnown, Known
<1> QED
  BY <1>2, <1>3, <1>4, <1>5, <1>6, <1>7, <1>8, <1>9, TypeParts DEF AccessInv

LEMMA ExpiredTokenStep ==
    ASSUME AccessInv, NEW s \in sessions, UseExpiredToken(s)
    PROVE  AccessInv'
<1>1. Rest
  BY RestFollows
<1>2. /\ UNCHANGED clock /\ clock \in Instants
      /\ UNCHANGED <<accounts, lineage>> /\ UNCHANGED <<admissions, minted>>
      /\ UNCHANGED <<challengeQueue, challengeSlots, issued>> /\ UNCHANGED challenges
      /\ UNCHANGED <<issued, grants>> /\ UNCHANGED <<limiters, calls>>
  BY <1>1
  DEF UseExpiredToken, DropExpired, accountVars, challengeVars, Rest, TypeOK
<1>3. ChallengeTypes' /\ ChallengeTable'
  BY <1>1, <1>2, ChallengesKept DEF Rest
<1>4. SessionTypes' /\ SessionTable' /\ sessions' \subseteq sessions
  BY <1>1, <1>2, SessionDropped DEF Rest, UseExpiredToken
<1>5. AccountTypes' /\ CallTypes' /\ GrantTypes'
  BY <1>1, <1>2 DEF Rest, AccountTypes, CallTypes, GrantTypes
<1>6. Registered' /\ \A b \in Accounts : Known(b)' <=> Known(b)
  BY <1>1, <1>2, AccountsKept DEF AccessInv, Rest
<1>7. Custody'
  <2>1. NoneTaken
    BY <1>2 DEF NoneTaken, InSession
  <2> QED
    BY <1>2, <2>1, CustodyKept DEF AccessInv
<1>8. CallsAreFounded' /\ HoldersAreKnown'
  BY <1>1, <1>2, <1>4, <1>6, FoundedKept DEF AccessInv, Rest
<1> QED
  BY <1>2, <1>3, <1>4, <1>5, <1>6, <1>7, <1>8, TypeParts DEF AccessInv

\* The signature is checked before a call is marked verified.
LEMMA VerifyStep ==
    ASSUME AccessInv, NEW p \in Callers, Verify(p)
    PROVE  AccessInv'
<1>1. Rest
  BY RestFollows
<1>2. /\ UNCHANGED clock /\ clock \in Instants
      /\ UNCHANGED <<accounts, lineage>> /\ UNCHANGED <<admissions, minted>>
      /\ UNCHANGED <<challengeQueue, challengeSlots, issued>> /\ UNCHANGED challenges
      /\ UNCHANGED <<sessions, sessionQueue, sessionSlots, granted>>
      /\ UNCHANGED <<issued, grants>>
  BY <1>1
  DEF Verify, accountVars, challengeVars, sessionVars, Rest, TypeOK
<1>3. ChallengeTypes' /\ ChallengeTable'
  BY <1>1, <1>2, ChallengesKept DEF Rest
<1>4. SessionTypes' /\ SessionTable'
  BY <1>1, <1>2, SessionsKept DEF Rest
<1>5. /\ CallTypes'
      /\ \A q \in Callers : q # p => calls'[q] = calls[q]
      /\ calls[p] # None
      /\ calls'[p] # None =>
           calls'[p] = [calls[p] EXCEPT !.verified = TRUE] /\ Genuine(calls[p])
  BY <1>1, <1>2, VerifyFacts DEF Rest
<1>6. AccountTypes' /\ GrantTypes'
  BY <1>1, <1>2 DEF Rest, AccountTypes, GrantTypes
<1>7. Registered' /\ \A b \in Accounts : Known(b)' <=> Known(b)
  BY <1>1, <1>2, AccountsKept DEF AccessInv, Rest
<1>8. calls'[p] # None => /\ calls'[p] \in Calls /\ Genuine(calls'[p])
                          /\ calls'[p].op = calls[p].op
                          /\ calls'[p].op = "session" =>
                                calls'[p].challenge = calls[p].challenge
                          /\ calls'[p].op \in {"bootstrap", "device"} =>
                                calls'[p].transition = calls[p].transition
  <2> SUFFICES ASSUME calls'[p] # None
               PROVE  /\ calls'[p] \in Calls /\ Genuine(calls'[p])
                      /\ calls'[p].op = calls[p].op
                      /\ calls'[p].op = "session" =>
                            calls'[p].challenge = calls[p].challenge
                      /\ calls'[p].op \in {"bootstrap", "device"} =>
                            calls'[p].transition = calls[p].transition
    OBVIOUS
  <2>1. calls'[p] \in Calls
    BY <1>5 DEF CallTypes
  <2>2. calls[p] \in Calls
    BY <1>1, <1>5, CallFacts DEF Rest
  <2>3. calls'[p] = [calls[p] EXCEPT !.verified = TRUE] /\ Genuine(calls[p])
    BY <1>5
  <2>4. CASE calls[p] \in SessionCalls
    BY <2>1, <2>3, <2>4 DEF SessionCalls, Genuine
  <2>5. CASE calls[p] \in BootstrapCalls
    BY <2>1, <2>3, <2>5 DEF BootstrapCalls, Genuine
  <2>6. CASE calls[p] \in DeviceCalls
    BY <2>1, <2>3, <2>6 DEF DeviceCalls, Genuine
  <2> QED
    BY <2>2, <2>4, <2>5, <2>6 DEF Calls
<1>9. Custody'
  <2>1. NoneTaken
    BY <1>5, <1>8 DEF NoneTaken, InSession
  <2> QED
    BY <1>2, <2>1, CustodyKept DEF AccessInv
<1>10. CallsAreFounded' /\ HoldersAreKnown'
  <2>1. CASE calls'[p] = None
    BY <1>1, <1>2, <1>5, <1>7, <2>1, FoundedKept DEF AccessInv, Rest
  <2>2. CASE calls'[p] # None
    <3>1. /\ calls'[p].op = "bootstrap" => calls'[p].transition.parent = None
          /\ calls'[p].op = "session" => Known(calls'[p].challenge.account)
          /\ calls'[p].op = "device" => Known(calls'[p].transition.account)
      BY <1>5, <1>8, <2>2 DEF AccessInv, CallsAreFounded
    <3>2. ASSUME NEW call, call = calls'[p]
          PROVE  CallsAreFounded' /\ HoldersAreKnown'
      <4>1. /\ call \in Calls /\ Genuine(call)
            /\ call.op = "bootstrap" => call.transition.parent = None
            /\ call.op = "session" => Known(call.challenge.account)
            /\ call.op = "device" => Known(call.transition.account)
        BY <1>8, <2>2, <3>1, <3>2
      <4> QED
        BY <1>2, <1>5, <3>2, <4>1, FoundedBegun DEF AccessInv
    <3> QED
      BY <3>2
  <2> QED
    BY <2>1, <2>2
<1> QED
  BY <1>2, <1>3, <1>4, <1>5, <1>6, <1>7, <1>9, <1>10, TypeParts DEF AccessInv

LEMMA BootstrapStep ==
    ASSUME AccessInv, NEW p \in Callers, CommitBootstrap(p)
    PROVE  AccessInv'
<1>1. Rest
  BY RestFollows
<1>2. /\ UNCHANGED clock /\ clock \in Instants
      /\ UNCHANGED minted /\ UNCHANGED limiters
      /\ UNCHANGED <<challengeQueue, challengeSlots, issued>> /\ UNCHANGED challenges
      /\ UNCHANGED <<sessions, sessionQueue, sessionSlots, granted>>
      /\ UNCHANGED <<issued, grants>> /\ Return(p)
  BY <1>1
  DEF CommitBootstrap, challengeVars, sessionVars, Rest, TypeOK
<1>3. ChallengeTypes' /\ ChallengeTable'
  BY <1>1, <1>2, ChallengesKept DEF Rest
<1>4. SessionTypes' /\ SessionTable'
  BY <1>1, <1>2, SessionsKept DEF Rest
<1>5. /\ calls' \in [Callers -> Calls \cup {None}] /\ calls'[p] = None
      /\ \A q \in Callers : q # p => calls'[q] = calls[q]
  BY <1>1, <1>2, ReturnFacts DEF Rest
<1>6. CallTypes' /\ GrantTypes'
  BY <1>1, <1>2, <1>5 DEF Rest, CallTypes, GrantTypes
<1>7. /\ AccountTypes' /\ Registered'
      /\ \A a \in Accounts : Known(a) => Known(a)'
  <2>1. CASE StillAdmitted(calls[p])
    <3>1. ASSUME NEW t, t = calls[p].transition
          PROVE  /\ AccountTypes' /\ Registered'
                 /\ \A a \in Accounts : Known(a) => Known(a)'
      BY <1>1, <2>1, <3>1, Bootstrapped DEF AccessInv, Rest
    <3> QED
      BY <3>1
  <2>2. CASE ~StillAdmitted(calls[p])
    <3>1. UNCHANGED <<accounts, lineage>> /\ UNCHANGED admissions
      BY <2>2 DEF CommitBootstrap
    <3>2. AccountTypes'
      BY <1>1, <1>2, <3>1 DEF Rest, AccountTypes
    <3> QED
      BY <1>1, <3>1, <3>2, AccountsKept DEF AccessInv, Rest
  <2> QED
    BY <2>1, <2>2
<1>8. Custody'
  <2>1. NoneTaken
    BY <1>5 DEF NoneTaken, InSession
  <2> QED
    BY <1>2, <2>1, CustodyKept DEF AccessInv
<1>9. CallsAreFounded' /\ HoldersAreKnown'
  BY <1>1, <1>2, <1>5, <1>7, FoundedKept DEF AccessInv, Rest
<1> QED
  BY <1>2, <1>3, <1>4, <1>6, <1>7, <1>8, <1>9, TypeParts DEF AccessInv

\* A session is granted to the device of the challenge, while that is alive.
LEMMA SessionStep ==
    ASSUME AccessInv, NEW p \in Callers, CommitSession(p)
    PROVE  AccessInv'
<1> DEFINE c == calls[p].challenge
<1>1. Rest
  BY RestFollows
<1>2. /\ UNCHANGED clock /\ clock \in Instants
      /\ UNCHANGED <<accounts, lineage>> /\ UNCHANGED <<admissions, minted>>
      /\ UNCHANGED <<challengeQueue, challengeSlots, issued>> /\ UNCHANGED challenges
      /\ UNCHANGED issued /\ UNCHANGED limiters /\ Return(p)
      /\ calls[p] # None /\ calls[p].op = "session"
  BY <1>1
  DEF CommitSession, InCommit, accountVars, challengeVars, Rest, TypeOK
<1>3. ChallengeTypes' /\ ChallengeTable'
  BY <1>1, <1>2, ChallengesKept DEF Rest
<1>4. c \in Challenges /\ Known(c.account) /\ c.account \in Accounts /\ c.expires \in Nat
  BY <1>1, <1>2, CallFacts DEF AccessInv, CallsAreFounded, Rest, Challenges
<1>5. SessionTypes' /\ SessionTable'
  BY <1>1, <1>4, SessionGranted DEF Rest
<1>6. /\ calls' \in [Callers -> Calls \cup {None}] /\ calls'[p] = None
      /\ \A q \in Callers : q # p => calls'[q] = calls[q]
  BY <1>1, <1>2, ReturnFacts DEF Rest
<1>7. AccountTypes' /\ CallTypes'
  BY <1>1, <1>2, <1>6 DEF Rest, AccountTypes, CallTypes
<1>8. Registered' /\ \A a \in Accounts : Known(a)' <=> Known(a)
  BY <1>1, <1>2, AccountsKept DEF AccessInv, Rest
<1>9. NoneTaken
  BY <1>6 DEF NoneTaken, InSession
<1>10. \A s \in sessions' : s \in sessions \/ s.account = c.account
  <2>1. sessions' \subseteq sessions \cup
           {[token |-> granted + 1, account |-> c.account, device |-> c.device,
             expires |-> clock + SessionLifetime]}
    BY DEF CommitSession
  <2> QED
    BY <2>1
<1>11. \/ UNCHANGED grants
       \/ /\ granted + 1 \in Serials /\ c.expires > clock
          /\ grants' = grants \cup
               {[token |-> granted + 1, challenge |-> c, at |-> clock]}
  <2>1. \/ UNCHANGED grants
        \/ /\ granted < MaxIssued /\ c.expires > clock
           /\ grants' = grants \cup
                {[token |-> granted + 1, challenge |-> c, at |-> clock]}
    BY DEF CommitSession, Unexpired
  <2>2. granted < MaxIssued => granted + 1 \in Serials
    BY <1>1, Limits DEF Rest, SessionTypes, Serials
  <2> QED
    BY <2>1, <2>2
<1>12. GrantTypes' /\ Custody'
  <2>1. CASE UNCHANGED grants
    <3>1. UNCHANGED <<issued, grants>>
      BY <1>2, <2>1
    <3> QED
      BY <1>1, <1>2, <1>9, <2>1, <3>1, CustodyKept DEF AccessInv, Rest, GrantTypes
  <2>2. ASSUME NEW g, g = [token |-> granted + 1, challenge |-> c, at |-> clock],
               granted + 1 \in Serials, c.expires > clock, grants' = grants \cup {g}
        PROVE  GrantTypes' /\ Custody'
    <3>1. GrantTypes'
      BY <1>1, <1>2, <1>4, <2>2 DEF Rest, GrantTypes
    <3>2. g.challenge = calls[p].challenge /\ g.at < g.challenge.expires
      BY <1>2, <1>4, <2>2 DEF Instants
    <3>3. InSession(p)
      BY <1>2 DEF InSession
    <3> QED
      BY <1>1, <1>2, <1>6, <2>2, <3>1, <3>2, <3>3, CustodyGranted DEF AccessInv, Rest
  <2> QED
    BY <1>11, <2>1, <2>2
<1>13. HoldersAreKnown'
  BY <1>2, <1>4, <1>10 DEF AccessInv, HoldersAreKnown, Known
<1>14. CallsAreFounded'
  <2>1. ASSUME NEW q \in Callers, calls'[q] # None
        PROVE  /\ calls'[q].verified => Genuine(calls'[q])
               /\ calls'[q].op = "bootstrap" => calls'[q].transition.parent = None
               /\ calls'[q].op = "session" => accounts'[calls'[q].challenge.account] # None
               /\ calls'[q].op = "device" => accounts'[calls'[q].transition.account] # None
    BY <1>2, <1>6, <2>1 DEF AccessInv, CallsAreFounded, Known
  <2> QED
    BY <2>1 DEF CallsAreFounded, Genuine, Known
<1> QED
  BY <1>2, <1>3, <1>5, <1>7, <1>8, <1>12, <1>13, <1>14, TypeParts DEF AccessInv

\* The registry grows, or a session found expired goes, or nothing happens.
LEMMA AddDeviceStep ==
    ASSUME AccessInv, NEW p \in Callers, CommitAddDevice(p)
    PROVE  AccessInv'
<1>1. Rest
  BY RestFollows
<1>2. /\ UNCHANGED clock /\ clock \in Instants
      /\ UNCHANGED admissions /\ UNCHANGED minted /\ UNCHANGED limiters
      /\ UNCHANGED <<challengeQueue, challengeSlots, issued>> /\ UNCHANGED challenges
      /\ UNCHANGED issued /\ Return(p)
      /\ calls[p] # None /\ calls[p].op = "device"
  BY <1>1
  DEF CommitAddDevice, InCommit, challengeVars, Rest, TypeOK
<1>3. ChallengeTypes' /\ ChallengeTable'
  BY <1>1, <1>2, ChallengesKept DEF Rest
<1>4. /\ calls' \in [Callers -> Calls \cup {None}] /\ calls'[p] = None
      /\ \A q \in Callers : q # p => calls'[q] = calls[q]
  BY <1>1, <1>2, ReturnFacts DEF Rest
<1>5. /\ \/ UNCHANGED sessionVars
         \/ \E s \in sessions : DropExpired(s)
      /\ \/ UNCHANGED <<accounts, lineage>>
         \/ \E t : /\ t = calls[p].transition
                   /\ Extends(t) /\ t.device \notin accounts[t.account].devices
                   /\ accounts' = [accounts EXCEPT ![t.account] =
                        [revision |-> t.revision, devices |-> @.devices \cup {t.device},
                         used |-> @.used \cup {t.revision}]]
                   /\ lineage' = [lineage EXCEPT ![t.account] = Append(@, Accepted(t))]
  BY DEF CommitAddDevice
<1>6. SessionTypes' /\ SessionTable' /\ sessions' \subseteq sessions /\ UNCHANGED grants
  <2>1. CASE UNCHANGED sessionVars
    <3>1. UNCHANGED <<sessions, sessionQueue, sessionSlots, granted>> /\ UNCHANGED grants
      BY <2>1 DEF sessionVars
    <3> QED
      BY <1>1, <1>2, <3>1, SessionsKept DEF Rest
  <2>2. CASE \E s \in sessions : DropExpired(s)
    BY <1>1, <1>2, <2>2, SessionDropped DEF Rest
  <2> QED
    BY <1>5, <2>1, <2>2
<1>7. /\ AccountTypes' /\ Registered'
      /\ \A a \in Accounts : Known(a)' <=> Known(a)
  <2>1. CASE UNCHANGED <<accounts, lineage>>
    <3>1. AccountTypes'
      BY <1>1, <1>2, <2>1 DEF Rest, AccountTypes
    <3> QED
      BY <1>1, <2>1, <3>1, AccountsKept DEF AccessInv, Rest
  <2>2. ASSUME NEW t, t = calls[p].transition, Extends(t),
               t.device \notin accounts[t.account].devices,
               accounts' = [accounts EXCEPT ![t.account] =
                   [revision |-> t.revision, devices |-> @.devices \cup {t.device},
                    used |-> @.used \cup {t.revision}]],
               lineage' = [lineage EXCEPT ![t.account] = Append(@, Accepted(t))]
        PROVE  /\ AccountTypes' /\ Registered'
               /\ \A a \in Accounts : Known(a)' <=> Known(a)
    BY <1>1, <1>2, <2>2, DeviceAdded DEF AccessInv, Rest
  <2> QED
    BY <1>5, <2>1, <2>2
<1>8. CallTypes' /\ GrantTypes'
  BY <1>1, <1>2, <1>4, <1>6 DEF Rest, CallTypes, GrantTypes
<1>9. Custody'
  <2>1. NoneTaken
    BY <1>4 DEF NoneTaken, InSession
  <2>2. UNCHANGED <<issued, grants>>
    BY <1>2, <1>6
  <2> QED
    BY <1>2, <2>1, <2>2, CustodyKept DEF AccessInv
<1>10. CallsAreFounded' /\ HoldersAreKnown'
  BY <1>1, <1>2, <1>4, <1>6, <1>7, FoundedKept DEF AccessInv, Rest
<1> QED
  BY <1>2, <1>3, <1>6, <1>7, <1>8, <1>9, <1>10, TypeParts DEF AccessInv

\* A call begins: it was let in with something known, and takes what it took.
LEMMA Begun ==
    ASSUME AccessInv, NEW p \in Callers, NEW call \in Calls, Begin(p, call),
           ~call.verified, UNCHANGED clock, UNCHANGED accountVars,
           challenges' \subseteq challenges, UNCHANGED challengeQueue,
           UNCHANGED challengeSlots, UNCHANGED issued,
           UNCHANGED sessionVars, UNCHANGED limiters,
           call.op = "bootstrap" => call.transition.parent = None,
           call.op = "session" =>
               /\ call.challenge \in challenges /\ Known(call.challenge.account)
               /\ challenges' = challenges \ {call.challenge},
           call.op = "device" => Known(call.transition.account)
    PROVE  AccessInv'
<1>1. Rest
  BY RestFollows
<1>2. /\ UNCHANGED clock /\ clock \in Instants
      /\ UNCHANGED <<accounts, lineage>> /\ UNCHANGED <<admissions, minted>>
      /\ UNCHANGED <<challengeQueue, challengeSlots, issued>>
      /\ UNCHANGED <<sessions, sessionQueue, sessionSlots, granted>>
      /\ UNCHANGED <<issued, grants>>
  BY <1>1 DEF accountVars, sessionVars, Rest, TypeOK
<1>3. ChallengeTypes' /\ ChallengeTable'
  BY <1>1, <1>2, ChallengesKept DEF Rest
<1>4. SessionTypes' /\ SessionTable'
  BY <1>1, <1>2, SessionsKept DEF Rest
<1>5. /\ calls' \in [Callers -> Calls \cup {None}] /\ calls'[p] = call
      /\ \A q \in Callers : q # p => calls'[q] = calls[q]
  BY <1>1, BeginFacts DEF Rest
<1>6. AccountTypes' /\ CallTypes' /\ GrantTypes'
  BY <1>1, <1>2, <1>5 DEF Rest, AccountTypes, CallTypes, GrantTypes
<1>7. Registered' /\ \A b \in Accounts : Known(b)' <=> Known(b)
  BY <1>1, <1>2, AccountsKept DEF AccessInv, Rest
<1>8. call # None
  BY NoneAssumption
<1>9. Custody'
  <2>1. CASE call.op = "session"
    BY <1>1, <1>2, <1>5, <1>8, <2>1, CustodyTaken DEF AccessInv, Rest
  <2>2. CASE call.op # "session"
    <3>1. NoneTaken
      BY <1>5, <2>2 DEF NoneTaken, InSession
    <3> QED
      BY <1>2, <3>1, CustodyKept DEF AccessInv
  <2> QED
    BY <2>1, <2>2
<1>10. CallsAreFounded' /\ HoldersAreKnown'
  BY <1>2, <1>5, FoundedBegun DEF AccessInv
<1> QED
  BY <1>2, <1>3, <1>4, <1>6, <1>7, <1>9, <1>10, TypeParts DEF AccessInv

LEMMA BeginBootstrapStep ==
    ASSUME AccessInv, NEW p \in Callers, NEW t \in Transitions, NEW n \in Serials,
           BeginBootstrap(p, t, n)
    PROVE  AccessInv'
<1>1. ASSUME NEW call, call = [op |-> "bootstrap", verified |-> FALSE,
                               transition |-> t, admission |-> n]
      PROVE  AccessInv'
  <2>1. /\ call \in BootstrapCalls /\ ~call.verified /\ call.op = "bootstrap"
        /\ call.transition = t
    BY <1>1, TransitionsAssumption DEF BootstrapCalls
  <2>2. call \in Calls
    BY <2>1 DEF Calls
  <2>3. /\ Begin(p, call) /\ t.parent = None /\ UNCHANGED clock /\ UNCHANGED accountVars
        /\ UNCHANGED challenges /\ UNCHANGED challengeQueue
        /\ UNCHANGED challengeSlots /\ UNCHANGED issued
        /\ UNCHANGED sessionVars /\ UNCHANGED limiters
    BY <1>1 DEF BeginBootstrap, challengeVars
  <2> QED
    BY <2>1, <2>2, <2>3, Begun
<1> QED
  BY <1>1

LEMMA BeginSessionStep ==
    ASSUME AccessInv, NEW p \in Callers, NEW c \in challenges,
           NEW d \in Devices, NEW e \in Devices, BeginSession(p, c, d, e)
    PROVE  AccessInv'
<1>1. Rest
  BY RestFollows
<1>2. c \in Challenges /\ Known(c.account)
  BY <1>1 DEF Rest, ChallengeTypes, AccessInv, HoldersAreKnown
<1>3. /\ challenges' = challenges \ {c} /\ UNCHANGED clock /\ UNCHANGED accountVars
      /\ UNCHANGED challengeQueue /\ UNCHANGED challengeSlots /\ UNCHANGED issued
      /\ UNCHANGED sessionVars /\ UNCHANGED limiters
  BY DEF BeginSession, Dropped
<1>4. CASE UNCHANGED calls
  <2>1. /\ UNCHANGED clock /\ clock \in Instants
        /\ UNCHANGED <<accounts, lineage>> /\ UNCHANGED <<admissions, minted>>
        /\ UNCHANGED <<challengeQueue, challengeSlots, issued>>
        /\ challenges' \subseteq challenges
        /\ UNCHANGED <<sessions, sessionQueue, sessionSlots, granted>>
        /\ UNCHANGED <<issued, grants>>
    BY <1>1, <1>3 DEF accountVars, sessionVars, Rest, TypeOK
  <2>2. ChallengeTypes' /\ ChallengeTable'
    BY <1>1, <2>1, ChallengesKept DEF Rest
  <2>3. SessionTypes' /\ SessionTable'
    BY <1>1, <2>1, SessionsKept DEF Rest
  <2>4. AccountTypes' /\ CallTypes' /\ GrantTypes'
    BY <1>1, <1>3, <1>4, <2>1 DEF Rest, AccountTypes, CallTypes, GrantTypes
  <2>5. Registered' /\ \A b \in Accounts : Known(b)' <=> Known(b)
    BY <1>1, <2>1, AccountsKept DEF AccessInv, Rest
  <2>6. Custody'
    <3>1. NoneTaken
      BY <1>4 DEF NoneTaken, InSession
    <3> QED
      BY <2>1, <3>1, CustodyKept DEF AccessInv
  <2>7. CallsAreFounded' /\ HoldersAreKnown'
    BY <1>1, <1>4, <2>1, <2>5, FoundedKept DEF AccessInv, Rest
  <2> QED
    BY <2>1, <2>2, <2>3, <2>4, <2>5, <2>6, <2>7, TypeParts DEF AccessInv
<1>5. ASSUME NEW call, call = [op |-> "session", verified |-> FALSE, challenge |-> c,
                               signedBy |-> e],
             Begin(p, call)
      PROVE  AccessInv'
  <2>1. /\ call \in SessionCalls /\ ~call.verified /\ call.op = "session"
        /\ call.challenge = c
    BY <1>2, <1>5 DEF SessionCalls
  <2>2. call \in Calls
    BY <2>1 DEF Calls
  <2> QED
    BY <1>2, <1>3, <1>5, <2>1, <2>2, Begun
<1>6. \/ UNCHANGED calls
      \/ Begin(p, [op |-> "session", verified |-> FALSE, challenge |-> c, signedBy |-> e])
  BY DEF BeginSession
<1> QED
  BY <1>4, <1>5, <1>6

LEMMA BeginAddDeviceStep ==
    ASSUME AccessInv, NEW p \in Callers, NEW s \in sessions, NEW t \in Transitions,
           BeginAddDevice(p, s, t)
    PROVE  AccessInv'
<1>1. Rest
  BY RestFollows
<1>2. s.token \in Serials /\ Known(t.account)
  BY <1>1 DEF Rest, SessionTypes, Sessions, AccessInv, HoldersAreKnown,
              BeginAddDevice, Holds
<1>3. ASSUME NEW call, call = [op |-> "device", verified |-> FALSE, transition |-> t,
                               token |-> s.token]
      PROVE  AccessInv'
  <2>1. /\ call \in DeviceCalls /\ ~call.verified /\ call.op = "device"
        /\ call.transition = t
    BY <1>2, <1>3, TransitionsAssumption DEF DeviceCalls
  <2>2. call \in Calls
    BY <2>1 DEF Calls
  <2>3. /\ Begin(p, call) /\ UNCHANGED clock /\ UNCHANGED accountVars
        /\ UNCHANGED challenges /\ UNCHANGED challengeQueue
        /\ UNCHANGED challengeSlots /\ UNCHANGED issued
        /\ UNCHANGED sessionVars /\ UNCHANGED limiters
    BY <1>3 DEF BeginAddDevice, challengeVars
  <2> QED
    BY <1>2, <2>1, <2>2, <2>3, Begun
<1> QED
  BY <1>3

LEMMA Stuttering ==
    ASSUME AccessInv, UNCHANGED vars
    PROVE  AccessInv'
<1>1. Rest
  BY RestFollows
<1>2. /\ UNCHANGED clock /\ clock \in Instants
      /\ UNCHANGED <<accounts, lineage>> /\ UNCHANGED <<admissions, minted>>
      /\ UNCHANGED <<challengeQueue, challengeSlots, issued>> /\ UNCHANGED challenges
      /\ UNCHANGED <<sessions, sessionQueue, sessionSlots, granted>>
      /\ UNCHANGED <<issued, grants>> /\ UNCHANGED <<limiters, calls>>
  BY <1>1 DEF vars, accountVars, challengeVars, sessionVars, Rest, TypeOK
<1>3. ChallengeTypes' /\ ChallengeTable'
  BY <1>1, <1>2, ChallengesKept DEF Rest
<1>4. SessionTypes' /\ SessionTable'
  BY <1>1, <1>2, SessionsKept DEF Rest
<1>5. AccountTypes' /\ CallTypes' /\ GrantTypes'
  BY <1>1, <1>2 DEF Rest, AccountTypes, CallTypes, GrantTypes
<1>6. Registered' /\ \A a \in Accounts : Known(a)' <=> Known(a)
  BY <1>1, <1>2, AccountsKept DEF AccessInv, Rest
<1>7. Custody'
  <2>1. NoneTaken
    BY <1>2 DEF NoneTaken, InSession
  <2> QED
    BY <1>2, <2>1, CustodyKept DEF AccessInv
<1>8. CallsAreFounded' /\ HoldersAreKnown'
  BY <1>1, <1>2, <1>6, FoundedKept DEF AccessInv, Rest
<1> QED
  BY <1>2, <1>3, <1>4, <1>5, <1>6, <1>7, <1>8, TypeParts DEF AccessInv
-----------------------------------------------------------------------------
(***************************************************************************)
(* The theorems.                                                           *)
(***************************************************************************)
LEMMA InitiallySound == Init => AccessInv
<1> SUFFICES ASSUME Init PROVE AccessInv
  OBVIOUS
<1> USE DEF Init
<1>1. /\ clock \in Instants /\ AccountTypes /\ ChallengeTypes /\ SessionTypes
      /\ CallTypes /\ GrantTypes
  BY Limits, EmptySeq
  DEF Instants, AccountTypes, ChallengeTypes, SessionTypes, CallTypes, GrantTypes
<1>2. ChallengeTable
  <2>1. ASSUME NEW k \in DeviceKeys
        PROVE  /\ challengeSlots[k] = 0
               /\ Cardinality(EntriesOf(challengeQueue, k)) = 0
    <3>1. EntriesOf(challengeQueue, k) = {}
      BY DEF EntriesOf
    <3> QED
      BY <3>1, FS_EmptySet
  <2> QED
    BY <2>1, Limits DEF ChallengeTable, InOrder
<1>3. SessionTable
  <2>1. ASSUME NEW k \in DeviceKeys
        PROVE  sessionSlots[k] = 0 /\ CountFor(sessions, k) = 0
    <3>1. {s \in sessions : DeviceKey(s) = k} = {}
      OBVIOUS
    <3> QED
      BY <3>1, FS_EmptySet DEF CountFor
  <2>2. IsFiniteSet(sessions) /\ Cardinality(sessions) = 0
    BY FS_EmptySet
  <2> QED
    BY <2>1, <2>2, Limits DEF SessionTable, InOrder
<1>4. Custody
  BY DEF Custody, InSession, SessionsAreEarned
<1>5. CallsAreFounded /\ HoldersAreKnown
  BY DEF CallsAreFounded, HoldersAreKnown
<1>6. Registered
  <2>1. {a \in Accounts : Known(a)} = {}
    BY DEF Known
  <2> QED
    BY <2>1, FS_EmptySet DEF Registered, Known
<1> QED
  BY <1>1, <1>2, <1>3, <1>4, <1>5, <1>6, TypeParts DEF AccessInv

LEMMA StepsAreSound == AccessInv /\ [Next]_vars => AccessInv'
<1> SUFFICES ASSUME AccessInv, [Next]_vars PROVE AccessInv'
  OBVIOUS
<1>1. CASE Tick
  BY <1>1, TickStep
<1>2. CASE \E a \in Accounts : IssueBootstrapAdmission(a)
  BY <1>2, AdmissionStep
<1>3. CASE \E a \in Accounts, d \in Devices : IssueChallenge(a, d)
  BY <1>3, ChallengeStep
<1>4. CASE \E s \in sessions : UseExpiredToken(s)
  BY <1>4, ExpiredTokenStep
<1>5. CASE \E p \in Callers : Verify(p)
  BY <1>5, VerifyStep
<1>6. CASE \E p \in Callers : CommitBootstrap(p)
  BY <1>6, BootstrapStep
<1>7. CASE \E p \in Callers : CommitSession(p)
  BY <1>7, SessionStep
<1>8. CASE \E p \in Callers : CommitAddDevice(p)
  BY <1>8, AddDeviceStep
<1>9. CASE \E p \in Callers : \E t \in Transitions : \E n \in Serials :
              BeginBootstrap(p, t, n)
  BY <1>9, BeginBootstrapStep
<1>10. CASE \E p \in Callers : \E t \in Transitions : \E s \in sessions :
              BeginAddDevice(p, s, t)
  BY <1>10, BeginAddDeviceStep
<1>11. CASE \E p \in Callers : \E c \in challenges, d, e \in Devices :
              BeginSession(p, c, d, e)
  BY <1>11, BeginSessionStep
<1>12. CASE UNCHANGED vars
  BY <1>12, Stuttering
<1> QED
  BY <1>1, <1>2, <1>3, <1>4, <1>5, <1>6, <1>7, <1>8, <1>9, <1>10, <1>11, <1>12 DEF Next

\* What the tables, their slots, the calls in progress and the registries are
\* to one another at every moment, whichever calls are between their two
\* critical sections (atlasvault_api/app.py, AtlasVaultBackend).
THEOREM Invariance == Spec => []AccessInv
BY InitiallySound, StepsAreSound, PTL DEF Spec

\* The tables of AtlasVaultBackend hold what their declarations say, and every
\* serial, instant and slot count stays in its range.
THEOREM TypeCorrect == Spec => []TypeOK
<1>1. AccessInv => TypeOK
  BY DEF AccessInv
<1> QED
  BY <1>1, Invariance, PTL

\* create_session grants at most one session for a challenge, and only while
\* the challenge is alive, however long the proof took to verify and whatever
\* other threads presented the same challenge meanwhile.
THEOREM EarnedSessions == Spec => []SessionsAreEarned
<1>1. AccessInv => SessionsAreEarned
  BY DEF AccessInv, Custody
<1> QED
  BY <1>1, Invariance, PTL

\* _release_challenge_slot and _drop_session give back exactly what
\* create_challenge and create_session took: the counters the four limits are
\* enforced on are exact, and whatever is in a table will be pruned.
THEOREM SlotsCount == Spec => []SlotsAreExact
<1>1. AccessInv => SlotsAreExact
  <2> SUFFICES ASSUME ChallengeTable, SessionTable PROVE SlotsAreExact
    BY DEF AccessInv
  <2>1. \A k \in DeviceKeys :
          /\ challengeSlots[k] =
               Cardinality({i \in DOMAIN challengeQueue : challengeQueue[i].device = k})
          /\ challengeSlots[k] <= MaxChallengesPerDevice
    BY DEF ChallengeTable, EntriesOf
  <2>2. \A k \in DeviceKeys : /\ sessionSlots[k] = CountFor(sessions, k)
                              /\ sessionSlots[k] <= MaxSessionsPerDevice
    BY DEF SessionTable
  <2>3. /\ Len(challengeQueue) <= MaxChallenges
        /\ \A c \in challenges : \E i \in DOMAIN challengeQueue :
              challengeQueue[i] = [expires |-> c.expires, serial |-> c.serial,
                                    device |-> DeviceKey(c)]
    BY DEF ChallengeTable
  <2>4. /\ Cardinality(sessions) <= MaxSessions
        /\ \A s \in sessions : \E i \in DOMAIN sessionQueue :
              sessionQueue[i] = [expires |-> s.expires, token |-> s.token]
    BY DEF SessionTable
  <2> QED
    BY <2>1, <2>2, <2>3, <2>4 DEF SlotsAreExact
<1> QED
  BY <1>1, Invariance, PTL

\* A device registry is what one chain of signed transitions adds up to, each
\* naming the one before as its parent and signed by a device that was there:
\* of two add_device calls racing through their verification from the same
\* revision one is refused (add_device, bootstrap_account).
THEOREM RegistryIsChain == Spec => []RegistryLineage
<1>1. AccessInv => RegistryLineage
  <2> SUFFICES ASSUME AccountTypes, Registered, NEW a \in Accounts
               PROVE  LET chain == lineage[a]
                          DevicesBefore(i) == {chain[j].device : j \in 1 .. (i - 1)}
                      IN  /\ accounts[a] = None <=> chain = <<>>
                          /\ accounts[a] # None =>
                             /\ accounts[a].revision = chain[Len(chain)].revision
                             /\ accounts[a].devices = DevicesBefore(Len(chain) + 1)
                             /\ chain[1].parent = None
                             /\ chain[1].signer = chain[1].device
                             /\ Len(chain) <= MaxDevices
                             /\ \A i \in 2 .. Len(chain) :
                                  /\ chain[i].parent = chain[i - 1].revision
                                  /\ chain[i].signer \in DevicesBefore(i)
                                  /\ chain[i].device \notin DevicesBefore(i)
                                  /\ \A j \in 1 .. (i - 1) :
                                        chain[j].revision # chain[i].revision
    BY TypeParts DEF AccessInv, RegistryLineage
  <2> DEFINE chain == lineage[a]
             registry == accounts[a]
             n == Len(chain)
  <2>1. chain \in Seq(Links) /\ n \in Nat
    BY LenProperties DEF AccountTypes
  <2>2. CASE ~Known(a)
    BY <2>2 DEF Registered, Known
  <2>3. CASE Known(a)
    <3>1. SumOf(registry, chain)
      BY <2>3 DEF Registered
    <3> HIDE DEF chain, registry
    <3>2. /\ chain # <<>> /\ n <= MaxDevices
          /\ registry.revision = chain[n].revision
          /\ chain[1].parent = None /\ chain[1].signer = chain[1].device
      BY <3>1 DEF SumOf
    <3>3. registry.devices = {chain[j].device : j \in 1 .. ((n + 1) - 1)}
      <4>1. registry.devices = {chain[j].device : j \in 1 .. n}
        BY <3>1 DEF SumOf, DevicesOf
      <4>2. (n + 1) - 1 = n
        BY <2>1
      <4> QED
        BY <4>1, <4>2
    <3>4. \A i \in 2 .. n :
            /\ chain[i].parent = chain[i - 1].revision
            /\ chain[i].signer \in {chain[j].device : j \in 1 .. (i - 1)}
            /\ chain[i].device \notin {chain[j].device : j \in 1 .. (i - 1)}
            /\ \A j \in 1 .. (i - 1) : chain[j].revision # chain[i].revision
      <4> SUFFICES ASSUME NEW i \in 2 .. n
                   PROVE  /\ chain[i].parent = chain[i - 1].revision
                          /\ chain[i].signer \in {chain[j].device : j \in 1 .. (i - 1)}
                          /\ chain[i].device \notin {chain[j].device : j \in 1 .. (i - 1)}
                          /\ \A j \in 1 .. (i - 1) : chain[j].revision # chain[i].revision
        OBVIOUS
      <4>1. /\ chain[i].parent = chain[i - 1].revision
            /\ chain[i].signer \in DevicesOf(chain, i - 1)
            /\ chain[i].device \notin DevicesOf(chain, i - 1)
            /\ chain[i].revision \notin RevisionsOf(chain, i - 1)
        BY <3>1 DEF SumOf
      <4>2. \A j \in 1 .. (i - 1) : chain[j].revision # chain[i].revision
        BY <4>1 DEF RevisionsOf
      <4>3. /\ chain[i].signer \in {chain[j].device : j \in 1 .. (i - 1)}
            /\ chain[i].device \notin {chain[j].device : j \in 1 .. (i - 1)}
        BY <4>1 DEF DevicesOf
      <4> QED
        BY <4>1, <4>2, <4>3
    <3> QED
      BY <2>3, <3>2, <3>3, <3>4 DEF Known, chain, registry
  <2> QED
    BY <2>2, <2>3
<1> QED
  BY <1>1, Invariance, PTL

\* bootstrap_account creates an account only with the admission issued last for
\* it and still unspent when the lock is taken again, spends it, and never goes
\* beyond max_accounts.
THEOREM AdmissionsGovern == Spec => AdmissionGoverned
<1> DEFINE Governed(a) ==
      accounts[a] = None /\ accounts'[a] # None =>
          /\ admissions[a] # None /\ admissions'[a] = None
          /\ \E p \in Callers : /\ calls[p] # None /\ calls[p].op = "bootstrap"
                                /\ calls[p].transition.account = a
                                /\ calls[p].admission = admissions[a]
          /\ Cardinality({b \in Accounts : accounts'[b] # None}) <= MaxAccounts
<1>1. ASSUME AccessInv, Next PROVE \A a \in Accounts : Governed(a)
  <2>1. AccountTypes /\ CallTypes /\ CallsAreFounded /\ Registered
    BY <1>1, TypeParts DEF AccessInv
  <2>2. CASE \E p \in Callers : CommitBootstrap(p) /\ StillAdmitted(calls[p])
    <3>1. ASSUME NEW p \in Callers, CommitBootstrap(p), StillAdmitted(calls[p]),
                 NEW t, t = calls[p].transition
          PROVE  \A a \in Accounts : Governed(a)
      <4>1. /\ \A a \in Accounts : accounts[a] = None /\ accounts'[a] # None =>
                 /\ admissions[a] # None /\ admissions'[a] = None
                 /\ calls[p] # None /\ calls[p].op = "bootstrap"
                 /\ calls[p].transition.account = a /\ calls[p].admission = admissions[a]
            /\ Cardinality({a \in Accounts : accounts'[a] # None}) <= MaxAccounts
        BY <2>1, <3>1, Bootstrapped DEF Known
      <4> QED
        BY <4>1
    <3> QED
      BY <2>2, <3>1
  <2>3. CASE \E p \in Callers : CommitAddDevice(p)
    <3>1. PICK p \in Callers : CommitAddDevice(p)
      BY <2>3
    <3>2. CASE UNCHANGED accounts
      BY <3>2
    <3>3. ASSUME NEW t, t = calls[p].transition, Extends(t),
                 t.device \notin accounts[t.account].devices,
                 accounts' = [accounts EXCEPT ![t.account] =
                     [revision |-> t.revision, devices |-> @.devices \cup {t.device},
                      used |-> @.used \cup {t.revision}]],
                 lineage' = [lineage EXCEPT ![t.account] = Append(@, Accepted(t))]
          PROVE  \A a \in Accounts : Governed(a)
      <4>1. /\ calls[p] # None /\ calls[p].op = "device"
            /\ UNCHANGED admissions /\ UNCHANGED minted
        BY <3>1 DEF CommitAddDevice, InCommit
      <4>2. \A a \in Accounts : Known(a)' <=> Known(a)
        BY <2>1, <3>3, <4>1, DeviceAdded
      <4> QED
        BY <4>2 DEF Known
    <3>4. \/ UNCHANGED accounts
          \/ \E t : /\ t = calls[p].transition
                    /\ Extends(t) /\ t.device \notin accounts[t.account].devices
                    /\ accounts' = [accounts EXCEPT ![t.account] =
                         [revision |-> t.revision, devices |-> @.devices \cup {t.device},
                          used |-> @.used \cup {t.revision}]]
                    /\ lineage' = [lineage EXCEPT ![t.account] = Append(@, Accepted(t))]
      BY <3>1 DEF CommitAddDevice
    <3> QED
      BY <3>2, <3>3, <3>4
  <2>4. CASE UNCHANGED accounts
    BY <2>4
  <2>5. \/ UNCHANGED accounts
        \/ \E p \in Callers : CommitBootstrap(p) /\ StillAdmitted(calls[p])
        \/ \E p \in Callers : CommitAddDevice(p)
    BY <1>1 DEF Next, Tick, IssueBootstrapAdmission, IssueChallenge, UseExpiredToken,
                Verify, CommitBootstrap, CommitSession, BeginBootstrap, BeginAddDevice,
                BeginSession, accountVars
  <2> QED
    BY <2>2, <2>3, <2>4, <2>5
<1>2. ASSUME AccessInv, [Next]_vars PROVE [\A a \in Accounts : Governed(a)]_vars
  BY <1>1, <1>2
<1>3. Spec => [][\A a \in Accounts : Governed(a)]_vars
  BY <1>2, Invariance, PTL DEF Spec
<1> QED
  BY <1>3 DEF AdmissionGoverned
=============================================================================
