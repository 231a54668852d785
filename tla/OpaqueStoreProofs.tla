------------------------- MODULE OpaqueStoreProofs -------------------------
(***************************************************************************)
(* Theorems about the ciphertext store, for every set of accounts, vaults, *)
(* objects, keys and requests, every clock and every limit.                *)
(***************************************************************************)
EXTENDS OpaqueStore, FiniteSetTheorems, FunctionTheorems, SequenceTheorems, TLAPS

ReceiptEntries == [at : Nat, vault : Vaults, key : Scopes \X Keys]
CursorEntries == [at : Nat, token : Tokens]

\* Popping due entries leaves a heap of entries.
LEMMA HeapRestType ==
    ASSUME NEW S, NEW heap \in Seq(S), NEW n \in Nat, n <= Len(heap)
    PROVE  HeapRest(heap, n) \in Seq(S)
<1>1. \A i \in n + 1 .. Len(heap) : heap[i] \in S
  BY ElementOfSeq
<1> QED
  BY <1>1, SubSeqProperties DEF HeapRest

\* A pushed entry goes behind those due before it.
LEMMA PushPlace ==
    ASSUME NEW S, NEW heap \in Seq(S), NEW entry
    PROVE  Cardinality({i \in 1 .. Len(heap) : heap[i].at <= entry.at}) \in 0 .. Len(heap)
<1> DEFINE I == {i \in 1 .. Len(heap) : heap[i].at <= entry.at}
<1>0. Len(heap) \in Nat
  BY LenProperties
<1>1. IsFiniteSet(1 .. Len(heap)) /\ Cardinality(1 .. Len(heap)) = Len(heap)
  BY <1>0, FS_Interval
<1>2. IsFiniteSet(I) /\ Cardinality(I) <= Cardinality(1 .. Len(heap))
  BY <1>1, FS_Subset
<1> QED
  BY <1>0, <1>1, <1>2, FS_CardinalityType

\* Pushing an entry leaves a heap of entries.
LEMMA HeapPushType ==
    ASSUME NEW S, NEW heap \in Seq(S), NEW entry \in S
    PROVE  HeapPush(heap, entry) \in Seq(S)
<1> DEFINE I == {i \in 1 .. Len(heap) : heap[i].at <= entry.at}
           b == Cardinality(I)
<1>1. b \in 0 .. Len(heap)
  BY PushPlace
<1>2. /\ Len(heap) \in Nat /\ b \in Nat
      /\ \A i \in 1 .. b : heap[i] \in S
      /\ \A i \in b + 1 .. Len(heap) : heap[i] \in S
  <2> HIDE DEF b
  <2>1. Len(heap) \in Nat /\ \A i \in 1 .. Len(heap) : heap[i] \in S
    BY ElementOfSeq, LenProperties
  <2> QED
    BY <1>1, <2>1
<1>3. SubSeq(heap, 1, b) \in Seq(S) /\ SubSeq(heap, b + 1, Len(heap)) \in Seq(S)
  <2> HIDE DEF b
  <2> QED
    BY <1>2, SubSeqProperties
<1> QED
  BY <1>3, ConcatProperties DEF HeapPush
-----------------------------------------------------------------------------
(***************************************************************************)
(* Type correctness.                                                       *)
(***************************************************************************)
ReceiptTable == [Vaults -> [Scopes \X Keys -> Receipts \cup {None}]]
CursorTable == [Tokens -> Cursors \cup {None}]

LEMMA RequestType ==
    ASSUME NEW r \in Requests
    PROVE  /\ r.vault \in Vaults /\ r.scope \in Scopes /\ r.key \in Keys
           /\ r.vault[1] \in Accounts
           /\ r.envelope \in Envelopes /\ r.expected \in Revisions \cup {None}
           /\ ReceiptKey(r) \in Scopes \X Keys
           /\ Attempt(r) \in Attempts
           /\ r.scope # "patches" => r.scope \in Registers
<1>1. r \in WriteRequests
  BY RequestsAssumption
<1>2. /\ r.vault \in Vaults /\ r.scope \in Scopes /\ r.key \in Keys
      /\ r.envelope \in Envelopes /\ r.expected \in Revisions \cup {None}
  BY <1>1 DEF WriteRequests
<1> QED
  BY <1>2 DEF ReceiptKey, Attempt, Attempts, Scopes, Vaults

LEMMA SetReceiptType ==
    ASSUME TypeOK, NEW r \in Requests, NEW now \in Times, NEW n \in Nat,
           NEW receipt \in Receipts \cup {None}
    PROVE  /\ ReceiptsAfterPrune(now, n) \in ReceiptTable
           /\ SetReceipt(r, now, n, receipt) \in ReceiptTable
<1>1. ReceiptsAfterPrune(now, n) \in ReceiptTable
  BY DEF TypeOK, ReceiptsAfterPrune, ReceiptTable
<1>2. SetReceipt(r, now, n, receipt) \in ReceiptTable
  BY <1>1, RequestType DEF SetReceipt, ReceiptTable
<1> QED
  BY <1>1, <1>2

LEMMA RecordType ==
    ASSUME TypeOK, NEW r \in Requests, NEW now \in Times, NEW n \in Nat,
           n <= Len(receiptHeap), Record(r, now, n)
    PROVE  /\ receipts' \in ReceiptTable
           /\ receiptHeap' \in Seq(ReceiptEntries)
<1>1. now + ReceiptLifetime \in Nat
  BY NumbersAssumption
<1>2. [attempt |-> Attempt(r), response |-> r.envelope,
       expires |-> now + ReceiptLifetime] \in Receipts
  BY <1>1, RequestType DEF Receipts
<1>3. [at |-> now + ReceiptLifetime, vault |-> r.vault, key |-> ReceiptKey(r)]
        \in ReceiptEntries
  BY <1>1, RequestType DEF ReceiptEntries
<1>4. HeapRest(receiptHeap, n) \in Seq(ReceiptEntries)
  BY HeapRestType DEF TypeOK, ReceiptEntries
<1> QED
  BY <1>2, <1>3, <1>4, SetReceiptType, HeapPushType DEF Record

LEMMA RetainType ==
    ASSUME TypeOK, NEW r \in Requests, Retain(r)
    PROVE  /\ retained' \in SUBSET Vaults
           /\ usage' \in [Accounts -> Usage]
           /\ retainedBytes' \in Nat
<1>1. Size[r.envelope.body] \in Nat
  BY RequestType, NumbersAssumption DEF Envelopes
<1>2. CapacityDelta(r) \in Usage
  BY <1>1 DEF CapacityDelta, Usage
<1>3. \A u, d \in Usage : AddUsage(u, d) \in Usage
  BY DEF AddUsage, Usage
<1> QED
  BY <1>1, <1>2, <1>3, RequestType DEF Retain, TypeOK

\* A write, whatever its outcome, keeps every dictionary well typed.
LEMMA WriteType ==
    ASSUME TypeOK, NEW r \in Requests, NEW now \in Times,
           NEW n \in 0 .. MaxReceiptPrune,
           \/ PutMetadata(r, now, n) \/ PutObject(r, now, n)
           \/ AppendPatch(r, now, n) \/ PutSnapshot(r, now, n)
    PROVE  TypeOK'
<1>1. BeginWrite(now, n)
  BY DEF PutMetadata, PutObject, AppendPatch, PutSnapshot, PutRegister
<1>2. /\ n \in Nat /\ n <= Len(receiptHeap)
      /\ lastClock' \in Nat
      /\ cursors' \in CursorTable /\ cursorHeap' \in Seq(CursorEntries)
  BY <1>1, NumbersAssumption
  DEF BeginWrite, PruneStopsAt, cursorVars, TypeOK, CursorTable, CursorEntries
<1>3. HeapRest(receiptHeap, n) \in Seq(ReceiptEntries)
  BY <1>2, HeapRestType DEF TypeOK, ReceiptEntries
<1>4. CASE AnswerFromReceipt(r, now, n)
  BY <1>2, <1>3, <1>4, SetReceiptType
  DEF AnswerFromReceipt, TypeOK, ReceiptTable, ReceiptEntries, CursorTable, CursorEntries
<1>5. CASE AcknowledgeDuplicate(r, now, n)
  BY <1>2, <1>5, RecordType
  DEF AcknowledgeDuplicate, TypeOK, ReceiptTable, ReceiptEntries, CursorTable, CursorEntries
<1>6. CASE Refuse(r, now, n)
  BY <1>2, <1>3, <1>6, SetReceiptType
  DEF Refuse, TypeOK, ReceiptTable, ReceiptEntries, CursorTable, CursorEntries
<1>7. CASE r.scope # "patches" /\ CommitRegister(r, now, n)
  <2>1. /\ current' \in [Vaults -> [Registers -> Envelopes \cup {None}]]
        /\ history' \in [Vaults -> [Registers -> SUBSET Envelopes]]
        /\ patches' \in [Vaults -> Seq(Envelopes)]
    BY <1>7, RequestType DEF CommitRegister, TypeOK
  <2> QED
    BY <1>2, <1>7, <2>1, RecordType, RetainType
    DEF CommitRegister, TypeOK, ReceiptTable, ReceiptEntries, CursorTable, CursorEntries
<1>8. CASE CommitPatch(r, now, n)
  <2>1. Append(patches[r.vault], r.envelope) \in Seq(Envelopes)
    BY RequestType, AppendProperties DEF TypeOK
  <2>2. /\ patches' \in [Vaults -> Seq(Envelopes)]
        /\ current' \in [Vaults -> [Registers -> Envelopes \cup {None}]]
        /\ history' \in [Vaults -> [Registers -> SUBSET Envelopes]]
    BY <1>8, <2>1, RequestType DEF CommitPatch, TypeOK
  <2> QED
    BY <1>2, <1>8, <2>2, RecordType, RetainType
    DEF CommitPatch, TypeOK, ReceiptTable, ReceiptEntries, CursorTable, CursorEntries
<1>9. Objects \cap {"patches"} = {}
  BY NamesAssumption
<1> QED
  BY <1>4, <1>5, <1>6, <1>7, <1>8, <1>9
  DEF PutMetadata, PutObject, AppendPatch, PutSnapshot, PutRegister

\* A listing, whatever its outcome, keeps every dictionary well typed.
LEMMA ListType ==
    ASSUME TypeOK, NEW v \in Vaults, NEW now \in Times,
           NEW n \in 0 .. MaxCursorPrune,
           \/ \E size \in PageSizes : ListFirst(v, size, now, n)
           \/ \E t \in Tokens, size \in PageSizes \cup {None} :
                 ListNext(v, t, size, now, n) \/ RefuseCursor(v, t, size, now, n)
    PROVE  TypeOK'
<1> DEFINE table == CursorsAfterPrune(now, n)
<1>1. BeginList(now, n)
  BY DEF ListFirst, ListNext, RefuseCursor
<1>2. /\ n \in Nat /\ n <= Len(cursorHeap)
      /\ lastClock' \in Nat /\ now + CursorLifetime \in Nat
      /\ UNCHANGED writeVars
  BY <1>1, NumbersAssumption DEF BeginList, PruneStopsAt
<1>3. HeapRest(cursorHeap, n) \in Seq(CursorEntries)
  BY <1>2, HeapRestType DEF TypeOK, CursorEntries
<1>4. table \in CursorTable
  BY DEF TypeOK, CursorsAfterPrune, CursorTable
<1>5. ASSUME cursors' \in CursorTable, cursorHeap' \in Seq(CursorEntries)
      PROVE  TypeOK'
  BY <1>2, <1>5 DEF TypeOK, writeVars, CursorTable, CursorEntries
<1>6. ASSUME NEW t \in Tokens, NEW any \in CursorTable, NEW c \in Cursors,
             MintCursor(any, n, t, c)
      PROVE  TypeOK'
  <2>1. [at |-> c.expires, token |-> t] \in CursorEntries
    BY <1>6 DEF Cursors, CursorEntries
  <2>2. cursors' \in CursorTable
    BY <1>6 DEF MintCursor, CursorTable
  <2>3. cursorHeap' \in Seq(CursorEntries)
    BY <1>3, <1>6, <2>1, HeapPushType DEF MintCursor
  <2> QED
    BY <1>5, <2>2, <2>3
<1>7. ASSUME NEW start \in Nat, NEW end \in Nat, NEW size \in Nat \ {0}
      PROVE  NewCursor(v, start, end, size, now) \in Cursors
  BY <1>2 DEF NewCursor, Cursors
<1>8. CASE KeepCursors(now, n)
  BY <1>3, <1>4, <1>5, <1>8 DEF KeepCursors
<1>9. CASE \E size \in PageSizes : ListFirst(v, size, now, n)
  <2>1. PICK size \in PageSizes : ListFirst(v, size, now, n)
    BY <1>9
  <2>2. size \in Nat \ {0} /\ Len(patches[v]) \in Nat
    BY NumbersAssumption, LenProperties DEF TypeOK
  <2> QED
    BY <1>4, <1>6, <1>7, <1>8, <2>1, <2>2 DEF ListFirst, FreeTokens
<1>10. CASE \E t \in Tokens, size \in PageSizes \cup {None} : ListNext(v, t, size, now, n)
  <2>1. PICK t \in Tokens, size \in PageSizes \cup {None} : ListNext(v, t, size, now, n)
    BY <1>10
  <2> DEFINE record == table[t]
  <2>2. record \in Cursors
    BY <1>4, <2>1, Zenon DEF ListNext, UsableCursor, CursorTable
  <2>3. /\ record.start + record.size \in Nat /\ record.end \in Nat
        /\ record.size \in Nat \ {0}
    BY <2>2 DEF Cursors
  <2>4. ASSUME NEW u \in Tokens
        PROVE  [table EXCEPT ![t].next = u] \in CursorTable
    <3> HIDE DEF table
    <3>1. [record EXCEPT !.next = u] \in Cursors
      BY <2>2 DEF Cursors
    <3> QED
      BY <1>4, <3>1 DEF CursorTable
  <2> QED
    BY <1>6, <1>7, <1>8, <2>1, <2>3, <2>4 DEF ListNext, FreeTokens
<1>11. CASE \E t \in Tokens, size \in PageSizes \cup {None} : RefuseCursor(v, t, size, now, n)
  <2>1. cursors' \in CursorTable /\ cursorHeap' \in Seq(CursorEntries)
    BY <1>3, <1>4, <1>11 DEF RefuseCursor, CursorTable
  <2> QED
    BY <1>5, <2>1
<1> QED
  BY <1>9, <1>10, <1>11

\* The store's dictionaries, heaps and counters are always well typed.
THEOREM TypeCorrect == Spec => []TypeOK
<1>1. Init => TypeOK
  BY DEF Init, TypeOK, Usage
<1>2. TypeOK /\ [Next]_vars => TypeOK'
  <2> SUFFICES ASSUME TypeOK, [Next]_vars PROVE TypeOK'
    OBVIOUS
  <2>1. CASE WriteNext
    BY <2>1, WriteType DEF WriteNext
  <2>2. CASE ListPatches
    BY <2>2, ListType DEF ListPatches
  <2>3. CASE UNCHANGED vars
    BY <2>3 DEF TypeOK, vars, writeVars, cursorVars
  <2> QED
    BY <2>1, <2>2, <2>3 DEF Next
<1> QED
  BY <1>1, <1>2, PTL DEF Spec
-----------------------------------------------------------------------------
(***************************************************************************)
(* Lineage of registers: NoLostUpdate, by way of RegistersAreChains.       *)
(***************************************************************************)
LineageInv == TypeOK /\ RegistersAreChains /\ NoLostUpdate

LEMMA RegisterCommitKeepsLineage ==
    ASSUME LineageInv, NEW r \in Requests, NEW now \in Times, NEW n \in Nat,
           r.scope # "patches", CommitRegister(r, now, n)
    PROVE  RegistersAreChains' /\ NoLostUpdate'
<1> DEFINE u == r.vault
           w == r.scope
           e == r.envelope
<1>1. u \in Vaults /\ w \in Registers /\ e \in Envelopes
  BY RequestType
<1>2. /\ current' = [current EXCEPT ![u][w] = e]
      /\ history' = [history EXCEPT ![u][w] = @ \cup {e}]
  BY DEF CommitRegister
<1>3. /\ \A f \in history[u][w] : f.rev # e.rev
      /\ w # "metadata" =>
           e.parent = IF current[u][w] = None THEN None ELSE current[u][w].rev
  BY DEF CommitRegister, Acceptable, HistoricalRevision, CasHolds, HeadRevision, HeadOf
<1>4. /\ current'[u][w] = e
      /\ history'[u][w] = history[u][w] \cup {e}
      /\ \A v \in Vaults, s \in Registers : <<v, s>> # <<u, w>> =>
           current'[v][s] = current[v][s] /\ history'[v][s] = history[v][s]
  BY <1>1, <1>2 DEF LineageInv, TypeOK
<1>5. e # None /\ e.rev # None
  BY <1>1, NamesAssumption DEF Envelopes
<1>6. history[u][w] \subseteq Envelopes /\ current[u][w] \in Envelopes \cup {None}
  BY <1>1 DEF LineageInv, TypeOK
<1>7. w # "metadata" => \A f \in history[u][w] :
         /\ f.parent # e.parent
         /\ f.parent # e.rev
         /\ f.parent # None => \E g \in history[u][w] : g.rev = f.parent
  <2> SUFFICES ASSUME w # "metadata", NEW f \in history[u][w]
               PROVE  /\ f.parent # e.parent
                      /\ f.parent # e.rev
                      /\ f.parent # None => \E g \in history[u][w] : g.rev = f.parent
    OBVIOUS
  <2>1. current[u][w] # None
    BY <1>1 DEF LineageInv, RegistersAreChains
  <2>2. /\ f.parent # current[u][w].rev
        /\ f.parent # None => \E g \in history[u][w] : g.rev = f.parent
    BY <1>1, <2>1 DEF LineageInv, RegistersAreChains
  <2> QED
    BY <1>3, <1>5, <2>1, <2>2
<1>8. w # "metadata" =>
         /\ e.parent # e.rev
         /\ e.parent # None => \E f \in history[u][w] : f.rev = e.parent
  BY <1>1, <1>3, <1>5 DEF LineageInv, RegistersAreChains
<1> HIDE DEF u, w, e
<1>9. RegistersAreChains'
  <2> SUFFICES ASSUME NEW v \in Vaults, NEW s \in Registers
               PROVE  /\ current'[v][s] = None => history'[v][s] = {}
                      /\ current'[v][s] # None => current'[v][s] \in history'[v][s]
                      /\ current'[v][s] # None /\ s # "metadata" =>
                            \A f \in history'[v][s] :
                               /\ f.parent # current'[v][s].rev
                               /\ f.parent # None =>
                                     \E g \in history'[v][s] : g.rev = f.parent
    BY DEF RegistersAreChains
  <2>1. CASE <<v, s>> # <<u, w>>
    BY <1>4, <2>1 DEF LineageInv, RegistersAreChains
  <2>2. CASE v = u /\ s = w
    BY <1>4, <1>5, <1>7, <1>8, <2>2
  <2> QED
    BY <2>1, <2>2
<1>10. NoLostUpdate'
  <2> SUFFICES ASSUME NEW v \in Vaults, NEW s \in Registers,
                      NEW f \in history'[v][s], NEW g \in history'[v][s],
                      f.rev = g.rev \/ (s # "metadata" /\ f.parent = g.parent)
               PROVE  f = g
    BY DEF NoLostUpdate
  <2>1. CASE <<v, s>> # <<u, w>>
    BY <1>4, <2>1 DEF LineageInv, NoLostUpdate
  <2>2. CASE v = u /\ s = w
    <3>1. CASE f = e \/ g = e
      BY <1>3, <1>4, <1>7, <2>2, <3>1
    <3>2. CASE f \in history[u][w] /\ g \in history[u][w]
      BY <1>1, <2>2, <3>2 DEF LineageInv, NoLostUpdate
    <3> QED
      BY <1>4, <2>2, <3>1, <3>2
  <2> QED
    BY <2>1, <2>2
<1> QED
  BY <1>9, <1>10

-----------------------------------------------------------------------------
(***************************************************************************)
(* Lineage of the patch log.                                               *)
(***************************************************************************)
LEMMA PatchCommitKeepsChain ==
    ASSUME TypeOK, PatchLogIsChain, NEW r \in Requests, NEW now \in Times,
           NEW n \in Nat, r.scope = "patches", CommitPatch(r, now, n)
    PROVE  PatchLogIsChain'
<1> DEFINE u == r.vault
           e == r.envelope
           log == patches[u]
<1>1. u \in Vaults /\ e \in Envelopes /\ log \in Seq(Envelopes)
  BY RequestType DEF TypeOK
<1>2. \A i \in 1 .. Len(log) : log[i].rev # e.rev
  BY DEF CommitPatch, Acceptable, SameRevision, Resubmittable
<1>3. \A i \in 1 .. Len(log) : log[i] # None
  <2> SUFFICES ASSUME NEW i \in 1 .. Len(log) PROVE log[i] # None
    OBVIOUS
  <2>1. log[i] \in Envelopes
    BY <1>1, ElementOfSeq
  <2> QED
    BY <2>1, NamesAssumption
<1>4. e.parent = IF log = <<>> THEN None ELSE log[Len(log)].rev
  <2>1. CASE log = <<>>
    BY <2>1 DEF CommitPatch, Acceptable, CasHolds, HeadRevision, HeadOf
  <2>2. CASE log # <<>>
    <3>1. Len(log) \in 1 .. Len(log)
      BY <1>1, <2>2, EmptySeq, LenProperties
    <3> QED
      BY <1>3, <2>2, <3>1
      DEF CommitPatch, Acceptable, CasHolds, HeadRevision, HeadOf
  <2> QED
    BY <2>1, <2>2
<1>5. /\ patches'[u] = Append(log, e)
      /\ \A v \in Vaults : v # u => patches'[v] = patches[v]
  BY <1>1 DEF CommitPatch, TypeOK
<1>6. /\ Len(patches'[u]) = Len(log) + 1 /\ Len(log) \in Nat
      /\ patches'[u][Len(log) + 1] = e
      /\ \A i \in 1 .. Len(log) : patches'[u][i] = log[i]
      /\ log = <<>> <=> Len(log) = 0
  BY <1>1, <1>5, AppendProperties, LenProperties, EmptySeq
<1>7. /\ \A i \in 1 .. Len(log) :
           log[i].parent = IF i = 1 THEN None ELSE log[i - 1].rev
      /\ \A i, j \in 1 .. Len(log) : log[i].rev = log[j].rev => i = j
  BY <1>1 DEF PatchLogIsChain
<1> HIDE DEF u, e, log
<1> SUFFICES ASSUME NEW v \in Vaults
             PROVE  /\ \A i \in 1 .. Len(patches'[v]) :
                         patches'[v][i].parent =
                           IF i = 1 THEN None ELSE patches'[v][i - 1].rev
                    /\ \A i, j \in 1 .. Len(patches'[v]) :
                         patches'[v][i].rev = patches'[v][j].rev => i = j
  BY DEF PatchLogIsChain
<1>8. CASE v # u
  BY <1>5, <1>8 DEF PatchLogIsChain
<1>9. CASE v = u
  <2>1. \A i \in 1 .. Len(patches'[u]) :
          patches'[u][i].parent = IF i = 1 THEN None ELSE patches'[u][i - 1].rev
    <3> SUFFICES ASSUME NEW i \in 1 .. Len(log) + 1
                 PROVE  patches'[u][i].parent =
                          IF i = 1 THEN None ELSE patches'[u][i - 1].rev
      BY <1>6
    <3>1. CASE i = Len(log) + 1
      BY <1>4, <1>6, <3>1
    <3>2. CASE i \in 1 .. Len(log)
      BY <1>6, <1>7, <3>2
    <3> QED
      BY <1>6, <3>1, <3>2
  <2>2. \A i, j \in 1 .. Len(patches'[u]) :
          patches'[u][i].rev = patches'[u][j].rev => i = j
    BY <1>2, <1>6, <1>7
  <2> QED
    BY <1>9, <2>1, <2>2
<1> QED
  BY <1>8, <1>9

\* Two accepted revisions of a register never succeed the same revision, and
\* both its current envelope and the last patch of a log are the end of one chain.
THEOREM NoUpdateIsLost == Spec => [](NoLostUpdate /\ HeadIsLatest)
<1>1. Init => RegistersAreChains /\ NoLostUpdate /\ PatchLogIsChain
  BY DEF Init, RegistersAreChains, NoLostUpdate, PatchLogIsChain
<1>2. LineageInv /\ PatchLogIsChain /\ [Next]_vars
      => RegistersAreChains' /\ NoLostUpdate' /\ PatchLogIsChain'
  <2> SUFFICES ASSUME LineageInv, PatchLogIsChain, [Next]_vars
               PROVE  RegistersAreChains' /\ NoLostUpdate' /\ PatchLogIsChain'
    OBVIOUS
  <2>1. UNCHANGED <<current, history>> => RegistersAreChains' /\ NoLostUpdate'
    BY DEF LineageInv, RegistersAreChains, NoLostUpdate
  <2>2. UNCHANGED patches => PatchLogIsChain'
    BY DEF PatchLogIsChain
  <2>3. CASE WriteNext
    <3>1. PICK r \in Requests, now \in Times, n \in 0 .. MaxReceiptPrune :
             \/ PutMetadata(r, now, n) \/ PutObject(r, now, n)
             \/ AppendPatch(r, now, n) \/ PutSnapshot(r, now, n)
      BY <2>3 DEF WriteNext
    <3>2. n \in Nat
      BY NumbersAssumption
    <3>3. CASE CommitRegister(r, now, n) /\ r.scope # "patches"
      <4>1. UNCHANGED patches
        BY <3>3 DEF CommitRegister
      <4> QED
        BY <2>2, <3>2, <3>3, <4>1, RegisterCommitKeepsLineage
    <3>4. CASE CommitPatch(r, now, n) /\ r.scope = "patches"
      <4>1. UNCHANGED <<current, history>>
        BY <3>4 DEF CommitPatch
      <4> QED
        BY <2>1, <3>2, <3>4, <4>1, PatchCommitKeepsChain DEF LineageInv
    <3>5. CASE UNCHANGED <<current, history, patches>>
      BY <2>1, <2>2, <3>5
    <3>6. Objects \cap {"patches"} = {}
      BY NamesAssumption
    <3> QED
      BY <3>1, <3>3, <3>4, <3>5, <3>6
      DEF PutMetadata, PutObject, AppendPatch, PutSnapshot, PutRegister,
          AnswerFromReceipt, AcknowledgeDuplicate, Refuse
  <2>4. CASE ListPatches
    BY <2>1, <2>2, <2>4
    DEF ListPatches, ListFirst, ListNext, RefuseCursor, BeginList, writeVars
  <2>5. CASE UNCHANGED vars
    BY <2>1, <2>2, <2>5 DEF vars, writeVars
  <2> QED
    BY <2>3, <2>4, <2>5 DEF Next
<1> QED
  BY <1>1, <1>2, TypeCorrect, PTL DEF Spec, LineageInv, HeadIsLatest
-----------------------------------------------------------------------------
(***************************************************************************)
(* What pruning and pushing keep of a heap.                                *)
(***************************************************************************)
Within(entry, heap) == \E i \in 1 .. Len(heap) : heap[i] = entry

\* Every entry behind the popped ones stays.
LEMMA HeapRestKeeps ==
    ASSUME NEW S, NEW heap \in Seq(S), NEW n \in Nat, n <= Len(heap),
           NEW j \in n + 1 .. Len(heap)
    PROVE  Within(heap[j], HeapRest(heap, n))
<1>1. Len(heap) \in Nat /\ \A i \in n + 1 .. Len(heap) : heap[i] \in S
  BY ElementOfSeq, LenProperties
<1>2. /\ Len(HeapRest(heap, n)) = Len(heap) - n
      /\ \A i \in 1 .. Len(heap) - n : HeapRest(heap, n)[i] = heap[n + i]
  BY <1>1, SubSeqProperties DEF HeapRest
<1>3. j - n \in 1 .. Len(heap) - n /\ n + (j - n) = j
  BY <1>1
<1> QED
  BY <1>2, <1>3 DEF Within

\* A pushed entry is in the heap, and so is every entry there was.
LEMMA HeapPushKeeps ==
    ASSUME NEW S, NEW heap \in Seq(S), NEW entry \in S
    PROVE  /\ Within(entry, HeapPush(heap, entry))
           /\ \A j \in 1 .. Len(heap) : Within(heap[j], HeapPush(heap, entry))
<1> DEFINE I == {i \in 1 .. Len(heap) : heap[i].at <= entry.at}
           b == Cardinality(I)
           left == SubSeq(heap, 1, b)
           right == SubSeq(heap, b + 1, Len(heap))
           whole == left \o <<entry>> \o right
<1>1. HeapPush(heap, entry) = whole
  BY DEF HeapPush
<1>2. Len(heap) \in Nat /\ b \in Nat /\ b <= Len(heap)
  BY PushPlace, LenProperties
<1> HIDE DEF b
<1>3. \A i \in 1 .. Len(heap) : heap[i] \in S
  BY ElementOfSeq
<1>4. /\ left \in Seq(S) /\ Len(left) = b
      /\ \A i \in 1 .. b : left[i] = heap[i]
  BY <1>2, <1>3, SubSeqProperties
<1>5. /\ right \in Seq(S) /\ Len(right) = Len(heap) - b
      /\ \A i \in 1 .. Len(heap) - b : right[i] = heap[b + i]
  BY <1>2, <1>3, SubSeqProperties
<1> HIDE DEF left, right
<1>6. /\ left \o <<entry>> \in Seq(S) /\ Len(left \o <<entry>>) = b + 1
      /\ (left \o <<entry>>)[b + 1] = entry
      /\ \A i \in 1 .. b : (left \o <<entry>>)[i] = heap[i]
  BY <1>2, <1>4, ConcatProperties
<1>7. /\ Len(whole) = Len(heap) + 1
      /\ whole[b + 1] = entry
      /\ \A i \in 1 .. b : whole[i] = heap[i]
      /\ \A i \in 1 .. Len(heap) - b : whole[b + 1 + i] = heap[b + i]
  BY <1>2, <1>5, <1>6, ConcatProperties
<1> HIDE DEF whole
<1>8. Within(entry, whole)
  BY <1>2, <1>7 DEF Within
<1>9. ASSUME NEW j \in 1 .. Len(heap) PROVE Within(heap[j], whole)
  <2>1. CASE j <= b
    BY <1>2, <1>7, <2>1 DEF Within
  <2>2. CASE j > b
    <3>1. /\ j - b \in 1 .. Len(heap) - b /\ b + (j - b) = j
          /\ b + 1 + (j - b) \in 1 .. Len(heap) + 1
      BY <1>2, <2>2
    <3>2. whole[b + 1 + (j - b)] = heap[b + (j - b)]
      BY <1>7, <3>1
    <3> QED
      BY <1>7, <3>1, <3>2 DEF Within
  <2> QED
    BY <1>2, <2>1, <2>2
<1> QED
  BY <1>1, <1>8, <1>9
-----------------------------------------------------------------------------
(***************************************************************************)
(* What a write leaves behind, whatever its outcome.                       *)
(***************************************************************************)
Write(r, now, n) ==
    \/ PutMetadata(r, now, n) \/ PutObject(r, now, n)
    \/ AppendPatch(r, now, n) \/ PutSnapshot(r, now, n)

\* Nothing stored is ever taken back.
LEMMA StoredGrows ==
    ASSUME TypeOK, NEW r \in Requests, NEW now \in Times, NEW n \in Nat,
           Write(r, now, n)
    PROVE  /\ \A v \in Vaults, s \in Scopes : Stored(v, s) \subseteq Stored(v, s)'
           /\ \A v \in Vaults : Len(patches[v]) <= Len(patches'[v])
<1>0. \A v \in Vaults : patches[v] \in Seq(Envelopes) /\ Len(patches[v]) \in Nat
  BY LenProperties DEF TypeOK
<1>1. CASE UNCHANGED <<history, patches>>
  BY <1>0, <1>1 DEF Stored
<1>2. CASE CommitRegister(r, now, n) /\ r.scope # "patches"
  <2>1. /\ UNCHANGED patches
        /\ \A v \in Vaults, s \in Registers : history[v][s] \subseteq history'[v][s]
    BY <1>2, RequestType DEF CommitRegister, TypeOK
  <2> QED
    BY <1>0, <2>1 DEF Stored, Scopes
<1>3. CASE CommitPatch(r, now, n)
  <2>1. /\ UNCHANGED history
        /\ \A v \in Vaults :
              patches'[v] = IF v = r.vault THEN Append(patches[v], r.envelope)
                            ELSE patches[v]
    BY <1>3, RequestType DEF CommitPatch, TypeOK
  <2>2. \A v \in Vaults :
           /\ Len(patches[v]) <= Len(patches'[v])
           /\ \A i \in 1 .. Len(patches[v]) : patches'[v][i] = patches[v][i]
    <3> SUFFICES ASSUME NEW v \in Vaults
                 PROVE  /\ Len(patches[v]) <= Len(patches'[v])
                        /\ \A i \in 1 .. Len(patches[v]) : patches'[v][i] = patches[v][i]
      OBVIOUS
    <3>1. /\ Len(Append(patches[v], r.envelope)) = Len(patches[v]) + 1
          /\ \A i \in 1 .. Len(patches[v]) :
                Append(patches[v], r.envelope)[i] = patches[v][i]
      BY <1>0, RequestType, AppendProperties
    <3>2. CASE v = r.vault
      <4>1. patches'[v] = Append(patches[v], r.envelope)
        BY <2>1, <3>2
      <4> QED
        BY <1>0, <3>1, <4>1
    <3>3. CASE v # r.vault
      <4>1. patches'[v] = patches[v]
        BY <2>1, <3>3
      <4> QED
        BY <1>0, <4>1
    <3> QED
      BY <3>2, <3>3
  <2>3. \A v \in Vaults : Len(patches'[v]) \in Nat
    <3> SUFFICES ASSUME NEW v \in Vaults PROVE Len(patches'[v]) \in Nat
      OBVIOUS
    <3>1. Append(patches[v], r.envelope) \in Seq(Envelopes)
      BY <1>0, RequestType, AppendProperties
    <3> QED
      BY <1>0, <2>1, <3>1, LenProperties
  <2>4. ASSUME NEW v \in Vaults, NEW i \in 1 .. Len(patches[v])
        PROVE  i \in 1 .. Len(patches'[v]) /\ patches'[v][i] = patches[v][i]
    BY <1>0, <2>2, <2>3
  <2> QED
    BY <2>1, <2>2, <2>4 DEF Stored
<1>4. Objects \cap {"patches"} = {}
  BY NamesAssumption
<1> QED
  BY <1>1, <1>2, <1>3, <1>4
  DEF Write, PutMetadata, PutObject, AppendPatch, PutSnapshot, PutRegister,
      AnswerFromReceipt, AcknowledgeDuplicate, Refuse

\* A write keeps the receipts that pruning leaves, drops the one under its own
\* key, or records one there for an envelope that is stored; a live receipt
\* under its own key it keeps.
LEMMA ReceiptOutcomes ==
    ASSUME TypeOK, RegistersAreChains, NEW r \in Requests, NEW now \in Times,
           NEW n \in Nat, Write(r, now, n)
    PROVE  \/ /\ receipts' = ReceiptsAfterPrune(now, n)
              /\ receiptHeap' = HeapRest(receiptHeap, n)
           \/ /\ ~HasLiveReceipt(r, now, n)
              /\ receipts' = SetReceipt(r, now, n, None)
              /\ receiptHeap' = HeapRest(receiptHeap, n)
           \/ /\ ~HasLiveReceipt(r, now, n)
              /\ Record(r, now, n)
              /\ r.envelope \in Stored(r.vault, r.scope)'
<1>1. CASE AnswerFromReceipt(r, now, n)
  BY <1>1 DEF AnswerFromReceipt
<1>2. CASE Refuse(r, now, n)
  BY <1>2 DEF Refuse
<1>3. CASE AcknowledgeDuplicate(r, now, n)
  <2>1. r.envelope \in Resubmittable(r)
    BY <1>3 DEF AcknowledgeDuplicate, SameRevision
  <2>2. r.envelope \in Stored(r.vault, r.scope)
    BY <2>1, RequestType DEF Resubmittable, Stored, RegistersAreChains
  <2> QED
    BY <1>3, <2>2, StoredGrows, RequestType DEF AcknowledgeDuplicate
<1>4. CASE CommitRegister(r, now, n) /\ r.scope # "patches"
  <2>1. r.envelope \in history'[r.vault][r.scope]
    BY <1>4, RequestType DEF CommitRegister, TypeOK
  <2> QED
    BY <1>4, <2>1 DEF CommitRegister, Stored
<1>5. CASE CommitPatch(r, now, n) /\ r.scope = "patches"
  <2>0. patches[r.vault] \in Seq(Envelopes) /\ Len(patches[r.vault]) \in Nat
    BY RequestType, LenProperties DEF TypeOK
  <2>1. patches'[r.vault] = Append(patches[r.vault], r.envelope)
    BY <1>5, RequestType DEF CommitPatch, TypeOK
  <2>2. /\ Len(patches'[r.vault]) = Len(patches[r.vault]) + 1
        /\ patches'[r.vault][Len(patches[r.vault]) + 1] = r.envelope
    BY <2>0, <2>1, RequestType, AppendProperties
  <2>3. r.envelope \in Stored(r.vault, r.scope)'
    BY <1>5, <2>0, <2>2 DEF Stored
  <2> QED
    BY <1>5, <2>3 DEF CommitPatch
<1>6. Objects \cap {"patches"} = {}
  BY NamesAssumption
<1> QED
  BY <1>1, <1>2, <1>3, <1>4, <1>5, <1>6
  DEF Write, PutMetadata, PutObject, AppendPatch, PutSnapshot, PutRegister
-----------------------------------------------------------------------------
\* What is current is the end of its lineage (put_object, put_snapshot,
\* put_metadata, append_patch).
THEOREM CurrentIsTheEnd == Spec => []HeadIsLatest
BY NoUpdateIsLost, PTL
-----------------------------------------------------------------------------
(***************************************************************************)
(* Receipts and cursors answer only for what is stored and scheduled.      *)
(***************************************************************************)
\* Pruning leaves a receipt as it is or drops it, and drops only what is due.
LEMMA PrunedReceipts ==
    ASSUME TypeOK, NEW now \in Times, NEW n \in Nat, NEW v \in Vaults,
           NEW k \in Scopes \X Keys
    PROVE  /\ ReceiptsAfterPrune(now, n)[v][k] \in {receipts[v][k], None}
           /\ receipts[v][k] # None /\ receipts[v][k].expires > now
                => ReceiptsAfterPrune(now, n)[v][k] = receipts[v][k]
<1>1. receipts[v][k] # None => receipts[v][k].expires \in Nat
  BY DEF TypeOK, Receipts
<1>2. now \in Nat
  BY NumbersAssumption
<1> QED
  BY <1>1, <1>2 DEF ReceiptsAfterPrune

\* After a write a key holds what it held, nothing, or, if it is the write's
\* own, the receipt recorded for it.
LEMMA ReceiptsAfterWrite ==
    ASSUME TypeOK, RegistersAreChains, NEW r \in Requests, NEW now \in Times,
           NEW n \in Nat, n <= Len(receiptHeap), Write(r, now, n),
           NEW v \in Vaults, NEW k \in Scopes \X Keys
    PROVE  \/ receipts'[v][k] \in {ReceiptsAfterPrune(now, n)[v][k], None}
           \/ /\ v = r.vault /\ k = ReceiptKey(r)
              /\ receipts'[v][k] =
                    [attempt |-> Attempt(r), response |-> r.envelope,
                     expires |-> now + ReceiptLifetime]
              /\ r.envelope \in Stored(r.vault, r.scope)'
<1>1. /\ now + ReceiptLifetime \in Nat
      /\ [attempt |-> Attempt(r), response |-> r.envelope,
          expires |-> now + ReceiptLifetime] \in Receipts
  BY NumbersAssumption, RequestType DEF Receipts
<1>2. ReceiptsAfterPrune(now, n) \in ReceiptTable
  BY SetReceiptType
<1>3. ASSUME NEW receipt \in Receipts \cup {None}
      PROVE  SetReceipt(r, now, n, receipt)[v][k] =
                IF v = r.vault /\ k = ReceiptKey(r) THEN receipt
                ELSE ReceiptsAfterPrune(now, n)[v][k]
  BY <1>2, RequestType DEF SetReceipt, ReceiptTable
<1> QED
  BY <1>1, <1>3, ReceiptOutcomes DEF Record

\* What a listing leaves alone.
LEMMA ListLeavesWrites ==
    ASSUME ListPatches
    PROVE  UNCHANGED <<receipts, receiptHeap, history, patches>>
BY DEF ListPatches, ListFirst, ListNext, RefuseCursor, BeginList, writeVars

\* Every receipt answers for a write that was made.
LEMMA WriteKeepsWitnesses ==
    ASSUME TypeOK, RegistersAreChains, ReceiptsWitnessCommits,
           NEW r \in Requests, NEW now \in Times, NEW n \in Nat,
           n <= Len(receiptHeap), Write(r, now, n)
    PROVE  ReceiptsWitnessCommits'
<1> SUFFICES ASSUME NEW v \in Vaults, NEW k \in Scopes \X Keys,
                    receipts'[v][k] # None
             PROVE  /\ receipts'[v][k].response = receipts'[v][k].attempt.envelope
                    /\ receipts'[v][k].response \in Stored(v, k[1])'
  BY DEF ReceiptsWitnessCommits, Stored
<1>1. CASE receipts'[v][k] = receipts[v][k]
  <2>1. /\ receipts[v][k].response = receipts[v][k].attempt.envelope
        /\ receipts[v][k].response \in Stored(v, k[1])
    BY <1>1 DEF ReceiptsWitnessCommits
  <2>2. Stored(v, k[1]) \subseteq Stored(v, k[1])'
    BY StoredGrows
  <2> QED
    BY <1>1, <2>1, <2>2
<1>2. CASE receipts'[v][k] # receipts[v][k]
  <2>1. /\ v = r.vault /\ k = ReceiptKey(r)
        /\ receipts'[v][k] = [attempt |-> Attempt(r), response |-> r.envelope,
                              expires |-> now + ReceiptLifetime]
        /\ r.envelope \in Stored(r.vault, r.scope)'
    BY <1>2, PrunedReceipts, ReceiptsAfterWrite
  <2>2. k[1] = r.scope
    BY <2>1 DEF ReceiptKey
  <2> QED
    BY <2>1, <2>2 DEF Attempt
<1> QED
  BY <1>1, <1>2

\* No receipt answers for a write that did not happen (_record, _replay).
THEOREM ReceiptsAreEarned == Spec => []ReceiptsWitnessCommits
<1>1. Init => ReceiptsWitnessCommits
  BY DEF Init, ReceiptsWitnessCommits
<1>2. TypeOK /\ RegistersAreChains /\ ReceiptsWitnessCommits /\ [Next]_vars
      => ReceiptsWitnessCommits'
  <2> SUFFICES ASSUME TypeOK, RegistersAreChains, ReceiptsWitnessCommits, [Next]_vars
               PROVE  ReceiptsWitnessCommits'
    OBVIOUS
  <2>1. CASE WriteNext
    <3>1. PICK r \in Requests, now \in Times, n \in 0 .. MaxReceiptPrune :
             Write(r, now, n)
      BY <2>1 DEF WriteNext, Write
    <3>2. n \in Nat /\ n <= Len(receiptHeap)
      BY <3>1, NumbersAssumption
      DEF Write, PutMetadata, PutObject, AppendPatch, PutSnapshot, PutRegister,
          BeginWrite, PruneStopsAt
    <3> QED
      BY <3>1, <3>2, WriteKeepsWitnesses
  <2>2. CASE ListPatches \/ UNCHANGED vars
    <3>1. UNCHANGED <<receipts, history, patches>>
      BY <2>2, ListLeavesWrites DEF vars, writeVars
    <3>2. \A v \in Vaults, k \in Scopes \X Keys : Stored(v, k[1])' = Stored(v, k[1])
      BY <3>1 DEF Stored
    <3> QED
      BY <3>1, <3>2 DEF ReceiptsWitnessCommits
  <2> QED
    BY <2>1, <2>2 DEF Next
<1>3. HeadIsLatest => RegistersAreChains
  BY DEF HeadIsLatest
<1> QED
  BY <1>1, <1>2, <1>3, TypeCorrect, NoUpdateIsLost, PTL DEF Spec
-----------------------------------------------------------------------------
(***************************************************************************)
(* What a listing leaves of the cursors, whatever its outcome.             *)
(***************************************************************************)
Listing(v, now, n) ==
    \/ \E size \in PageSizes : ListFirst(v, size, now, n)
    \/ \E t \in Tokens, size \in PageSizes \cup {None} :
          ListNext(v, t, size, now, n) \/ RefuseCursor(v, t, size, now, n)

\* Pruning leaves a cursor as it is or drops it, and drops only what is due.
LEMMA PrunedCursors ==
    ASSUME TypeOK, NEW now \in Times, NEW n \in Nat
    PROVE  /\ CursorsAfterPrune(now, n) \in CursorTable
           /\ \A t \in Tokens :
                 /\ CursorsAfterPrune(now, n)[t] \in {cursors[t], None}
                 /\ cursors[t] # None /\ cursors[t].expires > now
                      => CursorsAfterPrune(now, n)[t] = cursors[t]
<1>1. \A t \in Tokens : cursors[t] # None => cursors[t].expires \in Nat
  BY DEF TypeOK, Cursors
<1>2. now \in Nat
  BY NumbersAssumption
<1> QED
  BY <1>1, <1>2 DEF CursorsAfterPrune, CursorTable, TypeOK

\* No token is drawn, and at most due cursors are dropped.
NoneMinted(table, now, n) ==
    /\ cursorHeap' = HeapRest(cursorHeap, n)
    /\ \A t \in Tokens : \/ cursors'[t] = table[t]
                         \/ /\ cursors'[t] = None
                            /\ table[t] # None /\ table[t].expires <= now

\* The cursor at u starts a listing.
Opens(table, u) ==
    /\ \A t \in Tokens \ {u} : cursors'[t] = table[t]
    /\ cursors'[u].start < cursors'[u].end
    /\ cursors'[u].end = Len(patches[cursors'[u].vault])

\* The cursor at u goes on where the page of the live one at t ends, which had
\* no successor yet.
Extends(table, now, t, u) ==
    /\ table[t] # None /\ table[t].expires > now /\ table[t].next = None
    /\ cursors'[u].start = table[t].start + table[t].size
    /\ cursors'[u].start < table[t].end
    /\ cursors'[u].vault = table[t].vault
    /\ cursors'[u].end = table[t].end /\ cursors'[u].size = table[t].size
    /\ cursors'[t] = [table[t] EXCEPT !.next = u]
    /\ \A s \in Tokens \ {t, u} : cursors'[s] = table[s]

Minted(table, now, n, u) ==
    /\ table[u] = None
    /\ cursors'[u] \in Cursors
    /\ cursors'[u].expires = now + CursorLifetime /\ cursors'[u].next = None
    /\ cursorHeap' = HeapPush(HeapRest(cursorHeap, n),
                              [at |-> cursors'[u].expires, token |-> u])
    /\ Opens(table, u) \/ \E t \in Tokens \ {u} : Extends(table, now, t, u)

LEMMA CursorOutcomes ==
    ASSUME TypeOK, NEW v \in Vaults, NEW now \in Times, NEW n \in Nat,
           Listing(v, now, n)
    PROVE  \/ NoneMinted(CursorsAfterPrune(now, n), now, n)
           \/ \E u \in Tokens : Minted(CursorsAfterPrune(now, n), now, n, u)
<1> DEFINE table == CursorsAfterPrune(now, n)
<1>1. /\ table \in CursorTable /\ \A t \in Tokens : table[t] \in Cursors \cup {None}
      /\ now + CursorLifetime \in Nat
  BY PrunedCursors, NumbersAssumption DEF CursorTable
<1>2. CASE KeepCursors(now, n)
  BY <1>2 DEF KeepCursors, NoneMinted
<1>3. ASSUME NEW start \in Nat, NEW end \in Nat, NEW size \in Nat \ {0}
      PROVE  NewCursor(v, start, end, size, now) \in Cursors
  BY <1>1 DEF NewCursor, Cursors
<1> HIDE DEF table
<1>4. CASE \E size \in PageSizes : ListFirst(v, size, now, n)
  <2>1. PICK size \in PageSizes : ListFirst(v, size, now, n)
    BY <1>4
  <2>2. size \in Nat \ {0} /\ Len(patches[v]) \in Nat
    BY NumbersAssumption, LenProperties DEF TypeOK
  <2>3. CASE ~KeepCursors(now, n)
    <3> DEFINE c == NewCursor(v, size, Len(patches[v]), size, now)
    <3>1. PICK u \in FreeTokens(table) :
             Len(patches[v]) > size /\ MintCursor(table, n, u, c)
      BY <2>1, <2>3 DEF ListFirst, table
    <3>2. /\ c \in Cursors /\ c.expires = now + CursorLifetime /\ c.next = None
          /\ c.start = size /\ c.end = Len(patches[v]) /\ c.vault = v
      BY <1>3, <2>2 DEF NewCursor
    <3> HIDE DEF c
    <3>3. /\ u \in Tokens /\ table[u] = None
          /\ cursors' = [table EXCEPT ![u] = c]
          /\ cursorHeap' = HeapPush(HeapRest(cursorHeap, n),
                                    [at |-> c.expires, token |-> u])
      BY <3>1 DEF FreeTokens, MintCursor
    <3>4. cursors'[u] = c /\ \A t \in Tokens \ {u} : cursors'[t] = table[t]
      BY <1>1, <3>3 DEF CursorTable
    <3>5. Opens(table, u)
      BY <2>2, <3>1, <3>2, <3>4 DEF Opens
    <3>6. Minted(table, now, n, u)
      BY <3>2, <3>3, <3>4, <3>5 DEF Minted
    <3> QED
      BY <3>3, <3>6 DEF table
  <2> QED
    BY <1>2, <2>3
<1>5. CASE \E t \in Tokens, size \in PageSizes \cup {None} : ListNext(v, t, size, now, n)
  <2>1. PICK t \in Tokens, size \in PageSizes \cup {None} : ListNext(v, t, size, now, n)
    BY <1>5
  <2> DEFINE record == table[t]
             stop == record.start + record.size
  <2>2. /\ record # None /\ record.expires > now /\ record.vault = v
        /\ \/ KeepCursors(now, n)
           \/ /\ stop < record.end /\ record.next = None
              /\ \E u \in FreeTokens(table) :
                    MintCursor([table EXCEPT ![t].next = u], n, u,
                               NewCursor(v, stop, record.end, record.size, now))
    BY <2>1 DEF ListNext, UsableCursor, table
  <2>3. CASE ~KeepCursors(now, n)
    <3> DEFINE c == NewCursor(v, stop, record.end, record.size, now)
    <3>0. record \in Cursors
      BY <1>1, <2>2
    <3>1. PICK u \in FreeTokens(table) :
             stop < record.end /\ MintCursor([table EXCEPT ![t].next = u], n, u, c)
      BY <2>2, <2>3
    <3>2. /\ record.start \in Nat /\ record.end \in Nat /\ record.size \in Nat \ {0}
          /\ stop \in Nat
      BY <3>0 DEF Cursors
    <3>3. /\ c \in Cursors /\ c.expires = now + CursorLifetime /\ c.next = None
          /\ c.start = stop /\ c.end = record.end /\ c.size = record.size /\ c.vault = v
      BY <1>3, <3>2 DEF NewCursor
    <3> HIDE DEF c
    <3>4. /\ u \in Tokens /\ table[u] = None /\ u # t
          /\ cursors' = [[table EXCEPT ![t].next = u] EXCEPT ![u] = c]
          /\ cursorHeap' = HeapPush(HeapRest(cursorHeap, n),
                                    [at |-> c.expires, token |-> u])
      BY <2>2, <3>1 DEF FreeTokens, MintCursor
    <3>5. /\ cursors'[u] = c
          /\ cursors'[t] = [table[t] EXCEPT !.next = u]
          /\ \A s \in Tokens \ {t, u} : cursors'[s] = table[s]
      BY <1>1, <3>4 DEF CursorTable
    <3>6. Extends(table, now, t, u)
      <4>1. /\ table[t] # None /\ table[t].expires > now /\ table[t].next = None
            /\ cursors'[u].start = table[t].start + table[t].size
            /\ cursors'[u].start < table[t].end
            /\ cursors'[u].vault = table[t].vault
            /\ cursors'[u].end = table[t].end /\ cursors'[u].size = table[t].size
        BY <2>2, <2>3, <3>1, <3>3, <3>5
      <4> HIDE DEF record, stop
      <4> QED
        BY <3>5, <4>1 DEF Extends
    <3>7. /\ cursors'[u] \in Cursors
          /\ cursors'[u].expires = now + CursorLifetime /\ cursors'[u].next = None
          /\ cursorHeap' = HeapPush(HeapRest(cursorHeap, n),
                                    [at |-> cursors'[u].expires, token |-> u])
      BY <3>3, <3>4, <3>5
    <3>8. t \in Tokens \ {u}
      BY <2>1, <3>4
    <3>9. Minted(table, now, n, u)
      BY <3>4, <3>6, <3>7, <3>8 DEF Minted
    <3> QED
      BY <3>4, <3>9 DEF table
  <2> QED
    BY <1>2, <2>2, <2>3
<1>6. CASE \E t \in Tokens, size \in PageSizes \cup {None} : RefuseCursor(v, t, size, now, n)
  BY <1>1, <1>6 DEF RefuseCursor, NoneMinted, table, CursorTable
<1> QED
  BY <1>4, <1>5, <1>6 DEF Listing
-----------------------------------------------------------------------------
(***************************************************************************)
(* Clocks and heaps under every step.                                      *)
(***************************************************************************)
LEMMA WriteClock ==
    ASSUME NEW r \in Requests, NEW now \in Times, NEW n \in 0 .. MaxReceiptPrune,
           Write(r, now, n)
    PROVE  /\ n \in Nat /\ now \in Nat /\ n <= Len(receiptHeap)
           /\ \A i \in 1 .. n : receiptHeap[i].at <= now
           /\ now >= lastClock /\ lastClock' = now
           /\ UNCHANGED <<cursors, cursorHeap>>
BY NumbersAssumption
DEF Write, PutMetadata, PutObject, AppendPatch, PutSnapshot, PutRegister,
    BeginWrite, PruneStopsAt, cursorVars

LEMMA ListingClock ==
    ASSUME NEW v \in Vaults, NEW now \in Times, NEW n \in 0 .. MaxCursorPrune,
           Listing(v, now, n)
    PROVE  /\ n \in Nat /\ now \in Nat /\ n <= Len(cursorHeap)
           /\ \A i \in 1 .. n : cursorHeap[i].at <= now
           /\ now >= lastClock /\ lastClock' = now
           /\ UNCHANGED <<receipts, receiptHeap, history, patches>>
BY NumbersAssumption
DEF Listing, ListFirst, ListNext, RefuseCursor, BeginList, PruneStopsAt, writeVars

\* Every step is a write, a listing, or none.
LEMMA StepCases ==
    ASSUME [Next]_vars
    PROVE  \/ \E r \in Requests, now \in Times, n \in 0 .. MaxReceiptPrune :
                 Write(r, now, n)
           \/ \E v \in Vaults, now \in Times, n \in 0 .. MaxCursorPrune :
                 Listing(v, now, n)
           \/ UNCHANGED vars
BY DEF Next, WriteNext, ListPatches, Write, Listing

-----------------------------------------------------------------------------
(***************************************************************************)
(* The retry window and the listing window: LiveEntriesStay.               *)
(***************************************************************************)
LEMMA LiveReceiptsStay ==
    ASSUME TypeOK, RegistersAreChains, NEW r \in Requests, NEW now \in Times,
           NEW n \in Nat, Write(r, now, n),
           NEW v \in Vaults, NEW k \in Scopes \X Keys,
           receipts[v][k] # None, receipts[v][k].expires > now
    PROVE  receipts'[v][k] = receipts[v][k]
<1>1. ReceiptsAfterPrune(now, n)[v][k] = receipts[v][k]
  BY PrunedReceipts
<1>2. ReceiptsAfterPrune(now, n) \in ReceiptTable
  BY SetReceiptType
<1>3. CASE v = r.vault /\ k = ReceiptKey(r)
  <2>1. HasLiveReceipt(r, now, n)
    BY <1>1, <1>3 DEF HasLiveReceipt, FoundReceipt
  <2> QED
    BY <1>1, <2>1, ReceiptOutcomes
<1>4. CASE ~(v = r.vault /\ k = ReceiptKey(r))
  <2>1. ASSUME NEW receipt
        PROVE  SetReceipt(r, now, n, receipt)[v][k] = receipts[v][k]
    BY <1>1, <1>2, <1>4, RequestType DEF SetReceipt, ReceiptTable
  <2> QED
    BY <1>1, <2>1, ReceiptOutcomes DEF Record
<1> QED
  BY <1>3, <1>4

LEMMA LiveCursorsStay ==
    ASSUME TypeOK, NEW v \in Vaults, NEW now \in Times, NEW n \in Nat,
           Listing(v, now, n),
           NEW t \in Tokens, cursors[t] # None, cursors[t].expires > now
    PROVE  /\ cursors'[t] # None
           /\ cursors'[t] = [cursors[t] EXCEPT !.next = cursors'[t].next]
           /\ cursors[t].next # None => cursors'[t].next = cursors[t].next
<1> DEFINE table == CursorsAfterPrune(now, n)
<1>1. table[t] = cursors[t]
  BY PrunedCursors
<1>2. /\ cursors[t] \in Cursors /\ cursors[t].expires \in Nat /\ now \in Nat
      /\ cursors[t] = [cursors[t] EXCEPT !.next = cursors[t].next]
  BY NumbersAssumption DEF TypeOK, Cursors
<1> HIDE DEF table
<1>3. CASE cursors'[t] = table[t]
  BY <1>1, <1>2, <1>3
<1>4. ASSUME NEW u \in Tokens,
             cursors'[t] = [table[t] EXCEPT !.next = u], table[t].next = None
      PROVE  /\ cursors'[t] # None
             /\ cursors'[t] = [cursors[t] EXCEPT !.next = cursors'[t].next]
             /\ cursors[t].next # None => cursors'[t].next = cursors[t].next
  <2>1. cursors'[t] = [cursors[t] EXCEPT !.next = u]
    BY <1>1, <1>4
  <2>2. cursors'[t] \in Cursors /\ cursors'[t].next = u
    BY <1>2, <2>1 DEF Cursors
  <2> QED
    BY <1>1, <1>4, <2>1, <2>2, NamesAssumption
<1>5. CASE NoneMinted(table, now, n)
  BY <1>1, <1>2, <1>3, <1>5 DEF NoneMinted
<1>6. CASE \E u \in Tokens : Minted(table, now, n, u)
  <2>1. PICK u \in Tokens : Minted(table, now, n, u)
    BY <1>6
  <2>2. t # u
    BY <1>1, <2>1 DEF Minted
  <2>3. CASE Opens(table, u)
    BY <1>3, <2>2, <2>3 DEF Opens
  <2>4. CASE \E s \in Tokens \ {u} : Extends(table, now, s, u)
    BY <1>3, <1>4, <2>2, <2>4 DEF Extends
  <2> QED
    BY <2>1, <2>3, <2>4 DEF Minted
<1> QED
  BY <1>5, <1>6, CursorOutcomes DEF table

\* A live receipt and a live cursor outlive every operation, whatever it prunes.
THEOREM RetryAndListWindows == Spec => LiveEntriesStay
<1> DEFINE Stays ==
      /\ \A v \in Vaults, k \in Scopes \X Keys :
            receipts[v][k] # None /\ receipts[v][k].expires > lastClock'
              => receipts'[v][k] = receipts[v][k]
      /\ \A t \in Tokens :
            cursors[t] # None /\ cursors[t].expires > lastClock' =>
               /\ cursors'[t] # None
               /\ cursors'[t] = [cursors[t] EXCEPT !.next = cursors'[t].next]
               /\ cursors[t].next # None => cursors'[t].next = cursors[t].next
<1>1. TypeOK /\ RegistersAreChains /\ [Next]_vars => [Stays]_vars
  <2> SUFFICES ASSUME TypeOK, RegistersAreChains, [Next]_vars PROVE [Stays]_vars
    OBVIOUS
  <2>1. \A t \in Tokens : cursors[t] # None =>
           cursors[t] = [cursors[t] EXCEPT !.next = cursors[t].next]
    BY DEF TypeOK, Cursors
  <2>2. ASSUME NEW r \in Requests, NEW now \in Times,
               NEW n \in 0 .. MaxReceiptPrune, Write(r, now, n)
        PROVE  Stays
    <3>1. n \in Nat /\ lastClock' = now /\ UNCHANGED cursors
      BY <2>2, WriteClock
    <3> QED
      BY <2>1, <2>2, <3>1, LiveReceiptsStay
  <2>3. ASSUME NEW v \in Vaults, NEW now \in Times, NEW n \in 0 .. MaxCursorPrune,
               Listing(v, now, n)
        PROVE  Stays
    <3>1. n \in Nat /\ lastClock' = now /\ UNCHANGED receipts
      BY <2>3, ListingClock
    <3> QED
      BY <2>3, <3>1, LiveCursorsStay
  <2> QED
    BY <2>2, <2>3, StepCases
<1>2. HeadIsLatest => RegistersAreChains
  BY DEF HeadIsLatest
<1> QED
  BY <1>1, <1>2, TypeCorrect, NoUpdateIsLost, PTL DEF Spec, LiveEntriesStay
-----------------------------------------------------------------------------
(***************************************************************************)
(* Listings are contiguous: PagesChain.  A cursor outlives the one that    *)
(* handed it out because no cursor lives longer than one made now.         *)
(***************************************************************************)
PageInv ==
    /\ PagesChain
    /\ \A t \in Tokens :
          cursors[t] # None => cursors[t].expires <= lastClock + CursorLifetime

\* What PagesChain says of the cursor at t.
Chained(t) ==
    LET c == cursors[t]
    IN  /\ c.start < c.end /\ c.end <= Len(patches[c.vault])
        /\ c.next # None =>
              LET d == cursors[c.next]
              IN  /\ d # None
                  /\ d.expires >= c.expires
                  /\ d.start = c.start + c.size
                  /\ d.vault = c.vault /\ d.end = c.end /\ d.size = c.size

LEMMA PagesChainMeans ==
    PagesChain <=> \A t \in Tokens :
        cursors[t] # None /\ cursors[t].expires > lastClock => Chained(t)
BY DEF PagesChain, Chained

LEMMA WritesKeepPages ==
    ASSUME TypeOK, PageInv, NEW r \in Requests, NEW now \in Times,
           NEW n \in 0 .. MaxReceiptPrune, Write(r, now, n)
    PROVE  PageInv'
<1>1. /\ n \in Nat /\ now \in Nat /\ now >= lastClock /\ lastClock' = now
      /\ UNCHANGED cursors
  BY WriteClock
<1>2. /\ \A v \in Vaults : Len(patches[v]) <= Len(patches'[v])
      /\ \A v \in Vaults : Len(patches[v]) \in Nat /\ Len(patches'[v]) \in Nat
  <2>1. TypeOK'
    BY WriteType DEF Write
  <2>2. \A v \in Vaults : Len(patches[v]) \in Nat /\ Len(patches'[v]) \in Nat
    BY <2>1, LenProperties DEF TypeOK
  <2> QED
    BY <1>1, <2>2, StoredGrows
<1>3. \A t \in Tokens : cursors[t] # None =>
         /\ cursors[t] \in Cursors /\ cursors[t].vault \in Vaults
         /\ cursors[t].expires \in Nat /\ cursors[t].end \in Nat
  BY DEF TypeOK, Cursors
<1>4. lastClock \in Nat /\ CursorLifetime \in Nat
  BY NumbersAssumption DEF TypeOK
<1>5. ASSUME NEW t \in Tokens, cursors'[t] # None, cursors'[t].expires > lastClock'
      PROVE  Chained(t)'
  <2>1. cursors[t] # None /\ cursors[t].expires > lastClock
    BY <1>1, <1>3, <1>4, <1>5
  <2>2. Chained(t)
    BY <2>1, PagesChainMeans DEF PageInv
  <2> QED
    BY <1>1, <1>2, <1>3, <2>1, <2>2 DEF Chained
<1>6. PagesChain'
  BY <1>5 DEF PagesChain, Chained
<1>7. \A t \in Tokens :
         cursors'[t] # None => cursors'[t].expires <= lastClock' + CursorLifetime
  BY <1>1, <1>3, <1>4 DEF PageInv
<1> QED
  BY <1>6, <1>7 DEF PageInv

LEMMA ListingsKeepPages ==
    ASSUME TypeOK, PageInv, NEW v \in Vaults, NEW now \in Times,
           NEW n \in 0 .. MaxCursorPrune, Listing(v, now, n)
    PROVE  PageInv'
<1> DEFINE table == CursorsAfterPrune(now, n)
<1>1. /\ n \in Nat /\ now \in Nat /\ now >= lastClock /\ lastClock' = now
      /\ UNCHANGED patches
  BY ListingClock
<1>2. \A t \in Tokens :
         /\ cursors[t] # None => cursors[t] \in Cursors
         /\ cursors[t] # None => cursors[t].expires <= lastClock + CursorLifetime
         /\ table[t] \in {cursors[t], None}
         /\ cursors[t] # None /\ cursors[t].expires > now => table[t] = cursors[t]
  BY <1>1, PrunedCursors DEF TypeOK, PageInv
<1>3. lastClock \in Nat /\ CursorLifetime \in Nat
  BY NumbersAssumption DEF TypeOK
<1> HIDE DEF table
<1>4. \A c \in Cursors :
         /\ c.vault \in Vaults /\ c.start \in Nat /\ c.end \in Nat
         /\ c.size \in Nat \ {0} /\ c.expires \in Nat /\ c.next \in Tokens \cup {None}
  BY DEF Cursors
<1>5. \A w \in Vaults : Len(patches[w]) \in Nat
  BY LenProperties DEF TypeOK
  \* A cursor that is live in the table is chained, to one live in the table.
<1>6. ASSUME NEW t \in Tokens, table[t] # None, table[t].expires > now
      PROVE  /\ table[t] \in Cursors /\ table[t] = cursors[t] /\ Chained(t)
             /\ table[t].next # None =>
                   /\ table[t].next \in Tokens
                   /\ cursors[table[t].next] # None
                   /\ table[table[t].next] = cursors[table[t].next]
                   /\ table[table[t].next].expires > now
  <2>1. table[t] = cursors[t] /\ table[t] \in Cursors
    BY <1>2, <1>6
  <2>2. cursors[t] # None /\ cursors[t].expires > lastClock
    BY <1>1, <1>3, <1>4, <1>6, <2>1
  <2>3. Chained(t)
    BY <2>2, PagesChainMeans DEF PageInv
  <2>4. ASSUME table[t].next # None
        PROVE  /\ table[t].next \in Tokens
               /\ cursors[table[t].next] # None
               /\ table[table[t].next] = cursors[table[t].next]
               /\ table[table[t].next].expires > now
    <3>1. table[t].next \in Tokens
      BY <1>4, <2>1, <2>4
    <3>2. /\ cursors[table[t].next] # None
          /\ cursors[table[t].next].expires >= table[t].expires
      BY <2>1, <2>3, <2>4 DEF Chained
    <3>3. cursors[table[t].next].expires > now
      BY <1>1, <1>2, <1>4, <1>6, <2>1, <3>1, <3>2
    <3> QED
      BY <1>2, <3>1, <3>2, <3>3
  <2> QED
    BY <2>1, <2>3, <2>4
  \* What the table kept of a live cursor and its successor is still chained.
<1>7. ASSUME NEW t \in Tokens, cursors'[t] # None, cursors'[t].expires > now,
             cursors'[t] = table[t],
             table[t].next # None =>
                /\ cursors'[table[t].next] # None
                /\ cursors'[table[t].next].expires = table[table[t].next].expires
                /\ cursors'[table[t].next].start = table[table[t].next].start
                /\ cursors'[table[t].next].vault = table[table[t].next].vault
                /\ cursors'[table[t].next].end = table[table[t].next].end
                /\ cursors'[table[t].next].size = table[table[t].next].size
      PROVE  Chained(t)'
  <2>1. /\ table[t] = cursors[t] /\ Chained(t)
        /\ table[t].next # None => table[table[t].next] = cursors[table[t].next]
    BY <1>6, <1>7
  <2> QED
    BY <1>1, <1>7, <2>1 DEF Chained
<1>8. CASE NoneMinted(table, now, n)
  <2>1. ASSUME NEW t \in Tokens, cursors'[t] # None, cursors'[t].expires > now
        PROVE  Chained(t)'
    <3>1. cursors'[t] = table[t]
      BY <1>8, <2>1 DEF NoneMinted
    <3>2. table[t].next # None => cursors'[table[t].next] = table[table[t].next]
      <4> SUFFICES ASSUME table[t].next # None
                   PROVE  cursors'[table[t].next] = table[table[t].next]
        OBVIOUS
      <4>1. /\ table[t].next \in Tokens
            /\ table[table[t].next] # None
            /\ table[table[t].next].expires > now
            /\ table[table[t].next] \in Cursors
        BY <1>2, <1>6, <2>1, <3>1
      <4>2. table[table[t].next].expires \in Nat
        BY <1>4, <4>1
      <4> QED
        BY <1>1, <1>8, <4>1, <4>2 DEF NoneMinted
    <3>3. table[t].next # None => table[table[t].next] # None
      BY <1>6, <2>1, <3>1
    <3> QED
      BY <1>7, <2>1, <3>1, <3>2, <3>3
  <2>2. \A t \in Tokens :
           cursors'[t] # None => cursors'[t].expires <= lastClock' + CursorLifetime
    <3> SUFFICES ASSUME NEW t \in Tokens, cursors'[t] # None
                 PROVE  cursors'[t].expires <= lastClock' + CursorLifetime
      OBVIOUS
    <3>1. cursors'[t] = cursors[t]
      BY <1>2, <1>8 DEF NoneMinted
    <3>2. cursors[t].expires \in Nat /\ cursors[t].expires <= lastClock + CursorLifetime
      BY <1>2, <1>4, <3>1
    <3> QED
      BY <1>1, <1>3, <3>1, <3>2
  <2>3. PagesChain'
    BY <1>1, <2>1 DEF PagesChain, Chained
  <2> QED
    BY <2>2, <2>3 DEF PageInv
<1>9. CASE \E u \in Tokens : Minted(table, now, n, u)
  <2>1. PICK u \in Tokens : Minted(table, now, n, u)
    BY <1>9
  <2>2. /\ table[u] = None /\ cursors'[u] \in Cursors
        /\ cursors'[u].expires = now + CursorLifetime /\ cursors'[u].next = None
    BY <2>1 DEF Minted
  \* Every other token keeps its cursor, but for the successor of one.
  <2>3. \A s \in Tokens \ {u} :
           /\ cursors'[s] = None <=> table[s] = None
           /\ table[s] # None =>
                /\ cursors'[s].expires = table[s].expires
                /\ cursors'[s].start = table[s].start
                /\ cursors'[s].vault = table[s].vault
                /\ cursors'[s].end = table[s].end
                /\ cursors'[s].size = table[s].size
    <3>1. CASE Opens(table, u)
      BY <3>1 DEF Opens
    <3>2. CASE \E t \in Tokens \ {u} : Extends(table, now, t, u)
      <4>1. PICK t \in Tokens \ {u} : Extends(table, now, t, u)
        BY <3>2
      <4>2. /\ table[t] \in Cursors
            /\ cursors'[t] = [table[t] EXCEPT !.next = u]
            /\ \A s \in Tokens \ {t, u} : cursors'[s] = table[s]
        BY <1>2, <4>1 DEF Extends
      <4>3. cursors'[t] \in Cursors
        BY <4>2 DEF Cursors
      <4>4. cursors'[t] # None /\ table[t] # None
        BY <4>2, <4>3, NamesAssumption
      <4>5. /\ cursors'[t].expires = table[t].expires
            /\ cursors'[t].start = table[t].start
            /\ cursors'[t].vault = table[t].vault
            /\ cursors'[t].end = table[t].end
            /\ cursors'[t].size = table[t].size
        BY <4>2 DEF Cursors
      <4> QED
        BY <4>2, <4>4, <4>5
    <3> QED
      BY <2>1, <3>1, <3>2 DEF Minted
  <2>4. ASSUME NEW t \in Tokens, t # u, cursors'[t] = table[t],
               cursors'[t] # None, cursors'[t].expires > now
        PROVE  Chained(t)'
    <3>1. table[t].next # None =>
             table[t].next \in Tokens \ {u} /\ table[table[t].next] # None
      BY <1>6, <2>2, <2>4
    <3> QED
      BY <1>7, <2>3, <2>4, <3>1
  <2>5. ASSUME NEW t \in Tokens, cursors'[t] # None, cursors'[t].expires > now
        PROVE  Chained(t)'
    <3>1. CASE Opens(table, u)
      <4>1. CASE t = u
        <5>1. cursors'[u].start < cursors'[u].end
              /\ cursors'[u].end <= Len(patches'[cursors'[u].vault])
          BY <1>1, <1>4, <1>5, <2>2, <3>1 DEF Opens
        <5> QED
          BY <2>2, <4>1, <5>1 DEF Chained
      <4>2. CASE t # u
        BY <2>4, <2>5, <3>1, <4>2 DEF Opens
      <4> QED
        BY <4>1, <4>2
    <3>2. CASE \E s \in Tokens \ {u} : Extends(table, now, s, u)
      <4>1. PICK s \in Tokens \ {u} : Extends(table, now, s, u)
        BY <3>2
      <4>2. /\ table[s] # None /\ table[s].expires > now /\ table[s].next = None
            /\ cursors'[u].start = table[s].start + table[s].size
            /\ cursors'[u].start < table[s].end
            /\ cursors'[u].vault = table[s].vault
            /\ cursors'[u].end = table[s].end /\ cursors'[u].size = table[s].size
            /\ cursors'[s] = [table[s] EXCEPT !.next = u]
            /\ \A q \in Tokens \ {s, u} : cursors'[q] = table[q]
        BY <4>1 DEF Extends
      <4>3. table[s] \in Cursors /\ table[s] = cursors[s] /\ Chained(s)
        BY <1>6, <4>2
      <4>4. /\ table[s].start < table[s].end
            /\ table[s].end <= Len(patches[table[s].vault])
        BY <4>3 DEF Chained
      <4>5. CASE t = u
        <5>1. /\ cursors'[u].start < cursors'[u].end
              /\ cursors'[u].end <= Len(patches'[cursors'[u].vault])
          BY <1>1, <4>2, <4>4
        <5> QED
          BY <2>2, <4>5, <5>1 DEF Chained
      <4>6. CASE t = s
        <5>1. cursors'[s].next = u
          BY <4>2, <4>3 DEF Cursors
        <5>2. cursors'[u] # None
          BY <2>2, NamesAssumption
        <5>3. /\ cursors'[s].start = table[s].start /\ cursors'[s].end = table[s].end
              /\ cursors'[s].vault = table[s].vault /\ cursors'[s].size = table[s].size
              /\ cursors'[s].expires = table[s].expires
          BY <2>3, <4>2
        <5>4. cursors'[u].expires >= cursors'[s].expires
          <6>1. /\ table[s].expires <= lastClock + CursorLifetime
                /\ table[s].expires \in Nat
            BY <1>2, <1>4, <4>2, <4>3
          <6> QED
            BY <1>1, <1>3, <2>2, <5>3, <6>1
        <5>5. /\ cursors'[s].start < cursors'[s].end
              /\ cursors'[s].end <= Len(patches'[cursors'[s].vault])
              /\ cursors'[u].start = cursors'[s].start + cursors'[s].size
              /\ cursors'[u].vault = cursors'[s].vault
              /\ cursors'[u].end = cursors'[s].end
              /\ cursors'[u].size = cursors'[s].size
          BY <1>1, <4>2, <4>4, <5>3
        <5> QED
          BY <4>6, <5>1, <5>2, <5>4, <5>5 DEF Chained
      <4>7. CASE t \notin {s, u}
        BY <2>4, <2>5, <4>2, <4>7
      <4> QED
        BY <4>5, <4>6, <4>7
    <3> QED
      BY <2>1, <3>1, <3>2 DEF Minted
  <2>6. \A t \in Tokens :
           cursors'[t] # None => cursors'[t].expires <= lastClock' + CursorLifetime
    <3> SUFFICES ASSUME NEW t \in Tokens, cursors'[t] # None
                 PROVE  cursors'[t].expires <= lastClock' + CursorLifetime
      OBVIOUS
    <3>1. CASE t = u
      BY <1>1, <1>3, <2>2, <3>1
    <3>2. CASE t # u
      <4>1. cursors'[t].expires = cursors[t].expires /\ cursors[t] # None
        BY <1>2, <2>3, <3>2
      <4>2. cursors[t].expires \in Nat /\ cursors[t].expires <= lastClock + CursorLifetime
        BY <1>2, <1>4, <4>1
      <4> QED
        BY <1>1, <1>3, <4>1, <4>2
    <3> QED
      BY <3>1, <3>2
  <2>7. PagesChain'
    BY <1>1, <2>5 DEF PagesChain, Chained
  <2> QED
    BY <2>6, <2>7 DEF PageInv
<1> QED
  BY <1>1, <1>8, <1>9, CursorOutcomes DEF table

\* A listing is resumable and contiguous while its cursors live (_page).
THEOREM ListingsAreContiguous == Spec => []PagesChain
<1>1. Init => PageInv
  BY DEF Init, PageInv, PagesChain
<1>2. TypeOK /\ PageInv /\ [Next]_vars => PageInv'
  <2> SUFFICES ASSUME TypeOK, PageInv, [Next]_vars PROVE PageInv'
    OBVIOUS
  <2>1. CASE UNCHANGED vars
    BY <2>1 DEF PageInv, PagesChain, vars, writeVars, cursorVars
  <2> QED
    BY <2>1, StepCases, WritesKeepPages, ListingsKeepPages
<1>3. PageInv => PagesChain
  BY DEF PageInv
<1> QED
  BY <1>1, <1>2, <1>3, TypeCorrect, PTL DEF Spec
-----------------------------------------------------------------------------
(***************************************************************************)
(* Nothing that expires is leaked: ExpiriesAreScheduled.                   *)
(***************************************************************************)
ReceiptsScheduled ==
    \A v \in Vaults, k \in Scopes \X Keys :
        receipts[v][k] # None =>
            Within([at |-> receipts[v][k].expires, vault |-> v, key |-> k], receiptHeap)
CursorsScheduled ==
    \A t \in Tokens :
        cursors[t] # None =>
            Within([at |-> cursors[t].expires, token |-> t], cursorHeap)

\* A receipt that pruning leaves has its entry behind the popped ones.
LEMMA PrunedReceiptsScheduled ==
    ASSUME TypeOK, ReceiptsScheduled, NEW now \in Times, NEW n \in Nat,
           n <= Len(receiptHeap), \A i \in 1 .. n : receiptHeap[i].at <= now,
           NEW v \in Vaults, NEW k \in Scopes \X Keys,
           ReceiptsAfterPrune(now, n)[v][k] # None
    PROVE  /\ ReceiptsAfterPrune(now, n)[v][k] = receipts[v][k]
           /\ Within([at |-> receipts[v][k].expires, vault |-> v, key |-> k],
                     HeapRest(receiptHeap, n))
<1>1. ReceiptsAfterPrune(now, n)[v][k] = receipts[v][k] /\ receipts[v][k] # None
  BY PrunedReceipts
<1> DEFINE entry == [at |-> receipts[v][k].expires, vault |-> v, key |-> k]
<1>2. PICK j \in 1 .. Len(receiptHeap) : receiptHeap[j] = entry
  BY <1>1 DEF ReceiptsScheduled, Within
<1>3. receiptHeap \in Seq(ReceiptEntries) /\ Len(receiptHeap) \in Nat
  BY LenProperties DEF TypeOK, ReceiptEntries
<1>4. j > n
  <2> SUFFICES ASSUME j \in 1 .. n PROVE FALSE
    BY <1>3
  <2>1. /\ receiptHeap[j].at <= now /\ receiptHeap[j].at = receipts[v][k].expires
        /\ receiptHeap[j].vault = v /\ receiptHeap[j].key = k
    BY <1>2
  <2>2. ReceiptsAfterPrune(now, n)[v][k] = None
    BY <1>1, <2>1 DEF ReceiptsAfterPrune
  <2> QED
    BY <2>2
<1>5. j \in n + 1 .. Len(receiptHeap)
  BY <1>3, <1>4
<1> QED
  BY <1>1, <1>2, <1>3, <1>5, HeapRestKeeps

\* A cursor that pruning leaves has its entry behind the popped ones.
LEMMA PrunedCursorsScheduled ==
    ASSUME TypeOK, CursorsScheduled, NEW now \in Times, NEW n \in Nat,
           n <= Len(cursorHeap), \A i \in 1 .. n : cursorHeap[i].at <= now,
           NEW t \in Tokens, CursorsAfterPrune(now, n)[t] # None
    PROVE  /\ CursorsAfterPrune(now, n)[t] = cursors[t]
           /\ Within([at |-> cursors[t].expires, token |-> t],
                     HeapRest(cursorHeap, n))
<1>1. CursorsAfterPrune(now, n)[t] = cursors[t] /\ cursors[t] # None
  BY PrunedCursors
<1> DEFINE entry == [at |-> cursors[t].expires, token |-> t]
<1>2. PICK j \in 1 .. Len(cursorHeap) : cursorHeap[j] = entry
  BY <1>1 DEF CursorsScheduled, Within
<1>3. cursorHeap \in Seq(CursorEntries) /\ Len(cursorHeap) \in Nat
  BY LenProperties DEF TypeOK, CursorEntries
<1>4. j > n
  <2> SUFFICES ASSUME j \in 1 .. n PROVE FALSE
    BY <1>3
  <2>1. /\ cursorHeap[j].at <= now /\ cursorHeap[j].at = cursors[t].expires
        /\ cursorHeap[j].token = t
    BY <1>2
  <2>2. CursorsAfterPrune(now, n)[t] = None
    BY <1>1, <2>1 DEF CursorsAfterPrune
  <2> QED
    BY <2>2
<1>5. j \in n + 1 .. Len(cursorHeap)
  BY <1>3, <1>4
<1> QED
  BY <1>1, <1>2, <1>3, <1>5, HeapRestKeeps

\* What is within a heap is within it after a push.
LEMMA PushedIsWithin ==
    ASSUME NEW S, NEW heap \in Seq(S), NEW entry \in S, NEW other, Within(other, heap)
    PROVE  Within(other, HeapPush(heap, entry))
<1>1. PICK j \in 1 .. Len(heap) : heap[j] = other
  BY DEF Within
<1> QED
  BY <1>1, HeapPushKeeps

LEMMA WritesSchedule ==
    ASSUME TypeOK, RegistersAreChains, ReceiptsScheduled,
           NEW r \in Requests, NEW now \in Times,
           NEW n \in 0 .. MaxReceiptPrune, Write(r, now, n)
    PROVE  ReceiptsScheduled'
<1>1. /\ n \in Nat /\ n <= Len(receiptHeap)
      /\ \A i \in 1 .. n : receiptHeap[i].at <= now
  BY WriteClock
<1>2. HeapRest(receiptHeap, n) \in Seq(ReceiptEntries)
  BY <1>1, HeapRestType DEF TypeOK, ReceiptEntries
<1> SUFFICES ASSUME NEW v \in Vaults, NEW k \in Scopes \X Keys, receipts'[v][k] # None
             PROVE  Within([at |-> receipts'[v][k].expires, vault |-> v, key |-> k],
                           receiptHeap')
  BY DEF ReceiptsScheduled, Within
<1> DEFINE entry == [at |-> receipts[v][k].expires, vault |-> v, key |-> k]
           fresh == [at |-> now + ReceiptLifetime, vault |-> r.vault,
                     key |-> ReceiptKey(r)]
<1>3. fresh \in ReceiptEntries
  BY NumbersAssumption, RequestType DEF ReceiptEntries
<1>4. receiptHeap' \in {HeapRest(receiptHeap, n),
                        HeapPush(HeapRest(receiptHeap, n), fresh)}
  BY <1>1, ReceiptOutcomes DEF Record
<1> HIDE DEF fresh
<1>5. CASE receipts'[v][k] = ReceiptsAfterPrune(now, n)[v][k]
  <2>1. receipts'[v][k] = receipts[v][k] /\ Within(entry, HeapRest(receiptHeap, n))
    BY <1>1, <1>5, PrunedReceiptsScheduled
  <2> QED
    BY <1>2, <1>3, <1>4, <2>1, PushedIsWithin
<1>6. CASE receipts'[v][k] # ReceiptsAfterPrune(now, n)[v][k]
  <2>1. /\ v = r.vault /\ k = ReceiptKey(r)
        /\ receipts'[v][k].expires = now + ReceiptLifetime
    <3>1. /\ v = r.vault /\ k = ReceiptKey(r)
          /\ receipts'[v][k] = [attempt |-> Attempt(r), response |-> r.envelope,
                                expires |-> now + ReceiptLifetime]
      BY <1>1, <1>6, ReceiptsAfterWrite
    <3> QED
      BY <3>1
  <2>2. receiptHeap' = HeapPush(HeapRest(receiptHeap, n), fresh)
    <3>1. ReceiptsAfterPrune(now, n) \in ReceiptTable
      BY <1>1, SetReceiptType
    <3>2. SetReceipt(r, now, n, None)[v][k] = None
      BY <2>1, <3>1 DEF SetReceipt, ReceiptTable
    <3> QED
      BY <1>1, <1>6, <3>2, ReceiptOutcomes DEF Record, fresh
  <2>3. Within(fresh, receiptHeap')
    BY <1>2, <1>3, <2>2, HeapPushKeeps
  <2> QED
    BY <2>1, <2>3 DEF fresh
<1> QED
  BY <1>5, <1>6

LEMMA ListingsSchedule ==
    ASSUME TypeOK, CursorsScheduled, NEW v \in Vaults, NEW now \in Times,
           NEW n \in 0 .. MaxCursorPrune, Listing(v, now, n)
    PROVE  CursorsScheduled'
<1> DEFINE table == CursorsAfterPrune(now, n)
           rest == HeapRest(cursorHeap, n)
<1>1. /\ n \in Nat /\ n <= Len(cursorHeap)
      /\ \A i \in 1 .. n : cursorHeap[i].at <= now
  BY ListingClock
<1>2. rest \in Seq(CursorEntries)
  BY <1>1, HeapRestType DEF TypeOK, CursorEntries
<1>3. \A t \in Tokens : table[t] # None =>
         Within([at |-> table[t].expires, token |-> t], rest)
  BY <1>1, PrunedCursorsScheduled
<1>4. table \in CursorTable
  BY <1>1, PrunedCursors
<1>5. CASE NoneMinted(table, now, n)
  <2> HIDE DEF table
  <2>1. ASSUME NEW t \in Tokens, cursors'[t] # None
        PROVE  Within([at |-> cursors'[t].expires, token |-> t], cursorHeap')
    BY <1>3, <1>5, <2>1 DEF NoneMinted
  <2> QED
    BY <2>1 DEF CursorsScheduled, Within
<1>6. CASE \E u \in Tokens : Minted(table, now, n, u)
  <2>1. PICK u \in Tokens : Minted(table, now, n, u)
    BY <1>6
  <2> DEFINE fresh == [at |-> cursors'[u].expires, token |-> u]
  <2>2. cursors'[u] \in Cursors /\ cursorHeap' = HeapPush(rest, fresh)
    BY <2>1 DEF Minted
  <2>3. fresh \in CursorEntries
    BY <2>2 DEF Cursors, CursorEntries
  <2> HIDE DEF table, rest, fresh
  <2>4. ASSUME NEW t \in Tokens \ {u}, cursors'[t] # None
        PROVE  table[t] # None /\ cursors'[t].expires = table[t].expires
    <3>1. CASE cursors'[t] = table[t]
      BY <2>4, <3>1
    <3>2. CASE table[t] # None /\ cursors'[t] = [table[t] EXCEPT !.next = u]
      <4>1. table[t] \in Cursors
        BY <1>4, <3>2 DEF CursorTable
      <4> QED
        BY <3>2, <4>1 DEF Cursors
    <3> QED
      BY <2>1, <2>4, <3>1, <3>2 DEF Minted, Opens, Extends
  <2>5. ASSUME NEW t \in Tokens, cursors'[t] # None
        PROVE  Within([at |-> cursors'[t].expires, token |-> t], cursorHeap')
    <3>1. CASE t = u
      <4>1. Within(fresh, HeapPush(rest, fresh))
        BY <1>2, <2>3, HeapPushKeeps
      <4> QED
        BY <2>2, <3>1, <4>1 DEF fresh
    <3>2. CASE t # u
      <4>1. Within([at |-> cursors'[t].expires, token |-> t], rest)
        BY <1>3, <2>4, <2>5, <3>2
      <4> QED
        BY <1>2, <2>2, <2>3, <4>1, PushedIsWithin
    <3> QED
      BY <3>1, <3>2
  <2> QED
    BY <2>5 DEF CursorsScheduled, Within
<1> QED
  BY <1>1, <1>5, <1>6, CursorOutcomes

\* Each receipt and each cursor has its entry in its heap at the time it
\* expires, however many due entries the bounded prunings leave behind.
THEOREM NothingIsLeaked == Spec => []ExpiriesAreScheduled
<1>1. Init => ReceiptsScheduled /\ CursorsScheduled
  BY DEF Init, ReceiptsScheduled, CursorsScheduled
<1>2. TypeOK /\ RegistersAreChains /\ ReceiptsScheduled /\ CursorsScheduled /\ [Next]_vars
      => ReceiptsScheduled' /\ CursorsScheduled'
  <2> SUFFICES ASSUME TypeOK, RegistersAreChains, ReceiptsScheduled,
                      CursorsScheduled, [Next]_vars
               PROVE  ReceiptsScheduled' /\ CursorsScheduled'
    OBVIOUS
  <2>1. UNCHANGED <<receipts, receiptHeap>> => ReceiptsScheduled'
    BY DEF ReceiptsScheduled, Within
  <2>2. UNCHANGED <<cursors, cursorHeap>> => CursorsScheduled'
    BY DEF CursorsScheduled, Within
  <2>3. CASE UNCHANGED vars
    BY <2>1, <2>2, <2>3 DEF vars, writeVars, cursorVars
  <2>4. ASSUME NEW r \in Requests, NEW now \in Times,
               NEW n \in 0 .. MaxReceiptPrune, Write(r, now, n)
        PROVE  ReceiptsScheduled' /\ CursorsScheduled'
    BY <2>2, <2>4, WriteClock, WritesSchedule
  <2>5. ASSUME NEW v \in Vaults, NEW now \in Times, NEW n \in 0 .. MaxCursorPrune,
               Listing(v, now, n)
        PROVE  ReceiptsScheduled' /\ CursorsScheduled'
    BY <2>1, <2>5, ListingClock, ListingsSchedule
  <2> QED
    BY <2>3, <2>4, <2>5, StepCases
<1>3. HeadIsLatest => RegistersAreChains
  BY DEF HeadIsLatest
<1>4. ReceiptsScheduled /\ CursorsScheduled => ExpiriesAreScheduled
  BY DEF ReceiptsScheduled, CursorsScheduled, ExpiriesAreScheduled, Within
<1> QED
  BY <1>1, <1>2, <1>3, <1>4, TypeCorrect, NoUpdateIsLost, PTL DEF Spec
-----------------------------------------------------------------------------
(***************************************************************************)
(* The counters: UsageIsExact.  What is stored is counted as sets of       *)
(* places, so each write adds one revision, the bytes of it, and perhaps a *)
(* vault, an object or a patch, all of them new.                           *)
(***************************************************************************)
AllBytes == UNION {BytesOf(a) : a \in Accounts}

CountInv ==
    /\ IsFiniteSet(retained) /\ IsFiniteSet(AllBytes)
    /\ \A a \in Accounts :
          /\ IsFiniteSet(ObjectsOf(a)) /\ IsFiniteSet(RevisionsOf(a))
          /\ IsFiniteSet(BytesOf(a))
    /\ UsageIsExact

Commit(r, now, n) ==
    \/ r.scope # "patches" /\ CommitRegister(r, now, n)
    \/ r.scope = "patches" /\ CommitPatch(r, now, n)

\* The place a committed envelope takes, and its bytes.
Place(r) == <<r.vault, r.scope, r.envelope>>
Block(r) == {Place(r)} \X (1 .. Size[r.envelope.body])

LEMMA BlockSize ==
    ASSUME NEW z, NEW n \in Nat
    PROVE  IsFiniteSet({z} \X (1 .. n)) /\ Cardinality({z} \X (1 .. n)) = n
<1> DEFINE f == [i \in 1 .. n |-> <<z, i>>]
<1>1. IsFiniteSet(1 .. n) /\ Cardinality(1 .. n) = n
  BY FS_Interval
<1>2. /\ f \in [1 .. n -> {z} \X (1 .. n)]
      /\ \A i, j \in 1 .. n : f[i] = f[j] => i = j
      /\ \A y \in {z} \X (1 .. n) : \E i \in 1 .. n : f[i] = y
  OBVIOUS
<1> HIDE DEF f
<1>3. ExistsBijection(1 .. n, {z} \X (1 .. n))
  BY <1>2, Fun_IsBij, Fun_ExistsBij
<1> QED
  BY <1>1, <1>3, FS_Bijection

LEMMA Disjoint ==
    ASSUME NEW S, IsFiniteSet(S), NEW T, IsFiniteSet(T), S \cap T = {}
    PROVE  IsFiniteSet(S \cup T) /\ Cardinality(S \cup T) = Cardinality(S) + Cardinality(T)
<1>1. Cardinality(S \cap T) = 0
  BY FS_EmptySet
<1>2. Cardinality(S) \in Nat /\ Cardinality(T) \in Nat
  BY FS_CardinalityType
<1>3. IsFiniteSet(S \cup T)
      /\ Cardinality(S \cup T) = Cardinality(S) + Cardinality(T) - Cardinality(S \cap T)
  BY FS_Union
<1> QED
  BY <1>1, <1>2, <1>3

\* A commit adds its envelope to one scope, where it was not, and counts it.
LEMMA CommitStores ==
    ASSUME TypeOK, HeadIsLatest, NEW r \in Requests, NEW now \in Times, NEW n \in Nat,
           Commit(r, now, n)
    PROVE  /\ r.envelope \notin Stored(r.vault, r.scope)
           /\ \A v \in Vaults, s \in Scopes :
                 Stored(v, s)' = IF v = r.vault /\ s = r.scope
                                 THEN Stored(v, s) \cup {r.envelope} ELSE Stored(v, s)
           /\ \A v \in Vaults, o \in Objects :
                 current'[v][o] = IF v = r.vault /\ o = r.scope
                                  THEN r.envelope ELSE current[v][o]
           /\ Retain(r) /\ HasCapacity(r)
<1>1. /\ r.vault \in Vaults /\ r.scope \in Scopes /\ r.envelope \in Envelopes
      /\ "patches" \notin Registers /\ Objects \subseteq Registers
  BY RequestType, NamesAssumption DEF Registers
<1>2. Retain(r) /\ HasCapacity(r) /\ SameRevision(r) = {} /\ ~HistoricalRevision(r)
  BY DEF Commit, CommitRegister, CommitPatch, Acceptable
<1>3. CASE r.scope # "patches" /\ CommitRegister(r, now, n)
  <2>1. r.scope \in Registers
    BY <1>1, <1>3 DEF Scopes
  <2>2. r.envelope \notin Stored(r.vault, r.scope)
    BY <1>2, <1>3 DEF HistoricalRevision, Stored
  <2>3. /\ patches' = patches
        /\ history' = [history EXCEPT ![r.vault][r.scope] = @ \cup {r.envelope}]
        /\ current' = [current EXCEPT ![r.vault][r.scope] = r.envelope]
    BY <1>3 DEF CommitRegister
  <2>4. \A v \in Vaults, s \in Registers :
           /\ history'[v][s] = IF v = r.vault /\ s = r.scope
                               THEN history[v][s] \cup {r.envelope} ELSE history[v][s]
           /\ current'[v][s] = IF v = r.vault /\ s = r.scope
                               THEN r.envelope ELSE current[v][s]
    BY <1>1, <2>1, <2>3 DEF TypeOK
  <2>5. ASSUME NEW v \in Vaults, NEW s \in Scopes
        PROVE  Stored(v, s)' = IF v = r.vault /\ s = r.scope
                               THEN Stored(v, s) \cup {r.envelope} ELSE Stored(v, s)
    <3>1. CASE s = "patches"
      BY <1>3, <2>3, <3>1 DEF Stored
    <3>2. CASE s # "patches"
      <4>1. s \in Registers
        BY <3>2 DEF Scopes
      <4> QED
        BY <2>4, <3>2, <4>1 DEF Stored
    <3> QED
      BY <3>1, <3>2
  <2> QED
    BY <1>1, <1>2, <2>2, <2>4, <2>5
<1>4. CASE r.scope = "patches" /\ CommitPatch(r, now, n)
  <2>1. /\ current' = current /\ history' = history
        /\ patches' = [patches EXCEPT ![r.vault] = Append(@, r.envelope)]
    BY <1>4 DEF CommitPatch
  <2> DEFINE log == patches[r.vault]
             more == Append(log, r.envelope)
  <2>2. log \in Seq(Envelopes) /\ Len(log) \in Nat
    BY <1>1, LenProperties DEF TypeOK
  <2>3. /\ Len(more) = Len(log) + 1 /\ more[Len(log) + 1] = r.envelope
        /\ \A i \in 1 .. Len(log) : more[i] = log[i]
    BY <1>1, <2>2, AppendProperties
  <2>4. patches'[r.vault] = more
        /\ \A v \in Vaults : v # r.vault => patches'[v] = patches[v]
    BY <1>1, <2>1 DEF TypeOK
  <2>5. r.envelope \notin Stored(r.vault, r.scope)
    BY <1>2, <1>4 DEF SameRevision, Resubmittable, Stored
  <2>6. {more[i] : i \in 1 .. Len(more)} = {log[i] : i \in 1 .. Len(log)} \cup {r.envelope}
    <3> HIDE DEF more, log
    <3>1. \A i \in 1 .. Len(more) : i \in 1 .. Len(log) \/ i = Len(log) + 1
      BY <2>2, <2>3
    <3>2. \A i \in 1 .. Len(log) : i \in 1 .. Len(more)
      BY <2>2, <2>3
    <3>3. Len(log) + 1 \in 1 .. Len(more)
      BY <2>2, <2>3
    <3> QED
      BY <2>3, <3>1, <3>2, <3>3
  <2>7. ASSUME NEW v \in Vaults, NEW s \in Scopes
        PROVE  Stored(v, s)' = IF v = r.vault /\ s = r.scope
                               THEN Stored(v, s) \cup {r.envelope} ELSE Stored(v, s)
    <3>1. CASE s = "patches" /\ v = r.vault
      <4>1. Stored(v, s)' = {more[i] : i \in 1 .. Len(more)}
        BY <2>4, <3>1 DEF Stored
      <4> HIDE DEF more
      <4> QED
        BY <1>4, <2>6, <3>1, <4>1 DEF Stored
    <3>2. CASE s = "patches" /\ v # r.vault
      BY <2>4, <3>2 DEF Stored
    <3>3. CASE s # "patches"
      BY <1>4, <2>1, <3>3 DEF Stored
    <3> QED
      BY <3>1, <3>2, <3>3
  <2>8. \A o \in Objects : o # r.scope
    BY <1>1, <1>4
  <2> QED
    BY <1>2, <2>1, <2>5, <2>7, <2>8
<1> QED
  BY <1>3, <1>4 DEF Commit

\* What a commit adds to the sets that are counted.
LEMMA CommitAdds ==
    ASSUME TypeOK, HeadIsLatest, CountInv, NEW r \in Requests, NEW now \in Times,
           NEW n \in Nat, Commit(r, now, n), NEW a \in Accounts
    PROVE  LET own == a = r.vault[1] IN
           /\ VaultsOf(a)' = VaultsOf(a) \cup (IF own THEN {r.vault} ELSE {})
           /\ RevisionsOf(a)' = RevisionsOf(a) \cup (IF own THEN {Place(r)} ELSE {})
           /\ ObjectsOf(a)' = ObjectsOf(a) \cup (IF own /\ r.scope \in Objects
                                                THEN {<<r.vault, r.scope>>} ELSE {})
           /\ BytesOf(a)' = BytesOf(a) \cup (IF own THEN Block(r) ELSE {})
           /\ Place(r) \notin RevisionsOf(a)
<1>1. /\ r.vault \in Vaults /\ r.scope \in Scopes /\ r.envelope \in Envelopes
      /\ retained \in SUBSET Vaults /\ retained' = retained \cup {r.vault}
  BY RequestType, CommitStores DEF TypeOK, Retain
<1>2. /\ r.envelope \notin Stored(r.vault, r.scope)
      /\ \A v \in Vaults, s \in Scopes :
            Stored(v, s)' = IF v = r.vault /\ s = r.scope
                            THEN Stored(v, s) \cup {r.envelope} ELSE Stored(v, s)
      /\ \A v \in Vaults, o \in Objects :
            current'[v][o] = IF v = r.vault /\ o = r.scope
                             THEN r.envelope ELSE current[v][o]
  BY CommitStores
<1>3. \A v \in Vaults, s \in Scopes : Stored(v, s) # {} => v \in retained
  BY DEF CountInv, UsageIsExact
<1>4. VaultsOf(a)' = VaultsOf(a) \cup (IF a = r.vault[1] THEN {r.vault} ELSE {})
  BY <1>1 DEF VaultsOf
<1>5. \A z : z \in RevisionsOf(a) <=> \E v \in Vaults, s \in Scopes : \E e \in Stored(v, s) :
                                         v[1] = a /\ z = <<v, s, e>>
  <2>1. \A z : z \in RevisionsOf(a) <=> \E v \in VaultsOf(a), s \in Scopes :
                                          \E e \in Stored(v, s) : z = <<v, s, e>>
    <3> DEFINE At(v, s) == {<<v, s, e>> : e \in Stored(v, s)}
    <3>1. RevisionsOf(a) = UNION {At(v, s) : v \in VaultsOf(a), s \in Scopes}
      BY DEF RevisionsOf
    <3>2. \A v, s, z : z \in At(v, s) <=> \E e \in Stored(v, s) : z = <<v, s, e>>
      OBVIOUS
    <3> HIDE DEF At
    <3>3. \A z : z \in UNION {At(v, s) : v \in VaultsOf(a), s \in Scopes} <=>
                   \E v \in VaultsOf(a), s \in Scopes : z \in At(v, s)
      OBVIOUS
    <3> QED
      BY <3>1, <3>2, <3>3
  <2>2. \A v : v \in VaultsOf(a) <=> v \in retained /\ v[1] = a
    BY DEF VaultsOf
  <2>3. \A v \in VaultsOf(a) : v \in Vaults
    BY <1>1, <2>2
  <2> QED
    BY <1>3, <2>1, <2>2, <2>3
<1>6. \A z : z \in RevisionsOf(a)' <=> \E v \in Vaults, s \in Scopes : \E e \in Stored(v, s)' :
                                          v[1] = a /\ z = <<v, s, e>>
  <2>1. \A v \in Vaults, s \in Scopes : Stored(v, s)' # {} => v \in retained'
    BY <1>1, <1>2, <1>3
  <2>2. \A z : z \in RevisionsOf(a)' <=> \E v \in VaultsOf(a)', s \in Scopes :
                                           \E e \in Stored(v, s)' : z = <<v, s, e>>
    <3> DEFINE At(v, s) == {<<v, s, e>> : e \in Stored(v, s)'}
    <3>1. RevisionsOf(a)' = UNION {At(v, s) : v \in VaultsOf(a)', s \in Scopes}
      BY DEF RevisionsOf
    <3>2. \A v, s, z : z \in At(v, s) <=> \E e \in Stored(v, s)' : z = <<v, s, e>>
      OBVIOUS
    <3> HIDE DEF At
    <3>3. \A z : z \in UNION {At(v, s) : v \in VaultsOf(a)', s \in Scopes} <=>
                   \E v \in VaultsOf(a)', s \in Scopes : z \in At(v, s)
      OBVIOUS
    <3> QED
      BY <3>1, <3>2, <3>3
  <2>3. \A v : v \in VaultsOf(a)' <=> v \in retained' /\ v[1] = a
    BY DEF VaultsOf
  <2>4. \A v \in VaultsOf(a)' : v \in Vaults
    BY <1>1, <2>3
  <2> QED
    BY <2>1, <2>2, <2>3, <2>4
<1>7. Place(r) \notin RevisionsOf(a)
  BY <1>2, <1>5 DEF Place
<1>8. RevisionsOf(a)' = RevisionsOf(a) \cup (IF a = r.vault[1] THEN {Place(r)} ELSE {})
  <2>1. ASSUME NEW z \in RevisionsOf(a)'
        PROVE  z \in RevisionsOf(a) \/ (a = r.vault[1] /\ z = Place(r))
    <3>0. PICK v \in Vaults, s \in Scopes :
             \E e \in Stored(v, s)' : v[1] = a /\ z = <<v, s, e>>
      BY <1>6
    <3>1. PICK e \in Stored(v, s)' : v[1] = a /\ z = <<v, s, e>>
      BY <3>0
    <3>2. e \in Stored(v, s) \/ (v = r.vault /\ s = r.scope /\ e = r.envelope)
      BY <1>2, <3>1
    <3> QED
      BY <1>5, <3>1, <3>2 DEF Place
  <2>2. ASSUME NEW z \in RevisionsOf(a)
        PROVE  z \in RevisionsOf(a)'
    <3>0. PICK v \in Vaults, s \in Scopes :
             \E e \in Stored(v, s) : v[1] = a /\ z = <<v, s, e>>
      BY <1>5
    <3>1. PICK e \in Stored(v, s) : v[1] = a /\ z = <<v, s, e>>
      BY <3>0
    <3>2. e \in Stored(v, s)'
      BY <1>2, <3>1
    <3> QED
      BY <1>6, <3>1, <3>2
  <2>3. a = r.vault[1] => Place(r) \in RevisionsOf(a)'
    <3>1. r.envelope \in Stored(r.vault, r.scope)'
      BY <1>1, <1>2
    <3> QED
      BY <1>1, <1>6, <3>1 DEF Place
  <2> QED
    BY <2>1, <2>2, <2>3
<1>9. BytesOf(a)' = BytesOf(a) \cup (IF a = r.vault[1] THEN Block(r) ELSE {})
  <2>1. Place(r)[3] = r.envelope
    BY DEF Place
  <2> QED
    BY <1>8, <2>1 DEF BytesOf, Block
<1>10. ObjectsOf(a)' = ObjectsOf(a) \cup (IF a = r.vault[1] /\ r.scope \in Objects
                                         THEN {<<r.vault, r.scope>>} ELSE {})
  <2>1. \A v \in Vaults, o \in Objects : current[v][o] # None => v \in retained
    <3> SUFFICES ASSUME NEW v \in Vaults, NEW o \in Objects, current[v][o] # None
                 PROVE  v \in retained
      OBVIOUS
    <3>1. o \in Registers /\ o \in Scopes /\ o # "patches"
      BY NamesAssumption DEF Registers, Scopes
    <3>2. current[v][o] \in Stored(v, o)
      BY <3>1 DEF HeadIsLatest, RegistersAreChains, Stored
    <3> QED
      BY <1>3, <3>1, <3>2
  <2>2. r.envelope # None
    BY <1>1, NamesAssumption
  <2>3. \A z : z \in ObjectsOf(a) <=> \E v \in Vaults, o \in Objects :
                  v[1] = a /\ current[v][o] # None /\ z = <<v, o>>
    <3>1. \A z : z \in ObjectsOf(a) <=>
             z \in VaultsOf(a) \X Objects /\ current[z[1]][z[2]] # None
      BY DEF ObjectsOf
    <3> QED
      BY <1>1, <2>1, <3>1 DEF VaultsOf
  <2>4. \A v \in Vaults, o \in Objects : current'[v][o] # None => v \in retained'
    BY <1>1, <1>2, <2>1
  <2>5. \A z : z \in ObjectsOf(a)' <=> \E v \in Vaults, o \in Objects :
                  v[1] = a /\ current'[v][o] # None /\ z = <<v, o>>
    <3>1. \A z : z \in ObjectsOf(a)' <=>
             z \in VaultsOf(a)' \X Objects /\ current'[z[1]][z[2]] # None
      BY DEF ObjectsOf
    <3>2. retained' \in SUBSET Vaults
      BY <1>1
    <3> QED
      BY <2>4, <3>1, <3>2 DEF VaultsOf
  <2>6. ASSUME NEW z
        PROVE  z \in ObjectsOf(a)' <=> \/ z \in ObjectsOf(a)
                                       \/ /\ a = r.vault[1] /\ r.scope \in Objects
                                          /\ z = <<r.vault, r.scope>>
    <3>1. \A v \in Vaults, o \in Objects :
             current'[v][o] # None <=> current[v][o] # None \/ (v = r.vault /\ o = r.scope)
      BY <1>2, <2>2
    <3> QED
      BY <1>1, <2>3, <2>5, <3>1
  <2> QED
    BY <2>6
<1> QED
  BY <1>4, <1>7, <1>8, <1>9, <1>10

LEMMA CommitCounts ==
    ASSUME TypeOK, HeadIsLatest, CountInv, NEW r \in Requests, NEW now \in Times,
           NEW n \in Nat, Commit(r, now, n)
    PROVE  CountInv'
<1> DEFINE own == r.vault[1]
           size == Size[r.envelope.body]
           d == CapacityDelta(r)
<1>1. /\ r.vault \in Vaults /\ r.scope \in Scopes /\ r.envelope \in Envelopes
      /\ own \in Accounts /\ size \in Nat
      /\ Retain(r) /\ HasCapacity(r)
      /\ usage \in [Accounts -> Usage] /\ retained \in SUBSET Vaults
  BY RequestType, CommitStores, NumbersAssumption DEF TypeOK, Vaults, Envelopes
<1>2. \A a \in Accounts :
         /\ VaultsOf(a)' = VaultsOf(a) \cup (IF a = own THEN {r.vault} ELSE {})
         /\ RevisionsOf(a)' = RevisionsOf(a) \cup (IF a = own THEN {Place(r)} ELSE {})
         /\ ObjectsOf(a)' = ObjectsOf(a) \cup (IF a = own /\ r.scope \in Objects
                                              THEN {<<r.vault, r.scope>>} ELSE {})
         /\ BytesOf(a)' = BytesOf(a) \cup (IF a = own THEN Block(r) ELSE {})
         /\ Place(r) \notin RevisionsOf(a)
  BY CommitAdds
<1>3. /\ IsFiniteSet(retained) /\ IsFiniteSet(AllBytes)
      /\ \A a \in Accounts : /\ IsFiniteSet(ObjectsOf(a)) /\ IsFiniteSet(RevisionsOf(a))
                             /\ IsFiniteSet(BytesOf(a)) /\ IsFiniteSet(VaultsOf(a))
  <2>1. \A a : VaultsOf(a) \in SUBSET retained
    BY DEF VaultsOf
  <2> QED
    BY <2>1, FS_Subset DEF CountInv
<1>4. IsFiniteSet(Block(r)) /\ Cardinality(Block(r)) = size
  BY <1>1, BlockSize DEF Block
<1>5. \A a \in Accounts : BytesOf(a) \cap Block(r) = {}
  BY <1>2 DEF BytesOf, Block
<1>6. AllBytes' = AllBytes \cup Block(r) /\ AllBytes \cap Block(r) = {}
  BY <1>1, <1>2, <1>5 DEF AllBytes
<1>7. IsFiniteSet(AllBytes') /\ Cardinality(AllBytes') = Cardinality(AllBytes) + size
  <2>1. /\ IsFiniteSet(AllBytes \cup Block(r))
        /\ Cardinality(AllBytes \cup Block(r)) = Cardinality(AllBytes) + Cardinality(Block(r))
    BY <1>3, <1>4, <1>6, Disjoint
  <2> QED
    BY <1>4, <1>6, <2>1
<1>8. retained' = retained \cup {r.vault} /\ retainedBytes' = retainedBytes + size
      /\ usage' = [usage EXCEPT ![own] = AddUsage(usage[own], d)]
  BY <1>1 DEF Retain
<1>9. /\ d.vaults = IF r.vault \in retained THEN 0 ELSE 1
      /\ d.objects = IF r.scope \in Objects /\ HeadOf(r) = None THEN 1 ELSE 0
      /\ d.patches = IF r.scope = "patches" THEN 1 ELSE 0
      /\ d.revisions = 1 /\ d.bytes = size
  BY DEF CapacityDelta
<1>10. /\ IsFiniteSet(retained')
       /\ Cardinality(retained') = Cardinality(retained) + d.vaults
       /\ Cardinality(retained') <= MaxVaults
  <2>1. /\ IsFiniteSet(retained \cup {r.vault})
        /\ Cardinality(retained \cup {r.vault})
           = IF r.vault \in retained THEN Cardinality(retained) ELSE Cardinality(retained) + 1
    BY <1>3, FS_AddElement
  <2>2. Cardinality(retained) \in Nat
    BY <1>3, FS_CardinalityType
  <2> QED
    BY <1>1, <1>8, <1>9, <2>1, <2>2 DEF HasCapacity
<1>11. retainedBytes' = Cardinality(AllBytes') /\ retainedBytes' <= MaxBytes
  <2>1. retainedBytes = Cardinality(AllBytes)
    BY DEF CountInv, UsageIsExact, AllBytes
  <2>2. retainedBytes + d.bytes <= MaxBytes
    BY <1>1 DEF HasCapacity
  <2> QED
    BY <1>7, <1>8, <1>9, <2>1, <2>2
<1>12. \A v \in Vaults : v \in retained' <=> \E s \in Scopes : Stored(v, s)' # {}
  <2>1. /\ \A v \in Vaults : v \in retained <=> \E s \in Scopes : Stored(v, s) # {}
        /\ \A v \in Vaults, s \in Scopes :
              Stored(v, s)' = IF v = r.vault /\ s = r.scope
                              THEN Stored(v, s) \cup {r.envelope} ELSE Stored(v, s)
    BY CommitStores DEF CountInv, UsageIsExact
  <2> QED
    BY <1>1, <1>8, <2>1
<1>13. ASSUME NEW a \in Accounts
       PROVE  /\ IsFiniteSet(ObjectsOf(a)') /\ IsFiniteSet(RevisionsOf(a)')
              /\ IsFiniteSet(BytesOf(a)')
              /\ usage'[a] = Recount(a)' /\ WithinLimit(Recount(a)')
  <2> DEFINE Patches(S) == {z \in S : z[2] = "patches"}
  <2>1. usage[a] = Recount(a) /\ WithinLimit(Recount(a))
    BY DEF CountInv, UsageIsExact
  <2>2. CASE a # own
    <3>1. /\ VaultsOf(a)' = VaultsOf(a) /\ RevisionsOf(a)' = RevisionsOf(a)
          /\ ObjectsOf(a)' = ObjectsOf(a) /\ BytesOf(a)' = BytesOf(a)
      <4>1. /\ VaultsOf(a)' = VaultsOf(a) \cup {} /\ RevisionsOf(a)' = RevisionsOf(a) \cup {}
            /\ ObjectsOf(a)' = ObjectsOf(a) \cup {} /\ BytesOf(a)' = BytesOf(a) \cup {}
        <5> HIDE DEF own
        <5> QED
          BY <1>2, <2>2
      <4> QED
        BY <4>1
    <3>2. Recount(a)' = Recount(a) /\ usage'[a] = usage[a]
      BY <1>1, <1>8, <2>2, <3>1 DEF Recount
    <3> QED
      BY <1>3, <2>1, <3>1, <3>2
  <2>3. CASE a = own
    <3>1. /\ VaultsOf(a)' = VaultsOf(a) \cup {r.vault}
          /\ RevisionsOf(a)' = RevisionsOf(a) \cup {Place(r)}
          /\ BytesOf(a)' = BytesOf(a) \cup Block(r)
          /\ Place(r) \notin RevisionsOf(a)
      BY <1>2, <2>3
    <3>2. /\ IsFiniteSet(ObjectsOf(a)) /\ IsFiniteSet(RevisionsOf(a))
          /\ IsFiniteSet(BytesOf(a)) /\ IsFiniteSet(VaultsOf(a))
      BY <1>3
    <3>3. Cardinality(VaultsOf(a)') = Cardinality(VaultsOf(a)) + d.vaults
      <4>1. r.vault \in VaultsOf(a) <=> r.vault \in retained
        BY <2>3 DEF VaultsOf
      <4>2. Cardinality(VaultsOf(a) \cup {r.vault})
            = IF r.vault \in VaultsOf(a) THEN Cardinality(VaultsOf(a))
              ELSE Cardinality(VaultsOf(a)) + 1
        BY <3>2, FS_AddElement
      <4>3. Cardinality(VaultsOf(a)) \in Nat
        BY <3>2, FS_CardinalityType
      <4> QED
        BY <1>9, <3>1, <4>1, <4>2, <4>3
    <3>4. /\ IsFiniteSet(RevisionsOf(a)')
          /\ Cardinality(RevisionsOf(a)') = Cardinality(RevisionsOf(a)) + d.revisions
      BY <1>9, <3>1, <3>2, FS_AddElement
    <3>5. /\ IsFiniteSet(BytesOf(a)')
          /\ Cardinality(BytesOf(a)') = Cardinality(BytesOf(a)) + d.bytes
      <4>1. /\ IsFiniteSet(BytesOf(a) \cup Block(r))
            /\ Cardinality(BytesOf(a) \cup Block(r))
               = Cardinality(BytesOf(a)) + Cardinality(Block(r))
        BY <1>4, <1>5, <3>2, Disjoint
      <4> QED
        BY <1>4, <1>9, <3>1, <4>1
    <3>6. /\ IsFiniteSet(ObjectsOf(a)')
          /\ Cardinality(ObjectsOf(a)') = Cardinality(ObjectsOf(a)) + d.objects
      <4>1. Cardinality(ObjectsOf(a)) \in Nat
        BY <3>2, FS_CardinalityType
      <4>2. CASE r.scope \notin Objects
        <5>1. ObjectsOf(a)' = ObjectsOf(a) /\ d.objects = 0
          BY <1>2, <1>9, <4>2
        <5> QED
          BY <3>2, <4>1, <5>1
      <4>3. CASE r.scope \in Objects
        <5>1. ObjectsOf(a)' = ObjectsOf(a) \cup {<<r.vault, r.scope>>}
          BY <1>2, <2>3, <4>3
        <5>2. r.scope # "patches" /\ HeadOf(r) = current[r.vault][r.scope]
          BY <4>3, NamesAssumption DEF HeadOf
        <5>3. <<r.vault, r.scope>> \in ObjectsOf(a) <=> HeadOf(r) # None
          <6>1. current[r.vault][r.scope] # None => r.vault \in retained
            <7>1. r.scope \in Registers
              BY <4>3 DEF Registers
            <7>2. current[r.vault][r.scope] # None =>
                     current[r.vault][r.scope] \in Stored(r.vault, r.scope)
              BY <1>1, <5>2, <7>1 DEF HeadIsLatest, RegistersAreChains, Stored
            <7> QED
              BY <1>1, <7>2 DEF CountInv, UsageIsExact
          <6> QED
            BY <2>3, <4>3, <5>2, <6>1 DEF ObjectsOf, VaultsOf
        <5>4. /\ IsFiniteSet(ObjectsOf(a) \cup {<<r.vault, r.scope>>})
              /\ Cardinality(ObjectsOf(a) \cup {<<r.vault, r.scope>>})
                 = IF <<r.vault, r.scope>> \in ObjectsOf(a) THEN Cardinality(ObjectsOf(a))
                   ELSE Cardinality(ObjectsOf(a)) + 1
          BY <3>2, FS_AddElement
        <5> QED
          BY <1>9, <4>1, <4>3, <5>1, <5>3, <5>4
      <4> QED
        BY <4>2, <4>3
    <3>7. Cardinality(Patches(RevisionsOf(a)')) = Cardinality(Patches(RevisionsOf(a))) + d.patches
      <4>1. IsFiniteSet(Patches(RevisionsOf(a)))
        BY <3>2, FS_Subset
      <4>2. Place(r)[2] = r.scope
        BY DEF Place
      <4>3. CASE r.scope = "patches"
        <5>1. Patches(RevisionsOf(a)') = Patches(RevisionsOf(a)) \cup {Place(r)}
              /\ Place(r) \notin Patches(RevisionsOf(a))
          BY <3>1, <4>2, <4>3
        <5> HIDE DEF Patches
        <5> QED
          BY <1>9, <4>1, <4>3, <5>1, FS_AddElement
      <4>4. CASE r.scope # "patches"
        <5>1. Patches(RevisionsOf(a)') = Patches(RevisionsOf(a))
          BY <3>1, <4>2, <4>4
        <5> HIDE DEF Patches
        <5>2. Cardinality(Patches(RevisionsOf(a))) \in Nat
          BY <4>1, FS_CardinalityType
        <5> QED
          BY <1>9, <4>4, <5>1, <5>2
      <4> QED
        BY <4>3, <4>4
    <3>8. Recount(a)' = AddUsage(usage[a], d)
      <4>1. usage[a] = [vaults |-> Cardinality(VaultsOf(a)),
                        objects |-> Cardinality(ObjectsOf(a)),
                        patches |-> Cardinality(Patches(RevisionsOf(a))),
                        revisions |-> Cardinality(RevisionsOf(a)),
                        bytes |-> Cardinality(BytesOf(a))]
        BY <2>1 DEF Recount
      <4>2. Recount(a)' = [vaults |-> Cardinality(VaultsOf(a)'),
                           objects |-> Cardinality(ObjectsOf(a)'),
                           patches |-> Cardinality(Patches(RevisionsOf(a)')),
                           revisions |-> Cardinality(RevisionsOf(a)'),
                           bytes |-> Cardinality(BytesOf(a)')]
        BY DEF Recount
      <4> HIDE DEF Patches, d
      <4> QED
        BY <3>3, <3>4, <3>5, <3>6, <3>7, <4>1, <4>2 DEF AddUsage
    <3>9. usage'[a] = AddUsage(usage[a], d)
      BY <1>1, <1>8, <2>3
    <3>10. WithinLimit(AddUsage(usage[a], d))
      BY <1>1, <2>3 DEF HasCapacity
    <3> HIDE DEF d
    <3> QED
      BY <3>4, <3>5, <3>6, <3>8, <3>9, <3>10
  <2> QED
    BY <2>2, <2>3
<1>14. UsageIsExact'
  BY <1>10, <1>11, <1>12, <1>13 DEF UsageIsExact, AllBytes
<1> QED
  BY <1>7, <1>10, <1>13, <1>14 DEF CountInv

LEMMA CountInit == Init => CountInv
<1> SUFFICES ASSUME Init PROVE CountInv
  OBVIOUS
<1>1. retained = {} /\ retainedBytes = 0
  BY DEF Init
<1>2. \A v \in Vaults, s \in Scopes : Stored(v, s) = {}
  <2>1. /\ \A v \in Vaults, s \in Registers : history[v][s] = {}
        /\ \A v \in Vaults : patches[v] = <<>> /\ 1 .. Len(patches[v]) = {}
    BY DEF Init
  <2> QED
    BY <2>1 DEF Stored, Scopes
<1>3. \A a : /\ VaultsOf(a) = {} /\ ObjectsOf(a) = {} /\ RevisionsOf(a) = {} /\ BytesOf(a) = {}
  BY <1>1 DEF VaultsOf, ObjectsOf, RevisionsOf, BytesOf
<1>4. AllBytes = {}
  BY <1>3 DEF AllBytes
<1>5. IsFiniteSet({}) /\ Cardinality({}) = 0
  BY FS_EmptySet
<1>6. \A a \in Accounts :
         /\ usage[a] = [vaults |-> 0, objects |-> 0, patches |-> 0, revisions |-> 0, bytes |-> 0]
         /\ Recount(a) = [vaults |-> 0, objects |-> 0, patches |-> 0, revisions |-> 0,
                          bytes |-> 0]
  BY <1>3, <1>5 DEF Init, Recount
<1>7. \A a \in Accounts : WithinLimit(Recount(a))
  BY <1>6, NumbersAssumption DEF WithinLimit, Usage
<1>8. 0 <= MaxBytes /\ 0 <= MaxVaults
  BY NumbersAssumption
<1>9. UsageIsExact
  BY <1>1, <1>2, <1>4, <1>5, <1>6, <1>7, <1>8 DEF UsageIsExact, AllBytes
<1> QED
  BY <1>1, <1>3, <1>4, <1>5, <1>9 DEF CountInv

\* UsageIsExact: the counters of every account, and the store's own, are what a
\* recount finds, so no limit is ever exceeded (_require_capacity, _retain_state).
THEOREM CountersAreExact == Spec => []UsageIsExact
<1> DEFINE stored == <<retained, current, history, patches, usage, retainedBytes>>
<1>1. CountInv /\ UNCHANGED stored => CountInv'
  <2> SUFFICES ASSUME CountInv, UNCHANGED stored PROVE CountInv'
    OBVIOUS
  <2>1. /\ retained' = retained /\ current' = current /\ history' = history
        /\ patches' = patches /\ usage' = usage /\ retainedBytes' = retainedBytes
    OBVIOUS
  <2>2. \A v, s : Stored(v, s)' = Stored(v, s)
    BY <2>1 DEF Stored
  <2>3. \A a : VaultsOf(a)' = VaultsOf(a)
    BY <2>1 DEF VaultsOf
  <2>4. \A a : ObjectsOf(a)' = ObjectsOf(a)
    BY <2>1, <2>3 DEF ObjectsOf
  <2>5. \A a : RevisionsOf(a)' = RevisionsOf(a)
    BY <2>2, <2>3 DEF RevisionsOf
  <2>6. \A a : BytesOf(a)' = BytesOf(a)
    BY <2>5 DEF BytesOf
  <2>7. AllBytes' = AllBytes
    BY <2>6 DEF AllBytes
  <2>8. \A a : Recount(a)' = Recount(a)
    BY <2>3, <2>4, <2>5, <2>6 DEF Recount
  <2>9. UsageIsExact'
    BY <2>1, <2>2, <2>7, <2>8 DEF CountInv, UsageIsExact, AllBytes
  <2> QED
    BY <2>1, <2>4, <2>5, <2>6, <2>7, <2>9 DEF CountInv
<1>2. TypeOK /\ HeadIsLatest /\ CountInv /\ [Next]_vars => CountInv'
  <2> SUFFICES ASSUME TypeOK, HeadIsLatest, CountInv, [Next]_vars PROVE CountInv'
    OBVIOUS
  <2>1. ASSUME NEW r \in Requests, NEW now \in Times, NEW n \in 0 .. MaxReceiptPrune,
               Write(r, now, n)
        PROVE  CountInv'
    <3>1. n \in Nat /\ Objects \cap {"patches"} = {}
      BY NumbersAssumption, NamesAssumption
    <3>2. UNCHANGED stored \/ Commit(r, now, n)
      BY <2>1, <3>1
      DEF Write, PutMetadata, PutObject, AppendPatch, PutSnapshot, PutRegister,
          AnswerFromReceipt, AcknowledgeDuplicate, Refuse, Commit
    <3> QED
      BY <1>1, <3>1, <3>2, CommitCounts
  <2>2. ASSUME NEW v \in Vaults, NEW now \in Times, NEW n \in 0 .. MaxCursorPrune,
               Listing(v, now, n)
        PROVE  CountInv'
    <3>1. UNCHANGED stored
      BY <2>2 DEF Listing, ListFirst, ListNext, RefuseCursor, BeginList, writeVars
    <3> QED
      BY <1>1, <3>1
  <2>3. CASE UNCHANGED vars
    BY <1>1, <2>3 DEF vars, writeVars
  <2> QED
    BY <2>1, <2>2, <2>3, StepCases
<1>3. CountInv => UsageIsExact
  BY DEF CountInv
<1> QED
  BY <1>2, <1>3, CountInit, TypeCorrect, CurrentIsTheEnd, PTL DEF Spec
=============================================================================
