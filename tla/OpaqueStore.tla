---------------------------- MODULE OpaqueStore ----------------------------
(***************************************************************************)
(* The sync service's ciphertext store, atlasvault_api/storage.py.         *)
(*                                                                         *)
(* Every operation runs under one re-entrant lock, so each is one action.  *)
(* A vault holds registers (its metadata, its snapshot, one per object),   *)
(* a patch log, and idempotency receipts; an account has usage counters;   *)
(* the store has page cursors.  Two heaps of expiry times say which        *)
(* receipts and cursors may be dropped, and each write or listing drops    *)
(* only a bounded number of them.                                          *)
(*                                                                         *)
(* An envelope is its revision, its parent revision and an opaque body;    *)
(* two envelopes are equal exactly when their fingerprints are.  The clock *)
(* is read once per operation: any reading not below the last one.         *)
(***************************************************************************)
EXTENDS Integers, Sequences, FiniteSets

CONSTANTS
    Accounts, VaultIds,  \* a vault is keyed by its account and its id
    Objects,             \* object ids: one register each
    Keys,                \* idempotency keys
    Revisions, Bodies,   \* what an envelope is made of
    Size,                \* encoded bytes of an envelope with a given body
    None,                \* Python's None, and the "*" of If-Match
    Requests,            \* the write requests clients send
    Times,               \* clock readings
    Tokens, PageSizes,   \* cursor tokens and requested page sizes
    ReceiptLifetime, CursorLifetime,      \* 600 s and 300 s
    MaxReceiptPrune, MaxCursorPrune,      \* 64 and 64
    MaxVaults, MaxBytes, AccountLimit     \* AbuseControlPolicy

Vaults == Accounts \X VaultIds
Registers == {"metadata", "snapshot"} \cup Objects
Scopes == Registers \cup {"patches"}
Envelopes == [rev : Revisions, parent : Revisions \cup {None}, body : Bodies]
WriteRequests == [vault : Vaults, scope : Scopes, envelope : Envelopes,
                  expected : Revisions \cup {None}, key : Keys]
Attempts == [expected : Revisions \cup {None}, envelope : Envelopes]
Receipts == [attempt : Attempts, response : Envelopes, expires : Nat]
Cursors == [vault : Vaults, start : Nat, end : Nat, size : Nat \ {0},
            expires : Nat, next : Tokens \cup {None}]
Usage == [vaults : Nat, objects : Nat, patches : Nat, revisions : Nat,
          bytes : Nat]

ASSUME NamesAssumption ==
    /\ Objects \cap {"metadata", "snapshot", "patches"} = {}
    /\ None \notin Revisions \cup Tokens \cup Envelopes \cup Receipts \cup Cursors
ASSUME RequestsAssumption ==
    /\ Requests \subseteq WriteRequests
    /\ \A r \in Requests : r.scope = "metadata" => r.envelope.parent = None
ASSUME NumbersAssumption ==
    /\ Times \subseteq Nat /\ PageSizes \subseteq Nat \ {0}
    /\ ReceiptLifetime \in Nat \ {0} /\ CursorLifetime \in Nat \ {0}
    /\ MaxReceiptPrune \in Nat \ {0} /\ MaxCursorPrune \in Nat \ {0}
    /\ Size \in [Bodies -> Nat]
    /\ MaxVaults \in Nat /\ MaxBytes \in Nat /\ AccountLimit \in Usage

VARIABLES
    retained,        \* the vaults the store holds: keys of _vaults
    current,         \* a register's envelope: metadata, objects, snapshot
    history,         \* every envelope a register has held, by revision
    patches,         \* a vault's patch log
    receipts,        \* a vault's receipts, by scope and idempotency key
    receiptHeap,     \* _receipt_expiries in heap order
    usage,           \* the per-account counters
    retainedBytes,   \* _retained_bytes
    cursors,         \* _cursors
    cursorHeap,      \* _cursor_expiries in heap order
    lastClock        \* _last_observed_clock

writeVars == <<retained, current, history, patches, receipts, receiptHeap,
               usage, retainedBytes>>
cursorVars == <<cursors, cursorHeap>>
vars == <<writeVars, cursorVars, lastClock>>

(***************************************************************************)
(* Expiry heaps.  Entries are popped in order of expiry, ties in order of  *)
(* insertion: a sequence kept sorted, a new entry after its equals.        *)
(***************************************************************************)
HeapPush(heap, entry) ==
    LET before == Cardinality({i \in 1 .. Len(heap) : heap[i].at <= entry.at})
    IN  SubSeq(heap, 1, before) \o <<entry>> \o SubSeq(heap, before + 1, Len(heap))

\* n entries are popped: the due ones, unless the limit stops the loop first.
PruneStopsAt(heap, now, limit, n) ==
    /\ n <= Len(heap) /\ n <= limit
    /\ \A i \in 1 .. n : heap[i].at <= now
    /\ n < Len(heap) /\ n < limit => heap[n + 1].at > now

\* Fault: one entry too many is popped.
HeapRestOffByOne(heap, n) == SubSeq(heap, n + 2, Len(heap))

HeapRest(heap, n) == SubSeq(heap, n + 1, Len(heap))

\* Fault: a popped entry drops whatever its key holds now.
ReceiptsAfterBlindPrune(now, n) ==
    [v \in Vaults |-> [k \in Scopes \X Keys |->
        IF \E i \in 1 .. n : receiptHeap[i].vault = v /\ receiptHeap[i].key = k
        THEN None ELSE receipts[v][k]]]

\* A popped entry drops its receipt only if that receipt is due itself: the
\* receipt may have been recorded anew since the entry was pushed.
ReceiptsAfterPrune(now, n) ==
    [v \in Vaults |-> [k \in Scopes \X Keys |->
        IF /\ receipts[v][k] # None
           /\ receipts[v][k].expires <= now
           /\ \E i \in 1 .. n : receiptHeap[i].vault = v /\ receiptHeap[i].key = k
        THEN None ELSE receipts[v][k]]]

CursorsAfterPrune(now, n) ==
    [t \in Tokens |->
        IF /\ cursors[t] # None
           /\ cursors[t].expires <= now
           /\ \E i \in 1 .. n : cursorHeap[i].token = t
        THEN None ELSE cursors[t]]
-----------------------------------------------------------------------------
(***************************************************************************)
(* Writes.                                                                 *)
(***************************************************************************)
ReceiptKey(r) == <<r.scope, r.key>>
\* Fault: the attempt remembers the key where the expected revision belongs.
AttemptWithKey(r) == [expected |-> r.key, envelope |-> r.envelope]

Attempt(r) == [expected |-> r.expected, envelope |-> r.envelope]

\* Fault: a patch is compared with the first patch of the log.
HeadOfOldest(r) ==
    IF r.scope # "patches" THEN current[r.vault][r.scope]
    ELSE IF patches[r.vault] = <<>> THEN None ELSE patches[r.vault][1]

\* The envelope a write is compared with and must succeed, or None.
HeadOf(r) ==
    IF r.scope # "patches" THEN current[r.vault][r.scope]
    ELSE IF patches[r.vault] = <<>> THEN None
    ELSE patches[r.vault][Len(patches[r.vault])]

HeadRevision(r) == IF HeadOf(r) = None THEN None ELSE HeadOf(r).rev

\* Envelopes a repeated submission may be a duplicate of: a register's
\* current one, any patch of the log.
Resubmittable(r) ==
    IF r.scope = "patches"
    THEN {patches[r.vault][i] : i \in 1 .. Len(patches[r.vault])}
    ELSE {current[r.vault][r.scope]} \ {None}

\* Fault: an equal revision counts as a duplicate whatever its bytes.
SameRevisionAnyBytes(r) ==
    {r.envelope : e \in {f \in Resubmittable(r) : f.rev = r.envelope.rev}}

SameRevision(r) == {e \in Resubmittable(r) : e.rev = r.envelope.rev}

\* Fault: the revisions a register held before are forgotten.
HistoryForgotten(r) == FALSE

HistoricalRevision(r) ==
    /\ r.scope # "patches"
    /\ \E e \in history[r.vault][r.scope] : e.rev = r.envelope.rev

\* Fault: the parent named in the envelope is not compared.
CasHoldsNoParent(r) == r.expected = HeadRevision(r)

\* _require_cas, and for everything but metadata _require_parent_cas.
CasHolds(r) ==
    /\ r.expected = HeadRevision(r)
    /\ r.scope # "metadata" => r.envelope.parent = HeadRevision(r)

\* Fault: only the first envelope of a register counts as a revision.
CapacityDeltaFirstOnly(r) ==
    [vaults |-> IF r.vault \in retained THEN 0 ELSE 1,
     objects |-> IF r.scope \in Objects /\ HeadOf(r) = None THEN 1 ELSE 0,
     patches |-> IF r.scope = "patches" THEN 1 ELSE 0,
     revisions |-> IF r.scope = "patches" \/ HeadOf(r) = None THEN 1 ELSE 0,
     bytes |-> Size[r.envelope.body]]

CapacityDelta(r) ==
    [vaults |-> IF r.vault \in retained THEN 0 ELSE 1,
     objects |-> IF r.scope \in Objects /\ HeadOf(r) = None THEN 1 ELSE 0,
     patches |-> IF r.scope = "patches" THEN 1 ELSE 0,
     revisions |-> 1,
     bytes |-> Size[r.envelope.body]]

AddUsage(u, d) ==
    [vaults |-> u.vaults + d.vaults, objects |-> u.objects + d.objects,
     patches |-> u.patches + d.patches, revisions |-> u.revisions + d.revisions,
     bytes |-> u.bytes + d.bytes]

WithinLimit(u) ==
    /\ u.vaults <= AccountLimit.vaults
    /\ u.objects <= AccountLimit.objects
    /\ u.patches <= AccountLimit.patches
    /\ u.revisions <= AccountLimit.revisions
    /\ u.bytes <= AccountLimit.bytes

\* The global byte limit MaxBytes is max_retained_bytes less the reserve.
HasCapacity(r) ==
    LET d == CapacityDelta(r)
    IN  /\ Cardinality(retained) + d.vaults <= MaxVaults
        /\ retainedBytes + d.bytes <= MaxBytes
        /\ WithinLimit(AddUsage(usage[r.vault[1]], d))

\* The receipt an attempt finds once due heap entries are pruned.
FoundReceipt(r, now, n) == ReceiptsAfterPrune(now, n)[r.vault][ReceiptKey(r)]
HasLiveReceipt(r, now, n) ==
    /\ FoundReceipt(r, now, n) # None
    /\ FoundReceipt(r, now, n).expires > now

\* _replay drops an expired receipt it meets, even if the write then fails.
SetReceipt(r, now, n, receipt) ==
    [ReceiptsAfterPrune(now, n) EXCEPT ![r.vault][ReceiptKey(r)] = receipt]

Record(r, now, n) ==
    /\ receipts' = SetReceipt(r, now, n,
          [attempt |-> Attempt(r), response |-> r.envelope,
           expires |-> now + ReceiptLifetime])
    /\ receiptHeap' = HeapPush(HeapRest(receiptHeap, n),
          [at |-> now + ReceiptLifetime, vault |-> r.vault, key |-> ReceiptKey(r)])

Retain(r) ==
    /\ retained' = retained \cup {r.vault}
    /\ usage' = [usage EXCEPT ![r.vault[1]] = AddUsage(@, CapacityDelta(r))]
    /\ retainedBytes' = retainedBytes + Size[r.envelope.body]

\* A live receipt answers: the attempt it was issued for gets its response,
\* any other attempt with the same key a conflict.
AnswerFromReceipt(r, now, n) ==
    /\ HasLiveReceipt(r, now, n)
    /\ receipts' = ReceiptsAfterPrune(now, n)
    /\ receiptHeap' = HeapRest(receiptHeap, n)
    /\ UNCHANGED <<retained, current, history, patches, usage, retainedBytes>>

\* What is already stored is acknowledged again, under the new key.
AcknowledgeDuplicate(r, now, n) ==
    /\ ~HasLiveReceipt(r, now, n)
    /\ r.envelope \in SameRevision(r)
    /\ Record(r, now, n)
    /\ UNCHANGED <<retained, current, history, patches, usage, retainedBytes>>

Acceptable(r) ==
    /\ SameRevision(r) = {}
    /\ ~HistoricalRevision(r)
    /\ CasHolds(r)
    /\ HasCapacity(r)

\* A reused revision, a failed comparison or a full store: the write raises
\* after the clock was read, due receipts pruned and its own expired one dropped.
Refuse(r, now, n) ==
    /\ ~HasLiveReceipt(r, now, n)
    /\ r.envelope \notin SameRevision(r)
    /\ ~Acceptable(r)
    /\ receipts' = SetReceipt(r, now, n, None)
    /\ receiptHeap' = HeapRest(receiptHeap, n)
    /\ UNCHANGED <<retained, current, history, patches, usage, retainedBytes>>

CommitRegister(r, now, n) ==
    /\ ~HasLiveReceipt(r, now, n)
    /\ Acceptable(r)
    /\ current' = [current EXCEPT ![r.vault][r.scope] = r.envelope]
    /\ history' = [history EXCEPT ![r.vault][r.scope] = @ \cup {r.envelope}]
    /\ Record(r, now, n)
    /\ Retain(r)
    /\ UNCHANGED patches

CommitPatch(r, now, n) ==
    /\ ~HasLiveReceipt(r, now, n)
    /\ Acceptable(r)
    /\ patches' = [patches EXCEPT ![r.vault] = Append(@, r.envelope)]
    /\ Record(r, now, n)
    /\ Retain(r)
    /\ UNCHANGED <<current, history>>

\* One clock reading, then the bounded pruning, then one of the outcomes.
BeginWrite(now, n) ==
    /\ now >= lastClock
    /\ lastClock' = now
    /\ PruneStopsAt(receiptHeap, now, MaxReceiptPrune, n)
    /\ UNCHANGED cursorVars

PutRegister(r, now, n) ==
    /\ BeginWrite(now, n)
    /\ \/ AnswerFromReceipt(r, now, n)
       \/ AcknowledgeDuplicate(r, now, n)
       \/ Refuse(r, now, n)
       \/ CommitRegister(r, now, n)

PutMetadata(r, now, n) == r.scope = "metadata" /\ PutRegister(r, now, n)
PutSnapshot(r, now, n) == r.scope = "snapshot" /\ PutRegister(r, now, n)
PutObject(r, now, n) == r.scope \in Objects /\ PutRegister(r, now, n)

AppendPatch(r, now, n) ==
    /\ r.scope = "patches"
    /\ BeginWrite(now, n)
    /\ \/ AnswerFromReceipt(r, now, n)
       \/ AcknowledgeDuplicate(r, now, n)
       \/ Refuse(r, now, n)
       \/ CommitPatch(r, now, n)
-----------------------------------------------------------------------------
(***************************************************************************)
(* Listing a vault's patches, page by page.  The first page fixes where    *)
(* the listing ends; each further page is fetched with the cursor of the   *)
(* page before, and fetching a page again returns the same next cursor.    *)
(***************************************************************************)
BeginList(now, n) ==
    /\ now >= lastClock
    /\ lastClock' = now
    /\ PruneStopsAt(cursorHeap, now, MaxCursorPrune, n)
    /\ UNCHANGED writeVars

MintCursor(table, n, t, cursor) ==
    /\ cursors' = [table EXCEPT ![t] = cursor]
    /\ cursorHeap' = HeapPush(HeapRest(cursorHeap, n),
                              [at |-> cursor.expires, token |-> t])

NewCursor(v, start, end, size, now) ==
    [vault |-> v, start |-> start, end |-> end, size |-> size,
     expires |-> now + CursorLifetime, next |-> None]

KeepCursors(now, n) ==
    /\ cursors' = CursorsAfterPrune(now, n)
    /\ cursorHeap' = HeapRest(cursorHeap, n)

\* Fault: a drawn token is not compared with the tokens in use.
AnyToken(table) == Tokens

FreeTokens(table) == {t \in Tokens : table[t] = None}

\* The whole log fits one page, or a cursor for the rest is minted.  Minting
\* raises, having changed nothing else, when every draw repeats a known token.
ListFirst(v, size, now, n) ==
    LET table == CursorsAfterPrune(now, n)
    IN  /\ BeginList(now, n)
        /\ \/ /\ Len(patches[v]) <= size \/ FreeTokens(table) # Tokens
              /\ KeepCursors(now, n)
           \/ /\ Len(patches[v]) > size
              /\ \E t \in FreeTokens(table) :
                    MintCursor(table, n, t,
                               NewCursor(v, size, Len(patches[v]), size, now))

\* Fault: a cursor is honoured for any vault.
UsableCursorAnyVault(record, v, size, now) ==
    record # None /\ record.expires > now /\ size \in {None, record.size}

UsableCursor(record, v, size, now) ==
    /\ record # None
    /\ record.expires > now
    /\ record.vault = v
    /\ size \in {None, record.size}

\* The last page, or a page whose successor is known, mints nothing; minting
\* may fail as above.
ListNext(v, t, size, now, n) ==
    LET table == CursorsAfterPrune(now, n)
        record == table[t]
        stop == record.start + record.size
    IN  /\ BeginList(now, n)
        /\ UsableCursor(record, v, size, now)
        /\ \/ /\ stop >= record.end \/ record.next # None \/ FreeTokens(table) # Tokens
              /\ KeepCursors(now, n)
           \/ /\ stop < record.end /\ record.next = None
              /\ \E u \in FreeTokens(table) :
                    MintCursor([table EXCEPT ![t].next = u], n, u,
                               NewCursor(v, stop, record.end, record.size, now))

\* A cursor that is unknown, expired, or used with another vault or page
\* size is refused; an expired one is dropped on the way out.
RefuseCursor(v, t, size, now, n) ==
    LET table == CursorsAfterPrune(now, n)
    IN  /\ BeginList(now, n)
        /\ ~UsableCursor(table[t], v, size, now)
        /\ cursors' = IF table[t] # None /\ table[t].expires <= now
                      THEN [table EXCEPT ![t] = None] ELSE table
        /\ cursorHeap' = HeapRest(cursorHeap, n)
-----------------------------------------------------------------------------
Init ==
    /\ retained = {}
    /\ current = [v \in Vaults |-> [s \in Registers |-> None]]
    /\ history = [v \in Vaults |-> [s \in Registers |-> {}]]
    /\ patches = [v \in Vaults |-> <<>>]
    /\ receipts = [v \in Vaults |-> [k \in Scopes \X Keys |-> None]]
    /\ receiptHeap = <<>>
    /\ usage = [a \in Accounts |-> [vaults |-> 0, objects |-> 0, patches |-> 0,
                                    revisions |-> 0, bytes |-> 0]]
    /\ retainedBytes = 0
    /\ cursors = [t \in Tokens |-> None]
    /\ cursorHeap = <<>>
    /\ lastClock = 0

WriteNext == \E r \in Requests, now \in Times, n \in 0 .. MaxReceiptPrune :
    \/ PutMetadata(r, now, n)
    \/ PutObject(r, now, n)
    \/ AppendPatch(r, now, n)
    \/ PutSnapshot(r, now, n)

ListPatches == \E v \in Vaults, now \in Times, n \in 0 .. MaxCursorPrune :
    \/ \E size \in PageSizes : ListFirst(v, size, now, n)
    \/ \E t \in Tokens, size \in PageSizes \cup {None} :
          \/ ListNext(v, t, size, now, n)
          \/ RefuseCursor(v, t, size, now, n)

Next == WriteNext \/ ListPatches

Spec == Init /\ [][Next]_vars
-----------------------------------------------------------------------------
(***************************************************************************)
(* What the store promises.                                                *)
(***************************************************************************)
\* Type correctness of the store's dictionaries, logs, heaps and counters.
TypeOK ==
    /\ retained \in SUBSET Vaults
    /\ current \in [Vaults -> [Registers -> Envelopes \cup {None}]]
    /\ history \in [Vaults -> [Registers -> SUBSET Envelopes]]
    /\ patches \in [Vaults -> Seq(Envelopes)]
    /\ receipts \in [Vaults -> [Scopes \X Keys -> Receipts \cup {None}]]
    /\ receiptHeap \in Seq([at : Nat, vault : Vaults, key : Scopes \X Keys])
    /\ usage \in [Accounts -> Usage]
    /\ retainedBytes \in Nat
    /\ cursors \in [Tokens -> Cursors \cup {None}]
    /\ cursorHeap \in Seq([at : Nat, token : Tokens])
    /\ lastClock \in Nat

\* No accepted update is lost: two accepted revisions of an object or of the
\* snapshot never succeed the same revision (put_object, put_snapshot), and no
\* two accepted envelopes of a register bear the same revision.
NoLostUpdate ==
    \A v \in Vaults, s \in Registers : \A e, f \in history[v][s] :
        e.rev = f.rev \/ (s # "metadata" /\ e.parent = f.parent) => e = f

\* Every accepted revision of a register descends from an accepted one and the
\* current one has no successor (put_object, put_snapshot).
RegistersAreChains ==
    \A v \in Vaults, s \in Registers :
        /\ current[v][s] = None => history[v][s] = {}
        /\ current[v][s] # None => current[v][s] \in history[v][s]
        /\ current[v][s] # None /\ s # "metadata" =>
              \A e \in history[v][s] :
                  /\ e.parent # current[v][s].rev
                  /\ e.parent # None => \E f \in history[v][s] : f.rev = e.parent

\* The patch log is one chain of distinct revisions, each naming the one before
\* it as its parent (append_patch).
PatchLogIsChain ==
    \A v \in Vaults :
        /\ \A i \in 1 .. Len(patches[v]) :
              patches[v][i].parent = IF i = 1 THEN None ELSE patches[v][i - 1].rev
        /\ \A i, j \in 1 .. Len(patches[v]) :
              patches[v][i].rev = patches[v][j].rev => i = j

\* What is current is the end of its lineage, for registers and for the patch
\* log: a revision that was replaced never becomes current again.
HeadIsLatest == RegistersAreChains /\ PatchLogIsChain

Stored(v, s) == IF s = "patches" THEN {patches[v][i] : i \in 1 .. Len(patches[v])}
                ELSE history[v][s]

\* A recount of what an account stores, by what is there: its vaults, its
\* objects, its revisions and every byte of each.
VaultsOf(a) == {v \in retained : v[1] = a}
ObjectsOf(a) == {z \in VaultsOf(a) \X Objects : current[z[1]][z[2]] # None}
RevisionsOf(a) ==
    UNION {{<<v, s, e>> : e \in Stored(v, s)} : v \in VaultsOf(a), s \in Scopes}
BytesOf(a) == UNION {{z} \X (1 .. Size[z[3].body]) : z \in RevisionsOf(a)}
Recount(a) ==
    [vaults |-> Cardinality(VaultsOf(a)),
     objects |-> Cardinality(ObjectsOf(a)),
     patches |-> Cardinality({z \in RevisionsOf(a) : z[2] = "patches"}),
     revisions |-> Cardinality(RevisionsOf(a)),
     bytes |-> Cardinality(BytesOf(a))]

\* The counters the limits are enforced on are exactly what is stored
\* (_capacity_delta and _retain_state against the dictionaries they count), so
\* what is stored stays within the limits, and nothing is stored outside the
\* vaults the store retains.
UsageIsExact ==
    /\ \A a \in Accounts : usage[a] = Recount(a) /\ WithinLimit(Recount(a))
    /\ retainedBytes = Cardinality(UNION {BytesOf(a) : a \in Accounts})
    /\ retainedBytes <= MaxBytes /\ Cardinality(retained) <= MaxVaults
    /\ \A v \in Vaults :
          v \in retained <=> \E s \in Scopes : Stored(v, s) # {}

\* A receipt never answers for a write that did not happen: its response is
\* the envelope its attempt submitted, and that envelope was committed in the
\* same scope of the same vault (_record runs in the same step as the commit).
ReceiptsWitnessCommits ==
    \A v \in Vaults, k \in Scopes \X Keys :
        receipts[v][k] # None =>
            /\ receipts[v][k].response = receipts[v][k].attempt.envelope
            /\ receipts[v][k].response \in Stored(v, k[1])

\* Everything that expires can be reclaimed: each receipt and each cursor has
\* an entry in its heap at the time it expires (_record, _new_cursor), so
\* bounded pruning never leaks one.
ExpiriesAreScheduled ==
    /\ \A v \in Vaults, k \in Scopes \X Keys :
          receipts[v][k] # None =>
              \E i \in 1 .. Len(receiptHeap) :
                  receiptHeap[i] = [at |-> receipts[v][k].expires, vault |-> v, key |-> k]
    /\ \A t \in Tokens :
          cursors[t] # None =>
              \E i \in 1 .. Len(cursorHeap) :
                  cursorHeap[i] = [at |-> cursors[t].expires, token |-> t]

\* A listing is resumable and contiguous: while a cursor is live the cursor it
\* handed out is live too, belongs to the same vault, starts where its page
\* ends, and ends where the listing was frozen, within the log (_page).
PagesChain ==
    \A t \in Tokens :
        LET c == cursors[t]
        IN  c # None /\ c.expires > lastClock =>
              /\ c.start < c.end /\ c.end <= Len(patches[c.vault])
              /\ c.next # None =>
                    LET d == cursors[c.next]
                    IN  /\ d # None
                        /\ d.expires >= c.expires
                        /\ d.start = c.start + c.size
                        /\ <<d.vault, d.end, d.size>> = <<c.vault, c.end, c.size>>

\* What is live stays. The retry window: no operation drops or replaces a
\* receipt that is live when it ends, however writes, expiries and bounded
\* pruning interleave (_replay, _record, _prune_expired_receipts). And a live
\* cursor goes on denoting the same pages: no operation drops it, moves it, or
\* changes the successor it once handed out (_page, _prune_expired_cursors).
LiveEntriesStay ==
    [][/\ \A v \in Vaults, k \in Scopes \X Keys :
            receipts[v][k] # None /\ receipts[v][k].expires > lastClock'
              => receipts'[v][k] = receipts[v][k]
       /\ \A t \in Tokens :
            LET c == cursors[t]
                d == cursors'[t]
            IN  c # None /\ c.expires > lastClock' =>
                  /\ d # None
                  /\ d = [c EXCEPT !.next = d.next]
                  /\ c.next # None => d.next = c.next]_vars
=============================================================================
