----------------------- MODULE MembershipCacheProofs -----------------------
(***************************************************************************)
(* MembershipCache for any number of connections and any bounds: what is   *)
(* cached, answered and enrolled onto is what the database holds.          *)
(*                                                                         *)
(* The inductive invariant says what a stamp is worth.  Stamps only grow,  *)
(* so one taken earlier that is still the connection's own proves that     *)
(* nothing was committed since; what was read after it is then current.    *)
(***************************************************************************)
EXTENDS MembershipCache, TLAPS

NotAfter(s, t) == s.others <= t.others /\ s.own <= t.own

\* The stamps a connection holds are not from its future.
StampsArePast(c) ==
    /\ NotAfter(cacheAt[c], stamp[c])
    /\ call[c] # None => NotAfter(call[c].stamp, stamp[c])

\* The tables a reading has reached.
Reached(step) ==
    CASE step = "history" -> {"activation"}
      [] step = "enrollments" -> {"activation", "history"}
      [] step = "check" -> Tables
      [] OTHER -> {}

\* What was read is current while the stamp taken before it is.
ReadingHolds(c) ==
    call[c] # None /\ call[c].stamp = stamp[c] =>
        \A t \in Reached(call[c].step) : call[c].seen[t] = db[t]

\* A writer checks and commits against the database as it is, and its cache
\* is out of date from its first change on.
WriterHolds(c) ==
    /\ In(c, "insert") \/ In(c, "commit") => writer = c /\ call[c].seen = db
    /\ In(c, "commit") => cacheAt[c].own < stamp[c].own

\* What is about to be remembered is current while the stamp taken before the
\* commit is.
RememberedHolds(c) ==
    In(c, "remember") /\ call[c].stamp = stamp[c] =>
        [call[c].seen EXCEPT !["enrollments"] = @ + 1] = db

CacheHolds(c) == cached[c] # None /\ cacheAt[c] = stamp[c] => cached[c] = db

ConnectionInv(c) ==
    /\ StampsArePast(c)
    /\ ReadingHolds(c)
    /\ WriterHolds(c)
    /\ RememberedHolds(c)
    /\ CacheHolds(c)

CacheInv == TypeOK /\ \A c \in Connections : ConnectionInv(c)

USE NoneAssumption, NumbersAssumption

\* The invariant holds of an open store that nothing was asked of yet.
LEMMA CacheInit == Init => CacheInv
<1> SUFFICES ASSUME Init PROVE CacheInv
    OBVIOUS
<1>1. TypeOK
    BY DEF Init, TypeOK, Versions, Stamps
<1>2. ASSUME NEW c \in Connections PROVE ConnectionInv(c)
    BY DEF Init, ConnectionInv, StampsArePast, ReadingHolds, WriterHolds,
           RememberedHolds, CacheHolds, In, NotAfter
<1> QED BY <1>1, <1>2 DEF CacheInv

\* A step of another connection that commits nothing leaves a connection's
\* part of the invariant as it was.
LEMMA Undisturbed ==
    ASSUME NEW d \in Connections, ConnectionInv(d), UNCHANGED <<db, stamp[d]>>,
           UNCHANGED <<call[d], cached[d], cacheAt[d]>>, writer = d => writer' = d
    PROVE  ConnectionInv(d)'
BY DEF ConnectionInv, StampsArePast, ReadingHolds, WriterHolds, RememberedHolds,
       CacheHolds, In, NotAfter

\* A commit of another connection advances the connection's stamp past all
\* that it holds: nothing it read or cached counts any more.
LEMMA Overtaken ==
    ASSUME TypeOK, NEW d \in Connections, ConnectionInv(d), writer # d,
           stamp'[d] = [others |-> stamp[d].others + 1, own |-> stamp[d].own],
           UNCHANGED <<call[d], cached[d], cacheAt[d]>>
    PROVE  ConnectionInv(d)'
<1>1. stamp[d] \in Stamps /\ cacheAt[d] \in Stamps
    BY DEF TypeOK
<1>2. call[d] # None => call[d].stamp \in Stamps
    BY DEF TypeOK, Calls
<1>3. cacheAt'[d] # stamp'[d] /\ StampsArePast(d)'
    BY <1>1, <1>2 DEF ConnectionInv, StampsArePast, NotAfter, Stamps
<1>4. call'[d] # None => call'[d].stamp # stamp'[d]
    BY <1>1, <1>2 DEF ConnectionInv, StampsArePast, NotAfter, Stamps
<1>5. ~In(d, "insert")' /\ ~In(d, "commit")'
    BY DEF ConnectionInv, WriterHolds, In
<1> QED BY <1>3, <1>4, <1>5
        DEF ConnectionInv, ReadingHolds, WriterHolds, RememberedHolds, CacheHolds, In

\* A call's record is one of a connection's calls.
LEMMA CallTyped ==
    ASSUME TypeOK, NEW c \in Connections, call[c] # None
    PROVE  /\ call[c] \in Calls
           /\ call[c].op \in {"read", "enroll"} /\ call[c].step \in Steps
           /\ call[c].tries \in 1 .. MaxTries /\ call[c].stamp \in Stamps
           /\ call[c].seen \in Versions
BY DEF TypeOK, Calls

\* The membership handed over is current: the invariant survives Deliver.
LEMMA DeliverTyped ==
    ASSUME TypeOK, NEW c \in Connections, call[c] # None, NEW value \in Versions,
           Deliver(c, value)
    PROVE  /\ call' \in [Connections -> Calls \cup {None}]
           /\ answer' \in [Connections -> Versions \cup {None}]
           /\ \A d \in Connections \ {c} : call'[d] = call[d]
           /\ \/ call'[c] = None
              \/ /\ call'[c] # None
                 /\ call'[c].step = "begin" \/ (call'[c].step = "insert" /\ writer = c)
                 /\ call'[c].stamp = call[c].stamp /\ call'[c].seen = value
<1>1. CASE NextStep(c) = "read"
    BY <1>1 DEF Deliver, End, TypeOK
<1>2. CASE NextStep(c) # "read"
    <2>1. NextStep(c) \in {"begin", "insert"} /\ (NextStep(c) = "insert" => writer = c)
        BY <1>2 DEF NextStep
    <2>2. [call[c] EXCEPT !.step = NextStep(c), !.seen = value] \in Calls
        BY <2>1, CallTyped DEF Calls, Steps
    <2>3. call' = [call EXCEPT ![c] = [call[c] EXCEPT !.step = NextStep(c), !.seen = value]]
        BY <1>2 DEF Deliver, TypeOK
    <2>4. call'[c] = [call[c] EXCEPT !.step = NextStep(c), !.seen = value]
        BY <2>3 DEF TypeOK
    <2>5. call'[c].step = NextStep(c) /\ call'[c].seen = value
          /\ call'[c].stamp = call[c].stamp
        BY <2>4, CallTyped DEF Calls
    <2>6. UNCHANGED answer
        BY <1>2 DEF Deliver
    <2> QED BY <2>1, <2>2, <2>3, <2>4, <2>5, <2>6 DEF TypeOK
<1> QED BY <1>1, <1>2

\* A call begins with the stamp the connection has.
LEMMA BeginStep ==
    ASSUME CacheInv, NEW c \in Connections, NEW op \in {"read", "enroll"}, Begin(c, op)
    PROVE  CacheInv'
<1> DEFINE started == [op |-> op, step |-> "look", tries |-> 1, stamp |-> stamp[c],
                       seen |-> [t \in Tables |-> 0]]
<1>1. TypeOK /\ call' = [call EXCEPT ![c] = started] /\ answer' = [answer EXCEPT ![c] = None]
      /\ UNCHANGED <<db, writer, stamp, cached, cacheAt>>
    BY DEF Begin, CacheInv
<1>2. started \in Calls
    BY <1>1 DEF TypeOK, Calls, Steps, Versions
<1>3. TypeOK'
    BY <1>1, <1>2 DEF TypeOK
<1>4. call'[c] = started /\ \A d \in Connections \ {c} : call'[d] = call[d]
    BY <1>1 DEF TypeOK
<1>5. NotAfter(stamp[c], stamp[c])
    BY <1>1 DEF TypeOK, Stamps, NotAfter
<1>6. ConnectionInv(c)'
    BY <1>1, <1>4, <1>5 DEF CacheInv, ConnectionInv, StampsArePast, ReadingHolds,
       WriterHolds, RememberedHolds, CacheHolds, In, Reached, NotAfter
<1>7. ASSUME NEW d \in Connections \ {c} PROVE ConnectionInv(d)'
    BY <1>1, <1>4, Undisturbed DEF CacheInv
<1> QED BY <1>3, <1>6, <1>7 DEF CacheInv

\* What Deliver makes of the invariant when the membership delivered is the
\* database's.
LEMMA DeliverStep ==
    ASSUME CacheInv, NEW c \in Connections, call[c] # None, Deliver(c, db),
           UNCHANGED <<db, stamp, writer>>,
           cached' \in [Connections -> Versions \cup {None}],
           cacheAt' \in [Connections -> Stamps],
           \A d \in Connections \ {c} : cached'[d] = cached[d] /\ cacheAt'[d] = cacheAt[d],
           NotAfter(cacheAt'[c], stamp[c]), CacheHolds(c)'
    PROVE  CacheInv'
<1>1. TypeOK /\ db \in Versions
    BY DEF CacheInv, TypeOK
<1>2. /\ call' \in [Connections -> Calls \cup {None}]
      /\ answer' \in [Connections -> Versions \cup {None}]
      /\ \A d \in Connections \ {c} : call'[d] = call[d]
      /\ \/ call'[c] = None
         \/ /\ call'[c] # None
            /\ call'[c].step = "begin" \/ (call'[c].step = "insert" /\ writer = c)
            /\ call'[c].stamp = call[c].stamp /\ call'[c].seen = db
    BY <1>1, DeliverTyped
<1>3. TypeOK'
    BY <1>1, <1>2 DEF TypeOK
<1>4. StampsArePast(c)'
    BY <1>2 DEF CacheInv, ConnectionInv, StampsArePast, NotAfter
<1>5. ReadingHolds(c)' /\ WriterHolds(c)' /\ RememberedHolds(c)'
    BY <1>2 DEF ReadingHolds, WriterHolds, RememberedHolds, In, Reached
<1>6. ASSUME NEW d \in Connections \ {c} PROVE ConnectionInv(d)'
    BY <1>2, Undisturbed DEF CacheInv
<1> QED BY <1>3, <1>4, <1>5, <1>6 DEF CacheInv, ConnectionInv

\* A hit hands over what the database holds; a miss starts a reading under
\* the present stamp.
LEMMA LookStep ==
    ASSUME CacheInv, NEW c \in Connections, Look(c)
    PROVE  CacheInv'
<1>1. TypeOK /\ ConnectionInv(c) /\ call[c] # None /\ call[c].step = "look"
      /\ cacheAt' = [cacheAt EXCEPT ![c] = stamp[c]] /\ UNCHANGED <<db, writer, stamp>>
    BY DEF CacheInv, Look, In
<1>2. cacheAt' \in [Connections -> Stamps] /\ cacheAt'[c] = stamp[c]
      /\ \A d \in Connections \ {c} : cacheAt'[d] = cacheAt[d]
    BY <1>1 DEF TypeOK
<1>3. NotAfter(stamp[c], stamp[c])
    BY <1>1 DEF TypeOK, Stamps, NotAfter
<1>4. CASE cacheAt[c] = stamp[c] /\ cached[c] # None
    <2>1. cached[c] = db
        BY <1>1, <1>4 DEF ConnectionInv, CacheHolds
    <2>2. Deliver(c, db) /\ UNCHANGED cached
        BY <1>4, <2>1 DEF Look
    <2>3. CacheHolds(c)'
        BY <1>1, <2>1, <2>2 DEF CacheHolds
    <2> QED BY <1>1, <1>2, <1>3, <2>2, <2>3, DeliverStep DEF TypeOK
<1>5. CASE ~(cacheAt[c] = stamp[c] /\ cached[c] # None)
    <2> DEFINE missed == [call[c] EXCEPT !.step = "activation", !.stamp = stamp[c]]
    <2>1. cached' = [cached EXCEPT ![c] = None] /\ UNCHANGED answer
          /\ call' = [call EXCEPT ![c] = missed]
        BY <1>1, <1>5 DEF Look, TypeOK
    <2>2. missed \in Calls
        BY <1>1, CallTyped DEF TypeOK, Calls, Steps
    <2>3. TypeOK'
        BY <1>1, <1>2, <2>1, <2>2 DEF TypeOK
    <2>4. call'[c] = missed /\ cached'[c] = None
          /\ \A d \in Connections \ {c} : call'[d] = call[d] /\ cached'[d] = cached[d]
        BY <1>1, <2>1 DEF TypeOK
    <2>5. missed.step = "activation" /\ missed.stamp = stamp[c]
        BY <1>1, CallTyped DEF Calls
    <2>6. ConnectionInv(c)'
        BY <1>1, <1>2, <1>3, <2>4, <2>5 DEF ConnectionInv, StampsArePast, ReadingHolds,
           WriterHolds, RememberedHolds, CacheHolds, In, Reached, NotAfter
    <2>7. ASSUME NEW d \in Connections \ {c} PROVE ConnectionInv(d)'
        BY <1>1, <1>2, <2>4, Undisturbed DEF CacheInv
    <2> QED BY <2>3, <2>6, <2>7 DEF CacheInv
<1> QED BY <1>4, <1>5

\* A table is read as it is at that moment.
LEMMA ReadTableStep ==
    ASSUME CacheInv, NEW c \in Connections, NEW table \in Tables, ReadTable(c, table)
    PROVE  CacheInv'
<1> DEFINE read == [call[c] EXCEPT !.step = AfterTable[table],
                                   !.seen = [call[c].seen EXCEPT ![table] = db[table]]]
<1>1. TypeOK /\ ConnectionInv(c) /\ call[c] # None /\ call[c].step = table
      /\ UNCHANGED <<db, writer, stamp, cached, cacheAt, answer>>
    BY DEF CacheInv, ReadTable, In
<1>2. call' = [call EXCEPT ![c] = read]
    <2> DEFINE moved == [call EXCEPT ![c].step = AfterTable[table]]
    <2>1. call' = [moved EXCEPT ![c].seen[table] = db[table]]
        BY DEF ReadTable
    <2>2. moved[c] = [call[c] EXCEPT !.step = AfterTable[table]]
        BY <1>1 DEF TypeOK
    <2>3. moved[c].seen = call[c].seen
        BY <1>1, <2>2, CallTyped DEF Calls
    <2>4. [moved[c] EXCEPT !.seen[table] = db[table]] = read
        BY <2>2, <2>3
    <2> QED BY <1>1, <2>1, <2>4 DEF TypeOK
<1>3. call[c] \in Calls /\ call[c].seen \in Versions /\ db \in Versions
    BY <1>1, CallTyped DEF TypeOK
<1>4. AfterTable[table] \in {"history", "enrollments", "check"}
    BY DEF AfterTable, Tables
<1>5. [call[c].seen EXCEPT ![table] = db[table]] \in Versions
    BY <1>3 DEF Versions
<1>6. read \in Calls
    BY <1>3, <1>4, <1>5 DEF Calls, Steps
<1>7. TypeOK'
    BY <1>1, <1>2, <1>6 DEF TypeOK
<1>8. call'[c] = read /\ \A d \in Connections \ {c} : call'[d] = call[d]
    BY <1>1, <1>2 DEF TypeOK
<1>9. read.step = AfterTable[table] /\ read.stamp = call[c].stamp
      /\ read.seen = [call[c].seen EXCEPT ![table] = db[table]]
    BY <1>3 DEF Calls
<1>10. ReadingHolds(c)'
    <2>1. Reached(AfterTable[table]) = Reached(table) \cup {table}
        BY DEF AfterTable, Reached, Tables
    <2>2. \A t \in Tables : read.seen[t] = IF t = table THEN db[t] ELSE call[c].seen[t]
        BY <1>3, <1>9 DEF Versions
    <2>3. Reached(table) \subseteq Tables
        BY DEF Reached, Tables
    <2> QED BY <1>1, <1>8, <1>9, <2>1, <2>2, <2>3 DEF ConnectionInv, ReadingHolds
<1>11. StampsArePast(c)' /\ WriterHolds(c)' /\ RememberedHolds(c)' /\ CacheHolds(c)'
    BY <1>1, <1>4, <1>8, <1>9 DEF ConnectionInv, StampsArePast, WriterHolds,
       RememberedHolds, CacheHolds, In, NotAfter
<1>12. ASSUME NEW d \in Connections \ {c} PROVE ConnectionInv(d)'
    BY <1>1, <1>8, Undisturbed DEF CacheInv
<1> QED BY <1>7, <1>10, <1>11, <1>12 DEF CacheInv, ConnectionInv

\* A step of the caller that commits nothing, writes nothing and moves the
\* call to a step that relies on nothing, or ends it.
LEMMA MovedOn ==
    ASSUME CacheInv, NEW c \in Connections, call[c] # None,
           UNCHANGED <<db, stamp, cached, cacheAt, answer>>,
           NEW step \in {"look", "begin"}, NEW tries \in 1 .. MaxTries,
           call' = [call EXCEPT ![c] = [call[c] EXCEPT !.step = step, !.tries = tries]]
             \/ call' = [call EXCEPT ![c] = None],
           writer' \in Connections \cup {None},
           \A d \in Connections \ {c} : writer = d => writer' = d
    PROVE  CacheInv'
<1> DEFINE moved == [call[c] EXCEPT !.step = step, !.tries = tries]
<1>1. TypeOK /\ ConnectionInv(c)
    BY DEF CacheInv
<1>2. moved \in Calls /\ moved.step = step /\ moved.stamp = call[c].stamp
    <2>1. call[c] \in Calls /\ step \in Steps
        BY <1>1, CallTyped DEF Steps
    <2> QED BY <2>1 DEF Calls
<1>3. TypeOK'
    BY <1>1, <1>2 DEF TypeOK
<1>4. call'[c] \in {moved, None} /\ \A d \in Connections \ {c} : call'[d] = call[d]
    BY <1>1 DEF TypeOK
<1>5. ConnectionInv(c)'
    BY <1>1, <1>2, <1>4 DEF ConnectionInv, StampsArePast, ReadingHolds, WriterHolds,
       RememberedHolds, CacheHolds, In, Reached, NotAfter
<1>6. ASSUME NEW d \in Connections \ {c} PROVE ConnectionInv(d)'
    BY <1>4, Undisturbed DEF CacheInv
<1> QED BY <1>3, <1>5, <1>6 DEF CacheInv

\* A reading that ends under the stamp it began with read one database.
LEMMA ReadingIsCurrent ==
    ASSUME TypeOK, NEW c \in Connections, ConnectionInv(c), call[c] # None,
           call[c].step = "check", StillAt(c)
    PROVE  call[c].seen = db
<1>1. \A t \in Tables : call[c].seen[t] = db[t]
    BY DEF StillAt, ConnectionInv, ReadingHolds, Reached
<1>2. call[c].seen \in Versions /\ db \in Versions
    BY CallTyped DEF TypeOK
<1> QED BY <1>1, <1>2 DEF Versions

\* A reading is used only if no commit fell between its stamp and its end.
LEMMA CheckStep ==
    ASSUME CacheInv, NEW c \in Connections, Check(c)
    PROVE  CacheInv'
<1>1. TypeOK /\ ConnectionInv(c) /\ call[c] # None /\ call[c].step = "check"
      /\ UNCHANGED <<db, stamp>>
    BY DEF CacheInv, Check, In
<1>2. call[c] \in Calls /\ call[c].seen \in Versions /\ call[c].tries \in 1 .. MaxTries
    BY <1>1, CallTyped
<1>3. CASE StillAt(c)
    <2>1. call[c].seen = db
        BY <1>1, <1>3, ReadingIsCurrent DEF CacheInv
    <2>2. /\ cached' = [cached EXCEPT ![c] = db] /\ cacheAt' = [cacheAt EXCEPT ![c] = stamp[c]]
          /\ Deliver(c, db) /\ UNCHANGED writer
        BY <1>3, <2>1 DEF Check, StillAt
    <2>3. /\ cached' \in [Connections -> Versions \cup {None}]
          /\ cacheAt' \in [Connections -> Stamps]
          /\ cacheAt'[c] = stamp[c] /\ cached'[c] = db
          /\ \A d \in Connections \ {c} : cached'[d] = cached[d] /\ cacheAt'[d] = cacheAt[d]
        BY <1>1, <2>2 DEF TypeOK
    <2>4. NotAfter(stamp[c], stamp[c])
        BY <1>1 DEF TypeOK, Stamps, NotAfter
    <2>5. CacheHolds(c)'
        BY <1>1, <2>3 DEF CacheHolds
    <2> QED BY <1>1, <2>2, <2>3, <2>4, <2>5, DeliverStep
<1>4. CASE ~StillAt(c)
    <2>1. UNCHANGED <<cached, cacheAt, answer>>
        BY <1>4 DEF Check
    <2>2. CASE TriesLeft(c)
        <3>1. call' = [call EXCEPT ![c] =
                  [call[c] EXCEPT !.step = "look", !.tries = call[c].tries + 1]]
            <4> DEFINE half == [call EXCEPT ![c].step = "look"]
            <4>1. call' = [half EXCEPT ![c].tries = half[c].tries + 1]
                BY <1>4, <2>2 DEF Check
            <4>2. half[c] = [call[c] EXCEPT !.step = "look"]
                BY <1>1 DEF TypeOK
            <4>3. half[c].tries = call[c].tries
                BY <1>2, <4>2 DEF Calls
            <4>4. [half[c] EXCEPT !.tries = half[c].tries + 1]
                  = [call[c] EXCEPT !.step = "look", !.tries = call[c].tries + 1]
                BY <4>2, <4>3
            <4>5. call' = [half EXCEPT ![c] = [half[c] EXCEPT !.tries = half[c].tries + 1]]
                BY <4>1
            <4> QED BY <1>1, <4>4, <4>5 DEF TypeOK
        <3>2. call[c].tries + 1 \in 1 .. MaxTries
            BY <1>2, <2>2 DEF TriesLeft
        <3>3. UNCHANGED writer
            BY <1>4, <2>2 DEF Check
        <3> QED BY <1>1, <2>1, <3>1, <3>2, <3>3, MovedOn DEF TypeOK
    <2>3. CASE ~TriesLeft(c)
        <3>1. call' = [call EXCEPT ![c] = None] /\ Release(c)
            BY <1>4, <2>3 DEF Check, End
        <3> QED BY <1>1, <1>2, <2>1, <3>1, MovedOn DEF TypeOK, Release
    <2> QED BY <2>2, <2>3
<1> QED BY <1>3, <1>4

\* The transaction starts, or times out; the membership is looked up again.
LEMMA BeginWriteStep ==
    ASSUME CacheInv, NEW c \in Connections, BeginWrite(c)
    PROVE  CacheInv'
<1>1. TypeOK /\ call[c] # None /\ UNCHANGED <<db, stamp, cached, cacheAt, answer>>
    BY DEF CacheInv, BeginWrite, In
<1>2. call[c] \in Calls /\ 1 \in 1 .. MaxTries
    BY <1>1, CallTyped
<1>3. CASE writer = None /\ writer' = c
           /\ call' = [call EXCEPT ![c].step = FirstInside, ![c].tries = 1]
    <2>1. call' = [call EXCEPT ![c] = [call[c] EXCEPT !.step = "look", !.tries = 1]]
        BY <1>1, <1>3 DEF TypeOK, FirstInside
    <2> QED BY <1>1, <1>2, <1>3, <2>1, MovedOn
<1>4. CASE writer # None /\ End(c) /\ UNCHANGED writer
    BY <1>1, <1>2, <1>4, MovedOn DEF End, TypeOK
<1> QED BY <1>3, <1>4 DEF BeginWrite

\* The row is inserted over the membership checked, and the connection's own
\* stamp leaves its cache behind.
LEMMA InsertStep ==
    ASSUME CacheInv, NEW c \in Connections, Insert(c)
    PROVE  CacheInv'
<1>1. TypeOK /\ ConnectionInv(c) /\ call[c] # None /\ call[c].step = "insert"
      /\ UNCHANGED <<db, cached, cacheAt, answer>>
    BY DEF CacheInv, Insert, In
<1>2. call[c] \in Calls /\ stamp[c] \in Stamps /\ cacheAt[c] \in Stamps
    BY <1>1, CallTyped DEF TypeOK
<1>3. CASE End(c) /\ Release(c) /\ UNCHANGED stamp
    <2>1. call[c].tries \in 1 .. MaxTries
        BY <1>1, CallTyped
    <2> QED BY <1>1, <1>3, <2>1, MovedOn DEF End, Release, TypeOK
<1>4. CASE /\ stamp' = OwnChange(c)
           /\ call' = [call EXCEPT ![c].step = "commit", ![c].stamp = OwnChange(c)[c]]
           /\ UNCHANGED writer
    <2> DEFINE own == [stamp[c] EXCEPT !.own = stamp[c].own + 1]
               written == [call[c] EXCEPT !.step = "commit", !.stamp = own]
    <2>1. stamp' = [stamp EXCEPT ![c] = own] /\ OwnChange(c)[c] = own
        BY <1>1, <1>4 DEF OwnChange, TypeOK
    <2>2. call' = [call EXCEPT ![c] = written]
        BY <1>1, <1>4, <2>1 DEF TypeOK
    <2>3. own \in Stamps /\ own.others = stamp[c].others /\ own.own = stamp[c].own + 1
        BY <1>2 DEF Stamps
    <2>4. written \in Calls /\ written.step = "commit" /\ written.stamp = own
          /\ written.seen = call[c].seen
        BY <1>2, <2>3 DEF Calls, Steps
    <2>5. TypeOK'
        BY <1>1, <1>4, <2>1, <2>2, <2>3, <2>4 DEF TypeOK
    <2>6. /\ call'[c] = written /\ stamp'[c] = own
          /\ \A d \in Connections \ {c} : call'[d] = call[d] /\ stamp'[d] = stamp[d]
        BY <1>1, <2>1, <2>2 DEF TypeOK
    <2>7. NotAfter(cacheAt[c], own) /\ NotAfter(own, own) /\ cacheAt[c].own < own.own
        BY <1>1, <1>2, <2>3 DEF ConnectionInv, StampsArePast, NotAfter, Stamps
    <2>8. StampsArePast(c)' /\ ReadingHolds(c)' /\ RememberedHolds(c)'
        BY <1>1, <2>4, <2>6, <2>7 DEF StampsArePast, NotAfter, ReadingHolds, Reached,
           RememberedHolds, In
    <2>9. WriterHolds(c)' /\ CacheHolds(c)'
        <3>1. writer = c /\ call[c].seen = db
            BY <1>1 DEF ConnectionInv, WriterHolds, In
        <3>2. cacheAt[c] # own
            BY <1>2, <2>3, <2>7 DEF Stamps
        <3> QED BY <1>1, <1>4, <2>4, <2>6, <2>7, <3>1, <3>2 DEF WriterHolds, CacheHolds, In
    <2>10. ASSUME NEW d \in Connections \ {c} PROVE ConnectionInv(d)'
        BY <1>1, <1>4, <2>6, Undisturbed DEF CacheInv
    <2> QED BY <2>5, <2>8, <2>9, <2>10 DEF CacheInv, ConnectionInv
<1> QED BY <1>3, <1>4 DEF Insert

\* A commit makes the other connections' stamps new; the writer remembers the
\* database it wrote.
LEMMA CommitStep ==
    ASSUME CacheInv, NEW c \in Connections, Commit(c)
    PROVE  CacheInv'
<1>1. TypeOK /\ ConnectionInv(c) /\ call[c] # None /\ call[c].step = "commit" /\ Release(c)
      /\ UNCHANGED <<cached, cacheAt, answer>>
    BY DEF CacheInv, Commit, In
<1>2. writer = c /\ writer' = None /\ call[c].seen = db /\ cacheAt[c].own < stamp[c].own
    BY <1>1 DEF ConnectionInv, WriterHolds, In, Release
<1>3. call[c] \in Calls /\ stamp[c] \in Stamps /\ cacheAt[c] \in Stamps /\ db \in Versions
    BY <1>1, CallTyped DEF TypeOK
<1>4. CASE UNCHANGED <<db, stamp>> /\ End(c)
    <2>1. call[c].tries \in 1 .. MaxTries
        BY <1>1, CallTyped
    <2> QED BY <1>1, <1>2, <1>4, <2>1, MovedOn DEF End
<1>5. CASE Committed(c, "enrollments") /\ Go(c, "remember")
    <2> DEFINE done == [call[c] EXCEPT !.step = "remember"]
    <2>1. db' = [db EXCEPT !["enrollments"] = @ + 1]
        BY <1>5 DEF Committed
    <2>2. call' = [call EXCEPT ![c] = done]
        BY <1>1, <1>5 DEF Go, TypeOK
    <2>3. done \in Calls /\ done.step = "remember" /\ done.seen = db
          /\ done.stamp = call[c].stamp
        BY <1>2, <1>3 DEF Calls, Steps
    <2>4. call'[c] = done /\ stamp'[c] = stamp[c]
          /\ \A d \in Connections \ {c} :
                 /\ call'[d] = call[d]
                 /\ stamp'[d] = [others |-> stamp[d].others + 1, own |-> stamp[d].own]
        BY <1>1, <1>5, <2>2 DEF TypeOK, Committed
    <2>5. TypeOK'
        <3>1. db' \in Versions
            BY <1>3, <2>1 DEF Versions, Tables
        <3>2. stamp' \in [Connections -> Stamps]
            BY <1>1, <1>5 DEF TypeOK, Committed, Stamps
        <3> QED BY <1>1, <1>2, <2>2, <2>3, <3>1, <3>2 DEF TypeOK
    <2>6. StampsArePast(c)' /\ ReadingHolds(c)' /\ WriterHolds(c)'
        BY <1>1, <2>3, <2>4 DEF ConnectionInv, StampsArePast, NotAfter, ReadingHolds, Reached,
           WriterHolds, In
    <2>7. RememberedHolds(c)'
        BY <2>1, <2>3, <2>4 DEF RememberedHolds
    <2>8. CacheHolds(c)'
        BY <1>1, <1>2, <1>3, <2>4 DEF CacheHolds, Stamps
    <2>9. ASSUME NEW d \in Connections \ {c} PROVE ConnectionInv(d)'
        BY <1>1, <1>2, <2>4, Overtaken DEF CacheInv
    <2> QED BY <2>5, <2>6, <2>7, <2>8, <2>9 DEF CacheInv, ConnectionInv
<1> QED BY <1>4, <1>5 DEF Commit

\* What is remembered after the commit is only worth something while nothing
\* was committed since.
LEMMA RememberStep ==
    ASSUME CacheInv, NEW c \in Connections, Remember(c)
    PROVE  CacheInv'
<1> DEFINE written == [call[c].seen EXCEPT !["enrollments"] = @ + 1]
<1>1. TypeOK /\ ConnectionInv(c) /\ call[c] # None /\ call[c].step = "remember"
      /\ UNCHANGED <<db, writer, stamp, answer>> /\ call' = [call EXCEPT ![c] = None]
      /\ cached' = [cached EXCEPT ![c] = written]
      /\ cacheAt' = [cacheAt EXCEPT ![c] = call[c].stamp]
    BY DEF CacheInv, Remember, In, End, StampTaken
<1>2. written \in Versions /\ call[c].stamp \in Stamps
    <2>1. call[c].seen \in Versions /\ call[c].stamp \in Stamps
        BY <1>1, CallTyped
    <2> QED BY <2>1 DEF Versions, Tables
<1>3. TypeOK'
    BY <1>1, <1>2 DEF TypeOK
<1>4. /\ call'[c] = None /\ cached'[c] = written /\ cacheAt'[c] = call[c].stamp
      /\ \A d \in Connections \ {c} :
             call'[d] = call[d] /\ cached'[d] = cached[d] /\ cacheAt'[d] = cacheAt[d]
    BY <1>1 DEF TypeOK
<1>5. CacheHolds(c)'
    BY <1>1, <1>4 DEF ConnectionInv, RememberedHolds, CacheHolds, In
<1>6. StampsArePast(c)' /\ ReadingHolds(c)' /\ WriterHolds(c)' /\ RememberedHolds(c)'
    BY <1>1, <1>4 DEF ConnectionInv, StampsArePast, NotAfter, ReadingHolds, WriterHolds,
       RememberedHolds, In
<1>7. ASSUME NEW d \in Connections \ {c} PROVE ConnectionInv(d)'
    BY <1>1, <1>4, Undisturbed DEF CacheInv
<1> QED BY <1>3, <1>5, <1>6, <1>7 DEF CacheInv, ConnectionInv

\* Another transaction's commit overtakes every connection, its own included.
LEMMA OtherWriteStep ==
    ASSUME CacheInv, NEW c \in Connections, NEW table \in Tables, OtherWrite(c, table)
    PROVE  CacheInv'
<1> DEFINE own == [stamp[c] EXCEPT !.own = stamp[c].own + 1]
<1>1. TypeOK /\ ConnectionInv(c) /\ call[c] = None /\ writer = None
      /\ db' = [db EXCEPT ![table] = @ + 1]
      /\ UNCHANGED <<writer, cached, cacheAt, call, answer>>
    BY DEF CacheInv, OtherWrite
<1>2. stamp[c] \in Stamps /\ cacheAt[c] \in Stamps
    BY <1>1 DEF TypeOK
<1>3. own \in Stamps /\ own.own = stamp[c].own + 1 /\ own.others = stamp[c].others
    BY <1>2 DEF Stamps
<1>4. OwnChange(c)[c] = own
    BY <1>1 DEF OwnChange, TypeOK
<1>5. stamp' = [d \in Connections |->
          IF d = c THEN own ELSE [others |-> stamp[d].others + 1, own |-> stamp[d].own]]
    BY <1>4 DEF OtherWrite
<1>6. TypeOK'
    <2>1. db' \in Versions
        BY <1>1 DEF TypeOK, Versions
    <2>2. stamp' \in [Connections -> Stamps]
        BY <1>1, <1>3, <1>5 DEF TypeOK, Stamps
    <2> QED BY <1>1, <2>1, <2>2 DEF TypeOK
<1>7. NotAfter(cacheAt[c], own) /\ cacheAt[c] # own
    BY <1>1, <1>2, <1>3 DEF ConnectionInv, StampsArePast, NotAfter, Stamps
<1>8. ConnectionInv(c)'
    BY <1>1, <1>5, <1>7 DEF ConnectionInv, StampsArePast, ReadingHolds, WriterHolds,
       RememberedHolds, CacheHolds, In
<1>9. ASSUME NEW d \in Connections \ {c} PROVE ConnectionInv(d)'
    BY <1>1, <1>5, Overtaken DEF CacheInv
<1> QED BY <1>6, <1>8, <1>9 DEF CacheInv

\* Every step of every connection preserves the invariant.
LEMMA CacheStep == CacheInv /\ [Next]_vars => CacheInv'
<1> SUFFICES ASSUME CacheInv, [Next]_vars PROVE CacheInv'
    OBVIOUS
<1>1. CASE UNCHANGED vars
    BY <1>1 DEF vars, CacheInv, TypeOK, ConnectionInv, StampsArePast, ReadingHolds,
       WriterHolds, RememberedHolds, CacheHolds, In, NotAfter
<1>2. ASSUME NEW c \in Connections, NEW op \in {"read", "enroll"}, Begin(c, op)
      PROVE  CacheInv'
    BY <1>2, BeginStep
<1>3. ASSUME NEW c \in Connections,
             \/ Look(c) \/ Check(c) \/ BeginWrite(c) \/ Insert(c) \/ Commit(c) \/ Remember(c)
      PROVE  CacheInv'
    BY <1>3, LookStep, CheckStep, BeginWriteStep, InsertStep, CommitStep, RememberStep
<1>4. ASSUME NEW c \in Connections, NEW t \in Tables, ReadTable(c, t) \/ OtherWrite(c, t)
      PROVE  CacheInv'
    BY <1>4, ReadTableStep, OtherWriteStep
<1> QED BY <1>1, <1>2, <1>3, <1>4 DEF Next

\* The invariant is one of every behaviour of the cache.
LEMMA CacheInvariant == Spec => []CacheInv
BY CacheInit, CacheStep, PTL DEF Spec

\* Every state of the cache is well formed (enrollments.py _stamp, _cache).
THEOREM CacheTyped == Spec => []TypeOK
<1>1. CacheInv => TypeOK
    BY DEF CacheInv
<1> QED BY <1>1, CacheInvariant, PTL

\* However many connections commit in whatever order, a cached membership that
\* membership() would hand out is the one the database holds (_cache,
\* _remember).
THEOREM CacheStaysCurrent == Spec => []CacheIsCurrent
<1>1. CacheInv => CacheIsCurrent
    BY DEF CacheInv, ConnectionInv, CacheHolds, CacheIsCurrent
<1> QED BY <1>1, CacheInvariant, PTL

\* accept() never commits an enrollment onto a membership other than the one
\* it checked the proof against.
THEOREM EnrolledOntoWhatWasChecked == Spec => []EnrolledOnCurrent
<1>1. CacheInv => EnrolledOnCurrent
    BY DEF CacheInv, ConnectionInv, WriterHolds, EnrolledOnCurrent
<1> QED BY <1>1, CacheInvariant, PTL

\* A step of a connection answers, if anyone, its own caller, with the
\* database's membership.
LEMMA AnswerStep ==
    ASSUME CacheInv, NEW c \in Connections, Look(c) \/ Check(c)
    PROVE  answer' \in {answer, [answer EXCEPT ![c] = db]}
<1>1. CASE Look(c)
    <2>1. cacheAt[c] = stamp[c] /\ cached[c] # None => cached[c] = db
        BY DEF CacheInv, ConnectionInv, CacheHolds
    <2> QED BY <1>1, <2>1 DEF Look, Deliver
<1>2. CASE Check(c)
    <2>1. StillAt(c) => call[c].seen = db
        BY <1>2, ReadingIsCurrent DEF CacheInv, Check, In
    <2> QED BY <1>2, <2>1 DEF Check, Deliver
<1> QED BY <1>1, <1>2

\* membership() never returns a mixture of tables from before and after another
\* connection's commit: the answer is what the database holds as it is given.
THEOREM NoTornMembership == Spec => AnswersAreCurrent
<1> DEFINE Current == \A c \in Connections :
                          answer'[c] \notin {None, answer[c]} => answer'[c] = db
<1>1. CacheInv /\ [Next]_vars => [Current]_vars
    <2> SUFFICES ASSUME CacheInv, Next PROVE Current
        BY DEF vars
    <2>1. TypeOK
        BY DEF CacheInv
    <2>2. PICK c \in Connections :
              \/ \E op \in {"read", "enroll"} : Begin(c, op)
              \/ Look(c) \/ Check(c) \/ BeginWrite(c) \/ Insert(c) \/ Commit(c) \/ Remember(c)
              \/ \E t \in Tables : ReadTable(c, t) \/ OtherWrite(c, t)
        BY DEF Next
    <2>3. CASE Look(c) \/ Check(c)
        <3>1. db' = db
            BY <2>3 DEF Look, Check
        <3> QED BY <2>1, <2>3, <3>1, AnswerStep DEF TypeOK
    <2>4. CASE \E op \in {"read", "enroll"} : Begin(c, op)
        BY <2>1, <2>4 DEF Begin, TypeOK
    <2>5. CASE BeginWrite(c) \/ Insert(c) \/ Commit(c) \/ Remember(c)
        BY <2>5 DEF BeginWrite, Insert, Commit, Remember
    <2>6. CASE \E t \in Tables : ReadTable(c, t) \/ OtherWrite(c, t)
        BY <2>6 DEF ReadTable, OtherWrite
    <2> QED BY <2>2, <2>3, <2>4, <2>5, <2>6
<1> QED BY <1>1, CacheInvariant, PTL DEF AnswersAreCurrent, Spec, Current
-----------------------------------------------------------------------------
(***************************************************************************)
(* The write lock.  That the holder is enrolling is inductive once it is   *)
(* known that only an enrollment begins a transaction, and that the        *)
(* transaction is over when the new membership is remembered.              *)
(***************************************************************************)
HolderInv(c) ==
    /\ writer = c => call[c] # None /\ call[c].op = "enroll"
    /\ In(c, "begin") => call[c].op = "enroll" /\ writer # c
    /\ In(c, "remember") => writer # c

\* A connection that an action leaves alone keeps its part of the invariant,
\* if the action does not give it the lock.
LEMMA Bystander ==
    ASSUME NEW d \in Connections, HolderInv(d), call'[d] = call[d],
           writer' = d => writer = d
    PROVE  HolderInv(d)'
BY DEF HolderInv, In

\* Handing over the membership ends a reading, and leads an enrollment to its
\* transaction or on to its check.
LEMMA DeliverKeepsHolder ==
    ASSUME TypeOK, NEW c \in Connections, call[c] # None, HolderInv(c),
           NEW value \in Versions, Deliver(c, value), writer' = writer
    PROVE  HolderInv(c)'
<1>1. CASE call[c].op = "read"
    <2>1. call'[c] = None
        BY <1>1 DEF Deliver, NextStep, End, TypeOK
    <2> QED BY <1>1, <2>1 DEF HolderInv, In
<1>2. CASE call[c].op # "read"
    <2>1. /\ call[c].op = "enroll" /\ NextStep(c) \in {"insert", "begin"}
          /\ NextStep(c) = "begin" => writer # c
        BY <1>2, CallTyped DEF NextStep
    <2>2. call' = [call EXCEPT ![c] = [call[c] EXCEPT !.step = NextStep(c), !.seen = value]]
        BY <2>1 DEF Deliver, TypeOK
    <2>3. call'[c].op = "enroll" /\ call'[c].step = NextStep(c)
        BY <2>1, <2>2, CallTyped DEF TypeOK, Calls
    <2>4. call'[c] # None
        BY <2>1, <2>2, CallTyped DEF TypeOK, Calls, Steps
    <2> QED BY <2>1, <2>3, <2>4 DEF HolderInv, In
<1> QED BY <1>1, <1>2

\* A step of a call that only moves on to step, within the same operation.
LEMMA MovesOn ==
    ASSUME TypeOK, NEW c \in Connections, call[c] # None, HolderInv(c),
           NEW step \in Steps \ {"begin", "remember"}, NEW next \in Calls,
           next.op = call[c].op, next.step = step, call'[c] = next,
           writer' = c => writer = c \/ call[c].op = "enroll"
    PROVE  HolderInv(c)'
<1>1. call'[c] # None
    OBVIOUS
<1> QED BY <1>1 DEF HolderInv, In

\* A call that ends has no lock any more.
LEMMA EndsUnlocked ==
    ASSUME TypeOK, NEW c \in Connections, End(c), writer' # c
    PROVE  HolderInv(c)'
<1>1. call'[c] = None
    BY DEF End, TypeOK
<1> QED BY <1>1 DEF HolderInv, In

\* Every action keeps the part of the invariant about the connection it is of.
LEMMA OwnHolder ==
    ASSUME TypeOK, NEW c \in Connections, HolderInv(c),
           \/ \E op \in {"read", "enroll"} : Begin(c, op)
           \/ Look(c) \/ Check(c) \/ BeginWrite(c) \/ Insert(c) \/ Commit(c) \/ Remember(c)
           \/ \E t \in Tables : ReadTable(c, t) \/ OtherWrite(c, t)
    PROVE  HolderInv(c)'
<1>1. ASSUME NEW op \in {"read", "enroll"}, Begin(c, op) PROVE HolderInv(c)'
    <2>1. call[c] = None /\ writer' = writer /\ call'[c].step = "look"
        BY <1>1 DEF Begin, TypeOK
    <2> QED BY <2>1 DEF HolderInv, In
<1>2. CASE Look(c)
    <2>1. call[c] # None /\ writer' = writer
        BY <1>2 DEF Look, In
    <2>2. CASE cached[c] # None /\ Deliver(c, cached[c])
        BY <2>1, <2>2, DeliverKeepsHolder DEF TypeOK
    <2>3. CASE call' = [call EXCEPT ![c].step = "activation", ![c].stamp = stamp[c]]
        <3> DEFINE next == [call[c] EXCEPT !.step = "activation", !.stamp = stamp[c]]
        <3>1. call'[c] = next
            BY <2>3 DEF TypeOK
        <3>2. next \in Calls /\ next.op = call[c].op /\ next.step = "activation"
            BY <2>1, CallTyped DEF TypeOK, Calls, Steps
        <3> HIDE DEF next
        <3> QED BY <2>1, <3>1, <3>2, MovesOn DEF Steps
    <2> QED BY <1>2, <2>2, <2>3 DEF Look
<1>3. CASE Check(c)
    <2>1. call[c] # None
        BY <1>3 DEF Check, In
    <2>2. CASE Deliver(c, call[c].seen) /\ UNCHANGED writer
        BY <2>1, <2>2, CallTyped, DeliverKeepsHolder
    <2>3. CASE TriesLeft(c) /\ call' = [call EXCEPT ![c].step = "look", ![c].tries = @ + 1]
               /\ UNCHANGED writer
        <3> DEFINE next == [call[c] EXCEPT !.step = "look", !.tries = @ + 1]
        <3>1. call'[c] = next
            BY <2>3 DEF TypeOK
        <3>2. next \in Calls /\ next.op = call[c].op /\ next.step = "look"
            BY <2>1, <2>3, CallTyped DEF TypeOK, Calls, Steps, TriesLeft
        <3> HIDE DEF next
        <3> QED BY <2>1, <2>3, <3>1, <3>2, MovesOn DEF Steps
    <2>4. CASE End(c) /\ Release(c)
        BY <2>4, EndsUnlocked DEF Release
    <2> QED BY <1>3, <2>2, <2>3, <2>4 DEF Check
<1>4. CASE BeginWrite(c)
    <2>1. call[c] # None /\ call[c].op = "enroll"
        BY <1>4 DEF BeginWrite, HolderInv, In
    <2>2. CASE writer = None /\ call' = [call EXCEPT ![c].step = FirstInside, ![c].tries = 1]
        <3> DEFINE next == [call[c] EXCEPT !.step = FirstInside, !.tries = 1]
        <3>1. call'[c] = next
            BY <2>2 DEF TypeOK
        <3>2. 1 \in 1 .. MaxTries
            OBVIOUS
        <3>3. next \in Calls /\ next.op = call[c].op /\ next.step = "look"
            BY <2>1, <3>2, CallTyped DEF Calls, Steps, FirstInside
        <3> HIDE DEF next
        <3> QED BY <2>1, <3>1, <3>3, MovesOn DEF Steps
    <2>3. CASE End(c) /\ UNCHANGED writer /\ writer # c
        BY <2>3, EndsUnlocked
    <2> QED BY <1>4, <2>2, <2>3 DEF BeginWrite, HolderInv
<1>5. CASE Insert(c)
    <2>1. call[c] # None
        BY <1>5 DEF Insert, In
    <2>2. CASE End(c) /\ Release(c)
        BY <2>2, EndsUnlocked DEF Release
    <2>3. CASE call' = [call EXCEPT ![c].step = "commit", ![c].stamp = OwnChange(c)[c]]
               /\ UNCHANGED writer
        <3> DEFINE next == [call[c] EXCEPT !.step = "commit", !.stamp = OwnChange(c)[c]]
        <3>1. call'[c] = next
            BY <2>3 DEF TypeOK
        <3>2. OwnChange(c)[c] \in Stamps
            BY DEF OwnChange, TypeOK, Stamps
        <3>3. next \in Calls /\ next.op = call[c].op /\ next.step = "commit"
            BY <2>1, <3>2, CallTyped DEF Calls, Steps
        <3> HIDE DEF next
        <3> QED BY <2>1, <2>3, <3>1, <3>3, MovesOn DEF Steps
    <2> QED BY <1>5, <2>2, <2>3 DEF Insert
<1>6. CASE Commit(c)
    <2>1. call[c] # None /\ writer' # c
        BY <1>6 DEF Commit, In, Release
    <2>2. CASE End(c)
        BY <2>1, <2>2, EndsUnlocked
    <2>3. CASE Go(c, "remember")
        <3>1. call'[c].step = "remember"
            BY <2>1, <2>3, CallTyped DEF Go, TypeOK, Calls
        <3> QED BY <2>1, <3>1 DEF HolderInv, In
    <2> QED BY <1>6, <2>2, <2>3 DEF Commit
<1>7. CASE Remember(c)
    <2>1. End(c) /\ writer' # c
        BY <1>7 DEF Remember, HolderInv
    <2> QED BY <2>1, EndsUnlocked
<1>8. ASSUME NEW t \in Tables, ReadTable(c, t) PROVE HolderInv(c)'
    <2>1. call[c] # None /\ writer' = writer
        BY <1>8 DEF ReadTable, In
    <2> DEFINE next == [call[c] EXCEPT !.step = AfterTable[t], !.seen[t] = db[t]]
    <2>2. AfterTable[t] \in Steps \ {"begin", "remember"}
        BY DEF AfterTable, Tables, Steps
    <2>3. call'[c] = next
        BY <1>8 DEF ReadTable, TypeOK
    <2>4. next \in Calls /\ next.op = call[c].op /\ next.step = AfterTable[t]
        BY <2>1, <2>2, CallTyped DEF TypeOK, Calls, Versions
    <2> HIDE DEF next
    <2> QED BY <2>1, <2>2, <2>3, <2>4, MovesOn
<1>9. ASSUME NEW t \in Tables, OtherWrite(c, t) PROVE HolderInv(c)'
    BY <1>9 DEF OtherWrite, HolderInv, In
<1> QED BY <1>1, <1>2, <1>3, <1>4, <1>5, <1>6, <1>7, <1>8, <1>9

\* No action touches the call of another connection or gives it the lock.
LEMMA OthersUntouched ==
    ASSUME TypeOK, NEW c \in Connections, NEW d \in Connections \ {c},
           \/ \E op \in {"read", "enroll"} : Begin(c, op)
           \/ Look(c) \/ Check(c) \/ BeginWrite(c) \/ Insert(c) \/ Commit(c) \/ Remember(c)
           \/ \E t \in Tables : ReadTable(c, t) \/ OtherWrite(c, t)
    PROVE  call'[d] = call[d] /\ (writer' = d => writer = d)
<1>1. CASE \E op \in {"read", "enroll"} : Begin(c, op)
    BY <1>1 DEF Begin, TypeOK
<1>2. CASE Look(c)
    BY <1>2 DEF Look, Deliver, End, TypeOK
<1>3. CASE Check(c)
    BY <1>3 DEF Check, Deliver, End, Release, TypeOK
<1>4. CASE BeginWrite(c) \/ Insert(c) \/ Commit(c) \/ Remember(c)
    BY <1>4 DEF BeginWrite, Insert, Commit, Remember, Go, End, Release, TypeOK
<1>5. CASE \E t \in Tables : ReadTable(c, t) \/ OtherWrite(c, t)
    BY <1>5 DEF ReadTable, OtherWrite, TypeOK
<1> QED BY <1>1, <1>2, <1>3, <1>4, <1>5

\* Whatever accept() runs into, the write lock is only ever held by a
\* connection that is in the middle of it (the rollback in its finally).
THEOREM NoAbandonedTransaction == Spec => []WriterIsEnrolling
<1>1. Init => \A c \in Connections : HolderInv(c)
    BY DEF Init, HolderInv, In
<1>2. TypeOK /\ (\A c \in Connections : HolderInv(c)) /\ [Next]_vars
        => (\A c \in Connections : HolderInv(c))'
    <2> SUFFICES ASSUME TypeOK, \A c \in Connections : HolderInv(c), [Next]_vars,
                        NEW d \in Connections
                 PROVE  HolderInv(d)'
        OBVIOUS
    <2>1. CASE UNCHANGED vars
        BY <2>1 DEF vars, HolderInv, In
    <2>2. CASE Next
        <3>1. PICK c \in Connections :
                  \/ \E op \in {"read", "enroll"} : Begin(c, op)
                  \/ Look(c) \/ Check(c) \/ BeginWrite(c) \/ Insert(c) \/ Commit(c) \/ Remember(c)
                  \/ \E t \in Tables : ReadTable(c, t) \/ OtherWrite(c, t)
            BY <2>2 DEF Next
        <3>2. CASE d = c
            BY <3>1, <3>2, OwnHolder
        <3>3. CASE d # c
            <4>1. call'[d] = call[d] /\ (writer' = d => writer = d)
                BY <3>1, <3>3, OthersUntouched
            <4> QED BY <4>1, Bystander
        <3> QED BY <3>2, <3>3
    <2> QED BY <2>1, <2>2
<1>3. (\A c \in Connections : HolderInv(c)) => WriterIsEnrolling
    BY DEF HolderInv, WriterIsEnrolling
<1> QED BY <1>1, <1>2, <1>3, CacheTyped, PTL DEF Spec
=============================================================================
