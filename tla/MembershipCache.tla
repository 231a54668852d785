-------------------------- MODULE MembershipCache --------------------------
(***************************************************************************)
(* The membership of a vault as enrollments.py reads it, caches it and     *)
(* checks enrollments against it, with several connections to one          *)
(* commitment database.                                                    *)
(*                                                                         *)
(* What a table holds is a version number, raised by each transaction that *)
(* changes it: two readings of the membership are equal when the versions  *)
(* are.  A connection's stamp is SQLite's data_version, which other        *)
(* connections' commits advance, and its own total_changes, which its      *)
(* writes advance even when they are rolled back.  A connection's lock     *)
(* serializes its calls; SQLite's reserved lock serializes writers; reads  *)
(* of different tables are separate statements, so a commit of another     *)
(* connection may fall between them.                                       *)
(***************************************************************************)
EXTENDS Integers

CONSTANTS
    Connections,
    None,
    MaxTries,      \* 3 attempts at a consistent reading
    MaxVersion,    \* bound: versions of a table
    MaxChanges     \* bound: changes a connection makes, committed or not

Tables == {"activation", "history", "enrollments"}
Versions == [Tables -> Nat]
Stamps == [others : Nat, own : Nat]
Steps == {"look", "activation", "history", "enrollments", "check",
          "begin", "insert", "commit", "remember"}
Calls == [op : {"read", "enroll"}, step : Steps, tries : 1 .. MaxTries, stamp : Stamps,
          seen : Versions]

ASSUME NoneAssumption == None \notin Connections \cup Calls \cup Versions
ASSUME NumbersAssumption == 
    MaxTries \in Nat \ {0} /\ MaxVersion \in Nat /\ MaxChanges \in Nat

VARIABLES
    db,        \* what is committed
    writer,    \* the connection in BEGIN IMMEDIATE .. COMMIT, or None
    stamp,     \* what _stamp reads on each connection
    cached,    \* the vault's entry in _membership_cache, or None
    cacheAt,   \* _membership_cache_stamp
    call,      \* what a connection is doing, or None
    answer     \* history: the membership the last reading returned, or None

vars == <<db, writer, stamp, cached, cacheAt, call, answer>>

In(c, step) == call[c] # None /\ call[c].step = step
Go(c, step) == call' = [call EXCEPT ![c].step = step]
End(c) == call' = [call EXCEPT ![c] = None]

\* Fault: a call that fails leaves its transaction open.
KeepLock(c) == writer' = writer

\* COMMIT, or the rollback accept() ends with.
Release(c) == writer' = IF writer = c THEN None ELSE writer

\* The commit of a write to one table, as the connections see it.
Committed(c, table) ==
    /\ db' = [db EXCEPT ![table] = @ + 1]
    /\ stamp' = [d \in Connections |->
           IF d = c THEN stamp[d]
           ELSE [others |-> stamp[d].others + 1, own |-> stamp[d].own]]
-----------------------------------------------------------------------------
\* membership() or accept() is called.
Begin(c, op) ==
    /\ call[c] = None
    /\ call' = [call EXCEPT ![c] = [op |-> op, step |-> "look", tries |-> 1,
                                    stamp |-> stamp[c],
                                    seen |-> [t \in Tables |-> 0]]]
    /\ answer' = [answer EXCEPT ![c] = None]
    /\ UNCHANGED <<db, writer, stamp, cached, cacheAt>>

\* A membership obtained outside the transaction leads to it; one obtained
\* inside is what the enrollment is checked against.
NextStep(c) ==
    IF call[c].op = "read" THEN "read" ELSE IF writer = c THEN "insert" ELSE "begin"

\* Hand the membership to whoever asked.
Deliver(c, value) ==
    IF NextStep(c) = "read"
    THEN /\ End(c)
         /\ answer' = [answer EXCEPT ![c] = value]
    ELSE /\ call' = [call EXCEPT ![c].step = NextStep(c), ![c].seen = value]
         /\ UNCHANGED answer

\* The stamp is read; a cache of another stamp is cleared; a hit is the answer.
Look(c) ==
    /\ In(c, "look")
    /\ cacheAt' = [cacheAt EXCEPT ![c] = stamp[c]]
    /\ \/ /\ cacheAt[c] = stamp[c] /\ cached[c] # None
          /\ Deliver(c, cached[c])
          /\ UNCHANGED cached
       \/ /\ ~(cacheAt[c] = stamp[c] /\ cached[c] # None)
          /\ cached' = [cached EXCEPT ![c] = None]
          /\ call' = [call EXCEPT ![c].step = "activation", ![c].stamp = stamp[c]]
          /\ UNCHANGED answer
    /\ UNCHANGED <<db, writer, stamp>>

AfterTable == [activation |-> "history", history |-> "enrollments",
               enrollments |-> "check"]

\* One statement of _rebuild_membership.
ReadTable(c, table) ==
    /\ In(c, table)
    /\ call' = [call EXCEPT ![c].step = AfterTable[table], ![c].seen[table] = db[table]]
    /\ UNCHANGED <<db, writer, stamp, cached, cacheAt, answer>>

\* Fault: what was read is used whatever was committed meanwhile.
StillTrue(c) == TRUE

StillAt(c) == call[c].stamp = stamp[c]

\* Fault: the reading is attempted again for as long as writers interfere.
TriesForever(c) == TRUE

TriesLeft(c) == call[c].tries < MaxTries

Check(c) ==
    /\ In(c, "check")
    /\ \/ /\ StillAt(c)
          /\ cached' = [cached EXCEPT ![c] = call[c].seen]
          /\ cacheAt' = [cacheAt EXCEPT ![c] = call[c].stamp]
          /\ Deliver(c, call[c].seen)
          /\ UNCHANGED writer
       \/ /\ ~StillAt(c)
          /\ IF TriesLeft(c)
             THEN /\ call' = [call EXCEPT ![c].step = "look", ![c].tries = @ + 1]
                  /\ UNCHANGED writer
             ELSE End(c) /\ Release(c)
          /\ UNCHANGED <<cached, cacheAt, answer>>
    /\ UNCHANGED <<db, stamp>>

\* Fault: the transaction trusts the membership read before it began.
FirstInsideWarm == "insert"

\* Inside the transaction the membership is looked up again.
FirstInside == "look"

\* BEGIN IMMEDIATE, or its ten-second timeout.
BeginWrite(c) ==
    /\ In(c, "begin")
    /\ \/ /\ writer = None
          /\ writer' = c
          /\ call' = [call EXCEPT ![c].step = FirstInside, ![c].tries = 1]
       \/ /\ writer # None
          /\ End(c) /\ UNCHANGED writer
    /\ UNCHANGED <<db, stamp, cached, cacheAt, answer>>

OwnChange(c) == [stamp EXCEPT ![c].own = @ + 1]

\* The proof is refused or known already, or the row is inserted and the
\* stamp taken.
Insert(c) ==
    /\ In(c, "insert")
    /\ \/ /\ End(c) /\ Release(c)
          /\ UNCHANGED stamp
       \/ /\ db["enrollments"] < MaxVersion /\ stamp[c].own < MaxChanges
          /\ stamp' = OwnChange(c)
          /\ call' = [call EXCEPT ![c].step = "commit", ![c].stamp = OwnChange(c)[c]]
          /\ UNCHANGED writer
    /\ UNCHANGED <<db, cached, cacheAt, answer>>

\* COMMIT succeeds, or fails and is rolled back.
Commit(c) ==
    /\ In(c, "commit")
    /\ Release(c)
    /\ \/ Committed(c, "enrollments") /\ Go(c, "remember")
       \/ UNCHANGED <<db, stamp>> /\ End(c)
    /\ UNCHANGED <<cached, cacheAt, answer>>

\* Fault: the stamp is taken when the value is remembered.
StampAfterCommit(c) == stamp[c]

StampTaken(c) == call[c].stamp

\* The new membership is remembered under the stamp taken before COMMIT.
Remember(c) ==
    /\ In(c, "remember")
    /\ cached' = [cached EXCEPT ![c] =
           [call[c].seen EXCEPT !["enrollments"] = @ + 1]]
    /\ cacheAt' = [cacheAt EXCEPT ![c] = StampTaken(c)]
    /\ End(c)
    /\ UNCHANGED <<db, writer, stamp, answer>>

\* Another operation of the service on the connection: a commitment appended,
\* an activation accepted.
OtherWrite(c, table) ==
    /\ call[c] = None /\ writer = None
    /\ table # "enrollments" /\ db[table] < MaxVersion
    /\ stamp[c].own < MaxChanges
    /\ db' = [db EXCEPT ![table] = @ + 1]
    /\ stamp' = [d \in Connections |->
           IF d = c THEN OwnChange(c)[c]
           ELSE [others |-> stamp[d].others + 1, own |-> stamp[d].own]]
    /\ UNCHANGED <<writer, cached, cacheAt, call, answer>>
-----------------------------------------------------------------------------
Init ==
    /\ db = [t \in Tables |-> 0]
    /\ writer = None
    /\ stamp = [c \in Connections |-> [others |-> 0, own |-> 0]]
    /\ cached = [c \in Connections |-> None]
    /\ cacheAt = [c \in Connections |-> [others |-> 0, own |-> 0]]
    /\ call = [c \in Connections |-> None]
    /\ answer = [c \in Connections |-> None]

Next ==
    \E c \in Connections :
        \/ \E op \in {"read", "enroll"} : Begin(c, op)
        \/ Look(c) \/ Check(c) \/ BeginWrite(c) \/ Insert(c) \/ Commit(c) \/ Remember(c)
        \/ \E t \in Tables : ReadTable(c, t) \/ OtherWrite(c, t)

Spec == Init /\ [][Next]_vars
-----------------------------------------------------------------------------
TypeOK ==
    /\ db \in Versions
    /\ writer \in Connections \cup {None}
    /\ stamp \in [Connections -> Stamps]
    /\ cached \in [Connections -> Versions \cup {None}]
    /\ cacheAt \in [Connections -> Stamps]
    /\ call \in [Connections -> Calls \cup {None}]
    /\ answer \in [Connections -> Versions \cup {None}]

\* A cached membership that would be used, because its stamp is the
\* connection's, is what the database holds (_cache and _remember).
CacheIsCurrent ==
    \A c \in Connections :
        cached[c] # None /\ cacheAt[c] = stamp[c] => cached[c] = db

\* An enrollment is committed onto exactly the membership it was checked
\* against: no other connection's activation, commitment or enrollment got in
\* between (accept rechecks the stamp inside its transaction).
EnrolledOnCurrent ==
    \A c \in Connections : In(c, "commit") => call[c].seen = db

\* The write lock is held only by a connection in the middle of accept(): no
\* refusal, failure or exhausted retry leaves a transaction open that every
\* other writer would wait for (the rollback in accept's finally).
WriterIsEnrolling ==
    \A c \in Connections : writer = c => call[c] # None /\ call[c].op = "enroll"

\* A reader is given the membership the database holds at that moment, never
\* a mixture of tables from before and after another connection's commit.
AnswersAreCurrent ==
    [][\A c \in Connections : answer'[c] \notin {None, answer[c]} => answer'[c] = db]_vars
=============================================================================
