----------------------- MODULE RemediationWorkerProofs -----------------------
(***************************************************************************)
(* Proofs about the remediation worker: what it may ask for again, how     *)
(* often it may ask a source, and what its rows say.                       *)
(***************************************************************************)
EXTENDS RemediationWorker, FiniteSetTheorems, SequenceTheorems, TLAPS

(***************************************************************************)
(* Claims: OutcomeBeforeRetry and InventoryBeforeRecheck.                  *)
(***************************************************************************)
Stages == {"reserved", "claimed", "sent", "answered", "deferred"}
HasStatus(row) == "status" \in DOMAIN row

\* The worker's database as far as claims depend on it.
Shaped ==
    /\ DOMAIN task = Tasks /\ task = [t \in Tasks |-> task[t]]
    /\ \A t \in Tasks : HasStatus(task[t])
    /\ unanswered \subseteq Tasks
    /\ blind \subseteq Vacancies

\* Who holds a claim is at work, and its row says so from the commit on.
ClaimIsRecorded ==
    active # None =>
        /\ up = "working"
        /\ DOMAIN active = {"task", "stage", "at"}
        /\ active = [field \in DOMAIN active |-> active[field]]
        /\ active.task \in Tasks
        /\ active.stage \in Stages
        /\ task[active.task].status =
             IF active.stage = "reserved" THEN "pending" ELSE "inflight"

\* An unavailable detail keeps its status until a complete inventory.
BlindIsUnavailable == \A v \in blind : task[v].status \in Unavailable

ClaimInv == Shaped /\ ClaimIsRecorded /\ OutcomeBeforeRetry /\ BlindIsUnavailable

\* The row an outcome leaves for its own task.
LEMMA FinishedRow ==
    ASSUME ClaimInv, NEW t \in Tasks, NEW status, NEW receipt, NEW due
    PROVE  /\ HasStatus(Finished(t, status, receipt, due))
           /\ Finished(t, status, receipt, due).status = status
BY DEF ClaimInv, Shaped, HasStatus, Finished

\* An outcome that touches no row but its own task's.
LEMMA OwnOutcome ==
    ASSUME ClaimInv, NEW row, HasStatus(row),
           active # None, active.stage \in Stages \ {"reserved"}, active' = None,
           task' = [task EXCEPT ![active.task] = row],
           unanswered' = unanswered \ {active.task},
           \/ blind' = blind
           \/ blind' = blind \ {active.task}
           \/ /\ blind' = blind \cup {active.task}
              /\ active.task \in Vacancies /\ row.status \in Unavailable
    PROVE  ClaimInv'
<1>1. active.task \in Tasks /\ task[active.task].status = "inflight"
  BY DEF ClaimInv, ClaimIsRecorded
<1>2. active.task \notin blind
  BY <1>1 DEF ClaimInv, BlindIsUnavailable, Unavailable
<1>3. /\ task'[active.task] = row
      /\ \A t \in Tasks \ {active.task} : task'[t] = task[t]
      /\ DOMAIN task' = Tasks /\ task' = [t \in Tasks |-> task'[t]]
  BY <1>1 DEF ClaimInv, Shaped
<1>4. Shaped'
  BY <1>1, <1>3 DEF ClaimInv, Shaped, HasStatus
<1>5. ClaimIsRecorded'
  BY DEF ClaimIsRecorded
<1>6. OutcomeBeforeRetry'
  BY <1>3 DEF ClaimInv, Shaped, OutcomeBeforeRetry
<1>7. BlindIsUnavailable'
  BY <1>1, <1>2, <1>3 DEF ClaimInv, Shaped, BlindIsUnavailable, Tasks
<1> QED
  BY <1>4, <1>5, <1>6, <1>7 DEF ClaimInv

\* A listing leaves alone what it may not refresh: every row of a claim without
\* outcome, and an unavailable one unless the inventory is complete.
LEMMA ListedKeepsProtected ==
    ASSUME NEW v \in Vacancies, NEW text, NEW complete \in BOOLEAN,
           HasStatus(task[v])
    PROVE  /\ HasStatus(Listed(v, text, complete))
           /\ HasStatus(NotObserved(task[v], complete))
           /\ \/ task[v].status \in {"inflight", "interrupted"}
              \/ task[v].status \in Unavailable /\ ~complete
              => /\ Listed(v, text, complete) = task[v]
                 /\ NotObserved(task[v], complete) = task[v]
<1> DEFINE row == reconcile_unavailable_present(task[v], complete)
<1>1. HasStatus(row)
  BY DEF HasStatus, reconcile_unavailable_present, Recheck, RecheckOnce
<1>2. HasStatus(enqueue(row, text, DueAt(v, text)))
  <2> HIDE DEF row
  <2> QED BY <1>1 DEF HasStatus, enqueue
<1>3. HasStatus(NotObserved(task[v], complete))
  BY DEF HasStatus, NotObserved
<1>4. ASSUME \/ task[v].status \in {"inflight", "interrupted"}
             \/ task[v].status \in Unavailable /\ ~complete
      PROVE  row = task[v] /\ NotObserved(task[v], complete) = task[v]
  BY <1>4 DEF reconcile_unavailable_present, NotObserved, Unavailable, Newer
<1>5. ASSUME \/ task[v].status \in {"inflight", "interrupted"}
             \/ task[v].status \in Unavailable /\ ~complete
      PROVE  enqueue(row, text, DueAt(v, text)) = row
  BY <1>4, <1>5 DEF enqueue, IsProtected, Protected
<1> QED
  BY <1>2, <1>3, <1>4, <1>5 DEF Listed

LEMMA ListingOutcome ==
    ASSUME ClaimInv, NEW complete \in BOOLEAN, NEW keys \in SUBSET Vacancies,
           NEW jobs \in [keys -> Texts], do_listing(complete, jobs)
    PROVE  ClaimInv'
<1>1. /\ active # None /\ active' = None /\ active.task = Listing
      /\ unanswered' = unanswered \ {Listing}
  BY DEF do_listing, Outcome
<1>2. Listing \in Tasks /\ Listing \notin Vacancies
  BY WorkerAssumption DEF Tasks
<1>3. /\ task'[Listing] = Finished(Listing, "done", Blank, 0)
      /\ DOMAIN task' = Tasks /\ task' = [t \in Tasks |-> task'[t]]
      /\ \A v \in Vacancies : \/ \E text \in Texts : task'[v] = Listed(v, text, complete)
                              \/ task'[v] = NotObserved(task[v], complete)
  BY <1>2 DEF do_listing, Tasks
<1>4. \A v \in Vacancies :
         /\ HasStatus(task'[v])
         /\ \/ task[v].status \in {"inflight", "interrupted"}
            \/ task[v].status \in Unavailable /\ ~complete
            => task'[v] = task[v]
  <2> SUFFICES ASSUME NEW v \in Vacancies
               PROVE  /\ HasStatus(task'[v])
                      /\ \/ task[v].status \in {"inflight", "interrupted"}
                         \/ task[v].status \in Unavailable /\ ~complete
                         => task'[v] = task[v]
    OBVIOUS
  <2>1. HasStatus(task[v])
    BY DEF ClaimInv, Shaped, Tasks
  <2> QED
    BY <1>3, <2>1, ListedKeepsProtected
<1>5. HasStatus(task'[Listing])
  BY <1>2, <1>3, FinishedRow
<1>6. blind' = IF complete THEN {} ELSE blind
  BY DEF do_listing
<1>7. Shaped'
  BY <1>1, <1>3, <1>4, <1>5, <1>6 DEF ClaimInv, Shaped, Tasks
<1>8. ClaimIsRecorded'
  BY <1>1 DEF ClaimIsRecorded
<1>9. OutcomeBeforeRetry'
  BY <1>1, <1>4 DEF ClaimInv, Shaped, OutcomeBeforeRetry, Tasks
<1>10. BlindIsUnavailable'
  BY <1>4, <1>6 DEF ClaimInv, Shaped, BlindIsUnavailable
<1> QED
  BY <1>7, <1>8, <1>9, <1>10 DEF ClaimInv

\* The outcomes of one task: whatever they leave in its row, it is settled.
LEMMA OutcomeKeepsClaims ==
    ASSUME ClaimInv,
           \/ Retries
           \/ \E status \in {"blocked", "dead_letter"} : Fails(status)
           \/ DetailIncomplete \/ InventoryChanged \/ VerificationDeferred
           \/ finish_storage_hold \/ finish_unavailable \/ do_detail
    PROVE  ClaimInv'
<1> DEFINE t == active.task
<1>1. /\ active # None /\ active' = None /\ t \in Tasks
      /\ active.stage \in Stages \ {"reserved"}
      /\ unanswered' = unanswered \ {t}
  BY DEF Retries, Fails, DetailIncomplete, InventoryChanged, VerificationDeferred,
         finish_storage_hold, finish_unavailable, do_detail, Outcome, Stages,
         ClaimInv, ClaimIsRecorded
<1>2. PICK status, receipt, due :
        /\ task' = [task EXCEPT ![t] = Finished(t, status, receipt, due)]
        /\ \/ blind' = blind
           \/ blind' = blind \ {t}
           \/ /\ blind' = blind \cup {t}
              /\ t \in Vacancies /\ status \in Unavailable
  <2>1. ASSUME NEW st, NEW re, NEW du, Ends(t, st, re, du)
        PROVE  /\ task' = [task EXCEPT ![t] = Finished(t, st, re, du)]
               /\ blind' = blind
    BY <2>1 DEF Ends
  <2>2. CASE finish_unavailable
    BY <2>2 DEF finish_unavailable, Unavailable
  <2>3. CASE do_detail
    BY <2>3 DEF do_detail
  <2>4. CASE Retries
    BY <2>1, <2>4 DEF Retries
  <2>5. CASE \E status \in {"blocked", "dead_letter"} : Fails(status)
    BY <2>1, <2>5 DEF Fails
  <2>6. CASE DetailIncomplete
    BY <2>1, <2>6 DEF DetailIncomplete
  <2>7. CASE InventoryChanged
    BY <2>1, <2>7 DEF InventoryChanged
  <2>8. CASE VerificationDeferred
    BY <2>1, <2>8 DEF VerificationDeferred
  <2>9. CASE finish_storage_hold
    BY <2>1, <2>9 DEF finish_storage_hold
  <2> QED
    BY <2>2, <2>3, <2>4, <2>5, <2>6, <2>7, <2>8, <2>9
<1>3. /\ HasStatus(Finished(t, status, receipt, due))
      /\ Finished(t, status, receipt, due).status = status
  BY <1>1, FinishedRow
<1> QED
  BY <1>1, <1>2, <1>3, OwnOutcome

\* The steps of a claim before its outcome.
LEMMA ClaimKeepsClaims ==
    ASSUME ClaimInv,
           \/ \E t \in Tasks : HoldStops(t) \/ reserve(t)
           \/ claim \/ request \/ FinishShared
    PROVE  ClaimInv'
<1> USE DEF ClaimInv, HasStatus
<1>1. CASE \E t \in Tasks : HoldStops(t)
  <2>1. PICK t \in Tasks : HoldStops(t)
    BY <1>1
  <2>2. task[t].status = "pending" /\ t \notin unanswered \cup blind
    BY <2>1 DEF HoldStops, Chosen, OutcomeBeforeRetry, BlindIsUnavailable, Unavailable
  <2>3. /\ HasStatus(task'[t])
        /\ \A other \in Tasks \ {t} : task'[other] = task[other]
        /\ DOMAIN task' = Tasks /\ task' = [u \in Tasks |-> task'[u]]
        /\ UNCHANGED <<unanswered, blind>> /\ active' = None
    BY <2>1 DEF HoldStops, Chosen, Shaped, history
  <2> QED
    BY <2>2, <2>3 DEF Shaped, ClaimIsRecorded, OutcomeBeforeRetry, BlindIsUnavailable, Tasks
<1>2. CASE \E t \in Tasks : reserve(t)
  <2>1. PICK t \in Tasks : reserve(t)
    BY <1>2
  <2>2. UNCHANGED <<task, unanswered, blind, up>>
    BY <2>1 DEF reserve, history
  <2>3. ClaimIsRecorded'
    BY <2>1, <2>2 DEF reserve, Chosen, ClaimIsRecorded, Stages
  <2> QED
    BY <2>2, <2>3 DEF Shaped, OutcomeBeforeRetry, BlindIsUnavailable
<1>3. CASE claim
  <2>1. /\ active.task \in Tasks /\ task[active.task].status = "pending"
        /\ active' = [active EXCEPT !.stage = "claimed"]
        /\ UNCHANGED <<unanswered, blind, up>>
    BY <1>3 DEF claim, ClaimIsRecorded, history
  <2>2. active.task \notin unanswered \cup blind
    BY <2>1 DEF OutcomeBeforeRetry, BlindIsUnavailable, Unavailable
  <2>3. /\ HasStatus(task'[active.task]) /\ task'[active.task].status = "inflight"
        /\ \A other \in Tasks \ {active.task} : task'[other] = task[other]
        /\ DOMAIN task' = Tasks /\ task' = [u \in Tasks |-> task'[u]]
    BY <1>3, <2>1 DEF claim, Shaped
  <2>4. ClaimIsRecorded'
    BY <1>3, <2>1, <2>3 DEF claim, ClaimIsRecorded, Stages
  <2> QED
    BY <2>1, <2>2, <2>3, <2>4 DEF Shaped, OutcomeBeforeRetry, BlindIsUnavailable, Tasks
<1>4. CASE request
  <2>1. /\ active.task \in Tasks /\ task[active.task].status = "inflight"
        /\ unanswered' = unanswered \cup {active.task}
        /\ UNCHANGED <<task, blind, up>>
    BY <1>4 DEF request, ClaimIsRecorded
  <2>2. ClaimIsRecorded'
    BY <1>4, <2>1 DEF request, ClaimIsRecorded, Stages
  <2> QED
    BY <2>1, <2>2 DEF Shaped, OutcomeBeforeRetry, BlindIsUnavailable
<1>5. CASE FinishShared
  <2>1. UNCHANGED <<task, unanswered, blind, up>>
    BY <1>5 DEF FinishShared, history
  <2>2. ClaimIsRecorded'
    BY <1>5, <2>1 DEF FinishShared, ClaimIsRecorded, Stages
  <2> QED
    BY <2>1, <2>2 DEF Shaped, OutcomeBeforeRetry, BlindIsUnavailable
<1> QED
  BY <1>1, <1>2, <1>3, <1>4, <1>5

\* The start and the end of a tick, and the death of the worker.
LEMMA TickKeepsClaims ==
    ASSUME ClaimInv,
           Tick \/ initialize \/ seed_listings \/ EndTick \/ Crash \/ UNCHANGED vars
    PROVE  ClaimInv'
<1> USE DEF ClaimInv, HasStatus
<1>1. CASE initialize
  <2>1. /\ active = None /\ active' = None
        /\ task' = [t \in Tasks |-> Interrupted(task[t])]
        /\ UNCHANGED <<unanswered, blind>>
    BY <1>1 DEF initialize, ClaimIsRecorded, history
  <2>2. \A t \in Tasks :
          /\ HasStatus(task'[t])
          /\ task[t].status \in {"inflight", "interrupted"} => task'[t].status = "interrupted"
          /\ task[t].status \in Unavailable => task'[t].status = task[t].status
    BY <2>1 DEF Interrupted, Shaped, Unavailable
  <2> QED
    BY <2>1, <2>2 DEF Shaped, ClaimIsRecorded, OutcomeBeforeRetry, BlindIsUnavailable, Tasks
<1>2. CASE seed_listings
  <2>1. /\ active = None /\ active' = None
        /\ UNCHANGED <<unanswered, blind>>
        /\ \/ task' = [task EXCEPT ![Listing] = enqueue(task[Listing], None, now)]
           \/ task' = task
    BY <1>2 DEF seed_listings, ClaimIsRecorded, history
  <2>2. Listing \in Tasks /\ Listing \notin Vacancies
    BY WorkerAssumption DEF Tasks
  <2>3. /\ HasStatus(enqueue(task[Listing], None, now))
        /\ task[Listing].status \in {"inflight", "interrupted"}
           => enqueue(task[Listing], None, now) = task[Listing]
    BY <2>2 DEF enqueue, IsProtected, Protected, Shaped
  <2>4. /\ HasStatus(task'[Listing])
        /\ task[Listing].status \in {"inflight", "interrupted"} => task'[Listing] = task[Listing]
        /\ \A other \in Tasks \ {Listing} : task'[other] = task[other]
        /\ DOMAIN task' = Tasks /\ task' = [u \in Tasks |-> task'[u]]
    BY <2>1, <2>2, <2>3 DEF Shaped
  <2> QED
    BY <2>1, <2>2, <2>4 DEF Shaped, ClaimIsRecorded, OutcomeBeforeRetry, BlindIsUnavailable, Tasks
<1>3. CASE Tick \/ EndTick \/ UNCHANGED vars
  BY <1>3 DEF Tick, EndTick, vars, worker, history, Shaped, ClaimIsRecorded,
              OutcomeBeforeRetry, BlindIsUnavailable
<1>4. CASE Crash
  BY <1>4 DEF Crash, history, Shaped, ClaimIsRecorded, OutcomeBeforeRetry,
              BlindIsUnavailable
<1> QED
  BY <1>1, <1>2, <1>3, <1>4

LEMMA ClaimInvInductive == ClaimInv /\ [Next]_vars => ClaimInv'
<1> SUFFICES ASSUME ClaimInv, [Next]_vars PROVE ClaimInv'
  OBVIOUS
<1>1. CASE \E complete \in BOOLEAN, keys \in SUBSET Vacancies :
              \E jobs \in [keys -> Texts] : do_listing(complete, jobs)
  BY <1>1, ListingOutcome
<1> QED
  BY <1>1, OutcomeKeepsClaims, ClaimKeepsClaims, TickKeepsClaims DEF Next

LEMMA ClaimInvInit == Init => ClaimInv
BY DEF Init, Absent, ClaimInv, Shaped, HasStatus, ClaimIsRecorded,
       OutcomeBeforeRetry, BlindIsUnavailable

\* A task whose request left the process without a recorded outcome is never up
\* for choice again (initialize, enqueue, reconcile_unavailable_present).
THEOREM NoBlindRetry == Spec => []OutcomeBeforeRetry
<1>1. ClaimInv => OutcomeBeforeRetry
  BY DEF ClaimInv
<1> QED
  BY <1>1, ClaimInvInit, ClaimInvInductive, PTL DEF Spec

\* An unavailable detail is asked for again only after a complete inventory
\* (finish_unavailable, reconcile_unavailable_present).
THEOREM NoUnfoundedRecheck == Spec => []InventoryBeforeRecheck
<1>1. ClaimInv => InventoryBeforeRecheck
  BY DEF ClaimInv, BlindIsUnavailable, InventoryBeforeRecheck, Unavailable
<1> QED
  BY <1>1, ClaimInvInit, ClaimInvInductive, PTL DEF Spec
-----------------------------------------------------------------------------
(***************************************************************************)
(* Reservations: QuotaHolds.                                               *)
(***************************************************************************)
Events == [started_at : Nat, finished_at : Nat \cup {None}]

\* Nothing ends before it starts, so what policy_due counts includes every
\* reservation of the last Hour.
EndsAfterStart == \A k \in DOMAIN ledger : EndOf(k) >= ledger[k].started_at

\* The ledger is in the order of the clock.
StartedBefore == \A k \in DOMAIN ledger : ledger[k].started_at <= now

LedgerInv ==
    /\ now \in Nat
    /\ ledger \in Seq(Events)
    /\ EndsAfterStart /\ StartedBefore /\ QuotaHolds

\* A reservation that policy_due admits is within the quota of its own Hour.
LEMMA ReservationKeepsQuota ==
    ASSUME LedgerInv, NEW v \in Vacancies, reserve(v)
    PROVE  LedgerInv'
<1> DEFINE n == Len(ledger)
           event == [started_at |-> now, finished_at |-> None]
           recent == {j \in 1 .. n : ledger[j].started_at > now - Hour}
           counted == {k \in event_snapshot : EndOf(k) > now - Hour}
<1>1. /\ ledger' = Append(ledger, event) /\ now' = now
      /\ Cardinality(counted) < Quota
  BY DEF reserve, policy_due
<1>2. /\ n \in Nat /\ DOMAIN ledger = 1 .. n /\ event \in Events
      /\ Hour \in Nat /\ Quota \in Nat
  BY WorkerAssumption, LenProperties DEF LedgerInv, Events
<1>3. /\ ledger' \in Seq(Events) /\ DOMAIN ledger' = 1 .. n + 1
      /\ ledger'[n + 1] = event
      /\ \A k \in 1 .. n : ledger'[k] = ledger[k]
  BY <1>1, <1>2, AppendProperties, LenProperties DEF LedgerInv
<1>4. \A k \in 1 .. n : ledger[k].started_at \in Nat
  <2>1. \A k \in 1 .. n : ledger[k] \in Events
    BY ElementOfSeq DEF LedgerInv
  <2> QED
    BY <2>1 DEF Events
<1> HIDE DEF event
<1>5. event.started_at = now /\ event.finished_at = None
  BY DEF event
<1>6. EndsAfterStart' /\ StartedBefore'
  <2>1. \A k \in 1 .. n : ledger[k].started_at <= now /\ EndOf(k) >= ledger[k].started_at
    BY <1>2 DEF LedgerInv, EndsAfterStart, StartedBefore
  <2>2. now \in Nat /\ now' = now
    BY <1>1 DEF LedgerInv
  <2>3. StartedBefore'
    BY <1>2, <1>3, <1>5, <2>1, <2>2 DEF StartedBefore
  <2>4. EndsAfterStart'
    BY <1>2, <1>3, <1>5, <2>1, <2>2 DEF EndsAfterStart, EndOf
  <2> QED
    BY <2>3, <2>4
<1>7. IsFiniteSet(counted) /\ Cardinality(counted) \in Nat
  <2>1. IsFiniteSet(1 .. n)
    BY <1>2, FS_Interval
  <2>2. counted \subseteq 1 .. n
    BY <1>2 DEF event_snapshot
  <2> QED
    BY <2>1, <2>2, FS_Subset, FS_CardinalityType
<1>8. IsFiniteSet(recent) /\ Cardinality(recent) + 1 <= Quota /\ Cardinality(recent) \in Nat
  <2>1. recent \subseteq counted
    <3> SUFFICES ASSUME NEW j \in 1 .. n, ledger[j].started_at > now - Hour
                 PROVE  j \in counted
      OBVIOUS
    <3>1. EndOf(j) >= ledger[j].started_at
      BY <1>2 DEF LedgerInv, EndsAfterStart
    <3>2. EndOf(j) \in Int
      <4>1. ledger[j] \in Events
        BY <1>2, ElementOfSeq DEF LedgerInv
      <4> QED
        BY <4>1 DEF EndOf, Events
    <3> QED
      BY <1>2, <1>4, <3>1, <3>2 DEF event_snapshot, LedgerInv
  <2> QED
    BY <1>1, <1>2, <1>7, <2>1, FS_Subset, FS_CardinalityType
<1>9. QuotaHolds'
  <2> SUFFICES ASSUME NEW k \in 1 .. n + 1
               PROVE  Cardinality({j \in 1 .. k : ledger'[j].started_at
                                     > ledger'[k].started_at - Hour}) <= Quota
    BY <1>3 DEF QuotaHolds
  <2>1. CASE k \in 1 .. n
    <3>1. {j \in 1 .. k : ledger'[j].started_at > ledger'[k].started_at - Hour}
          = {j \in 1 .. k : ledger[j].started_at > ledger[k].started_at - Hour}
      BY <1>2, <1>3, <2>1
    <3> QED
      BY <1>2, <2>1, <3>1 DEF LedgerInv, QuotaHolds
  <2>2. CASE k = n + 1
    <3>1. {j \in 1 .. k : ledger'[j].started_at > ledger'[k].started_at - Hour}
          \subseteq recent \cup {n + 1}
      BY <1>2, <1>3, <1>5, <2>2
    <3>2. /\ IsFiniteSet(recent \cup {n + 1})
          /\ Cardinality(recent \cup {n + 1}) = Cardinality(recent) + 1
      <4>1. n + 1 \notin recent
        BY <1>2
      <4> HIDE DEF recent
      <4> QED
        BY <1>8, <4>1, FS_AddElement
    <3>3. /\ IsFiniteSet({j \in 1 .. k : ledger'[j].started_at > ledger'[k].started_at - Hour})
          /\ Cardinality({j \in 1 .. k : ledger'[j].started_at > ledger'[k].started_at - Hour})
             <= Cardinality(recent \cup {n + 1})
      BY <3>1, <3>2, FS_Subset
    <3> QED
      BY <1>2, <1>8, <3>2, <3>3, FS_CardinalityType
  <2> QED
    BY <1>2, <2>1, <2>2
<1> QED
  BY <1>1, <1>3, <1>6, <1>9 DEF LedgerInv

\* Writing down when the reservation ended changes no start.
LEMMA FinishKeepsQuota ==
    ASSUME LedgerInv, FinishShared
    PROVE  LedgerInv'
<1> DEFINE n == Len(ledger)
<1>1. now' = now /\ n \in Nat /\ DOMAIN ledger = 1 .. n
  BY LenProperties DEF FinishShared, LedgerInv
<1>2. CASE ledger' = ledger
  BY <1>1, <1>2 DEF LedgerInv, EndsAfterStart, StartedBefore, EndOf, QuotaHolds
<1>3. CASE ledger' = [ledger EXCEPT ![n].finished_at = now]
  <2>1. \A k \in 1 .. n : ledger[k] \in Events
    BY ElementOfSeq DEF LedgerInv
  <2>2. /\ DOMAIN ledger' = 1 .. n
        /\ \A k \in 1 .. n :
             /\ ledger'[k] \in Events
             /\ ledger'[k].started_at = ledger[k].started_at
             /\ \/ ledger'[k].finished_at = ledger[k].finished_at
                \/ ledger'[k].finished_at = now
    <3> SUFFICES ASSUME NEW k \in 1 .. n
                 PROVE  /\ ledger'[k] \in Events
                        /\ ledger'[k].started_at = ledger[k].started_at
                        /\ \/ ledger'[k].finished_at = ledger[k].finished_at
                           \/ ledger'[k].finished_at = now
      BY <1>1, <1>3
    <3>1. ledger'[k] = IF k = n THEN [ledger[k] EXCEPT !.finished_at = now] ELSE ledger[k]
      BY <1>1, <1>3
    <3> QED
      BY <2>1, <3>1 DEF Events, LedgerInv
  <2>3. ledger' \in Seq(Events)
    <3>1. ledger' = [k \in 1 .. n |-> ledger'[k]]
      BY <1>1, <1>3
    <3> QED
      BY <1>1, <2>2, <3>1
  <2>4. EndsAfterStart' /\ StartedBefore'
    BY <1>1, <2>1, <2>2 DEF LedgerInv, EndsAfterStart, StartedBefore, EndOf, Events
  <2>5. QuotaHolds'
    <3> SUFFICES ASSUME NEW k \in 1 .. n
                 PROVE  Cardinality({j \in 1 .. k : ledger'[j].started_at
                                       > ledger'[k].started_at - Hour}) <= Quota
      BY <2>2 DEF QuotaHolds
    <3>1. {j \in 1 .. k : ledger'[j].started_at > ledger'[k].started_at - Hour}
          = {j \in 1 .. k : ledger[j].started_at > ledger[k].started_at - Hour}
      BY <1>1, <2>2
    <3> QED
      BY <1>1, <3>1 DEF LedgerInv, QuotaHolds
  <2> QED
    BY <1>1, <2>3, <2>4, <2>5 DEF LedgerInv
<1> QED
  BY <1>2, <1>3 DEF FinishShared

LEMMA LedgerInvInductive == LedgerInv /\ [Next]_vars => LedgerInv'
<1> SUFFICES ASSUME LedgerInv, [Next]_vars PROVE LedgerInv'
  OBVIOUS
<1>1. CASE ledger' = ledger /\ now' \in Nat /\ now' >= now
  <2>1. \A k \in DOMAIN ledger : ledger[k].started_at \in Nat
    <3>1. \A k \in DOMAIN ledger : ledger[k] \in Events
      BY ElementOfSeq, LenProperties DEF LedgerInv
    <3> QED
      BY <3>1 DEF Events
  <2> QED
    BY <1>1, <2>1 DEF LedgerInv, EndsAfterStart, StartedBefore, EndOf, QuotaHolds
<1>2. CASE \E t \in Tasks : reserve(t)
  <2>1. PICK t \in Tasks : reserve(t)
    BY <1>2
  <2>2. CASE t \in Vacancies
    BY <2>1, <2>2, ReservationKeepsQuota
  <2>3. CASE t \notin Vacancies
    <3>1. ledger' = ledger /\ now' = now /\ now \in Nat
      BY <2>1, <2>3 DEF reserve, LedgerInv
    <3> QED
      BY <1>1, <3>1
  <2> QED
    BY <2>2, <2>3
<1>3. CASE FinishShared
  BY <1>3, FinishKeepsQuota
<1>4. CASE Tick
  <2>1. ledger' = ledger /\ now' = now + 1 /\ now \in Nat
    BY <1>4 DEF Tick, shared, LedgerInv
  <2> QED
    BY <1>1, <2>1
<1>5. CASE UNCHANGED <<now, ledger>>
  BY <1>1, <1>5 DEF LedgerInv
<1>6. ASSUME NEW stages, Outcome(stages)
      PROVE  UNCHANGED <<now, ledger>>
  BY <1>6 DEF Outcome, shared
<1>7. CASE \/ Retries \/ \E status \in {"blocked", "dead_letter"} : Fails(status)
           \/ DetailIncomplete \/ InventoryChanged \/ VerificationDeferred
           \/ finish_storage_hold \/ finish_unavailable \/ do_detail
           \/ \E complete \in BOOLEAN, keys \in SUBSET Vacancies :
                 \E jobs \in [keys -> Texts] : do_listing(complete, jobs)
  BY <1>5, <1>6, <1>7
  DEF Retries, Fails, DetailIncomplete, InventoryChanged, VerificationDeferred,
      finish_storage_hold, finish_unavailable, do_detail, do_listing
<1>8. CASE initialize \/ seed_listings \/ EndTick \/ Crash \/ claim \/ request
           \/ (\E t \in Tasks : HoldStops(t)) \/ UNCHANGED vars
  BY <1>5, <1>8
  DEF initialize, seed_listings, EndTick, Crash, claim, request, HoldStops, vars, shared
<1> QED
  BY <1>2, <1>3, <1>4, <1>7, <1>8 DEF Next

\* No Hour holds more detail reservations than the source's quota, whatever
\* deaths of the worker lie between them (claim, policy_due, finish).
THEOREM QuotaIsKept == Spec => []QuotaHolds
<1>1. Init => LedgerInv
  <2>1. Init => now = 0 /\ ledger = <<>>
    BY DEF Init
  <2>2. DOMAIN <<>> = {} /\ <<>> \in Seq(Events)
    OBVIOUS
  <2> QED
    BY <2>1, <2>2 DEF LedgerInv, EndsAfterStart, StartedBefore, QuotaHolds
<1>2. LedgerInv => QuotaHolds
  BY DEF LedgerInv
<1> QED
  BY <1>1, <1>2, LedgerInvInductive, PTL DEF Spec
-----------------------------------------------------------------------------
(***************************************************************************)
(* Rows: TypeOK.                                                           *)
(***************************************************************************)
Fields == {"unavailable_rechecks", "incomplete", "changes", "retry_input", "category"}
TimedEvents == [started_at : 0 .. MaxTime, finished_at : (0 .. MaxTime) \cup {None}]

\* A receipt whose count of incomplete answers is at most so much.
ReceiptOK(receipt, most) ==
    /\ Fields \subseteq DOMAIN receipt
    /\ receipt.unavailable_rechecks \in {0, 1}
    /\ receipt.incomplete \in 0 .. most
    /\ receipt.category \in {None, "explicit", "denied"}

\* Only the listing counts changes of the inventory, the third one blocks it,
\* and a blocked listing stays so: its input never changes.
ChangesOK(t, row) ==
    IF t = Listing
    THEN /\ row.payload = None /\ row.receipt.retry_input = None
         /\ row.receipt.changes \in 0 .. 3
         /\ row.status # "blocked" => row.receipt.changes \in 0 .. 2
    ELSE row.receipt.changes = 0

RowOK(t, row, most) ==
    /\ {"status", "payload", "receipt", "eligible_at", "last_error"} \subseteq DOMAIN row
    /\ row.status \in Statuses
    /\ ReceiptOK(row.receipt, most)
    /\ row.status \in Unavailable => row.receipt.category # None
    /\ ChangesOK(t, row)

\* Every incomplete answer was to a reservation of its own; the one being
\* worked on has no answer counted yet.
Spent == IF active = None THEN attempts ELSE attempts - 1

CountersOK ==
    /\ now \in 0 .. MaxTime /\ crashes \in 0 .. MaxCrashes
    /\ up \in {"off", "started", "working"}
    /\ attempts \in 0 .. MaxAttempts /\ Spent \in 0 .. MaxAttempts
    /\ ledger \in Seq(TimedEvents)

RowsOK == \A t \in Tasks : RowOK(t, task[t], Spent)

RowInv == ClaimInv /\ CountersOK /\ RowsOK

LEMMA RowGrows ==
    ASSUME NEW t, NEW row, NEW m \in Nat, NEW n \in Nat, m <= n, RowOK(t, row, m)
    PROVE  RowOK(t, row, n)
BY DEF RowOK, ReceiptOK

\* Rows that are left alone stay sound when nothing is refunded.
LEMMA RowsKept ==
    ASSUME RowInv, CountersOK', Spent <= Spent'
    PROVE  \A t \in Tasks : RowOK(t, task[t], Spent')
<1>1. Spent \in Nat /\ Spent' \in Nat
  BY WorkerAssumption DEF RowInv, CountersOK
<1> QED
  BY <1>1, RowGrows DEF RowInv, RowsOK

\* One row changes, soundly.
LEMMA OneRow ==
    ASSUME RowInv, CountersOK', Spent <= Spent', NEW t \in Tasks, NEW row,
           RowOK(t, row, Spent'), task' = [task EXCEPT ![t] = row]
    PROVE  RowsOK'
<1>1. \A u \in Tasks : RowOK(u, task[u], Spent')
  BY RowsKept
<1>2. \A u \in Tasks : task'[u] = IF u = t THEN row ELSE task[u]
  BY DEF RowInv, ClaimInv, Shaped
<1>3. \A u \in Tasks : RowOK(u, task'[u], Spent')
  BY <1>1, <1>2
<1> QED
  BY <1>3 DEF RowsOK

\* The claim whose outcome is recorded.
LEMMA Claimed ==
    ASSUME RowInv, NEW stages, stages \subseteq Stages \ {"reserved"}, Outcome(stages)
    PROVE  /\ active.task \in Tasks /\ task[active.task].status = "inflight"
           /\ Spent = attempts - 1 /\ Spent' = attempts /\ attempts \in Nat \ {0}
           /\ attempts <= MaxAttempts /\ CountersOK'
<1>1. /\ active # None /\ active' = None /\ active.stage # "reserved"
      /\ UNCHANGED now /\ UNCHANGED up /\ UNCHANGED crashes
      /\ UNCHANGED ledger /\ UNCHANGED attempts
  BY DEF Outcome, shared
<1>2. active.task \in Tasks /\ task[active.task].status = "inflight"
  BY <1>1 DEF RowInv, ClaimInv, ClaimIsRecorded
<1>3. Spent = attempts - 1 /\ Spent' = attempts /\ attempts \in Nat \ {0}
      /\ attempts <= MaxAttempts
  BY <1>1, WorkerAssumption DEF Spent, RowInv, CountersOK
<1>4. CountersOK'
  BY <1>1, <1>3, WorkerAssumption DEF RowInv, CountersOK
<1> QED
  BY <1>2, <1>3, <1>4

\* What is counted of the claim's input.
LEMMA CountedSoFar ==
    ASSUME RowInv, NEW t \in Tasks, task[t].status = "inflight", Spent = attempts - 1,
           attempts \in Nat \ {0}
    PROVE  /\ Counts(t)[1] \in 0 .. (attempts - 1)
           /\ Counts(t)[2] \in 0 .. 2
           /\ t # Listing => Counts(t)[2] = 0
<1>1. RowOK(t, task[t], attempts - 1)
  BY DEF RowInv, RowsOK
<1>2. /\ task[t].receipt.incomplete \in 0 .. (attempts - 1)
      /\ task[t].receipt.changes \in 0 .. 2
      /\ t # Listing => task[t].receipt.changes = 0
  BY <1>1 DEF RowOK, ReceiptOK, ChangesOK
<1>3. /\ incomplete_response_count(task[t]) \in 0 .. (attempts - 1)
      /\ inventory_change_count(task[t]) \in 0 .. 2
      /\ t # Listing => inventory_change_count(task[t]) = 0
  BY <1>2 DEF incomplete_response_count, inventory_change_count
<1>4. /\ Counts(t)[1] = incomplete_response_count(task[t])
      /\ Counts(t)[2] = inventory_change_count(task[t])
  BY DEF Counts
<1> QED
  BY <1>3, <1>4

\* A receipt that begins afresh, and one that counts on.
LEMMA FreshRow ==
    ASSUME RowInv, NEW t \in Tasks, NEW status \in Statuses \ Unavailable, NEW due,
           NEW most \in Nat
    PROVE  RowOK(t, Finished(t, status, Blank, due), most)
<1>1. RowOK(t, task[t], Spent)
  BY DEF RowInv, RowsOK
<1>2. /\ {"status", "payload", "receipt", "eligible_at", "last_error"}
             \subseteq DOMAIN Finished(t, status, Blank, due)
      /\ Finished(t, status, Blank, due).status = status
      /\ Finished(t, status, Blank, due).receipt = Blank
      /\ Finished(t, status, Blank, due).payload = task[t].payload
  BY <1>1 DEF RowOK, Finished
<1>3. ReceiptOK(Blank, most) /\ Blank.changes = 0 /\ Blank.retry_input = None
  BY DEF ReceiptOK, Blank, Fields
<1>4. t = Listing => task[t].payload = None
  BY <1>1 DEF RowOK, ChangesOK
<1> QED
  BY <1>2, <1>3, <1>4 DEF RowOK, ChangesOK

LEMMA CountingRow ==
    ASSUME RowInv, NEW t \in Tasks, NEW status \in Statuses \ Unavailable, NEW due,
           NEW most \in Nat, NEW incomplete \in 0 .. most, NEW changes \in 0 .. 3,
           t # Listing => changes = 0, status # "blocked" => changes \in 0 .. 2
    PROVE  RowOK(t, Finished(t, status, FailureReceipt(task[t], incomplete, changes), due),
                 most)
<1> DEFINE receipt == FailureReceipt(task[t], incomplete, changes)
           row == Finished(t, status, receipt, due)
<1>1. RowOK(t, task[t], Spent)
  BY DEF RowInv, RowsOK
<1>2. /\ Fields \subseteq DOMAIN receipt
      /\ receipt.unavailable_rechecks = 0 /\ receipt.incomplete = incomplete
      /\ receipt.changes = changes /\ receipt.category = None
      /\ receipt.retry_input = task[t].payload
  BY DEF FailureReceipt, Blank, Fields
<1> HIDE DEF receipt
<1>3. /\ {"status", "payload", "receipt", "eligible_at", "last_error"} \subseteq DOMAIN row
      /\ row.status = status /\ row.receipt = receipt /\ row.payload = task[t].payload
  BY <1>1 DEF RowOK, Finished
<1>4. t = Listing => task[t].payload = None
  BY <1>1 DEF RowOK, ChangesOK
<1> HIDE DEF row
<1>5. ReceiptOK(receipt, most)
  BY <1>2 DEF ReceiptOK
<1>6. ChangesOK(t, row)
  BY <1>2, <1>3, <1>4 DEF ChangesOK
<1>7. RowOK(t, row, most)
  BY <1>3, <1>5, <1>6 DEF RowOK
<1> QED
  BY <1>7 DEF row, receipt

\* The outcomes that end a claim by itself.
LEMMA OutcomesKeepRows ==
    ASSUME RowInv,
           \/ Retries
           \/ \E status \in {"blocked", "dead_letter"} : Fails(status)
           \/ DetailIncomplete \/ InventoryChanged \/ VerificationDeferred
           \/ finish_storage_hold \/ do_detail
    PROVE  CountersOK' /\ RowsOK'
<1> DEFINE t == active.task
           i == Counts(t)[1]
           c == Counts(t)[2]
<1>1. PICK stages : stages \subseteq Stages \ {"reserved"} /\ Outcome(stages)
  BY DEF Retries, Fails, DetailIncomplete, InventoryChanged, VerificationDeferred,
         finish_storage_hold, do_detail, Stages
<1>2. /\ t \in Tasks /\ task[t].status = "inflight"
      /\ Spent = attempts - 1 /\ Spent' = attempts /\ attempts \in Nat \ {0}
      /\ CountersOK'
  BY <1>1, Claimed
<1>3. /\ i \in 0 .. (attempts - 1) /\ c \in 0 .. 2
      /\ t # Listing => c = 0
  BY <1>2, CountedSoFar
<1>4. /\ i \in 0 .. attempts /\ i + 1 \in 0 .. attempts /\ c \in 0 .. 3
      /\ c + 1 \in 0 .. 3 /\ (c + 1 < 3 => c + 1 \in 0 .. 2)
      /\ attempts \in Nat /\ Spent <= Spent'
  <2> HIDE DEF i, c, t
  <2>1. /\ c \in 0 .. 3 /\ c + 1 \in 0 .. 3 /\ (c + 1 < 3 => c + 1 \in 0 .. 2)
    BY <1>3
  <2>2. i \in 0 .. attempts /\ i + 1 \in 0 .. attempts /\ attempts \in Nat
    BY <1>2, <1>3
  <2>3. Spent <= Spent'
    BY <1>2
  <2> QED
    BY <2>1, <2>2, <2>3
<1> HIDE DEF i, c
<1>5. ASSUME NEW status \in Statuses \ Unavailable, NEW due,
             NEW incomplete \in 0 .. attempts, NEW changes \in 0 .. 3,
             t # Listing => changes = 0, status # "blocked" => changes \in 0 .. 2,
             Ends(t, status, FailureReceipt(task[t], incomplete, changes), due)
      PROVE  RowsOK'
  <2> DEFINE row == Finished(t, status, FailureReceipt(task[t], incomplete, changes), due)
  <2>1. RowOK(t, row, attempts)
    BY <1>2, <1>4, <1>5, CountingRow
  <2>2. task' = [task EXCEPT ![t] = row]
    BY <1>5 DEF Ends
  <2> HIDE DEF row, t
  <2> QED
    BY <1>2, <1>4, <2>1, <2>2, OneRow
<1>6. ASSUME NEW status \in Statuses \ Unavailable, NEW due,
             task' = [task EXCEPT ![t] = Finished(t, status, Blank, due)]
      PROVE  RowsOK'
  <2> DEFINE row == Finished(t, status, Blank, due)
  <2>1. RowOK(t, row, attempts)
    BY <1>2, <1>4, <1>6, FreshRow
  <2> HIDE DEF row, t
  <2> QED
    BY <1>2, <1>4, <1>6, <2>1, OneRow DEF row
<1>7. {"pending", "blocked", "dead_letter", "storage_held", "done"}
          \subseteq Statuses \ Unavailable
  BY DEF Statuses, Protected, Unavailable
<1>8. CASE Retries
  <2>1. Ends(t, "pending", FailureReceipt(task[t], i, c), now + Soon)
    BY <1>8 DEF Retries, i, c
  <2> QED
    BY <1>2, <1>3, <1>4, <1>5, <1>7, <2>1
<1>9. CASE \E status \in {"blocked", "dead_letter"} : Fails(status)
  <2>1. PICK status \in {"blocked", "dead_letter"} :
            Ends(t, status, FailureReceipt(task[t], i, c), 0)
    BY <1>9 DEF Fails, i, c
  <2> QED
    BY <1>2, <1>3, <1>4, <1>5, <1>7, <2>1
<1>10. CASE DetailIncomplete
  <2>1. PICK status \in {"pending", "blocked"}, due \in {now + Soon, 0} :
            Ends(t, status, FailureReceipt(task[t], i + 1, c), due)
    BY <1>10 DEF DetailIncomplete, i, c
  <2> QED
    BY <1>2, <1>3, <1>4, <1>5, <1>7, <2>1
<1>11. CASE InventoryChanged
  <2>1. t = Listing
    BY <1>11 DEF InventoryChanged
  <2>2. PICK status \in {"pending", "blocked"}, due \in {now + Soon, 0} :
            /\ Ends(t, status, FailureReceipt(task[t], i, c + 1), due)
            /\ status # "blocked" => c + 1 < 3
    BY <1>11, <2>1 DEF InventoryChanged, i, c
  <2> QED
    BY <1>2, <1>3, <1>4, <1>5, <1>7, <2>1, <2>2
<1>12. CASE VerificationDeferred
  <2>1. task' = [task EXCEPT ![t] = Finished(t, "pending", Blank, 0)]
    BY <1>12 DEF VerificationDeferred, Ends
  <2> QED
    BY <1>2, <1>6, <1>7, <2>1
<1>13. CASE finish_storage_hold
  <2>1. task' = [task EXCEPT ![t] = Finished(t, "storage_held", Blank, 0)]
    BY <1>13 DEF finish_storage_hold, Ends
  <2> QED
    BY <1>2, <1>6, <1>7, <2>1
<1>14. CASE do_detail
  <2>1. task' = [task EXCEPT ![t] = Finished(t, "done", Blank, 0)]
    BY <1>14 DEF do_detail
  <2> QED
    BY <1>2, <1>6, <1>7, <2>1
<1> QED
  BY <1>2, <1>8, <1>9, <1>10, <1>11, <1>12, <1>13, <1>14

\* An unavailable detail leaves the evidence its reconciliation will want.
LEMMA UnavailableKeepsRows ==
    ASSUME RowInv, finish_unavailable
    PROVE  CountersOK' /\ RowsOK'
<1> DEFINE v == active.task
<1>1. Outcome({"answered"}) /\ v \in Vacancies
  BY DEF finish_unavailable
<1>2. /\ v \in Tasks /\ Spent = attempts - 1 /\ Spent' = attempts
      /\ attempts \in Nat \ {0} /\ CountersOK' /\ Spent <= Spent' /\ v # Listing
  BY <1>1, Claimed, WorkerAssumption DEF Stages
<1>3. PICK category \in {"explicit", "denied"}, seen \in {ledger[Len(ledger)].finished_at} :
        task' = [task EXCEPT ![v] = Finished(v, "unavailable_pending_inventory",
                   [Blank EXCEPT !.unavailable_rechecks = task[v].receipt.unavailable_rechecks,
                                 !.category = category, !.observed_at = seen], 0)]
  BY DEF finish_unavailable
<1> DEFINE receipt == [Blank EXCEPT
               !.unavailable_rechecks = task[v].receipt.unavailable_rechecks,
               !.category = category, !.observed_at = seen]
           row == Finished(v, "unavailable_pending_inventory", receipt, 0)
<1>4. RowOK(v, task[v], Spent)
  BY <1>2 DEF RowInv, RowsOK
<1>5. /\ Fields \subseteq DOMAIN receipt /\ receipt.incomplete = 0 /\ receipt.changes = 0
      /\ receipt.unavailable_rechecks = task[v].receipt.unavailable_rechecks
      /\ receipt.category = category
  BY DEF Blank, Fields
<1> HIDE DEF receipt
<1>6. /\ {"status", "payload", "receipt", "eligible_at", "last_error"} \subseteq DOMAIN row
      /\ row.status = "unavailable_pending_inventory" /\ row.receipt = receipt
  BY <1>4 DEF RowOK, Finished
<1>7. task' = [task EXCEPT ![v] = row]
  BY <1>3 DEF receipt
<1> HIDE DEF row
<1>8. row.status \in Statuses /\ category # None
  BY <1>6, CategoriesAssumption DEF Statuses, Protected, Unavailable
<1>9. ReceiptOK(receipt, attempts) /\ ChangesOK(v, row)
  BY <1>2, <1>4, <1>5, <1>6 DEF ReceiptOK, ChangesOK, RowOK
<1>10. RowOK(v, row, attempts)
  BY <1>5, <1>6, <1>8, <1>9 DEF RowOK
<1> HIDE DEF v
<1>11. RowsOK'
  BY <1>2, <1>7, <1>10, OneRow
<1> QED
  BY <1>2, <1>11

\* What a listing makes of a row.
LEMMA EnqueuedRow ==
    ASSUME NEW t, NEW row, NEW most, NEW payload, NEW due, RowOK(t, row, most),
           t = Listing => payload = None
    PROVE  RowOK(t, enqueue(row, payload, due), most)
<1> DEFINE new == enqueue(row, payload, due)
<1>1. CASE IsProtected(row) \/ KeepsFailure(row, payload)
  BY <1>1 DEF enqueue
<1>2. CASE ~(IsProtected(row) \/ KeepsFailure(row, payload))
  <2>1. /\ {"status", "payload", "receipt", "eligible_at", "last_error"} \subseteq DOMAIN new
        /\ new.status = "pending" /\ new.payload = payload /\ new.receipt = row.receipt
    BY <1>2 DEF enqueue, RowOK
  <2>2. t = Listing => row.status # "blocked"
    BY <1>2 DEF KeepsFailure, RowOK, ChangesOK
  <2> HIDE DEF new
  <2>3. ChangesOK(t, new)
    BY <2>1, <2>2 DEF RowOK, ChangesOK
  <2>4. RowOK(t, new, most)
    BY <2>1, <2>3 DEF RowOK, Statuses, Protected, Unavailable
  <2> QED
    BY <2>4 DEF new
<1> QED
  BY <1>1, <1>2

LEMMA ReconciledRow ==
    ASSUME NEW t, t # Listing, NEW row, NEW most, NEW complete, RowOK(t, row, most)
    PROVE  /\ RowOK(t, reconcile_unavailable_present(row, complete), most)
           /\ RowOK(t, NotObserved(row, complete), most)
<1>1. RowOK(t, NotObserved(row, complete), most)
  <2> DEFINE new == [row EXCEPT !.status = "not_observed", !.last_error = TRUE]
  <2>1. /\ {"status", "payload", "receipt", "eligible_at", "last_error"} \subseteq DOMAIN new
        /\ new.status = "not_observed" /\ new.receipt = row.receipt
    BY DEF RowOK
  <2> HIDE DEF new
  <2>2. RowOK(t, new, most)
    BY <2>1 DEF RowOK, ChangesOK, Statuses, Unavailable
  <2>3. NotObserved(row, complete) = new \/ NotObserved(row, complete) = row
    BY DEF NotObserved, new
  <2> QED
    BY <2>2, <2>3
<1>2. ASSUME NEW due
      PROVE  RowOK(t, [row EXCEPT !.status = "pending", !.last_error = TRUE,
                                  !.eligible_at = due], most)
  <2> DEFINE new == [row EXCEPT !.status = "pending", !.last_error = TRUE,
                                !.eligible_at = due]
  <2>1. /\ {"status", "payload", "receipt", "eligible_at", "last_error"} \subseteq DOMAIN new
        /\ new.status = "pending" /\ new.receipt = row.receipt
    BY DEF RowOK
  <2> HIDE DEF new
  <2>2. RowOK(t, new, most)
    BY <2>1 DEF RowOK, ChangesOK, Statuses, Unavailable
  <2> QED
    BY <2>2 DEF new
<1>3. row.status \in Unavailable => RowOK(t, RecheckOnce(row), most)
  <2> SUFFICES ASSUME row.status \in Unavailable
               PROVE  RowOK(t, RecheckOnce(row), most)
    OBVIOUS
  <2> DEFINE new == RecheckOnce(row)
  <2>1. /\ {"status", "payload", "receipt", "eligible_at", "last_error"} \subseteq DOMAIN new
        /\ new.status \in {"pending", "listing_detail_conflict"}
        /\ new.receipt = [row.receipt EXCEPT !.unavailable_rechecks = 1]
    BY DEF RowOK, RecheckOnce
  <2>2. /\ Fields \subseteq DOMAIN new.receipt
        /\ new.receipt.unavailable_rechecks = 1
        /\ new.receipt.incomplete = row.receipt.incomplete
        /\ new.receipt.category = row.receipt.category
        /\ new.receipt.changes = row.receipt.changes
    BY <2>1 DEF RowOK, ReceiptOK, Fields
  <2> HIDE DEF new
  <2>3. ReceiptOK(new.receipt, most) /\ ChangesOK(t, new) /\ new.receipt.category # None
    BY <2>2 DEF RowOK, ReceiptOK, ChangesOK
  <2>4. RowOK(t, new, most)
    BY <2>1, <2>3 DEF RowOK, Statuses, Protected, Unavailable
  <2> QED
    BY <2>4 DEF new
<1>4. RowOK(t, reconcile_unavailable_present(row, complete), most)
  <2>1. CASE ~(row.status \in Unavailable /\ Newer(row, complete))
    BY <2>1 DEF reconcile_unavailable_present
  <2>2. CASE /\ row.status \in Unavailable /\ Newer(row, complete)
             /\ row.receipt.category = "denied"
    BY <1>2, <2>2 DEF reconcile_unavailable_present
  <2>3. CASE /\ row.status \in Unavailable /\ Newer(row, complete)
             /\ row.receipt.category # "denied"
    BY <1>3, <2>3 DEF reconcile_unavailable_present, Recheck
  <2> QED
    BY <2>1, <2>2, <2>3
<1> QED
  BY <1>1, <1>4

LEMMA ListingKeepsRows ==
    ASSUME RowInv, NEW complete \in BOOLEAN, NEW keys \in SUBSET Vacancies,
           NEW jobs \in [keys -> Texts], do_listing(complete, jobs)
    PROVE  CountersOK' /\ RowsOK'
<1>1. Outcome({"answered"}) /\ active.task = Listing
  BY DEF do_listing
<1>2. /\ Spent = attempts - 1 /\ Spent' = attempts
      /\ attempts \in Nat \ {0} /\ CountersOK' /\ Spent <= Spent'
  BY <1>1, Claimed DEF Stages
<1>3. Listing \in Tasks /\ Listing \notin Vacancies
  BY WorkerAssumption DEF Tasks
<1>4. /\ task'[Listing] = Finished(Listing, "done", Blank, 0)
      /\ \A v \in Vacancies : \/ \E text \in Texts : task'[v] = Listed(v, text, complete)
                              \/ task'[v] = NotObserved(task[v], complete)
  BY <1>3 DEF do_listing, Tasks
<1>5. RowOK(Listing, task'[Listing], attempts)
  <2>1. "done" \in Statuses \ Unavailable /\ attempts \in Nat
    BY <1>2 DEF Statuses, Unavailable
  <2> QED
    BY <1>3, <1>4, <2>1, FreshRow
<1>6. ASSUME NEW v \in Vacancies
      PROVE  RowOK(v, task'[v], attempts)
  <2>1. RowOK(v, task[v], attempts) /\ v # Listing
    BY <1>2, <1>3, <1>6, RowsKept DEF Tasks
  <2>2. RowOK(v, NotObserved(task[v], complete), attempts)
    BY <2>1, ReconciledRow
  <2>3. ASSUME NEW text PROVE RowOK(v, Listed(v, text, complete), attempts)
    <3> DEFINE row == reconcile_unavailable_present(task[v], complete)
    <3>1. RowOK(v, row, attempts)
      BY <2>1, ReconciledRow
    <3> HIDE DEF row
    <3>2. RowOK(v, enqueue(row, text, DueAt(v, text)), attempts)
      BY <2>1, <3>1, EnqueuedRow
    <3> QED
      BY <3>2 DEF Listed, row
  <2> QED
    BY <1>4, <1>6, <2>2, <2>3
<1> QED
  BY <1>2, <1>5, <1>6 DEF RowsOK, Tasks

\* The steps of a claim before its outcome.
LEMMA ClaimKeepsRows ==
    ASSUME RowInv,
           \/ \E t \in Tasks : HoldStops(t) \/ reserve(t)
           \/ claim \/ request \/ FinishShared
    PROVE  CountersOK' /\ RowsOK'
<1>1. /\ now \in 0 .. MaxTime /\ attempts \in 0 .. MaxAttempts /\ Spent \in 0 .. MaxAttempts
      /\ MaxAttempts \in Nat /\ MaxTime \in Nat
      /\ ledger \in Seq(TimedEvents) /\ CountersOK
  BY WorkerAssumption DEF RowInv, CountersOK
<1>2. CASE \E t \in Tasks : HoldStops(t)
  <2>1. PICK t \in Tasks : HoldStops(t)
    BY <1>2
  <2> DEFINE row == [task[t] EXCEPT !.status = "blocked", !.last_error = TRUE]
  <2>2. /\ UNCHANGED now /\ UNCHANGED up /\ UNCHANGED crashes /\ UNCHANGED active
        /\ UNCHANGED ledger /\ UNCHANGED attempts /\ task[t].status = "pending"
    BY <2>1 DEF HoldStops, Chosen, shared
  <2>3. CountersOK' /\ Spent' = Spent /\ Spent <= Spent'
    BY <1>1, <2>2 DEF CountersOK, Spent
  <2>4. RowOK(t, task[t], Spent')
    BY <2>3 DEF RowInv, RowsOK
  <2>5. /\ {"status", "payload", "receipt", "eligible_at", "last_error"} \subseteq DOMAIN row
        /\ row.status = "blocked" /\ row.receipt = task[t].receipt
        /\ row.payload = task[t].payload
    BY <2>4 DEF RowOK
  <2>6. task' = [task EXCEPT ![t] = row]
    <3>1. task' = [task EXCEPT ![t].status = "blocked", ![t].last_error = TRUE]
      BY <2>1 DEF HoldStops
    <3>2. DOMAIN task = Tasks /\ task = [u \in Tasks |-> task[u]]
      BY DEF RowInv, ClaimInv, Shaped
    <3> QED
      BY <2>1, <3>1, <3>2
  <2> HIDE DEF row
  <2>7. RowOK(t, row, Spent')
    BY <2>4, <2>5 DEF RowOK, ChangesOK, Statuses, Unavailable
  <2> QED
    BY <2>1, <2>3, <2>6, <2>7, OneRow
<1>3. CASE \E t \in Tasks : reserve(t)
  <2>1. PICK t \in Tasks : reserve(t)
    BY <1>3
  <2> DEFINE event == [started_at |-> now, finished_at |-> None]
  <2>2. /\ UNCHANGED now /\ UNCHANGED up /\ UNCHANGED crashes /\ UNCHANGED task
        /\ attempts < MaxAttempts /\ attempts' = attempts + 1 /\ active = None
        /\ ledger' = ledger \/ ledger' = Append(ledger, event)
    BY <2>1 DEF reserve, Chosen
  <2>3. Spent = attempts /\ (Spent' = attempts + 1 \/ Spent' = attempts)
    BY <1>1, <2>2 DEF Spent
  <2>4. ledger' \in Seq(TimedEvents)
    <3>1. event \in TimedEvents
      BY <1>1 DEF TimedEvents
    <3> HIDE DEF event
    <3> QED
      BY <1>1, <2>2, <3>1, AppendProperties
  <2>5. /\ attempts' \in 0 .. MaxAttempts /\ Spent' \in 0 .. MaxAttempts
        /\ Spent <= Spent'
    BY <1>1, <2>2, <2>3
  <2>6. CountersOK'
    BY <1>1, <2>2, <2>4, <2>5 DEF CountersOK
  <2>7. \A u \in Tasks : RowOK(u, task[u], Spent')
    BY <2>5, <2>6, RowsKept
  <2> QED
    BY <2>2, <2>6, <2>7 DEF RowsOK
<1>4. CASE claim
  <2> DEFINE t == active.task
             row == [task[t] EXCEPT !.status = "inflight"]
  <2>1. /\ UNCHANGED now /\ UNCHANGED up /\ UNCHANGED crashes
        /\ UNCHANGED ledger /\ UNCHANGED attempts /\ active # None
    BY <1>4 DEF claim, shared
  <2>2. t \in Tasks /\ task[t].status = "pending"
    BY <1>4 DEF claim, RowInv, ClaimInv, ClaimIsRecorded
  <2>3. Spent = attempts - 1 /\ (Spent' = attempts \/ Spent' = attempts - 1)
    BY <2>1 DEF Spent
  <2>4. Spent <= Spent' /\ Spent' \in 0 .. MaxAttempts
    BY <1>1, <2>3
  <2>5. CountersOK'
    BY <1>1, <2>1, <2>4 DEF CountersOK
  <2>6. RowOK(t, task[t], Spent')
    BY <2>2, <2>4, <2>5, RowsKept
  <2>7. task' = [task EXCEPT ![t] = row]
    <3>1. task' = [task EXCEPT ![t].status = "inflight"]
      BY <1>4 DEF claim
    <3>2. DOMAIN task = Tasks /\ task = [u \in Tasks |-> task[u]]
      BY DEF RowInv, ClaimInv, Shaped
    <3> QED
      BY <2>2, <3>1, <3>2
  <2>8. /\ {"status", "payload", "receipt", "eligible_at", "last_error"} \subseteq DOMAIN row
        /\ row.status = "inflight" /\ row.receipt = task[t].receipt
        /\ row.payload = task[t].payload
    BY <2>6 DEF RowOK
  <2> HIDE DEF row, t
  <2>9. RowOK(t, row, Spent')
    BY <2>2, <2>6, <2>8 DEF RowOK, ChangesOK, Statuses, Protected, Unavailable
  <2> QED
    BY <2>2, <2>4, <2>5, <2>7, <2>9, OneRow
<1>5. CASE request \/ FinishShared
  <2>1. /\ UNCHANGED now /\ UNCHANGED up /\ UNCHANGED crashes
        /\ UNCHANGED attempts /\ UNCHANGED task /\ active # None
    BY <1>5 DEF request, FinishShared, shared
  <2>2. Spent = attempts - 1 /\ (Spent' = attempts \/ Spent' = attempts - 1)
    BY <2>1 DEF Spent
  <2>3. Spent <= Spent' /\ Spent' \in 0 .. MaxAttempts
    BY <1>1, <2>2
  <2>4. ledger' \in Seq(TimedEvents)
    <3>1. CASE ledger' = ledger
      BY <1>1, <3>1
    <3>2. CASE ledger' = [ledger EXCEPT ![Len(ledger)].finished_at = now]
      <4>1. /\ Len(ledger) \in Nat /\ DOMAIN ledger = 1 .. Len(ledger)
            /\ \A k \in 1 .. Len(ledger) : ledger[k] \in TimedEvents
        BY <1>1, ElementOfSeq, LenProperties
      <4>2. \A k \in 1 .. Len(ledger) :
               ledger'[k] = IF k = Len(ledger) THEN [ledger[k] EXCEPT !.finished_at = now]
                            ELSE ledger[k]
        BY <3>2, <4>1
      <4>3. \A k \in 1 .. Len(ledger) :
               [ledger[k] EXCEPT !.finished_at = now] \in TimedEvents
        BY <1>1, <4>1 DEF TimedEvents
      <4>4. \A k \in 1 .. Len(ledger) : ledger'[k] \in TimedEvents
        BY <4>1, <4>2, <4>3
      <4>5. ledger' = [k \in 1 .. Len(ledger) |-> ledger'[k]]
        BY <3>2, <4>1
      <4> QED
        BY <4>1, <4>4, <4>5
    <3> QED
      BY <1>5, <3>1, <3>2 DEF request, FinishShared, shared
  <2>5. CountersOK'
    BY <1>1, <2>1, <2>3, <2>4 DEF CountersOK
  <2>6. \A u \in Tasks : RowOK(u, task[u], Spent')
    BY <2>3, <2>5, RowsKept
  <2> QED
    BY <2>1, <2>5, <2>6 DEF RowsOK
<1> QED
  BY <1>2, <1>3, <1>4, <1>5

\* The start and the end of a tick, and the death of the worker.
LEMMA TickKeepsRows ==
    ASSUME RowInv,
           Tick \/ initialize \/ seed_listings \/ EndTick \/ Crash \/ UNCHANGED vars
    PROVE  CountersOK' /\ RowsOK'
<1>1. /\ now \in 0 .. MaxTime /\ attempts \in 0 .. MaxAttempts /\ Spent \in 0 .. MaxAttempts
      /\ crashes \in 0 .. MaxCrashes /\ {MaxTime, MaxAttempts, MaxCrashes} \subseteq Nat
      /\ ledger \in Seq(TimedEvents) /\ CountersOK
  BY WorkerAssumption DEF RowInv, CountersOK
<1>2. UNCHANGED ledger /\ UNCHANGED attempts
  BY DEF Tick, initialize, seed_listings, EndTick, Crash, vars, shared
<1>3. active' = active \/ active' = None
  BY DEF Tick, initialize, seed_listings, EndTick, Crash, vars, worker
<1>4. Spent <= Spent' /\ Spent' \in 0 .. MaxAttempts
  <2>1. CASE active' = active
    BY <1>1, <1>2, <2>1 DEF Spent
  <2>2. CASE active' = None
    BY <1>1, <1>2, <2>2 DEF Spent
  <2> QED
    BY <1>3, <2>1, <2>2
<1>5. now' \in 0 .. MaxTime /\ crashes' \in 0 .. MaxCrashes
      /\ up' \in {"off", "started", "working"}
  BY <1>1 DEF CountersOK, Tick, initialize, seed_listings, EndTick, Crash, vars
<1>6. CountersOK'
  BY <1>1, <1>2, <1>4, <1>5 DEF CountersOK
<1>7. \A u \in Tasks : RowOK(u, task[u], Spent')
  BY <1>4, <1>6, RowsKept
<1>8. CASE task' = task
  BY <1>6, <1>7, <1>8 DEF RowsOK
<1>9. CASE initialize
  <2>1. ASSUME NEW u \in Tasks
        PROVE  RowOK(u, Interrupted(task[u]), Spent')
    <3> DEFINE row == [task[u] EXCEPT !.status = "interrupted", !.last_error = TRUE]
    <3>1. RowOK(u, task[u], Spent')
      BY <1>7, <2>1
    <3>2. CASE task[u].status # "inflight"
      BY <3>1, <3>2 DEF Interrupted
    <3>3. CASE task[u].status = "inflight"
      <4>1. /\ {"status", "payload", "receipt", "eligible_at", "last_error"}
                   \subseteq DOMAIN row
            /\ row.status = "interrupted" /\ row.receipt = task[u].receipt
            /\ row.payload = task[u].payload
        BY <3>1 DEF RowOK
      <4> HIDE DEF row
      <4>2. RowOK(u, row, Spent')
        BY <3>1, <3>3, <4>1 DEF RowOK, ChangesOK, Statuses, Protected, Unavailable
      <4> QED
        BY <3>3, <4>2 DEF Interrupted, row
    <3> QED
      BY <3>2, <3>3
  <2>2. \A u \in Tasks : task'[u] = Interrupted(task[u])
    BY <1>9 DEF initialize
  <2>3. \A u \in Tasks : RowOK(u, task'[u], Spent')
    BY <2>1, <2>2
  <2> QED
    BY <1>6, <2>3 DEF RowsOK
<1>10. CASE seed_listings /\ task' # task
  <2> DEFINE row == enqueue(task[Listing], None, now)
  <2>1. Listing \in Tasks
    BY DEF Tasks
  <2>2. RowOK(Listing, row, Spent')
    BY <1>7, <2>1, EnqueuedRow
  <2>3. task' = [task EXCEPT ![Listing] = row]
    BY <1>10 DEF seed_listings
  <2> HIDE DEF row
  <2> QED
    BY <1>4, <1>6, <2>1, <2>2, <2>3, OneRow
<1>11. CASE Tick \/ EndTick \/ Crash \/ UNCHANGED vars
  BY <1>8, <1>11 DEF Tick, EndTick, Crash, vars, worker
<1> QED
  BY <1>8, <1>9, <1>10, <1>11

LEMMA RowInvInductive == RowInv /\ [Next]_vars => RowInv'
<1> SUFFICES ASSUME RowInv, [Next]_vars PROVE RowInv'
  OBVIOUS
<1>1. ClaimInv'
  BY ClaimInvInductive DEF RowInv
<1>2. CountersOK' /\ RowsOK'
  <2>1. CASE \E complete \in BOOLEAN, keys \in SUBSET Vacancies :
                \E jobs \in [keys -> Texts] : do_listing(complete, jobs)
    BY <2>1, ListingKeepsRows
  <2> QED
    BY <2>1, OutcomesKeepRows, UnavailableKeepsRows, ClaimKeepsRows, TickKeepsRows DEF Next
<1> QED
  BY <1>1, <1>2 DEF RowInv

LEMMA RowInvInit == Init => RowInv
<1> SUFFICES ASSUME Init PROVE RowInv
  OBVIOUS
<1>1. ClaimInv
  BY ClaimInvInit
<1>2. CountersOK
  <2>1. <<>> \in Seq(TimedEvents)
    OBVIOUS
  <2> QED
    BY <2>1, WorkerAssumption DEF Init, CountersOK, Spent
<1>3. Spent = 0 /\ \A t \in Tasks : task[t] = Absent
  BY DEF Init, Spent
<1>4. \A t : RowOK(t, Absent, 0)
  BY DEF RowOK, ReceiptOK, ChangesOK, Absent, Blank, Fields, Statuses, Protected, Unavailable
<1>5. RowsOK
  BY <1>3, <1>4 DEF RowsOK
<1> QED
  BY <1>1, <1>2, <1>5 DEF RowInv

LEMMA RowInvTyped == RowInv => TypeOK
<1> SUFFICES ASSUME RowInv PROVE TypeOK
  OBVIOUS
<1>1. active = None \/
         /\ active.task \in Tasks
         /\ active.stage \in {"reserved", "claimed", "sent", "answered", "deferred"}
  BY DEF RowInv, ClaimInv, ClaimIsRecorded, Stages
<1>2. \A k \in DOMAIN ledger :
         /\ ledger[k].started_at \in 0 .. MaxTime
         /\ ledger[k].finished_at \in (0 .. MaxTime) \cup {None}
  <2>1. \A k \in DOMAIN ledger : ledger[k] \in TimedEvents
    BY ElementOfSeq, LenProperties DEF RowInv, CountersOK
  <2> QED
    BY <2>1 DEF TimedEvents
<1>3. \A t \in Tasks :
         /\ task[t].status \in Statuses
         /\ task[t].receipt.unavailable_rechecks \in {0, 1}
         /\ task[t].receipt.incomplete \in 0 .. MaxAttempts
         /\ task[t].receipt.changes \in 0 .. 3
         /\ task[t].status \in Unavailable => task[t].receipt.category # None
  <2> SUFFICES ASSUME NEW t \in Tasks
               PROVE  /\ task[t].status \in Statuses
                      /\ task[t].receipt.unavailable_rechecks \in {0, 1}
                      /\ task[t].receipt.incomplete \in 0 .. MaxAttempts
                      /\ task[t].receipt.changes \in 0 .. 3
                      /\ task[t].status \in Unavailable => task[t].receipt.category # None
    OBVIOUS
  <2>1. RowOK(t, task[t], Spent) /\ Spent \in 0 .. MaxAttempts /\ MaxAttempts \in Nat
    BY WorkerAssumption DEF RowInv, RowsOK, CountersOK
  <2> QED
    BY <2>1 DEF RowOK, ReceiptOK, ChangesOK
<1>4. now \in 0 .. MaxTime /\ crashes \in 0 .. MaxCrashes
      /\ up \in {"off", "started", "working"}
  BY DEF RowInv, CountersOK
<1> QED
  BY <1>1, <1>2, <1>3, <1>4 DEF TypeOK

\* Every row is one the worker can read back: rechecks are never counted beyond
\* one and an unavailable vacancy keeps its evidence (finish_unavailable,
\* reconcile_unavailable_present), whatever was interrupted or listed again.
THEOREM TypeCorrect == Spec => []TypeOK
<1> QED
  BY RowInvInit, RowInvInductive, RowInvTyped, PTL DEF Spec
=============================================================================
