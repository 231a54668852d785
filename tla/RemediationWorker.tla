-------------------------- MODULE RemediationWorker --------------------------
(***************************************************************************)
(* The remediation worker (jobagg/remediation_worker.py) at one source: a  *)
(* listing task and one detail task per vacancy, each claimed in two       *)
(* stores -- a reservation file in the policy ledger all workers share,    *)
(* then a row of the worker's own database -- sent, and finished in the    *)
(* same two.  A worker dies between any two of these writes; the next one  *)
(* starts from what they left.                                             *)
(*                                                                         *)
(* One source is enough: run_parallel never admits two tasks of a source   *)
(* and sources share no task.  Host cooldowns, the storage budget and      *)
(* pacing only refuse a task, which is a step not taken here.  Documents   *)
(* and reviewed deadlines are left out.                                    *)
(***************************************************************************)
EXTENDS Integers, Sequences, FiniteSets

CONSTANTS
    None,         \* no value
    Listing,      \* the task that reads the source's inventory
    Vacancies,    \* what the source may list, each with a detail task
    Quota,        \* detail reservations of a source per Hour
    Soon, Hour, Day,
    Interval,     \* between two listings
    MaxTime,      \* bound on the clock
    MaxAttempts,  \* bound on reservations
    Texts,        \* what a listing may say of a vacancy
    MaxCrashes    \* bound on the deaths of the worker

ASSUME WorkerAssumption ==
    /\ Listing \notin Vacancies
    /\ Quota \in Nat \ {0}
    /\ {Soon, Hour, Day, Interval, MaxTime, MaxAttempts, MaxCrashes} \subseteq Nat
    /\ Soon <= Hour /\ Hour <= Day

\* None is no evidence.
ASSUME CategoriesAssumption == None \notin {"explicit", "denied"}

VARIABLES
    now,
    up,           \* the shared owner: "off", "started" or "working"
    crashes,      \* how often the worker died
    active,       \* the claim being worked on, or None
    ledger,       \* the shared files of detail reservations, in order
    attempts,     \* reservations made, listings included
    task,         \* remediation_tasks
    accepted,     \* per vacancy: remediation_observations.checked_at
    nextListing,  \* remediation_sources.next_list_at
    unanswered,   \* history: tasks with a request that left and no outcome
    blind         \* history: vacancies unavailable since the last complete listing

shared == <<ledger, attempts>>
worker == <<active, task, accepted, nextListing>>
history == <<unanswered, blind>>
vars == <<now, up, crashes, shared, worker, history>>

Tasks == Vacancies \cup {Listing}
Unavailable == {"unavailable_pending_inventory", "listing_detail_conflict"}
Protected == {"inflight", "interrupted", "storage_held"} \cup Unavailable
Statuses == Protected \cup
    {"absent", "pending", "done", "blocked", "dead_letter", "not_observed"}
Maximum(m, n) == IF m >= n THEN m ELSE n
Minimum(m, n) == IF m <= n THEN m ELSE n
-----------------------------------------------------------------------------
(***************************************************************************)
(* Receipts: what the last outcome left for the next one to read.          *)
(***************************************************************************)
Blank == [unavailable_rechecks |-> 0, incomplete |-> 0, changes |-> 0,
          retry_input |-> None, category |-> None, observed_at |-> 0]

\* Counts of typed failures hold for the input they were counted on.
incomplete_response_count(t) ==
    IF t.receipt.retry_input = t.payload THEN t.receipt.incomplete ELSE 0
inventory_change_count(t) ==
    IF t.receipt.retry_input = t.payload THEN t.receipt.changes ELSE 0

FailureReceipt(t, incomplete, changes) ==
    [Blank EXCEPT !.incomplete = incomplete, !.changes = changes,
                  !.retry_input = t.payload]
-----------------------------------------------------------------------------
Absent == [status |-> "absent", eligible_at |-> 0, payload |-> None,
           last_error |-> FALSE, receipt |-> Blank]

Init ==
    /\ now = 0
    /\ up = "off"
    /\ crashes = 0
    /\ active = None
    /\ ledger = <<>>
    /\ attempts = 0
    /\ task = [t \in Tasks |-> Absent]
    /\ accepted = [v \in Vacancies |-> None]
    /\ nextListing = 0
    /\ unanswered = {}
    /\ blind = {}

Tick == /\ now < MaxTime
        /\ now' = now + 1
        /\ UNCHANGED <<up, crashes, shared, worker, history>>

-----------------------------------------------------------------------------
(***************************************************************************)
(* Ticks                                                                   *)
(***************************************************************************)
\* Fault: a claim found at start is simply tried again.
InitializeRequeues(t) == IF t.status = "inflight" THEN [t EXCEPT !.status = "pending"] ELSE t

\* A killed process may have sent a request: never retry its claim.
Interrupted(t) ==
    IF t.status = "inflight" THEN [t EXCEPT !.status = "interrupted", !.last_error = TRUE] ELSE t

\* The process takes the shared owner lock and initializes.
initialize ==
    /\ up = "off"
    /\ up' = "started"
    /\ task' = [t \in Tasks |-> Interrupted(task[t])]
    /\ UNCHANGED <<now, crashes, shared, active, accepted, nextListing, history>>

\* Fault: an unavailable detail is refreshed by the next listing.
ProtectedButUnavailable(t) == t.status \in Protected \ Unavailable

IsProtected(t) == t.status \in Protected

\* A failed input is tried again only once it changed.
KeepsFailure(t, payload) ==
    \/ t.status = "blocked" /\ t.receipt.retry_input = None
    \/ /\ t.status \in {"blocked", "dead_letter"}
       /\ payload = IF t.receipt.retry_input = None THEN t.payload ELSE t.receipt.retry_input

\* enqueue, with refresh.
enqueue(t, payload, due) ==
    IF IsProtected(t) \/ KeepsFailure(t, payload)
    THEN t
    ELSE [t EXCEPT !.status = "pending", !.payload = payload,
             !.eligible_at = IF t.status = "pending" /\ t.last_error
                             THEN Maximum(due, t.eligible_at) ELSE due]

seed_listings ==
    /\ up = "started"
    /\ up' = "working"
    /\ IF nextListing <= now
       THEN /\ task' = [task EXCEPT ![Listing] = enqueue(@, None, now)]
            /\ nextListing' = now + Interval
       ELSE UNCHANGED <<task, nextListing>>
    /\ UNCHANGED <<now, crashes, shared, active, accepted, history>>

\* Every lane has drained; the report is written and the owner released.
EndTick ==
    /\ up = "working" /\ active = None
    /\ up' = "off"
    /\ UNCHANGED <<now, crashes, shared, worker, history>>

\* The process dies, or a write fails outside what a task's handler catches:
\* the database rolls back, the files stay.
Crash ==
    /\ up # "off" /\ crashes < MaxCrashes
    /\ up' = "off"
    /\ crashes' = crashes + 1
    /\ active' = None
    /\ UNCHANGED <<now, shared, task, accepted, nextListing, history>>
-----------------------------------------------------------------------------
(***************************************************************************)
(* Claims                                                                  *)
(***************************************************************************)
\* Fault: only what came back is counted.
EventsAnswered == {k \in DOMAIN ledger : ledger[k].finished_at # None}

\* Every reservation file counts, whatever became of it.
event_snapshot == DOMAIN ledger

EndOf(k) == IF ledger[k].finished_at = None THEN ledger[k].started_at
            ELSE ledger[k].finished_at

policy_due(t) ==
    t \in Vacancies => Cardinality({k \in event_snapshot : EndOf(k) > now - Hour}) < Quota

Chosen(t) ==
    /\ up = "working" /\ active = None
    /\ task[t].status = "pending"
    /\ task[t].eligible_at <= now

\* admit, when a hold or a circuit appeared on the source since choose.
HoldStops(t) ==
    /\ Chosen(t)
    /\ task' = [task EXCEPT ![t].status = "blocked", ![t].last_error = TRUE]
    /\ UNCHANGED <<now, up, crashes, shared, active, accepted, nextListing, history>>

\* claim, up to the reservation file; the transaction stays open.
reserve(t) ==
    /\ Chosen(t)
    /\ policy_due(t)
    /\ attempts < MaxAttempts
    /\ attempts' = attempts + 1
    /\ ledger' = IF t \in Vacancies
                 THEN Append(ledger, [started_at |-> now, finished_at |-> None]) ELSE ledger
    /\ active' = [task |-> t, stage |-> "reserved", at |-> None]
    /\ UNCHANGED <<now, up, crashes, task, accepted, nextListing, history>>

\* claim's commit.
claim ==
    /\ active # None /\ active.stage = "reserved"
    /\ active' = [active EXCEPT !.stage = "claimed"]
    /\ task' = [task EXCEPT ![active.task].status = "inflight"]
    /\ UNCHANGED <<now, up, crashes, shared, accepted, nextListing, history>>

\* The task's first request leaves.
request ==
    /\ active # None /\ active.stage = "claimed"
    /\ active' = [active EXCEPT !.stage = "sent", !.at = now]
    /\ unanswered' = unanswered \cup {active.task}
    /\ UNCHANGED <<now, up, crashes, shared, task, accepted, nextListing, blind>>

\* finish, in the shared file first.  A task deferred before it sent anything
\* ends here too.
FinishShared ==
    /\ active # None /\ active.stage \in {"claimed", "sent"}
    /\ ledger' = IF active.task \in Vacancies
                 THEN [ledger EXCEPT ![Len(ledger)].finished_at = now] ELSE ledger
    /\ active' = [active EXCEPT !.stage = IF @ = "sent" THEN "answered" ELSE "deferred"]
    /\ UNCHANGED <<now, up, crashes, attempts, task, accepted, nextListing, history>>
-----------------------------------------------------------------------------
(***************************************************************************)
(* Outcomes, each one database transaction that ends in finish.            *)
(***************************************************************************)
Finished(t, status, receipt, due) ==
    [task[t] EXCEPT !.status = status, !.receipt = receipt, !.eligible_at = due,
                    !.last_error = status # "done"]

\* What every outcome does; the task's row is left to it.
Outcome(stages) ==
    /\ active # None /\ active.stage \in stages
    /\ active' = None
    /\ unanswered' = unanswered \ {active.task}
    /\ UNCHANGED <<now, up, crashes, shared>>

Ends(t, status, receipt, due) ==
    /\ task' = [task EXCEPT ![t] = Finished(t, status, receipt, due)]
    /\ UNCHANGED <<accepted, nextListing, blind>>

Counts(t) == <<incomplete_response_count(task[t]), inventory_change_count(task[t])>>

\* retry_after_error: a deferral, or a transport failure the guards allow.
Retries ==
    /\ Outcome({"answered", "deferred"})
    /\ LET t == active.task
       IN  Ends(t, "pending", FailureReceipt(task[t], Counts(t)[1], Counts(t)[2]), now + Soon)

\* Any other failure needs a review; one of local policy is a dead letter.
Fails(status) ==
    /\ Outcome({"answered", "deferred"})
    /\ LET t == active.task
       IN  Ends(t, status, FailureReceipt(task[t], Counts(t)[1], Counts(t)[2]), 0)

\* A detail without its body, retried twice at most.
DetailIncomplete ==
    /\ Outcome({"answered"})
    /\ active.task \in Vacancies
    /\ LET t == active.task
           count == Counts(t)[1] + 1
           receipt == FailureReceipt(task[t], count, Counts(t)[2])
       IN  \/ count < 3 /\ Ends(t, "pending", receipt, now + Soon)
           \/ Ends(t, "blocked", receipt, 0)

\* An inventory that changed while it was read, retried twice.
InventoryChanged ==
    /\ Outcome({"answered"})
    /\ active.task = Listing
    /\ LET count == Counts(Listing)[2] + 1
           receipt == FailureReceipt(task[Listing], Counts(Listing)[1], count)
       IN  IF count < 3 THEN Ends(Listing, "pending", receipt, now + Soon)
           ELSE Ends(Listing, "blocked", receipt, 0)

\* Verifying a listing ran out of time: its receipt starts afresh.
VerificationDeferred ==
    /\ Outcome({"answered"})
    /\ active.task = Listing
    /\ Ends(Listing, "pending", Blank, 0)

finish_storage_hold ==
    /\ Outcome({"answered", "deferred"})
    /\ Ends(active.task, "storage_held", Blank, 0)

\* A detail the source answers with its template for a withdrawn vacancy, or
\* refuses.
finish_unavailable ==
    /\ Outcome({"answered"})
    /\ active.task \in Vacancies
    /\ LET v == active.task
           seen == ledger[Len(ledger)].finished_at
       IN  \E category \in {"explicit", "denied"} :
             /\ task' = [task EXCEPT ![v] = Finished(v, "unavailable_pending_inventory",
                   [Blank EXCEPT !.unavailable_rechecks = task[v].receipt.unavailable_rechecks,
                                 !.category = category, !.observed_at = seen], 0)]
             /\ nextListing' = Minimum(nextListing, now + Soon)
             /\ blind' = blind \cup {v}
    /\ UNCHANGED accepted

\* do_detail.
do_detail ==
    /\ Outcome({"answered"})
    /\ active.task \in Vacancies
    /\ task' = [task EXCEPT ![active.task] = Finished(active.task, "done", Blank, 0)]
    /\ accepted' = [accepted EXCEPT ![active.task] = now]
    /\ blind' = blind \ {active.task}
    /\ UNCHANGED nextListing

\* The inventory is complete and newer than the unavailable answer.
Newer(t, complete) == complete /\ active.at > t.receipt.observed_at

\* A refused detail is asked for again daily; one answered as withdrawn but
\* still listed once, after which the two conflict.
RecheckOnce(t) ==
    [t EXCEPT !.status = IF t.receipt.unavailable_rechecks = 0 THEN "pending"
                         ELSE "listing_detail_conflict",
              !.receipt.unavailable_rechecks = 1,
              !.eligible_at = Maximum(now, t.receipt.observed_at + Hour),
              !.last_error = TRUE]

\* Fault: the recheck is counted and never stops.
RecheckAlways(t) ==
    [t EXCEPT !.status = "pending", !.receipt.unavailable_rechecks = @ + 1,
              !.eligible_at = Maximum(now, t.receipt.observed_at + Hour),
              !.last_error = TRUE]

Recheck(t) == RecheckOnce(t)

reconcile_unavailable_present(t, complete) ==
    IF ~(t.status \in Unavailable /\ Newer(t, complete)) THEN t
    ELSE IF t.receipt.category = "denied"
    THEN [t EXCEPT !.status = "pending", !.last_error = TRUE,
                   !.eligible_at = Maximum(now, t.receipt.observed_at + Day)]
    ELSE Recheck(t)

\* When the detail of a vacancy listed with this text is wanted.
DueAt(v, text) ==
    LET t == task[v]
        changed == t.status # "absent" /\ t.payload # text
        due == IF accepted[v] = None \/ changed THEN now ELSE Maximum(now, accepted[v] + Day)
    IN  IF t.status = "pending" THEN Minimum(due, t.eligible_at) ELSE due

\* Closure is never inferred; absence from a newer complete inventory only
\* takes the detail off the backlog.
NotObserved(t, complete) ==
    IF /\ complete
       /\ \/ t.status = "pending"
          \/ t.status \in Unavailable /\ Newer(t, complete)
    THEN [t EXCEPT !.status = "not_observed", !.last_error = TRUE] ELSE t

Listed(v, text, complete) ==
    enqueue(reconcile_unavailable_present(task[v], complete), text, DueAt(v, text))

\* do_listing: jobs is what the listing showed, the text of each vacancy.
do_listing(complete, jobs) ==
    /\ Outcome({"answered"})
    /\ active.task = Listing
    /\ task' = [t \in Tasks |->
                  CASE t = Listing -> Finished(Listing, "done", Blank, 0)
                    [] t \in DOMAIN jobs -> Listed(t, jobs[t], complete)
                    [] OTHER -> NotObserved(task[t], complete)]
    /\ blind' = IF complete THEN {} ELSE blind
    /\ UNCHANGED <<accepted, nextListing>>
-----------------------------------------------------------------------------
Next ==
    \/ Tick
    \/ initialize
    \/ seed_listings
    \/ EndTick
    \/ Crash
    \/ \E t \in Tasks : HoldStops(t) \/ reserve(t)
    \/ claim
    \/ request
    \/ FinishShared
    \/ Retries
    \/ \E status \in {"blocked", "dead_letter"} : Fails(status)
    \/ DetailIncomplete
    \/ InventoryChanged
    \/ VerificationDeferred
    \/ finish_storage_hold
    \/ finish_unavailable
    \/ do_detail
    \/ \E complete \in BOOLEAN, keys \in SUBSET Vacancies :
          \E jobs \in [keys -> Texts] : do_listing(complete, jobs)

Spec == Init /\ [][Next]_vars
-----------------------------------------------------------------------------
(***************************************************************************)
(* Properties                                                              *)
(***************************************************************************)
\* Every row has a shape the worker can read back: its reconciliation raises
\* on a vacancy whose rechecks are counted beyond one, and on an unavailable
\* one without its evidence.
TypeOK ==
    /\ now \in 0 .. MaxTime
    /\ crashes \in 0 .. MaxCrashes
    /\ up \in {"off", "started", "working"}
    /\ active = None \/
         /\ active.task \in Tasks
         /\ active.stage \in {"reserved", "claimed", "sent", "answered", "deferred"}
    /\ \A k \in DOMAIN ledger :
         /\ ledger[k].started_at \in 0 .. MaxTime
         /\ ledger[k].finished_at \in (0 .. MaxTime) \cup {None}
    /\ \A t \in Tasks :
         /\ task[t].status \in Statuses
         /\ task[t].receipt.unavailable_rechecks \in {0, 1}
         /\ task[t].receipt.incomplete \in 0 .. MaxAttempts
         /\ task[t].receipt.changes \in 0 .. 3
         /\ task[t].status \in Unavailable => task[t].receipt.category # None

\* No Hour sees more detail reservations than the source's quota, those of a
\* worker that died before its database knew of them included: the ledger
\* never refunds one.
QuotaHolds ==
    \A k \in DOMAIN ledger :
        Cardinality({j \in 1 .. k : ledger[j].started_at > ledger[k].started_at - Hour}) <= Quota

\* While the outcome of a request that left is unknown, its task cannot be
\* chosen: not after a restart, and not because a listing shows the vacancy
\* again or no longer.
OutcomeBeforeRetry ==
    \A t \in unanswered : task[t].status \in {"inflight", "interrupted"}

\* A detail that came back unavailable is asked for again only on the word of
\* a complete inventory read since, whatever happened between.
InventoryBeforeRecheck ==
    \A v \in blind : task[v].status \notin {"pending", "inflight"}
=============================================================================
