# A verification of the vault sync service, its clients and the job runtime

This directory holds TLA+ modules about *un_job_application_helper*: what its
state is, how each operation changes it, what must hold whatever the order of
the operations, and proofs of most of that. Paths are relative to the
repository root, which is `src/` in `PROJECT.json`. To check a run, and the
proofs of a module (every module named `...Proofs` has some):

    tlc -workers 2 -config MCOpaqueStore_writes.cfg MCOpaqueStore.tla
    tlapm OpaqueStoreProofs.tla

`PROJECT.json` maps every definition to the lines it models (`map`), lists the
runs, the theorems, the hazards of the code and the properties that cover them.

## 1. The system

The repository has two halves that share no state. A **vault** keeps a user's
encrypted records on several devices through a sync service that sees only
ciphertext and signatures. A **job aggregator** fetches postings and publishes
a database that a job API serves.

### The sync service (services/atlasvault-api, Python, one process)

| Component | State | Operations | What is hard |
| --- | --- | --- | --- |
| ciphertext store, `storage.py` | vaults: registers (metadata, snapshot, objects) with their histories, patch logs, idempotency receipts; page cursors; expiry heaps; usage counters | put metadata / object / snapshot, append patch, list patches | retries, compare-and-swap, expiry with bounded pruning, six counters kept by deltas |
| accounts and sessions, `app.py` (`AtlasVaultBackend`) | accounts with device registries, bootstrap admissions, challenges, sessions, slots per device | admit, bootstrap, challenge, create session, authorize, add device | the lock is released while a signature is verified |
| request controls, `controls.py` | fixed windows | charge a window | the window's edges, called between two locks |
| commitment log, `commitments.py`, `activations.py`, `delivery.py` | SQLite: views, activations, deliveries, staged deliveries | append a view, stage a delivery, accept an activation | rival plans, room for staging, an activation visible with all its deliveries |
| membership, `enrollments.py` | SQLite table of enrollments; a cache per connection with a stamp | read the membership, accept an enrollment | several statements per reading, several connections, a cache revalidated by stamps |

`app.py` calls everything else, under one re-entrant lock, except for the
verifications. A vault operation looks the session up, then the epoch and the
membership in the commitment database, then acts on the store or on the log.

### The client library (packages/vaultsync)

| Component | State | Operations | What is hard |
| --- | --- | --- | --- |
| patch queues, `sync_queue.py` | encrypted files: operations, snapshots, pending operations, an inbox of pages | append, compact, ingest, merge snapshot, synchronise, stage a page, apply | total order, late and repeated delivery, crashes between two files |
| removals and rotations, `revocation.py`, `epoch_rotation.py`, `device_enrollment.py`, `device_delivery.py` | signed plans and proofs | make and verify a removal, rotation, enrollment, delivery | each is verified on a state that may have moved on |
| epoch vault, `epoch_vault.py`, `epoch_catch_up.py` | one encrypted file and a publication record | catch up, rotate, recover | a crash between record and file |
| state history, `authenticated_state_view.py`, `sync_recovery.py` | last accepted view, fence | admit, recover from a fork | must not accept a rollback |
| pairing and delivery, `pairing.py`, `trusted_devices.py`, `key_delivery.py` | replay store, registry, installation receipts | two-message ceremony, sealed packets | replays, unknown commit outcome |

### The job runtime (packages/jobagg, the dispatcher in reports/.../proposed_runner/runner.py)

| Component | State | Operations | What is hard |
| --- | --- | --- | --- |
| dispatcher, `runner.py` | one directory of control files per batch (state, intent, request, result, outcome, recovery, resolution), a shared lock its children inherit | a tick: resume the active run, reconcile a stale one, recover a publication, or run worker and publisher | killed between any two files; the next tick acts on what it finds |
| runtime authority, `runtime_authority.py` | phase of the one active run and its control record, in the worker database | begin, writer's guard, close empty, publish, advance, finish | an interruption between the phase and the files that go with it |
| containment, `runtime_containment.py`, `runtime_control_catalog.py` | control records older than the authority, with what each waits for; one containment receipt | review and contain, invalidate, reconcile a record | admits new work over what is held and unresolved, and must credit none of it |
| dirty queue, `publication_work.py` | per unit a version and a disposition; dated transitions | mark (by triggers), select, acknowledge, advance time | what changes while it is published, what a capped publication does not reach |
| pending marker, `pending_publication.py` | accepted work that is under no intent yet | seal, record projection, resume, release | exists exactly while neither worker nor publisher owns the work |
| publisher, `publish_worker.py`, `live_publication.py` | a gate at the destination, a generation, databases and exports | plan, open a generation, finish it, rerun to recover it | the point of no return lies in the middle |
| remediation worker, `remediation_worker.py`, `worker_policy.py` | tasks and observations in SQLite; reservation files all workers share | initialize, seed, claim, send, finish in one of a dozen ways | two stores per claim, a request whose outcome nobody knows |

Around them are the storage budget, the source synchronisation, some forty site
adapters, one-off authority and incident tools, and the job API with its
publication gate and JSON tracker.

### What makes each component correct

- *Store*: no accepted update is overwritten unseen; a repeated request answers
  as the first did; a live receipt or cursor survives every operation; pages
  partition the log; the counters the limits use are exact.
- *Accounts*: a challenge is spent once and in time; an account is created with
  the admission issued last; a registry is one signed chain; slots do not leak.
- *Membership*: nobody sees a torn or stale membership, and no enrollment is
  committed onto one it was not checked against.
- *Epochs*: views, activations, enrollments and deliveries make one history that
  a device which catches up can verify; a removed device stays out; every member
  has its key delivery; the log can always be continued.
- *Patch queues*: compaction loses nothing; devices agree in the end; an edit
  does not lose to what it replaced; a deletion is final; a confirmed operation
  is held elsewhere.
- *Worker*: an hour never sees more detail requests than the quota, reservations
  of dead workers included; a request that may have been sent is not repeated; a
  vacancy whose detail is unavailable waits for a complete listing.
- *Publication*: what counts as published is at the destination, in that version;
  nothing is fetched over unpublished work, except over what is held and an
  operator's review contains; a generation is published once; and whatever is dirty
  is published or held in the end.

## 2. The modules

| Module | Models | Used by |
| --- | --- | --- |
| `OpaqueStore` | `storage.py` | `MCOpaqueStore`, `OpaqueStoreProofs` |
| `AccountAccess` | `app.py` accounts, sessions; `controls.py` verification windows | `MCAccountAccess`, `AccountAccessProofs` |
| `MembershipCache` | `enrollments.py`, at the level of SQL statements and connections | `MCMembershipCache`, `MembershipCacheProofs` |
| `EpochActivation` | `commitments.py`, `enrollments.py`, `activations.py`, `delivery.py` and the checks of the client library they run | `MCEpochActivation`, `EpochActivationProofs` |
| `PatchOperations` | operations, their order and replay (`sync_queue.py`) | the next three |
| `PatchLog` | abstract: what a patch collection promises | `PatchCollection` |
| `PatchCollection` | `DurableEncryptedPatchCollection` | `MCPatchCollection`, `PatchCollectionProofs` |
| `ConvergentReplica` | `DurableEncryptedConvergentReplica`, several devices | `MCConvergentReplica`, `ConvergentReplicaProofs` |
| `RemediationWorker` | `remediation_worker.py` at one source, `worker_policy.py`'s ledger | `MCRemediationWorker`, `RemediationWorkerProofs` |
| `PublicationRun` | `runner.py`'s native tick, `runtime_authority.py`, `publication_work.py`, `pending_publication.py`, the admission by `runtime_containment.py`, `publish_worker.py`, `live_publication.py`'s plan, gate and generation | `MCPublicationRun`, `PublicationRunProofs` |

Definitions marked `Fault:` are not part of a model. Each is a plausible bug in
the definition that follows it, and is there to see that the property named with
it in `PROJECT.json` (`mutants`) does notice that bug.

**OpaqueStore.** One action per call of the store, since each runs under its
lock. A vault's dictionaries are functions from registers to envelopes; an
envelope is its revision, its parent and a body. A write reads the clock, prunes
at most `MaxReceiptPrune` heap entries, and then has one of four outcomes in the
order of the code: answered from a live receipt, acknowledged as a duplicate,
refused (with the expired receipt it met dropped all the same), or committed with
receipt and counters. A heap is a sequence kept in the order entries are popped.
Listing fixes its end with the first page; each further page is minted once.

**AccountAccess.** `bootstrap_account`, `create_session` and `add_device` are
three actions each: `Begin...` under the lock, `Verify` outside it (charging the
verification window and looking at the signature), `Commit...` under the lock
again. Any other call may run in between. Tokens, admissions and challenges are
the serial numbers of their issue; the clock is one variable because every
reading is `time.monotonic`. `grants` and `lineage` are history variables.

**MembershipCache.** What a table holds is a version number. A connection's
stamp is SQLite's `data_version` (which other connections' commits advance) and
its own `total_changes` (which its writes advance even if rolled back). A reading
is one action per table, so another connection's commit may fall between any two;
`BEGIN IMMEDIATE` is the variable `writer`. `Commit` may fail. `Remember` takes
place after the commit, when others may already have committed again.

**EpochActivation.** Devices sign views, rotation plans and enrollments on what
the service shows them at that time and send them whenever they like, or never.
A root is the serial number of the message it is the digest of, so two messages
have equal roots exactly when they are the same. The membership is rebuilt from
the rows as in the code: the plan's registry with its removal, and then the
enrollments under it, a set of rows keyed as in the table by activation and
generation. One vault of one account is modelled, whose devices all
have sessions while they are members.

**PatchOperations, PatchLog, PatchCollection.** An operation is its identifier,
author, sequence, clock and envelope. `PatchCollection` keeps a snapshot (a replay
put to rest) and a tail; `Replay` is what every call recomputes. `PatchLog` is
the abstract promise: a set of operations, each next in the total order and of
its author, and for each object the envelope of its last one. The refinement
mapping is `log <- Replay.applied, records <- Replay.records`, and a compaction is
a stuttering step of the log.

**ConvergentReplica.** Each device has its operations, merged snapshots and
pending operations; `synchronize_to` is `StartSession`, then `SendNext` and
`ConfirmSent` for each operation, two files written in turn, with `Crash` between
any two of them. `IngestRemote` delivers any operation ever issued, late and
repeatedly. `Authors` is an assumption about the application: it numbers its
operations, moves its clock past everything it has seen and names the revision it
edits.

**RemediationWorker.** A claim is a reservation file in the policy ledger and
then a row of the worker's database: `reserve`, `claim`, `request`,
`FinishShared` and one of the outcomes are steps with a `Crash` between any two.
What a site answers is chosen when the answer is read. One source suffices:
`run_parallel` admits no two tasks of a source and sources share no task. A
receipt holds only what the next outcome reads of it. `unanswered` and `blind`
are history variables: tasks whose request left and has no outcome, and
vacancies unavailable since the last complete listing.

**PublicationRun.** The program counter `tick.pc` is between two durable writes
of the dispatcher; `Kill` resets it and leaves the child, which holds the lock.
`dir` is the current batch's control files, `run` and `phase` the authority's row,
`marker` the pending marker. A unit's public content is its version: `dest` says
which version the destination shows, and a projection is the versions of one
instant. The selection chooses any pending units up to `max_units` and may hold
others, as fan-out and byte limits do. A generation is open once its gate is
written and done once its databases are; the transactions in between are one
step, since a rerun finishes the same plan. Checks of hashes and of the
configuration are left out where the files they compare are written by this
program alone. `recover_stale_runs` is one step: its files are the same when
it runs again. The destination is assumed to hold a finished generation with a
verified boundary, as after the first publication, and acknowledgement and the
change of phase are two steps.

`legacy` is what the oldest unresolved control record of before the authority
waits for, and `contained` whether a containment receipt is approved. An idle
runtime fetches only if nothing is held and no such record is left, or if the
receipt contains them (`ResumeIdle`: `runner.py:1892` and `1909`); a record that
waits for publication alone does not keep the backlog from being published
(`HistoryAdmits`). A run that accepted nothing and leaves only what is contained
ends as `scoped_hold_noop`, not as `proven_empty` (`ScopedNoop`). The receipt
comes, goes and is made void by `prepare`, `invalidate` and `close_reconciled`,
the operator's actions on an idle runtime whose lock is free. What a review
examines, and the hashes of configuration and implementation a receipt is bound
to, are left out: a receipt that no longer matches is one that was invalidated.

## 3. The runs

| Run | Bounds | What it shows |
| --- | --- | --- |
| `store_writes` | two accounts, every kind of write: three envelopes of one object under each expected revision and two keys, a patch log that may fork, metadata, snapshot, another vault; receipts live for two, one heap entry pruned at a time; limits of one vault, one object, two patches, three revisions, four bytes per account and two vaults, nine bytes in all | no lost update, the head is the latest, receipts answer only for commits, and the counters equal a recount while every limit is met |
| `store_list` | two vaults, three patches and a fork, page sizes 1 and 2, two tokens, four instants, receipts live for one, cursors for two, one entry pruned at a time | pages go on where they ended, what expires is scheduled, live receipts and cursors stay and denote the same |
| `account_access` | two accounts with room for one, three devices, three revisions, two threads, two challenges or admissions, one session, three instants, eight transitions: rival claims, two additions that race for one parent, others that follow with a new device, a device or a revision that was there, wrong signers | a challenge is spent once and in time; slots are exact; a registry is one chain, begun under the admission in force |
| `membership_cache` | two connections, two attempts (the code has three), versions and changes up to two | no torn or stale membership is cached, answered or enrolled onto, no transaction is left open |
| `epoch_activation` | two founders and two newcomers, four messages, two views, two rows staged, five rows accepted | epochs, membership, deliveries and log stay one verifiable history |
| `patch_collection` | two devices, two objects, sequences to 2, clocks to 3, three operations, every operation they could name | the file loads, compaction is always possible, snapshot and tail implement `PatchLog` |
| `replica` | two devices, three operations on one object, one of them possibly a deletion, two snapshots a device, one crash | no stale winner; deletions are final; the newest of successive snapshots decides; without snapshots pending operations drain and records agree in the end |
| `replica_delivery_order` | two operations, one snapshot | **violated**: see section 4 |
| `remediation_worker` | one vacancy with two texts and its listing, two detail requests an hour, four instants, five reservations, one crash | the quota counts every reservation; no retry under an unknown outcome; no recheck before a complete inventory |
| `publication_run` | two units with versions to 2, both in one batch or one each, one failure, deferral or expired deadline, one kill, possibly an old control record, reviews whenever the runtime is idle | acknowledged means published, nothing fetched over debt but what a review contains, nothing published twice, and without a kill the queue drains |
| `publication_interrupted` | one kill, no fault | **violated**: see section 4 |
| `publication_unfetched` | a vacancy that is listed before it is fetched, no kill, no fault | **violated**: see section 4 |

*Why these bounds.* Each hazard needs few actors: a race needs two, a torn
reading one commit between two statements, a fork two revisions on one parent, a
reused receipt one expiry with its heap entry still queued (hence one entry
pruned at a time and two keys). A limit is tested by making it small enough to be
reached next to calls that are below it. `epoch_activation` has four messages:
a view, a plan that takes effect, and two more signed on one membership, of which
the first to be accepted must make the other stale. In `publication_run` two
units make a batch partly processed, two versions make a unit change after it was
selected, one fault makes a publisher fail, defer or die, and the one kill may
fall anywhere, during its recovery too. (Two faults, with which the recovery fails
as well, were also checked, without old records.) An old record is there from the
start or never, and a reconciliation brings up another or the last.
`remediation_worker` has time for a reservation to leave the quota's hour and
for a listing after each answer. The store's and the collection's runs have no
bound on steps; what ends them is that requests or operations are finitely many.

*Deadlock.* It is checked for the store, the collection, the membership cache
and the publication, whose ticks go on for ever. `AccountAccess` stops when its
clock and serials reach `MaxTime` and `MaxIssued`, `EpochActivation` when its
messages are spent, `ConvergentReplica` when every operation is accepted
everywhere, `RemediationWorker` when its clock and attempts are used up; in these
runs the check is off.

*Fairness.* `ConvergentReplica` has weak fairness of `Synchronize(d)`, for each
device: a device that is up goes on calling `synchronize_to`, a loop without
waiting, while it has pending operations. Nothing is assumed of user edits, of
deliveries outside a synchronisation or of crashes, which `MaxCrashes` bounds.
`PublicationRun` has weak fairness of `Dispatcher` (cron starts a tick again and
again, and a tick that is not killed goes on) and of `Child` (`execute` ends a
child at its deadline). No fairness says that a publisher succeeds: `MaxFaults`
bounds how often one may fail. Nothing is assumed of the operator.
`EventuallyDrained` is claimed for behaviours without a kill, because with one it
fails (section 4), and without an old record that waits for more than publication,
behind which the backlog stays until someone reviews it. In `publication_run`
`Unfetched` is empty: every vacancy that is listed has its detail accepted by the
same worker. Without that it fails too (also section 4).

## 4. Divergences found

**Delivery order.** `contracts/sync/encrypted_patch_convergence.md:18` says of the
accepted operation set that "delivery order and duplicate delivery do not alter
the reduction result". `_resolve_convergent_records` prefers any operation held
whole to any snapshot record, and an operation whose receipt a merged snapshot
holds is dropped on arrival. Two devices that accepted the same operations, one
of them partly through a snapshot, then show different records: run
`replica_delivery_order`. Line 69 of the same contract ranks snapshot records
below explicit operations, so it is the claim of line 18 that is too wide.

**An interrupted run that cannot end.** `packages/jobagg/docs/runtime-m1-progress.md:18`
says that an interruption between marker and intent is continued before new
fetching. A dispatcher killed there leaves `state.json` at "running". The next
tick archives nothing (there is no outcome yet), resumes the sealed work, and on
the way `recover_stale_runs` writes an `outcome.json` for that very batch
(`runner.py:1081`). The batch is then published and acknowledged, but its own
outcome differs from the one that is there, so `immutable_json` refuses
(`runner.py:3436`). From then on every tick finds a finished outcome beside
`state.json` at "running" and a `recovery.json` of the earlier state, and
refuses (`runner.py:1088`). Run `publication_interrupted` ends in that lasso.

**A vacancy that no generation visits.** A listing writes vacancies into `jobs`,
and a trigger makes each of them dirty. The publisher reports as processed only
vacancies with an accepted detail (`live_publication.py:405`). One that is listed
and not fetched is selected, published as nothing, not acknowledged and selected
again; since the queue is never drained, no worker starts that could fetch it:
run `publication_unfetched`. `packages/jobagg/docs/runtime-m1-ci-repair.md:35`
says that unvisited units remain pending for another bounded generation.

Both runtime runs were also reproduced with the code itself, on a scratch
workspace. Seen while modelling, with no run of their own:

- The number of rechecks of an unavailable detail is kept in the task's last
  receipt; a failure in between replaces that receipt, so the one bounded recheck
  of `packages/jobagg/tests/test_worker_vacancy_lifecycle.py:103` can happen again
  (`remediation_worker.py:1614`). `verification_deferred` likewise drops the count
  of inventory changes.
- A listing task that is interrupted is never seeded again: `enqueue` leaves
  interrupted tasks to a review.
- Other places where a kill leaves a run only an operator can end: between the
  outcome `proven_empty` and `close_empty` (`runner.py:3440`); between the
  publisher's deferred report and the observation of its exit; between the
  authority's `begin` and the first `state.json`; between the intent and
  `publication_recovery_allowed`. `PublicationRun` has them all; the ticks
  that follow refuse, and no safety property breaks.
- `runner.py:1952` says that a report cannot override an exit nobody observed;
  `recover_stale_runs` accepts such a report.

## 5. What is proved

For every value of the constants that satisfies the named assumptions of the
module.

**Store** (`OpaqueStoreProofs`): `TypeCorrect` is `[]TypeOK`. `NoUpdateIsLost` is
`[](NoLostUpdate /\ HeadIsLatest)`, where `HeadIsLatest` is `RegistersAreChains`
for metadata, objects and snapshots and `PatchLogIsChain` for the patch log. For
registers neither part is inductive alone: that two revisions never have the same
parent follows for a new one only because its parent is the current revision and
nothing succeeds that, which is `RegistersAreChains`; and the current revision has
no successor after the commit only because the new revision is not in the
history, whose members have parents in the history. Their invariant is
`LineageInv == TypeOK /\ RegistersAreChains /\ NoLostUpdate`; only `CommitRegister`
disturbs it (`RegisterCommitKeepsLineage`). `PatchLogIsChain` needs `TypeOK` only
and `CommitPatch` alone disturbs it (`PatchCommitKeepsChain`). Assumptions:
`NamesAssumption` (None and the fixed scopes are no revision or object),
`RequestsAssumption` (requests are well formed; metadata has no parent, as
`put_metadata` passes none), `NumbersAssumption`. `CurrentIsTheEnd` states
`HeadIsLatest` by itself. `ReceiptsAreEarned` is `[]ReceiptsWitnessCommits`:
`ReceiptOutcomes` finds the only three things a write can do to the receipts
(leave what pruning leaves, drop the one under its key, record one for an envelope
that is stored), and what is stored stays (`StoredGrows`). The same two lemmas,
with their counterparts for cursors (`CursorOutcomes`), carry
`RetryAndListWindows`, the action property `LiveEntriesStay`; `ListingsAreContiguous`,
`[]PagesChain`, whose invariant `PageInv` adds that no cursor expires later than
one minted now would; and `NothingIsLeaked`, `[]ExpiriesAreScheduled`, for any
bound on a pruning. `CountersAreExact` is `[]UsageIsExact`. The recount is by
cardinalities of sets of places, an envelope's bytes being pairs of its place and
a number, so that a sum over envelopes is the size of one set. What a write
commits is new in its scope (`CommitStores`: that is what the refusal of a
revision seen before is for), so its place and its bytes are new to what is
counted (`CommitAdds`) and every counter moves by what `CapacityDelta` worked out
beforehand (`CommitCounts`); an object is new exactly when it has no current
envelope, which needs `HeadIsLatest`. That a pruning removes only what has expired is what the heap
lemmas at the beginning of each part say of a sequence in the order of expiry.

**Accounts** (`AccountAccessProofs`): `TypeCorrect`, `EarnedSessions`
(`[]SessionsAreEarned`), `SlotsCount` (`[]SlotsAreExact`), `RegistryIsChain`
(`[]RegistryLineage`) and `AdmissionsGovern` (the action property), for any number
of callers and any interleaving of their three-step calls. They share one
invariant, `AccessInv`. `Custody` is why a challenge is spent once: its serial is
in one place, in the table, with the one call that took it out before its
signature was verified, or in the one grant. `ChallengeTable` and `SessionTable`
say of each slot counter that it is the number of the device's entries, of each
entry that the queue will expire it, and of each queue that it is in order; the
lemmas on `EntriesOf` and `CountFor` follow a queue entry by entry.
`CallsAreFounded` is what a call in progress was let in with and still relies on
after the lock was released; `Registered` spells a registry out as the sum of its
chain (`SumOf`), which survives a device added while another addition was being
verified because the commit compares the parent again. Assumptions:
`NoneAssumption`, `TransitionsAssumption`, `LimitsAssumption` (limits and lifetimes
are positive).

**Epochs** (`EpochActivationProofs`): `TypeCorrect`, `RebuildsAlways`
(`[]MembershipRebuilds`), `HistoryHolds` (`[]HistoryVerifies`), `RemovedStays`
(`[]RemovedStaysOut`), `KeysHeld` (`[]MembersHoldKeys`) and `WriterHolds`
(`[]WriterIsMember`), from one invariant, `EpochInv` (theorem `Invariance`). Its
parts are operators of table contents: `RosterOf` is the membership after so many
enrollments under a plan, and `Rebuilding` says that the enrollments under the
activation in force have the next generations, one each, every one issued by a
member for a stranger on the roster before it and in the order of their views.
`History` says that each plan starts from the full roster of the one before and
cuts the log at its own view. The proof of each property then turns on two
lemmas: one more enrollment leaves every earlier roster as it was and adds its
target, and one more activation starts with no enrollments, so its roster is its
own registry. A removed device stays out (`Gone`) because an enrollment is only
issued for a device the roster calls absent. Assumptions: `DevicesAssumption`
(there is a founder), `LimitsAssumption`.

**Patch collections** (`PatchCollectionProofs`): `Loadable` is
`[]AlwaysLoadable`, and `Refinement` is `Spec => ImplementsLog`, the implementation
of `PatchLog`. What a replay is worth is a predicate of it alone, `Sound`: each
author's operations are whole and owned once, each record is the last envelope on
its object, the last order is that of the last operation. `ApplySound` keeps it,
`SoundAdmitted` derives from it every check of `from_dict` (the three cardinalities
through bijections), and `RecordsAreLatest` that its records are the log's. The
invariant `PatchInv` then says little: the snapshot is sound and the tail replays
on it. That the replay of a tail has a value at all (`AlwaysDetermined`) and is
sound (`ReplaysSound`) are inductions over its length, each by its least
counterexample (`Least`), since the induction theorems of the library cannot be
instantiated here. Assumption: `OperationsAssumption` (operations are well formed
and finitely many, identifiers are numbers, None is none of the things it stands
for the absence of).

**Convergent replicas** (`ConvergentReplicaProofs`): `TypeCorrect`, `DeletionsStay`
(`DeletionIsFinal`), `NoEditLoses` (`[]NoStaleWinner`) and `NewestWins`
(`[]NewestBaselineWins`), for any number of devices, objects and operations and any
delays, repetitions, merges and crashes. One invariant, `ReplicaInv` (theorem
`Invariance`), has six parts: `FilesTyped`; `Listed` (what is queued is pending and
what is pending is held); `Histories` (each file passes its load check);
`Baselines` (each snapshot is a sound, non-empty replay of issued operations);
`Origins` (authors hold what they issued); and `ParentsBefore` (the clock of an edit
is past that of the operation it was made on). What a snapshot is worth is `Sound`
of `PatchCollectionProofs`, taken through an instance of that module whose
operators the first lemmas identify with those of `ConvergentReplica`.
`DeletionsStay` holds because candidates are only ever added and a tombstone among
them fences off the rest; that the maxima the code takes exist is an induction on
a finite set by its least counterexample. `NoEditLoses` needs `ParentsBefore`: the
edit would have the greater order key. Assumptions: `OperationsAssumption`;
`RevisionsAssumption`, that two operations with one revision are one edit, because
an encryption names its result by a fresh `uuid4` (`crypto.py:380`); and, as a
hypothesis of each theorem, `DigestsAreNumbers`: digests, compared as text, are
totally ordered. `EventuallyAgree` is about a step that must happen and stays
with TLC.

**Membership** (`MembershipCacheProofs`): `CacheTyped`, `CacheStaysCurrent`,
`EnrolledOntoWhatWasChecked`, `NoTornMembership` and `NoAbandonedTransaction`, for
any number of connections. For the first four the inductive invariant `CacheInv`
adds to the type invariant, for each connection, what its stamps are worth: they
are not from the future
(`StampsArePast`); what was read is what the database holds as long as the stamp
taken before the reading is still the connection's (`ReadingHolds`); a writer
past its check has seen the database as it is, and its first change puts its
cache out of date (`WriterHolds`); what is about to be remembered is current as
long as the stamp is (`RememberedHolds`). Two lemmas carry the proof. Stamps only
grow, so a connection whose stamp an action left alone has lost nothing
(`Undisturbed`); and a commit of another connection raises the stamp above all
that was taken before, so every hypothesis about equal stamps becomes false
(`Overtaken`). Then one lemma per action. `NoAbandonedTransaction` says that the
write lock is held only in the middle of an enrollment. Its invariant
`HolderInv` adds that only an enrollment begins a transaction and that the
transaction is over when the new membership is remembered. Assumptions:
`NoneAssumption` (None is no connection, call or membership) and
`NumbersAssumption` (the bounds are numbers, at least one attempt).

**Worker** (`RemediationWorkerProofs`): `NoBlindRetry` is `[]OutcomeBeforeRetry`
and `NoUnfoundedRecheck` is `[]InventoryBeforeRecheck`. Both rest on `ClaimInv`,
which adds that a claim is recorded from its commit on (`ClaimIsRecorded`: the
active task's row is `inflight`, so its outcome concerns a task that is not yet
blind and nothing else can take it up) and that a blind vacancy is in one of the
two unavailable statuses (`BlindIsUnavailable`), the ones `enqueue` and an
incomplete listing leave alone. All outcomes but a listing's change one row, which
`OwnOutcome` treats once; a listing changes every row, and `ListedKeepsProtected`
says which it may not. `QuotaIsKept` is `[]QuotaHolds`, by `LedgerInv`: the ledger
is in the order of the clock and nothing ends before it starts, so the
reservations `policy_due` counts by their end include all that started within the
hour, and one more keeps the quota. `TypeCorrect` is `[]TypeOK`; it rests on
`ClaimInv` too, since what an outcome writes into a row is well formed only for a
row that is in flight, and the recheck count of an unavailable vacancy only
because such a row keeps its evidence. Assumptions: `WorkerAssumption` (the
listing is no vacancy; quota, times and bounds are numbers) and
`CategoriesAssumption` (None is no category of evidence).

**Publication** (`PublicationRunProofs`): `TypeCorrect`, `AcknowledgedMeansPublished`
(`[]AcknowledgedIsPublished`), and the action properties `FetchesOverNoDebt`
(`NothingFetchedOverDebt`) and `PublishesOnce` (`PublishedOnce`), for any number of
units, faults and kills. `NothingFetchedOverDebt` says two things of a worker that
begins: that every unit the destination does not show as it was accepted is held,
and that there is none, and no old record, unless a receipt contains them. Its
proof carries the admission of `ResumeIdle` to the worker's start (`Admitted`:
contained, or everything acknowledged and no old record unresolved); nobody can
invalidate the receipt in between, because the tick holds the lock (`ReviewStep`).
The invariant `RunInv` has two sides. `Books` relates the
dirty queue, the marker, the destination and the control files: what a result or
a resolution reports as processed and not rejected the destination shows in the
requested image (`ReportsAreTrue`), and pending work it already shows is that of
the batch's finished generation (`DebtIsTheBatchs`). `Whereabouts` says for each
place of a tick, and for each child that may have outlived its dispatcher, which
of these files can be there; `tick.pc = "off"` is the weakest place, and every kill
leads to it. Most steps leave the books alone and change the place, so each is
proved once for the books, by frame lemmas, and once for the places. Assumptions:
`PublicationAssumption`, `NoneAssumption`.

**Only model-checked.** Every invariant and action property of the passing runs
is a theorem. Liveness under fairness (`EventuallyDrained`, `EventuallyAgree`),
which with ENABLED is out of the prover's reach, is checked by TLC on the
instances of section 3, and so are the counterexamples behind the findings.

## 6. What the models leave out

- Ciphertext, signatures and digests: a signature is who made it, a fingerprint
  is the thing itself. The soundness of the cryptography is assumed.
- The store's reads of a current envelope, which change nothing; telemetry,
  wire models, HTTP routing; the per-device request limiter.
- Restarts of the service: the store, accounts and sessions live in memory and
  the commitment database is durable. That durable side only is in
  `MembershipCache` and `EpochActivation`, whose steps commit as transactions.
- Sessions and storage together: `write_storage` holds the lock over its epoch
  check and the mutation. Each side is modelled, their composition is not.
- Several vaults in `EpochActivation`, and the account-wide limits over them.
- The size limits of the membership cache: they only drop entries.
- A file write is atomic, as `atomic_json_store`, `atomic_files` and the
  dispatcher's `atomic_json` make it.
- Of the worker: documents, reviewed deadlines, host cooldowns, pacing and the
  storage budget, which only refuse a task; the native policy authority; what a
  site says, which is any answer at any time.
- Of the runtime: the budgeted tick (it has its own ledger and skips
  `recover_stale_runs`), retention, the concurrency controller, and the failure
  hold after three like failures, which stops ticks until an operator looks.
  `publication_run` is about ticks that are not stopped in that way. What a
  containment review examines; exits of old runs accepted by a review, which only
  change what their record waits for.
- Of the dirty queue: units of a source that is not configured, which `select`
  never considers (`publication_work.py:441`), so every unit of the model belongs
  to a configured one; and versions whose public content is that of the one
  before, which are acknowledged without being written. In the model each version
  has content of its own.
- The components listed as `not_modelled` in `PROJECT.json`, each with its reason.

*Coverage.* Most of the repository's Python is not a state machine: site
adapters, classification, normalisation, one-off migrations and audits, database
queries, file formats and compression. Those are functions of one input, and a
definition for each would restate it. The modules cover the parts where steps of
several actors, or a crash between two of them, decide the outcome, which is a
few thousand lines of a hundred thousand.

## 7. The plan

Done, in this order: `OpaqueStore`; `PatchOperations`, `PatchLog`,
`PatchCollection`; `ConvergentReplica`; `AccountAccess`; `MembershipCache`;
`EpochActivation`; proofs of the store and of the cache; `RemediationWorker`;
`PublicationRun`; proofs of the worker, the publication, the accounts, the epochs,
the patch collection and the replicas.

What would be worth modelling further, the most important first:

1. The client's transfer: outbox, inbox (`stage_page`, `apply_next`) and the
   store's listing, with crashes between applying and recording, and cursors that
   the server forgets while the device keeps them.
2. The budgeted tick over `PublicationRun`: the storage ledger's phases beside the
   authority's.
3. `write_storage` over `OpaqueStore` and `EpochActivation`; no write of an old
   epoch after its activation.
4. The epoch vault's publication record, recovery and catch-up; the rollback
   tracker; pairing; the per-device limiter; the job API's gate and tracker.

To prove next, now that what the runs check is proved: refinements of smaller
promises than the modules make, such as a register with compare-and-swap per
object for the store and one atomic membership for the cached one; and the
invariants of the modules above, each with its module.
