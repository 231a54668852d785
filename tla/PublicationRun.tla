--------------------------- MODULE PublicationRun ---------------------------
(***************************************************************************)
(* One run of the native runtime: the dispatcher's tick (runner.py), the   *)
(* authority and the dirty queue in the worker database                    *)
(* (runtime_authority.py, publication_work.py), the pending marker         *)
(* (pending_publication.py), the control files of the run's current batch, *)
(* and the processes a tick starts.  Cron starts a tick whenever nobody    *)
(* holds the shared lock, which a tick's children inherit.  A tick may be  *)
(* killed between any two of its durable writes; its child lives on.       *)
(*                                                                         *)
(* The configuration is native runtime control with the storage budget off *)
(* and a publisher configured.  Retention, the concurrency controller,     *)
(* failure holds and configuration hashes only refuse a tick and are left  *)
(* out; the destination is assumed to hold a finished generation with a    *)
(* verified boundary, as after the first publication.                      *)
(*                                                                         *)
(* What is held, and a control record older than the authority that nobody *)
(* reconciled, keep the worker from fetching until an operator's review    *)
(* contains them (runtime_containment.py).  Reviews are the operator's     *)
(* actions, while nobody else holds the lock.                              *)
(***************************************************************************)
EXTENDS Naturals, FiniteSets

CONSTANTS
    None,        \* no value
    Units,       \* what is published: vacancies and listings
    Unfetched,   \* vacancies a listing may name before their detail is accepted
    Legacy,      \* dispositions of control records older than the authority
    MaxUnits,    \* publication_admission.max_units
    MaxVersion,  \* bound on the versions of a unit
    MaxFaults,   \* bound on failures, deferrals and expired deadlines
    MaxKills     \* bound on dispatchers killed

ASSUME PublicationAssumption ==
    /\ Unfetched \subseteq Units
    /\ Legacy \subseteq {"accepted_pending", "repair_required", "generation_pending",
                         "worker_claim_uncertain", "publication_reconciliation_required"}
    /\ {MaxUnits, MaxVersion, MaxFaults, MaxKills} \subseteq Nat
    /\ MaxUnits > 0

VARIABLES
    version, disposition, due,   \* jobagg_dirty_current, and what time has dirtied
    bare,        \* vacancies without an accepted detail
    dest,        \* per unit the version the destination shows
    phase, run,  \* jobagg_runtime_state
    marker,      \* the pending marker: accepted work not yet under an intent
    dir,         \* control files of the run's current batch
    tick,        \* the dispatcher, if one runs
    child,       \* the process it started, which may outlive it
    legacy,      \* disposition of the oldest such record nobody resolved
    contained,   \* a containment receipt is approved
    faults, kills

queue == <<version, disposition, due, bare>>
authority == <<phase, run>>
history == <<legacy, contained>>
bounds == <<faults, kills>>
vars == <<queue, dest, authority, marker, dir, tick, child, history, bounds>>

Versions == [Units -> 0 .. MaxVersion]
Selections == {s \in [units : SUBSET Units, held : SUBSET Units, at : Versions] :
                  /\ s.units \cap s.held = {}
                  /\ Cardinality(s.units) <= MaxUnits}
Requests == [selection : Selections, image : Versions]
Markers == [selection : Selections \cup {None}, image : Versions \cup {None}]
Statuses == {"not_started", "pending", "unknown", "published", "deferred",
             "incomplete", "proven_empty", "scoped_hold_noop"}
Results == [status : {"published", "deferred", "incomplete"},
            processed : SUBSET Units, rejected : SUBSET Units]
Generations == [state : {"none", "open", "done"},
                processed : SUBSET Units, rejected : SUBSET Units]
Outcomes == [status : Statuses, allowed : BOOLEAN, exit : BOOLEAN]
Resolutions == [processed : SUBSET Units, rejected : SUBSET Units]
Controls == [state : {None, "running", "finished"}, exit : BOOLEAN, allowed : BOOLEAN,
             recovered : BOOLEAN, request : Requests \cup {None}, intent : BOOLEAN,
             generation : Generations, result : Results \cup {None},
             outcome : Outcomes \cup {None}, resolution : Resolutions \cup {None},
             nowrite : BOOLEAN]
Runs == [proof : {"none", "exit", "queue"}, accepted : BOOLEAN,
         reuse : Requests \cup {None}]
Places == {"off", "resume", "settle", "stale", "unresolved", "recover", "recovering",
           "begin", "worker", "working", "worked", "advance", "select", "project",
           "request", "intent", "release", "publisher", "allow", "spawn",
           "publishing", "acknowledge", "outcome", "save", "close"}
Ticks == [pc : Places, resumed : BOOLEAN, status : Statuses, drained : BOOLEAN]

ASSUME NoneAssumption ==
    None \notin UNION {Selections, Versions, Markers, Results, Outcomes, Resolutions}

NoGeneration == [state |-> "none", processed |-> {}, rejected |-> {}]

\* Every batch has a directory of its own.
NoControls == [state |-> None, exit |-> FALSE, allowed |-> FALSE,
               recovered |-> FALSE, request |-> None, intent |-> FALSE,
               generation |-> NoGeneration, result |-> None, outcome |-> None,
               resolution |-> None, nowrite |-> FALSE]
NewRun(proof) == [proof |-> proof, accepted |-> FALSE, reuse |-> None]
At(pc) == [pc |-> pc, resumed |-> FALSE, status |-> "not_started", drained |-> FALSE]
Off == At("off")

Init ==
    /\ version = [u \in Units |-> 0]
    /\ disposition = [u \in Units |-> "acknowledged"]
    /\ due = {} /\ bare = Unfetched
    /\ dest = [u \in Units |-> 0]
    /\ phase = "idle" /\ run = NewRun("none")
    /\ marker = None /\ dir = NoControls
    /\ tick = Off /\ child = "none"
    /\ legacy \in Legacy \cup {None} /\ contained = FALSE
    /\ faults = 0 /\ kills = 0

Pending == {u \in Units : disposition[u] = "pending"}
Held == {u \in Units : disposition[u] = "held"}

\* Every write of a unit is a new version of it, to be published.
Mark(units) ==
    /\ version' = [u \in Units |-> IF u \in units THEN version[u] + 1 ELSE version[u]]
    /\ disposition' = [u \in Units |-> IF u \in units THEN "pending" ELSE disposition[u]]

Goto(pc) == tick' = [tick EXCEPT !.pc = pc]
Refuse == tick' = Off
Fault == faults < MaxFaults /\ faults' = faults + 1 /\ UNCHANGED <<history, kills>>
-----------------------------------------------------------------------------
(***************************************************************************)
(* Settling a batch.                                                       *)
(***************************************************************************)

\* Fault: whatever was selected counts as published.
SettledAllSelected(selection, processed, rejected) ==
    [u \in Units |->
        IF version[u] # selection.at[u] THEN disposition[u]
        ELSE IF u \in selection.held \/ (u \in selection.units /\ u \in rejected) THEN "held"
        ELSE IF u \in selection.units THEN "acknowledged"
        ELSE disposition[u]]

\* Fault: what the publisher rejects stays as it was.
SettledUnlessRejected(selection, processed, rejected) ==
    [u \in Units |->
        IF version[u] # selection.at[u] THEN disposition[u]
        ELSE IF u \in selection.held THEN "held"
        ELSE IF u \in (selection.units \cap processed) \ rejected THEN "acknowledged"
        ELSE disposition[u]]

\* Only processed versions are settled; what the publisher did not reach
\* stays pending.
Settled(selection, processed, rejected) ==
    [u \in Units |->
        IF version[u] # selection.at[u] THEN disposition[u]
        ELSE IF u \in selection.held THEN "held"
        ELSE IF u \in selection.units \cap processed
             THEN IF u \in rejected THEN "held" ELSE "acknowledged"
        ELSE disposition[u]]

Acknowledge(selection, processed, rejected) ==
    /\ disposition' = Settled(selection, processed, rejected)
    /\ UNCHANGED <<version, due, bare>>

\* Whether the queue the acknowledgement leaves wants another batch.
Drained == due = {} /\ \A u \in Units : disposition'[u] # "pending"

finish_publication ==
    /\ phase' = "idle"
    /\ UNCHANGED <<run, dir>>

advance_publication(reuse) ==
    /\ phase = "publisher"
    /\ phase' = "accepted"
    /\ run' = [run EXCEPT !.reuse = reuse]
    /\ dir' = NoControls
-----------------------------------------------------------------------------
(***************************************************************************)
(* runtime_resume: what the authority says of the run decides the tick.    *)
(***************************************************************************)
StartTick ==
    /\ tick.pc = "off" /\ child = "none"
    /\ tick' = At("resume")
    /\ UNCHANGED <<queue, dest, authority, marker, dir, child, history, bounds>>

Backlog == Pending # {} \/ due # {}

\* An old run's accepted work may be published with the backlog; any other
\* record of before the authority is reconciled or contained first.
HistoryAdmits == legacy = None \/ contained \/ (legacy = "accepted_pending" /\ Backlog)

begin_publication_only ==
    /\ phase' = "accepted"
    /\ run' = NewRun("queue")
    /\ dir' = NoControls
    /\ UNCHANGED tick

\* Fault: held units do not keep the worker from fetching.
ResumeIdleOverHeld ==
    /\ tick.pc = "resume" /\ phase = "idle"
    /\ \/ /\ marker # None \/ ~HistoryAdmits
          /\ Refuse /\ UNCHANGED <<authority, dir>>
       \/ marker = None /\ HistoryAdmits /\ Backlog /\ begin_publication_only
       \/ /\ marker = None /\ HistoryAdmits /\ ~Backlog
          /\ Goto("stale")
          /\ UNCHANGED <<authority, dir>>
    /\ UNCHANGED <<queue, dest, marker, child, history, bounds>>

ResumeIdle ==
    /\ tick.pc = "resume" /\ phase = "idle"
    /\ \/ /\ marker # None \/ ~HistoryAdmits
          /\ Refuse /\ UNCHANGED <<authority, dir>>
       \/ marker = None /\ HistoryAdmits /\ Backlog /\ begin_publication_only
       \/ /\ marker = None /\ HistoryAdmits /\ ~Backlog
          /\ IF Held = {} \/ contained THEN Goto("stale") ELSE Refuse
          /\ UNCHANGED <<authority, dir>>
    /\ UNCHANGED <<queue, dest, marker, child, history, bounds>>

\* A worker nobody saw exit 0 leaves only what it committed.
ResumeWorker ==
    /\ tick.pc = "resume" /\ phase = "worker" /\ run.proof # "exit"
    /\ IF dir.state # None /\ run.accepted
       THEN /\ phase' = "accepted"
            /\ run' = NewRun("queue")
            /\ dir' = NoControls
            /\ UNCHANGED tick
       ELSE Refuse /\ UNCHANGED <<authority, dir>>
    /\ UNCHANGED <<queue, dest, marker, child, history, bounds>>

Continues ==
    \/ phase \in {"accepted", "publisher"}
    \/ phase = "worker" /\ run.proof = "exit"

\* A result whose exit 0 was saved, of a tick that wrote no outcome.
PostExit == dir.outcome = None /\ dir.exit /\ dir.result # None /\ dir.result.status # "incomplete"

Outcome(status) == [status |-> status, allowed |-> dir.allowed, exit |-> dir.exit]

ResumePostExit ==
    /\ tick.pc = "resume" /\ Continues /\ dir.intent /\ PostExit
    /\ dir' = [dir EXCEPT !.outcome = [Outcome(dir.result.status) EXCEPT !.allowed = FALSE]]
    /\ UNCHANGED <<queue, dest, authority, marker, tick, child, history, bounds>>

Published == dir.outcome # None /\ dir.outcome.status = "published"
Deferred == dir.outcome # None /\ dir.outcome.status = "deferred"

ResumePublished ==
    /\ tick.pc = "resume" /\ Continues /\ dir.intent /\ ~PostExit
    /\ dir.resolution # None \/ (Published /\ ~dir.nowrite)
    /\ LET result == IF dir.resolution # None THEN dir.resolution ELSE dir.result
       IN Acknowledge(dir.request.selection, result.processed, result.rejected)
    /\ tick' = [tick EXCEPT !.pc = "settle", !.drained = Drained]
    /\ UNCHANGED <<dest, authority, marker, dir, child, history, bounds>>

ResumeSettles ==
    /\ tick.pc = "settle"
    /\ IF tick.drained THEN finish_publication /\ Refuse
       ELSE IF phase = "publisher" THEN advance_publication(None) /\ Goto("resume")
       ELSE Refuse /\ UNCHANGED <<authority, dir>>
    /\ UNCHANGED <<queue, dest, marker, child, history, bounds>>

\* Nothing was written: the next batch is the same selection and projection.
ResumeUnwritten ==
    /\ tick.pc = "resume" /\ Continues /\ dir.intent /\ ~PostExit
    /\ dir.resolution = None /\ (dir.nowrite \/ Deferred)
    /\ IF phase = "publisher" /\ (dir.nowrite \/ dir.outcome.exit)
       THEN advance_publication(dir.request)
       ELSE UNCHANGED <<authority, dir>>
    /\ Refuse
    /\ UNCHANGED <<queue, dest, marker, child, history, bounds>>

\* An intent without an end: publication recovery owns the run.
ResumeUnended ==
    /\ tick.pc = "resume" /\ Continues /\ dir.intent /\ ~PostExit
    /\ dir.resolution = None /\ ~dir.nowrite /\ ~Published /\ ~Deferred
    /\ marker' = None
    /\ Goto("stale")
    /\ UNCHANGED <<queue, dest, authority, dir, child, history, bounds>>

\* Work accepted and under no intent: sealed, its old outcome archived.
Sealed == IF run.reuse = None THEN [selection |-> None, image |-> None] ELSE run.reuse

ResumeSealed ==
    /\ tick.pc = "resume" /\ Continues /\ ~dir.intent
    /\ marker' = IF marker = None THEN Sealed ELSE marker
    /\ dir' = [dir EXCEPT !.outcome = None, !.request = None]
    /\ tick' = [tick EXCEPT !.pc = "stale", !.resumed = TRUE]
    /\ UNCHANGED <<queue, dest, authority, child, history, bounds>>
-----------------------------------------------------------------------------
(***************************************************************************)
(* recover_stale_runs, then the choice between recovering a publication    *)
(* and locked_tick.                                                        *)
(***************************************************************************)

\* The end a killed tick did not write, from the files it left.
StaleOutcome ==
    IF dir.outcome # None THEN dir.outcome
    ELSE Outcome(IF ~dir.intent THEN "not_started"
                 ELSE IF dir.result # None THEN dir.result.status ELSE "unknown")

RecoverStale ==
    /\ tick.pc = "stale"
    /\ IF phase = "idle" \/ dir.state # "running"
       THEN Goto("unresolved") /\ UNCHANGED dir
       ELSE /\ IF dir.recovered
               THEN Refuse /\ dir' = [dir EXCEPT !.outcome = StaleOutcome]
               ELSE /\ Goto("unresolved")
                    /\ dir' = [dir EXCEPT !.outcome = StaleOutcome,
                                          !.recovered = TRUE, !.state = "finished"]
    /\ UNCHANGED <<queue, dest, authority, marker, child, history, bounds>>

Unresolved ==
    /\ phase # "idle"
    /\ dir.outcome # None /\ dir.outcome.status \in {"unknown", "incomplete"}
    /\ dir.resolution = None /\ ~dir.nowrite

Dispatch ==
    /\ tick.pc = "unresolved"
    /\ \/ Unresolved /\ Goto("recover") /\ UNCHANGED dir
       \/ /\ ~Unresolved /\ tick.resumed
          /\ dir' = [dir EXCEPT !.state = "running", !.exit = FALSE, !.allowed = FALSE]
          /\ Goto("advance")
       \/ /\ ~Unresolved /\ ~tick.resumed
          /\ IF phase = "idle" THEN Goto("begin") ELSE Refuse
          /\ UNCHANGED dir
    /\ UNCHANGED <<queue, dest, authority, marker, child, history, bounds>>

Unstarted == dir.generation.state = "none"

\* Fault: the destination's gate is not looked at.
NotBegunUnseen == TRUE

\* An intent whose publisher opened no generation is released unwritten.
NotBegun == Unstarted

resume_publication ==
    /\ tick.pc = "recover"
    /\ \/ ~dir.outcome.allowed /\ Refuse /\ UNCHANGED <<dir, child>>
       \/ /\ dir.outcome.allowed /\ NotBegun
          /\ dir' = [dir EXCEPT !.nowrite = TRUE, !.state = "finished"]
          /\ Refuse /\ UNCHANGED child
       \/ /\ dir.outcome.allowed /\ ~NotBegun
          /\ child' = "recovery" /\ Goto("recovering") /\ UNCHANGED dir
    /\ UNCHANGED <<queue, dest, authority, marker, history, bounds>>

Recovered ==
    /\ tick.pc = "recovering" /\ child = "none"
    /\ dir' = IF dir.generation.state = "done"
              THEN [dir EXCEPT !.resolution = [processed |-> dir.generation.processed,
                                               rejected |-> dir.generation.rejected],
                               !.state = "finished"]
              ELSE dir
    /\ Refuse
    /\ UNCHANGED <<queue, dest, authority, marker, child, history, bounds>>
-----------------------------------------------------------------------------
(***************************************************************************)
(* locked_tick: a run from its worker to its outcome.                      *)
(***************************************************************************)
BeginWorker ==
    /\ tick.pc = "begin"
    /\ phase' = "worker" /\ run' = NewRun("none") /\ dir' = NoControls
    /\ Goto("worker")
    /\ UNCHANGED <<queue, dest, marker, child, history, bounds>>

SpawnWorker ==
    /\ tick.pc = "worker"
    /\ dir' = [dir EXCEPT !.state = "running"]
    /\ child' = "worker" /\ Goto("working")
    /\ UNCHANGED <<queue, dest, authority, marker, history, bounds>>

\* The writer's transactions commit only in the worker's phase, evidence,
\* observation and dirty version at once.
Accept(u) ==
    /\ child = "worker" /\ phase = "worker" /\ Cardinality({u} \cap due) + version[u] < MaxVersion
    /\ Mark({u})
    /\ bare' \in {bare, bare \ {u}}
    /\ run' = [run EXCEPT !.accepted = TRUE]
    /\ UNCHANGED <<due, dest, phase, marker, dir, tick, child, history, bounds>>

\* worker_result.json, if the dispatcher is there to see the exit.
WorkerExits ==
    /\ child = "worker" /\ child' = "none"
    /\ IF tick.pc = "working"
       THEN run' = [run EXCEPT !.proof = "exit"] /\ Goto("worked")
       ELSE UNCHANGED <<run, tick>>
    /\ UNCHANGED <<queue, dest, phase, marker, dir, history, bounds>>

\* An exception of locked_tick: the files say how far it got.
FailureStatus ==
    IF dir.intent THEN "unknown" ELSE IF marker # None THEN "pending" ELSE "not_started"

Raise == tick' = [tick EXCEPT !.pc = "outcome", !.status = FailureStatus]

WorkerFails ==
    /\ child = "worker" /\ child' = "none" /\ Fault
    /\ IF tick.pc = "working" THEN Raise ELSE UNCHANGED tick
    /\ UNCHANGED <<queue, dest, authority, marker, dir>>

\* Contained history earns no empty credit.
ProvenEmpty == ~run.accepted /\ ~Backlog /\ Held = {} /\ legacy = None

\* Nothing accepted, and nothing left but what a review contains.
ScopedNoop == ~run.accepted /\ ~Backlog /\ contained /\ (Held # {} \/ legacy # None)

\* The run has nothing to publish.
Skips(status) ==
    \/ status = "proven_empty" /\ ProvenEmpty
    \/ status = "scoped_hold_noop" /\ ScopedNoop

CloseWorker ==
    /\ tick.pc = "worked"
    /\ \/ /\ \E status \in Statuses : Skips(status) /\
                 tick' = [tick EXCEPT !.pc = "outcome", !.status = status]
          /\ UNCHANGED marker
       \/ ~ProvenEmpty /\ ~ScopedNoop /\ marker' = Sealed /\ Goto("advance")
    /\ UNCHANGED <<queue, dest, authority, dir, child, history, bounds>>

\* Time transitions become versions only under the run that selects them.
advance_time ==
    /\ tick.pc = "advance"
    /\ IF marker.selection = None
       THEN Mark(due) /\ due' = {} /\ UNCHANGED bare
       ELSE UNCHANGED queue
    /\ Goto("select")
    /\ UNCHANGED <<dest, authority, marker, dir, child, history, bounds>>

\* Fault: a unit is both chosen and held.
SelectableHeldToo ==
    {s \in [units : SUBSET Pending, held : SUBSET Pending, at : {version}] :
        /\ s.units \cup s.held # {}
        /\ Cardinality(s.units) <= MaxUnits}

\* What policy, bytes and fan-out choose among the pending, and hold.  Every
\* unit is of a configured source: select looks at no others.
Selectable ==
    {s \in [units : SUBSET Pending, held : SUBSET Pending, at : {version}] :
        /\ s.units \cap s.held = {} /\ s.units \cup s.held # {}
        /\ Cardinality(s.units) <= MaxUnits}

Select ==
    /\ tick.pc = "select"
    /\ \/ marker.selection # None /\ Goto("project") /\ UNCHANGED marker
       \/ marker.selection = None /\ Pending = {} /\ Raise /\ UNCHANGED marker
       \/ /\ marker.selection = None
          /\ \E s \in Selectable : marker' = [marker EXCEPT !.selection = s]
          /\ Goto("project")
    /\ UNCHANGED <<queue, dest, authority, dir, child, history, bounds>>

Project ==
    /\ tick.pc = "project"
    /\ marker' = IF marker.image = None THEN [marker EXCEPT !.image = version] ELSE marker
    /\ Goto("request")
    /\ UNCHANGED <<queue, dest, authority, dir, child, history, bounds>>

Request ==
    /\ tick.pc = "request"
    /\ dir' = [dir EXCEPT !.request = marker]
    /\ Goto("intent")
    /\ UNCHANGED <<queue, dest, authority, marker, child, history, bounds>>

Intend ==
    /\ tick.pc = "intent"
    /\ dir' = [dir EXCEPT !.intent = TRUE]
    /\ Goto("release")
    /\ UNCHANGED <<queue, dest, authority, marker, child, history, bounds>>

release_after_intent ==
    /\ tick.pc = "release"
    /\ marker' = None
    /\ Goto("publisher")
    /\ UNCHANGED <<queue, dest, authority, dir, child, history, bounds>>

EnterPublisher ==
    /\ tick.pc = "publisher"
    /\ phase' = "publisher"
    /\ Goto("allow")
    /\ UNCHANGED <<queue, dest, run, marker, dir, child, history, bounds>>

AllowRecovery ==
    /\ tick.pc = "allow"
    /\ dir' = [dir EXCEPT !.allowed = TRUE]
    /\ Goto("spawn")
    /\ UNCHANGED <<queue, dest, authority, marker, child, history, bounds>>

SpawnPublisher ==
    /\ tick.pc = "spawn"
    /\ child' = "publisher" /\ Goto("publishing")
    /\ UNCHANGED <<queue, dest, authority, marker, dir, history, bounds>>

PublisherExited ==
    /\ tick.pc = "publishing" /\ child = "none"
    /\ IF dir.result # None
       THEN /\ dir' = [dir EXCEPT !.exit = TRUE, !.allowed = FALSE]
            /\ tick' = [tick EXCEPT !.status = dir.result.status,
                            !.pc = IF dir.result.status = "published" THEN "acknowledge"
                                   ELSE "outcome"]
       ELSE Raise /\ UNCHANGED dir
    /\ UNCHANGED <<queue, dest, authority, marker, child, history, bounds>>

AcknowledgeResult ==
    /\ tick.pc = "acknowledge"
    /\ Acknowledge(dir.request.selection, dir.result.processed, dir.result.rejected)
    /\ tick' = [tick EXCEPT !.pc = "outcome", !.drained = Drained]
    /\ UNCHANGED <<dest, authority, marker, dir, child, history, bounds>>

\* An exception before the outcome: a deadline, a full disk, a failed check.
Fails ==
    /\ tick.pc \in {"worker", "advance", "select", "project", "request", "intent",
                    "spawn", "publishing"}
    /\ Fault /\ Raise
    /\ child' = "none"
    /\ UNCHANGED <<queue, dest, authority, marker, dir>>

\* The outcome is written once; a different one there ends the tick.
WriteOutcome ==
    /\ tick.pc = "outcome"
    /\ IF dir.outcome # None THEN Refuse /\ UNCHANGED dir
       ELSE /\ dir' = [dir EXCEPT !.outcome =
                  [Outcome(tick.status) EXCEPT !.allowed = @ \/ tick.status = "incomplete"]]
            /\ Goto("save")
    /\ UNCHANGED <<queue, dest, authority, marker, child, history, bounds>>

SaveState ==
    /\ tick.pc = "save"
    /\ dir' = [dir EXCEPT !.state = "finished"]
    /\ Goto("close")
    /\ UNCHANGED <<queue, dest, authority, marker, child, history, bounds>>

CloseRun ==
    /\ tick.pc = "close"
    /\ \/ /\ tick.status = "published" /\ ~tick.drained
          /\ advance_publication(None)
       \/ /\ (tick.status = "published" /\ tick.drained) \/ Skips(tick.status)
          /\ finish_publication
       \/ /\ tick.status # "published" /\ ~Skips(tick.status)
          /\ UNCHANGED <<authority, dir>>
    /\ Refuse
    /\ UNCHANGED <<queue, dest, marker, child, history, bounds>>
-----------------------------------------------------------------------------
(***************************************************************************)
(* The publisher, and the publisher rerun to recover a generation.         *)
(***************************************************************************)
Selected == dir.request.selection.units
\* Only a unit the plan finds in the projection is processed.
Planned == Selected \ bare
Missing == {u \in Planned : dest[u] # dir.request.image[u]}
Result(status, processed, rejected) ==
    dir' = [dir EXCEPT !.result = [status |-> status, processed |-> processed,
                                   rejected |-> rejected]]

PublishNothing ==
    /\ child = "publisher" /\ Unstarted
    /\ \E rejected \in SUBSET Planned :
          /\ Missing \subseteq rejected
          /\ Result("published", Planned, rejected)
    /\ child' = "none"
    /\ UNCHANGED <<queue, dest, authority, marker, tick, history, bounds>>

\* The gate is the point of no return; the plan may stop short of the selection.
OpenGeneration ==
    /\ child = "publisher" /\ Unstarted
    /\ \E processed \in SUBSET Planned : \E rejected \in SUBSET processed :
          /\ Missing \cap (processed \ rejected) # {}
          /\ dir' = [dir EXCEPT !.generation = [state |-> "open",
                         processed |-> processed, rejected |-> rejected]]
    /\ UNCHANGED <<queue, dest, authority, marker, tick, child, history, bounds>>

FinishGeneration ==
    /\ child \in {"publisher", "recovery"} /\ dir.generation.state = "open"
    /\ dest' = [u \in Units |->
                   IF u \in dir.generation.processed \ dir.generation.rejected
                   THEN dir.request.image[u] ELSE dest[u]]
    /\ dir' = [dir EXCEPT !.generation.state = "done"]
    /\ UNCHANGED <<queue, authority, marker, tick, child, history, bounds>>

ReportPublished ==
    /\ child \in {"publisher", "recovery"} /\ dir.generation.state = "done"
    /\ IF child = "publisher"
       THEN Result("published", dir.generation.processed, dir.generation.rejected)
       ELSE UNCHANGED dir
    /\ child' = "none"
    /\ UNCHANGED <<queue, dest, authority, marker, tick, history, bounds>>

\* A deadline before the gate defers; after it the generation is incomplete.
ReportUnfinished ==
    /\ child \in {"publisher", "recovery"} /\ Fault
    /\ dir.generation.state # "done"
    /\ IF child = "publisher"
       THEN Result(IF Unstarted THEN "deferred" ELSE "incomplete", {}, {})
       ELSE UNCHANGED dir
    /\ child' = "none"
    /\ UNCHANGED <<queue, dest, authority, marker, tick>>

PublisherDies ==
    /\ child \in {"publisher", "recovery"} /\ Fault
    /\ child' = "none"
    /\ UNCHANGED <<queue, dest, authority, marker, dir, tick>>
-----------------------------------------------------------------------------
\* A killed dispatcher leaves its files, and its child with the lock.
Kill ==
    /\ tick.pc # "off" /\ kills < MaxKills
    /\ kills' = kills + 1
    /\ tick' = Off
    /\ UNCHANGED <<queue, dest, authority, marker, dir, child, history, faults>>

\* A freshness limit or a closing date passes.
FallsDue(u) ==
    /\ u \notin due /\ version[u] \in 1 .. MaxVersion - 1
    /\ due' = due \cup {u}
    /\ UNCHANGED <<version, disposition, bare, dest, authority, marker, dir, tick,
                   child, history, bounds>>

(***************************************************************************)
(* The operator's reviews of an idle runtime, under the shared lock.       *)
(***************************************************************************)
Free == tick.pc = "off" /\ child = "none"

\* The held units and the old records are reviewed, and contained as they are;
\* an old generation has to be recovered first.
prepare ==
    /\ Free /\ phase = "idle" /\ ~contained /\ legacy # "generation_pending"
    /\ contained' = TRUE
    /\ UNCHANGED <<queue, dest, authority, marker, dir, tick, child, legacy, bounds>>

\* What was reviewed changes: a hold is released, evidence is backfilled.
invalidate ==
    /\ Free /\ phase = "idle" /\ contained
    /\ contained' = FALSE
    /\ UNCHANGED <<queue, dest, authority, marker, dir, tick, child, legacy, bounds>>

\* The oldest record is reconciled and the next one comes up, which asks for a
\* new review.
close_reconciled ==
    /\ Free /\ phase = "idle" /\ legacy # None
    /\ legacy' \in Legacy \cup {None} /\ contained' = FALSE
    /\ UNCHANGED <<queue, dest, authority, marker, dir, tick, child, bounds>>

runtime_resume ==
    \/ ResumeIdle \/ ResumeWorker \/ ResumePostExit \/ ResumePublished
    \/ ResumeSettles \/ ResumeUnwritten \/ ResumeUnended \/ ResumeSealed
locked_tick ==
    \/ BeginWorker \/ SpawnWorker \/ CloseWorker \/ advance_time \/ Select
    \/ Project \/ Request \/ Intend \/ release_after_intent \/ EnterPublisher
    \/ AllowRecovery \/ SpawnPublisher \/ PublisherExited \/ AcknowledgeResult
    \/ WriteOutcome \/ SaveState \/ CloseRun
Dispatcher ==
    StartTick \/ runtime_resume \/ RecoverStale \/ Dispatch \/ resume_publication
    \/ Recovered \/ locked_tick
Child ==
    WorkerExits \/ PublishNothing \/ OpenGeneration \/ FinishGeneration \/ ReportPublished
Next ==
    \/ Dispatcher \/ Child
    \/ \E u \in Units : Accept(u) \/ FallsDue(u)
    \/ WorkerFails \/ Fails \/ ReportUnfinished \/ PublisherDies \/ Kill
    \/ prepare \/ invalidate \/ close_reconciled

\* Cron starts the next tick, a tick goes on, and a child ends by its deadline.
Fairness == WF_vars(Dispatcher) /\ WF_vars(Child)
Spec == Init /\ [][Next]_vars
FairSpec == Spec /\ Fairness
-----------------------------------------------------------------------------
RunTypeOK ==
    /\ version \in Versions /\ dest \in Versions
    /\ disposition \in [Units -> {"acknowledged", "pending", "held"}]
    /\ due \subseteq Units /\ bare \subseteq Unfetched
    /\ phase \in {"idle", "worker", "accepted", "publisher"} /\ run \in Runs
    /\ marker \in Markers \cup {None}
    /\ dir \in Controls /\ (dir.intent => dir.request # None)
    /\ tick \in Ticks
    /\ child \in {"none", "worker", "publisher", "recovery"}

HistoryTypeOK == legacy \in Legacy \cup {None} /\ contained \in BOOLEAN

TypeOK == RunTypeOK /\ HistoryTypeOK

\* What the queue calls acknowledged the destination shows, at that version:
\* acknowledge clears what was read back, never what was merely selected.
AcknowledgedIsPublished ==
    \A u \in Units : disposition[u] = "acknowledged" => dest[u] = version[u]

\* A worker fetches only when the destination shows all that was accepted
\* before and no old record is unresolved, or under a containment receipt; and
\* even then all it fetches over is held.  _tick resumes the older run first,
\* whatever was killed or failed.
NothingFetchedOverDebt ==
    [][phase = "idle" /\ phase' = "worker" =>
          /\ contained \/ (dest = version /\ legacy = None)
          /\ \A u \in Units : dest[u] # version[u] => disposition[u] = "held"]_vars

\* No publisher is started on a version the destination already shows: an
\* intent is permission to publish once, and what follows it is recovery.
PublishedOnce ==
    [][child # "publisher" /\ child' = "publisher" =>
          \A u \in Planned : dest[u] # dir.request.image[u]]_vars

\* Pending work is published, held or superseded by and by, whatever fails or
\* is deferred, as long as no dispatcher is killed and no old record waits for
\* more than publication.
EventuallyDrained ==
    [](kills = 0 /\ legacy \in {None, "accepted_pending"}) =>
        \A u \in Units : disposition[u] = "pending" ~> disposition[u] # "pending"

\* An interruption between the worker's result and the intent is continued to
\* its end.
InterruptionsContinue ==
    tick.pc = "off" /\ marker # None /\ ~dir.intent ~> phase = "idle"
=============================================================================
