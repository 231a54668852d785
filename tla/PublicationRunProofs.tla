------------------------ MODULE PublicationRunProofs ------------------------
(***************************************************************************)
(* Proofs about a run of the native runtime: what the queue calls          *)
(* acknowledged is published, a worker fetches over no debt but what a     *)
(* review contains, and nothing is published twice, whatever fails and     *)
(* wherever the dispatcher is killed.                                      *)
(*                                                                         *)
(* The invariant has three parts.  RunTypeOK; Books, which relates the     *)
(* dirty queue, the destination, the marker and the control files to one   *)
(* another and mentions no process; Whereabouts, which says what a         *)
(* dispatcher at a given place, and a child of a given kind, may count on. *)
(***************************************************************************)
EXTENDS PublicationRun, FiniteSetTheorems, TLAPS

(***************************************************************************)
(* Books.                                                                  *)
(***************************************************************************)
\* Everything pending is behind: the destination does not show it.
NoDebt == \A u \in Units : disposition[u] = "pending" => dest[u] # version[u]
AllAcknowledged == \A u \in Units : disposition[u] = "acknowledged"

\* The worker may be started: everything was acknowledged, or is contained.
Admitted == contained \/ (AllAcknowledged /\ legacy = None)

\* What time has dirtied has room for the version it will become.
DueBelow == \A u \in due : version[u] < MaxVersion
DestBehind == \A u \in Units : dest[u] <= version[u]

\* Whatever was requested, sealed or left to be reused is of the versions
\* there are: nothing is written while a batch is under way.
AtVersion(r) == r.selection.at = version /\ r.image = version
Current ==
    /\ dir.request # None => AtVersion(dir.request)
    /\ run.reuse # None => AtVersion(run.reuse)
    /\ marker # None =>
         /\ marker.selection # None => marker.selection.at = version
         /\ marker.image # None => marker.selection # None /\ marker.image = version

\* The batch's result was read back, by recovery or by a tick that saw the exit.
Settling ==
    \/ dir.resolution # None
    \/ /\ dir.result # None /\ dir.result.status = "published"
       /\ dir.exit \/ Published

\* What a batch selected and has not settled is still pending.
SelectedIsPending ==
    /\ dir.request # None /\ ~Settling => dir.request.selection.units \subseteq Pending
    /\ run.reuse # None /\ ~dir.intent => run.reuse.selection.units \subseteq Pending
    /\ marker # None /\ marker.selection # None => marker.selection.units \subseteq Pending

\* Nothing of the batch was published or said to be.
Unpublished ==
    /\ dir.result = None /\ dir.resolution = None /\ ~dir.nowrite /\ ~dir.exit
    /\ dir.generation = NoGeneration

\* An outcome repeats the result, or names an intent nobody saw end.
OutcomeInOrder ==
    dir.outcome # None =>
         /\ dir.outcome.status \in {"published", "deferred", "incomplete"} =>
              dir.intent /\ dir.result # None /\ dir.result.status = dir.outcome.status
         /\ dir.outcome.status = "unknown" => dir.intent /\ ~dir.exit

\* A published result, and a resolution, are of the finished generation;
\* a deferred one is of none.
ResultInOrder ==
    /\ dir.exit => dir.result # None
    /\ dir.result # None =>
         /\ dir.result.status = "published" =>
              \/ dir.generation = NoGeneration
              \/ /\ dir.generation.state = "done"
                 /\ dir.generation.processed = dir.result.processed
                 /\ dir.generation.rejected = dir.result.rejected
         /\ dir.result.status = "deferred" => dir.generation = NoGeneration
    /\ dir.resolution # None =>
         /\ dir.generation.state = "done"
         /\ dir.generation.processed = dir.resolution.processed
         /\ dir.generation.rejected = dir.resolution.rejected

\* A publication needs an intent, and stays within its selection.
GenerationInOrder ==
    /\ ~dir.intent => Unpublished
    /\ Unstarted => dir.generation = NoGeneration
    /\ ~Unstarted => dir.generation.processed \subseteq dir.request.selection.units

\* A batch is released unwritten only if it opened no generation.
NoWriteInOrder ==
    dir.nowrite => /\ dir.generation = NoGeneration /\ ~Settling
                   /\ dir.outcome # None /\ dir.outcome.status \in {"unknown", "incomplete"}

\* What a report says was processed the destination shows.
Shows(report) ==
    \A u \in report.processed \ report.rejected : dest[u] = dir.request.image[u]
ReportsAreTrue ==
    /\ dir.generation.state = "done" => Shows(dir.generation)
    /\ dir.result # None /\ dir.result.status = "published" => Shows(dir.result)

\* Pending work the destination already shows is the work of the batch's
\* finished generation, not yet acknowledged.
DebtIsTheBatchs ==
    \A u \in Units : disposition[u] = "pending" /\ dest[u] = version[u] =>
        /\ dir.generation.state = "done"
        /\ u \in dir.generation.processed \ dir.generation.rejected

\* What the authority's phase promises the next tick.
PhaseInOrder ==
    /\ phase = "worker" => run.reuse = None
    /\ phase = "worker" /\ run.proof # "exit" =>
          ~dir.intent /\ dir.request = None /\ marker = None
    /\ phase = "idle" => Pending = {}
    /\ run.reuse # None /\ ~dir.intent /\ marker # None => marker.selection # None

Books ==
    /\ DueBelow /\ DestBehind /\ AcknowledgedIsPublished /\ Current /\ SelectedIsPending
    /\ OutcomeInOrder /\ ResultInOrder /\ GenerationInOrder /\ NoWriteInOrder
    /\ ReportsAreTrue /\ DebtIsTheBatchs /\ PhaseInOrder

(***************************************************************************)
(* Whereabouts.                                                            *)
(***************************************************************************)
Before == {"advance", "select", "project", "request", "intent"}
Intended == {"release", "publisher", "allow", "spawn"}
Ending == {"outcome", "save", "close"}
FreshOutcome == dir.outcome = None \/ dir.outcome.status = "not_started"

\* A marker outlives the intent only until release_after_intent, or until the
\* next tick finds an intent without an end.
MarkerReleased ==
    dir.intent /\ marker # None =>
          Unpublished /\ FreshOutcome /\ tick.pc \in {"off", "resume", "release"}
\* A tick that takes up what it finds.
Resuming ==
    /\ tick.pc \in {"off", "resume", "settle"} => ~tick.resumed
    /\ tick.pc = "settle" => NoDebt /\ phase # "idle"
    /\ tick.pc = "begin" => phase = "idle" /\ Admitted /\ marker = None
    /\ tick.pc \in {"stale", "unresolved"} =>
          \/ phase = "idle" /\ ~tick.resumed /\ Admitted /\ marker = None
          \/ phase # "idle" /\ dir.intent /\ marker = None /\ ~tick.resumed
          \/ /\ Continues /\ ~dir.intent /\ tick.resumed /\ marker # None
             /\ dir.request = None /\ FreshOutcome
    /\ tick.pc \in {"recover", "recovering"} => Unresolved /\ marker = None
\* A tick from its worker to the intent.
Working ==
    /\ tick.pc \in {"worker", "working"} =>
          phase = "worker" /\ run.proof # "exit" /\ FreshOutcome
    /\ tick.pc = "worked" => /\ phase = "worker" /\ run.proof = "exit" /\ ~dir.intent
                             /\ dir.request = None /\ FreshOutcome
    /\ tick.pc \in Before => /\ ~dir.intent /\ marker # None /\ Continues /\ FreshOutcome
                             /\ tick.pc # "intent" => dir.request = None
    /\ tick.pc \in {"project", "request"} => marker.selection # None
    /\ tick.pc = "request" => marker.image # None
    /\ tick.pc = "intent" => dir.request # None
\* A tick from the intent to the acknowledgement.
Publishing ==
    /\ tick.pc \in Intended \cup {"publishing"} =>
          /\ dir.intent /\ ~dir.exit /\ Continues /\ FreshOutcome
          /\ dir.resolution = None /\ ~dir.nowrite
          /\ tick.pc # "release" => marker = None
    /\ tick.pc \in Intended => Unpublished
    /\ tick.pc \in {"allow", "spawn", "publishing"} => phase = "publisher"
    /\ tick.pc = "acknowledge" => /\ dir.intent /\ dir.exit /\ marker = None /\ dir.result # None
                                  /\ dir.result.status = "published" /\ tick.status = "published"
                                  /\ dir.resolution = None /\ phase = "publisher"
\* A tick that writes its outcome.
Closing ==
    /\ tick.pc \in Ending =>
          /\ tick.status \in {"published", "deferred", "incomplete"} =>
               /\ dir.intent /\ dir.exit /\ marker = None
               /\ dir.result # None /\ dir.result.status = tick.status
          /\ tick.status = "unknown" => dir.intent /\ ~dir.exit
          /\ tick.status \in {"proven_empty", "scoped_hold_noop"} => ~dir.intent
          /\ tick.status = "published" => NoDebt
    /\ tick.drained => tick.pc \in {"settle"} \cup Ending /\ Pending = {}

\* A child may outlive its dispatcher; nothing it relies on changes meanwhile.
ChildKnows ==
    /\ child = "worker" => /\ tick.pc \in {"off", "working"}
                           /\ phase = "worker" /\ run.proof # "exit"
    /\ child = "publisher" => /\ tick.pc \in {"off", "publishing"} /\ phase = "publisher"
                              /\ dir.intent /\ marker = None /\ dir.result = None
                              /\ dir.resolution = None /\ ~dir.nowrite /\ ~dir.exit
    /\ child = "recovery" => /\ tick.pc \in {"off", "recovering"} /\ Unresolved
                             /\ marker = None /\ ~Unstarted
    /\ tick.pc = "working" => child \in {"none", "worker"}

Whereabouts ==
    MarkerReleased /\ Resuming /\ Working /\ Publishing /\ Closing /\ ChildKnows

RunInv == RunTypeOK /\ Books /\ Whereabouts
-----------------------------------------------------------------------------
(***************************************************************************)
(* Where a tick goes, and what leaves the books in order.                  *)
(***************************************************************************)
\* A tick that goes on keeps everything but its place (_tick, locked_tick).
LEMMA Moved ==
    ASSUME RunTypeOK, NEW place \in Places, Goto(place)
    PROVE  /\ tick' \in Ticks /\ tick'.pc = place
           /\ tick'.resumed = tick.resumed /\ tick'.status = tick.status
           /\ tick'.drained = tick.drained
BY DEF RunTypeOK, Ticks, Goto

\* A tick that ends knows nothing any more.
LEMMA Stopped ==
    ASSUME Refuse
    PROVE  tick' \in Ticks /\ tick'.pc = "off" /\ tick'.resumed = FALSE /\ tick'.drained = FALSE
BY DEF Refuse, Off, At, Ticks, Places, Statuses

\* An exception of locked_tick ends in an outcome that claims no result.
LEMMA Raised ==
    ASSUME RunTypeOK, Raise
    PROVE  /\ tick' \in Ticks /\ tick'.pc = "outcome"
           /\ tick'.status = FailureStatus /\ tick'.drained = tick.drained
           /\ tick'.status \in {"unknown", "pending", "not_started"}
BY DEF RunTypeOK, Ticks, Places, Statuses, Raise, FailureStatus

\* A new batch's directory is empty.
LEMMA FreshControls ==
    /\ NoControls \in Controls
    /\ NoControls.request = None /\ NoControls.outcome = None
    /\ NoControls.intent = FALSE /\ NoControls.exit = FALSE
    /\ NoControls.result = None /\ NoControls.resolution = None
    /\ NoControls.generation = NoGeneration /\ NoControls.nowrite = FALSE
    /\ NoGeneration.state = "none"
BY DEF NoControls, Controls, NoGeneration, Generations

\* Steps that leave alone what the books are about keep them in order.
LEMMA BooksKept ==
    ASSUME Books, UNCHANGED <<queue, dest, run, phase, marker>>,
           UNCHANGED <<dir.request, dir.intent, dir.exit, dir.generation, dir.result,
                       dir.outcome, dir.resolution, dir.nowrite>>
    PROVE  Books'
<1>1. (DueBelow /\ DestBehind /\ AcknowledgedIsPublished /\ Current)'
  BY DEF Books, queue, DueBelow, DestBehind, AcknowledgedIsPublished, Current, AtVersion
<1>2. (SelectedIsPending /\ DebtIsTheBatchs /\ PhaseInOrder)'
  BY DEF Books, queue, SelectedIsPending, Settling, Published, Pending, DebtIsTheBatchs,
         PhaseInOrder
<1>3. (OutcomeInOrder /\ ResultInOrder /\ GenerationInOrder)'
  BY DEF Books, OutcomeInOrder, ResultInOrder, GenerationInOrder, Unpublished, Unstarted
<1>4. (NoWriteInOrder /\ ReportsAreTrue)'
  BY DEF Books, NoWriteInOrder, Settling, Published, ReportsAreTrue, Shows
<1> QED
  BY <1>1, <1>2, <1>3, <1>4 DEF Books

\* So does releasing the marker (release_after_intent), and closing a run that
\* leaves nothing pending (finish_publication).
LEMMA BooksClosed ==
    ASSUME Books, UNCHANGED queue, UNCHANGED dest, UNCHANGED run, UNCHANGED dir,
           marker' \in {marker, None}, phase' # phase => phase' = "idle" /\ Pending = {}
    PROVE  Books'
<1>1. (DueBelow /\ DestBehind /\ AcknowledgedIsPublished /\ Current)'
  BY DEF Books, queue, DueBelow, DestBehind, AcknowledgedIsPublished, Current, AtVersion
<1>2. (SelectedIsPending /\ DebtIsTheBatchs /\ PhaseInOrder)'
  BY DEF Books, queue, SelectedIsPending, Settling, Published, Pending, DebtIsTheBatchs,
         PhaseInOrder
<1>3. (OutcomeInOrder /\ ResultInOrder /\ GenerationInOrder)'
  BY DEF Books, OutcomeInOrder, ResultInOrder, GenerationInOrder, Unpublished, Unstarted
<1>4. (NoWriteInOrder /\ ReportsAreTrue)'
  BY DEF Books, NoWriteInOrder, Settling, Published, ReportsAreTrue, Shows
<1> QED
  BY <1>1, <1>2, <1>3, <1>4 DEF Books

\* So does a first outcome that says what the files say (immutable_json).
LEMMA OutcomeWritten ==
    ASSUME RunTypeOK, Books, dir.outcome = None, OutcomeInOrder', dir'.outcome \in Outcomes,
           UNCHANGED <<queue, dest, run, phase, marker>>,
           UNCHANGED <<dir.request, dir.intent, dir.exit, dir.generation, dir.result,
                       dir.resolution, dir.nowrite>>
    PROVE  Books'
<1>1. (DueBelow /\ DestBehind /\ AcknowledgedIsPublished /\ Current)'
  BY DEF Books, queue, DueBelow, DestBehind, AcknowledgedIsPublished, Current, AtVersion
<1>2. (SelectedIsPending /\ DebtIsTheBatchs /\ PhaseInOrder)'
  BY DEF Books, queue, SelectedIsPending, Settling, Published, Pending, DebtIsTheBatchs,
         PhaseInOrder
<1>3. (ResultInOrder /\ GenerationInOrder)'
  BY DEF Books, ResultInOrder, GenerationInOrder, Unpublished, Unstarted
<1>4. (NoWriteInOrder /\ ReportsAreTrue)'
  BY DEF Books, NoWriteInOrder, ReportsAreTrue, Shows
<1> QED
  BY <1>1, <1>2, <1>3, <1>4 DEF Books

\* A batch may be given up for a new one only when no pending work is already
\* shown (begin, begin_publication_only, advance_publication).
LEMMA NewBatch ==
    ASSUME RunTypeOK, Books, NoDebt, dir' = NoControls, phase' # "idle",
           UNCHANGED <<queue, dest, marker>>,
           \/ run'.reuse = None
           \/ /\ run'.reuse = dir.request /\ dir.request # None
              /\ ~Settling /\ marker = None /\ phase' # "worker",
           phase' = "worker" => marker = None
    PROVE  Books'
<1> USE FreshControls
<1>1. (DueBelow /\ DestBehind /\ AcknowledgedIsPublished /\ Current)'
  BY DEF Books, queue, DueBelow, DestBehind, AcknowledgedIsPublished, Current, AtVersion
<1>2. SelectedIsPending'
  BY DEF Books, queue, SelectedIsPending, Pending
<1>3. (DebtIsTheBatchs /\ PhaseInOrder)'
  BY DEF queue, NoDebt, DebtIsTheBatchs, PhaseInOrder
<1>4. (OutcomeInOrder /\ ResultInOrder /\ GenerationInOrder)'
  BY DEF OutcomeInOrder, ResultInOrder, GenerationInOrder, Unpublished, Unstarted
<1>5. (NoWriteInOrder /\ ReportsAreTrue)'
  BY DEF NoWriteInOrder, ReportsAreTrue, Shows
<1> QED
  BY <1>1, <1>2, <1>3, <1>4, <1>5 DEF Books

\* Acknowledging a true report of the batch leaves no debt shown and pending,
\* and calls nothing acknowledged that is not shown (acknowledge).
LEMMA Acknowledges ==
    ASSUME RunTypeOK, Books, dir.intent, Settling, marker = None,
           NEW report, Shows(report),
           dir.generation.state = "done" =>
               /\ report.processed = dir.generation.processed
               /\ report.rejected = dir.generation.rejected,
           Acknowledge(dir.request.selection, report.processed, report.rejected),
           UNCHANGED <<dest, run, phase, marker, dir>>
    PROVE  /\ Books' /\ NoDebt'
           /\ disposition' \in [Units -> {"acknowledged", "pending", "held"}]
<1>1. /\ dir.request # None /\ dir.request \in Requests /\ AtVersion(dir.request)
  BY DEF RunTypeOK, Controls, Books, Current
<1>2. /\ disposition' \in [Units -> {"acknowledged", "pending", "held"}]
      /\ \A u \in Units : disposition'[u] = "pending" => disposition[u] = "pending"
  BY DEF Acknowledge, Settled, RunTypeOK
<1>3. NoDebt'
  <2> SUFFICES ASSUME NEW u \in Units, disposition'[u] = "pending", dest[u] = version[u]
               PROVE  FALSE
    BY DEF NoDebt, Acknowledge
  <2>1. /\ dir.generation.state = "done"
        /\ u \in dir.generation.processed \ dir.generation.rejected
    BY <1>2 DEF Books, DebtIsTheBatchs
  <2>2. u \in dir.request.selection.units
    BY <2>1 DEF Books, GenerationInOrder, Unstarted
  <2> QED
    BY <1>1, <2>1, <2>2 DEF Acknowledge, Settled, AtVersion
<1>4. AcknowledgedIsPublished'
  <2> SUFFICES ASSUME NEW u \in Units, disposition'[u] = "acknowledged"
               PROVE  dest[u] = version[u]
    BY DEF AcknowledgedIsPublished, Acknowledge
  <2>1. disposition[u] = "acknowledged" \/ u \in report.processed \ report.rejected
    BY DEF Acknowledge, Settled
  <2> QED
    BY <1>1, <2>1 DEF Books, AcknowledgedIsPublished, Shows, AtVersion
<1>5. (DueBelow /\ DestBehind /\ Current)'
  BY DEF Books, Acknowledge, DueBelow, DestBehind, Current, AtVersion
<1>6. (SelectedIsPending /\ DebtIsTheBatchs /\ PhaseInOrder)'
  BY <1>2, <1>3 DEF Books, SelectedIsPending, Settling, Published, NoDebt, Pending,
         DebtIsTheBatchs, PhaseInOrder
<1>7. (OutcomeInOrder /\ ResultInOrder /\ GenerationInOrder)'
  BY DEF Books, OutcomeInOrder, ResultInOrder, GenerationInOrder, Unpublished, Unstarted
<1>8. (NoWriteInOrder /\ ReportsAreTrue)'
  BY DEF Books, NoWriteInOrder, Settling, Published, ReportsAreTrue, Shows
<1> QED
  BY <1>2, <1>3, <1>4, <1>5, <1>6, <1>7, <1>8 DEF Books

\* A dispatcher not waiting for a child has none.
LEMMA Alone ==
    ASSUME RunTypeOK, Whereabouts, tick.pc \notin {"off", "working", "publishing", "recovering"}
    PROVE  child = "none"
BY DEF RunTypeOK, Whereabouts, ChildKnows

\* A tick that ends without a child leaves nobody to be anywhere.
LEMMA Rests ==
    ASSUME Refuse, child' = "none", MarkerReleased'
    PROVE  Whereabouts'
BY Stopped DEF Whereabouts, Resuming, Working, Publishing, Closing, ChildKnows,
               Before, Intended, Ending
-----------------------------------------------------------------------------
(***************************************************************************)
(* runtime_resume.                                                         *)
(***************************************************************************)
\* Every lemma NameStep: the step named keeps the invariant.
LEMMA StartStep ==
    ASSUME RunInv, StartTick
    PROVE  RunInv'
<1>1. tick' \in Ticks /\ tick'.pc = "resume" /\ tick'.resumed = FALSE /\ tick'.drained = FALSE
  BY DEF StartTick, At, Ticks, Places, Statuses
<1>2. RunTypeOK'
  BY <1>1 DEF RunInv, RunTypeOK, StartTick, queue, authority
<1>3. Books'
  BY BooksKept DEF RunInv, StartTick, authority
<1>4. Whereabouts'
  BY <1>1 DEF RunInv, StartTick, queue, authority, Whereabouts, MarkerReleased, Resuming,
       Working, Publishing, Closing, ChildKnows, Before, Intended, Ending, Unpublished,
       FreshOutcome
<1> QED
  BY <1>2, <1>3, <1>4 DEF RunInv

LEMMA ResumeIdleStep ==
    ASSUME RunInv, ResumeIdle
    PROVE  RunInv'
<1>0. child = "none" /\ phase = "idle" /\ NoDebt
  BY Alone DEF RunInv, ResumeIdle, Books, PhaseInOrder, Pending, NoDebt
<1>1. CASE Refuse /\ UNCHANGED <<authority, dir>>
  <2>1. RunTypeOK'
    BY <1>1, Stopped DEF RunInv, RunTypeOK, ResumeIdle, queue, authority
  <2>2. Books'
    BY <1>1, BooksKept DEF RunInv, ResumeIdle, authority
  <2>3. MarkerReleased'
    BY <1>1, Stopped DEF RunInv, Whereabouts, ResumeIdle, MarkerReleased, Unpublished,
         FreshOutcome
  <2> QED
    BY <1>0, <1>1, <2>1, <2>2, <2>3, Rests DEF RunInv, ResumeIdle
<1>2. CASE begin_publication_only
  <2>1. RunTypeOK'
    BY <1>2, FreshControls DEF RunInv, RunTypeOK, ResumeIdle, queue, begin_publication_only,
         NewRun, Runs
  <2>2. Books'
    BY <1>0, <1>2, NewBatch DEF RunInv, ResumeIdle, begin_publication_only, NewRun
  <2>3. Whereabouts'
    BY <1>0, <1>2, FreshControls DEF RunInv, ResumeIdle, begin_publication_only, Whereabouts,
         MarkerReleased, Resuming, Working, Publishing, Closing, ChildKnows, Before,
         Intended, Ending
  <2> QED
    BY <2>1, <2>2, <2>3 DEF RunInv
<1>3. CASE /\ marker = None /\ HistoryAdmits /\ ~Backlog /\ (Held = {} \/ contained)
           /\ Goto("stale") /\ UNCHANGED <<authority, dir>>
  <2>1. tick' \in Ticks /\ tick'.pc = "stale" /\ tick'.resumed = FALSE /\ tick'.drained = FALSE
    BY <1>3, Moved DEF RunInv, ResumeIdle, Places, Whereabouts, Resuming, Closing, RunTypeOK,
         Ticks, Ending
  <2>2. RunTypeOK'
    BY <1>3, <2>1 DEF RunInv, RunTypeOK, ResumeIdle, queue, authority
  <2>3. Books'
    BY <1>3, BooksKept DEF RunInv, ResumeIdle, authority
  <2>4. Admitted
    BY <1>0, <1>3 DEF RunInv, RunTypeOK, Books, PhaseInOrder, Pending, Held, AllAcknowledged,
         Admitted, HistoryAdmits
  <2>5. Whereabouts'
    BY <1>0, <1>3, <2>1, <2>4 DEF RunInv, ResumeIdle, queue, authority, history, Whereabouts,
         Admitted, AllAcknowledged,
         MarkerReleased, Resuming, Working, Publishing, Closing, ChildKnows, Before,
         Intended, Ending
  <2> QED
    BY <2>2, <2>3, <2>5 DEF RunInv
<1> QED
  BY <1>1, <1>2, <1>3 DEF ResumeIdle

LEMMA ResumeWorkerStep ==
    ASSUME RunInv, ResumeWorker
    PROVE  RunInv'
<1>0. child = "none" /\ phase = "worker" /\ marker = None /\ ~dir.intent
  BY Alone DEF RunInv, ResumeWorker, Books, PhaseInOrder
<1>1. CASE Refuse /\ UNCHANGED <<authority, dir>>
  <2>1. RunTypeOK'
    BY <1>1, Stopped DEF RunInv, RunTypeOK, ResumeWorker, queue, authority
  <2>2. Books'
    BY <1>1, BooksKept DEF RunInv, ResumeWorker, authority
  <2>3. MarkerReleased'
    BY <1>0, <1>1 DEF ResumeWorker, MarkerReleased
  <2> QED
    BY <1>0, <1>1, <2>1, <2>2, <2>3, Rests DEF RunInv, ResumeWorker
<1>2. CASE phase' = "accepted" /\ run' = NewRun("queue") /\ dir' = NoControls /\ UNCHANGED tick
  <2>1. RunTypeOK'
    BY <1>2, FreshControls DEF RunInv, RunTypeOK, ResumeWorker, queue, NewRun, Runs
  <2>2. NoDebt
    BY <1>0, FreshControls DEF RunInv, Books, GenerationInOrder, Unpublished, DebtIsTheBatchs,
         NoDebt, Pending
  <2>3. Books'
    BY <1>0, <1>2, <2>2, NewBatch DEF RunInv, ResumeWorker, NewRun
  <2>4. Whereabouts'
    BY <1>0, <1>2, FreshControls DEF RunInv, ResumeWorker, Whereabouts,
         MarkerReleased, Resuming, Working, Publishing, Closing, ChildKnows, Before,
         Intended, Ending
  <2> QED
    BY <2>1, <2>3, <2>4 DEF RunInv
<1> QED
  BY <1>1, <1>2 DEF ResumeWorker

LEMMA ResumePostExitStep ==
    ASSUME RunInv, ResumePostExit
    PROVE  RunInv'
<1> DEFINE written == [Outcome(dir.result.status) EXCEPT !.allowed = FALSE]
<1>1. /\ child = "none" /\ dir.intent /\ dir.exit /\ dir.outcome = None /\ dir.result # None
      /\ dir.result \in Results /\ dir.result.status \in {"published", "deferred"}
  BY Alone DEF RunInv, ResumePostExit, PostExit, RunTypeOK, Controls, Results
<1>2. /\ dir' \in Controls /\ dir'.outcome = written /\ dir'.outcome \in Outcomes
      /\ dir'.outcome.status = dir.result.status
      /\ UNCHANGED <<dir.request, dir.intent, dir.exit, dir.generation, dir.result,
                     dir.resolution, dir.nowrite>>
  BY <1>1 DEF RunInv, RunTypeOK, Controls, ResumePostExit, Outcome, Outcomes, Statuses
<1> HIDE DEF written
<1>3. RunTypeOK'
  BY <1>2 DEF RunInv, RunTypeOK, ResumePostExit, queue, authority
<1>4. OutcomeInOrder'
  BY <1>1, <1>2 DEF OutcomeInOrder
<1>5. Books'
  BY <1>1, <1>2, <1>4, OutcomeWritten DEF RunInv, ResumePostExit, authority
<1>6. marker = None
  BY <1>1 DEF RunInv, Whereabouts, MarkerReleased, Unpublished
<1>7. Whereabouts'
  BY <1>1, <1>6 DEF RunInv, ResumePostExit, Whereabouts, MarkerReleased, Resuming, Working,
       Publishing, Closing, ChildKnows, Before, Intended, Ending
<1> QED
  BY <1>3, <1>5, <1>7 DEF RunInv

LEMMA ResumePublishedStep ==
    ASSUME RunInv, ResumePublished
    PROVE  RunInv'
<1> DEFINE report == IF dir.resolution # None THEN dir.resolution ELSE dir.result
<1>1. child = "none" /\ dir.intent /\ phase # "idle"
  BY Alone DEF RunInv, ResumePublished, Continues
<1>2. dir.resolution = None => dir.outcome # None /\ dir.outcome.status = "published"
  BY DEF ResumePublished, Published
<1>3. marker = None /\ Settling
  BY <1>1, <1>2 DEF RunInv, Whereabouts, MarkerReleased, Unpublished, FreshOutcome, Settling,
       Published, Books, OutcomeInOrder
<1>4. /\ Shows(report)
      /\ dir.generation.state = "done" =>
           /\ report.processed = dir.generation.processed
           /\ report.rejected = dir.generation.rejected
  BY <1>2, FreshControls DEF RunInv, Books, OutcomeInOrder, ResultInOrder, ReportsAreTrue, Shows
<1>5. Acknowledge(dir.request.selection, report.processed, report.rejected)
  BY DEF ResumePublished
<1> HIDE DEF report
<1>6. /\ Books' /\ NoDebt'
      /\ disposition' \in [Units -> {"acknowledged", "pending", "held"}]
  BY <1>1, <1>3, <1>4, <1>5, Acknowledges DEF RunInv, ResumePublished, authority
<1>7. /\ tick' \in Ticks /\ tick'.pc = "settle" /\ tick'.resumed = FALSE
      /\ tick'.drained => Pending' = {}
  BY <1>5 DEF RunInv, RunTypeOK, Whereabouts, Resuming, ResumePublished, Ticks, Places, Drained,
       Pending, Acknowledge
<1>8. RunTypeOK'
  BY <1>5, <1>6, <1>7 DEF RunInv, RunTypeOK, ResumePublished, Acknowledge, authority
<1>9. Whereabouts'
  BY <1>1, <1>3, <1>6, <1>7 DEF RunInv, ResumePublished, authority, Whereabouts, MarkerReleased,
       Resuming, Working, Publishing, Closing, ChildKnows, Before, Intended, Ending
<1> QED
  BY <1>6, <1>8, <1>9 DEF RunInv

LEMMA ResumeSettlesStep ==
    ASSUME RunInv, ResumeSettles
    PROVE  RunInv'
<1>0. child = "none" /\ NoDebt /\ phase # "idle"
  BY Alone DEF RunInv, ResumeSettles, Whereabouts, Resuming
<1>1. CASE tick.drained /\ finish_publication /\ Refuse
  <2>1. RunTypeOK'
    BY <1>1, Stopped DEF RunInv, RunTypeOK, ResumeSettles, queue, finish_publication
  <2>2. Pending = {}
    BY <1>1 DEF RunInv, Whereabouts, Closing
  <2>3. Books'
    <3>1. UNCHANGED <<queue, dest, run, dir>> /\ marker' = marker /\ phase' = "idle"
      BY <1>1 DEF ResumeSettles, finish_publication
    <3> QED
      BY <2>2, <3>1, BooksClosed DEF RunInv
  <2>4. MarkerReleased'
    BY <1>1, Stopped DEF RunInv, Whereabouts, ResumeSettles, finish_publication, MarkerReleased,
         Unpublished, FreshOutcome
  <2> QED
    BY <1>0, <1>1, <2>1, <2>3, <2>4, Rests DEF RunInv, ResumeSettles
<1>2. CASE ~tick.drained /\ advance_publication(None) /\ Goto("resume")
  <2>1. tick' \in Ticks /\ tick'.pc = "resume" /\ ~tick'.resumed /\ ~tick'.drained
    BY <1>2, Moved DEF RunInv, ResumeSettles, Places, Whereabouts, Resuming
  <2>2. RunTypeOK'
    BY <1>2, <2>1, FreshControls DEF RunInv, RunTypeOK, ResumeSettles, queue,
         advance_publication, Runs
  <2>3. run'.reuse = None /\ phase' = "accepted" /\ dir' = NoControls
    BY <1>2 DEF RunInv, RunTypeOK, Runs, advance_publication
  <2>4. Books'
    BY <1>0, <2>3, NewBatch DEF RunInv, ResumeSettles
  <2>5. Whereabouts'
    BY <1>0, <2>1, <2>3, FreshControls DEF RunInv, ResumeSettles, Whereabouts, MarkerReleased,
         Resuming, Working, Publishing, Closing, ChildKnows, Before, Intended, Ending
  <2> QED
    BY <2>2, <2>4, <2>5 DEF RunInv
<1>3. CASE Refuse /\ UNCHANGED <<authority, dir>>
  <2>1. RunTypeOK'
    BY <1>3, Stopped DEF RunInv, RunTypeOK, ResumeSettles, queue, authority
  <2>2. Books'
    BY <1>3, BooksKept DEF RunInv, ResumeSettles, authority
  <2>3. MarkerReleased'
    BY <1>3, Stopped DEF RunInv, Whereabouts, ResumeSettles, MarkerReleased, Unpublished,
         FreshOutcome
  <2> QED
    BY <1>0, <1>3, <2>1, <2>2, <2>3, Rests DEF RunInv, ResumeSettles
<1> QED
  BY <1>1, <1>2, <1>3 DEF ResumeSettles

LEMMA ResumeUnwrittenStep ==
    ASSUME RunInv, ResumeUnwritten
    PROVE  RunInv'
<1>1. /\ child = "none" /\ dir.intent /\ marker = None /\ ~Settling
      /\ dir.generation = NoGeneration /\ dir.request # None /\ dir.request \in Requests
  <2>1. child = "none" /\ dir.intent /\ marker = None
    BY Alone DEF RunInv, ResumeUnwritten, Whereabouts, MarkerReleased, Unpublished,
         FreshOutcome,
         Deferred
  <2>2. dir.request # None /\ dir.request \in Requests
    BY <2>1 DEF RunInv, RunTypeOK, Controls
  <2>3. ~Settling /\ dir.generation = NoGeneration
    BY DEF RunInv, ResumeUnwritten, Deferred, Books, NoWriteInOrder, OutcomeInOrder,
         ResultInOrder, Settling, Published
  <2> QED
    BY <2>1, <2>2, <2>3
<1>2. NoDebt
  BY <1>1, FreshControls DEF RunInv, Books, DebtIsTheBatchs, NoDebt
<1>3. CASE advance_publication(dir.request)
  <2>1. /\ run' \in Runs /\ run'.reuse = dir.request /\ phase' = "accepted"
        /\ dir' = NoControls
    BY <1>1, <1>3 DEF RunInv, RunTypeOK, Runs, advance_publication
  <2>2. RunTypeOK'
    BY <2>1, FreshControls, Stopped DEF RunInv, RunTypeOK, ResumeUnwritten, queue
  <2>3. Books'
    BY <1>1, <1>2, <2>1, NewBatch DEF RunInv, ResumeUnwritten
  <2>4. MarkerReleased'
    BY <1>1 DEF ResumeUnwritten, MarkerReleased
  <2> QED
    BY <1>1, <2>2, <2>3, <2>4, Rests DEF RunInv, ResumeUnwritten
<1>4. CASE UNCHANGED <<authority, dir>>
  <2>1. RunTypeOK'
    BY <1>4, Stopped DEF RunInv, RunTypeOK, ResumeUnwritten, queue, authority
  <2>2. Books'
    BY <1>4, BooksKept DEF RunInv, ResumeUnwritten, authority
  <2>3. MarkerReleased'
    BY <1>1 DEF ResumeUnwritten, MarkerReleased
  <2> QED
    BY <1>1, <2>1, <2>2, <2>3, Rests DEF RunInv, ResumeUnwritten
<1> QED
  BY <1>3, <1>4 DEF ResumeUnwritten

LEMMA ResumeUnendedStep ==
    ASSUME RunInv, ResumeUnended
    PROVE  RunInv'
<1>1. child = "none" /\ dir.intent /\ phase # "idle" /\ marker' = None
  BY Alone DEF RunInv, ResumeUnended, Continues
<1>2. tick' \in Ticks /\ tick'.pc = "stale" /\ ~tick'.resumed /\ ~tick'.drained
  BY Moved DEF RunInv, ResumeUnended, Places, Whereabouts, Resuming, Closing, Ending
<1>3. RunTypeOK'
  BY <1>1, <1>2 DEF RunInv, RunTypeOK, ResumeUnended, queue, authority
<1>4. Books'
  <2>1. UNCHANGED <<queue, dest, run, dir>> /\ marker' = None /\ phase' = phase
    BY DEF ResumeUnended, authority
  <2>2. /\ Books /\ marker' \in {marker, None}
        /\ phase' # phase => phase' = "idle" /\ Pending = {}
    BY <2>1 DEF RunInv
  <2> QED
    BY <2>1, <2>2, BooksClosed
<1>5. Whereabouts'
  BY <1>1, <1>2 DEF RunInv, ResumeUnended, authority, Whereabouts, MarkerReleased,
       Resuming, Working, Publishing, Closing, ChildKnows, Before, Intended, Ending
<1> QED
  BY <1>3, <1>4, <1>5 DEF RunInv

LEMMA ResumeSealedStep ==
    ASSUME RunInv, ResumeSealed
    PROVE  RunInv'
<1>1. child = "none" /\ ~dir.intent /\ Continues
  BY Alone DEF RunInv, ResumeSealed
<1>2. /\ marker' # None /\ marker' \in Markers
      /\ \/ marker' = marker
         \/ run.reuse = None /\ marker'.selection = None /\ marker'.image = None
         \/ run.reuse # None /\ marker' = run.reuse
  BY NoneAssumption DEF RunInv, RunTypeOK, ResumeSealed, Sealed, Runs, Markers, Requests
<1>3. /\ dir' \in Controls /\ dir'.outcome = None /\ dir'.request = None
      /\ UNCHANGED <<dir.intent, dir.exit, dir.generation, dir.result, dir.resolution,
                     dir.nowrite>>
  BY DEF RunInv, RunTypeOK, ResumeSealed, Controls
<1>4. tick' \in Ticks /\ tick'.pc = "stale" /\ tick'.resumed /\ ~tick'.drained
  BY DEF RunInv, RunTypeOK, ResumeSealed, Ticks, Places, Whereabouts, Closing, Ending
<1>5. RunTypeOK'
  BY <1>1, <1>2, <1>3, <1>4 DEF RunInv, RunTypeOK, ResumeSealed, queue, authority
<1>6. Books'
  <2>1. (DueBelow /\ DestBehind /\ AcknowledgedIsPublished)'
    BY DEF RunInv, Books, ResumeSealed, queue, DueBelow, DestBehind, AcknowledgedIsPublished
  <2>2. run.reuse # None => /\ AtVersion(run.reuse) /\ run.reuse \in Requests
                            /\ run.reuse.selection # None
                            /\ run.reuse.selection.units \subseteq Pending
    BY <1>1, NoneAssumption DEF RunInv, RunTypeOK, Runs, Requests, Books, Current,
         SelectedIsPending
  <2>3. Current'
    BY <1>2, <1>3, <2>2 DEF RunInv, Books, ResumeSealed, queue, authority, Current, AtVersion
  <2>4. SelectedIsPending'
    BY <1>2, <1>3, <2>2 DEF RunInv, Books, ResumeSealed, queue, authority, SelectedIsPending,
         Pending
  <2>5. (DebtIsTheBatchs /\ PhaseInOrder)'
    BY <1>1, <1>2, <1>3, <2>2 DEF RunInv, Books, ResumeSealed, queue, authority,
         DebtIsTheBatchs,
         PhaseInOrder, Pending, Continues
  <2>6. (OutcomeInOrder /\ ResultInOrder /\ GenerationInOrder)'
    BY <1>1, <1>3, FreshControls DEF RunInv, Books, OutcomeInOrder, ResultInOrder,
         GenerationInOrder,
         Unpublished, Unstarted
  <2>7. (NoWriteInOrder /\ ReportsAreTrue)'
    BY <1>1, <1>3, FreshControls DEF RunInv, Books, GenerationInOrder, Unpublished,
         NoWriteInOrder,
         ReportsAreTrue
  <2> QED
    BY <2>1, <2>3, <2>4, <2>5, <2>6, <2>7 DEF Books
<1>7. Whereabouts'
  BY <1>1, <1>2, <1>3, <1>4 DEF RunInv, ResumeSealed, authority, Whereabouts, MarkerReleased,
       Resuming, Working, Publishing, Closing, ChildKnows, Before, Intended, Ending, Continues,
       FreshOutcome
<1> QED
  BY <1>5, <1>6, <1>7 DEF RunInv
-----------------------------------------------------------------------------
(***************************************************************************)
(* Stale runs, the choice of what to do, and recovery.                     *)
(***************************************************************************)
LEMMA RecoverStaleStep ==
    ASSUME RunInv, RecoverStale
    PROVE  RunInv'
<1>0. child = "none"
  BY Alone DEF RunInv, RecoverStale
<1>1. CASE phase = "idle" \/ dir.state # "running"
  <2>1. tick' \in Ticks /\ tick'.pc = "unresolved" /\ tick'.resumed = tick.resumed /\ ~tick'.drained
    BY <1>1, Moved DEF RunInv, RecoverStale, Places, Whereabouts, Closing, Ending
  <2>2. RunTypeOK'
    BY <1>1, <2>1 DEF RunInv, RunTypeOK, RecoverStale, queue, authority
  <2>3. Books'
    BY <1>1, BooksKept DEF RunInv, RecoverStale, authority
  <2>4. Whereabouts'
    BY <1>0, <1>1, <2>1 DEF RunInv, RecoverStale, queue, authority, history, Whereabouts,
         Admitted, MarkerReleased,
         Resuming, Working, Publishing, Closing, ChildKnows, Before, Intended, Ending,
         AllAcknowledged, Continues, FreshOutcome
  <2> QED
    BY <2>2, <2>3, <2>4 DEF RunInv
<1>2. CASE phase # "idle" /\ dir.state = "running"
  <2>1. /\ StaleOutcome \in Outcomes
        /\ dir.outcome # None => StaleOutcome = dir.outcome
        /\ dir.outcome = None =>
             \/ StaleOutcome.status = "not_started"
             \/ /\ dir.intent /\ dir.result # None
                /\ StaleOutcome.status = dir.result.status
                /\ dir.result.status # "unknown"
             \/ dir.intent /\ dir.result = None /\ StaleOutcome.status = "unknown"
        /\ dir.outcome = None /\ ~dir.intent => StaleOutcome.status = "not_started"
    BY DEF RunInv, RunTypeOK, Controls, Results, Outcomes, Outcome, Statuses, StaleOutcome
  <2>2. /\ dir' \in Controls /\ dir'.outcome = StaleOutcome
        /\ UNCHANGED <<dir.request, dir.intent, dir.exit, dir.generation, dir.result,
                       dir.resolution, dir.nowrite>>
    <3>1. \/ dir' = [dir EXCEPT !.outcome = StaleOutcome]
          \/ dir' = [dir EXCEPT !.outcome = StaleOutcome, !.recovered = TRUE,
                                !.state = "finished"]
      BY <1>2 DEF RecoverStale
    <3>2. dir \in Controls
      BY DEF RunInv, RunTypeOK
    <3>3. CASE dir' = [dir EXCEPT !.outcome = StaleOutcome]
      BY <2>1, <3>2, <3>3 DEF Controls
    <3>4. CASE dir' = [dir EXCEPT !.outcome = StaleOutcome, !.recovered = TRUE,
                                  !.state = "finished"]
      BY <2>1, <3>2, <3>4 DEF Controls
    <3> QED
      BY <3>1, <3>3, <3>4
  <2>3. /\ tick' \in Ticks
        /\ \/ tick'.pc = "off" /\ ~tick'.resumed /\ ~tick'.drained
           \/ tick'.pc = "unresolved" /\ tick'.resumed = tick.resumed /\ ~tick'.drained
    BY <1>2, Moved, Stopped DEF RunInv, RecoverStale, Places, Whereabouts, Closing, Ending
  <2>4. RunTypeOK'
    BY <2>2, <2>3 DEF RunInv, RunTypeOK, RecoverStale, queue, authority
  <2>5. Books'
    <3>1. OutcomeInOrder'
      <4>1. CASE dir.outcome = None
        BY <2>1, <2>2, <4>1 DEF RunInv, Books, OutcomeInOrder, ResultInOrder
      <4>2. CASE dir.outcome # None
        BY <2>1, <2>2, <4>2 DEF RunInv, Books, OutcomeInOrder
      <4> QED
        BY <4>1, <4>2
    <3>2. CASE dir.outcome = None
      BY <2>1, <2>2, <3>1, <3>2, OutcomeWritten DEF RunInv, RecoverStale, authority
    <3>3. CASE dir.outcome # None
      BY <2>1, <2>2, <3>3, BooksKept DEF RunInv, RecoverStale, authority
    <3> QED
      BY <3>2, <3>3
  <2>6. Whereabouts'
    BY <1>0, <1>2, <2>1, <2>2, <2>3 DEF RunInv, RecoverStale, queue, authority, Whereabouts,
         MarkerReleased, Resuming, Working, Publishing, Closing, ChildKnows, Before, Intended,
         Ending, Continues, FreshOutcome, Unpublished
  <2> QED
    BY <2>4, <2>5, <2>6 DEF RunInv
<1> QED
  BY <1>1, <1>2 DEF RunInv, RunTypeOK, RecoverStale

LEMMA DispatchStep ==
    ASSUME RunInv, Dispatch
    PROVE  RunInv'
<1>0. child = "none" /\ ~tick.drained
  BY Alone DEF RunInv, Dispatch, Whereabouts, Closing, Ending
<1>1. CASE Unresolved /\ Goto("recover") /\ UNCHANGED dir
  <2>1. tick' \in Ticks /\ tick'.pc = "recover" /\ ~tick'.drained
    BY <1>0, <1>1, Moved DEF RunInv, Places
  <2>2. RunTypeOK'
    BY <1>1, <2>1 DEF RunInv, RunTypeOK, Dispatch, queue, authority
  <2>3. Books'
    BY <1>1, BooksKept DEF RunInv, Dispatch, authority
  <2>4. marker = None
    BY <1>1 DEF RunInv, Dispatch, Unresolved, Whereabouts, Resuming, FreshOutcome
  <2>5. Whereabouts'
    BY <1>0, <1>1, <2>1, <2>4 DEF RunInv, Dispatch, authority, Whereabouts, MarkerReleased,
         Resuming, Working, Publishing, Closing, ChildKnows, Before, Intended, Ending, Unresolved
  <2> QED
    BY <2>2, <2>3, <2>5 DEF RunInv
<1>2. CASE /\ tick.resumed /\ Goto("advance")
           /\ dir' = [dir EXCEPT !.state = "running", !.exit = FALSE, !.allowed = FALSE]
  <2>1. tick' \in Ticks /\ tick'.pc = "advance" /\ ~tick'.drained
    BY <1>0, <1>2, Moved DEF RunInv, Places
  <2>2. /\ Continues /\ ~dir.intent /\ marker # None /\ dir.request = None /\ FreshOutcome
        /\ Unpublished
    BY <1>2 DEF RunInv, Dispatch, Whereabouts, Resuming, Books, GenerationInOrder
  <2>3. /\ dir' \in Controls
        /\ UNCHANGED <<dir.request, dir.intent, dir.exit, dir.generation, dir.result,
                       dir.outcome, dir.resolution, dir.nowrite>>
    BY <1>2, <2>2 DEF RunInv, RunTypeOK, Controls, Unpublished
  <2>4. RunTypeOK'
    BY <2>1, <2>3 DEF RunInv, RunTypeOK, Dispatch, queue, authority
  <2>5. Books'
    BY <2>3, BooksKept DEF RunInv, Dispatch, authority
  <2>6. Whereabouts'
    BY <1>0, <2>1, <2>2, <2>3 DEF Dispatch, authority, Whereabouts, MarkerReleased, Resuming,
         Working, Publishing, Closing, ChildKnows, Before, Intended, Ending, Continues,
         FreshOutcome
  <2> QED
    BY <2>4, <2>5, <2>6 DEF RunInv
<1>3. CASE ~tick.resumed /\ phase = "idle" /\ Goto("begin") /\ UNCHANGED dir
  <2>1. tick' \in Ticks /\ tick'.pc = "begin" /\ ~tick'.drained
    BY <1>0, <1>3, Moved DEF RunInv, Places
  <2>2. RunTypeOK'
    BY <1>3, <2>1 DEF RunInv, RunTypeOK, Dispatch, queue, authority
  <2>3. Books'
    BY <1>3, BooksKept DEF RunInv, Dispatch, authority
  <2>4. Admitted /\ marker = None
    BY <1>3 DEF RunInv, Dispatch, Whereabouts, Resuming, Continues
  <2>5. Whereabouts'
    BY <1>0, <1>3, <2>1, <2>4 DEF RunInv, Dispatch, queue, authority, history,
         Whereabouts, MarkerReleased, Resuming, Working, Publishing, Closing, ChildKnows, Before,
         Intended, Ending, Admitted, AllAcknowledged
  <2> QED
    BY <2>2, <2>3, <2>5 DEF RunInv
<1>4. CASE ~tick.resumed /\ Refuse /\ UNCHANGED dir
  <2>1. RunTypeOK'
    BY <1>4, Stopped DEF RunInv, RunTypeOK, Dispatch, queue, authority
  <2>2. Books'
    BY <1>4, BooksKept DEF RunInv, Dispatch, authority
  <2>3. MarkerReleased'
    BY <1>4, Stopped DEF RunInv, Dispatch, Whereabouts, MarkerReleased, Unpublished,
         FreshOutcome
  <2> QED
    BY <1>0, <1>4, <2>1, <2>2, <2>3, Rests DEF RunInv, Dispatch
<1> QED
  BY <1>1, <1>2, <1>3, <1>4 DEF Dispatch

LEMMA ResumePublicationStep ==
    ASSUME RunInv, resume_publication
    PROVE  RunInv'
<1>0. /\ child = "none" /\ ~tick.drained /\ Unresolved /\ marker = None /\ dir.intent
      /\ dir.outcome \in Outcomes
  BY Alone DEF RunInv, resume_publication, Whereabouts, Resuming, Closing, Ending, Unresolved,
       Books, OutcomeInOrder, RunTypeOK, Controls
<1>1. CASE Refuse /\ UNCHANGED <<dir, child>>
  <2>1. RunTypeOK'
    BY <1>1, Stopped DEF RunInv, RunTypeOK, resume_publication, queue, authority
  <2>2. Books'
    BY <1>1, BooksKept DEF RunInv, resume_publication, authority
  <2>3. MarkerReleased'
    BY <1>0 DEF resume_publication, MarkerReleased
  <2> QED
    BY <1>0, <1>1, <2>1, <2>2, <2>3, Rests DEF RunInv
<1>2. CASE /\ NotBegun /\ Refuse /\ UNCHANGED child
           /\ dir' = [dir EXCEPT !.nowrite = TRUE, !.state = "finished"]
  <2>1. /\ dir' \in Controls /\ dir'.nowrite = TRUE
        /\ UNCHANGED <<dir.request, dir.intent, dir.exit, dir.generation, dir.result,
                       dir.outcome, dir.resolution>>
    BY <1>2 DEF RunInv, RunTypeOK, Controls
  <2>2. RunTypeOK'
    BY <1>2, <2>1, Stopped DEF RunInv, RunTypeOK, resume_publication, queue, authority
  <2>3. ~Settling
    BY <1>0 DEF RunInv, Books, OutcomeInOrder, Unresolved, Settling, Published
  <2>4. (DueBelow /\ DestBehind /\ AcknowledgedIsPublished /\ Current)'
    BY <2>1 DEF RunInv, Books, resume_publication, queue, authority, DueBelow, DestBehind,
         AcknowledgedIsPublished, Current, AtVersion
  <2>5. (SelectedIsPending /\ DebtIsTheBatchs /\ PhaseInOrder)'
    BY <2>1 DEF RunInv, Books, resume_publication, queue, authority, SelectedIsPending,
         Settling,
         Published, Pending, DebtIsTheBatchs, PhaseInOrder
  <2>6. (OutcomeInOrder /\ ResultInOrder /\ GenerationInOrder)'
    BY <1>0, <2>1 DEF RunInv, Books, OutcomeInOrder, ResultInOrder, GenerationInOrder, Unstarted
  <2>7. ReportsAreTrue'
    BY <2>1 DEF RunInv, Books, resume_publication, ReportsAreTrue, Shows
  <2>8. NoWriteInOrder'
    BY <1>0, <1>2, <2>1, <2>3 DEF RunInv, Books, GenerationInOrder, NotBegun, Unresolved,
         NoWriteInOrder, Settling, Published
  <2>9. MarkerReleased'
    BY <1>0 DEF resume_publication, MarkerReleased
  <2> QED
    BY <1>0, <1>2, <2>2, <2>4, <2>5, <2>6, <2>7, <2>8, <2>9, Rests DEF RunInv, Books
<1>3. CASE ~NotBegun /\ child' = "recovery" /\ Goto("recovering") /\ UNCHANGED dir
  <2>1. tick' \in Ticks /\ tick'.pc = "recovering" /\ ~tick'.drained
    BY <1>0, <1>3, Moved DEF RunInv, Places
  <2>2. RunTypeOK'
    BY <1>3, <2>1 DEF RunInv, RunTypeOK, resume_publication, queue, authority
  <2>3. Books'
    BY <1>3, BooksKept DEF RunInv, resume_publication, authority
  <2>4. Whereabouts'
    BY <1>0, <1>3, <2>1 DEF resume_publication, authority, Whereabouts, MarkerReleased,
         Resuming,
         Working, Publishing, Closing, ChildKnows, Before, Intended, Ending, Unresolved,
         NotBegun, Unstarted
  <2> QED
    BY <2>2, <2>3, <2>4 DEF RunInv
<1> QED
  BY <1>1, <1>2, <1>3 DEF resume_publication

LEMMA RecoveredStep ==
    ASSUME RunInv, Recovered
    PROVE  RunInv'
<1>0. /\ child = "none" /\ Unresolved /\ marker = None /\ dir.intent
  BY DEF RunInv, Recovered, Whereabouts, Resuming, Unresolved, Books, OutcomeInOrder
<1>1. MarkerReleased'
  BY <1>0 DEF Recovered, MarkerReleased
<1>a. UNCHANGED <<queue, dest, authority, marker, child, bounds>> /\ Refuse
  BY DEF Recovered
<1>2. CASE UNCHANGED dir
  <2>1. RunTypeOK'
    BY <1>a, <1>2, Stopped DEF RunInv, RunTypeOK, queue, authority
  <2>2. Books'
    BY <1>a, <1>2, BooksKept DEF RunInv, authority
  <2> QED
    BY <1>0, <1>1, <1>a, <2>1, <2>2, Rests DEF RunInv
<1>3. CASE /\ dir.generation.state = "done"
           /\ dir' = [dir EXCEPT !.resolution = [processed |-> dir.generation.processed,
                                                 rejected |-> dir.generation.rejected],
                                 !.state = "finished"]
  <2> DEFINE resolution == [processed |-> dir.generation.processed,
                            rejected |-> dir.generation.rejected]
  <2>0. /\ resolution \in Resolutions /\ resolution # None
        /\ resolution.processed = dir.generation.processed
        /\ resolution.rejected = dir.generation.rejected
    BY NoneAssumption DEF RunInv, RunTypeOK, Controls, Generations, Resolutions
  <2> HIDE DEF resolution
  <2>1. /\ dir' \in Controls /\ dir'.resolution = resolution
        /\ UNCHANGED <<dir.request, dir.intent, dir.exit, dir.generation, dir.result,
                       dir.outcome, dir.nowrite>>
    BY <1>3, <2>0 DEF resolution, RunInv, RunTypeOK, Controls
  <2>2. RunTypeOK'
    BY <1>a, <2>1, Stopped DEF RunInv, RunTypeOK, queue, authority
  <2>3. (DueBelow /\ DestBehind /\ AcknowledgedIsPublished /\ Current)'
    BY <1>a, <2>0, <2>1 DEF RunInv, Books, queue, authority, DueBelow, DestBehind,
         AcknowledgedIsPublished, Current, AtVersion
  <2>4. (SelectedIsPending /\ DebtIsTheBatchs /\ PhaseInOrder)'
    BY <1>a, <2>0, <2>1 DEF RunInv, Books, queue, authority, SelectedIsPending, Settling,
         Pending, DebtIsTheBatchs, PhaseInOrder
  <2>5. (OutcomeInOrder /\ ResultInOrder /\ GenerationInOrder)'
    BY <1>0, <1>3, <2>0, <2>1 DEF RunInv, Books, OutcomeInOrder, ResultInOrder,
         GenerationInOrder, Unstarted
  <2>6. (NoWriteInOrder /\ ReportsAreTrue)'
    BY <1>a, <1>3, <2>0, <2>1, FreshControls DEF RunInv, Books, NoWriteInOrder,
         ReportsAreTrue, Shows
  <2> QED
    BY <1>0, <1>1, <2>2, <2>3, <2>4, <2>5, <2>6, <1>a, Rests DEF RunInv, Books
<1> QED
  BY <1>2, <1>3 DEF Recovered
-----------------------------------------------------------------------------
(***************************************************************************)
(* From the worker to the intent.                                          *)
(***************************************************************************)
\* Writing units as new versions, while no batch is under way, puts them behind
\* the destination (_mark, under writer and advance_time).
LEMMA Marks ==
    ASSUME RunTypeOK, Books, NEW units \in SUBSET Units, Mark(units),
           \A u \in units : version[u] < MaxVersion, DueBelow',
           dir.request = None, run.reuse = None, phase # "idle", ~dir.intent,
           marker # None => marker.selection = None,
           UNCHANGED <<dest, phase, marker, dir>>,
           run'.reuse = run.reuse, run'.proof = run.proof
    PROVE  /\ Books' /\ version' \in Versions
           /\ disposition' \in [Units -> {"acknowledged", "pending", "held"}]
<1>1. /\ version \in [Units -> 0 .. MaxVersion] /\ dest \in [Units -> 0 .. MaxVersion]
      /\ MaxVersion \in Nat /\ Unpublished
  BY PublicationAssumption DEF RunTypeOK, Versions, Books, GenerationInOrder
<1>2. /\ version' \in Versions
      /\ disposition' \in [Units -> {"acknowledged", "pending", "held"}]
      /\ \A u \in units : version'[u] = version[u] + 1 /\ disposition'[u] = "pending"
      /\ \A u \in Units \ units : version'[u] = version[u] /\ disposition'[u] = disposition[u]
  BY <1>1 DEF RunTypeOK, Mark, Versions
<1>3. \A u \in units : dest[u] # version'[u] /\ dest[u] <= version'[u]
  BY <1>1, <1>2 DEF Books, DestBehind
<1>4. DestBehind' /\ AcknowledgedIsPublished' /\ DebtIsTheBatchs'
  BY <1>1, <1>2, <1>3, FreshControls DEF Books, DestBehind, AcknowledgedIsPublished,
       DebtIsTheBatchs, Unpublished
<1>5. (Current /\ SelectedIsPending /\ PhaseInOrder)'
  BY DEF Books, Current, SelectedIsPending, PhaseInOrder
<1>6. (OutcomeInOrder /\ ResultInOrder /\ GenerationInOrder)'
  BY DEF Books, OutcomeInOrder, ResultInOrder, GenerationInOrder, Unpublished, Unstarted
<1>7. (NoWriteInOrder /\ ReportsAreTrue)'
  BY <1>1, FreshControls DEF Unpublished, NoWriteInOrder, ReportsAreTrue
<1> QED
  BY <1>2, <1>4, <1>5, <1>6, <1>7 DEF Books

LEMMA BeginWorkerStep ==
    ASSUME RunInv, BeginWorker
    PROVE  RunInv'
<1>1. child = "none" /\ NoDebt /\ ~tick.drained /\ marker = None
  BY Alone DEF RunInv, BeginWorker, Whereabouts, Resuming, Closing, Ending, Books,
       PhaseInOrder, Pending, NoDebt
<1>2. tick' \in Ticks /\ tick'.pc = "worker" /\ ~tick'.drained
  BY <1>1, Moved DEF RunInv, BeginWorker, Places
<1>3. RunTypeOK'
  BY <1>2, FreshControls DEF RunInv, RunTypeOK, BeginWorker, queue, NewRun, Runs
<1>4. Books'
  BY <1>1, NewBatch DEF RunInv, BeginWorker, NewRun
<1>5. Whereabouts'
  BY <1>1, <1>2, FreshControls DEF BeginWorker, NewRun, Whereabouts, MarkerReleased, Resuming,
       Working, Publishing, Closing, ChildKnows, Before, Intended, Ending, FreshOutcome
<1> QED
  BY <1>3, <1>4, <1>5 DEF RunInv

LEMMA SpawnWorkerStep ==
    ASSUME RunInv, SpawnWorker
    PROVE  RunInv'
<1>1. /\ ~tick.drained /\ phase = "worker" /\ run.proof # "exit" /\ ~dir.intent
      /\ FreshOutcome
  BY DEF RunInv, SpawnWorker, Whereabouts, Working, Closing, Ending, Books, PhaseInOrder
<1>2. tick' \in Ticks /\ tick'.pc = "working" /\ ~tick'.drained
  BY <1>1, Moved DEF RunInv, SpawnWorker, Places
<1>3. /\ dir' \in Controls
      /\ UNCHANGED <<dir.request, dir.intent, dir.exit, dir.generation, dir.result,
                     dir.outcome, dir.resolution, dir.nowrite>>
  BY DEF RunInv, RunTypeOK, SpawnWorker, Controls
<1>4. RunTypeOK'
  BY <1>2, <1>3 DEF RunInv, RunTypeOK, SpawnWorker, queue, authority
<1>5. Books'
  BY <1>3, BooksKept DEF RunInv, SpawnWorker, authority
<1>6. Whereabouts'
  BY <1>1, <1>2, <1>3 DEF SpawnWorker, authority, Whereabouts, MarkerReleased, Resuming,
       Working, Publishing, Closing, ChildKnows, Before, Intended, Ending, FreshOutcome
<1> QED
  BY <1>4, <1>5, <1>6 DEF RunInv

LEMMA AcceptStep ==
    ASSUME RunInv, NEW u \in Units, Accept(u)
    PROVE  RunInv'
<1>1. /\ phase = "worker" /\ run.proof # "exit" /\ run.reuse = None /\ ~dir.intent
      /\ dir.request = None /\ marker = None /\ tick.pc \in {"off", "working"}
  BY DEF RunInv, Accept, Whereabouts, ChildKnows, Books, PhaseInOrder
<1>2. version[u] < MaxVersion /\ (u \in due => version[u] + 1 < MaxVersion)
  <2> DEFINE dues == Cardinality({u} \cap due)
  <2>1. version[u] \in Nat /\ MaxVersion \in Nat /\ dues + version[u] < MaxVersion
    BY PublicationAssumption DEF RunInv, RunTypeOK, Versions, Accept
  <2>2. CASE u \in due
    <3>1. {u} \cap due = {u}
      BY <2>2
    <3>2. dues = 1
      BY <3>1, FS_Singleton
    <3> QED
      BY <2>1, <3>2
  <2>3. CASE u \notin due
    <3>1. {u} \cap due = {}
      BY <2>3
    <3>2. dues = 0
      BY <3>1, FS_EmptySet
    <3> HIDE DEF dues
    <3> QED
      BY <2>1, <2>3, <3>2
  <2> QED
    BY <2>2, <2>3
<1>3. DueBelow'
  <2> SUFFICES ASSUME NEW v \in due
               PROVE  version'[v] < MaxVersion
    BY DEF Accept, DueBelow
  <2>1. v \in Units /\ version[v] < MaxVersion
    BY DEF RunInv, RunTypeOK, Books, DueBelow
  <2> QED
    BY <1>2, <2>1 DEF Accept, Mark
<1>4. /\ run' \in Runs /\ run'.reuse = run.reuse /\ run'.proof = run.proof
  BY DEF RunInv, RunTypeOK, Accept, Runs
<1>5. /\ Books' /\ version' \in Versions
      /\ disposition' \in [Units -> {"acknowledged", "pending", "held"}]
  <2>1. Mark({u}) /\ {u} \in SUBSET Units /\ \A v \in {u} : version[v] < MaxVersion
    BY <1>2 DEF Accept
  <2> QED
    BY <1>1, <1>3, <1>4, <2>1, Marks DEF RunInv, Accept
<1>6. RunTypeOK'
  BY <1>4, <1>5 DEF RunInv, RunTypeOK, Accept
<1>7. Whereabouts'
  <2>1. /\ child = "worker" /\ ~tick.drained /\ (tick.pc = "off" => ~tick.resumed)
        /\ tick.pc = "working" => FreshOutcome
    BY <1>1 DEF RunInv, Accept, Whereabouts, Resuming, Working, Closing, Ending
  <2>2. UNCHANGED <<phase, marker, dir, tick, child>>
    BY DEF Accept
  <2> QED
    BY <1>1, <1>4, <2>1, <2>2 DEF Whereabouts, MarkerReleased, Resuming, Working, Publishing,
         Closing, ChildKnows, Before, Intended, Ending, FreshOutcome
<1> QED
  BY <1>5, <1>6, <1>7 DEF RunInv

LEMMA WorkerExitsStep ==
    ASSUME RunInv, WorkerExits
    PROVE  RunInv'
<1>1. /\ phase = "worker" /\ run.proof # "exit" /\ run.reuse = None /\ ~dir.intent
      /\ dir.request = None /\ marker = None /\ child' = "none"
  BY DEF RunInv, WorkerExits, Whereabouts, ChildKnows, Books, PhaseInOrder
<1>2. CASE tick.pc = "working"
  <2>1. ~tick.drained /\ FreshOutcome
    BY <1>2 DEF RunInv, Whereabouts, Working, Closing, Ending
  <2>2. tick' \in Ticks /\ tick'.pc = "worked" /\ ~tick'.drained
    BY <1>2, <2>1, Moved DEF RunInv, WorkerExits, Places
  <2>3. run' \in Runs /\ run'.reuse = None /\ run'.proof = "exit"
    BY <1>1, <1>2 DEF RunInv, RunTypeOK, WorkerExits, Runs
  <2>4. RunTypeOK'
    BY <2>2, <2>3 DEF RunInv, RunTypeOK, WorkerExits, queue
  <2>5. Books'
    <3>1. (DueBelow /\ DestBehind /\ AcknowledgedIsPublished /\ Current)'
      BY <1>1, <2>3 DEF RunInv, Books, WorkerExits, queue, DueBelow, DestBehind,
           AcknowledgedIsPublished, Current
    <3>2. (SelectedIsPending /\ DebtIsTheBatchs /\ PhaseInOrder)'
      BY <1>1, <2>3 DEF RunInv, Books, WorkerExits, queue, SelectedIsPending, DebtIsTheBatchs,
           PhaseInOrder
    <3>3. (OutcomeInOrder /\ ResultInOrder /\ GenerationInOrder)'
      BY DEF RunInv, Books, WorkerExits, OutcomeInOrder, ResultInOrder, GenerationInOrder,
           Unpublished, Unstarted
    <3>4. (NoWriteInOrder /\ ReportsAreTrue)'
      BY DEF RunInv, Books, WorkerExits, NoWriteInOrder, Settling, Published, ReportsAreTrue,
           Shows
    <3> QED
      BY <3>1, <3>2, <3>3, <3>4 DEF Books
  <2>6. UNCHANGED <<phase, marker, dir>>
    BY DEF WorkerExits
  <2>7. Whereabouts'
    BY <1>1, <2>1, <2>2, <2>3, <2>6 DEF Whereabouts, MarkerReleased, Resuming, Working,
         Publishing, Closing, ChildKnows, Before, Intended, Ending, FreshOutcome
  <2> QED
    BY <2>4, <2>5, <2>7 DEF RunInv
<1>3. CASE tick.pc # "working" /\ UNCHANGED <<run, tick>>
  <2>1. RunTypeOK'
    BY <1>3 DEF RunInv, RunTypeOK, WorkerExits, queue
  <2>2. Books'
    BY <1>3, BooksKept DEF RunInv, WorkerExits
  <2>3. /\ tick.pc = "off" /\ ~tick.resumed /\ ~tick.drained
        /\ UNCHANGED <<phase, marker, dir>>
    BY <1>3 DEF RunInv, WorkerExits, Whereabouts, ChildKnows, Resuming, Closing, Ending
  <2>4. Whereabouts'
    BY <1>1, <1>3, <2>3 DEF Whereabouts, MarkerReleased, Resuming, Working,
         Publishing, Closing, ChildKnows, Before, Intended, Ending
  <2> QED
    BY <2>1, <2>2, <2>4 DEF RunInv
<1> QED
  BY <1>2, <1>3 DEF WorkerExits

\* An exception before the outcome keeps the invariant (locked_tick).
LEMMA Stumbles ==
    ASSUME RunInv, Raise, child' = "none", UNCHANGED <<queue, dest, authority, marker, dir>>,
           tick.pc \in {"working", "worker", "advance", "select", "project", "request",
                        "intent", "spawn", "publishing"}
    PROVE  RunInv'
<1>1. /\ ~tick.drained /\ ~dir.exit
      /\ dir.intent => marker = None
  BY DEF RunInv, Whereabouts, MarkerReleased, Working, Publishing, Closing, Before, Intended,
         Ending, Books, PhaseInOrder, GenerationInOrder, Unpublished
<1>2. /\ tick' \in Ticks /\ tick'.pc = "outcome" /\ ~tick'.drained
      /\ tick'.status \in {"unknown", "pending", "not_started"}
      /\ tick'.status = "unknown" => dir.intent
  BY <1>1, Raised DEF RunInv, FailureStatus
<1>3. RunTypeOK'
  BY <1>2 DEF RunInv, RunTypeOK, queue, authority
<1>4. Books'
  BY BooksKept DEF RunInv, authority
<1>5. Whereabouts'
  BY <1>1, <1>2 DEF Whereabouts, MarkerReleased, Resuming, Working, Publishing, Closing,
       ChildKnows, Before, Intended, Ending
<1> QED
  BY <1>3, <1>4, <1>5 DEF RunInv

LEMMA WorkerFailsStep ==
    ASSUME RunInv, WorkerFails
    PROVE  RunInv'
<1>1. CASE tick.pc = "working"
  BY <1>1, Stumbles DEF WorkerFails
<1>2. CASE tick.pc # "working" /\ UNCHANGED tick
  <2>1. /\ tick.pc = "off" /\ ~tick.resumed /\ ~tick.drained /\ marker = None
        /\ child' = "none" /\ UNCHANGED <<queue, dest, authority, marker, dir>>
    BY <1>2 DEF RunInv, WorkerFails, Whereabouts, ChildKnows, Resuming, Closing, Ending, Books,
         PhaseInOrder
  <2>2. RunTypeOK'
    BY <1>2, <2>1 DEF RunInv, RunTypeOK, queue, authority
  <2>3. Books'
    BY <2>1, BooksKept DEF RunInv, authority
  <2>4. Whereabouts'
    BY <1>2, <2>1 DEF Whereabouts, MarkerReleased, Resuming, Working,
         Publishing, Closing, ChildKnows, Before, Intended, Ending
  <2> QED
    BY <2>2, <2>3, <2>4 DEF RunInv
<1> QED
  BY <1>1, <1>2 DEF WorkerFails

LEMMA CloseWorkerStep ==
    ASSUME RunInv, CloseWorker
    PROVE  RunInv'
<1>1. /\ child = "none" /\ ~tick.drained /\ phase = "worker" /\ run.proof = "exit"
      /\ ~dir.intent /\ dir.request = None /\ FreshOutcome /\ run.reuse = None
  BY Alone DEF RunInv, CloseWorker, Whereabouts, Working, Closing, Ending, Books, PhaseInOrder
<1>2. ASSUME NEW status \in Statuses, Skips(status), UNCHANGED marker,
             tick' = [tick EXCEPT !.pc = "outcome", !.status = status]
      PROVE  RunInv'
  <2>1. /\ tick' \in Ticks /\ tick'.pc = "outcome" /\ ~tick'.drained
        /\ tick'.status \in {"proven_empty", "scoped_hold_noop"}
    BY <1>1, <1>2 DEF RunInv, RunTypeOK, Ticks, Places, Skips
  <2>2. RunTypeOK'
    BY <1>2, <2>1 DEF RunInv, RunTypeOK, CloseWorker, queue, authority
  <2>3. Books'
    BY <1>2, BooksKept DEF RunInv, CloseWorker, authority
  <2>4. UNCHANGED <<dir, child>>
    BY DEF CloseWorker
  <2>5. Whereabouts'
    BY <1>1, <2>1, <2>4 DEF Whereabouts, MarkerReleased, Resuming, Working,
         Publishing, Closing, ChildKnows, Before, Intended, Ending
  <2> QED
    BY <2>2, <2>3, <2>5 DEF RunInv
<1>3. CASE marker' = Sealed /\ Goto("advance")
  <2>1. tick' \in Ticks /\ tick'.pc = "advance" /\ ~tick'.drained
    BY <1>1, <1>3, Moved DEF RunInv, Places
  <2>2. /\ marker' \in Markers /\ marker' # None
        /\ marker'.selection = None /\ marker'.image = None
    BY <1>1, <1>3, NoneAssumption DEF Sealed, Markers
  <2>3. RunTypeOK'
    BY <2>1, <2>2 DEF RunInv, RunTypeOK, CloseWorker, queue, authority
  <2>4. Books'
    <3>1. (DueBelow /\ DestBehind /\ AcknowledgedIsPublished /\ Current)'
      BY <1>1, <2>2 DEF RunInv, Books, CloseWorker, queue, authority, DueBelow, DestBehind,
           AcknowledgedIsPublished, Current
    <3>2. (SelectedIsPending /\ DebtIsTheBatchs /\ PhaseInOrder)'
      BY <1>1, <2>2 DEF RunInv, Books, CloseWorker, queue, authority, SelectedIsPending,
           DebtIsTheBatchs, PhaseInOrder
    <3>3. (OutcomeInOrder /\ ResultInOrder /\ GenerationInOrder)'
      BY DEF RunInv, Books, CloseWorker, OutcomeInOrder, ResultInOrder, GenerationInOrder,
           Unpublished, Unstarted
    <3>4. (NoWriteInOrder /\ ReportsAreTrue)'
      BY DEF RunInv, Books, CloseWorker, NoWriteInOrder, Settling, Published, ReportsAreTrue,
           Shows
    <3> QED
      BY <3>1, <3>2, <3>3, <3>4 DEF Books
  <2>5. UNCHANGED <<phase, run, dir, child>>
    BY DEF CloseWorker, authority
  <2>6. Whereabouts'
    BY <1>1, <2>1, <2>2, <2>5 DEF Whereabouts, MarkerReleased, Resuming, Working,
         Publishing, Closing, ChildKnows, Before, Intended, Ending, Continues, FreshOutcome
  <2> QED
    BY <2>3, <2>4, <2>6 DEF RunInv
<1> QED
  BY <1>2, <1>3 DEF CloseWorker

\* What a tick before its intent counts on.
LEMMA BeforeIntent ==
    ASSUME RunInv, tick.pc \in Before
    PROVE  /\ child = "none" /\ ~tick.drained /\ ~dir.intent /\ marker # None
           /\ Continues /\ phase # "idle" /\ FreshOutcome /\ Unpublished
           /\ tick.pc # "intent" => dir.request = None
BY Alone DEF RunInv, Whereabouts, Working, Closing, Before, Ending, Continues, Books,
   GenerationInOrder

LEMMA AdvanceTimeStep ==
    ASSUME RunInv, advance_time
    PROVE  RunInv'
<1>1. /\ child = "none" /\ ~tick.drained /\ ~dir.intent /\ marker # None /\ Continues
      /\ phase # "idle" /\ FreshOutcome /\ dir.request = None
  BY BeforeIntent DEF advance_time, Before
<1>2. tick' \in Ticks /\ tick'.pc = "select" /\ ~tick'.drained
  BY <1>1, Moved DEF RunInv, advance_time, Places
<1>3. UNCHANGED <<dest, authority, marker, dir, child>>
  BY DEF advance_time
<1>4. Whereabouts'
  BY <1>1, <1>2, <1>3 DEF authority, Whereabouts, MarkerReleased, Resuming, Working,
       Publishing, Closing, ChildKnows, Before, Intended, Ending, Continues, FreshOutcome
<1>5. CASE UNCHANGED queue
  <2>1. RunTypeOK'
    BY <1>2, <1>3, <1>5 DEF RunInv, RunTypeOK, queue, authority
  <2>2. Books'
    BY <1>3, <1>5, BooksKept DEF RunInv, authority
  <2> QED
    BY <1>4, <2>1, <2>2 DEF RunInv
<1>6. CASE marker.selection = None /\ Mark(due) /\ due' = {} /\ UNCHANGED bare
  <2>1. run.reuse = None
    BY <1>1, <1>6 DEF RunInv, Books, PhaseInOrder
  <2>2. /\ DueBelow' /\ due \in SUBSET Units
        /\ \A u \in due : version[u] < MaxVersion
    BY <1>6 DEF RunInv, RunTypeOK, Books, DueBelow
  <2>3. UNCHANGED <<dest, phase, marker, dir>> /\ run'.reuse = run.reuse /\ run'.proof = run.proof
    BY <1>3 DEF authority
  <2>4. /\ Books' /\ version' \in Versions
        /\ disposition' \in [Units -> {"acknowledged", "pending", "held"}]
    BY <1>1, <1>6, <2>1, <2>2, <2>3, Marks DEF RunInv
  <2>5. RunTypeOK'
    BY <1>2, <1>3, <1>6, <2>4 DEF RunInv, RunTypeOK, authority
  <2> QED
    BY <1>4, <2>4, <2>5 DEF RunInv
<1> QED
  BY <1>5, <1>6 DEF advance_time

\* A marker that gains a selection of pending units, or their projection.
LEMMA MarkerGrows ==
    ASSUME RunInv, tick.pc \in Before, marker' \in Markers,
           marker'.selection # None =>
               /\ marker'.selection.at = version
               /\ marker'.selection.units \subseteq Pending,
           marker'.image # None => marker'.selection # None /\ marker'.image = version,
           marker.selection # None => marker'.selection = marker.selection,
           UNCHANGED <<queue, dest, authority, dir>>
    PROVE  Books'
<1>1. marker' # None /\ marker # None /\ phase # "idle" /\ ~(phase = "worker" /\ run.proof # "exit")
  BY BeforeIntent, NoneAssumption DEF Continues
<1>2. (DueBelow /\ DestBehind /\ AcknowledgedIsPublished /\ Current)'
  BY DEF RunInv, Books, queue, authority, DueBelow, DestBehind, AcknowledgedIsPublished,
       Current,
         AtVersion
<1>3. (SelectedIsPending /\ DebtIsTheBatchs)'
  BY DEF RunInv, Books, queue, authority, SelectedIsPending, Settling, Published, Pending,
         DebtIsTheBatchs
<1>4. PhaseInOrder'
  BY <1>1 DEF RunInv, Books, queue, authority, PhaseInOrder
<1>5. (OutcomeInOrder /\ ResultInOrder /\ GenerationInOrder)'
  BY DEF RunInv, Books, OutcomeInOrder, ResultInOrder, GenerationInOrder, Unpublished, Unstarted
<1>6. (NoWriteInOrder /\ ReportsAreTrue)'
  BY DEF RunInv, Books, NoWriteInOrder, Settling, Published, ReportsAreTrue, Shows
<1> QED
  BY <1>2, <1>3, <1>4, <1>5, <1>6 DEF Books

LEMMA SelectStep ==
    ASSUME RunInv, Select
    PROVE  RunInv'
<1>1. /\ child = "none" /\ ~tick.drained /\ ~dir.intent /\ marker # None /\ Continues
      /\ FreshOutcome /\ dir.request = None /\ tick.pc \in Before
      /\ UNCHANGED <<queue, dest, authority, dir, child>>
  BY BeforeIntent DEF Select, Before
<1>2. CASE Raise /\ UNCHANGED marker
  BY <1>1, <1>2, Stumbles DEF Select
<1>3. ASSUME Goto("project"), marker' \in Markers, marker'.selection # None, Books'
      PROVE  RunInv'
  <2>1. tick' \in Ticks /\ tick'.pc = "project" /\ ~tick'.drained
    BY <1>1, <1>3, Moved DEF RunInv, Places
  <2>2. RunTypeOK'
    BY <1>1, <1>3, <2>1 DEF RunInv, RunTypeOK, queue, authority
  <2>3. marker' # None
    BY <1>3, NoneAssumption
  <2>4. Whereabouts'
    BY <1>1, <1>3, <2>1, <2>3 DEF authority, Whereabouts, MarkerReleased, Resuming, Working,
         Publishing, Closing, ChildKnows, Before, Intended, Ending, Continues, FreshOutcome
  <2> QED
    BY <1>3, <2>2, <2>4 DEF RunInv
<1>4. CASE marker.selection # None /\ Goto("project") /\ UNCHANGED marker
  <2>1. Books' /\ marker' \in Markers
    BY <1>1, <1>4, BooksKept DEF RunInv, RunTypeOK, authority
  <2> QED
    BY <1>3, <1>4, <2>1
<1>5. CASE /\ marker.selection = None
           /\ \E s \in Selectable : marker' = [marker EXCEPT !.selection = s]
           /\ Goto("project")
  <2>1. PICK s \in Selectable : marker' = [marker EXCEPT !.selection = s]
    BY <1>5
  <2>2. s \in Selections /\ s # None /\ s.at = version /\ s.units \subseteq Pending
    BY <2>1, NoneAssumption DEF RunInv, RunTypeOK, Selectable, Selections, Pending
  <2>3. marker.image = None /\ marker \in Markers
    BY <1>1, <1>5 DEF RunInv, RunTypeOK, Books, Current
  <2>4. marker' \in Markers /\ marker'.selection = s /\ marker'.image = None
    BY <2>1, <2>2, <2>3 DEF Markers
  <2>5. Books'
    BY <1>1, <1>5, <2>2, <2>4, MarkerGrows
  <2> QED
    BY <1>3, <1>5, <2>2, <2>4, <2>5
<1> QED
  BY <1>2, <1>4, <1>5 DEF Select

LEMMA ProjectStep ==
    ASSUME RunInv, Project
    PROVE  RunInv'
<1>1. /\ child = "none" /\ ~tick.drained /\ ~dir.intent /\ marker # None /\ Continues
      /\ FreshOutcome /\ dir.request = None /\ tick.pc \in Before /\ tick.pc = "project"
      /\ UNCHANGED <<queue, dest, authority, dir, child>>
  BY BeforeIntent DEF Project, Before
<1>2. marker \in Markers /\ marker.selection # None
  BY <1>1 DEF RunInv, RunTypeOK, Whereabouts, Working
<1>3. /\ marker' \in Markers /\ marker'.selection = marker.selection
      /\ marker'.image # None /\ marker'.image = version
  BY <1>1, <1>2, NoneAssumption DEF RunInv, RunTypeOK, Markers, Project, Books, Current
<1>4. Books'
  <2>1. marker.selection.at = version /\ marker.selection.units \subseteq Pending
    BY <1>1, <1>2 DEF RunInv, Books, Current, SelectedIsPending
  <2> QED
    BY <1>1, <1>2, <1>3, <2>1, MarkerGrows
<1>5. tick' \in Ticks /\ tick'.pc = "request" /\ ~tick'.drained
  BY <1>1, Moved DEF RunInv, Project, Places
<1>6. RunTypeOK'
  BY <1>1, <1>3, <1>5 DEF RunInv, RunTypeOK, queue, authority
<1>7. Whereabouts'
  BY <1>1, <1>2, <1>3, <1>5, NoneAssumption DEF authority, Whereabouts, MarkerReleased,
       Resuming, Working, Publishing, Closing, ChildKnows, Before, Intended, Ending,
       Continues, FreshOutcome
<1> QED
  BY <1>4, <1>6, <1>7 DEF RunInv

LEMMA RequestStep ==
    ASSUME RunInv, Request
    PROVE  RunInv'
<1>1. /\ child = "none" /\ ~tick.drained /\ ~dir.intent /\ marker # None /\ Continues
      /\ FreshOutcome /\ Unpublished /\ dir.request = None /\ tick.pc = "request"
      /\ UNCHANGED <<queue, dest, authority, marker, child>>
  BY BeforeIntent DEF Request, Before
<1>2. marker \in Requests /\ AtVersion(marker) /\ marker.selection.units \subseteq Pending
  BY <1>1 DEF RunInv, RunTypeOK, Whereabouts, Working, Markers, Requests, Books, Current,
       SelectedIsPending, AtVersion
<1>3. /\ dir' \in Controls /\ dir'.request = marker
      /\ UNCHANGED <<dir.intent, dir.exit, dir.generation, dir.result, dir.outcome,
                     dir.resolution, dir.nowrite>>
  BY <1>2 DEF RunInv, RunTypeOK, Request, Controls
<1>4. Books'
  <2>1. (DueBelow /\ DestBehind /\ AcknowledgedIsPublished /\ Current)'
    BY <1>1, <1>2, <1>3 DEF RunInv, Books, queue, authority, DueBelow, DestBehind,
         AcknowledgedIsPublished, Current, AtVersion
  <2>2. (SelectedIsPending /\ DebtIsTheBatchs /\ PhaseInOrder)'
    BY <1>1, <1>2, <1>3 DEF RunInv, Books, queue, authority, SelectedIsPending, Settling,
         Published, Pending, DebtIsTheBatchs, PhaseInOrder, Continues
  <2>3. (OutcomeInOrder /\ ResultInOrder /\ GenerationInOrder)'
    BY <1>1, <1>3, FreshControls DEF RunInv, Books, OutcomeInOrder, ResultInOrder,
         GenerationInOrder, Unpublished, Unstarted
  <2>4. (NoWriteInOrder /\ ReportsAreTrue)'
    BY <1>1, <1>3, FreshControls DEF Unpublished, NoWriteInOrder, ReportsAreTrue
  <2> QED
    BY <2>1, <2>2, <2>3, <2>4 DEF Books
<1>5. tick' \in Ticks /\ tick'.pc = "intent" /\ ~tick'.drained
  BY <1>1, Moved DEF RunInv, Request, Places
<1>6. RunTypeOK'
  BY <1>1, <1>3, <1>5 DEF RunInv, RunTypeOK, queue, authority
<1>7. Whereabouts'
  BY <1>1, <1>3, <1>5 DEF authority, Whereabouts, MarkerReleased, Resuming, Working,
       Publishing, Closing, ChildKnows, Before, Intended, Ending, Continues, FreshOutcome
<1> QED
  BY <1>4, <1>6, <1>7 DEF RunInv

LEMMA IntendStep ==
    ASSUME RunInv, Intend
    PROVE  RunInv'
<1>1. /\ child = "none" /\ ~tick.drained /\ ~dir.intent /\ Continues /\ FreshOutcome
      /\ Unpublished /\ dir.request # None
      /\ UNCHANGED <<queue, dest, authority, marker, child>>
  BY BeforeIntent DEF RunInv, Whereabouts, Working, Intend, Before
<1>2. /\ dir' \in Controls /\ dir'.intent = TRUE
      /\ UNCHANGED <<dir.request, dir.exit, dir.generation, dir.result, dir.outcome,
                     dir.resolution, dir.nowrite>>
  BY DEF RunInv, RunTypeOK, Intend, Controls
<1>3. Books'
  <2>1. (DueBelow /\ DestBehind /\ AcknowledgedIsPublished /\ Current)'
    BY <1>1, <1>2 DEF RunInv, Books, queue, authority, DueBelow, DestBehind,
         AcknowledgedIsPublished, Current, AtVersion
  <2>2. (SelectedIsPending /\ DebtIsTheBatchs /\ PhaseInOrder)'
    BY <1>1, <1>2 DEF RunInv, Books, queue, authority, SelectedIsPending, Settling,
         Published, Pending, DebtIsTheBatchs, PhaseInOrder, Continues
  <2>3. (OutcomeInOrder /\ ResultInOrder /\ GenerationInOrder)'
    BY <1>1, <1>2, FreshControls DEF RunInv, Books, OutcomeInOrder, ResultInOrder,
         GenerationInOrder, Unpublished, Unstarted
  <2>4. (NoWriteInOrder /\ ReportsAreTrue)'
    BY <1>1, <1>2, FreshControls DEF Unpublished, NoWriteInOrder, ReportsAreTrue
  <2> QED
    BY <2>1, <2>2, <2>3, <2>4 DEF Books
<1>4. tick' \in Ticks /\ tick'.pc = "release" /\ ~tick'.drained
  BY <1>1, Moved DEF RunInv, Intend, Places
<1>5. RunTypeOK'
  BY <1>1, <1>2, <1>4 DEF RunInv, RunTypeOK, queue, authority
<1>6. Whereabouts'
  BY <1>1, <1>2, <1>4 DEF authority, Whereabouts, MarkerReleased, Resuming, Working,
       Publishing, Closing, ChildKnows, Before, Intended, Ending, Continues, FreshOutcome,
       Unpublished
<1> QED
  BY <1>3, <1>5, <1>6 DEF RunInv
-----------------------------------------------------------------------------
(***************************************************************************)
(* From the intent to the outcome.                                         *)
(***************************************************************************)
LEMMA ReleaseStep ==
    ASSUME RunInv, release_after_intent
    PROVE  RunInv'
<1>1. /\ child = "none" /\ ~tick.drained /\ dir.intent /\ Continues /\ FreshOutcome
      /\ Unpublished /\ marker' = None /\ UNCHANGED <<queue, dest, authority, dir, child>>
  BY Alone DEF RunInv, release_after_intent, Whereabouts, Publishing, Closing, Intended, Ending
<1>2. tick' \in Ticks /\ tick'.pc = "publisher" /\ ~tick'.drained
  BY <1>1, Moved DEF RunInv, release_after_intent, Places
<1>3. RunTypeOK'
  BY <1>1, <1>2 DEF RunInv, RunTypeOK, queue, authority
<1>4. Books'
  <2>1. /\ Books /\ UNCHANGED <<queue, dest, run, dir>> /\ marker' \in {marker, None}
        /\ phase' # phase => phase' = "idle" /\ Pending = {}
    BY <1>1 DEF RunInv, authority
  <2> QED
    BY <2>1, BooksClosed
<1>5. Whereabouts'
  BY <1>1, <1>2 DEF authority, Whereabouts, MarkerReleased, Resuming, Working,
       Publishing, Closing, ChildKnows, Before, Intended, Ending, Continues, FreshOutcome,
       Unpublished
<1> QED
  BY <1>3, <1>4, <1>5 DEF RunInv

LEMMA EnterPublisherStep ==
    ASSUME RunInv, EnterPublisher
    PROVE  RunInv'
<1>1. /\ child = "none" /\ ~tick.drained /\ dir.intent /\ Continues /\ FreshOutcome
      /\ Unpublished /\ marker = None
      /\ phase' = "publisher" /\ UNCHANGED <<queue, dest, run, marker, dir, child>>
  BY Alone DEF RunInv, EnterPublisher, Whereabouts, Publishing, Closing, Intended, Ending
<1>2. tick' \in Ticks /\ tick'.pc = "allow" /\ ~tick'.drained
  BY <1>1, Moved DEF RunInv, EnterPublisher, Places
<1>3. RunTypeOK'
  BY <1>1, <1>2 DEF RunInv, RunTypeOK, queue
<1>4. Books'
  <2>1. (DueBelow /\ DestBehind /\ AcknowledgedIsPublished /\ Current)'
    BY <1>1 DEF RunInv, Books, queue, DueBelow, DestBehind, AcknowledgedIsPublished, Current,
         AtVersion
  <2>2. (SelectedIsPending /\ DebtIsTheBatchs /\ PhaseInOrder)'
    BY <1>1 DEF RunInv, Books, queue, SelectedIsPending, Settling, Published, Pending,
         DebtIsTheBatchs, PhaseInOrder
  <2>3. (OutcomeInOrder /\ ResultInOrder /\ GenerationInOrder)'
    BY <1>1 DEF RunInv, Books, OutcomeInOrder, ResultInOrder, GenerationInOrder, Unpublished,
         Unstarted
  <2>4. (NoWriteInOrder /\ ReportsAreTrue)'
    BY <1>1 DEF RunInv, Books, NoWriteInOrder, Settling, Published, ReportsAreTrue, Shows
  <2> QED
    BY <2>1, <2>2, <2>3, <2>4 DEF Books
<1>5. Whereabouts'
  BY <1>1, <1>2 DEF Whereabouts, MarkerReleased, Resuming, Working,
       Publishing, Closing, ChildKnows, Before, Intended, Ending, Continues, FreshOutcome,
       Unpublished
<1> QED
  BY <1>3, <1>4, <1>5 DEF RunInv

LEMMA AllowRecoveryStep ==
    ASSUME RunInv, AllowRecovery
    PROVE  RunInv'
<1>1. /\ child = "none" /\ ~tick.drained /\ dir.intent /\ Continues /\ FreshOutcome
      /\ Unpublished /\ marker = None /\ phase = "publisher"
      /\ UNCHANGED <<queue, dest, authority, marker, child>>
  BY Alone DEF RunInv, AllowRecovery, Whereabouts, Publishing, Closing, Intended, Ending
<1>2. tick' \in Ticks /\ tick'.pc = "spawn" /\ ~tick'.drained
  BY <1>1, Moved DEF RunInv, AllowRecovery, Places
<1>3. /\ dir' \in Controls
      /\ UNCHANGED <<dir.request, dir.intent, dir.exit, dir.generation, dir.result,
                     dir.outcome, dir.resolution, dir.nowrite>>
  BY DEF RunInv, RunTypeOK, AllowRecovery, Controls
<1>4. RunTypeOK'
  BY <1>1, <1>2, <1>3 DEF RunInv, RunTypeOK, queue, authority
<1>5. Books'
  BY <1>1, <1>3, BooksKept DEF RunInv, authority
<1>6. Whereabouts'
  BY <1>1, <1>2, <1>3 DEF authority, Whereabouts, MarkerReleased, Resuming, Working,
       Publishing, Closing, ChildKnows, Before, Intended, Ending, Continues, FreshOutcome,
       Unpublished
<1> QED
  BY <1>4, <1>5, <1>6 DEF RunInv

LEMMA SpawnPublisherStep ==
    ASSUME RunInv, SpawnPublisher
    PROVE  RunInv'
<1>1. /\ ~tick.drained /\ dir.intent /\ Continues /\ FreshOutcome
      /\ Unpublished /\ marker = None /\ phase = "publisher" /\ child' = "publisher"
      /\ UNCHANGED <<queue, dest, authority, marker, dir>>
  BY DEF RunInv, SpawnPublisher, Whereabouts, Publishing, Closing, Intended, Ending
<1>2. tick' \in Ticks /\ tick'.pc = "publishing" /\ ~tick'.drained
  BY <1>1, Moved DEF RunInv, SpawnPublisher, Places
<1>3. RunTypeOK'
  BY <1>1, <1>2 DEF RunInv, RunTypeOK, queue, authority
<1>4. Books'
  BY <1>1, BooksKept DEF RunInv, authority
<1>5. Whereabouts'
  BY <1>1, <1>2 DEF authority, Whereabouts, MarkerReleased, Resuming, Working,
       Publishing, Closing, ChildKnows, Before, Intended, Ending, Continues, FreshOutcome,
       Unpublished
<1> QED
  BY <1>3, <1>4, <1>5 DEF RunInv

LEMMA PublisherExitedStep ==
    ASSUME RunInv, PublisherExited
    PROVE  RunInv'
<1>1. /\ ~tick.drained /\ dir.intent /\ ~dir.exit /\ FreshOutcome /\ dir.resolution = None
      /\ ~dir.nowrite /\ marker = None /\ phase = "publisher" /\ child = "none"
      /\ tick.pc = "publishing"
      /\ UNCHANGED <<queue, dest, authority, marker, child>>
  BY DEF RunInv, PublisherExited, Whereabouts, Publishing, Closing, Intended, Ending
<1>2. CASE Raise /\ UNCHANGED dir
  BY <1>1, <1>2, Stumbles
<1>3. CASE /\ dir.result # None
           /\ dir' = [dir EXCEPT !.exit = TRUE, !.allowed = FALSE]
           /\ tick' = [tick EXCEPT !.status = dir.result.status,
                           !.pc = IF dir.result.status = "published" THEN "acknowledge"
                                  ELSE "outcome"]
  <2>1. /\ dir' \in Controls /\ dir'.exit = TRUE
        /\ UNCHANGED <<dir.request, dir.intent, dir.generation, dir.result, dir.outcome,
                       dir.resolution, dir.nowrite>>
    BY <1>3 DEF RunInv, RunTypeOK, Controls
  <2>2. /\ tick' \in Ticks /\ ~tick'.drained /\ tick'.status = dir.result.status
        /\ dir.result.status \in {"published", "deferred", "incomplete"}
        /\ tick'.pc = IF dir.result.status = "published" THEN "acknowledge" ELSE "outcome"
    BY <1>1, <1>3 DEF RunInv, RunTypeOK, Ticks, Places, Statuses, Controls, Results
  <2>3. RunTypeOK'
    BY <1>1, <2>1, <2>2 DEF RunInv, RunTypeOK, queue, authority
  <2>4. Books'
    <3>1. (DueBelow /\ DestBehind /\ AcknowledgedIsPublished /\ Current)'
      BY <1>1, <2>1 DEF RunInv, Books, queue, authority, DueBelow, DestBehind,
           AcknowledgedIsPublished, Current, AtVersion
    <3>2. (SelectedIsPending /\ DebtIsTheBatchs /\ PhaseInOrder)'
      BY <1>1, <1>3, <2>1 DEF RunInv, Books, queue, authority, SelectedIsPending, Settling,
           Published, Pending, DebtIsTheBatchs, PhaseInOrder
    <3>3. (OutcomeInOrder /\ ResultInOrder /\ GenerationInOrder)'
      BY <1>1, <1>3, <2>1 DEF RunInv, Books, OutcomeInOrder, ResultInOrder, GenerationInOrder,
           Unstarted, FreshOutcome
    <3>4. (NoWriteInOrder /\ ReportsAreTrue)'
      BY <1>1, <2>1 DEF RunInv, Books, NoWriteInOrder, ReportsAreTrue, Shows
    <3> QED
      BY <3>1, <3>2, <3>3, <3>4 DEF Books
  <2>5. Whereabouts'
    BY <1>1, <1>3, <2>1, <2>2 DEF authority, Whereabouts, MarkerReleased, Resuming, Working,
         Publishing, Closing, ChildKnows, Before, Intended, Ending
  <2> QED
    BY <2>3, <2>4, <2>5 DEF RunInv
<1> QED
  BY <1>2, <1>3 DEF PublisherExited

LEMMA AcknowledgeResultStep ==
    ASSUME RunInv, AcknowledgeResult
    PROVE  RunInv'
<1>1. /\ dir.intent /\ dir.exit /\ marker = None /\ dir.result # None /\ dir.resolution = None
      /\ dir.result.status = "published" /\ tick.status = "published" /\ phase = "publisher"
      /\ child = "none" /\ Settling
      /\ UNCHANGED <<dest, authority, marker, dir, child>>
  BY Alone DEF RunInv, AcknowledgeResult, Whereabouts, Publishing, Settling
<1>2. /\ Shows(dir.result)
      /\ dir.generation.state = "done" =>
           /\ dir.result.processed = dir.generation.processed
           /\ dir.result.rejected = dir.generation.rejected
  BY <1>1, FreshControls DEF RunInv, Books, ReportsAreTrue, ResultInOrder
<1>3. Acknowledge(dir.request.selection, dir.result.processed, dir.result.rejected)
  BY DEF AcknowledgeResult
<1>4. /\ Books' /\ NoDebt'
      /\ disposition' \in [Units -> {"acknowledged", "pending", "held"}]
  BY <1>1, <1>2, <1>3, Acknowledges DEF RunInv, authority
<1>5. /\ tick' \in Ticks /\ tick'.pc = "outcome" /\ tick'.status = "published"
      /\ tick'.drained => Pending' = {}
  BY <1>1, <1>3 DEF RunInv, RunTypeOK, AcknowledgeResult, Ticks, Places, Drained, Pending,
       Acknowledge
<1>6. RunTypeOK'
  BY <1>1, <1>3, <1>4, <1>5 DEF RunInv, RunTypeOK, Acknowledge, authority
<1>7. Whereabouts'
  BY <1>1, <1>4, <1>5 DEF authority, Whereabouts, MarkerReleased, Resuming, Working,
       Publishing, Closing, ChildKnows, Before, Intended, Ending
<1> QED
  BY <1>4, <1>6, <1>7 DEF RunInv

LEMMA FailsStep ==
    ASSUME RunInv, Fails
    PROVE  RunInv'
BY Stumbles DEF Fails

\* What a tick about to write its outcome counts on.
LEMMA AtTheEnd ==
    ASSUME RunInv, tick.pc \in Ending
    PROVE  /\ child = "none" /\ ~(tick.pc \in Before \cup Intended \cup {"publishing"})
           /\ tick.status \in {"published", "deferred", "incomplete"} =>
                /\ dir.intent /\ dir.exit /\ marker = None
                /\ dir.result # None /\ dir.result.status = tick.status
           /\ tick.status = "unknown" => dir.intent /\ ~dir.exit
           /\ tick.status \in {"proven_empty", "scoped_hold_noop"} => ~dir.intent
           /\ tick.status = "published" => NoDebt
           /\ tick.drained => Pending = {}
           /\ dir.intent => marker = None
BY Alone DEF RunInv, Whereabouts, MarkerReleased, Closing, Before, Intended, Ending

LEMMA WriteOutcomeStep ==
    ASSUME RunInv, WriteOutcome
    PROVE  RunInv'
<1>1. /\ tick.pc \in Ending
      /\ UNCHANGED <<queue, dest, authority, marker, child>>
  BY DEF WriteOutcome, Ending
<1>2. CASE Refuse /\ UNCHANGED dir
  <2>1. RunTypeOK'
    BY <1>1, <1>2, Stopped DEF RunInv, RunTypeOK, queue, authority
  <2>2. Books'
    BY <1>1, <1>2, BooksKept DEF RunInv, authority
  <2>3. MarkerReleased'
    BY <1>1, <1>2, AtTheEnd DEF MarkerReleased
  <2>4. child' = "none"
    BY <1>1, AtTheEnd
  <2> QED
    BY <1>2, <2>1, <2>2, <2>3, <2>4, Rests DEF RunInv
<1>3. CASE /\ dir.outcome = None /\ Goto("save")
           /\ dir' = [dir EXCEPT !.outcome =
                  [Outcome(tick.status) EXCEPT !.allowed = @ \/ tick.status = "incomplete"]]
  <2> DEFINE written == [Outcome(tick.status) EXCEPT !.allowed = @ \/ tick.status = "incomplete"]
  <2>1. written \in Outcomes /\ written.status = tick.status
    BY DEF RunInv, RunTypeOK, Ticks, Controls, Outcome, Outcomes
  <2> HIDE DEF written
  <2>2. /\ dir' \in Controls /\ dir'.outcome = written
        /\ UNCHANGED <<dir.request, dir.intent, dir.exit, dir.generation, dir.result,
                       dir.resolution, dir.nowrite>>
    BY <1>3, <2>1 DEF written, RunInv, RunTypeOK, Controls
  <2>3. /\ tick' \in Ticks /\ tick'.pc = "save" /\ tick'.status = tick.status
        /\ tick'.drained = tick.drained
    BY <1>3, Moved DEF RunInv, Places
  <2>4. RunTypeOK'
    BY <1>1, <2>2, <2>3 DEF RunInv, RunTypeOK, queue, authority
  <2>5. OutcomeInOrder'
    BY <1>1, <2>1, <2>2, AtTheEnd DEF OutcomeInOrder
  <2>6. Books'
    BY <1>1, <1>3, <2>1, <2>2, <2>5, OutcomeWritten DEF RunInv, authority
  <2>7. Whereabouts'
    BY <1>1, <2>2, <2>3, AtTheEnd DEF queue, authority, Whereabouts, MarkerReleased, Resuming,
         Working, Publishing, Closing, ChildKnows, Before, Intended, Ending, NoDebt, Pending
  <2> QED
    BY <2>4, <2>6, <2>7 DEF RunInv
<1> QED
  BY <1>2, <1>3 DEF WriteOutcome

LEMMA SaveStateStep ==
    ASSUME RunInv, SaveState
    PROVE  RunInv'
<1>1. /\ tick.pc \in Ending
      /\ UNCHANGED <<queue, dest, authority, marker, child>>
  BY DEF SaveState, Ending
<1>2. /\ dir' \in Controls
      /\ UNCHANGED <<dir.request, dir.intent, dir.exit, dir.generation, dir.result,
                     dir.outcome, dir.resolution, dir.nowrite>>
  BY DEF RunInv, RunTypeOK, SaveState, Controls
<1>3. /\ tick' \in Ticks /\ tick'.pc = "close" /\ tick'.status = tick.status
      /\ tick'.drained = tick.drained
  BY Moved DEF RunInv, SaveState, Places
<1>4. RunTypeOK'
  BY <1>1, <1>2, <1>3 DEF RunInv, RunTypeOK, queue, authority
<1>5. Books'
  BY <1>1, <1>2, BooksKept DEF RunInv, authority
<1>6. Whereabouts'
  BY <1>1, <1>2, <1>3, AtTheEnd DEF queue, authority, Whereabouts, MarkerReleased, Resuming,
       Working, Publishing, Closing, ChildKnows, Before, Intended, Ending, NoDebt, Pending
<1> QED
  BY <1>4, <1>5, <1>6 DEF RunInv

LEMMA CloseRunStep ==
    ASSUME RunInv, CloseRun
    PROVE  RunInv'
<1>1. /\ tick.pc \in Ending /\ child = "none" /\ Refuse
      /\ UNCHANGED <<queue, dest, marker, child>>
  BY AtTheEnd DEF CloseRun, Ending
<1>2. CASE tick.status = "published" /\ advance_publication(None)
  <2>1. /\ NoDebt /\ run' \in Runs /\ run'.reuse = None /\ phase' = "accepted"
        /\ dir' = NoControls
    BY <1>1, <1>2, AtTheEnd DEF RunInv, RunTypeOK, Runs, advance_publication
  <2>2. RunTypeOK'
    BY <1>1, <2>1, FreshControls, Stopped DEF RunInv, RunTypeOK, queue
  <2>3. Books'
    BY <1>1, <2>1, NewBatch DEF RunInv
  <2>4. MarkerReleased'
    BY <2>1, FreshControls DEF MarkerReleased
  <2> QED
    BY <1>1, <2>2, <2>3, <2>4, Rests DEF RunInv
<1>3. CASE finish_publication /\ Pending = {}
  <2>1. RunTypeOK'
    BY <1>1, <1>3, Stopped DEF RunInv, RunTypeOK, queue, finish_publication
  <2>2. Books'
    <3>1. UNCHANGED <<queue, dest, run, dir>> /\ marker' = marker /\ phase' = "idle"
      BY <1>1, <1>3 DEF finish_publication
    <3> QED
      BY <1>3, <3>1, BooksClosed DEF RunInv
  <2>3. MarkerReleased'
    BY <1>1, <1>3, AtTheEnd DEF finish_publication, MarkerReleased
  <2> QED
    BY <1>1, <2>1, <2>2, <2>3, Rests DEF RunInv
<1>4. CASE UNCHANGED <<authority, dir>>
  <2>1. RunTypeOK'
    BY <1>1, <1>4, Stopped DEF RunInv, RunTypeOK, queue, authority
  <2>2. Books'
    BY <1>1, <1>4, BooksKept DEF RunInv, authority
  <2>3. MarkerReleased'
    BY <1>1, <1>4, AtTheEnd DEF MarkerReleased
  <2> QED
    BY <1>1, <2>1, <2>2, <2>3, Rests DEF RunInv
<1> QED
  BY <1>1, <1>2, <1>3, <1>4, AtTheEnd DEF CloseRun, Skips, ProvenEmpty, ScopedNoop, Backlog
-----------------------------------------------------------------------------
(***************************************************************************)
(* The publisher, recovery, the kill and the clock.                        *)
(***************************************************************************)
\* What a publisher, or its rerun, counts on.
LEMMA AtPublisher ==
    ASSUME RunInv, child \in {"publisher", "recovery"}
    PROVE  /\ marker = None /\ dir.intent /\ dir.request # None /\ ~dir.nowrite /\ ~tick.drained
           /\ child = "publisher" => /\ tick.pc \in {"off", "publishing"} /\ phase = "publisher"
                                     /\ dir.result = None /\ dir.resolution = None /\ ~dir.exit
           /\ child = "recovery" => /\ tick.pc \in {"off", "recovering"} /\ Unresolved
                                    /\ ~Unstarted
           /\ tick.pc = "off" => ~tick.resumed
<1>1. CASE child = "publisher"
  BY <1>1 DEF RunInv, RunTypeOK, Whereabouts, ChildKnows, Resuming, Closing, Ending
<1>2. CASE child = "recovery"
  <2>1. Unresolved /\ marker = None /\ tick.pc \in {"off", "recovering"} /\ ~Unstarted
    BY <1>2 DEF RunInv, Whereabouts, ChildKnows
  <2>2. dir.intent /\ ~dir.nowrite
    BY <2>1 DEF RunInv, Books, OutcomeInOrder, Unresolved
  <2> QED
    BY <1>2, <2>1, <2>2 DEF RunInv, RunTypeOK, Whereabouts, Resuming, Closing, Ending
<1> QED
  BY <1>1, <1>2

\* A publisher's own step moves no dispatcher.
LEMMA ChildMoves ==
    ASSUME RunInv, child \in {"publisher", "recovery"}, Books', dir' \in Controls,
           child' \in {child, "none"},
           dir'.request = dir.request, dir'.intent = dir.intent, dir'.exit = dir.exit,
           dir'.outcome = dir.outcome, dir'.resolution = dir.resolution,
           dir'.nowrite = dir.nowrite,
           dir'.result # dir.result => child' = "none" /\ child = "publisher",
           ~Unstarted => dir'.generation.state # "none",
           version' \in Versions, dest' \in Versions, UNCHANGED <<queue, authority, marker, tick>>
    PROVE  RunInv'
<1>1. RunTypeOK'
  BY AtPublisher DEF RunInv, RunTypeOK, queue, authority
<1>2. CASE child = "publisher"
  BY <1>1, <1>2, AtPublisher DEF RunInv, authority, Whereabouts, MarkerReleased, Resuming,
       Working,
     Publishing, Closing, ChildKnows, Before, Intended, Ending, Continues, FreshOutcome
<1>3. CASE child = "recovery"
  BY <1>1, <1>3, AtPublisher DEF RunInv, authority, Whereabouts, MarkerReleased, Resuming,
       Working,
     Publishing, Closing, ChildKnows, Before, Intended, Ending, Unresolved, Unstarted
<1> QED
  BY <1>2, <1>3

\* A result that says what was done (invoke).
LEMMA Reports ==
    ASSUME RunInv, child = "publisher", NEW result \in Results,
           dir' = [dir EXCEPT !.result = result],
           result.status = "published" => Shows(result),
           result.status = "published" =>
               \/ dir.generation = NoGeneration
               \/ /\ dir.generation.state = "done"
                  /\ dir.generation.processed = result.processed
                  /\ dir.generation.rejected = result.rejected,
           result.status = "deferred" => dir.generation = NoGeneration,
           child' = "none", UNCHANGED <<queue, dest, authority, marker, tick>>
    PROVE  RunInv'
<1>1. /\ dir' \in Controls /\ dir'.result = result /\ result # None
      /\ UNCHANGED <<dir.request, dir.intent, dir.exit, dir.generation, dir.outcome,
                     dir.resolution, dir.nowrite>>
  BY NoneAssumption DEF RunInv, RunTypeOK, Controls
<1>2. /\ dir.result = None /\ dir.resolution = None /\ ~dir.exit /\ dir.intent /\ ~dir.nowrite
      /\ marker = None
  BY AtPublisher
<1>3. ~Published
  BY <1>2 DEF RunInv, Books, OutcomeInOrder, Published
<1>4. (DueBelow /\ DestBehind /\ AcknowledgedIsPublished /\ Current)'
  BY <1>1 DEF RunInv, Books, queue, authority, DueBelow, DestBehind, AcknowledgedIsPublished,
       Current, AtVersion
<1>5. (SelectedIsPending /\ DebtIsTheBatchs /\ PhaseInOrder)'
  BY <1>1, <1>2, <1>3 DEF RunInv, Books, queue, authority, SelectedIsPending, Settling,
       Published, Pending, DebtIsTheBatchs, PhaseInOrder
<1>6. (OutcomeInOrder /\ ResultInOrder /\ GenerationInOrder)'
  BY <1>1, <1>2 DEF RunInv, Books, OutcomeInOrder, ResultInOrder, GenerationInOrder, Unstarted
<1>7. (NoWriteInOrder /\ ReportsAreTrue)'
  BY <1>1, <1>2 DEF RunInv, Books, NoWriteInOrder, ReportsAreTrue, Shows
<1>8. Books'
  BY <1>4, <1>5, <1>6, <1>7 DEF Books
<1>9. version' \in Versions /\ dest' \in Versions
  BY DEF RunInv, RunTypeOK, queue
<1> QED
  BY <1>1, <1>8, <1>9, ChildMoves DEF Unstarted

LEMMA PublishNothingStep ==
    ASSUME RunInv, PublishNothing
    PROVE  RunInv'
<1>1. PICK rejected \in SUBSET Planned :
          Missing \subseteq rejected /\ Result("published", Planned, rejected)
  BY DEF PublishNothing
<1> DEFINE result == [status |-> "published", processed |-> Planned, rejected |-> rejected]
<1>2. Planned \in SUBSET Units
  BY AtPublisher DEF RunInv, RunTypeOK, Controls, Requests, Selections, PublishNothing, Planned,
       Selected
<1>3. result \in Results /\ dir' = [dir EXCEPT !.result = result]
  BY <1>1, <1>2 DEF Results, Result
<1>4. Shows(result)
  BY <1>1 DEF Shows, Missing
<1>5. dir.generation = NoGeneration
  BY DEF RunInv, Books, GenerationInOrder, PublishNothing
<1>6. result.status = "published"
  OBVIOUS
<1>7. child = "publisher" /\ child' = "none" /\ UNCHANGED <<queue, dest, authority, marker, tick>>
  BY DEF PublishNothing
<1> HIDE DEF result
<1> QED
  BY <1>3, <1>4, <1>5, <1>6, <1>7, Reports

LEMMA OpenGenerationStep ==
    ASSUME RunInv, OpenGeneration
    PROVE  RunInv'
<1>0. PICK processed \in SUBSET Planned : \E rejected \in SUBSET processed :
          dir' = [dir EXCEPT !.generation = [state |-> "open",
                         processed |-> processed, rejected |-> rejected]]
  BY DEF OpenGeneration
<1>1. PICK rejected \in SUBSET processed :
          dir' = [dir EXCEPT !.generation = [state |-> "open",
                         processed |-> processed, rejected |-> rejected]]
  BY <1>0
<1> DEFINE opened == [state |-> "open", processed |-> processed, rejected |-> rejected]
<1>2. Planned \in SUBSET Units /\ Planned \subseteq dir.request.selection.units
  BY AtPublisher DEF RunInv, RunTypeOK, Controls, Requests, Selections, OpenGeneration, Planned,
       Selected
<1>3. opened \in Generations /\ opened.state = "open" /\ opened.processed \subseteq Planned
  BY <1>2 DEF Generations
<1> HIDE DEF opened
<1>4. /\ dir' \in Controls /\ dir'.generation = opened
      /\ UNCHANGED <<dir.request, dir.intent, dir.exit, dir.result, dir.outcome,
                     dir.resolution, dir.nowrite>>
  BY <1>1, <1>3 DEF opened, RunInv, RunTypeOK, Controls
<1>5. /\ dir.result = None /\ dir.resolution = None /\ ~dir.exit /\ dir.intent /\ ~dir.nowrite
      /\ marker = None /\ child = "publisher" /\ Unstarted
      /\ UNCHANGED <<queue, dest, authority, marker, tick, child>>
  BY AtPublisher DEF OpenGeneration
<1>6. (DueBelow /\ DestBehind /\ AcknowledgedIsPublished /\ Current)'
  BY <1>4, <1>5 DEF RunInv, Books, queue, authority, DueBelow, DestBehind,
       AcknowledgedIsPublished, Current, AtVersion
<1>7. (SelectedIsPending /\ DebtIsTheBatchs /\ PhaseInOrder)'
  BY <1>4, <1>5 DEF RunInv, Books, queue, authority, SelectedIsPending, Settling, Published,
       Pending, DebtIsTheBatchs, PhaseInOrder, Unstarted
<1>8. (OutcomeInOrder /\ ResultInOrder /\ GenerationInOrder)'
  BY <1>2, <1>3, <1>4, <1>5 DEF RunInv, Books, OutcomeInOrder, ResultInOrder, GenerationInOrder,
       Unstarted
<1>9. (NoWriteInOrder /\ ReportsAreTrue)'
  BY <1>3, <1>4, <1>5 DEF NoWriteInOrder, ReportsAreTrue
<1>10. Books' /\ version' \in Versions /\ dest' \in Versions
  BY <1>5, <1>6, <1>7, <1>8, <1>9 DEF Books, RunInv, RunTypeOK, queue
<1> QED
  BY <1>4, <1>5, <1>10, ChildMoves DEF Unstarted

LEMMA FinishGenerationStep ==
    ASSUME RunInv, FinishGeneration
    PROVE  RunInv'
<1>1. /\ dir \in Controls /\ dir.generation.state = "open" /\ dir.request # None
      /\ dir.request \in Requests /\ AtVersion(dir.request) /\ dir.intent /\ ~dir.nowrite
      /\ child \in {"publisher", "recovery"}
      /\ UNCHANGED <<queue, authority, marker, tick, child>>
  BY AtPublisher DEF RunInv, RunTypeOK, Controls, FinishGeneration, Books, Current
<1>2. /\ dir' \in Controls /\ dir'.generation.state = "done"
      /\ dir'.generation.processed = dir.generation.processed
      /\ dir'.generation.rejected = dir.generation.rejected
      /\ UNCHANGED <<dir.request, dir.intent, dir.exit, dir.result, dir.outcome,
                     dir.resolution, dir.nowrite>>
  BY <1>1 DEF FinishGeneration, Controls, Generations
<1> DEFINE shown == dir.generation.processed \ dir.generation.rejected
<1>3. /\ dest' \in Versions
      /\ \A u \in shown \cap Units : dest'[u] = version[u] /\ dest'[u] = dir.request.image[u]
      /\ \A u \in Units \ shown : dest'[u] = dest[u]
  BY <1>1 DEF RunInv, RunTypeOK, FinishGeneration, Versions, Requests, AtVersion
<1>4. dir.generation.processed \subseteq Units
  BY <1>1 DEF Controls, Generations
<1>5. /\ dir.resolution = None
      /\ dir.result # None => dir.result.status = "incomplete"
      /\ dir.generation # NoGeneration
  BY <1>1, FreshControls DEF RunInv, Books, ResultInOrder, Controls, Results
<1>6. \A u \in Units : disposition[u] = "pending" => dest[u] # version[u]
  BY <1>1 DEF RunInv, Books, DebtIsTheBatchs
<1>7. (DueBelow /\ DestBehind /\ AcknowledgedIsPublished /\ Current)'
  <2>1. DestBehind'
    BY <1>1, <1>3, PublicationAssumption DEF RunInv, RunTypeOK, Books, queue, DestBehind, Versions
  <2>2. AcknowledgedIsPublished'
    BY <1>1, <1>3 DEF RunInv, Books, queue, AcknowledgedIsPublished
  <2>3. (DueBelow /\ Current)'
    BY <1>1, <1>2 DEF RunInv, Books, queue, authority, DueBelow, Current, AtVersion
  <2> QED
    BY <2>1, <2>2, <2>3
<1>8. (SelectedIsPending /\ PhaseInOrder)'
  BY <1>1, <1>2 DEF RunInv, Books, queue, authority, SelectedIsPending, Settling, Published,
       Pending, PhaseInOrder
<1>9. DebtIsTheBatchs'
  <2> SUFFICES ASSUME NEW u \in Units, disposition[u] = "pending", dest'[u] = version[u]
               PROVE  u \in shown
    BY <1>1, <1>2 DEF DebtIsTheBatchs, queue
  <2> QED
    BY <1>3, <1>6
<1>10. (OutcomeInOrder /\ ResultInOrder /\ GenerationInOrder)'
  BY <1>1, <1>2, <1>5 DEF RunInv, Books, OutcomeInOrder, ResultInOrder, GenerationInOrder,
       Unstarted
<1>11. (NoWriteInOrder /\ ReportsAreTrue)'
  BY <1>1, <1>2, <1>3, <1>4, <1>5 DEF NoWriteInOrder, ReportsAreTrue, Shows
<1>12. Books' /\ version' \in Versions
  BY <1>1, <1>7, <1>8, <1>9, <1>10, <1>11 DEF Books, RunInv, RunTypeOK, queue
<1> QED
  <2>1. UNCHANGED <<queue, authority, marker, tick>> /\ child' = child
    BY <1>1
  <2>2. /\ dir'.request = dir.request /\ dir'.intent = dir.intent /\ dir'.exit = dir.exit
        /\ dir'.outcome = dir.outcome /\ dir'.resolution = dir.resolution
        /\ dir'.nowrite = dir.nowrite /\ dir'.result = dir.result
        /\ dir'.generation.state # "none"
    BY <1>2
  <2> QED
    BY <1>1, <1>2, <1>3, <1>12, <2>1, <2>2, ChildMoves

\* A publisher that ends without a result.
LEMMA ChildDies ==
    ASSUME RunInv, child \in {"publisher", "recovery"}, child' = "none",
           UNCHANGED <<queue, dest, authority, marker, dir, tick>>
    PROVE  RunInv'
<1>1. Books'
  BY BooksKept DEF RunInv, authority
<1>2. /\ dir' \in Controls /\ version' \in Versions /\ dest' \in Versions
      /\ ~Unstarted => dir'.generation.state # "none"
  BY DEF RunInv, RunTypeOK, queue, Unstarted
<1>3. /\ dir'.request = dir.request /\ dir'.intent = dir.intent /\ dir'.exit = dir.exit
      /\ dir'.outcome = dir.outcome /\ dir'.resolution = dir.resolution
      /\ dir'.nowrite = dir.nowrite /\ dir'.result = dir.result
      /\ UNCHANGED <<queue, authority, marker, tick>>
  OBVIOUS
<1> QED
  BY <1>1, <1>2, <1>3, ChildMoves

LEMMA ReportPublishedStep ==
    ASSUME RunInv, ReportPublished
    PROVE  RunInv'
<1>1. /\ dir.generation.state = "done" /\ dir.generation \in Generations /\ child' = "none"
      /\ UNCHANGED <<queue, dest, authority, marker, tick>>
  BY DEF RunInv, RunTypeOK, Controls, ReportPublished
<1>2. CASE child = "publisher"
  <2> DEFINE result == [status |-> "published", processed |-> dir.generation.processed,
                        rejected |-> dir.generation.rejected]
  <2>1. /\ result \in Results /\ dir' = [dir EXCEPT !.result = result]
        /\ result.status = "published"
        /\ result.processed = dir.generation.processed
        /\ result.rejected = dir.generation.rejected
    BY <1>1, <1>2 DEF Results, Generations, Result, ReportPublished
  <2> HIDE DEF result
  <2>2. Shows(result)
    BY <1>1, <2>1 DEF RunInv, Books, ReportsAreTrue, Shows
  <2> QED
    BY <1>1, <1>2, <2>1, <2>2, Reports
<1>3. CASE child = "recovery" /\ UNCHANGED dir
  BY <1>1, <1>3, ChildDies
<1> QED
  BY <1>2, <1>3 DEF ReportPublished

LEMMA ReportUnfinishedStep ==
    ASSUME RunInv, ReportUnfinished
    PROVE  RunInv'
<1>1. child' = "none" /\ UNCHANGED <<queue, dest, authority, marker, tick>>
  BY DEF ReportUnfinished
<1>2. CASE child = "publisher"
  <2> DEFINE result == [status |-> IF Unstarted THEN "deferred" ELSE "incomplete",
                        processed |-> {}, rejected |-> {}]
  <2>1. /\ result \in Results /\ dir' = [dir EXCEPT !.result = result]
        /\ result.status # "published"
        /\ result.status = "deferred" => Unstarted
    BY <1>2 DEF Results, Result, ReportUnfinished
  <2> HIDE DEF result
  <2>2. Unstarted => dir.generation = NoGeneration
    BY DEF RunInv, Books, GenerationInOrder
  <2> QED
    BY <1>1, <1>2, <2>1, <2>2, Reports
<1>3. CASE child = "recovery" /\ UNCHANGED dir
  BY <1>1, <1>3, ChildDies
<1> QED
  BY <1>2, <1>3 DEF ReportUnfinished

LEMMA PublisherDiesStep ==
    ASSUME RunInv, PublisherDies
    PROVE  RunInv'
BY ChildDies DEF PublisherDies

LEMMA KillStep ==
    ASSUME RunInv, Kill
    PROVE  RunInv'
<1>1. /\ tick' \in Ticks /\ tick'.pc = "off" /\ ~tick'.resumed /\ ~tick'.drained
      /\ UNCHANGED <<queue, dest, authority, marker, dir, child>>
  BY Stopped DEF Kill, Refuse
<1>2. RunTypeOK'
  BY <1>1 DEF RunInv, RunTypeOK, queue, authority
<1>3. Books'
  BY <1>1, BooksKept DEF RunInv, authority
<1>4. Whereabouts'
  BY <1>1 DEF RunInv, authority, Whereabouts, MarkerReleased, Resuming, Working, Publishing,
       Closing, ChildKnows, Before, Intended, Ending, Unresolved, Unpublished, FreshOutcome,
       Unstarted
<1> QED
  BY <1>2, <1>3, <1>4 DEF RunInv

LEMMA FallsDueStep ==
    ASSUME RunInv, NEW u \in Units, FallsDue(u)
    PROVE  RunInv'
<1>1. /\ due' = due \cup {u} /\ version[u] < MaxVersion
      /\ UNCHANGED <<version, disposition, bare, dest, phase, run, marker, dir, tick, child>>
      /\ UNCHANGED <<legacy, contained>>
  BY PublicationAssumption DEF FallsDue, authority, history
<1>2. RunTypeOK'
  BY <1>1 DEF RunInv, RunTypeOK
<1>3. (DueBelow /\ DestBehind /\ AcknowledgedIsPublished /\ Current)'
  BY <1>1 DEF RunInv, Books, DueBelow, DestBehind, AcknowledgedIsPublished, Current, AtVersion
<1>4. (SelectedIsPending /\ DebtIsTheBatchs /\ PhaseInOrder)'
  BY <1>1 DEF RunInv, Books, SelectedIsPending, Settling, Published, Pending, DebtIsTheBatchs,
       PhaseInOrder
<1>5. (OutcomeInOrder /\ ResultInOrder /\ GenerationInOrder)'
  BY <1>1 DEF RunInv, Books, OutcomeInOrder, ResultInOrder, GenerationInOrder, Unpublished,
       Unstarted
<1>6. (NoWriteInOrder /\ ReportsAreTrue)'
  BY <1>1 DEF RunInv, Books, NoWriteInOrder, Settling, Published, ReportsAreTrue, Shows
<1>7. Whereabouts'
  BY <1>1 DEF RunInv, Whereabouts, MarkerReleased, Resuming, Working, Publishing, Closing,
       ChildKnows, Before, Intended, Ending, Unresolved, Unpublished, FreshOutcome, Unstarted,
       Continues, NoDebt, AllAcknowledged, Admitted, Pending
<1> QED
  BY <1>2, <1>3, <1>4, <1>5, <1>6, <1>7 DEF RunInv, Books

\* A review finds nobody at work, and changes no more than what it reviews.
LEMMA ReviewStep ==
    ASSUME RunInv, prepare \/ invalidate \/ close_reconciled
    PROVE  RunInv'
<1>1. /\ tick.pc = "off" /\ child = "none"
      /\ UNCHANGED <<queue, dest, authority, marker, dir, tick, child>>
  BY DEF prepare, invalidate, close_reconciled, Free
<1>2. RunTypeOK'
  BY <1>1 DEF RunInv, RunTypeOK, queue, authority
<1>3. Books'
  BY <1>1, BooksKept DEF RunInv, authority
<1>4. Whereabouts'
  BY <1>1 DEF RunInv, authority, Whereabouts, MarkerReleased, Resuming, Working, Publishing,
       Closing, ChildKnows, Before, Intended, Ending, Unpublished, FreshOutcome
<1> QED
  BY <1>2, <1>3, <1>4 DEF RunInv
-----------------------------------------------------------------------------
(***************************************************************************)
(* The theorems.                                                           *)
(***************************************************************************)
\* A runtime at rest, with nothing dirty, satisfies the invariant.
LEMMA InitEstablishes ==
    ASSUME Init
    PROVE  RunInv
<1>1. tick \in Ticks /\ tick.pc = "off" /\ tick.resumed = FALSE /\ tick.drained = FALSE
  BY DEF Init, Off, At, Ticks, Places, Statuses
<1>2. run \in Runs /\ run.reuse = None
  BY DEF Init, NewRun, Runs
<1>3. RunTypeOK
  BY <1>1, <1>2, FreshControls, PublicationAssumption DEF Init, RunTypeOK, Versions
<1>4. \A u \in Units : disposition[u] = "acknowledged" /\ dest[u] = 0 /\ version[u] = 0
  BY DEF Init
<1>5. DueBelow /\ DestBehind /\ AcknowledgedIsPublished /\ Current /\ DebtIsTheBatchs
  BY <1>2, <1>4, FreshControls DEF Init, DueBelow, DestBehind, AcknowledgedIsPublished,
       Current, DebtIsTheBatchs
<1>6. SelectedIsPending /\ PhaseInOrder
  BY <1>2, <1>4, FreshControls DEF Init, SelectedIsPending, PhaseInOrder, Pending
<1>7. OutcomeInOrder /\ ResultInOrder /\ GenerationInOrder /\ NoWriteInOrder /\ ReportsAreTrue
  BY FreshControls DEF Init, OutcomeInOrder, ResultInOrder, GenerationInOrder, NoWriteInOrder,
       ReportsAreTrue, Unpublished, Unstarted
<1>8. Whereabouts
  BY <1>1 DEF Init, Whereabouts, MarkerReleased, Resuming, Working, Publishing, Closing,
       ChildKnows, Before, Intended, Ending
<1> QED
  BY <1>3, <1>5, <1>6, <1>7, <1>8 DEF RunInv, Books

\* Every step keeps it.
LEMMA StepPreserves ==
    ASSUME RunInv, [Next]_vars
    PROVE  RunInv'
<1>1. CASE UNCHANGED vars
  <2>1. RunTypeOK'
    BY <1>1 DEF vars, queue, authority, RunInv, RunTypeOK
  <2>2. Books'
    BY <1>1, BooksKept DEF vars, authority, RunInv
  <2>3. Whereabouts'
    BY <1>1 DEF vars, queue, authority, history, Admitted, RunInv, Whereabouts, MarkerReleased,
         Resuming, Working,
         Publishing, Closing, ChildKnows, Before, Intended, Ending, Unresolved, Unpublished,
         FreshOutcome, Unstarted, Continues, NoDebt, AllAcknowledged, Pending
  <2> QED
    BY <2>1, <2>2, <2>3 DEF RunInv
<1>2. CASE Dispatcher
  <2>1. CASE runtime_resume
    BY <2>1, ResumeIdleStep, ResumeWorkerStep, ResumePostExitStep, ResumePublishedStep,
       ResumeSettlesStep, ResumeUnwrittenStep, ResumeUnendedStep, ResumeSealedStep
       DEF runtime_resume
  <2>2. CASE locked_tick
    BY <2>2, BeginWorkerStep, SpawnWorkerStep, CloseWorkerStep, AdvanceTimeStep, SelectStep,
       ProjectStep, RequestStep, IntendStep, ReleaseStep, EnterPublisherStep, AllowRecoveryStep,
       SpawnPublisherStep, PublisherExitedStep, AcknowledgeResultStep, WriteOutcomeStep,
       SaveStateStep, CloseRunStep
       DEF locked_tick
  <2> QED
    BY <1>2, <2>1, <2>2, StartStep, RecoverStaleStep, DispatchStep, ResumePublicationStep,
       RecoveredStep DEF Dispatcher
<1>3. CASE Child
  BY <1>3, WorkerExitsStep, PublishNothingStep, OpenGenerationStep, FinishGenerationStep,
     ReportPublishedStep DEF Child
<1>4. CASE \E u \in Units : Accept(u) \/ FallsDue(u)
  BY <1>4, AcceptStep, FallsDueStep
<1>5. CASE WorkerFails \/ Fails \/ ReportUnfinished \/ PublisherDies \/ Kill
  BY <1>5, WorkerFailsStep, FailsStep, ReportUnfinishedStep, PublisherDiesStep, KillStep
<1>6. CASE prepare \/ invalidate \/ close_reconciled
  BY <1>6, ReviewStep
<1> QED
  BY <1>1, <1>2, <1>3, <1>4, <1>5, <1>6 DEF Next

\* The books are in order, and every process is where they say, in every
\* reachable state of the runtime.
THEOREM Invariance == Spec => []RunInv
<1>1. Init => RunInv
  BY InitEstablishes
<1>2. RunInv /\ [Next]_vars => RunInv'
  BY StepPreserves
<1> QED
  BY <1>1, <1>2, PTL DEF Spec

\* Every variable keeps its type: no selection exceeds max_units, and no
\* version the bound (select, _mark).
THEOREM TypeCorrect == Spec => []TypeOK
<1>1. RunInv => RunTypeOK
  BY DEF RunInv
<1>2. Init => HistoryTypeOK
  BY DEF Init, HistoryTypeOK
<1>3. HistoryTypeOK /\ [Next]_vars => HistoryTypeOK'
  <2> SUFFICES ASSUME HistoryTypeOK, [Next]_vars
               PROVE  /\ legacy' = legacy \/ legacy' \in Legacy \cup {None}
                      /\ contained' \in {contained, TRUE, FALSE}
    BY DEF HistoryTypeOK
  <2> QED
    BY DEF Next, vars, history, Dispatcher, runtime_resume, locked_tick, Child, Fault,
       StartTick, ResumeIdle, ResumeWorker, ResumePostExit, ResumePublished, ResumeSettles,
       ResumeUnwritten, ResumeUnended, ResumeSealed, RecoverStale, Dispatch,
       resume_publication, Recovered, BeginWorker, SpawnWorker, CloseWorker, advance_time,
       Select, Project, Request, Intend, release_after_intent, EnterPublisher, AllowRecovery,
       SpawnPublisher, PublisherExited, AcknowledgeResult, WriteOutcome, SaveState, CloseRun,
       WorkerExits, PublishNothing, OpenGeneration, FinishGeneration, ReportPublished, Accept,
       FallsDue, WorkerFails, Fails, ReportUnfinished, PublisherDies, Kill, prepare,
       invalidate, close_reconciled
<1> QED
  BY <1>1, <1>2, <1>3, Invariance, PTL DEF Spec, TypeOK

\* What the queue calls acknowledged the destination shows at that version
\* (acknowledge, after a crash as after an exit).
THEOREM AcknowledgedMeansPublished == Spec => []AcknowledgedIsPublished
<1>1. RunInv => AcknowledgedIsPublished
  BY DEF RunInv, Books
<1> QED
  BY <1>1, Invariance, PTL

\* A worker starts over what the destination does not show, or over an
\* unresolved old record, only where a review contains them, and then only over
\* held units (runtime_resume, approved).
THEOREM FetchesOverNoDebt == Spec => NothingFetchedOverDebt
<1>1. RunInv /\ [Next]_vars =>
          [phase = "idle" /\ phase' = "worker" =>
              /\ contained \/ (dest = version /\ legacy = None)
              /\ \A u \in Units : dest[u] # version[u] => disposition[u] = "held"]_vars
  <2> SUFFICES ASSUME RunInv, Next, phase = "idle", phase' = "worker"
               PROVE  /\ contained \/ (dest = version /\ legacy = None)
                      /\ \A u \in Units : dest[u] # version[u] => disposition[u] = "held"
    OBVIOUS
  <2>1. BeginWorker
    BY DEF Next, Dispatcher, runtime_resume, locked_tick, Child, authority, queue,
       StartTick, ResumeIdle, begin_publication_only, ResumeWorker, ResumePostExit,
       ResumePublished, ResumeSettles, finish_publication, advance_publication,
       ResumeUnwritten, ResumeUnended, ResumeSealed, RecoverStale, Dispatch,
       resume_publication, Recovered, SpawnWorker, CloseWorker, advance_time, Select, Project,
       Request, Intend, release_after_intent, EnterPublisher, AllowRecovery, SpawnPublisher,
       PublisherExited, AcknowledgeResult, WriteOutcome, SaveState, CloseRun, WorkerExits,
       PublishNothing, OpenGeneration, FinishGeneration, ReportPublished, Accept, FallsDue,
       WorkerFails, Fails, ReportUnfinished, PublisherDies, Kill, prepare, invalidate,
       close_reconciled
  <2>2. Admitted
    BY <2>1 DEF BeginWorker, RunInv, Whereabouts, Resuming
  <2>3. \A u \in Units : dest[u] # version[u] => disposition[u] = "held"
    BY DEF RunInv, RunTypeOK, Books, PhaseInOrder, Pending, AcknowledgedIsPublished
  <2>4. AllAcknowledged => dest = version
    BY <2>3 DEF AllAcknowledged, RunInv, RunTypeOK, Versions
  <2> QED
    BY <2>2, <2>3, <2>4 DEF Admitted
<1> QED
  BY <1>1, Invariance, PTL DEF Spec, NothingFetchedOverDebt

\* No publisher is started on a version the destination already shows: what
\* follows an intent is recovery (_resume_publication, unresolved_publications).
THEOREM PublishesOnce == Spec => PublishedOnce
<1>1. RunInv /\ [Next]_vars =>
          [child # "publisher" /\ child' = "publisher" =>
              \A u \in Planned : dest[u] # dir.request.image[u]]_vars
  <2> SUFFICES ASSUME RunInv, Next, child # "publisher", child' = "publisher",
                      NEW u \in Planned
               PROVE  dest[u] # dir.request.image[u]
    OBVIOUS
  <2>1. SpawnPublisher
    BY DEF Next, Dispatcher, runtime_resume, locked_tick, Child,
       StartTick, ResumeIdle, ResumeWorker, ResumePostExit, ResumePublished, ResumeSettles,
       ResumeUnwritten, ResumeUnended, ResumeSealed, RecoverStale, Dispatch,
       resume_publication, Recovered, BeginWorker, SpawnWorker, CloseWorker, advance_time,
       Select, Project, Request, Intend, release_after_intent, EnterPublisher, AllowRecovery,
       PublisherExited, AcknowledgeResult, WriteOutcome, SaveState, CloseRun, WorkerExits,
       PublishNothing, OpenGeneration, FinishGeneration, ReportPublished, Accept, FallsDue,
       WorkerFails, Fails, ReportUnfinished, PublisherDies, Kill, prepare, invalidate,
       close_reconciled
  <2>2. dir.intent /\ Unpublished /\ dir.request # None
    BY <2>1 DEF SpawnPublisher, RunInv, RunTypeOK, Whereabouts, Publishing, Intended
  <2>3. u \in Pending /\ dir.request.image = version
    BY <2>2 DEF RunInv, Books, Current, AtVersion, SelectedIsPending, Settling, Unpublished,
         Planned, Selected
  <2> QED
    BY <2>2, <2>3, FreshControls DEF RunInv, Books, DebtIsTheBatchs, Unpublished, Pending
<1> QED
  BY <1>1, Invariance, PTL DEF Spec, PublishedOnce
=============================================================================
