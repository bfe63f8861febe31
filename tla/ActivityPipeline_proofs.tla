------------------------ MODULE ActivityPipeline_proofs ------------------------
(***************************************************************************)
(* Proofs about the pipeline, for any number of windows, runs, crashes,    *)
(* session changes and faults.                                             *)
(*                                                                         *)
(* First, at most one activity run is at the model, and it is the run      *)
(* which holds the job (OneOpenRun). OneOpenRun is not inductive. A job    *)
(* changes hands when a drain claims it, resolves an orphan or gives up a  *)
(* start, so the invariant also says which run the dispatcher works on at  *)
(* each of its program points; run ids are never reused.                   *)
(*                                                                         *)
(* Then the two hand-overs of a window between the databases: Reflection   *)
(* releases a window only when its receipt or its consumption is durable   *)
(* (SourceOutlivesReceipt), a window that a run has consumed is released   *)
(* (ConsumedIsReleased), and a receipt is removed only when its window has *)
(* been consumed (ScoreOnlyConsumed). The heart of the argument is the     *)
(* gate of nextActivityAnalysisJob: a job that has been claimed has no     *)
(* window left in the outbox (AckGate), so the delivery service and the    *)
(* end of a run never work on the same window, although neither knows of   *)
(* the other.                                                              *)
(*                                                                         *)
(* Then the two phases in which a run's result is committed: a commit      *)
(* finds the archives of its sources (CommitFindsSources), a job whose     *)
(* windows are consumed has the proof that lets phase two be repeated      *)
(* (PhaseTwoProof), recovery therefore never gives such a job up           *)
(* (RecoveryNeverMismatches), and no window is analysed again after its    *)
(* analysis was committed (NoRerunOfConsumed).  The heart of the argument  *)
(* is that a receipt and the archive agree on the request of every window, *)
(* that a run and its record carry the requests of the job it holds, and   *)
(* that a window which is consumed but still has its receipt belongs to    *)
(* the job of the run that consumed it.                                    *)
(*                                                                         *)
(* Last, what the whole pipeline amounts to: an archived analysis is found *)
(* under the request of its outbox row (ArchiveMatchesRequest), the score  *)
(* is the sum of the receipts (ScoreIsReceipts), and every step is one of  *)
(* ActivityFeedback or invisible there (FeedbackSpec).  A sum over a set   *)
(* of windows is the number of its cells, of which the library knows what  *)
(* it does not know of recursive sums.                                     *)
(***************************************************************************)
EXTENDS ActivityPipeline, FiniteSetTheorems, WellFoundedInduction, TLAPS

JobFields == {"status", "run", "attempt", "req", "terminal", "due"}

\* What the argument needs to know of the shape of the state.
JobShape ==
    job # None => /\ JobFields \subseteq DOMAIN job
                  /\ job.status = "running" => job.run \in RunIds

LiveShape ==
    /\ live = [r \in RunIds |-> live[r]]
    /\ \A r \in RunIds : live[r] # None => {"stage", "old"} \subseteq DOMAIN live[r]

UsedShape == used \in [crashes : Nat, rotations : Nat, faults : Nat, runs : Nat]

\* Run ids are given out in order, so an unused one is not active.
FreshRuns == \A r \in RunIds : r > used.runs => live[r] = None

\* While a start is under way its run holds the job, and it is in the active map
\* from the moment its record is persisted.
StartingRun ==
    dsp.pc \in {"start", "request"} =>
        /\ dsp.run \in RunIds /\ dsp.run <= used.runs
        /\ Holds(dsp.run)
        /\ dsp.pc = "start" => live[dsp.run] = None
        /\ dsp.pc = "request" => InStage(dsp.run, "starting")

\* A run that is being reconciled is not in the active map.
OrphanedRun ==
    dsp.pc \in {"reconcile", "resolve"} =>
        dsp.run \in RunIds /\ live[dsp.run] = None

NoDispatcherWhenDown == phase = "down" => dsp = NewDispatcher

RunInv ==
    /\ JobShape /\ LiveShape /\ dsp \in Dispatcher /\ UsedShape
    /\ FreshRuns /\ StartingRun /\ OrphanedRun
    /\ NoDispatcherWhenDown
    /\ OneOpenRun

----------------------------------------------------------------------------
(* Facts about the operators *)

\* A row with fields is not the absent row.
LEMMA RowIsNotNone ==
    ASSUME NEW x, NEW f \in DOMAIN x, f # "none"
    PROVE  x # None
BY DEF None

\* Making a job leaves an existing one alone; a new one is held by no run.
LEMMA MaterializeJob ==
    ASSUME NEW rows, NEW total, NEW existing, Materialize(rows, total, existing)
    PROVE  /\ existing # None => job' = existing
           /\ existing = None /\ job' # None =>
                JobFields \subseteq DOMAIN job' /\ job'.status = "pending"
BY DEF Materialize, JobFields

\* A wake schedules an idle dispatcher and never moves a busy one.
LEMMA WokenDispatcher ==
    ASSUME NEW d \in Dispatcher
    PROVE  /\ Woken(d) \in Dispatcher
           /\ Woken(d).run = d.run
           /\ Woken(d).pc = d.pc \/ Woken(d).pc = "queued"
           /\ ~d.on => Woken(d) = d
BY DEF Woken, Dispatcher

\* The end of a drain leaves the dispatcher idle or scheduled.
LEMMA DrainedDispatcher ==
    ASSUME NEW d \in Dispatcher
    PROVE  Drained(d) \in Dispatcher /\ Drained(d).pc \in {"idle", "queued"}
BY DEF Drained, Dispatcher, NoRun

\* Arming the retry timer (armRetry) changes nothing else.
LEMMA ArmedDispatcher ==
    ASSUME NEW d \in Dispatcher
    PROVE  Armed(d) \in Dispatcher
BY DEF Armed, Dispatcher

\* A dispatcher that was never started is idle.
LEMMA NewDispatcherType == NewDispatcher \in Dispatcher /\ NewDispatcher.pc = "idle"
                           /\ ~NewDispatcher.on
BY DEF NewDispatcher, Dispatcher, NoRun

\* A fault only uses up the bound on faults.
LEMMA FaultUsed ==
    ASSUME UsedShape, Fault
    PROVE  UsedShape' /\ used'.runs = used.runs
BY DEF UsedShape, Fault

\* Two runs cannot hold the job.
LEMMA HolderUnique ==
    ASSUME NEW q, NEW r, Holds(q), Holds(r)
    PROVE  q = r
BY DEF Holds

----------------------------------------------------------------------------
(* Steps that leave the runs alone *)

NoHolderChange ==
    \/ job' = job
    \/ /\ job = None
       /\ job' # None => JobFields \subseteq DOMAIN job' /\ job'.status = "pending"

\* The dispatcher stays where it is, or has no run to work on; none comes into
\* being while the bundle is down.
DispatcherQuiet ==
    /\ dsp' \in Dispatcher
    /\ \/ dsp'.pc = dsp.pc /\ dsp'.run = dsp.run
       \/ dsp'.pc \in {"idle", "queued"}
    /\ phase = "down" => dsp' = dsp

\* A wake takes the dispatcher to no run.
LEMMA WokenQuiet ==
    ASSUME RunInv, dsp' = dsp \/ dsp' = Woken(dsp)
    PROVE  DispatcherQuiet
BY WokenDispatcher, NewDispatcherType DEF RunInv, DispatcherQuiet, NoDispatcherWhenDown

\* A step that changes no run, takes the dispatcher to no run and changes the job
\* at most by making one, preserves the invariant.
LEMMA QuietStep ==
    ASSUME RunInv, UNCHANGED live, NoHolderChange, DispatcherQuiet,
           UsedShape', used'.runs = used.runs,
           phase' = "down" => phase = "down"
    PROVE  RunInv'
<1>1. dsp' \in Dispatcher
  BY DEF DispatcherQuiet
<1>2. \A r \in RunIds : Holds(r)' <=> Holds(r)
  BY DEF Holds, NoHolderChange, RunInv
<1>3. JobShape'
  BY DEF RunInv, JobShape, NoHolderChange
<1>4. LiveShape' /\ FreshRuns'
  BY DEF RunInv, LiveShape, FreshRuns
<1>5. StartingRun' /\ OrphanedRun'
  BY <1>2 DEF RunInv, StartingRun, OrphanedRun, InStage, DispatcherQuiet
<1>6. NoDispatcherWhenDown'
  BY DEF RunInv, NoDispatcherWhenDown, DispatcherQuiet
<1>7. OneOpenRun'
  BY <1>2 DEF RunInv, OneOpenRun, InStage
<1> QED
  BY <1>1, <1>3, <1>4, <1>5, <1>6, <1>7 DEF RunInv

\* The score's update makes a job only when there is none.
LEMMA ApplyJob ==
    ASSUME NEW w, NEW s, Apply(w, s)
    PROVE  NoHolderChange
<1>1. CASE receipts[w] # None
  BY <1>1 DEF Apply, ledger, NoHolderChange
<1>2. CASE receipts[w] = None
  <2>1. \E rows, total : Materialize(rows, total, job)
    BY <1>2 DEF Apply
  <2> QED
    BY <2>1, MaterializeJob DEF NoHolderChange
<1> QED
  BY <1>1, <1>2

\* recoverActivityAnalysisJobs makes a job only when there is none.
LEMMA RecoverJobsJob ==
    ASSUME RecoverJobs
    PROVE  NoHolderChange
BY MaterializeJob DEF RecoverJobs, NoHolderChange

\* Delivery never touches a run: it may make a job and wake the dispatcher.
LEMMA DeliveryLeavesRuns ==
    ASSUME UsedShape, DeliveryStep
    PROVE  /\ UNCHANGED live /\ NoHolderChange
           /\ dsp' = dsp \/ dsp' = Woken(dsp)
           /\ UsedShape' /\ used'.runs = used.runs
<1> USE DEF dispatch, session, ledger, encrypted
<1>1. CASE DropNotification
  BY <1>1 DEF DropNotification, NoHolderChange, UsedShape
<1>2. CASE RunEnqueue
  BY <1>2 DEF RunEnqueue, Enqueue, NoHolderChange, UsedShape
<1>3. CASE RetryTimerKicks
  BY <1>3 DEF RetryTimerKicks, NoHolderChange, UsedShape
<1>4. CASE DrainStops
  BY <1>4 DEF DrainStops, NoHolderChange, UsedShape
<1>5. CASE DeliverWindow
  BY <1>5 DEF DeliverWindow, NoHolderChange, UsedShape
<1>6. CASE RecoverArchived
  <2>1. job' = job \/ Apply(dlv.w, archive[dlv.w].score)
    BY <1>6 DEF RecoverArchived
  <2> QED
    BY <1>6, <2>1, ApplyJob DEF RecoverArchived, NoHolderChange, UsedShape
<1>7. CASE RecoverThrows
  BY <1>7, FaultUsed
  DEF RecoverThrows, MarkTerminal, Throws, DeferWindow, NoHolderChange
<1>8. CASE SessionChanged
  BY <1>8 DEF SessionChanged, NoHolderChange, UsedShape
<1>9. CASE AnalyzeSucceeds
  BY <1>9 DEF AnalyzeSucceeds, NoHolderChange, UsedShape
<1>10. CASE AnalyzeInvalid
  BY <1>10 DEF AnalyzeInvalid, AdvanceSemanticAttempt, NoHolderChange, UsedShape
<1>11. CASE AnalyzeThrows
  <2>1. UsedShape' /\ used'.runs = used.runs
    BY <1>11, FaultUsed DEF AnalyzeThrows, UsedShape
  <2> QED
    BY <1>11, <2>1 DEF AnalyzeThrows, MarkTerminal, Throws, DeferWindow, NoHolderChange
<1>12. CASE ArchiveAnalysis
  BY <1>12 DEF ArchiveAnalysis, NoHolderChange, UsedShape
<1>13. CASE ArchiveThrows
  BY <1>13 DEF ArchiveThrows, Throws, DeferWindow, NoHolderChange, UsedShape
<1>14. CASE ApplyAnalysis
  BY <1>14, ApplyJob DEF ApplyAnalysis, UsedShape
<1>15. CASE AcknowledgeSource
  BY <1>15 DEF AcknowledgeSource, DeleteOutbox, NoHolderChange, UsedShape
<1>16. CASE AcknowledgeThrows
  <2>1. UsedShape' /\ used'.runs = used.runs
    BY <1>16, FaultUsed DEF AcknowledgeThrows, UsedShape
  <2> QED
    BY <1>16, <2>1 DEF AcknowledgeThrows, Throws, DeferWindow, NoHolderChange
<1> QED
  BY <1>1, <1>2, <1>3, <1>4, <1>5, <1>6, <1>7, <1>8, <1>9, <1>10, <1>11,
     <1>12, <1>13, <1>14, <1>15, <1>16 DEF DeliveryStep

\* So delivery preserves the invariant.
LEMMA DeliveryQuiet ==
    ASSUME RunInv, DeliveryStep
    PROVE  RunInv'
<1>1. UsedShape
  BY DEF RunInv
<1>2. UNCHANGED phase
  BY DEF DeliveryStep
<1> QED
  BY <1>1, <1>2, DeliveryLeavesRuns, QuietStep, WokenQuiet

----------------------------------------------------------------------------
(* Steps that end or move a run *)

NobodyHolds == \A q : ~Holds(q)

\* Completing, deferring and failing a job leave it in nobody's hands.
LEMMA JobReleased ==
    ASSUME JobShape, NEW r, Holds(r),
           \/ CompleteJob
           \/ \E semantic \in BOOLEAN : DeferJob(semantic)
           \/ FailJobTerminally
    PROVE  JobShape' /\ NobodyHolds'
<1>1. CASE CompleteJob
  <2>1. \E rows, total : Materialize(rows, total, None)
    BY <1>1 DEF CompleteJob
  <2>2. job' # None => JobFields \subseteq DOMAIN job' /\ job'.status = "pending"
    BY <2>1, MaterializeJob
  <2> QED
    BY <2>2 DEF JobShape, NobodyHolds, Holds
<1>2. ASSUME \E semantic \in BOOLEAN : DeferJob(semantic)
      PROVE  JobShape' /\ NobodyHolds'
  BY <1>2 DEF DeferJob, Holds, JobShape, JobFields, NobodyHolds
<1>3. CASE FailJobTerminally
  BY <1>3 DEF FailJobTerminally, Holds, JobShape, JobFields, NobodyHolds
<1> QED
  BY <1>1, <1>2, <1>3

\* A run leaves the active map, or is no longer open, and if it held the job it
\* lets go of it.
LEMMA RunEnds ==
    ASSUME RunInv, NEW r \in RunIds,
           \/ live' = [live EXCEPT ![r] = None]
           \/ /\ live' = live
              /\ live[r] # None => live[r].old \/ live[r].stage # "running",
           job' = job \/ (Holds(r) /\ JobShape' /\ NobodyHolds'),
           dsp' \in Dispatcher,
           \/ dsp'.pc \in {"idle", "queued"}
           \/ /\ dsp'.pc = dsp.pc /\ dsp'.run = dsp.run
              /\ ~(dsp.pc \in {"start", "request"} /\ dsp.run = r),
           phase' = phase, phase = "down" => dsp' = dsp,
           UsedShape', used'.runs = used.runs
    PROVE  RunInv'
<1>1. JobShape'
  BY DEF RunInv, JobShape
<1>2. LiveShape' /\ FreshRuns'
  BY DEF RunInv, LiveShape, FreshRuns
<1>3. \A q \in RunIds : q # r => live'[q] = live[q] /\ (Holds(q) => Holds(q)')
  BY HolderUnique DEF RunInv, LiveShape, Holds
<1>4. StartingRun'
  BY <1>3 DEF RunInv, StartingRun, InStage
<1>5. OrphanedRun'
  BY <1>3 DEF RunInv, OrphanedRun, LiveShape
<1>6. NoDispatcherWhenDown'
  BY DEF RunInv, NoDispatcherWhenDown
<1>7. OneOpenRun'
  BY <1>3 DEF RunInv, OneOpenRun, LiveShape, InStage
<1> QED
  BY <1>1, <1>2, <1>4, <1>5, <1>6, <1>7 DEF RunInv

\* A run that is not being started goes on to a stage in which it is not open,
\* or stays open.
LEMMA RunMoves ==
    ASSUME RunInv, NEW r \in RunIds, live[r] # None,
           live[r].stage # "starting",
           live' = [q \in RunIds |-> IF q = r THEN live'[r] ELSE live[q]],
           DOMAIN live'[r] = DOMAIN live[r],
           live'[r].old = live[r].old, live'[r].stage # "running",
           UNCHANGED <<job, dsp, phase>>,
           UsedShape', used'.runs = used.runs
    PROVE  RunInv'
<1>1. live'[r] # None
  BY RowIsNotNone DEF RunInv, LiveShape
<1>2. \A q \in RunIds : q # r => live'[q] = live[q]
  OBVIOUS
<1>3. JobShape' /\ NoDispatcherWhenDown'
  BY DEF RunInv, JobShape, NoDispatcherWhenDown
<1>4. LiveShape' /\ FreshRuns'
  BY <1>1, <1>2 DEF RunInv, LiveShape, FreshRuns
<1>5. StartingRun' /\ OrphanedRun'
  BY <1>1, <1>2 DEF RunInv, StartingRun, OrphanedRun, InStage, Holds
<1>6. OneOpenRun'
  BY <1>1, <1>2 DEF RunInv, OneOpenRun, Holds, InStage
<1> QED
  BY <1>3, <1>4, <1>5, <1>6 DEF RunInv

\* No step of a run, and no end of one, opens another: the events of the sidecar,
\* finishRun, and the cancellations at a refresh and at sign-out.
LEMMA RunStepInv ==
    ASSUME RunInv, RunStep
    PROVE  RunInv'
<1> USE DEF dispatch, session, ledger, encrypted
<1>1. PICK r \in RunIds :
        \/ SidecarCompletes(r) \/ SidecarFails(r) \/ SidecarExits(r)
        \/ EmitFailure(r) \/ PersistFailure(r)
        \/ CommitRun(r) \/ CommitThrows(r)
        \/ FinishRun(r, BundlePresent)
        \/ auth = "refreshing" /\ ~BundlePresent /\ QuiesceRun(r)
        \/ auth = "out" /\ CancelRun(r, BundlePresent)
  BY DEF RunStep
<1>2. UNCHANGED phase
  BY DEF RunStep
<1>3. /\ live[r] # None => {"stage", "old"} \subseteq DOMAIN live[r]
      /\ dsp \in Dispatcher /\ UsedShape /\ JobShape
  BY DEF RunInv, LiveShape
<1>4. CASE SidecarCompletes(r) \/ SidecarFails(r) \/ SidecarExits(r)
           \/ EmitFailure(r) \/ PersistFailure(r) \/ CommitRun(r) \/ CommitThrows(r)
  <2>1. live[r] # None /\ live[r].stage # "starting"
    BY <1>4 DEF SidecarCompletes, SidecarFails, SidecarExits, EmitFailure,
                PersistFailure, CommitRun, CommitThrows, InStage
  <2>2. UNCHANGED <<job, dsp>>
    BY <1>4 DEF SidecarCompletes, SidecarFails, SidecarExits, EmitFailure,
                PersistFailure, CommitRun, CommitThrows
  <2>3. UsedShape' /\ used'.runs = used.runs
    BY <1>3, <1>4, FaultUsed
    DEF SidecarCompletes, SidecarFails, SidecarExits, EmitFailure,
        PersistFailure, CommitRun, CommitThrows, UsedShape
  <2>4. /\ live' = [q \in RunIds |-> IF q = r THEN live'[r] ELSE live[q]]
        /\ DOMAIN live'[r] = DOMAIN live[r]
        /\ live'[r].old = live[r].old /\ live'[r].stage # "running"
    <3> USE DEF ToStage
    <3>0. live = [q \in RunIds |-> live[q]]
      BY DEF RunInv, LiveShape
    <3>1. CASE SidecarCompletes(r)
      BY <1>3, <2>1, <3>0, <3>1 DEF SidecarCompletes
    <3>2. CASE SidecarFails(r)
      BY <1>3, <2>1, <3>0, <3>2 DEF SidecarFails
    <3>3. CASE SidecarExits(r)
      BY <1>3, <2>1, <3>0, <3>3 DEF SidecarExits
    <3>4. CASE EmitFailure(r)
      BY <1>3, <2>1, <3>0, <3>4 DEF EmitFailure
    <3>5. CASE PersistFailure(r)
      BY <1>3, <2>1, <3>0, <3>5 DEF PersistFailure
    <3>6. CASE CommitRun(r)
      BY <1>3, <2>1, <3>0, <3>6 DEF CommitRun
    <3>7. CASE CommitThrows(r)
      BY <1>3, <2>1, <3>0, <3>7 DEF CommitThrows
    <3> QED
      BY <1>4, <3>1, <3>2, <3>3, <3>4, <3>5, <3>6, <3>7
  <2> QED
    BY <1>2, <2>1, <2>2, <2>3, <2>4, RunMoves
<1>5. CASE FinishRun(r, BundlePresent)
  <2>1. live[r] # None /\ live[r].stage # "starting" /\ live' = [live EXCEPT ![r] = None]
    BY <1>5 DEF FinishRun
  <2>2. job' = job \/ (Holds(r) /\ JobShape' /\ NobodyHolds')
    <3>1. CASE ~BundlePresent \/ ~Holds(r)
      BY <1>5, <3>1 DEF FinishRun, JobAfterRun
    <3>2. CASE BundlePresent /\ Holds(r)
      <4>1. CompleteJob \/ FailJobTerminally \/ \E semantic \in BOOLEAN : DeferJob(semantic)
        BY <1>5, <3>2 DEF FinishRun, JobAfterRun
      <4> QED
        BY <1>3, <3>2, <4>1, JobReleased
    <3> QED
      BY <3>1, <3>2
  <2>3. /\ dsp' \in Dispatcher /\ dsp'.run = dsp.run
        /\ dsp'.pc = dsp.pc \/ dsp'.pc = "queued"
    <3>1. [dsp EXCEPT !.mine = @ \ {r}] \in Dispatcher
      BY <1>3 DEF Dispatcher
    <3>2. dsp' = dsp \/ dsp' = Woken([dsp EXCEPT !.mine = @ \ {r}])
      BY <1>5 DEF FinishRun
    <3> QED
      BY <1>3, <3>1, <3>2, WokenDispatcher DEF Dispatcher
  <2>4. ~(dsp.pc \in {"start", "request"} /\ dsp.run = r)
    BY <2>1 DEF RunInv, StartingRun, InStage
  <2>5. phase = "down" => dsp' = dsp
    BY <1>5 DEF FinishRun, BundlePresent
  <2>6. UsedShape' /\ used'.runs = used.runs
    BY <1>3, <1>5 DEF FinishRun, UsedShape
  <2> QED
    BY <1>2, <2>1, <2>2, <2>3, <2>4, <2>5, <2>6, RunEnds
<1>6. CASE auth = "refreshing" /\ ~BundlePresent /\ QuiesceRun(r)
  <2>1. dsp.pc = "idle"
    BY <1>6, NewDispatcherType DEF RunInv, NoDispatcherWhenDown, BundlePresent
  <2> QED
    BY <1>2, <1>3, <1>6, <2>1, RunEnds DEF QuiesceRun, UsedShape
<1>7. CASE auth = "out" /\ CancelRun(r, BundlePresent)
  <2>1. live' = [live EXCEPT ![r] = None] /\ dsp.pc \notin {"start", "request"}
    BY <1>7 DEF CancelRun
  <2>2. job' = job \/ (Holds(r) /\ JobShape' /\ NobodyHolds')
    <3>1. job' = job \/ (Holds(r) /\ DeferJob(FALSE))
      BY <1>7 DEF CancelRun
    <3> QED
      BY <1>3, <3>1, JobReleased
  <2>3. /\ dsp' \in Dispatcher /\ dsp'.run = dsp.run
        /\ dsp'.pc = dsp.pc \/ dsp'.pc = "queued"
    <3>1. [dsp EXCEPT !.mine = @ \ {r}] \in Dispatcher
      BY <1>3 DEF Dispatcher
    <3>2. dsp' = dsp \/ dsp' = Woken([dsp EXCEPT !.mine = @ \ {r}])
      BY <1>7 DEF CancelRun
    <3> QED
      BY <1>3, <3>1, <3>2, WokenDispatcher DEF Dispatcher
  <2>4. phase = "down" => dsp' = dsp
    BY <1>7 DEF CancelRun, BundlePresent
  <2>5. UsedShape' /\ used'.runs = used.runs
    BY <1>3, <1>7 DEF CancelRun, UsedShape
  <2> QED
    BY <1>2, <2>1, <2>2, <2>3, <2>4, <2>5, RunEnds
<1> QED
  BY <1>1, <1>4, <1>5, <1>6, <1>7

----------------------------------------------------------------------------
(* The dispatcher *)

\* Taking up a running job leaves the dispatcher without a run, or with one that
\* is not in the active map.
LEMMA ReconcilingDispatcher ==
    ASSUME NEW d \in Dispatcher, JobShape, NextJobKind = "running"
    PROVE  /\ Reconciling(d) \in Dispatcher
           /\ \/ Reconciling(d).pc \in {"idle", "queued"}
              \/ /\ Reconciling(d).pc = "reconcile"
                 /\ Reconciling(d).run \in RunIds /\ live[Reconciling(d).run] = None
<1>1. job # None /\ job.status = "running"
  BY DEF NextJobKind, ActiveJob
<1>2. job.run \in RunIds
  BY <1>1 DEF JobShape
<1>3. CASE job.run \in d.mine \/ live[job.run] # None
  BY <1>3, DrainedDispatcher DEF Reconciling
<1>4. CASE ~(job.run \in d.mine \/ live[job.run] # None)
  <2>1. Reconciling(d) = [d EXCEPT !.pc = "reconcile", !.run = job.run]
    BY <1>4 DEF Reconciling
  <2> QED
    BY <1>2, <1>4, <2>1 DEF Dispatcher
<1> QED
  BY <1>3, <1>4

\* Only runs hold a running job.
LEMMA OpenRunsHold ==
    ASSUME RunInv, NobodyHolds
    PROVE  \A r \in RunIds : InStage(r, "running") => live[r].old
BY DEF RunInv, OneOpenRun, NobodyHolds, InStage

\* startClaimedJob gives the job to a run that was never active, and the job was
\* in nobody's hands.
LEMMA DrainClaimsInv ==
    ASSUME RunInv, DrainClaims, UNCHANGED phase
    PROVE  RunInv'
<1> USE DEF session, encrypted
<1>0. PICK r : r = used.runs + 1
  OBVIOUS
<1>1. r \in RunIds /\ used.runs \in Nat /\ used.runs < r
  BY <1>0, StoreConstants DEF DrainClaims, RunInv, UsedShape, RunIds
<1>2. job # None /\ job.status # "running"
  BY DEF DrainClaims, NextJobKind, ActiveJob
<1>3. /\ JobFields \subseteq DOMAIN job
      /\ job' = [job EXCEPT !.status = "running", !.run = r, !.req = RequestOf(job)]
  BY <1>0, <1>2 DEF DrainClaims, ClaimJob, RunInv, JobShape
<1>4. DOMAIN job' = DOMAIN job /\ job'.status = "running" /\ job'.run = r
  BY <1>3 DEF JobFields
<1>5. job' # None
  BY <1>3, <1>4, RowIsNotNone DEF JobFields
<1>6. JobShape' /\ Holds(r)'
  BY <1>1, <1>3, <1>4, <1>5 DEF JobShape, Holds
<1>7. live' = live /\ used' = [used EXCEPT !.runs = r]
  BY <1>0 DEF DrainClaims
<1>8. UsedShape' /\ used'.runs = r
  BY <1>1, <1>7 DEF RunInv, UsedShape, RunIds
<1>9. live[r] = None
  BY <1>1 DEF RunInv, FreshRuns
<1>10. LiveShape' /\ FreshRuns'
  BY <1>0, <1>1, <1>7, <1>8 DEF RunInv, LiveShape, FreshRuns, RunIds
<1>11. dsp' \in Dispatcher /\ dsp'.pc = "start" /\ dsp'.run = r
  BY <1>0, <1>1 DEF DrainClaims, RunInv, Dispatcher
<1>12. StartingRun' /\ OrphanedRun'
  BY <1>1, <1>6, <1>7, <1>8, <1>9, <1>11 DEF StartingRun, OrphanedRun, RunIds
<1>13. NoDispatcherWhenDown'
  BY NewDispatcherType DEF DrainClaims, RunInv, NoDispatcherWhenDown
<1>14. OneOpenRun'
  <2>1. NobodyHolds
    BY <1>2 DEF NobodyHolds, Holds
  <2> QED
    BY <1>7, <2>1, OpenRunsHold DEF OneOpenRun, InStage
<1> QED
  BY <1>6, <1>8, <1>10, <1>11, <1>12, <1>13, <1>14 DEF RunInv

\* startActivityAnalysis puts the run that holds the job in the active map.
LEMMA StartPersistsInv ==
    ASSUME RunInv, StartPersists, UNCHANGED phase
    PROVE  RunInv'
<1> DEFINE r == dsp.run
<1> USE DEF session, ledger
<1>1. r \in RunIds /\ r <= used.runs /\ Holds(r)
  BY DEF RunInv, StartPersists, StartingRun
<1>2. /\ live = [q \in RunIds |-> live[q]]
      /\ live' = [live EXCEPT ![r] =
                    [stage |-> "starting", class |-> "none", old |-> FALSE,
                     input |-> InputOf(job), req |-> job.req]]
  BY DEF RunInv, LiveShape, StartPersists
<1>3. /\ \A q \in RunIds : q # r => live'[q] = live[q]
      /\ live'[r].stage = "starting" /\ {"stage", "old"} \subseteq DOMAIN live'[r]
      /\ live' = [q \in RunIds |-> live'[q]]
  BY <1>1, <1>2
<1>4. live'[r] # None
  BY <1>3, RowIsNotNone
<1>5. UNCHANGED <<job, used>>
  BY DEF StartPersists
<1>6. dsp' \in Dispatcher /\ dsp'.pc = "request" /\ dsp'.run = r
  BY DEF StartPersists, RunInv, Dispatcher
<1>7. JobShape' /\ UsedShape'
  BY <1>5 DEF RunInv, JobShape, UsedShape
<1>8. LiveShape'
  BY <1>1, <1>3, <1>4 DEF RunInv, LiveShape
<1>9. FreshRuns'
  BY <1>1, <1>3, <1>5 DEF RunInv, FreshRuns, RunIds, UsedShape
<1>10. StartingRun' /\ OrphanedRun'
  BY <1>1, <1>3, <1>4, <1>5, <1>6 DEF StartingRun, OrphanedRun, InStage, Holds
<1>11. NoDispatcherWhenDown'
  BY NewDispatcherType DEF StartPersists, RunInv, NoDispatcherWhenDown
<1>12. OneOpenRun'
  BY <1>1, <1>3, <1>5 DEF RunInv, OneOpenRun, Holds, InStage
<1> QED
  BY <1>6, <1>7, <1>8, <1>9, <1>10, <1>11, <1>12 DEF RunInv

\* activity.start is sent for the run that holds the job.
LEMMA StartRequestsInv ==
    ASSUME RunInv, StartRequests, UNCHANGED phase
    PROVE  RunInv'
<1> DEFINE r == dsp.run
<1> USE DEF session, ledger
<1>1. r \in RunIds /\ r <= used.runs /\ Holds(r) /\ live[r] # None
  BY DEF RunInv, StartRequests, StartingRun, InStage
<1>2. /\ live = [q \in RunIds |-> live[q]] /\ {"stage", "old"} \subseteq DOMAIN live[r]
      /\ live' = [live EXCEPT ![r].stage = "running"]
  BY <1>1 DEF RunInv, LiveShape, StartRequests
<1>3. /\ \A q \in RunIds : q # r => live'[q] = live[q]
      /\ DOMAIN live'[r] = DOMAIN live[r] /\ live'[r].old = live[r].old
      /\ live' = [q \in RunIds |-> live'[q]]
  BY <1>1, <1>2
<1>4. live'[r] # None
  BY <1>2, <1>3, RowIsNotNone
<1>5. UNCHANGED <<job, used>>
  BY DEF StartRequests
<1>6. dsp' \in Dispatcher /\ dsp'.pc \in {"idle", "queued"}
  BY DrainedDispatcher DEF StartRequests, RunInv
<1>7. JobShape' /\ UsedShape' /\ StartingRun' /\ OrphanedRun'
  BY <1>5, <1>6 DEF RunInv, JobShape, UsedShape, StartingRun, OrphanedRun
<1>8. LiveShape' /\ FreshRuns'
  BY <1>1, <1>2, <1>3, <1>4, <1>5
  DEF RunInv, LiveShape, FreshRuns, RunIds, UsedShape
<1>9. NoDispatcherWhenDown'
  BY NewDispatcherType DEF StartRequests, RunInv, NoDispatcherWhenDown
<1>10. OneOpenRun'
  BY <1>1, <1>3, <1>5 DEF RunInv, OneOpenRun, Holds, InStage
<1> QED
  BY <1>6, <1>7, <1>8, <1>9, <1>10 DEF RunInv

\* A drain that ends, and the job with it or not, leaves the runs alone.
LEMMA DrainEnds ==
    ASSUME RunInv, NEW d \in Dispatcher, dsp' = Drained(d),
           UNCHANGED <<live, job, phase>>, phase # "down",
           UsedShape', used'.runs = used.runs
    PROVE  RunInv'
<1>1. DispatcherQuiet
  BY DrainedDispatcher DEF DispatcherQuiet
<1>2. NoHolderChange
  BY DEF NoHolderChange
<1> QED
  BY <1>1, <1>2, QuietStep

\* Every verdict on a stored run is one the dispatcher knows.
LEMMA VerdictType ==
    ASSUME NEW r
    PROVE  VerdictOn(r) \in {"completed", "unproven", "invalid-output", "retryable",
                             "invalid"}
BY DEF VerdictOn

\* The outcome of a reconciliation takes the job from a run that is not active.
LEMMA ResolveInv ==
    ASSUME RunInv, ResolveOrphanedRun, UNCHANGED phase
    PROVE  RunInv'
<1> USE DEF session
<1>1. /\ dsp \in Dispatcher /\ JobShape /\ UsedShape
      /\ dsp.run \in RunIds /\ live[dsp.run] = None
  BY DEF ResolveOrphanedRun, RunInv, OrphanedRun
<1>2. Holds(dsp.run) /\ UNCHANGED <<live, used>>
  BY DEF ResolveOrphanedRun
<1>3. CompleteJob \/ FailJobTerminally \/ \E semantic \in BOOLEAN : DeferJob(semantic)
  BY DEF ResolveOrphanedRun
<1>4. JobShape' /\ NobodyHolds'
  BY <1>1, <1>2, <1>3, JobReleased
<1>5. dsp' \in {Drained(dsp), Drained(Woken(dsp)), Drained(Armed(dsp))}
  BY DEF ResolveOrphanedRun
<1>6. dsp' \in Dispatcher /\ dsp'.pc \in {"idle", "queued"}
  BY <1>1, <1>5, DrainedDispatcher, WokenDispatcher, ArmedDispatcher
<1>7. phase # "down"
  BY NewDispatcherType DEF ResolveOrphanedRun, RunInv, NoDispatcherWhenDown
<1>8. UsedShape' /\ used'.runs = used.runs
  BY <1>1, <1>2 DEF UsedShape
<1> QED
  BY <1>1, <1>2, <1>4, <1>6, <1>7, <1>8, RunEnds

\* A failed start takes the job back before anything was sent for its run.
LEMMA StartThrowsInv ==
    ASSUME RunInv, StartThrows, UNCHANGED phase
    PROVE  RunInv'
<1> USE DEF session
<1>1. dsp \in Dispatcher /\ JobShape /\ UsedShape /\ dsp.run \in RunIds
  BY DEF StartThrows, RunInv, StartingRun
<1>2. Holds(dsp.run) /\ DeferJob(FALSE)
  BY DEF StartThrows
<1>3. JobShape' /\ NobodyHolds'
  BY <1>1, <1>2, JobReleased
<1>4. dsp' \in Dispatcher /\ dsp'.pc \in {"idle", "queued"}
  <2>1. [dsp EXCEPT !.mine = @ \ {dsp.run}] \in Dispatcher
    BY <1>1 DEF Dispatcher
  <2> QED
    BY <2>1, DrainedDispatcher, WokenDispatcher DEF StartThrows
<1>5. phase # "down"
  BY NewDispatcherType DEF StartThrows, RunInv, NoDispatcherWhenDown
<1>6. UsedShape' /\ used'.runs = used.runs
  BY <1>1, FaultUsed DEF StartThrows, UsedShape
<1>7. \/ live' = [live EXCEPT ![dsp.run] = None]
      \/ live' = live /\ (live[dsp.run] # None => live[dsp.run].stage # "running")
  BY <1>1 DEF StartThrows, RunInv, StartingRun, InStage
<1> QED
  BY <1>1, <1>2, <1>3, <1>4, <1>5, <1>6, <1>7, RunEnds

\* Every step of the dispatcher preserves the invariant.
LEMMA DispatcherStepInv ==
    ASSUME RunInv, DispatcherStep
    PROVE  RunInv'
<1> USE DEF ledger, encrypted, session
<1>1. UNCHANGED phase
  BY DEF DispatcherStep
<1>2. dsp \in Dispatcher /\ UsedShape /\ JobShape
  BY DEF RunInv
<1>3. phase # "down" \/ (dsp.pc = "idle" /\ ~dsp.on)
  BY NewDispatcherType DEF RunInv, NoDispatcherWhenDown
<1>4. CASE RetryTimerFires
  <2>1. [dsp EXCEPT !.timer = FALSE] \in Dispatcher
    BY <1>2 DEF Dispatcher
  <2>2. DispatcherQuiet
    BY ZenonT(30), <1>2, <1>3, <1>4, <2>1, WokenDispatcher
    DEF RetryTimerFires, DispatcherQuiet, Dispatcher
  <2> QED
    BY <1>1, <1>2, <1>4, <2>2, QuietStep DEF RetryTimerFires, NoHolderChange, UsedShape
<1>5. CASE DrainIdles
  BY <1>1, <1>2, <1>3, <1>5, DrainEnds DEF DrainIdles, UsedShape
<1>6. CASE DrainNotDue
  BY <1>1, <1>2, <1>3, <1>6, DrainEnds, ArmedDispatcher DEF DrainNotDue, UsedShape
<1>7. CASE DrainReconciles
  <2>1. dsp' = Reconciling(dsp) /\ UNCHANGED <<live, job, used>> /\ phase # "down"
    BY <1>3, <1>7 DEF DrainReconciles
  <2>2. /\ dsp' \in Dispatcher
        /\ \/ dsp'.pc \in {"idle", "queued"}
           \/ dsp'.pc = "reconcile" /\ dsp'.run \in RunIds /\ live[dsp'.run] = None
    BY <1>2, <1>7, <2>1, ReconcilingDispatcher DEF DrainReconciles
  <2>3. JobShape' /\ LiveShape' /\ UsedShape' /\ FreshRuns'
        /\ NoDispatcherWhenDown'
    BY <1>1, <2>1 DEF RunInv, JobShape, LiveShape, UsedShape, FreshRuns, NoDispatcherWhenDown
  <2>4. StartingRun' /\ OrphanedRun'
    BY <2>1, <2>2 DEF StartingRun, OrphanedRun
  <2>5. OneOpenRun'
    BY <2>1 DEF RunInv, OneOpenRun, Holds, InStage
  <2> QED
    BY <2>2, <2>3, <2>4, <2>5 DEF RunInv
<1>8. CASE DrainClaims
  BY <1>1, <1>8, DrainClaimsInv
<1>9. CASE ReadOrphanedRun
  <2>1. /\ dsp.pc = "reconcile" /\ UNCHANGED <<live, job, used>>
        /\ dsp' = [dsp EXCEPT !.pc = "resolve", !.verdict = VerdictOn(dsp.run)]
    BY <1>9 DEF ReadOrphanedRun
  <2>2. dsp' \in Dispatcher /\ dsp'.pc = "resolve" /\ dsp'.run = dsp.run
    BY <1>2, <2>1, VerdictType DEF Dispatcher
  <2>3. JobShape' /\ LiveShape' /\ UsedShape' /\ FreshRuns'
        /\ NoDispatcherWhenDown'
    BY <1>1, <1>3, <2>1 DEF RunInv, JobShape, LiveShape, UsedShape, FreshRuns, NoDispatcherWhenDown
  <2>4. StartingRun' /\ OrphanedRun'
    BY <2>1, <2>2 DEF RunInv, StartingRun, OrphanedRun
  <2>5. OneOpenRun'
    BY <2>1 DEF RunInv, OneOpenRun, Holds, InStage
  <2> QED
    BY <2>2, <2>3, <2>4, <2>5 DEF RunInv
<1>10. CASE ReconciliationThrows
  <2>1. UsedShape' /\ used'.runs = used.runs
    BY <1>2, <1>10, FaultUsed DEF ReconciliationThrows, UsedShape
  <2> QED
    BY <1>1, <1>2, <1>3, <1>10, <2>1, DrainEnds, ArmedDispatcher
    DEF ReconciliationThrows
<1>11. CASE ResolveOrphanedRun
  BY <1>1, <1>11, ResolveInv
<1>12. CASE StartPersists
  BY <1>1, <1>12, StartPersistsInv
<1>13. CASE StartRequests
  BY <1>1, <1>13, StartRequestsInv
<1>14. CASE StartThrows
  BY <1>1, <1>14, StartThrowsInv
<1> QED
  BY <1>4, <1>5, <1>6, <1>7, <1>8, <1>9, <1>10, <1>11, <1>12, <1>13, <1>14
  DEF DispatcherStep, DispatcherDrains

----------------------------------------------------------------------------
(* Lifecycle, sessions, crashes *)

\* Marking runs old changes nothing else about them.
LEMMA MarkOldRuns ==
    ASSUME LiveShape
    PROVE  /\ MarkOld = [r \in RunIds |-> MarkOld[r]]
           /\ \A r \in RunIds :
                /\ live[r] = None => MarkOld[r] = None
                /\ live[r] # None =>
                     /\ MarkOld[r] # None /\ MarkOld[r].old
                     /\ MarkOld[r].stage = live[r].stage
                     /\ {"stage", "old"} \subseteq DOMAIN MarkOld[r]
<1>1. MarkOld = [r \in RunIds |-> MarkOld[r]]
  BY DEF MarkOld
<1>2. ASSUME NEW r \in RunIds, live[r] = None
      PROVE  MarkOld[r] = None
  BY <1>2 DEF MarkOld
<1>3. ASSUME NEW r \in RunIds, live[r] # None
      PROVE  /\ MarkOld[r] # None /\ MarkOld[r].old
             /\ MarkOld[r].stage = live[r].stage
             /\ {"stage", "old"} \subseteq DOMAIN MarkOld[r]
  <2>1. MarkOld[r] = [live[r] EXCEPT !.old = TRUE] /\ {"stage", "old"} \subseteq DOMAIN live[r]
    BY <1>3 DEF MarkOld, LiveShape
  <2>2. /\ MarkOld[r].old /\ MarkOld[r].stage = live[r].stage
        /\ {"stage", "old"} \subseteq DOMAIN MarkOld[r]
    BY <2>1
  <2>3. MarkOld[r] # None
    BY <2>2, RowIsNotNone
  <2> QED
    BY <2>2, <2>3
<1> QED
  BY <1>1, <1>2, <1>3

\* Behind the activation barrier no run is open, whatever the new session is.
LEMMA StartBundleInv ==
    ASSUME RunInv, StartBundle
    PROVE  RunInv'
<1> USE DEF session
<1>1. /\ NoHolderChange /\ JobShape /\ LiveShape /\ UsedShape
      /\ BarrierPassed /\ live' \in {live, MarkOld}
      /\ used' = used /\ phase' = "recovering"
  BY RecoverJobsJob DEF StartBundle, RunInv
<1>2. \A r \in RunIds :
        /\ live[r] = None => live'[r] = None
        /\ live[r] # None => /\ live'[r] # None /\ live'[r].stage = live[r].stage
                             /\ {"stage", "old"} \subseteq DOMAIN live'[r]
  BY <1>1, MarkOldRuns DEF LiveShape
<1>3. live' = [r \in RunIds |-> live'[r]]
  BY <1>1, MarkOldRuns DEF LiveShape
<1>4. /\ dsp' \in Dispatcher
      /\ \/ dsp'.pc \in {"idle", "queued"}
         \/ dsp'.pc = "reconcile" /\ dsp'.run \in RunIds /\ live[dsp'.run] = None
  BY <1>1, NewDispatcherType, ReconcilingDispatcher DEF StartBundle
<1>5. JobShape' /\ UsedShape'
  BY <1>1 DEF JobShape, NoHolderChange, UsedShape
<1>6. LiveShape' /\ FreshRuns' /\ NoDispatcherWhenDown'
  BY <1>1, <1>2, <1>3 DEF RunInv, LiveShape, FreshRuns,
                          NoDispatcherWhenDown
<1>7. StartingRun' /\ OrphanedRun'
  BY <1>2, <1>4 DEF StartingRun, OrphanedRun
<1>8. OneOpenRun'
  BY <1>1, <1>2 DEF OneOpenRun, BarrierPassed, InStage, OpenStages
<1> QED
  BY <1>4, <1>5, <1>6, <1>7, <1>8 DEF RunInv

\* Starting, recovering, stopping and releasing the bundle open no run.
LEMMA LifecycleInv ==
    ASSUME RunInv, Lifecycle
    PROVE  RunInv'
<1> USE DEF ledger, encrypted, dispatch, session, delivery
<1>1. dsp \in Dispatcher /\ UsedShape
  BY DEF RunInv
<1>2. CASE StartBundle
  BY <1>2, StartBundleInv
<1>3. CASE RecoveryThrows
  <2>1. UsedShape' /\ used'.runs = used.runs
    BY <1>1, <1>3, FaultUsed DEF RecoveryThrows, UsedShape
  <2>2. DispatcherQuiet
    BY <1>1, <1>3, DrainedDispatcher DEF RecoveryThrows, DispatcherQuiet
  <2> QED
    BY <1>3, <2>1, <2>2, QuietStep DEF RecoveryThrows, NoHolderChange
<1>4. CASE ListWindows \/ StopBundle
  <2>1. DispatcherQuiet
    BY <1>1, <1>4 DEF ListWindows, StopBundle, DispatcherQuiet
  <2> QED
    BY <1>1, <1>4, <2>1, QuietStep DEF ListWindows, StopBundle, NoHolderChange, UsedShape
<1>5. CASE PersistListedWindow
  <2>1. DispatcherQuiet
    BY <1>1, <1>5 DEF PersistListedWindow, DispatcherQuiet
  <2> QED
    BY <1>1, <1>5, <2>1, QuietStep DEF PersistListedWindow, Enqueue, NoHolderChange, UsedShape
<1>6. CASE FinishActivation
  <2>1. [dsp EXCEPT !.on = TRUE] \in Dispatcher
    BY <1>1 DEF Dispatcher
  <2>2. DispatcherQuiet
    BY <1>1, <1>6, <2>1, WokenDispatcher DEF FinishActivation, DispatcherQuiet, Dispatcher
  <2>3. NoHolderChange
    BY <1>6, RecoverJobsJob DEF FinishActivation
  <2> QED
    BY <1>1, <1>6, <2>2, <2>3, QuietStep DEF FinishActivation, UsedShape
<1>7. CASE StopDispatcher
  <2>1. DispatcherQuiet
    BY <1>1, <1>7 DEF StopDispatcher, DispatcherQuiet, Dispatcher
  <2> QED
    BY <1>1, <1>7, <2>1, QuietStep DEF StopDispatcher, NoHolderChange, UsedShape
<1>8. CASE ReleaseBundle
  <2>1. /\ UNCHANGED <<live, job, used>>
        /\ dsp' = NewDispatcher /\ NewDispatcher \in Dispatcher
        /\ NewDispatcher.pc = "idle"
    BY <1>8, NewDispatcherType DEF ReleaseBundle
  <2>2. JobShape' /\ LiveShape' /\ UsedShape' /\ FreshRuns'
        /\ NoDispatcherWhenDown'
    BY <2>1 DEF RunInv, JobShape, LiveShape, UsedShape, FreshRuns,
                NoDispatcherWhenDown
  <2>3. StartingRun' /\ OrphanedRun'
    BY <2>1 DEF StartingRun, OrphanedRun
  <2>4. OneOpenRun'
    BY <2>1 DEF RunInv, OneOpenRun, Holds, InStage
  <2> QED
    BY <2>1, <2>2, <2>3, <2>4 DEF RunInv
<1> QED
  BY <1>2, <1>3, <1>4, <1>5, <1>6, <1>7, <1>8 DEF Lifecycle

\* Signing out makes every run stale at once; a stale run is no longer counted.
LEMMA SignOutInv ==
    ASSUME RunInv, SignOut
    PROVE  RunInv'
<1> USE DEF ledger
<1>1. /\ live' = MarkOld /\ UNCHANGED <<job, dsp, phase>> /\ LiveShape /\ UsedShape
      /\ used' = [used EXCEPT !.rotations = @ + 1]
  BY DEF SignOut, RunInv
<1>2. \A r \in RunIds :
        /\ live[r] = None => live'[r] = None
        /\ live[r] # None => /\ live'[r] # None /\ live'[r].old
                             /\ live'[r].stage = live[r].stage
                             /\ {"stage", "old"} \subseteq DOMAIN live'[r]
  BY <1>1, MarkOldRuns
<1>3. live' = [r \in RunIds |-> live'[r]]
  BY <1>1, MarkOldRuns
<1>4. UsedShape' /\ used'.runs = used.runs
  BY <1>1 DEF UsedShape
<1>5. dsp' \in Dispatcher /\ JobShape' /\ NoDispatcherWhenDown'
  BY <1>1 DEF RunInv, JobShape, NoDispatcherWhenDown
<1>6. LiveShape' /\ FreshRuns'
  BY <1>2, <1>3, <1>4 DEF RunInv, LiveShape, FreshRuns
<1>7. StartingRun' /\ OrphanedRun'
  BY <1>1, <1>2, <1>4 DEF RunInv, StartingRun, OrphanedRun, InStage, Holds
<1>8. OneOpenRun'
  BY <1>2 DEF OneOpenRun, InStage
<1> QED
  BY <1>4, <1>5, <1>6, <1>7, <1>8 DEF RunInv

\* A crash empties the active map; the job it leaves running is an orphan.
LEMMA CrashInv ==
    ASSUME RunInv, Crash
    PROVE  RunInv'
<1> USE DEF ledger
<1>1. /\ live' = [r \in RunIds |-> None] /\ dsp' = NewDispatcher
      /\ NewDispatcher \in Dispatcher /\ NewDispatcher.pc = "idle"
      /\ used' = [used EXCEPT !.crashes = @ + 1] /\ job' = job
  BY NewDispatcherType DEF Crash
<1>2. UsedShape' /\ JobShape'
  BY <1>1 DEF RunInv, UsedShape, JobShape
<1>3. LiveShape' /\ FreshRuns' /\ OneOpenRun'
  BY <1>1 DEF LiveShape, FreshRuns, OneOpenRun, InStage
<1>4. StartingRun' /\ OrphanedRun' /\ NoDispatcherWhenDown'
  BY <1>1 DEF StartingRun, OrphanedRun, NoDispatcherWhenDown
<1> QED
  BY <1>1, <1>2, <1>3, <1>4 DEF RunInv

\* The end of a job's backoff changes no holder: a waiting job has none.
LEMMA JobBackoffInv ==
    ASSUME RunInv, JobBackoffElapses, UNCHANGED <<dispatch, phase>>
    PROVE  RunInv'
<1> USE DEF dispatch, session
<1>1. /\ job # None /\ job.status = "retry_wait" /\ JobFields \subseteq DOMAIN job
      /\ job' = [job EXCEPT !.due = TRUE]
  BY DEF JobBackoffElapses, RunInv, JobShape
<1>2. JobFields \subseteq DOMAIN job' /\ job'.status = "retry_wait"
  BY <1>1 DEF JobFields
<1>3. JobShape' /\ \A r : ~Holds(r) /\ ~Holds(r)'
  BY <1>1, <1>2 DEF JobShape, Holds
<1>4. LiveShape' /\ dsp' \in Dispatcher /\ UsedShape' /\ FreshRuns'
      /\ OrphanedRun' /\ NoDispatcherWhenDown'
  BY DEF RunInv, LiveShape, UsedShape, FreshRuns, OrphanedRun,
         NoDispatcherWhenDown
<1>5. StartingRun'
  BY <1>3 DEF RunInv, StartingRun
<1>6. OneOpenRun'
  BY <1>3 DEF RunInv, OneOpenRun, InStage
<1> QED
  BY <1>3, <1>4, <1>5, <1>6 DEF RunInv

\* Sealing, retention, a token refresh and the end of a window's backoff touch
\* neither a run nor the job.
LEMMA OtherStepsInv ==
    ASSUME RunInv,
           \/ SealWindow(phase = "starting") /\ UNCHANGED <<phase, listed>>
           \/ RefreshSession
           \/ \E r \in RunIds : CleanupRun(r)
           \/ /\ \E w \in Windows : BackoffElapses(w)
              /\ UNCHANGED <<encrypted, dispatch, delivery, phase, listed>>
    PROVE  RunInv'
<1> USE DEF ledger, dispatch, session
<1>1. UNCHANGED <<job, live, dsp, phase>>
  BY DEF SealWindow, RefreshSession, CleanupRun, BackoffElapses
<1>2. UsedShape' /\ used'.runs = used.runs
  BY DEF SealWindow, RefreshSession, CleanupRun, RunInv, UsedShape
<1>4. JobShape' /\ LiveShape' /\ dsp' \in Dispatcher /\ FreshRuns'
      /\ NoDispatcherWhenDown'
  BY <1>1, <1>2
  DEF RunInv, JobShape, LiveShape, FreshRuns, NoDispatcherWhenDown
<1>5. StartingRun' /\ OrphanedRun' /\ OneOpenRun'
  BY <1>1, <1>2 DEF RunInv, StartingRun, OrphanedRun, OneOpenRun, InStage, Holds
<1> QED
  BY <1>2, <1>4, <1>5 DEF RunInv

----------------------------------------------------------------------------
(* The theorem *)

\* When the application is first started there is no job and no run.
LEMMA RunInvInit == Init => RunInv
<1> SUFFICES ASSUME Init PROVE RunInv
  OBVIOUS
<1>1. job = None /\ live = [r \in RunIds |-> None] /\ dsp = NewDispatcher
      /\ used = [crashes |-> 0, rotations |-> 0, faults |-> 0, runs |-> 0]
  BY DEF Init, LedgerInit, DispatchInit
<1> QED
  BY <1>1, NewDispatcherType
  DEF RunInv, JobShape, LiveShape, UsedShape, FreshRuns, StartingRun, OrphanedRun, NoDispatcherWhenDown, OneOpenRun, InStage

\* Every step, and every stuttering step, preserves the invariant.
LEMMA RunInvNext == RunInv /\ [Next]_vars => RunInv'
<1> SUFFICES ASSUME RunInv, [Next]_vars PROVE RunInv'
  OBVIOUS
<1>1. CASE UNCHANGED vars
  BY <1>1
  DEF vars, ledger, dispatch, session, RunInv, JobShape, LiveShape, UsedShape, FreshRuns,
      StartingRun, OrphanedRun, NoDispatcherWhenDown, OneOpenRun,
      InStage, Holds
<1>2. CASE Next
  <2>1. CASE TimePasses
    BY <2>1, JobBackoffInv, OtherStepsInv DEF TimePasses
  <2> QED
    BY <1>2, <2>1, LifecycleInv, DeliveryQuiet, DispatcherStepInv, RunStepInv, SignOutInv,
       CrashInv, OtherStepsInv DEF Next
<1> QED
  BY <1>1, <1>2

\* At most one activity run is at the model, and it is the one that holds the
\* job, through every wake, retry, restart, refresh and sign-out and for any
\* number of them (reconcileRunningJob, startClaimedJob, finishRun,
\* cancelAllForAccount and quiesceActivityRunsForSessionTransition).
THEOREM OneOpenRunHolds == Spec => []OneOpenRun
<1>1. RunInv => OneOpenRun
  BY DEF RunInv
<1> QED
  BY <1>1, RunInvInit, RunInvNext, PTL DEF Spec

----------------------------------------------------------------------------
(* The invariant of the ledger and the delivery service *)

\* The tables are keyed by window, and their rows have the columns that are
\* updated in place.
LedgerShape ==
    /\ outbox = [w \in Windows |-> outbox[w]]
    /\ receipts = [w \in Windows |-> receipts[w]]
    /\ \A w \in Windows :
         outbox[w] # None => {"sem", "terminal", "due"} \subseteq DOMAIN outbox[w]
    /\ job # None => "windows" \in DOMAIN job

ServiceShape ==
    {"on", "pc", "w", "k", "score", "trig", "timer"} \subseteq DOMAIN dlv

\* The outbox row and the receipt of a window are under one request id.
SameRequest ==
    \A w \in Windows : outbox[w] # None /\ receipts[w] # None =>
        outbox[w].sem = receipts[w].sem

\* The windows of a job have receipts.
JobIsReceived ==
    job # None => \A w \in job.windows : w \in Windows /\ receipts[w] # None

\* A job that has been claimed has no window left in the outbox.
AckGate ==
    job # None /\ job.status = "running" =>
        \A w \in job.windows : outbox[w] = None

\* The window that deliver() works on is in the outbox under the request id that
\* was read, and it has a receipt exactly from apply on.
InHand ==
    dlv.pc # "idle" =>
        /\ dlv.w \in Windows /\ outbox[dlv.w] # None /\ outbox[dlv.w].sem = dlv.k
        /\ receipts[dlv.w] # None <=> dlv.pc \in {"ack", "ackApplied"}

\* A window with a receipt leaves the outbox only after Reflection released it.
ReleasedSource ==
    \A w \in Windows : receipts[w] # None /\ outbox[w] = None => w \notin source

\* Nothing is known of a window that has not been sealed.
Sealed(w) == w <= sealed
SealedOnly ==
    /\ sealed \in Nat
    /\ source \subseteq Windows /\ \A w \in source : Sealed(w)
    /\ listed \subseteq Windows /\ \A w \in listed : Sealed(w)
    /\ notify \in Nat /\ Sealed(notify)
    /\ tail \in Seq(Nat) /\ \A i \in 1..Len(tail) : Sealed(tail[i])
    /\ \A w \in Windows : outbox[w] # None \/ receipts[w] # None => Sealed(w)

DeliveryInv ==
    /\ LedgerShape /\ ServiceShape
    /\ SameRequest /\ JobIsReceived /\ AckGate /\ InHand
    /\ ReleasedSource /\ SealedOnly

----------------------------------------------------------------------------
(* Facts about the operators *)

\* Windows and run ids are natural numbers from 1 on.
LEMMA WindowsNat == Windows \subseteq Nat /\ 0 \notin Windows
                    /\ RunIds \subseteq Nat /\ 0 \notin RunIds
BY StoreConstants DEF Windows, RunIds

\* The oldest receipts are receipts.
LEMMA OldestReceived ==
    ASSUME NEW rows, NEW n
    PROVE  \A w \in Oldest(rows, n) : w \in Windows /\ rows[w] # None
BY DEF Oldest

\* A new job takes its windows from the stored receipts.
LEMMA MaterializeWindows ==
    ASSUME NEW rows, NEW total, NEW existing, Materialize(rows, total, existing)
    PROVE  /\ existing # None => job' = existing
           /\ existing = None /\ job' # None =>
                /\ "windows" \in DOMAIN job' /\ job'.status = "pending"
                /\ \A w \in job'.windows : w \in Windows /\ rows[w] # None
<1>1. existing # None => job' = existing
  BY DEF Materialize
<1>2. ASSUME existing = None, job' # None
      PROVE  /\ "windows" \in DOMAIN job' /\ job'.status = "pending"
             /\ \A w \in job'.windows : w \in Windows /\ rows[w] # None
  <2>1. \E n : /\ "windows" \in DOMAIN job' /\ job'.status = "pending"
               /\ job'.windows = Oldest(rows, n)
    BY <1>2 DEF Materialize
  <2> QED
    BY <2>1, OldestReceived
<1> QED
  BY <1>1, <1>2

\* Queues of sealed windows stay such when operations are added and removed.
LEMMA QueueBounds ==
    ASSUME NEW n \in Nat, NEW t \in Seq(Nat), \A i \in 1..Len(t) : t[i] <= n
    PROVE  /\ t # <<>> => /\ Head(t) \in Nat /\ Head(t) <= n
                          /\ Tail(t) \in Seq(Nat)
                          /\ \A i \in 1..Len(Tail(t)) : Tail(t)[i] <= n
           /\ \A x \in Nat : x <= n => /\ Append(t, x) \in Seq(Nat)
                                       /\ \A i \in 1..Len(Append(t, x)) : Append(t, x)[i] <= n
<1>1. t # <<>> => /\ Head(t) \in Nat /\ Head(t) <= n
                  /\ Tail(t) \in Seq(Nat)
                  /\ \A i \in 1..Len(Tail(t)) : Tail(t)[i] <= n
  OBVIOUS
<1>2. ASSUME NEW x \in Nat, x <= n
      PROVE  /\ Append(t, x) \in Seq(Nat)
             /\ \A i \in 1..Len(Append(t, x)) : Append(t, x)[i] <= n
  BY <1>2
<1> QED
  BY <1>1, <1>2

\* kickDrain adds at most the drain, which is no window.
LEMMA KickedBounds ==
    ASSUME NEW n \in Nat, NEW t \in Seq(Nat), \A i \in 1..Len(t) : t[i] <= n
    PROVE  /\ Kicked(t) \in Seq(Nat)
           /\ \A i \in 1..Len(Kicked(t)) : Kicked(t)[i] <= n
<1>1. Kicked(t) = t \/ Kicked(t) = Append(t, 0)
  BY DEF Kicked, DrainOp
<1>2. /\ Append(t, 0) \in Seq(Nat)
      /\ \A i \in 1..Len(Append(t, 0)) : Append(t, 0)[i] <= n
  OBVIOUS
<1> QED
  BY <1>1, <1>2

\* The transition from one outbox to the next keeps every row, with its columns;
\* a row may get a new request id only while it has no receipt.
RowsKept ==
    /\ outbox' = [w \in Windows |-> outbox'[w]]
    /\ \A w \in Windows : outbox'[w] = None <=> outbox[w] = None
    /\ \A w \in Windows : outbox[w] # None =>
         /\ {"sem", "terminal", "due"} \subseteq DOMAIN outbox'[w]
         /\ outbox'[w].sem = outbox[w].sem \/ receipts[w] = None

\* A row that is updated in place in its due and terminal columns is kept.
LEMMA RowTouched ==
    ASSUME LedgerShape, NEW w \in Windows, outbox[w] # None,
           DeferWindow(w) \/ MarkTerminal(w) \/ BackoffElapses(w)
    PROVE  /\ RowsKept /\ UNCHANGED <<receipts, score, trigger, job>>
           /\ \A v \in Windows : outbox[v] # None => outbox'[v].sem = outbox[v].sem
<1>1. PICK row : /\ outbox' = [outbox EXCEPT ![w] = row]
                 /\ DOMAIN row = DOMAIN outbox[w] /\ row.sem = outbox[w].sem
  BY DEF DeferWindow, MarkTerminal, BackoffElapses, LedgerShape
<1>2. row # None
  BY <1>1, RowIsNotNone DEF LedgerShape
<1>3. outbox' = [v \in Windows |-> IF v = w THEN row ELSE outbox[v]]
  BY <1>1 DEF LedgerShape
<1>4. UNCHANGED <<receipts, score, trigger, job>>
  BY DEF DeferWindow, MarkTerminal, BackoffElapses
<1> QED
  BY <1>1, <1>2, <1>3, <1>4 DEF RowsKept, LedgerShape

\* advanceSemanticAttempt keeps the row of a window without a receipt.
LEMMA RowAdvanced ==
    ASSUME LedgerShape, NEW w \in Windows, outbox[w] # None, receipts[w] = None,
           AdvanceSemanticAttempt(w)
    PROVE  RowsKept /\ UNCHANGED <<receipts, score, trigger, job>>
<1>1. PICK row : /\ outbox' = [outbox EXCEPT ![w] = row]
                 /\ DOMAIN row = DOMAIN outbox[w]
  <2>1. CASE outbox[w].sem + 1 >= MaxSemanticAttempts
    <3>1. outbox' = [outbox EXCEPT ![w] = [outbox[w] EXCEPT !.terminal = TRUE]]
      BY <2>1 DEF AdvanceSemanticAttempt, LedgerShape
    <3>2. DOMAIN [outbox[w] EXCEPT !.terminal = TRUE] = DOMAIN outbox[w]
      OBVIOUS
    <3> QED
      BY <3>1, <3>2, Zenon
  <2>2. CASE ~(outbox[w].sem + 1 >= MaxSemanticAttempts)
    <3>1. outbox' = [outbox EXCEPT ![w] =
                       [outbox[w] EXCEPT !.sem = @ + 1, !.due = FALSE]]
      BY <2>2 DEF AdvanceSemanticAttempt, LedgerShape
    <3>2. DOMAIN [outbox[w] EXCEPT !.sem = @ + 1, !.due = FALSE] = DOMAIN outbox[w]
      OBVIOUS
    <3> QED
      BY <3>1, <3>2, Zenon
  <2> QED
    BY <2>1, <2>2
<1>2. row # None
  BY <1>1, RowIsNotNone DEF LedgerShape
<1>3. outbox' = [v \in Windows |-> IF v = w THEN row ELSE outbox[v]]
  BY <1>1 DEF LedgerShape
<1>4. UNCHANGED <<receipts, score, trigger, job>>
  BY DEF AdvanceSemanticAttempt
<1> QED
  BY <1>1, <1>2, <1>3, <1>4 DEF RowsKept, LedgerShape

\* An outbox that is left alone keeps its rows.
LEMMA RowsUnchanged ==
    ASSUME LedgerShape, UNCHANGED outbox
    PROVE  RowsKept
BY DEF RowsKept, LedgerShape

\* Where the queues and the sources of sealed windows are concerned, a step only
\* has to keep them within the sealed windows.
QueuesSealed ==
    /\ notify \in Nat /\ Sealed(notify)
    /\ tail \in Seq(Nat) /\ \A i \in 1..Len(tail) : Sealed(tail[i])

\* A step that keeps the rows of the outbox, the receipts and the job.
LEMMA RowsKeptStep ==
    ASSUME DeliveryInv, RowsKept, UNCHANGED <<receipts, job, sealed>>,
           source' \subseteq source, listed' \subseteq source \/ listed' \subseteq listed,
           ServiceShape', InHand', QueuesSealed'
    PROVE  DeliveryInv'
<1> USE DEF DeliveryInv
<1>1. LedgerShape'
  BY DEF LedgerShape, RowsKept
<1>2. SameRequest' /\ JobIsReceived' /\ AckGate' /\ ReleasedSource'
  BY DEF RowsKept, SameRequest, JobIsReceived, AckGate, ReleasedSource
<1>3. SealedOnly'
  BY DEF RowsKept, SealedOnly, QueuesSealed, Sealed
<1> QED
  BY <1>1, <1>2, <1>3

----------------------------------------------------------------------------
(* Steps of the delivery service *)

\* However deliver() returns, the service has no window in hand.
LEMMA ServiceReturns ==
    ASSUME DeliveryInv, tail # <<>>, Continue \/ EndDrain \/ EndDrainAndRetry,
           UNCHANGED <<notify, sealed>>
    PROVE  ServiceShape' /\ InHand' /\ QueuesSealed'
<1>1. ServiceShape' /\ dlv'.pc = "idle"
  BY DEF DeliveryInv, ServiceShape, Continue, EndDrain, EndDrainAndRetry, NextInLoop
<1>2. tail' = tail \/ tail' = Tail(tail)
  BY DEF Continue, EndDrain, EndDrainAndRetry
<1>3. QueuesSealed'
  BY <1>2, QueueBounds DEF DeliveryInv, SealedOnly, QueuesSealed, Sealed
<1> QED
  BY <1>1, <1>3 DEF InHand

\* enqueue adds a row only for a window that has neither row nor receipt.
LEMMA EnqueueStep ==
    ASSUME DeliveryInv, NEW w \in Nat, w <= sealed, Enqueue(w),
           UNCHANGED <<source, sealed>>, listed' \subseteq listed,
           UNCHANGED dlv, QueuesSealed'
    PROVE  DeliveryInv'
<1> USE DEF DeliveryInv
<1>1. UNCHANGED <<receipts, job>>
  BY DEF Enqueue
<1>2. \A v \in Windows : outbox'[v] = outbox[v]
                         \/ (v = w /\ outbox[v] = None /\ receipts[v] = None)
  BY DEF Enqueue, LedgerShape
<1>3. LedgerShape'
  BY <1>1 DEF Enqueue, LedgerShape
<1>4. SameRequest' /\ JobIsReceived' /\ AckGate' /\ ReleasedSource'
  BY <1>1, <1>2 DEF SameRequest, JobIsReceived, AckGate, ReleasedSource
<1>5. InHand' /\ ServiceShape'
  BY <1>1, <1>2 DEF InHand, ServiceShape
<1>6. SealedOnly'
  BY <1>1, <1>2 DEF SealedOnly, QueuesSealed, Sealed
<1> QED
  BY <1>3, <1>4, <1>5, <1>6

\* What apply does to the receipts and to the job.
LEMMA ApplyEffect ==
    ASSUME LedgerShape, NEW w \in Windows, receipts[w] = None, NEW s, Apply(w, s)
    PROVE  /\ UNCHANGED outbox
           /\ receipts' = [v \in Windows |-> receipts'[v]]
           /\ \A v \in Windows : v # w => receipts'[v] = receipts[v]
           /\ receipts'[w] # None /\ receipts'[w].sem = outbox[w].sem
           /\ job # None => job' = job
           /\ job = None /\ job' # None =>
                /\ "windows" \in DOMAIN job' /\ job'.status = "pending"
                /\ \A v \in job'.windows : v \in Windows /\ receipts'[v] # None
<1>1. UNCHANGED outbox /\ Materialize(receipts', score + s, job)
  BY DEF Apply
<1>2. PICK at : receipts' = [receipts EXCEPT ![w] =
                              [sem |-> outbox[w].sem, score |-> s, at |-> at]]
  BY DEF Apply
<1> DEFINE row == [sem |-> outbox[w].sem, score |-> s, at |-> at]
<1>4. row # None /\ row.sem = outbox[w].sem
  BY DEF None
<1>5. receipts' = [v \in Windows |-> IF v = w THEN row ELSE receipts[v]]
  BY <1>2 DEF LedgerShape
<1> HIDE DEF row
<1>3. /\ receipts' = [v \in Windows |-> receipts'[v]]
      /\ \A v \in Windows : v # w => receipts'[v] = receipts[v]
      /\ receipts'[w] # None /\ receipts'[w].sem = outbox[w].sem
  BY <1>4, <1>5
<1> QED
  BY <1>1, <1>3, MaterializeWindows

\* The receipt comes under the request id of the row, which stays.
LEMMA ApplyStep ==
    ASSUME DeliveryInv, dlv.pc \in {"recover", "apply"}, NEW s, Apply(dlv.w, s),
           UNCHANGED <<source, sealed, notify, tail, listed>>,
           dlv'.pc = "ack", dlv'.w = dlv.w, dlv'.k = dlv.k, ServiceShape'
    PROVE  DeliveryInv'
<1> USE DEF DeliveryInv
<1>1. dlv.w \in Windows /\ receipts[dlv.w] = None /\ outbox[dlv.w] # None
      /\ outbox[dlv.w].sem = dlv.k
  BY DEF InHand
<1>2. /\ UNCHANGED outbox
      /\ receipts' = [v \in Windows |-> receipts'[v]]
      /\ \A v \in Windows : v # dlv.w => receipts'[v] = receipts[v]
      /\ receipts'[dlv.w] # None /\ receipts'[dlv.w].sem = outbox[dlv.w].sem
      /\ job # None => job' = job
      /\ job = None /\ job' # None =>
           /\ "windows" \in DOMAIN job' /\ job'.status = "pending"
           /\ \A v \in job'.windows : v \in Windows /\ receipts'[v] # None
  BY <1>1, ApplyEffect
<1>3. LedgerShape'
  BY <1>2 DEF LedgerShape
<1>4. SameRequest' /\ ReleasedSource'
  BY <1>1, <1>2 DEF SameRequest, ReleasedSource
<1>5. JobIsReceived' /\ AckGate'
  BY <1>1, <1>2 DEF JobIsReceived, AckGate
<1>6. InHand'
  BY <1>1, <1>2 DEF InHand
<1>7. SealedOnly'
  BY <1>1, <1>2 DEF SealedOnly, Sealed
<1> QED
  BY <1>3, <1>4, <1>5, <1>6, <1>7

\* The row is deleted together with the attribution in Reflection.
LEMMA AcknowledgeStep ==
    ASSUME DeliveryInv, AcknowledgeSource, UNCHANGED listed
    PROVE  DeliveryInv'
<1> USE DEF DeliveryInv
<1>1. /\ dlv.pc # "idle" /\ tail # <<>>
      /\ source' = source \ {dlv.w} /\ UNCHANGED <<sealed, notify, receipts, job>>
      /\ Continue
  BY DEF AcknowledgeSource, Acknowledging, Draining, DeleteOutbox
<1>2. dlv.w \in Windows
  BY <1>1 DEF InHand
<1>3. outbox' = [v \in Windows |-> IF v = dlv.w THEN None ELSE outbox[v]]
  BY <1>2 DEF AcknowledgeSource, DeleteOutbox, LedgerShape
<1>4. ServiceShape' /\ InHand' /\ QueuesSealed'
  BY <1>1, ServiceReturns
<1>5. LedgerShape' /\ SameRequest' /\ JobIsReceived' /\ AckGate' /\ ReleasedSource'
  BY <1>1, <1>3
  DEF LedgerShape, SameRequest, JobIsReceived, AckGate, ReleasedSource
<1>6. SealedOnly'
  BY <1>1, <1>3, <1>4 DEF SealedOnly, QueuesSealed, Sealed
<1> QED
  BY <1>4, <1>5, <1>6

\* A step of deliver() that leaves the tables of the ledger alone.
LEMMA ServiceMoves ==
    ASSUME DeliveryInv, UNCHANGED <<ledger, sealed, listed, notify>>,
           source' = source, ServiceShape', InHand', QueuesSealed'
    PROVE  DeliveryInv'
BY RowsUnchanged, RowsKeptStep DEF DeliveryInv, ledger

\* A return from deliver() after the row in hand was deferred, marked terminal or
\* given its next request id.
LEMMA ServiceGivesUp ==
    ASSUME DeliveryInv, dlv.pc # "idle", tail # <<>>,
           Continue \/ EndDrain \/ EndDrainAndRetry,
           \/ DeferWindow(dlv.w) \/ MarkTerminal(dlv.w)
           \/ receipts[dlv.w] = None /\ AdvanceSemanticAttempt(dlv.w),
           UNCHANGED <<source, sealed, notify, listed>>
    PROVE  DeliveryInv'
<1>1. LedgerShape /\ dlv.w \in Windows /\ outbox[dlv.w] # None
  BY DEF DeliveryInv, InHand
<1>2. RowsKept /\ UNCHANGED <<receipts, job>>
  BY <1>1, RowTouched, RowAdvanced
<1>3. ServiceShape' /\ InHand' /\ QueuesSealed'
  BY ServiceReturns
<1> QED
  BY <1>2, <1>3, RowsKeptStep

\* Every step of the delivery service preserves the invariant.
LEMMA DeliveryStepLedger ==
    ASSUME DeliveryInv, DeliveryStep
    PROVE  DeliveryInv'
<1> USE DEF dispatch, session, encrypted
<1>0. UNCHANGED listed /\ SealedOnly /\ ServiceShape /\ InHand /\ QueuesSealed
  BY DEF DeliveryStep, DeliveryInv, SealedOnly, QueuesSealed
<1>1. CASE DropNotification
  <2>1. UNCHANGED <<ledger, sealed, source, dlv>> /\ notify' = 0
        /\ tail # <<>> /\ tail' = Tail(tail)
    BY <1>1 DEF DropNotification, NoWindow
  <2>2. QueuesSealed'
    BY <1>0, <2>1, QueueBounds DEF SealedOnly, QueuesSealed, Sealed
  <2>3. RowsKept /\ UNCHANGED <<receipts, job>> /\ InHand' /\ ServiceShape'
    BY <1>0, <2>1, RowsUnchanged DEF DeliveryInv, ledger, InHand, ServiceShape
  <2> QED
    BY <1>0, <2>1, <2>2, <2>3, RowsKeptStep
<1>2. CASE RunEnqueue
  <2>1. UNCHANGED <<sealed, source, dlv>> /\ notify' = 0
        /\ tail # <<>> /\ tail' = Kicked(Tail(tail))
        /\ (Enqueue(Head(tail)) \/ UNCHANGED ledger)
    BY <1>2 DEF RunEnqueue, NoWindow
  <2>2. /\ Head(tail) \in Nat /\ Head(tail) <= sealed
        /\ Tail(tail) \in Seq(Nat)
        /\ \A i \in 1..Len(Tail(tail)) : Tail(tail)[i] <= sealed
    BY <1>0, <2>1, QueueBounds DEF SealedOnly, Sealed
  <2>3. QueuesSealed'
    <3>1. /\ sealed \in Nat /\ Kicked(Tail(tail)) \in Seq(Nat)
          /\ \A i \in 1..Len(Kicked(Tail(tail))) : Kicked(Tail(tail))[i] <= sealed
      BY <1>0, <2>2, KickedBounds DEF SealedOnly
    <3> QED
      BY <2>1, <3>1 DEF QueuesSealed, Sealed
  <2>4. CASE Enqueue(Head(tail))
    BY <1>0, <2>1, <2>2, <2>3, <2>4, EnqueueStep
  <2>5. CASE UNCHANGED ledger
    <3>1. RowsKept /\ UNCHANGED <<receipts, job>> /\ InHand' /\ ServiceShape'
      BY <1>0, <2>1, <2>5, RowsUnchanged DEF DeliveryInv, ledger, InHand, ServiceShape
    <3> QED
      BY <1>0, <2>1, <2>3, <3>1, RowsKeptStep
  <2> QED
    BY <2>1, <2>4, <2>5
<1>3. CASE RetryTimerKicks
  <2>1. UNCHANGED <<ledger, sealed, source, notify>> /\ tail' = Kicked(tail)
        /\ dlv' = [dlv EXCEPT !.timer = FALSE]
    BY <1>3 DEF RetryTimerKicks
  <2>2. QueuesSealed'
    BY <1>0, <2>1, KickedBounds DEF SealedOnly, QueuesSealed, Sealed
  <2>3. InHand' /\ ServiceShape'
    BY <1>0, <2>1 DEF ledger, InHand, ServiceShape
  <2> QED
    BY <1>0, <2>1, <2>2, <2>3, ServiceMoves
<1>4. CASE DrainStops \/ SessionChanged
  <2>1. UNCHANGED <<ledger, sealed, source, notify>> /\ tail # <<>>
        /\ (EndDrain \/ EndDrainAndRetry)
    BY <1>4 DEF DrainStops, SessionChanged, Draining
  <2> QED
    BY <1>0, <2>1, ServiceReturns, ServiceMoves
<1>5. CASE DeliverWindow
  <2>1. UNCHANGED <<ledger, sealed, source, notify, tail>>
    BY <1>5 DEF DeliverWindow
  <2>2. PICK w \in Deliverable :
          dlv' = [dlv EXCEPT !.w = w, !.k = outbox[w].sem,
                    !.pc = IF receipts[w] # None THEN "ackApplied" ELSE "recover"]
    BY <1>5 DEF DeliverWindow
  <2>3. w \in Windows /\ outbox[w] # None
    BY DEF Deliverable, Queued
  <2>4. ServiceShape' /\ dlv'.w = w /\ dlv'.k = outbox[w].sem
        /\ dlv'.pc = (IF receipts[w] # None THEN "ackApplied" ELSE "recover")
    BY <1>0, <2>2 DEF ServiceShape
  <2>5. InHand' /\ QueuesSealed'
    BY <1>0, <2>1, <2>3, <2>4 DEF InHand, QueuesSealed, Sealed, ledger
  <2> QED
    BY <1>0, <2>1, <2>4, <2>5, ServiceMoves
<1>6. CASE RecoverArchived
  <2>1. UNCHANGED <<source, sealed, notify>> /\ dlv.pc = "recover"
    BY <1>6 DEF RecoverArchived, Draining
  <2>2. CASE \E pc \in {"analyze", "ackConsumed"} : GoTo(pc) /\ UNCHANGED ledger
    <3>1. InHand' /\ ServiceShape' /\ QueuesSealed'
      BY <1>0, <2>1, <2>2 DEF GoTo, InHand, ServiceShape, QueuesSealed, Sealed, ledger
    <3> QED
      BY <1>0, <2>1, <2>2, <3>1, ServiceMoves
  <2>3. CASE /\ Apply(dlv.w, archive[dlv.w].score)
             /\ dlv' = [dlv EXCEPT !.pc = "ack", !.trig = job = None /\ job' # None]
             /\ UNCHANGED tail
    <3>1. ServiceShape' /\ dlv'.pc = "ack" /\ dlv'.w = dlv.w /\ dlv'.k = dlv.k
      BY <1>0, <2>3 DEF ServiceShape
    <3> QED
      BY <1>0, <2>1, <2>3, <3>1, ApplyStep
  <2> QED
    BY <1>6, <2>2, <2>3 DEF RecoverArchived
<1>7. CASE AnalyzeSucceeds \/ ArchiveAnalysis
  <2>1. UNCHANGED <<ledger, source, sealed, notify>> /\ tail # <<>>
        /\ dlv.pc \in {"analyze", "archive"}
    BY <1>7 DEF AnalyzeSucceeds, ArchiveAnalysis, Draining
  <2>2. CASE EndDrain
    BY <1>0, <2>1, <2>2, ServiceReturns, ServiceMoves
  <2>3. CASE /\ UNCHANGED tail
             /\ \/ \E s \in Scores : dlv' = [dlv EXCEPT !.pc = "archive", !.score = s]
                \/ dlv' = [dlv EXCEPT !.pc = "apply"]
    <3>1. InHand' /\ ServiceShape' /\ QueuesSealed'
      BY <1>0, <2>1, <2>3 DEF InHand, ServiceShape, QueuesSealed, Sealed, ledger
    <3> QED
      BY <1>0, <2>1, <2>3, <3>1, ServiceMoves
  <2> QED
    BY <1>7, <2>2, <2>3 DEF AnalyzeSucceeds, ArchiveAnalysis, GoTo
<1>8. CASE RecoverThrows \/ AnalyzeInvalid \/ AnalyzeThrows \/ ArchiveThrows
           \/ AcknowledgeThrows
  <2>1. /\ UNCHANGED <<source, sealed, notify>> /\ tail # <<>> /\ dlv.pc # "idle"
        /\ Continue \/ EndDrain \/ EndDrainAndRetry
        /\ \/ DeferWindow(dlv.w) \/ MarkTerminal(dlv.w)
           \/ dlv.pc = "analyze" /\ AdvanceSemanticAttempt(dlv.w)
    BY <1>8 DEF RecoverThrows, AnalyzeInvalid, AnalyzeThrows, ArchiveThrows,
                AcknowledgeThrows, Acknowledging, Draining, Throws
  <2>2. dlv.pc = "analyze" => receipts[dlv.w] = None
    BY <1>0 DEF InHand
  <2> QED
    BY <1>0, <2>1, <2>2, ServiceGivesUp
<1>9. CASE ApplyAnalysis
  <2>1. /\ UNCHANGED <<source, sealed, notify, tail>> /\ dlv.pc = "apply"
        /\ Apply(dlv.w, dlv.score)
        /\ dlv' = [dlv EXCEPT !.pc = "ack", !.trig = job = None /\ job' # None]
    BY <1>9 DEF ApplyAnalysis, Draining
  <2>2. ServiceShape' /\ dlv'.pc = "ack" /\ dlv'.w = dlv.w /\ dlv'.k = dlv.k
    BY <1>0, <2>1 DEF ServiceShape
  <2> QED
    BY <1>0, <2>1, <2>2, ApplyStep
<1>10. CASE AcknowledgeSource
  BY <1>0, <1>10, AcknowledgeStep
<1> QED
  BY <1>1, <1>2, <1>3, <1>4, <1>5, <1>6, <1>7, <1>8, <1>9, <1>10 DEF DeliveryStep

----------------------------------------------------------------------------
(* Steps of the dispatcher, of runs and of the bundle *)

\* What a step may do to the receipts and the job without touching the outbox:
\* nothing; make a job; move the job, which only a ready one does to "running";
\* or complete the job of a run that holds it.
JobKept == UNCHANGED <<receipts, job>>
JobMade ==
    /\ UNCHANGED receipts /\ job = None
    /\ job' # None => /\ "windows" \in DOMAIN job' /\ job'.status = "pending"
                      /\ \A w \in job'.windows : w \in Windows /\ receipts[w] # None
JobMoved ==
    /\ UNCHANGED receipts /\ job # None
    /\ DOMAIN job' = DOMAIN job /\ job'.windows = job.windows
    /\ job'.status = "running" => job.status = "running" \/ NextJobKind = "ready"
JobCompleted == (\E r : Holds(r)) /\ CompleteJob
JobStep == JobKept \/ JobMade \/ JobMoved \/ JobCompleted

\* With nothing left to acknowledge, no window of a job is in the outbox.
LEMMA ReadyIsAcknowledged ==
    ASSUME DeliveryInv, NextJobKind = "ready", job # None
    PROVE  \A w \in job.windows : outbox[w] = None
<1>1. ~HasPendingSourceAcknowledgement
  BY DEF NextJobKind
<1> QED
  BY <1>1
  DEF HasPendingSourceAcknowledgement, Queued, DeliveryInv, SameRequest, JobIsReceived

\* The gate is what keeps phase two away from the window in hand.
LEMMA JobStepLedger ==
    ASSUME DeliveryInv, JobShape, JobStep, UNCHANGED <<outbox, source, sealed, listed>>,
           ServiceShape', QueuesSealed',
           dlv'.pc = "idle" \/ (dlv'.pc = dlv.pc /\ dlv'.w = dlv.w /\ dlv'.k = dlv.k)
    PROVE  DeliveryInv'
<1> USE DEF DeliveryInv
<1>1. CASE JobKept \/ JobMade
  <2>1. LedgerShape' /\ SameRequest' /\ ReleasedSource'
    BY <1>1 DEF JobKept, JobMade, LedgerShape, SameRequest, ReleasedSource
  <2>2. JobIsReceived' /\ AckGate' /\ InHand'
    BY <1>1 DEF JobKept, JobMade, JobIsReceived, AckGate, InHand
  <2>3. SealedOnly'
    BY <1>1 DEF JobKept, JobMade, SealedOnly, QueuesSealed, Sealed
  <2> QED
    BY <2>1, <2>2, <2>3
<1>2. CASE JobMoved
  <2>1. LedgerShape' /\ SameRequest' /\ ReleasedSource'
    BY <1>2 DEF JobMoved, LedgerShape, SameRequest, ReleasedSource
  <2>2. JobIsReceived' /\ InHand'
    BY <1>2 DEF JobMoved, JobIsReceived, InHand
  <2>3. AckGate'
    BY <1>2, ReadyIsAcknowledged DEF JobMoved, AckGate
  <2>4. SealedOnly'
    BY <1>2 DEF JobMoved, SealedOnly, QueuesSealed, Sealed
  <2> QED
    BY <2>1, <2>2, <2>3, <2>4
<1>3. CASE JobCompleted
  <2>1. job # None /\ job.status = "running"
    BY <1>3 DEF JobCompleted, Holds
  <2>2. receipts' = [w \in Windows |-> IF w \in job.windows THEN None ELSE receipts[w]]
    BY <1>3 DEF JobCompleted, CompleteJob
  <2>3. \E total : Materialize(receipts', total, None)
    BY <1>3 DEF JobCompleted, CompleteJob
  <2>4. job' # None => /\ "windows" \in DOMAIN job' /\ job'.status = "pending"
                       /\ \A w \in job'.windows : w \in Windows /\ receipts'[w] # None
    BY <2>3, MaterializeWindows
  <2>5. \A w \in job.windows : outbox[w] = None
    BY <2>1 DEF AckGate
  <2>6. LedgerShape' /\ SameRequest' /\ ReleasedSource'
    BY <2>2, <2>4 DEF LedgerShape, SameRequest, ReleasedSource
  <2>7. JobIsReceived' /\ AckGate'
    BY <2>4 DEF JobIsReceived, AckGate
  <2>8. InHand'
    BY <2>2, <2>5 DEF InHand
  <2>9. SealedOnly'
    BY <2>2 DEF SealedOnly, QueuesSealed, Sealed
  <2> QED
    BY <2>6, <2>7, <2>8, <2>9
<1> QED
  BY <1>1, <1>2, <1>3 DEF JobStep

\* Deferring and giving up a job only move it.
LEMMA JobLetGo ==
    ASSUME LedgerShape, JobShape, job # None,
           (\E semantic \in BOOLEAN : DeferJob(semantic)) \/ FailJobTerminally
    PROVE  JobMoved /\ UNCHANGED outbox
BY DEF DeferJob, FailJobTerminally, JobMoved, LedgerShape, JobShape, JobFields

\* The dispatcher's drains, starts and reconciliations.
LEMMA DispatcherJobStep ==
    ASSUME DeliveryInv, JobShape, DispatcherStep
    PROVE  JobStep /\ UNCHANGED <<outbox, delivery, listed>>
<1> USE DEF ledger
<1>0. UNCHANGED <<delivery, listed>> /\ LedgerShape
  BY DEF DispatcherStep, DeliveryInv
<1>1. CASE UNCHANGED ledger
  BY <1>0, <1>1 DEF JobStep, JobKept
<1>2. CASE DrainClaims
  <2>1. PICK r : ClaimJob(r)
    BY <1>2 DEF DrainClaims
  <2>2. NextJobKind = "ready" /\ job # None
    BY <1>2 DEF DrainClaims, NextJobKind, ActiveJob
  <2> QED
    BY <1>0, <2>1, <2>2 DEF ClaimJob, JobStep, JobMoved, LedgerShape, JobShape, JobFields
<1>3. CASE ResolveOrphanedRun
  <2>1. Holds(dsp.run)
    BY <1>3 DEF ResolveOrphanedRun
  <2>2. CompleteJob \/ (\E semantic \in BOOLEAN : DeferJob(semantic)) \/ FailJobTerminally
    BY <1>3 DEF ResolveOrphanedRun
  <2> QED
    BY <1>0, <2>1, <2>2, JobLetGo DEF Holds, JobStep, JobCompleted, CompleteJob
<1>4. CASE StartThrows
  BY <1>0, <1>4, JobLetGo DEF StartThrows, Holds, JobStep
<1>5. UNCHANGED ledger \/ DrainClaims \/ ResolveOrphanedRun \/ StartThrows
  BY DEF DispatcherStep, DispatcherDrains, RetryTimerFires, DrainIdles, DrainNotDue,
         DrainReconciles, ReadOrphanedRun, ReconciliationThrows, StartPersists,
         StartRequests
<1> QED
  BY <1>1, <1>2, <1>3, <1>4, <1>5

\* The end of a run completes, defers or gives up the job that it holds.
LEMMA RunJobStep ==
    ASSUME DeliveryInv, JobShape, RunStep
    PROVE  JobStep /\ UNCHANGED <<outbox, delivery, listed>>
<1> USE DEF ledger
<1>0. UNCHANGED <<delivery, listed>> /\ LedgerShape
  BY DEF RunStep, DeliveryInv
<1>1. \/ UNCHANGED ledger
      \/ \E r \in RunIds :
           /\ Holds(r)
           /\ \/ CompleteJob \/ FailJobTerminally
              \/ \E semantic \in BOOLEAN : DeferJob(semantic)
  <2>1. PICK r \in RunIds :
          \/ SidecarCompletes(r) \/ SidecarFails(r) \/ SidecarExits(r)
          \/ EmitFailure(r) \/ PersistFailure(r)
          \/ CommitRun(r) \/ CommitThrows(r)
          \/ FinishRun(r, BundlePresent) \/ QuiesceRun(r)
          \/ CancelRun(r, BundlePresent)
    BY DEF RunStep
  <2>2. CASE FinishRun(r, BundlePresent)
    <3>1. JobAfterRun(r) \/ UNCHANGED ledger
      BY <2>2 DEF FinishRun
    <3>2. ASSUME NEW semantic, semantic = (ReportedClass(r) = "invalid-output")
          PROVE  semantic \in BOOLEAN
      BY <3>2
    <3> QED
      BY <3>1, <3>2 DEF JobAfterRun
  <2>3. CASE CancelRun(r, BundlePresent)
    BY <2>3 DEF CancelRun
  <2>4. CASE ~FinishRun(r, BundlePresent) /\ ~CancelRun(r, BundlePresent)
    BY <2>1, <2>4 DEF SidecarCompletes, SidecarFails, SidecarExits, EmitFailure,
         PersistFailure, CommitRun, CommitThrows, QuiesceRun
  <2> QED
    BY <2>2, <2>3, <2>4
<1>2. CASE UNCHANGED ledger
  BY <1>0, <1>2 DEF JobStep, JobKept
<1>3. ASSUME NEW r \in RunIds, Holds(r),
             \/ CompleteJob \/ FailJobTerminally
             \/ \E semantic \in BOOLEAN : DeferJob(semantic)
      PROVE  JobStep /\ UNCHANGED outbox
  BY <1>0, <1>3, JobLetGo DEF Holds, JobStep, JobCompleted, CompleteJob
<1> QED
  BY <1>0, <1>1, <1>2, <1>3

\* recoverActivityAnalysisJobs makes a job only when there is none.
LEMMA RecoverJobStep ==
    ASSUME RecoverJobs
    PROVE  JobStep /\ UNCHANGED outbox
<1>1. UNCHANGED <<outbox, receipts>> /\ Materialize(receipts, score, job)
  BY DEF RecoverJobs
<1>2. CASE job # None
  BY <1>1, <1>2, MaterializeWindows DEF JobStep, JobKept
<1>3. CASE job = None
  BY <1>1, <1>3, MaterializeWindows DEF JobStep, JobMade
<1> QED
  BY <1>1, <1>2, <1>3

\* Starting and stopping the bundle.
LEMMA LifecycleLedger ==
    ASSUME DeliveryInv, JobShape, Lifecycle
    PROVE  DeliveryInv'
<1> USE DEF delivery, ledger, encrypted, dispatch, session
<1>0. SealedOnly /\ ServiceShape /\ InHand /\ QueuesSealed /\ LedgerShape
  BY DEF DeliveryInv, SealedOnly, QueuesSealed
<1>1. CASE StartBundle
  <2>1. JobStep /\ UNCHANGED <<outbox, delivery, listed>>
    BY <1>1, RecoverJobStep DEF StartBundle
  <2>2. ServiceShape' /\ QueuesSealed'
    BY <1>0, <2>1 DEF ServiceShape, QueuesSealed, Sealed
  <2> QED
    BY <2>1, <2>2, JobStepLedger
<1>2. CASE RecoveryThrows \/ StopDispatcher \/ ReleaseBundle
  <2>1. UNCHANGED <<ledger, delivery, listed>>
    BY <1>2 DEF RecoveryThrows, StopDispatcher, ReleaseBundle
  <2>2. ServiceShape' /\ QueuesSealed' /\ InHand'
    BY <1>0, <2>1 DEF ServiceShape, QueuesSealed, Sealed, InHand
  <2> QED
    BY <2>1, <2>2, ServiceMoves
<1>3. CASE ListWindows \/ StopBundle
  <2>1. /\ UNCHANGED <<ledger, source, sealed, notify, tail>>
        /\ listed' = source \/ listed' = listed
        /\ \/ dlv' = dlv \/ dlv' = [dlv EXCEPT !.on = TRUE]
           \/ dlv' = [dlv EXCEPT !.on = FALSE, !.timer = FALSE]
    BY <1>3 DEF ListWindows, StopBundle, StopService
  <2>2. ServiceShape' /\ QueuesSealed' /\ InHand'
    BY <1>0, <2>1 DEF ServiceShape, QueuesSealed, Sealed, InHand
  <2>3. RowsKept
    BY <1>0, <2>1, RowsUnchanged
  <2> QED
    BY <2>1, <2>2, <2>3, RowsKeptStep
<1>4. CASE PersistListedWindow
  <2>1. PICK w \in listed : Enqueue(w) /\ listed' = listed \ {w}
    BY <1>4 DEF PersistListedWindow
  <2>2. w \in Nat /\ w <= sealed
    BY <1>0, WindowsNat DEF SealedOnly, Sealed
  <2>3. UNCHANGED delivery
    BY <1>4 DEF PersistListedWindow
  <2>4. QueuesSealed'
    BY <1>0, <2>3 DEF QueuesSealed, Sealed
  <2> QED
    BY <2>1, <2>2, <2>3, <2>4, EnqueueStep
<1>5. CASE FinishActivation
  <2>1. /\ JobStep /\ UNCHANGED <<outbox, source, sealed, notify, listed>>
        /\ tail' = AfterActivation
        /\ dlv' = dlv \/ dlv' = [dlv EXCEPT !.on = FALSE, !.timer = FALSE]
    BY <1>5, RecoverJobStep DEF FinishActivation, StopService
  <2>2. /\ sealed \in Nat /\ notify \in Nat /\ notify <= sealed
        /\ Kicked(tail) \in Seq(Nat)
        /\ \A i \in 1..Len(Kicked(tail)) : Kicked(tail)[i] <= sealed
    BY <1>0, KickedBounds DEF SealedOnly, Sealed
  <2>3. /\ AfterActivation \in Seq(Nat)
        /\ \A i \in 1..Len(AfterActivation) : AfterActivation[i] <= sealed
    BY <2>2, QueueBounds DEF AfterActivation
  <2>4. ServiceShape' /\ QueuesSealed'
    BY <1>0, <2>1, <2>2, <2>3 DEF ServiceShape, QueuesSealed, Sealed
  <2>5. dlv'.pc = dlv.pc /\ dlv'.w = dlv.w /\ dlv'.k = dlv.k
    BY <1>0, <2>1 DEF ServiceShape
  <2> QED
    BY <2>1, <2>4, <2>5, JobStepLedger
<1> QED
  BY <1>1, <1>2, <1>3, <1>4, <1>5 DEF Lifecycle

\* Reflection seals the next window, of which nothing is known yet.
LEMMA SealLedger ==
    ASSUME DeliveryInv, NEW activating, SealWindow(activating), UNCHANGED listed
    PROVE  DeliveryInv'
<1> USE DEF DeliveryInv, ledger
<1>1. /\ UNCHANGED <<outbox, receipts, job, dlv>>
      /\ sealed' = sealed + 1 /\ sealed < NumWindows
      /\ source' = source \cup {sealed + 1}
      /\ notify' = sealed + 1 \/ notify' = 0
      /\ tail' = tail \/ tail' = Append(tail, sealed + 1)
  BY DEF SealWindow, NoWindow
<1>2. sealed \in Nat /\ sealed + 1 \in Windows
  BY <1>1, StoreConstants DEF SealedOnly, Windows
<1>3. LedgerShape' /\ ServiceShape' /\ SameRequest' /\ JobIsReceived' /\ AckGate' /\ InHand'
  BY <1>1 DEF LedgerShape, ServiceShape, SameRequest, JobIsReceived, AckGate, InHand
<1>4. ReleasedSource'
  BY <1>1, <1>2 DEF ReleasedSource, SealedOnly, Sealed
<1>5. /\ tail' \in Seq(Nat) /\ \A i \in 1..Len(tail') : tail'[i] <= sealed + 1
  <2>1. /\ tail \in Seq(Nat) /\ sealed + 1 \in Nat
        /\ \A i \in 1..Len(tail) : tail[i] <= sealed + 1
    BY <1>2 DEF SealedOnly, Sealed
  <2>2. /\ Append(tail, sealed + 1) \in Seq(Nat)
        /\ \A i \in 1..Len(Append(tail, sealed + 1)) :
             Append(tail, sealed + 1)[i] <= sealed + 1
    BY <1>2, <2>1, QueueBounds
  <2> QED
    BY <1>1, <2>1, <2>2
<1>6. SealedOnly'
  BY <1>1, <1>2, <1>5, WindowsNat DEF SealedOnly, Sealed
<1> QED
  BY <1>3, <1>4, <1>6

\* A crash leaves the tables and may leave the source released; the other steps
\* touch neither the ledger nor the service.
LEMMA OtherLedger ==
    ASSUME DeliveryInv, JobShape,
           TimePasses \/ RefreshSession \/ SignOut \/ Crash \/ \E r \in RunIds : CleanupRun(r)
    PROVE  DeliveryInv'
<1> USE DEF delivery, ledger, encrypted, dispatch, session
<1>0. SealedOnly /\ ServiceShape /\ InHand /\ QueuesSealed /\ LedgerShape
  BY DEF DeliveryInv, SealedOnly, QueuesSealed
<1>1. CASE RefreshSession \/ SignOut \/ \E r \in RunIds : CleanupRun(r)
  <2>1. UNCHANGED <<ledger, delivery, listed>>
    BY <1>1 DEF RefreshSession, SignOut, CleanupRun
  <2>2. ServiceShape' /\ QueuesSealed' /\ InHand'
    BY <1>0, <2>1 DEF ServiceShape, QueuesSealed, Sealed, InHand
  <2> QED
    BY <2>1, <2>2, ServiceMoves
<1>2. CASE Crash
  <2>1. /\ UNCHANGED <<ledger, sealed>> /\ source' \subseteq source /\ listed' = {}
        /\ notify' = 0 /\ tail' = <<>> /\ dlv' = StoppedService
    BY <1>2 DEF Crash, NoWindow
  <2>2. ServiceShape' /\ InHand'
    BY <2>1 DEF ServiceShape, StoppedService, InHand
  <2>3. QueuesSealed' /\ RowsKept
    BY <1>0, <2>1, RowsUnchanged DEF QueuesSealed, Sealed, SealedOnly
  <2> QED
    BY <2>1, <2>2, <2>3, RowsKeptStep
<1>3. CASE TimePasses
  <2>1. UNCHANGED <<delivery, listed>>
    BY <1>3 DEF TimePasses
  <2>2. ServiceShape' /\ QueuesSealed'
    BY <1>0, <2>1 DEF ServiceShape, QueuesSealed, Sealed
  <2>3. CASE JobBackoffElapses
    <3>1. JobStep /\ UNCHANGED outbox
      BY <1>0, <2>3 DEF JobBackoffElapses, JobStep, JobMoved, LedgerShape, JobShape, JobFields
    <3> QED
      BY <2>1, <2>2, <3>1, JobStepLedger
  <2>4. ASSUME NEW w \in Windows, BackoffElapses(w)
        PROVE  DeliveryInv'
    <3>1. outbox[w] # None
      BY <2>4 DEF BackoffElapses, Queued
    <3>2. /\ RowsKept /\ UNCHANGED <<receipts, job>>
          /\ \A v \in Windows : outbox[v] # None => outbox'[v].sem = outbox[v].sem
      BY <1>0, <2>4, <3>1, RowTouched
    <3>3. InHand'
      BY <1>0, <2>1, <3>2 DEF InHand, RowsKept
    <3> QED
      BY <2>1, <2>2, <3>2, <3>3, RowsKeptStep
  <2> QED
    BY <1>3, <2>3, <2>4 DEF TimePasses
<1> QED
  BY <1>1, <1>2, <1>3

\* The ledger is empty at first.
LEMMA DeliveryInvInit == Init => DeliveryInv
<1> SUFFICES ASSUME Init PROVE DeliveryInv
  OBVIOUS
<1>1. /\ outbox = [w \in Windows |-> None] /\ receipts = [w \in Windows |-> None]
      /\ job = None /\ source = {} /\ sealed = 0 /\ notify = 0 /\ tail = <<>>
      /\ listed = {} /\ dlv = StoppedService
  BY DEF Init, LedgerInit, DeliveryInit, NoWindow
<1> QED
  BY <1>1 DEF DeliveryInv, LedgerShape, ServiceShape, SameRequest, JobIsReceived,
    AckGate, InHand, ReleasedSource, SealedOnly, Sealed, StoppedService

\* Every step preserves the invariant of the ledger and the service.
LEMMA DeliveryInvNext == RunInv /\ DeliveryInv /\ [Next]_vars => DeliveryInv'
<1> SUFFICES ASSUME RunInv, DeliveryInv, [Next]_vars PROVE DeliveryInv'
  OBVIOUS
<1>0. JobShape /\ SealedOnly /\ ServiceShape /\ InHand /\ QueuesSealed
  BY DEF RunInv, DeliveryInv, SealedOnly, QueuesSealed
<1>1. CASE UNCHANGED vars
  <2>1. UNCHANGED <<ledger, delivery, listed>>
    BY <1>1 DEF vars
  <2>2. ServiceShape' /\ QueuesSealed' /\ InHand'
    BY <1>0, <2>1 DEF ledger, delivery, ServiceShape, QueuesSealed, Sealed, InHand
  <2> QED
    BY <2>1, <2>2, ServiceMoves DEF delivery
<1>2. CASE DispatcherStep \/ RunStep
  <2>1. JobStep /\ UNCHANGED <<outbox, delivery, listed>>
    BY <1>0, <1>2, DispatcherJobStep, RunJobStep
  <2>2. ServiceShape' /\ QueuesSealed'
    BY <1>0, <2>1 DEF delivery, ServiceShape, QueuesSealed, Sealed
  <2> QED
    BY <1>0, <2>1, <2>2, JobStepLedger DEF delivery
<1>3. CASE SealWindow(phase = "starting") /\ UNCHANGED <<phase, listed>>
  BY <1>3, SealLedger
<1> QED
  BY <1>0, <1>1, <1>2, <1>3, LifecycleLedger, DeliveryStepLedger, OtherLedger DEF Next

----------------------------------------------------------------------------
(* The invariant of the archive and the runs *)

ArchiveShape ==
    /\ archive = [w \in Windows |-> archive[w]]
    /\ runs = [r \in RunIds |-> runs[r]]
    /\ \A w \in Windows : archive[w] # None => "by" \in DOMAIN archive[w]
    /\ \A r \in RunIds : runs[r] # None => "status" \in DOMAIN runs[r]
    /\ \A r \in RunIds : live[r] # None => "input" \in DOMAIN live[r]

\* Only sealed windows are archived.
ArchiveSealed == \A w \in Windows : archive[w] # None => Sealed(w)

ConsumedBy(w, r) == archive[w] # None /\ archive[w].by = r
Published(r) == Completed(r) \/ \E w \in Windows : ConsumedBy(w, r)

\* A run publishes once: before its commit nothing carries its id, after it the
\* run does nothing but report.
PublishedOnce ==
    \A r \in RunIds : Published(r) =>
        /\ r <= used.runs
        /\ live[r] # None => live[r].stage = "committed"
        /\ ~(dsp.pc = "start" /\ dsp.run = r)

\* What a completed run has consumed was its input.
ConsumedInput ==
    \A w \in Windows, r \in RunIds :
        ConsumedBy(w, r) /\ Completed(r) => w \in DOMAIN runs[r].input

\* The second write of a failed run finds the first one.
FailureRecord ==
    \A r \in RunIds : InStage(r, "finishing") =>
        runs[r] # None /\ runs[r].status # "completed"

\* A run that may still commit holds the job and has the job's windows as input.
AtWork(r) == InStage(r, "running") \/ InStage(r, "committing")
RunInputs ==
    \A r \in RunIds :
        /\ AtWork(r) => Holds(r) /\ DOMAIN live[r].input = job.windows
        /\ dsp.pc = "request" /\ dsp.run = r => DOMAIN live[r].input = job.windows

\* Phase two, whether at the end of the run or in recovery, comes after phase one.
CommittedProof ==
    \A r \in RunIds : InStage(r, "committed") /\ Holds(r) =>
        \A w \in job.windows : ConsumedBy(w, r)
VerdictProof ==
    dsp.pc = "resolve" /\ dsp.verdict = "completed" /\ Holds(dsp.run) =>
        \A w \in job.windows : ConsumedBy(w, dsp.run)

\* The service acknowledges a window without a receipt only if it is consumed.
ConsumedInHand == dlv.pc = "ackConsumed" => Consumed(dlv.w)

ArchiveInv ==
    /\ ArchiveShape /\ ArchiveSealed
    /\ PublishedOnce /\ ConsumedInput /\ FailureRecord
    /\ RunInputs /\ CommittedProof /\ VerdictProof
    /\ ConsumedInHand /\ ConsumedIsReleased

----------------------------------------------------------------------------
(* Steps in which no run publishes, starts or expires *)

\* The archive is as it was, or has a new row that no run has consumed.
ArchiveGrows ==
    /\ archive' = [w \in Windows |-> archive'[w]]
    /\ \A w \in Windows :
         \/ archive'[w] = archive[w]
         \/ /\ archive[w] = None /\ archive'[w] # None
            /\ "by" \in DOMAIN archive'[w] /\ archive'[w].by = NoRun
            /\ Sealed(w)

\* No record becomes that of a completed run.
RecordsKept ==
    /\ runs' = [r \in RunIds |-> runs'[r]]
    /\ \A r \in RunIds : runs'[r] # None => "status" \in DOMAIN runs'[r]
    /\ \A r \in RunIds : Completed(r)' => runs'[r] = runs[r]
    /\ FailureRecord'

\* A run leaves the active map, or goes on towards its end with its input.
RunsGoOn ==
    \A r \in RunIds : live'[r] # None =>
        /\ live[r] # None /\ "input" \in DOMAIN live'[r] /\ live'[r].input = live[r].input
        /\ live'[r].stage = "committed" <=> live[r].stage = "committed"
        /\ live'[r].stage \in {"running", "committing"} =>
             live[r].stage \in {"running", "committing"}

\* The holder of the job stays, or a run that is no longer at work lets it go.
SameHolder ==
    /\ \A r \in RunIds : Holds(r)' <=> Holds(r)
    /\ (\E r \in RunIds : Holds(r)) => job'.windows = job.windows
LetGo(r) == Holds(r) /\ ~AtWork(r)' /\ \A q \in RunIds : ~Holds(q)'

\* The dispatcher starts no run, and reaches a verdict only with its proof.
DispatcherStays ==
    \/ dsp'.pc \in {"idle", "queued", "reconcile"}
    \/ dsp'.pc = dsp.pc /\ dsp'.run = dsp.run /\ dsp'.verdict = dsp.verdict
    \/ dsp'.pc = "resolve" /\ VerdictProof'

\* Reflection attributes no further window but one that was never archived.
SourceKept ==
    /\ sealed \in Nat /\ sealed' \in Nat /\ sealed <= sealed'
    /\ \A w \in source' : w \in source \/ (w \in Windows /\ archive[w] = None)

\* The step does not touch what the proofs of phase one consist of.
LEMMA ArchiveFrame ==
    ASSUME RunInv, RunInv', DeliveryInv, ArchiveInv,
           ArchiveGrows, RecordsKept, RunsGoOn,
           SameHolder \/ \E r \in RunIds : LetGo(r),
           DispatcherStays, SourceKept, ConsumedInHand',
           used'.runs = used.runs
    PROVE  ArchiveInv'
<1> USE DEF ArchiveInv
<1>0. NoRun \notin RunIds
  BY WindowsNat DEF NoRun
<1>1. ArchiveShape'
  BY DEF ArchiveShape, ArchiveGrows, RecordsKept, RunsGoOn
<1>2. ArchiveSealed'
  BY WindowsNat DEF ArchiveSealed, ArchiveGrows, SourceKept, Sealed
<1>3. \A w \in Windows, r \in RunIds :
        /\ ConsumedBy(w, r)' => ConsumedBy(w, r)
        /\ ConsumedBy(w, r) => ConsumedBy(w, r)'
  BY <1>0 DEF ConsumedBy, ArchiveGrows
<1>4. \A r \in RunIds : Completed(r)' => Completed(r) /\ runs'[r] = runs[r]
  BY DEF RecordsKept, Completed
<1>5. PublishedOnce'
  <2>1. \A r \in RunIds : Published(r)' => Published(r)
    BY <1>3, <1>4 DEF Published
  <2> QED
    BY <2>1 DEF PublishedOnce, RunsGoOn, DispatcherStays
<1>6. ConsumedInput'
  BY <1>3, <1>4 DEF ConsumedInput
<1>7. FailureRecord'
  BY DEF RecordsKept
<1>8. \A r \in RunIds : AtWork(r)' => AtWork(r)
  BY DEF AtWork, InStage, RunsGoOn
<1>9. RunInputs'
  <2>1. ASSUME NEW r \in RunIds, AtWork(r)'
        PROVE  Holds(r)' /\ DOMAIN live'[r].input = job'.windows
    <3>1. AtWork(r) /\ Holds(r) /\ DOMAIN live[r].input = job.windows
      BY <1>8, <2>1 DEF RunInputs
    <3>2. SameHolder
      BY <2>1, <3>1, HolderUnique DEF LetGo
    <3> QED
      BY <2>1, <3>1, <3>2 DEF SameHolder, RunsGoOn, AtWork, InStage
  <2>2. ASSUME NEW r \in RunIds, dsp'.pc = "request", dsp'.run = r
        PROVE  DOMAIN live'[r].input = job'.windows
    <3>1. dsp.pc = "request" /\ dsp.run = r /\ DOMAIN live[r].input = job.windows
      BY <2>2 DEF DispatcherStays, RunInputs
    <3>2. Holds(r) /\ Holds(r)' /\ live'[r] # None
      BY <2>2, <3>1 DEF RunInv, StartingRun, InStage
    <3> QED
      BY <3>1, <3>2 DEF SameHolder, LetGo, RunsGoOn
  <2> QED
    BY <2>1, <2>2 DEF RunInputs
<1>10. CommittedProof'
  <2> SUFFICES ASSUME NEW r \in RunIds, InStage(r, "committed")', Holds(r)'
               PROVE  \A w \in job'.windows : ConsumedBy(w, r)'
    BY DEF CommittedProof
  <2>1. InStage(r, "committed") /\ Holds(r) /\ job'.windows = job.windows
    BY DEF InStage, RunsGoOn, SameHolder, LetGo
  <2>2. \A w \in job.windows : ConsumedBy(w, r)
    BY <2>1 DEF CommittedProof
  <2> QED
    BY <1>3, <2>1, <2>2 DEF DeliveryInv, JobIsReceived, Holds
<1>11. VerdictProof'
  <2> SUFFICES ASSUME ~VerdictProof', dsp'.pc = "resolve", dsp'.verdict = "completed",
                      Holds(dsp.run)'
               PROVE  \A w \in job'.windows : ConsumedBy(w, dsp.run)'
    BY DEF VerdictProof
  <2>1. dsp.pc = "resolve" /\ dsp'.run = dsp.run /\ dsp.verdict = "completed"
    BY DEF DispatcherStays
  <2>2. PICK r \in RunIds : r = dsp.run
    BY <2>1 DEF RunInv, OrphanedRun
  <2>3. Holds(r)'
    BY <2>1, <2>2 DEF Holds
  <2>4. Holds(r) /\ job'.windows = job.windows
    BY <2>3 DEF SameHolder, LetGo
  <2>5. \A w \in job.windows : ConsumedBy(w, r)
    BY <2>1, <2>2, <2>4 DEF VerdictProof
  <2>6. \A w \in job'.windows : ConsumedBy(w, r)'
    BY <1>3, <2>4, <2>5 DEF DeliveryInv, JobIsReceived, Holds
  <2> QED
    BY <2>1, <2>2, <2>6 DEF ConsumedBy
<1>12. ConsumedIsReleased'
  BY <1>0 DEF ConsumedIsReleased, Consumed, ArchiveGrows, SourceKept
<1> QED
  BY <1>1, <1>2, <1>5, <1>6, <1>7, <1>9, <1>10, <1>11, <1>12

\* Parts of a step that leave their table, or their process, alone.
LEMMA FrameParts ==
    ASSUME RunInv, DeliveryInv, ArchiveInv
    PROVE  /\ UNCHANGED archive => ArchiveGrows
           /\ UNCHANGED runs /\ UNCHANGED live => RecordsKept
           /\ UNCHANGED live => RunsGoOn
           /\ UNCHANGED job => SameHolder
           /\ NoHolderChange => SameHolder
           /\ dsp' = dsp \/ dsp' = Woken(dsp) => DispatcherStays
           /\ UNCHANGED sealed /\ source' \subseteq source => SourceKept
           /\ UNCHANGED <<archive, dlv>> => ConsumedInHand'
<1>1. UNCHANGED archive => ArchiveGrows
  BY DEF ArchiveInv, ArchiveShape, ArchiveGrows
<1>2. UNCHANGED runs /\ UNCHANGED live => RecordsKept
  BY DEF ArchiveInv, ArchiveShape, RecordsKept, FailureRecord, InStage
<1>3. UNCHANGED live => RunsGoOn
  BY DEF ArchiveInv, ArchiveShape, RunsGoOn
<1>4. (UNCHANGED job => SameHolder) /\ (NoHolderChange => SameHolder)
  BY DEF SameHolder, Holds, NoHolderChange
<1>5. dsp' = dsp \/ dsp' = Woken(dsp) => DispatcherStays
  BY DEF DispatcherStays, Woken, RunInv, Dispatcher
<1>6. UNCHANGED sealed /\ source' \subseteq source => SourceKept
  BY DEF SourceKept, DeliveryInv, SealedOnly
<1>7. UNCHANGED <<archive, dlv>> => ConsumedInHand'
  BY DEF ArchiveInv, ConsumedInHand, Consumed
<1> QED
  BY <1>1, <1>2, <1>3, <1>4, <1>5, <1>6, <1>7

\* The service archives a window that is in the outbox, hence sealed, and comes to
\* acknowledge a window without a receipt only if its archive is consumed.
LEMMA DeliveryStepArchive ==
    ASSUME RunInv, RunInv', DeliveryInv, ArchiveInv, DeliveryStep
    PROVE  ArchiveInv'
<1> USE DEF dispatch, session, ledger, encrypted
<1>0. ServiceShape /\ InHand /\ ConsumedInHand /\ ArchiveShape
  BY DEF DeliveryInv, ArchiveInv
<1>1. /\ UNCHANGED live /\ NoHolderChange
      /\ dsp' = dsp \/ dsp' = Woken(dsp)
      /\ used'.runs = used.runs
  BY DeliveryLeavesRuns DEF RunInv
<1>2. UNCHANGED <<runs, sealed>> /\ source' \subseteq source
  BY DEF DeliveryStep, DropNotification, RunEnqueue, RetryTimerKicks, DrainStops,
     DeliverWindow, RecoverArchived, RecoverThrows, SessionChanged, AnalyzeSucceeds,
     AnalyzeInvalid, AnalyzeThrows, ArchiveAnalysis, ArchiveEventStream, ArchiveThrows,
     ApplyAnalysis, AcknowledgeSource, AcknowledgeThrows
<1>3. ArchiveGrows /\ ConsumedInHand'
  <2>1. CASE ArchiveAnalysis
    <3>1. dlv.w \in Windows /\ Sealed(dlv.w) /\ dlv'.pc = "apply"
      BY <1>0, <2>1
      DEF ArchiveAnalysis, Draining, GoTo, InHand, ServiceShape, DeliveryInv, SealedOnly
    <3>2. \/ archive' = archive
          \/ /\ archive[dlv.w] = None
             /\ archive' = [archive EXCEPT ![dlv.w] =
                              [sem |-> dlv.k, score |-> dlv.score, by |-> NoRun]]
      BY <2>1 DEF ArchiveAnalysis, ArchiveEventStream
    <3> DEFINE row == [sem |-> dlv.k, score |-> dlv.score, by |-> NoRun]
    <3>3. row # None /\ "by" \in DOMAIN row /\ row.by = NoRun
      BY DEF None
    <3>4. \/ archive' = archive
          \/ /\ archive[dlv.w] = None
             /\ archive' = [w \in Windows |-> IF w = dlv.w THEN row ELSE archive[w]]
      BY <1>0, <3>2 DEF ArchiveShape
    <3> HIDE DEF row
    <3> QED
      BY <1>0, <3>1, <3>3, <3>4 DEF ArchiveShape, ArchiveGrows, ConsumedInHand
  <2>2. CASE ~ArchiveAnalysis
    <3>1. UNCHANGED archive
      BY <2>2 DEF DeliveryStep, DropNotification, RunEnqueue, RetryTimerKicks, DrainStops,
         DeliverWindow, RecoverArchived, RecoverThrows, SessionChanged, AnalyzeSucceeds,
         AnalyzeInvalid, AnalyzeThrows, ArchiveThrows,
         ApplyAnalysis, AcknowledgeSource, AcknowledgeThrows
    <3>7. ConsumedInHand'
      <4>2. CASE RecoverArchived
        BY <1>0, <3>1, <4>2
        DEF RecoverArchived, GoTo, ServiceShape, ConsumedInHand, Consumed
      <4>3. CASE RetryTimerKicks \/ DropNotification \/ RunEnqueue
        BY <1>0, <3>1, <4>3
        DEF RetryTimerKicks, DropNotification, RunEnqueue, ServiceShape, ConsumedInHand,
            Consumed
      <4>4. CASE DeliverWindow
        BY <1>0, <4>4 DEF DeliverWindow, ServiceShape, ConsumedInHand
      <4>5. CASE AnalyzeSucceeds \/ ApplyAnalysis
        BY <1>0, <4>5
        DEF AnalyzeSucceeds, ApplyAnalysis, EndDrain, NextInLoop, ServiceShape, ConsumedInHand
      <4>6. CASE DrainStops \/ RecoverThrows \/ SessionChanged \/ AnalyzeInvalid
                 \/ AnalyzeThrows \/ ArchiveThrows \/ AcknowledgeSource \/ AcknowledgeThrows
        <5>1. Continue \/ EndDrain \/ EndDrainAndRetry
          BY <4>6 DEF DrainStops, RecoverThrows, SessionChanged, AnalyzeInvalid,
             AnalyzeThrows, ArchiveThrows, AcknowledgeSource, AcknowledgeThrows, Throws
        <5> QED
          BY <1>0, <5>1 DEF Continue, EndDrain, EndDrainAndRetry, NextInLoop, ServiceShape,
             ConsumedInHand
      <4> QED
        BY <2>2, <4>2, <4>3, <4>4, <4>5, <4>6 DEF DeliveryStep
    <3> QED
      BY <3>1, <3>7, FrameParts
  <2> QED
    BY <2>1, <2>2
<1>4. RecordsKept /\ RunsGoOn /\ SameHolder /\ DispatcherStays /\ SourceKept
  BY <1>1, <1>2, FrameParts
<1> QED
  BY <1>1, <1>3, <1>4, ArchiveFrame

\* A run's row in the active map after an update of its stage and class.
LEMMA StageMoves ==
    ASSUME RunInv, ArchiveInv, NEW r \in RunIds, live[r] # None, NEW row,
           DOMAIN row = DOMAIN live[r], row.input = live[r].input,
           live' = [live EXCEPT ![r] = row]
    PROVE  /\ live'[r] = row /\ row # None /\ "input" \in DOMAIN row
           /\ \A q \in RunIds : q # r => live'[q] = live[q]
<1>1. "stage" \in DOMAIN row /\ "input" \in DOMAIN row
  BY DEF RunInv, LiveShape, ArchiveInv, ArchiveShape
<1>2. row # None
  BY <1>1, RowIsNotNone
<1> QED
  BY <1>1, <1>2 DEF RunInv, LiveShape

\* A run of which only the stage changes, short of publishing.
LEMMA StageStep ==
    ASSUME RunInv, RunInv', DeliveryInv, ArchiveInv, NEW r \in RunIds,
           live[r] # None, live[r].stage # "committed", NEW row,
           DOMAIN row = DOMAIN live[r], row.input = live[r].input,
           row.stage # "committed",
           row.stage \in {"running", "committing"} => AtWork(r),
           live' = [live EXCEPT ![r] = row],
           RecordsKept, UNCHANGED <<ledger, archive, dsp, delivery>>,
           used'.runs = used.runs
    PROVE  ArchiveInv'
<1>1. /\ live'[r] = row /\ row # None /\ "input" \in DOMAIN row
      /\ \A q \in RunIds : q # r => live'[q] = live[q]
  BY StageMoves
<1>2. RunsGoOn
  BY <1>1 DEF RunsGoOn, AtWork, InStage, ArchiveInv, ArchiveShape
<1>3. UNCHANGED <<job, sealed, source, dlv>>
  BY DEF ledger, delivery
<1>4. ArchiveGrows /\ SameHolder /\ DispatcherStays /\ SourceKept /\ ConsumedInHand'
  BY <1>3, FrameParts
<1> QED
  BY <1>2, <1>4, ArchiveFrame

\* A record that is written with another status than "completed", or deleted.
LEMMA RecordWritten ==
    ASSUME ArchiveInv, NEW r \in RunIds,
           \/ runs' = runs
           \/ \E status, invalid, input, req :
                /\ status # "completed"
                /\ runs' = [runs EXCEPT ![r] = [status |-> status, invalid |-> invalid,
                                                input |-> input, req |-> req]]
           \/ runs' = [runs EXCEPT ![r] = None],
           \A q \in RunIds : q # r /\ InStage(q, "finishing")' => InStage(q, "finishing"),
           InStage(r, "finishing")' => runs'[r] # None /\ ~Completed(r)'
    PROVE  RecordsKept
<1>1. PICK row : \/ runs' = [runs EXCEPT ![r] = row]
                    /\ (row # None => "status" \in DOMAIN row /\ row.status # "completed")
                 \/ runs' = runs
  <2>1. CASE \E status, invalid, input, req :
                /\ status # "completed"
                /\ runs' = [runs EXCEPT ![r] = [status |-> status, invalid |-> invalid,
                                                input |-> input, req |-> req]]
    <3>1. PICK status, invalid, input, req :
                /\ status # "completed"
                /\ runs' = [runs EXCEPT ![r] = [status |-> status, invalid |-> invalid,
                                                input |-> input, req |-> req]]
      BY <2>1
    <3> DEFINE w == [status |-> status, invalid |-> invalid, input |-> input, req |-> req]
    <3>2. "status" \in DOMAIN w /\ w.status # "completed" /\ runs' = [runs EXCEPT ![r] = w]
      BY <3>1
    <3> QED
      BY <3>2, Zenon
  <2>2. CASE runs' = runs \/ runs' = [runs EXCEPT ![r] = None]
    BY <2>2
  <2> QED
    BY <2>1, <2>2
<1>2. /\ runs' = [q \in RunIds |-> runs'[q]]
      /\ \A q \in RunIds : q # r => runs'[q] = runs[q]
      /\ runs'[r] = runs[r] \/ runs'[r] = row
      /\ runs'[r] # runs[r] =>
           (row # None => "status" \in DOMAIN row /\ row.status # "completed")
  BY <1>1 DEF ArchiveInv, ArchiveShape
<1>3. \A q \in RunIds : runs'[q] # None => "status" \in DOMAIN runs'[q]
  BY <1>2 DEF ArchiveInv, ArchiveShape
<1>4. \A q \in RunIds : Completed(q)' => runs'[q] = runs[q]
  BY <1>2 DEF Completed
<1>5. FailureRecord'
  BY <1>2 DEF ArchiveInv, FailureRecord, Completed, InStage
<1> QED
  BY <1>2, <1>3, <1>4, <1>5 DEF RecordsKept

----------------------------------------------------------------------------
(* The commit of a run *)

\* Phase one: the run holds the job, whose windows have receipts, are no longer in
\* the outbox and have therefore been released by Reflection.
LEMMA CommitArchive ==
    ASSUME RunInv, DeliveryInv, ArchiveInv, NEW r \in RunIds, CommitRun(r),
           UNCHANGED delivery
    PROVE  ArchiveInv'
<1> USE DEF ArchiveInv
<1> DEFINE input == live[r].input
<1>0. /\ UNCHANGED <<outbox, receipts, job, dsp, source, sealed, dlv, used>>
      /\ live[r] # None /\ live[r].stage = "committing"
  BY DEF CommitRun, InStage, ledger, delivery
<1>1. Holds(r) /\ DOMAIN input = job.windows
  BY <1>0 DEF RunInputs, AtWork, InStage
<1>2. \A w \in DOMAIN input : /\ w \in Windows /\ w \notin source
                              /\ archive[w] # None
  <2>1. \A w \in DOMAIN input : archive[w] # None
    BY DEF CommitRun, CanPublish, HasArchive
  <2>2. \A w \in job.windows : w \in Windows /\ receipts[w] # None /\ outbox[w] = None
    BY <1>1 DEF DeliveryInv, JobIsReceived, AckGate, Holds
  <2> QED
    BY <1>1, <2>1, <2>2 DEF DeliveryInv, ReleasedSource
<1>3. archive' = [w \in Windows |-> IF w \in DOMAIN input
                                    THEN [archive[w] EXCEPT !.by = r] ELSE archive[w]]
  BY DEF CommitRun, PublishCompletedRun
<1>4. \A w \in DOMAIN input : archive'[w] # None /\ "by" \in DOMAIN archive'[w]
                              /\ archive'[w].by = r
  <2> SUFFICES ASSUME NEW w \in DOMAIN input
               PROVE  archive'[w] # None /\ "by" \in DOMAIN archive'[w]
                      /\ archive'[w].by = r
    OBVIOUS
  <2>1. w \in Windows /\ archive[w] # None /\ "by" \in DOMAIN archive[w]
    BY <1>2 DEF ArchiveShape
  <2>2. archive'[w] = [archive[w] EXCEPT !.by = r]
    BY <1>3, <2>1
  <2>3. "by" \in DOMAIN archive'[w] /\ archive'[w].by = r
    BY <2>1, <2>2
  <2> QED
    BY <2>3, RowIsNotNone
<1>5. \A w \in Windows : w \notin DOMAIN input => archive'[w] = archive[w]
  BY <1>3
<1>6. /\ runs' = [q \in RunIds |-> runs'[q]]
      /\ \A q \in RunIds : q # r => runs'[q] = runs[q]
      /\ "status" \in DOMAIN runs'[r] /\ runs'[r].input = input
  BY DEF CommitRun, PublishCompletedRun, ArchiveShape
<1>7. /\ live'[r] # None /\ live'[r].stage = "committed" /\ "input" \in DOMAIN live'[r]
      /\ \A q \in RunIds : q # r => live'[q] = live[q]
  <2> DEFINE row == [live[r] EXCEPT !.stage = "committed"]
  <2>1. live' = [live EXCEPT ![r] = row]
    BY <1>0 DEF CommitRun, ToStage, RunInv, LiveShape
  <2>2. DOMAIN row = DOMAIN live[r] /\ row.input = live[r].input /\ row.stage = "committed"
    BY <1>0 DEF RunInv, LiveShape, ArchiveShape
  <2> HIDE DEF row
  <2> QED
    BY <1>0, <2>1, <2>2, StageMoves
<1>8. \A q \in RunIds, w \in Windows :
        ConsumedBy(w, q)' => IF q = r THEN w \in DOMAIN input ELSE ConsumedBy(w, q)
  <2>1. ~Published(r)
    BY <1>0 DEF PublishedOnce
  <2> QED
    BY <1>4, <1>5, <2>1 DEF ConsumedBy, Published
<1> HIDE DEF input
<1>9. ArchiveShape' /\ ArchiveSealed'
  <2>1. \A w \in Windows : archive'[w] # None => "by" \in DOMAIN archive'[w] /\ Sealed(w)
    BY <1>2, <1>4, <1>5 DEF ArchiveShape, ArchiveSealed
  <2>2. archive' = [w \in Windows |-> archive'[w]]
    BY <1>3
  <2>3. \A q \in RunIds : /\ runs'[q] # None => "status" \in DOMAIN runs'[q]
                          /\ live'[q] # None => "input" \in DOMAIN live'[q]
    BY <1>6, <1>7 DEF ArchiveShape
  <2> QED
    BY <1>0, <1>6, <2>1, <2>2, <2>3 DEF ArchiveShape, ArchiveSealed, Sealed
<1>10. PublishedOnce'
  <2>1. r <= used.runs
    BY <1>0, WindowsNat DEF RunInv, FreshRuns, UsedShape
  <2>2. ~(dsp.pc = "start" /\ dsp.run = r)
    BY <1>0 DEF RunInv, StartingRun
  <2>3. \A q \in RunIds : q # r /\ Published(q)' => Published(q)
    BY <1>6, <1>8 DEF Published, Completed
  <2> QED
    BY <1>0, <1>7, <2>1, <2>2, <2>3 DEF PublishedOnce
<1>11. ConsumedInput'
  BY <1>6, <1>8 DEF ConsumedInput, Completed
<1>12. FailureRecord'
  BY <1>6, <1>7 DEF FailureRecord, InStage
<1>13. RunInputs'
  <2>1. \A q \in RunIds : AtWork(q)' => q # r /\ AtWork(q)
    BY <1>7 DEF AtWork, InStage
  <2>2. \A q \in RunIds : ~AtWork(q)'
    BY <1>1, <2>1, HolderUnique DEF RunInputs
  <2>3. dsp.pc = "request" => dsp.run # r
    BY <1>0 DEF RunInv, StartingRun, InStage
  <2> QED
    BY <1>0, <1>7, <2>2, <2>3 DEF RunInputs
<1>14. CommittedProof'
  <2>1. \A q \in RunIds : Holds(q)' => q = r
    BY <1>0, <1>1 DEF Holds
  <2>2. \A w \in job.windows : ConsumedBy(w, r)'
    BY <1>1, <1>4 DEF ConsumedBy, input
  <2> QED
    BY <1>0, <2>1, <2>2 DEF CommittedProof
<1>15. VerdictProof'
  <2>1. dsp.pc = "resolve" => ~Holds(dsp.run)
    BY <1>0, <1>1, HolderUnique DEF RunInv, OrphanedRun
  <2> QED
    BY <1>0, <2>1 DEF VerdictProof, Holds
<1>16. \A w \in Windows : /\ Consumed(w) => Consumed(w)'
                          /\ Consumed(w)' => Consumed(w) \/ w \in DOMAIN input
  BY <1>4, <1>5, WindowsNat DEF Consumed, NoRun
<1>17. ConsumedIsReleased'
  BY <1>0, <1>2, <1>16 DEF ConsumedIsReleased
<1>18. ConsumedInHand'
  BY <1>0, <1>16 DEF ConsumedInHand, DeliveryInv, InHand
<1> QED
  BY <1>9, <1>10, <1>11, <1>12, <1>13, <1>14, <1>15, <1>17, <1>18

----------------------------------------------------------------------------
(* The other steps of a run *)

\* The events of the sidecar, a failed commit and the two writes of a failed run
\* move the run one stage on.
LEMMA RunMovesOn ==
    ASSUME RunInv, ArchiveInv, NEW r \in RunIds,
           \/ SidecarCompletes(r) \/ SidecarFails(r) \/ SidecarExits(r)
           \/ EmitFailure(r) \/ PersistFailure(r) \/ CommitThrows(r)
    PROVE  /\ live[r] # None /\ live[r].stage # "committed"
           /\ \E row : /\ live' = [live EXCEPT ![r] = row]
                       /\ DOMAIN row = DOMAIN live[r] /\ row.input = live[r].input
                       /\ row.stage \notin {"committed", "running"}
                       /\ row.stage = "committing" => AtWork(r)
                       /\ row.stage = "finishing" => EmitFailure(r)
<1>1. live[r] # None /\ live[r].stage # "committed"
  BY DEF SidecarCompletes, SidecarFails, SidecarExits, EmitFailure, PersistFailure,
         CommitThrows, InStage
<1>2. {"stage", "old", "input"} \subseteq DOMAIN live[r] /\ live = [q \in RunIds |-> live[q]]
  BY <1>1 DEF RunInv, LiveShape, ArchiveInv, ArchiveShape
<1> USE DEF ToStage
<1>3. CASE SidecarCompletes(r)
  <2> DEFINE row == [live[r] EXCEPT !.stage = "committing"]
  <2>1. live' = [live EXCEPT ![r] = row] /\ AtWork(r)
    BY <1>2, <1>3 DEF SidecarCompletes, AtWork
  <2>2. DOMAIN row = DOMAIN live[r] /\ row.input = live[r].input /\ row.stage = "committing"
    BY <1>2
  <2> HIDE DEF row
  <2> QED
    BY <1>1, <2>1, <2>2
<1>4. CASE SidecarFails(r) \/ SidecarExits(r)
  <2>1. /\ live' = [live EXCEPT ![r] = live'[r]]
        /\ DOMAIN live'[r] = DOMAIN live[r] /\ live'[r].input = live[r].input
        /\ live'[r].stage \in {"failing", "leaked"}
    <3>1. CASE SidecarFails(r)
      BY <1>2, <3>1 DEF SidecarFails
    <3>2. CASE SidecarExits(r)
      BY <1>2, <3>2 DEF SidecarExits
    <3> QED
      BY <1>4, <3>1, <3>2
  <2>2. PICK row : row = live'[r]
    OBVIOUS
  <2> QED
    BY <1>1, <2>1, <2>2
<1>5. CASE EmitFailure(r) \/ PersistFailure(r) \/ CommitThrows(r)
  <2>1. PICK stage : /\ stage \in {"leaked", "finishing", "finished", "unpersisted"}
                     /\ stage = "finishing" => EmitFailure(r)
                     /\ ToStage(r, stage)
    <3>1. CASE EmitFailure(r)
      <4>1. PICK stage : stage = IF live[r].old THEN "leaked" ELSE "finishing"
        OBVIOUS
      <4> QED
        BY <3>1, <4>1 DEF EmitFailure
    <3>2. CASE PersistFailure(r) \/ CommitThrows(r)
      BY <3>2 DEF PersistFailure, CommitThrows
    <3> QED
      BY <1>5, <3>1, <3>2
  <2> DEFINE row == [live[r] EXCEPT !.stage = stage]
  <2>2. live' = [live EXCEPT ![r] = row]
    BY <1>2, <2>1
  <2>3. DOMAIN row = DOMAIN live[r] /\ row.input = live[r].input /\ row.stage = stage
    BY <1>2
  <2> HIDE DEF row
  <2> QED
    BY <1>1, <2>1, <2>2, <2>3
<1> QED
  BY <1>3, <1>4, <1>5

\* Those steps write at most a record that is not completed.
LEMMA RunMovesOnArchive ==
    ASSUME RunInv, RunInv', DeliveryInv, ArchiveInv, NEW r \in RunIds, UNCHANGED delivery,
           \/ SidecarCompletes(r) \/ SidecarFails(r) \/ SidecarExits(r)
           \/ EmitFailure(r) \/ PersistFailure(r) \/ CommitThrows(r)
    PROVE  ArchiveInv'
<1> USE DEF encrypted
<1>1. PICK row : /\ live[r] # None /\ live[r].stage # "committed"
                 /\ live' = [live EXCEPT ![r] = row]
                 /\ DOMAIN row = DOMAIN live[r] /\ row.input = live[r].input
                 /\ row.stage \notin {"committed", "running"}
                 /\ row.stage = "committing" => AtWork(r)
                 /\ row.stage = "finishing" => EmitFailure(r)
  BY RunMovesOn
<1>2. /\ live'[r] = row /\ row # None
      /\ \A q \in RunIds : q # r => live'[q] = live[q]
  BY <1>1, StageMoves
<1>3. UNCHANGED <<ledger, archive, dsp>>
  BY DEF SidecarCompletes, SidecarFails, SidecarExits, EmitFailure, PersistFailure,
         CommitThrows, PutRun
<1>4. used'.runs = used.runs
  BY FaultUsed DEF RunInv, SidecarCompletes, SidecarFails, SidecarExits, EmitFailure,
     PersistFailure, CommitThrows
<1>5. \/ runs' = runs
      \/ \E status, invalid, input, req :
           /\ status # "completed"
           /\ runs' = [runs EXCEPT ![r] = [status |-> status, invalid |-> invalid,
                                           input |-> input, req |-> req]]
  <2>1. CASE EmitFailure(r)
    <3>1. PICK status : status = IF live[r].class = "terminal" THEN "interrupted" ELSE "failed"
      OBVIOUS
    <3>2. status # "completed"
      BY <3>1
    <3> QED
      BY <2>1, <3>1, <3>2 DEF EmitFailure, PutRun
  <2>2. CASE PersistFailure(r)
    <3>1. runs[r].status # "completed"
      BY <2>2 DEF PersistFailure, ArchiveInv, FailureRecord
    <3> QED
      BY <2>2, <3>1 DEF PersistFailure, PutRun
  <2>3. CASE SidecarCompletes(r) \/ SidecarFails(r) \/ SidecarExits(r) \/ CommitThrows(r)
    BY <2>3 DEF SidecarCompletes, SidecarFails, SidecarExits, CommitThrows
  <2> QED
    BY <2>1, <2>2, <2>3
<1>6. InStage(r, "finishing")' => runs'[r] # None /\ ~Completed(r)'
  <2> SUFFICES ASSUME EmitFailure(r) PROVE runs'[r] # None /\ ~Completed(r)'
    BY <1>1, <1>2 DEF InStage
  <2>1. /\ "status" \in DOMAIN runs'[r]
        /\ runs'[r].status # "completed"
    BY DEF EmitFailure, PutRun, ArchiveInv, ArchiveShape
  <2> QED
    BY <2>1, RowIsNotNone DEF Completed
<1>7. RecordsKept
  BY <1>2, <1>5, <1>6, RecordWritten DEF InStage
<1> QED
  BY <1>1, <1>3, <1>4, <1>7, StageStep

\* A run leaves the active map and, if it held the job, lets it go.
LEMMA RunLeaves ==
    ASSUME RunInv, RunInv', DeliveryInv, ArchiveInv, NEW r \in RunIds,
           live' = [live EXCEPT ![r] = None],
           \/ runs' = runs
           \/ \E status, invalid, input, req :
                /\ status # "completed"
                /\ runs' = [runs EXCEPT ![r] = [status |-> status, invalid |-> invalid,
                                                input |-> input, req |-> req]]
           \/ runs' = [runs EXCEPT ![r] = None],
           job' = job \/ (Holds(r) /\ NobodyHolds'),
           dsp' = dsp \/ dsp' = Woken([dsp EXCEPT !.mine = @ \ {r}]),
           UNCHANGED <<archive, delivery, used>>
    PROVE  ArchiveInv'
<1>1. live'[r] = None /\ \A q \in RunIds : q # r => live'[q] = live[q]
  BY DEF RunInv, LiveShape
<1>2. RecordsKept
  BY <1>1, RecordWritten DEF InStage
<1>3. RunsGoOn
  BY <1>1 DEF RunsGoOn, ArchiveInv, ArchiveShape
<1>4. SameHolder \/ LetGo(r)
  <2>1. job' = job => SameHolder
    BY DEF SameHolder, Holds
  <2>2. Holds(r) /\ NobodyHolds' => LetGo(r)
    BY <1>1 DEF LetGo, NobodyHolds, AtWork, InStage
  <2> QED
    BY <2>1, <2>2
<1>5. DispatcherStays
  BY DEF DispatcherStays, Woken, RunInv, Dispatcher
<1>6. ArchiveGrows /\ SourceKept /\ ConsumedInHand'
  BY FrameParts DEF delivery
<1> QED
  BY <1>2, <1>3, <1>4, <1>5, <1>6, ArchiveFrame

\* finishRun, and the cancellations at a refresh and at sign-out.
LEMMA RunLeavesArchive ==
    ASSUME RunInv, RunInv', DeliveryInv, ArchiveInv, NEW r \in RunIds, UNCHANGED delivery,
           \/ FinishRun(r, BundlePresent) \/ QuiesceRun(r) \/ CancelRun(r, BundlePresent)
    PROVE  ArchiveInv'
<1> USE DEF encrypted, ledger
<1>1. live' = [live EXCEPT ![r] = None] /\ UNCHANGED <<archive, used>>
  BY DEF FinishRun, QuiesceRun, CancelRun, PutRun, DeleteAttempt
<1>2. dsp' = dsp \/ dsp' = Woken([dsp EXCEPT !.mine = @ \ {r}])
  BY DEF FinishRun, QuiesceRun, CancelRun
<1>3. job' = job \/ (Holds(r) /\ NobodyHolds')
  <2>1. \/ UNCHANGED ledger
        \/ /\ Holds(r)
           /\ \/ CompleteJob \/ FailJobTerminally
              \/ \E semantic \in BOOLEAN : DeferJob(semantic)
    <3>1. CASE FinishRun(r, BundlePresent)
      <4>1. JobAfterRun(r) \/ UNCHANGED ledger
        BY <3>1 DEF FinishRun
      <4>2. ASSUME NEW semantic, semantic = (ReportedClass(r) = "invalid-output")
            PROVE  semantic \in BOOLEAN
        BY <4>2
      <4> QED
        BY <4>1, <4>2 DEF JobAfterRun
    <3>2. CASE QuiesceRun(r) \/ CancelRun(r, BundlePresent)
      BY <3>2 DEF QuiesceRun, CancelRun
    <3> QED
      BY <3>1, <3>2
  <2> QED
    BY <2>1, JobReleased DEF RunInv
<1>4. \/ runs' = runs
      \/ \E status, invalid, input, req :
           /\ status # "completed"
           /\ runs' = [runs EXCEPT ![r] = [status |-> status, invalid |-> invalid,
                                           input |-> input, req |-> req]]
      \/ runs' = [runs EXCEPT ![r] = None]
  <2>1. CASE FinishRun(r, BundlePresent)
    BY <2>1 DEF FinishRun, DeleteAttempt
  <2>2. CASE QuiesceRun(r)
    BY <2>2 DEF QuiesceRun, PutRun
  <2>3. CASE CancelRun(r, BundlePresent)
    <3>0. PICK deleting : deleting = (BundlePresent /\ Holds(r))
      OBVIOUS
    <3>1. PICK record \in CancelledRecord(r, deleting) : runs' = [runs EXCEPT ![r] = record]
      BY <2>3, <3>0 DEF CancelRun
    <3>2. PICK status : status = IF live[r].stage \in OpenStages THEN "cancelled"
                          ELSE IF live[r].class = "terminal" THEN "interrupted" ELSE "failed"
      OBVIOUS
    <3>3. PICK invalid : invalid = (live[r].class = "invalid-output")
      OBVIOUS
    <3>4. record \in {runs[r], [status |-> status, invalid |-> invalid,
                                input |-> live[r].input, req |-> live[r].req], None}
      BY <3>2, <3>3 DEF CancelledRecord
    <3>5. status # "completed"
      BY <3>2
    <3>6. record = runs[r] => runs' = runs
      BY <3>1 DEF ArchiveInv, ArchiveShape
    <3> QED
      BY <3>1, <3>4, <3>5, <3>6
  <2> QED
    BY <2>1, <2>2, <2>3
<1> QED
  BY <1>1, <1>2, <1>3, <1>4, RunLeaves

\* Every step of a run preserves the invariant.
LEMMA RunStepArchive ==
    ASSUME RunInv, RunInv', DeliveryInv, ArchiveInv, RunStep
    PROVE  ArchiveInv'
<1>1. PICK r \in RunIds :
        \/ SidecarCompletes(r) \/ SidecarFails(r) \/ SidecarExits(r)
        \/ EmitFailure(r) \/ PersistFailure(r) \/ CommitRun(r) \/ CommitThrows(r)
        \/ FinishRun(r, BundlePresent) \/ QuiesceRun(r) \/ CancelRun(r, BundlePresent)
  BY DEF RunStep
<1>2. UNCHANGED delivery
  BY DEF RunStep
<1> QED
  BY <1>1, <1>2, RunMovesOnArchive, RunLeavesArchive, CommitArchive

----------------------------------------------------------------------------
(* The dispatcher *)

\* A drain that does not touch a run.
LEMMA DrainArchive ==
    ASSUME RunInv, RunInv', DeliveryInv, ArchiveInv, DispatcherStays,
           UNCHANGED <<ledger, encrypted, live, delivery>>, used'.runs = used.runs
    PROVE  ArchiveInv'
BY FrameParts, ArchiveFrame DEF ledger, encrypted, delivery

\* The dispatcher takes the job from a run that is not at work, and deletes the
\* record of the attempt or leaves it.
LEMMA DispatcherTakesBack ==
    ASSUME RunInv, RunInv', DeliveryInv, ArchiveInv, NEW r \in RunIds, Holds(r),
           CompleteJob \/ FailJobTerminally \/ \E semantic \in BOOLEAN : DeferJob(semantic),
           UNCHANGED encrypted \/ DeleteAttempt(r),
           live' = live \/ live' = [live EXCEPT ![r] = None],
           live[r] # None => live[r].stage = "starting",
           dsp'.pc \in {"idle", "queued"},
           UNCHANGED delivery, used'.runs = used.runs
    PROVE  ArchiveInv'
<1>1. /\ live'[r] = None \/ live'[r] = live[r]
      /\ \A q \in RunIds : q # r => live'[q] = live[q]
  BY DEF RunInv, LiveShape
<1>2. UNCHANGED archive /\ (runs' = runs \/ runs' = [runs EXCEPT ![r] = None])
  BY DEF encrypted, DeleteAttempt
<1>3. RecordsKept
  BY <1>1, <1>2, RecordWritten DEF InStage
<1>4. RunsGoOn
  BY <1>1 DEF RunsGoOn, ArchiveInv, ArchiveShape
<1>5. LetGo(r)
  BY <1>1, JobReleased DEF RunInv, LetGo, NobodyHolds, AtWork, InStage
<1>6. ArchiveGrows /\ SourceKept /\ ConsumedInHand' /\ DispatcherStays
  BY <1>2, FrameParts DEF delivery, DispatcherStays
<1> QED
  BY <1>3, <1>4, <1>5, <1>6, ArchiveFrame

\* A claimed job goes to a run whose id nothing carries yet.
LEMMA DrainClaimsArchive ==
    ASSUME RunInv, DeliveryInv, ArchiveInv, DrainClaims, UNCHANGED delivery
    PROVE  ArchiveInv'
<1> USE DEF ArchiveInv, encrypted, session
<1>0. PICK r : r = used.runs + 1
  OBVIOUS
<1>1. /\ r \in Nat /\ used.runs \in Nat /\ used.runs < r /\ used'.runs = r
      /\ UNCHANGED <<archive, runs, live, source, sealed, dlv>>
  BY <1>0 DEF DrainClaims, RunInv, UsedShape, delivery
<1>2. NobodyHolds
  BY DEF DrainClaims, NextJobKind, ActiveJob, NobodyHolds, Holds
<1>3. dsp'.pc = "start" /\ dsp'.run = r
  BY <1>0 DEF DrainClaims, RunInv, Dispatcher
<1>4. r \in RunIds => ~Published(r) /\ live[r] = None
  BY <1>1 DEF PublishedOnce, RunInv, FreshRuns
<1>5. \A q \in RunIds : Holds(q)' => q = r
  BY <1>0 DEF DrainClaims, ClaimJob, Holds, RunInv, JobShape, JobFields, NextJobKind, ActiveJob
<1>6. ArchiveShape' /\ ArchiveSealed' /\ ConsumedInput' /\ FailureRecord'
      /\ ConsumedInHand' /\ ConsumedIsReleased'
  BY <1>1 DEF ArchiveShape, ArchiveSealed, ConsumedInput, FailureRecord, ConsumedInHand,
     ConsumedIsReleased, Consumed, ConsumedBy, Completed, InStage, Sealed
<1>7. PublishedOnce'
  <2>1. \A q \in RunIds : Published(q)' <=> Published(q)
    BY <1>1 DEF Published, ConsumedBy, Completed
  <2>2. ASSUME NEW q \in RunIds, Published(q)
        PROVE  /\ q <= r /\ q # r
               /\ live[q] # None => live[q].stage = "committed"
    BY <1>1, <1>4, <2>2, WindowsNat DEF PublishedOnce
  <2> QED
    BY <1>1, <1>3, <2>1, <2>2 DEF PublishedOnce
<1>8. RunInputs'
  <2>1. \A q \in RunIds : ~AtWork(q)
    BY <1>2 DEF RunInputs, NobodyHolds
  <2> QED
    BY <1>1, <1>3, <2>1 DEF RunInputs, AtWork, InStage
<1>9. CommittedProof' /\ VerdictProof'
  BY <1>1, <1>3, <1>4, <1>5 DEF CommittedProof, VerdictProof, InStage
<1> QED
  BY <1>6, <1>7, <1>8, <1>9

\* The record of a run that starts is not that of a completed run, and its input
\* is the windows of the job.
LEMMA StartPersistsArchive ==
    ASSUME RunInv, DeliveryInv, ArchiveInv, StartPersists, UNCHANGED delivery
    PROVE  ArchiveInv'
<1> USE DEF ArchiveInv, session
<1> DEFINE r == dsp.run
<1>1. /\ r \in RunIds /\ Holds(r) /\ live[r] = None /\ ~Published(r)
      /\ UNCHANGED <<outbox, receipts, job, archive, used, source, sealed, dlv>>
  BY DEF StartPersists, PutRun, RunInv, StartingRun, PublishedOnce, ledger, delivery
<1>2. /\ \A q \in RunIds : q # r => live'[q] = live[q]
      /\ live'[r].stage = "starting" /\ {"stage", "input"} \subseteq DOMAIN live'[r]
      /\ DOMAIN live'[r].input = job.windows
  BY <1>1 DEF StartPersists, InputOf, RunInv, LiveShape
<1>3. live'[r] # None
  BY <1>2, RowIsNotNone
<1>4. /\ runs' = [q \in RunIds |-> runs'[q]]
      /\ \A q \in RunIds : q # r => runs'[q] = runs[q]
      /\ "status" \in DOMAIN runs'[r] /\ runs'[r].status = "starting"
  BY <1>1 DEF StartPersists, PutRun, ArchiveShape
<1>5. dsp'.pc = "request" /\ dsp'.run = r
  BY DEF StartPersists, RunInv, Dispatcher
<1> HIDE DEF r
<1>6. \A q \in RunIds : Completed(q)' => q # r /\ Completed(q)
  BY <1>4 DEF Completed
<1>7. \A q \in RunIds : Published(q)' => Published(q) /\ q # r
  BY <1>1, <1>6 DEF Published, ConsumedBy
<1>8. ArchiveShape'
  BY <1>1, <1>2, <1>4 DEF ArchiveShape
<1>9. ArchiveSealed' /\ ConsumedInHand' /\ ConsumedIsReleased'
  BY <1>1 DEF ArchiveSealed, ConsumedInHand, ConsumedIsReleased, Consumed, Sealed
<1>10. PublishedOnce' /\ ConsumedInput'
  <2>1. PublishedOnce'
    BY <1>1, <1>2, <1>5, <1>7 DEF PublishedOnce
  <2>2. ConsumedInput'
    BY <1>1, <1>4, <1>6 DEF ConsumedInput, ConsumedBy
  <2> QED
    BY <2>1, <2>2
<1>11. FailureRecord'
  BY <1>2, <1>4 DEF FailureRecord, InStage
<1>12. RunInputs'
  <2>1. \A q \in RunIds : AtWork(q)' => AtWork(q)
    BY <1>2 DEF AtWork, InStage
  <2>2. \A q \in RunIds : ~AtWork(q)
    BY <1>1, HolderUnique DEF RunInputs, AtWork, InStage
  <2> QED
    BY <1>1, <1>2, <1>5, <2>1, <2>2 DEF RunInputs
<1>13. CommittedProof' /\ VerdictProof'
  BY <1>1, <1>2, <1>5 DEF CommittedProof, VerdictProof, InStage, Holds, ConsumedBy
<1> QED
  BY <1>8, <1>9, <1>10, <1>11, <1>12, <1>13

\* The request is sent for the run that holds the job, with the job's windows.
LEMMA StartRequestsArchive ==
    ASSUME RunInv, DeliveryInv, ArchiveInv, StartRequests, UNCHANGED delivery
    PROVE  ArchiveInv'
<1> USE DEF ArchiveInv, session
<1> DEFINE r == dsp.run
<1>1. /\ r \in RunIds /\ Holds(r) /\ live[r] # None /\ live[r].stage = "starting"
      /\ DOMAIN live[r].input = job.windows
      /\ UNCHANGED <<outbox, receipts, job, archive, runs, used, source, sealed, dlv>>
  BY DEF StartRequests, RunInv, StartingRun, InStage, RunInputs, ledger, encrypted, delivery
<1>2. /\ \A q \in RunIds : q # r => live'[q] = live[q]
      /\ live'[r].stage = "running" /\ "input" \in DOMAIN live'[r]
      /\ live'[r].input = live[r].input
  BY <1>1 DEF StartRequests, RunInv, LiveShape, ArchiveShape
<1>3. live'[r] # None
  BY <1>2, RowIsNotNone
<1>4. dsp'.pc \in {"idle", "queued"}
  BY DrainedDispatcher DEF StartRequests, RunInv
<1> HIDE DEF r
<1>5. ArchiveShape' /\ ArchiveSealed' /\ ConsumedInHand' /\ ConsumedIsReleased'
      /\ ConsumedInput'
  BY <1>1, <1>2, <1>3 DEF ArchiveShape, ArchiveSealed, ConsumedInHand, ConsumedIsReleased,
     Consumed, ConsumedInput, ConsumedBy, Completed, Sealed
<1>6. PublishedOnce'
  <2>1. \A q \in RunIds : Published(q)' <=> Published(q)
    BY <1>1 DEF Published, ConsumedBy, Completed
  <2>2. ~Published(r)
    BY <1>1 DEF PublishedOnce
  <2> QED
    BY <1>1, <1>2, <1>4, <2>1, <2>2 DEF PublishedOnce
<1>7. FailureRecord'
  BY <1>1, <1>2 DEF FailureRecord, InStage
<1>8. RunInputs'
  <2>1. \A q \in RunIds : q # r => ~AtWork(q)'
    BY <1>1, <1>2, HolderUnique DEF RunInputs, AtWork, InStage
  <2> QED
    BY <1>1, <1>2, <1>4, <2>1 DEF RunInputs, Holds
<1>9. CommittedProof' /\ VerdictProof'
  BY <1>1, <1>2, <1>4 DEF CommittedProof, VerdictProof, InStage, Holds, ConsumedBy
<1> QED
  BY <1>5, <1>6, <1>7, <1>8, <1>9

\* The verdict "completed" is given only on the proof that phase one committed.
LEMMA ReadOrphanedArchive ==
    ASSUME RunInv, RunInv', DeliveryInv, ArchiveInv, ReadOrphanedRun, UNCHANGED delivery
    PROVE  ArchiveInv'
<1> USE DEF session
<1> DEFINE r == dsp.run
<1>1. /\ r \in RunIds /\ live[r] = None
      /\ UNCHANGED <<receipts, job, archive, live, used, source, sealed, dlv>>
      /\ dsp'.pc = "resolve" /\ dsp'.run = r /\ dsp'.verdict = VerdictOn(r)
  BY DEF ReadOrphanedRun, RunInv, OrphanedRun, Dispatcher, ledger, delivery
<1>2. VerdictProof'
  <2>1. VerdictOn(r) = "completed" => \E req : Verified(r, InputOf(job), req)
    BY DEF VerdictOn
  <2>2. VerdictOn(r) = "completed" => \A w \in job.windows : ConsumedBy(w, r)
    BY <2>1 DEF Verified, InputOf, ConsumedBy
  <2> HIDE DEF r
  <2> QED
    BY <1>1, <2>2 DEF VerdictProof, ConsumedBy
<1>3. RecordsKept
  <2>1. CASE UNCHANGED runs
    BY <1>1, <2>1, FrameParts
  <2>2. CASE /\ runs[r] # None /\ runs[r].status = "starting"
             /\ runs' = [runs EXCEPT ![r].status = "interrupted"]
    <3>1. "status" \in DOMAIN runs[r]
      BY <1>1, <2>2 DEF ArchiveInv, ArchiveShape
    <3>2. /\ runs' = [q \in RunIds |-> runs'[q]]
          /\ \A q \in RunIds : q # r => runs'[q] = runs[q]
          /\ "status" \in DOMAIN runs'[r] /\ runs'[r].status = "interrupted"
      BY <1>1, <2>2, <3>1 DEF ArchiveInv, ArchiveShape
    <3> HIDE DEF r
    <3>3. FailureRecord'
      BY <1>1, <3>2 DEF ArchiveInv, FailureRecord, InStage
    <3> QED
      BY <3>2, <3>3 DEF RecordsKept, Completed, ArchiveInv, ArchiveShape
  <2> QED
    BY <2>1, <2>2 DEF ReadOrphanedRun
<1>4. DispatcherStays
  BY <1>1, <1>2 DEF DispatcherStays
<1>5. ArchiveGrows /\ RunsGoOn /\ SameHolder /\ SourceKept /\ ConsumedInHand'
  BY <1>1, FrameParts
<1> QED
  BY <1>1, <1>3, <1>4, <1>5, ArchiveFrame

\* Every step of the dispatcher preserves the invariant.
LEMMA DispatcherStepArchive ==
    ASSUME RunInv, RunInv', DeliveryInv, ArchiveInv, DispatcherStep
    PROVE  ArchiveInv'
<1> USE DEF ledger, encrypted, session
<1>1. UNCHANGED delivery /\ dsp \in Dispatcher /\ UsedShape
  BY DEF DispatcherStep, RunInv
<1>2. CASE RetryTimerFires
  <2>1. DispatcherStays
    BY <1>1, <1>2 DEF RetryTimerFires, DispatcherStays, Woken, Dispatcher
  <2> QED
    BY <1>1, <1>2, <2>1, DrainArchive DEF RetryTimerFires
<1>3. CASE DrainIdles \/ DrainNotDue \/ DrainReconciles \/ ReconciliationThrows
  <2>1. used'.runs = used.runs /\ UNCHANGED <<ledger, encrypted, live>>
    BY <1>1, <1>3, FaultUsed
    DEF DrainIdles, DrainNotDue, DrainReconciles, ReconciliationThrows
  <2>2. dsp'.pc \in {"idle", "queued", "reconcile"}
    <3>1. CASE DrainReconciles
      BY <1>1, <3>1, ReconcilingDispatcher DEF DrainReconciles, RunInv
    <3>2. CASE DrainIdles \/ DrainNotDue \/ ReconciliationThrows
      BY <1>1, <3>2, DrainedDispatcher, ArmedDispatcher
      DEF DrainIdles, DrainNotDue, ReconciliationThrows
    <3> QED
      BY <1>3, <3>1, <3>2
  <2> QED
    BY <1>1, <2>1, <2>2, DrainArchive DEF DispatcherStays
<1>4. CASE ResolveOrphanedRun
  <2>1. /\ dsp.run \in RunIds /\ Holds(dsp.run) /\ live[dsp.run] = None
        /\ UNCHANGED <<live, used>>
    BY <1>4 DEF ResolveOrphanedRun, RunInv, OrphanedRun
  <2>2. CompleteJob \/ FailJobTerminally \/ \E semantic \in BOOLEAN : DeferJob(semantic)
    BY <1>4 DEF ResolveOrphanedRun
  <2>3. UNCHANGED encrypted \/ DeleteAttempt(dsp.run)
    BY <1>4 DEF ResolveOrphanedRun
  <2>4. dsp'.pc \in {"idle", "queued"}
    <3>1. dsp' \in {Drained(dsp), Drained(Woken(dsp)), Drained(Armed(dsp))}
      BY <1>4 DEF ResolveOrphanedRun
    <3> QED
      BY <1>1, <3>1, DrainedDispatcher, WokenDispatcher, ArmedDispatcher
  <2> QED
    BY <1>1, <2>1, <2>2, <2>3, <2>4, DispatcherTakesBack
<1>5. CASE StartThrows
  <2>1. /\ dsp.run \in RunIds /\ Holds(dsp.run)
        /\ live[dsp.run] # None => live[dsp.run].stage = "starting"
    BY <1>5 DEF StartThrows, RunInv, StartingRun, InStage
  <2>2. /\ DeferJob(FALSE) /\ DeleteAttempt(dsp.run)
        /\ live' = live \/ live' = [live EXCEPT ![dsp.run] = None]
    BY <1>5 DEF StartThrows
  <2>3. used'.runs = used.runs
    BY <1>1, <1>5, FaultUsed DEF StartThrows
  <2>4. dsp'.pc \in {"idle", "queued"}
    <3>1. [dsp EXCEPT !.mine = @ \ {dsp.run}] \in Dispatcher
      BY <1>1 DEF Dispatcher
    <3> QED
      BY <1>5, <3>1, DrainedDispatcher, WokenDispatcher DEF StartThrows
  <2> QED
    BY <1>1, <2>1, <2>2, <2>3, <2>4, DispatcherTakesBack
<1> QED
  BY <1>1, <1>2, <1>3, <1>4, <1>5, DrainClaimsArchive, StartPersistsArchive,
     StartRequestsArchive, ReadOrphanedArchive
  DEF DispatcherStep, DispatcherDrains

----------------------------------------------------------------------------
(* Lifecycle, sessions, crashes, retention *)

\* Runs that are marked old go on as they were.
LEMMA MarkOldGoesOn ==
    ASSUME RunInv, ArchiveInv, live' \in {live, MarkOld}
    PROVE  RunsGoOn /\ (UNCHANGED runs => RecordsKept)
<1>1. ASSUME NEW r \in RunIds
      PROVE  /\ live'[r] # None => live[r] # None
             /\ live'[r] # None =>
                  /\ "input" \in DOMAIN live'[r]
                  /\ live'[r].input = live[r].input /\ live'[r].stage = live[r].stage
  <2>1. live[r] # None => {"stage", "input"} \subseteq DOMAIN live[r]
    BY DEF RunInv, LiveShape, ArchiveInv, ArchiveShape
  <2>2. live'[r] = live[r] \/ (live[r] # None /\ live'[r] = [live[r] EXCEPT !.old = TRUE])
    BY DEF MarkOld
  <2> QED
    BY <2>1, <2>2
<1>2. RunsGoOn
  BY <1>1 DEF RunsGoOn
<1>3. UNCHANGED runs => RecordsKept
  BY <1>1 DEF ArchiveInv, ArchiveShape, RecordsKept, FailureRecord, InStage
<1> QED
  BY <1>2, <1>3

\* Starting and stopping the bundle.
LEMMA LifecycleArchive ==
    ASSUME RunInv, RunInv', DeliveryInv, ArchiveInv, Lifecycle
    PROVE  ArchiveInv'
<1> USE DEF ledger, encrypted, dispatch, session, delivery
<1>1. UNCHANGED <<archive, runs, source, sealed>> /\ dsp \in Dispatcher /\ UsedShape
  BY DEF Lifecycle, StartBundle, RecoveryThrows, ListWindows, PersistListedWindow,
     FinishActivation, StopBundle, StopDispatcher, ReleaseBundle, RunInv
<1>2. NoHolderChange
  BY RecoverJobsJob DEF Lifecycle, StartBundle, RecoveryThrows, ListWindows,
     PersistListedWindow, Enqueue, FinishActivation, StopBundle, StopDispatcher,
     ReleaseBundle, NoHolderChange
<1>3. live' \in {live, MarkOld}
  BY DEF Lifecycle, StartBundle, RecoveryThrows, ListWindows, PersistListedWindow,
     FinishActivation, StopBundle, StopDispatcher, ReleaseBundle
<1>4. used'.runs = used.runs
  BY <1>1, FaultUsed DEF Lifecycle, StartBundle, RecoveryThrows, ListWindows,
     PersistListedWindow, FinishActivation, StopBundle, StopDispatcher, ReleaseBundle
<1>5. DispatcherStays
  <2>1. CASE StartBundle
    BY <2>1, NewDispatcherType, ReconcilingDispatcher
    DEF StartBundle, DispatcherStays, RunInv
  <2>2. CASE RecoveryThrows \/ ReleaseBundle
    BY <1>1, <2>2, NewDispatcherType, DrainedDispatcher
    DEF RecoveryThrows, ReleaseBundle, DispatcherStays
  <2>3. CASE FinishActivation
    BY <1>1, <2>3 DEF FinishActivation, Woken, Dispatcher, DispatcherStays
  <2>4. CASE ListWindows \/ PersistListedWindow \/ StopBundle \/ StopDispatcher
    BY <1>1, <2>4 DEF ListWindows, PersistListedWindow, StopBundle, StopDispatcher,
       Dispatcher, DispatcherStays
  <2> QED
    BY <2>1, <2>2, <2>3, <2>4 DEF Lifecycle
<1>6. ConsumedInHand'
  <2>1. \/ dlv' = dlv \/ dlv' = [dlv EXCEPT !.on = TRUE]
        \/ dlv' = [dlv EXCEPT !.on = FALSE, !.timer = FALSE]
    BY DEF Lifecycle, StartBundle, RecoveryThrows, ListWindows, PersistListedWindow,
       FinishActivation, StopBundle, StopDispatcher, ReleaseBundle, StopService
  <2>2. dlv'.pc = dlv.pc /\ dlv'.w = dlv.w
    BY <2>1 DEF DeliveryInv, ServiceShape
  <2> QED
    BY <1>1, <2>2 DEF ArchiveInv, ConsumedInHand, Consumed
<1>7. ArchiveGrows /\ SameHolder /\ SourceKept /\ RunsGoOn /\ RecordsKept
  BY <1>1, <1>2, <1>3, FrameParts, MarkOldGoesOn
<1> QED
  BY <1>4, <1>5, <1>6, <1>7, ArchiveFrame

\* A window that is sealed now has no archive.
LEMMA SealArchive ==
    ASSUME RunInv, RunInv', DeliveryInv, ArchiveInv, NEW activating, SealWindow(activating)
    PROVE  ArchiveInv'
<1> USE DEF ledger, encrypted, dispatch, session
<1>1. /\ UNCHANGED <<job, archive, runs, live, dsp, used, dlv>>
      /\ sealed' = sealed + 1 /\ source' = source \cup {sealed + 1}
      /\ sealed < NumWindows
  BY DEF SealWindow
<1>2. SourceKept
  BY <1>1, StoreConstants
  DEF SourceKept, ArchiveInv, ArchiveSealed, DeliveryInv, SealedOnly, Sealed, Windows
<1>3. ArchiveGrows /\ SameHolder /\ RunsGoOn /\ RecordsKept /\ DispatcherStays
      /\ ConsumedInHand'
  BY <1>1, FrameParts
<1> QED
  BY <1>1, <1>2, <1>3, ArchiveFrame

\* Time, session changes and crashes leave the archive and the records.
LEMMA OtherArchive ==
    ASSUME RunInv, RunInv', DeliveryInv, ArchiveInv,
           TimePasses \/ RefreshSession \/ SignOut \/ Crash
    PROVE  ArchiveInv'
<1> USE DEF ledger, encrypted, dispatch, session, delivery
<1>1. UNCHANGED <<archive, runs, sealed>> /\ source' \subseteq source
  BY DEF TimePasses, RefreshSession, SignOut, Crash
<1>2. used'.runs = used.runs
  BY DEF TimePasses, RefreshSession, SignOut, Crash, RunInv, UsedShape
<1>3. SameHolder
  <2>1. CASE job' = job
    BY <2>1, FrameParts
  <2>2. CASE JobBackoffElapses
    BY <2>2 DEF JobBackoffElapses, SameHolder, Holds, RunInv, JobShape, JobFields
  <2> QED
    BY <2>1, <2>2 DEF TimePasses, BackoffElapses, RefreshSession, SignOut, Crash
<1>4. RunsGoOn /\ RecordsKept
  <2>1. CASE live' \in {live, MarkOld}
    BY <1>1, <2>1, MarkOldGoesOn
  <2>2. CASE live' = [r \in RunIds |-> None]
    BY <1>1, <2>2
    DEF RunsGoOn, RecordsKept, FailureRecord, InStage, ArchiveInv, ArchiveShape
  <2> QED
    BY <2>1, <2>2 DEF TimePasses, RefreshSession, SignOut, Crash
<1>5. DispatcherStays
  BY NewDispatcherType, FrameParts
  DEF TimePasses, RefreshSession, SignOut, Crash, DispatcherStays
<1>6. ConsumedInHand'
  <2>1. CASE dlv' = dlv
    BY <1>1, <2>1, FrameParts
  <2>2. CASE dlv' = StoppedService
    BY <2>2 DEF StoppedService, ConsumedInHand
  <2> QED
    BY <2>1, <2>2 DEF TimePasses, RefreshSession, SignOut, Crash
<1>7. ArchiveGrows /\ SourceKept
  BY <1>1, FrameParts
<1> QED
  BY <1>2, <1>3, <1>4, <1>5, <1>6, <1>7, ArchiveFrame

\* Retention takes the archives of a completed run that is done with, and none of
\* a window that is still to be acknowledged.
LEMMA CleanupArchive ==
    ASSUME RunInv, DeliveryInv, ArchiveInv, NEW r \in RunIds, CleanupRun(r)
    PROVE  ArchiveInv'
<1> USE DEF ArchiveInv, ledger, dispatch, session, delivery
<1>1. /\ UNCHANGED <<outbox, receipts, job, live, dsp, used, source, sealed, dlv>>
      /\ r # dsp.run
      /\ live[r] # None => live[r].stage \notin {"committed", "finishing"}
      /\ \A w \in DOMAIN runs[r].input : outbox[w] = None
  BY DEF CleanupRun
<1>2. /\ archive' = [w \in Windows |-> archive'[w]]
      /\ \A w \in Windows :
           \/ archive'[w] = archive[w]
           \/ archive'[w] = None /\ ConsumedBy(w, r) /\ Completed(r)
  BY DEF CleanupRun, ExpireRun, ConsumedBy
<1>3. /\ runs' = [q \in RunIds |-> runs'[q]] /\ runs'[r] = None
      /\ \A q \in RunIds : q # r => runs'[q] = runs[q]
  BY DEF CleanupRun, ExpireRun, ArchiveShape
<1>4. \A q \in RunIds : Completed(q)' => q # r /\ Completed(q)
  BY <1>3 DEF Completed
<1>5. \A w \in Windows, q \in RunIds : /\ ConsumedBy(w, q)' => ConsumedBy(w, q)
                                       /\ ConsumedBy(w, q) /\ q # r => ConsumedBy(w, q)'
  BY <1>2 DEF ConsumedBy
<1>6. ArchiveShape' /\ ArchiveSealed'
  BY <1>1, <1>2, <1>3 DEF ArchiveShape, ArchiveSealed, Sealed
<1>7. PublishedOnce' /\ ConsumedInput'
  <2>1. \A q \in RunIds : Published(q)' => Published(q)
    BY <1>4, <1>5 DEF Published
  <2>2. PublishedOnce'
    BY <1>1, <2>1 DEF PublishedOnce
  <2>3. ConsumedInput'
    BY <1>3, <1>4, <1>5 DEF ConsumedInput
  <2> QED
    BY <2>2, <2>3
<1>8. FailureRecord'
  BY <1>1, <1>3 DEF FailureRecord, InStage
<1>9. RunInputs'
  BY <1>1 DEF RunInputs, AtWork, InStage, Holds
<1>10. CommittedProof'
  <2> SUFFICES ASSUME NEW q \in RunIds, InStage(q, "committed"), Holds(q)
               PROVE  \A w \in job.windows : ConsumedBy(w, q)'
    BY <1>1 DEF CommittedProof, InStage, Holds
  <2>1. q # r
    BY <1>1 DEF InStage
  <2> QED
    BY <1>5, <2>1 DEF CommittedProof, DeliveryInv, JobIsReceived, Holds
<1>11. VerdictProof'
  <2> SUFFICES ASSUME dsp.pc = "resolve", dsp.verdict = "completed", Holds(dsp.run)
               PROVE  \A w \in job.windows : ConsumedBy(w, dsp.run)'
    BY <1>1 DEF VerdictProof, Holds
  <2>1. dsp.run \in RunIds
    BY DEF RunInv, OrphanedRun
  <2>2. \A w \in job.windows : ConsumedBy(w, dsp.run)'
    BY <1>1, <1>5, <2>1 DEF VerdictProof, DeliveryInv, JobIsReceived, Holds
  <2> QED
    BY <2>2
<1>12. ConsumedInHand'
  <2> SUFFICES ASSUME dlv.pc = "ackConsumed" PROVE Consumed(dlv.w)'
    BY <1>1 DEF ConsumedInHand, Consumed
  <2>1. dlv.w \in Windows /\ outbox[dlv.w] # None /\ Consumed(dlv.w)
    BY DEF DeliveryInv, InHand, ConsumedInHand
  <2>2. ~(ConsumedBy(dlv.w, r) /\ Completed(r))
    BY <1>1, <2>1 DEF ConsumedInput
  <2>3. archive'[dlv.w] = archive[dlv.w]
    BY <1>2, <2>1, <2>2
  <2> QED
    BY <1>1, <2>1, <2>3 DEF Consumed
<1>13. ConsumedIsReleased'
  BY <1>1, <1>2 DEF ConsumedIsReleased, Consumed
<1> QED
  BY <1>6, <1>7, <1>8, <1>9, <1>10, <1>11, <1>12, <1>13

----------------------------------------------------------------------------
(* The theorems *)

\* Nothing is archived and no run is recorded at first.
LEMMA ArchiveInvInit == Init => ArchiveInv
<1> SUFFICES ASSUME Init PROVE ArchiveInv
  OBVIOUS
<1>1. /\ archive = [w \in Windows |-> None] /\ runs = [r \in RunIds |-> None]
      /\ live = [r \in RunIds |-> None] /\ dsp.pc = "idle" /\ dlv = StoppedService
  BY NewDispatcherType DEF Init, ArchiveInit, DispatchInit, DeliveryInit
<1>2. /\ ArchiveShape /\ ArchiveSealed /\ PublishedOnce /\ ConsumedInput
      /\ ConsumedIsReleased
  BY <1>1 DEF ArchiveShape, ArchiveSealed, PublishedOnce, Published, ConsumedInput,
     ConsumedBy, Completed, ConsumedIsReleased, Consumed
<1>3. /\ FailureRecord /\ RunInputs /\ CommittedProof /\ VerdictProof /\ ConsumedInHand
  BY <1>1 DEF FailureRecord, RunInputs, AtWork, CommittedProof, VerdictProof, InStage,
     ConsumedInHand, StoppedService
<1> QED
  BY <1>2, <1>3 DEF ArchiveInv

\* Every step preserves the invariant of the archive and the runs.
LEMMA ArchiveInvNext ==
    RunInv /\ DeliveryInv /\ ArchiveInv /\ [Next]_vars => ArchiveInv'
<1> SUFFICES ASSUME RunInv, DeliveryInv, ArchiveInv, [Next]_vars PROVE ArchiveInv'
  OBVIOUS
<1>1. RunInv'
  BY RunInvNext
<1>2. CASE UNCHANGED vars
  <2>1. DispatcherStays
    BY <1>2 DEF vars, dispatch, DispatcherStays
  <2> QED
    BY <1>1, <1>2, <2>1, DrainArchive DEF vars, dispatch
<1>3. CASE Next
  BY <1>1, <1>3, LifecycleArchive, DeliveryStepArchive, DispatcherStepArchive,
     RunStepArchive, SealArchive, OtherArchive, CleanupArchive DEF Next
<1> QED
  BY <1>2, <1>3

PipelineInv == RunInv /\ DeliveryInv /\ ArchiveInv

\* The whole invariant holds in every behaviour.
LEMMA PipelineInvHolds == Spec => []PipelineInv
<1>1. Init => PipelineInv
  BY RunInvInit, DeliveryInvInit, ArchiveInvInit DEF PipelineInv
<1>2. PipelineInv /\ [Next]_vars => PipelineInv'
  BY RunInvNext, DeliveryInvNext, ArchiveInvNext DEF PipelineInv
<1> QED
  BY <1>1, <1>2, PTL DEF Spec

\* A window that a run has consumed is no longer attributed in Reflection, so the
\* scan of delivery.start() cannot enqueue it again (acknowledgeSourceAfterReceipt
\* against completeProactiveFeedbackRun), however the two are interleaved.
THEOREM ConsumedIsReleasedHolds == Spec => []ConsumedIsReleased
<1>1. PipelineInv => ConsumedIsReleased
  BY DEF PipelineInv, ArchiveInv
<1> QED
  BY <1>1, PipelineInvHolds, PTL

\* The window in hand at an acknowledgement has its receipt or is consumed.
LEMMA AcknowledgedIsDurable ==
    ASSUME PipelineInv, Acknowledging
    PROVE  receipts[dlv.w] # None \/ Consumed(dlv.w)
BY DEF Acknowledging, Draining, PipelineInv, DeliveryInv, InHand, ArchiveInv, ConsumedInHand

\* One step releases a window in Reflection only if it is durable elsewhere.
LEMMA SourceOutlivesReceiptStep ==
    ASSUME PipelineInv, [Next]_vars
    PROVE  \A w \in source \ source' : receipts'[w] # None \/ Consumed(w)
<1> USE DEF ledger, encrypted, dispatch, session, delivery
<1>1. CASE source \subseteq source'
  BY <1>1
<1>2. CASE AcknowledgeSource \/ Crash
  <2>1. /\ UNCHANGED receipts
        /\ source' = source \/ (Acknowledging /\ source' = source \ {dlv.w})
    BY <1>2 DEF AcknowledgeSource, DeleteOutbox, Crash
  <2> QED
    BY <2>1, AcknowledgedIsDurable
<1>3. \/ source \subseteq source' \/ AcknowledgeSource \/ Crash
  <2>1. CASE UNCHANGED vars \/ Lifecycle \/ TimePasses \/ RefreshSession \/ SignOut
             \/ \E r \in RunIds : CleanupRun(r)
    BY <2>1 DEF vars, Lifecycle, StartBundle, RecoveryThrows, ListWindows,
       PersistListedWindow, FinishActivation, StopBundle, StopDispatcher, ReleaseBundle,
       TimePasses, RefreshSession, SignOut, CleanupRun
  <2>2. CASE DeliveryStep
    BY <2>2 DEF DeliveryStep, DropNotification, RunEnqueue, RetryTimerKicks, DrainStops,
       DeliverWindow, RecoverArchived, RecoverThrows, SessionChanged, AnalyzeSucceeds,
       AnalyzeInvalid, AnalyzeThrows, ArchiveAnalysis, ArchiveThrows, ApplyAnalysis,
       AcknowledgeThrows
  <2>3. CASE DispatcherStep \/ RunStep
    BY <2>3 DEF DispatcherStep, RunStep
  <2>4. CASE SealWindow(phase = "starting")
    BY <2>4 DEF SealWindow
  <2> QED
    BY <2>1, <2>2, <2>3, <2>4 DEF Next
<1> QED
  BY <1>1, <1>2, <1>3

\* acknowledgeSourceAfterReceipt releases a window in Reflection only when its
\* receipt, or its consumption by a completed run, is durable in another database;
\* a crash between the release and the deletion of the outbox row is no exception.
THEOREM SourceOutlivesReceiptHolds == Spec => SourceOutlivesReceipt
<1>1. PipelineInv /\ [Next]_vars =>
        [\A w \in source \ source' : receipts'[w] # None \/ Consumed(w)]_vars
  BY SourceOutlivesReceiptStep
<1> QED
  BY <1>1, PipelineInvHolds, PTL DEF Spec, SourceOutlivesReceipt

\* Phase two removes only receipts of windows that phase one has consumed.
LEMMA CompletionIsProved ==
    ASSUME PipelineInv, NEW r \in RunIds, \A w \in job.windows : ConsumedBy(w, r),
           CompleteJob
    PROVE  \A w \in Received : receipts'[w] = None => Consumed(w)
<1>1. receipts' = [w \in Windows |-> IF w \in job.windows THEN None ELSE receipts[w]]
  BY DEF CompleteJob
<1>2. \A w \in job.windows : Consumed(w)
  BY WindowsNat DEF ConsumedBy, Consumed, NoRun
<1> QED
  BY <1>1, <1>2 DEF Received

\* The delivery service only adds receipts.
LEMMA DeliveryKeepsReceipts ==
    ASSUME PipelineInv, DeliveryStep
    PROVE  \A w \in Received : receipts'[w] # None
<1> USE DEF ledger
<1>1. CASE UNCHANGED receipts
  BY <1>1 DEF Received
<1>2. ASSUME NEW s, Apply(dlv.w, s), dlv.pc \in {"recover", "apply"}
      PROVE  \A w \in Received : receipts'[w] # None
  <2>1. LedgerShape /\ dlv.w \in Windows /\ receipts[dlv.w] = None
    BY <1>2 DEF PipelineInv, DeliveryInv, InHand
  <2> QED
    BY <1>2, <2>1, ApplyEffect DEF Received
<1>3. \/ UNCHANGED receipts
      \/ dlv.pc \in {"recover", "apply"} /\ \E s : Apply(dlv.w, s)
  BY DEF DeliveryStep, DropNotification, RunEnqueue, Enqueue, RetryTimerKicks, DrainStops,
     DeliverWindow, RecoverArchived, RecoverThrows, SessionChanged, AnalyzeSucceeds,
     AnalyzeInvalid, AnalyzeThrows, ArchiveAnalysis, ArchiveThrows, ApplyAnalysis,
     AcknowledgeSource, AcknowledgeThrows, Throws, DeferWindow, MarkTerminal,
     AdvanceSemanticAttempt, DeleteOutbox, Draining
<1> QED
  BY <1>1, <1>2, <1>3

\* One step removes a receipt only if its window is consumed.
LEMMA ScoreOnlyConsumedStep ==
    ASSUME PipelineInv, [Next]_vars
    PROVE  \A w \in Received : receipts'[w] = None => Consumed(w)
<1> USE DEF ledger, encrypted, dispatch, session
<1>1. CASE UNCHANGED receipts
  BY <1>1 DEF Received
<1>2. CASE RunStep
  <2>1. PICK r \in RunIds :
          \/ SidecarCompletes(r) \/ SidecarFails(r) \/ SidecarExits(r)
          \/ EmitFailure(r) \/ PersistFailure(r)
          \/ CommitRun(r) \/ CommitThrows(r)
          \/ FinishRun(r, BundlePresent) \/ QuiesceRun(r)
          \/ CancelRun(r, BundlePresent)
    BY <1>2 DEF RunStep
  <2>2. CASE FinishRun(r, BundlePresent)
    <3>1. \/ UNCHANGED receipts
          \/ Holds(r) /\ InStage(r, "committed") /\ CompleteJob
      BY <2>2 DEF FinishRun, JobAfterRun, FailJobTerminally, DeferJob, InStage
    <3>2. Holds(r) /\ InStage(r, "committed") => \A w \in job.windows : ConsumedBy(w, r)
      BY DEF PipelineInv, ArchiveInv, CommittedProof
    <3> QED
      BY <1>1, <3>1, <3>2, CompletionIsProved
  <2>3. CASE ~FinishRun(r, BundlePresent)
    BY <1>1, <2>1, <2>3 DEF SidecarCompletes, SidecarFails, SidecarExits, EmitFailure,
       PersistFailure, CommitRun, CommitThrows, QuiesceRun, CancelRun, DeferJob
  <2> QED
    BY <2>2, <2>3
<1>3. CASE DispatcherStep
  <2>1. CASE ResolveOrphanedRun
    <3>1. /\ dsp.pc = "resolve" /\ Holds(dsp.run)
          /\ UNCHANGED receipts \/ (dsp.verdict = "completed" /\ CompleteJob)
      BY <2>1 DEF ResolveOrphanedRun, DeferJob, FailJobTerminally
    <3>2. /\ dsp.run \in RunIds
          /\ dsp.verdict = "completed" => \A w \in job.windows : ConsumedBy(w, dsp.run)
      BY <3>1 DEF PipelineInv, RunInv, OrphanedRun, ArchiveInv, VerdictProof
    <3> QED
      BY <1>1, <3>1, <3>2, CompletionIsProved
  <2>2. CASE ~ResolveOrphanedRun
    BY <1>1, <1>3, <2>2 DEF DispatcherStep, DispatcherDrains, RetryTimerFires, DrainIdles,
       DrainNotDue, DrainReconciles, DrainClaims, ClaimJob, ReadOrphanedRun,
       ReconciliationThrows, StartPersists, StartRequests, StartThrows, DeferJob
  <2> QED
    BY <2>1, <2>2
<1>4. CASE UNCHANGED vars \/ Lifecycle \/ TimePasses \/ RefreshSession \/ SignOut \/ Crash
           \/ (\E r \in RunIds : CleanupRun(r)) \/ SealWindow(phase = "starting")
  BY <1>1, <1>4 DEF vars, Lifecycle, StartBundle, RecoverJobs, RecoveryThrows, ListWindows,
     PersistListedWindow, Enqueue, FinishActivation, StopBundle, StopDispatcher,
     ReleaseBundle, TimePasses, JobBackoffElapses, BackoffElapses, RefreshSession, SignOut,
     Crash, CleanupRun, SealWindow
<1> QED
  BY <1>2, <1>3, <1>4, DeliveryKeepsReceipts DEF Next

\* completeActivityAnalysisJob removes a receipt, and its score, only when a
\* completed run has consumed the window, whether the end of the run or the
\* reconciliation of an orphan calls it; no failure, crash or stale session does.
THEOREM ScoreOnlyConsumedHolds == Spec => ScoreOnlyConsumed
<1>1. PipelineInv /\ [Next]_vars =>
        [\A w \in Received : receipts'[w] = None => Consumed(w)]_vars
  BY ScoreOnlyConsumedStep
<1> QED
  BY <1>1, PipelineInvHolds, PTL DEF Spec, ScoreOnlyConsumed

----------------------------------------------------------------------------
(* The invariant of the two phases *)

\* The columns that are compared between the databases.
RowShape ==
    /\ \A w \in Windows : receipts[w] # None => "sem" \in DOMAIN receipts[w]
    /\ \A w \in Windows : archive[w] # None =>
         {"sem", "by"} \subseteq DOMAIN archive[w] /\ archive[w].by \in RunIds \cup {NoRun}
    /\ \A r \in RunIds : runs[r] # None =>
         {"status", "invalid", "input", "req"} \subseteq DOMAIN runs[r]
    /\ \A r \in RunIds : live[r] # None => {"input", "req"} \subseteq DOMAIN live[r]

\* A running job has the request id it was claimed with.
JobNumbers ==
    job # None => /\ job.attempt \in Nat /\ job.req \in Nat
                  /\ job.status = "running" => job.req # 0

\* Nothing is stored of a run that has not been claimed.
FreshRecords == \A r \in RunIds : r > used.runs => runs[r] = None

\* A receipt is written after the archive, from the same analysis.
ReceiptArchived ==
    \A w \in Windows : receipts[w] # None => HasArchive(w, receipts[w].sem)

\* A consumed window whose receipt is still there is a window of the job whose
\* run consumed it, and that run still holds the job.
ConsumedIsHeld ==
    \A w \in Windows, r \in RunIds :
        receipts[w] # None /\ ConsumedBy(w, r) => Holds(r) /\ w \in job.windows

\* The holder of the job works on the job's windows under the job's request, and
\* so does its record.
HeldInput ==
    \A r \in RunIds : Holds(r) /\ live[r] # None =>
        live[r].input = InputOf(job) /\ live[r].req = RequestOf(job)
HeldRecord ==
    \A r \in RunIds : Holds(r) /\ runs[r] # None =>
        runs[r].input = InputOf(job) /\ runs[r].req = RequestOf(job)

\* What the holder has published is the proof of its job.
PublishedVerified ==
    \A r \in RunIds : Holds(r) /\ Published(r) =>
        Verified(r, InputOf(job), RequestOf(job))

\* The run that is being reconciled holds the job, and the verdict on a run that
\* has published is that it completed.
OrphanHolds == dsp.pc \in {"reconcile", "resolve"} => Holds(dsp.run)
VerdictSound ==
    /\ dsp.verdict \notin {"invalid", "unproven"}
    /\ dsp.pc = "resolve" /\ Published(dsp.run) => dsp.verdict = "completed"

\* A window is analysed only without an archive; between the archive and the
\* receipt the archive stays, and nothing consumes it.
InHandArchived ==
    /\ dlv.pc \in {"analyze", "archive"} => ~HasArchive(dlv.w, dlv.k)
    /\ dlv.pc = "apply" => HasArchive(dlv.w, dlv.k) /\ archive[dlv.w].by = NoRun

CommitInv ==
    /\ RowShape /\ JobNumbers /\ FreshRecords
    /\ ReceiptArchived /\ ConsumedIsHeld
    /\ HeldInput /\ HeldRecord /\ PublishedVerified
    /\ OrphanHolds /\ VerdictSound /\ InHandArchived

----------------------------------------------------------------------------
(* Steps in which no run is claimed, started, published, completed or expired *)

\* No receipt is removed, and a new one follows its archive.
ReceiptsGrow ==
    \A w \in Windows :
        /\ receipts[w] # None => receipts'[w] = receipts[w]
        /\ receipts[w] = None /\ receipts'[w] # None =>
             /\ "sem" \in DOMAIN receipts'[w]
             /\ HasArchive(w, receipts'[w].sem) /\ archive[w].by = NoRun

\* The archive only gets rows that no run has consumed.
ArchiveKept ==
    \A w \in Windows :
        \/ archive'[w] = archive[w]
        \/ /\ archive[w] = None /\ archive'[w] # None
           /\ {"sem", "by"} \subseteq DOMAIN archive'[w] /\ archive'[w].by = NoRun

\* The job is claimed by no run, and a run that has published does not let it go.
HolderKept ==
    /\ \A r \in RunIds : Holds(r)' => Holds(r) /\ job' = job
    /\ \A r \in RunIds : Holds(r) /\ ~Holds(r)' => ~Published(r)

\* What the run that holds the job is given when it starts.
GivenJob(r, row) ==
    /\ Holds(r) /\ r <= used.runs
    /\ row.input = InputOf(job) /\ row.req = RequestOf(job)

\* A record keeps its input, or gets that of the run; completed ones stay.
RecordsFollow ==
    \A r \in RunIds :
        /\ runs'[r] # None =>
             /\ {"status", "invalid", "input", "req"} \subseteq DOMAIN runs'[r]
             /\ \/ /\ runs[r] # None
                   /\ runs'[r].input = runs[r].input /\ runs'[r].req = runs[r].req
                \/ /\ live[r] # None
                   /\ runs'[r].input = live[r].input /\ runs'[r].req = live[r].req
                \/ GivenJob(r, runs'[r])
        /\ Completed(r) => runs'[r] = runs[r]
        /\ Completed(r)' => Completed(r)

\* An active run keeps its input, and a new one gets that of its job.
LiveFollows ==
    \A r \in RunIds : live'[r] # None =>
        /\ {"input", "req"} \subseteq DOMAIN live'[r]
        /\ \/ /\ live[r] # None
              /\ live'[r].input = live[r].input /\ live'[r].req = live[r].req
           \/ GivenJob(r, live'[r])

\* The step leaves alone what the two databases say of the holder's job.
LEMMA CommitFrame ==
    ASSUME PipelineInv, CommitInv, ReceiptsGrow, ArchiveKept, HolderKept, RecordsFollow,
           LiveFollows, used'.runs = used.runs,
           JobNumbers', OrphanHolds', VerdictSound', InHandArchived'
    PROVE  CommitInv'
<1> USE DEF CommitInv
<1>0. NoRun \notin RunIds
  BY WindowsNat DEF NoRun
<1>1. RowShape'
  BY DEF RowShape, ReceiptsGrow, ArchiveKept, RecordsFollow, LiveFollows
<1>2. FreshRecords'
  <2> SUFFICES ASSUME NEW r \in RunIds, r > used.runs, runs'[r] # None PROVE FALSE
    BY DEF FreshRecords
  <2>1. runs[r] = None /\ live[r] = None
    BY DEF FreshRecords, PipelineInv, RunInv, FreshRuns
  <2>2. GivenJob(r, runs'[r])
    BY <2>1 DEF RecordsFollow
  <2>3. r \in Nat /\ used.runs \in Nat
    BY WindowsNat DEF PipelineInv, RunInv, UsedShape
  <2> QED
    BY <2>2, <2>3 DEF GivenJob
<1>3. \A w \in Windows : \A k : HasArchive(w, k) => HasArchive(w, k)'
  BY DEF HasArchive, ArchiveKept
<1>4. \A w \in Windows, r \in RunIds : ConsumedBy(w, r)' <=> ConsumedBy(w, r)
  BY <1>0 DEF ConsumedBy, ArchiveKept
<1>5. \A r \in RunIds : Published(r)' <=> Published(r)
  <2>1. \A r \in RunIds : Completed(r)' <=> Completed(r)
    BY DEF RecordsFollow, Completed
  <2> QED
    BY <1>4, <2>1 DEF Published
<1>6. ReceiptArchived'
  <2> SUFFICES ASSUME NEW w \in Windows, receipts'[w] # None
               PROVE  HasArchive(w, receipts[w].sem)'
    BY DEF ReceiptArchived
  <2>1. HasArchive(w, receipts'[w].sem)
    BY DEF ReceiptsGrow, ReceiptArchived
  <2> QED
    BY <2>1 DEF HasArchive, ArchiveKept
<1>7. ConsumedIsHeld'
  <2> SUFFICES ASSUME NEW w \in Windows, NEW r \in RunIds, receipts'[w] # None,
                      ConsumedBy(w, r)'
               PROVE  Holds(r)' /\ w \in job'.windows
    BY DEF ConsumedIsHeld
  <2>1. ConsumedBy(w, r) /\ Published(r)
    BY <1>4 DEF Published
  <2>2. receipts[w] # None
    BY <1>0, <2>1 DEF ReceiptsGrow, ConsumedBy
  <2>3. Holds(r) /\ w \in job.windows
    BY <2>1, <2>2 DEF ConsumedIsHeld
  <2> QED
    BY <2>1, <2>3 DEF HolderKept
<1>8. ASSUME NEW r \in RunIds, Holds(r)'
      PROVE  /\ Holds(r) /\ job' = job
             /\ InputOf(job)' = InputOf(job) /\ RequestOf(job)' = RequestOf(job)
  <2>1. Holds(r) /\ job' = job
    BY <1>8 DEF HolderKept
  <2>2. \A w \in job.windows : receipts'[w] = receipts[w]
    BY <2>1 DEF ReceiptsGrow, PipelineInv, DeliveryInv, JobIsReceived, Holds
  <2> QED
    BY <2>1, <2>2 DEF InputOf, RequestOf
<1>9. HeldInput' /\ HeldRecord'
  BY <1>8 DEF HeldInput, HeldRecord, LiveFollows, RecordsFollow, GivenJob
<1>10. PublishedVerified'
  <2> SUFFICES ASSUME NEW r \in RunIds, Holds(r)', Published(r)'
               PROVE  Verified(r, InputOf(job), RequestOf(job))'
    BY DEF PublishedVerified
  <2>1. /\ Verified(r, InputOf(job), RequestOf(job))
        /\ InputOf(job)' = InputOf(job) /\ RequestOf(job)' = RequestOf(job)
    BY <1>5, <1>8 DEF PublishedVerified
  <2>2. Completed(r) /\ runs'[r] = runs[r] /\ Completed(r)'
    BY <2>1 DEF Verified, RecordsFollow, Completed
  <2>3. {w \in Windows : archive'[w] # None /\ archive'[w].by = r}
          = {w \in Windows : archive[w] # None /\ archive[w].by = r}
    BY <1>4 DEF ConsumedBy
  <2>4. DOMAIN InputOf(job) \subseteq Windows
    BY <2>1 DEF Verified
  <2>5. PICK input, req : /\ input = InputOf(job) /\ req = RequestOf(job)
                         /\ input = InputOf(job)' /\ req = RequestOf(job)'
    BY <2>1
  <2>6. Verified(r, input, req)
    BY <2>1, <2>5
  <2>7. \A w \in DOMAIN input : archive'[w] # None /\ archive'[w].sem = input[w]
    BY <1>3, <2>4, <2>5, <2>6 DEF Verified, HasArchive
  <2>8. runs'[r].input = input /\ runs'[r].req = req
    BY <2>2, <2>6 DEF Verified
  <2>9. {w \in Windows : archive'[w] # None /\ archive'[w].by = r} = DOMAIN input
    BY <2>3, <2>6 DEF Verified
  <2> QED
    BY <2>2, <2>5, <2>7, <2>8, <2>9 DEF Verified, HasArchive
<1> QED
  BY <1>1, <1>2, <1>6, <1>7, <1>9, <1>10

\* Tables that a step leaves alone.
LEMMA CommitParts ==
    ASSUME PipelineInv, CommitInv
    PROVE  /\ UNCHANGED receipts => ReceiptsGrow
           /\ UNCHANGED archive => ArchiveKept
           /\ UNCHANGED job => HolderKept /\ JobNumbers'
           /\ UNCHANGED runs => RecordsFollow
           /\ UNCHANGED live => LiveFollows
           /\ UNCHANGED <<dlv, archive>> => InHandArchived'
<1> USE DEF CommitInv
<1>1. UNCHANGED receipts => ReceiptsGrow
  BY DEF ReceiptsGrow
<1>2. UNCHANGED archive => ArchiveKept
  BY DEF ArchiveKept
<1>3. UNCHANGED job => HolderKept /\ JobNumbers'
  BY DEF HolderKept, Holds, JobNumbers
<1>4. UNCHANGED runs => RecordsFollow
  BY DEF RecordsFollow, RowShape, Completed
<1>5. UNCHANGED live => LiveFollows
  BY DEF LiveFollows, RowShape
<1>6. UNCHANGED <<dlv, archive>> => InHandArchived'
  BY DEF InHandArchived, HasArchive
<1> QED
  BY <1>1, <1>2, <1>3, <1>4, <1>5, <1>6

\* A job that is made starts with the first request, held by no run.
JobNew ==
    \/ job' = job
    \/ /\ job = None
       /\ job' # None => job'.status = "pending" /\ job'.attempt = 0 /\ job'.req = 1

LEMMA MaterializeNew ==
    ASSUME NEW rows, NEW total, Materialize(rows, total, job)
    PROVE  JobNew
BY DEF Materialize, JobNew

LEMMA JobNewKept ==
    ASSUME CommitInv, JobNew
    PROVE  HolderKept /\ JobNumbers' /\ \A r : Holds(r)' <=> Holds(r)
BY DEF JobNew, HolderKept, JobNumbers, CommitInv, Holds

\* The dispatcher works on no orphan, or goes on with the one it has.
DispatcherGoesOn ==
    \/ dsp'.pc \notin {"reconcile", "resolve"} /\ dsp'.verdict \notin {"invalid", "unproven"}
    \/ dsp'.pc = dsp.pc /\ dsp'.run = dsp.run /\ dsp'.verdict = dsp.verdict

LEMMA DispatcherFrame ==
    ASSUME PipelineInv, CommitInv, DispatcherGoesOn, ArchiveKept, RecordsFollow,
           dsp'.pc \in {"reconcile", "resolve"} =>
               \A r \in RunIds : Holds(r) => Holds(r)'
    PROVE  OrphanHolds' /\ VerdictSound'
<1> USE DEF CommitInv
<1>1. OrphanHolds'
  <2> SUFFICES ASSUME dsp'.pc \in {"reconcile", "resolve"} PROVE Holds(dsp.run)'
    BY DEF OrphanHolds
  <2>1. /\ dsp.pc = dsp'.pc /\ dsp'.run = dsp.run /\ Holds(dsp.run)
        /\ dsp.run \in RunIds
    BY DEF DispatcherGoesOn, OrphanHolds, PipelineInv, RunInv, OrphanedRun
  <2>2. \A r \in RunIds : Holds(r) => Holds(r)'
    OBVIOUS
  <2> QED
    BY <2>1, <2>2 DEF Holds
<1>2. VerdictSound'
  <2>1. dsp'.verdict \notin {"invalid", "unproven"}
    BY DEF VerdictSound, DispatcherGoesOn
  <2>2. ASSUME NEW r, dsp'.pc = "resolve", r = dsp'.run, Published(r)'
        PROVE  dsp'.verdict = "completed"
    <3>1. dsp.pc = "resolve" /\ dsp'.verdict = dsp.verdict /\ dsp.run = r /\ r \in RunIds
      BY <2>2 DEF DispatcherGoesOn, PipelineInv, RunInv, OrphanedRun
    <3>2. NoRun \notin RunIds
      BY WindowsNat DEF NoRun
    <3>3. Completed(r)' => Completed(r)
      BY <3>1 DEF RecordsFollow
    <3>4. \A w \in Windows : ConsumedBy(w, r)' => ConsumedBy(w, r)
      BY <3>1, <3>2 DEF ArchiveKept, ConsumedBy
    <3>5. Published(r)
      BY <2>2, <3>3, <3>4 DEF Published
    <3> QED
      BY <3>1, <3>5 DEF VerdictSound
  <2> QED
    BY <2>1, <2>2 DEF VerdictSound, Published, Completed, ConsumedBy
<1> QED
  BY <1>1, <1>2

----------------------------------------------------------------------------
(* Steps of the delivery service *)

\* A wake leaves the dispatcher with its orphan, if it has one.
LEMMA WokenGoesOn ==
    ASSUME RunInv, CommitInv, NEW d \in Dispatcher, d.pc = dsp.pc, d.run = dsp.run,
           d.verdict = dsp.verdict, dsp' = d \/ dsp' = Woken(d)
    PROVE  DispatcherGoesOn
BY DEF CommitInv, VerdictSound, Woken, DispatcherGoesOn, Dispatcher

\* A dispatcher whose drain has ended works on no orphan.
LEMMA DrainedGoesOn ==
    ASSUME NEW d \in Dispatcher, dsp' = Drained(d)
    PROVE  DispatcherGoesOn /\ dsp'.pc \notin {"reconcile", "resolve"}
BY DEF Drained, DispatcherGoesOn, Dispatcher

\* The receipt is written for the window in hand, after its archive.
LEMMA ApplyGrows ==
    ASSUME PipelineInv, CommitInv, dlv.pc \in {"recover", "apply"},
           HasArchive(dlv.w, dlv.k), archive[dlv.w].by = NoRun, NEW s, Apply(dlv.w, s)
    PROVE  ReceiptsGrow /\ JobNew
<1> USE DEF PipelineInv, DeliveryInv
<1>1. dlv.w \in Windows /\ receipts[dlv.w] = None /\ outbox[dlv.w].sem = dlv.k
  BY DEF InHand
<1>2. /\ \A v \in Windows : v # dlv.w => receipts'[v] = receipts[v]
      /\ receipts'[dlv.w].sem = outbox[dlv.w].sem
  BY <1>1, ApplyEffect
<1>3. PICK at : receipts' = [receipts EXCEPT ![dlv.w] =
                              [sem |-> outbox[dlv.w].sem, score |-> s, at |-> at]]
  BY <1>1 DEF Apply
<1>4. "sem" \in DOMAIN receipts'[dlv.w]
  BY <1>1, <1>3 DEF LedgerShape
<1>5. ReceiptsGrow
  BY <1>1, <1>2, <1>4 DEF ReceiptsGrow
<1>6. JobNew
  BY <1>1, MaterializeNew DEF Apply
<1> QED
  BY <1>5, <1>6

\* Delivery adds archives and receipts, in this order.
LEMMA DeliveryGrows ==
    ASSUME PipelineInv, CommitInv, DeliveryStep
    PROVE  ReceiptsGrow /\ ArchiveKept /\ JobNew /\ InHandArchived' /\ UNCHANGED runs
<1> USE DEF ledger, encrypted, dispatch, session
<1>0. ServiceShape /\ InHand /\ InHandArchived /\ ArchiveShape /\ ConsumedInHand
  BY DEF PipelineInv, DeliveryInv, ArchiveInv, CommitInv
<1>1. CASE RecoverArchived
  <2>0. UNCHANGED <<archive, runs>> /\ ArchiveKept
    BY <1>1, CommitParts DEF RecoverArchived
  <2>1. CASE UNCHANGED <<receipts, job>>
    <3>1. ReceiptsGrow /\ JobNew
      BY <2>1, CommitParts DEF JobNew
    <3>2. dlv'.pc = "analyze" => ~HasArchive(dlv.w, dlv.k)
      BY <1>0, <1>1 DEF RecoverArchived, GoTo, ServiceShape
    <3>3. dlv'.pc \notin {"archive", "apply"} /\ dlv'.w = dlv.w /\ dlv'.k = dlv.k
      BY <1>0, <1>1 DEF RecoverArchived, GoTo, ServiceShape
    <3>4. InHandArchived'
      BY <2>0, <3>2, <3>3 DEF InHandArchived, HasArchive
    <3> QED
      BY <2>0, <3>1, <3>4
  <2>2. CASE ~UNCHANGED <<receipts, job>>
    <3>1. /\ HasArchive(dlv.w, dlv.k) /\ ~Consumed(dlv.w) /\ dlv.pc = "recover"
          /\ Apply(dlv.w, archive[dlv.w].score) /\ dlv'.pc = "ack"
      BY <1>0, <1>1, <2>2 DEF RecoverArchived, Draining, ServiceShape
    <3>2. archive[dlv.w].by = NoRun
      BY <3>1 DEF Consumed, HasArchive
    <3>3. ReceiptsGrow /\ JobNew
      BY <3>1, <3>2, ApplyGrows
    <3> QED
      BY <2>0, <3>1, <3>3 DEF InHandArchived
  <2> QED
    BY <2>1, <2>2
<1>2. CASE ApplyAnalysis
  <2>1. /\ dlv.pc = "apply" /\ Apply(dlv.w, dlv.score) /\ dlv'.pc = "ack"
        /\ UNCHANGED <<archive, runs>>
    BY <1>0, <1>2 DEF ApplyAnalysis, Draining, ServiceShape
  <2>2. ReceiptsGrow /\ JobNew
    BY <1>0, <2>1, ApplyGrows DEF InHandArchived
  <2> QED
    BY <2>1, <2>2, CommitParts DEF InHandArchived
<1>3. CASE ArchiveAnalysis
  <2>1. /\ UNCHANGED <<receipts, job, runs>> /\ dlv.pc = "archive"
        /\ dlv'.pc = "apply" /\ dlv'.w = dlv.w /\ dlv'.k = dlv.k
        /\ dlv.w \in Windows
    BY <1>0, <1>3
    DEF ArchiveAnalysis, ArchiveEventStream, Draining, GoTo, ServiceShape, InHand
  <2>2. archive[dlv.w] = None
    BY <1>0, <1>3, <2>1 DEF ArchiveAnalysis, CanArchive, InHandArchived, HasArchive
  <2> DEFINE row == [sem |-> dlv.k, score |-> dlv.score, by |-> NoRun]
  <2>3. /\ row # None /\ {"sem", "by"} \subseteq DOMAIN row
        /\ row.by = NoRun /\ row.sem = dlv.k
    BY DEF None
  <2>4. archive' = [w \in Windows |-> IF w = dlv.w THEN row ELSE archive[w]]
    BY <1>0, <1>3, <2>2 DEF ArchiveAnalysis, ArchiveEventStream, ArchiveShape
  <2> HIDE DEF row
  <2>5. ArchiveKept
    BY <2>2, <2>3, <2>4 DEF ArchiveKept
  <2>6. InHandArchived'
    BY <2>1, <2>3, <2>4 DEF InHandArchived, HasArchive
  <2> QED
    BY <2>1, <2>5, <2>6, CommitParts DEF JobNew
<1>4. CASE ~RecoverArchived /\ ~ApplyAnalysis /\ ~ArchiveAnalysis
  <2>1. UNCHANGED <<receipts, job, archive, runs>>
    BY <1>4 DEF DeliveryStep, DropNotification, RunEnqueue, Enqueue, RetryTimerKicks,
       DrainStops, DeliverWindow, RecoverThrows, SessionChanged, AnalyzeSucceeds,
       AnalyzeInvalid, AnalyzeThrows, ArchiveThrows, AcknowledgeSource,
       AcknowledgeThrows, Throws, DeferWindow, MarkTerminal, AdvanceSemanticAttempt,
       DeleteOutbox
  <2>2. InHandArchived'
    <3>1. CASE DropNotification \/ RunEnqueue \/ RetryTimerKicks
      BY <1>0, <2>1, <3>1 DEF DropNotification, RunEnqueue, RetryTimerKicks, ServiceShape,
         InHandArchived, HasArchive
    <3>2. CASE DeliverWindow
      BY <1>0, <3>2 DEF DeliverWindow, ServiceShape, InHandArchived
    <3>3. CASE AnalyzeSucceeds /\ current
      <4>1. /\ dlv.pc = "analyze" /\ dlv'.pc = "archive" /\ dlv'.w = dlv.w
            /\ dlv'.k = dlv.k
        BY <1>0, <3>3 DEF AnalyzeSucceeds, Draining, ServiceShape
      <4> QED
        BY <1>0, <2>1, <4>1 DEF InHandArchived, HasArchive
    <3>4. CASE \/ DrainStops \/ RecoverThrows \/ SessionChanged \/ AnalyzeInvalid
               \/ AnalyzeThrows \/ ArchiveThrows \/ AcknowledgeSource \/ AcknowledgeThrows
               \/ (AnalyzeSucceeds /\ ~current)
      <4>1. Continue \/ EndDrain \/ EndDrainAndRetry
        BY <3>4 DEF DrainStops, RecoverThrows, SessionChanged, AnalyzeInvalid,
           AnalyzeThrows, ArchiveThrows, AcknowledgeSource, AcknowledgeThrows, Throws,
           AnalyzeSucceeds
      <4> QED
        BY <1>0, <4>1 DEF Continue, EndDrain, EndDrainAndRetry, NextInLoop, ServiceShape,
           InHandArchived
    <3> QED
      BY <1>4, <3>1, <3>2, <3>3, <3>4 DEF DeliveryStep
  <2> QED
    BY <2>1, <2>2, CommitParts DEF JobNew
<1> QED
  BY <1>1, <1>2, <1>3, <1>4

\* So delivery preserves the invariant.
LEMMA DeliveryCommit ==
    ASSUME PipelineInv, CommitInv, DeliveryStep
    PROVE  CommitInv'
<1>1. /\ UNCHANGED live /\ used'.runs = used.runs
      /\ dsp' = dsp \/ dsp' = Woken(dsp)
  BY DeliveryLeavesRuns DEF PipelineInv, RunInv
<1>2. ReceiptsGrow /\ ArchiveKept /\ JobNew /\ InHandArchived' /\ UNCHANGED runs
  BY DeliveryGrows
<1>3. RecordsFollow /\ LiveFollows
  BY <1>1, <1>2, CommitParts
<1>4. HolderKept /\ JobNumbers' /\ \A r : Holds(r)' <=> Holds(r)
  BY <1>2, JobNewKept
<1>5. DispatcherGoesOn
  BY <1>1, WokenGoesOn DEF PipelineInv, RunInv
<1>6. OrphanHolds' /\ VerdictSound'
  BY <1>2, <1>3, <1>4, <1>5, DispatcherFrame
<1> QED
  BY <1>1, <1>2, <1>3, <1>4, <1>6, CommitFrame

----------------------------------------------------------------------------
(* Steps that write a record or end a job *)

\* The record of a run that has not completed is written, or removed.
LEMMA RecordFollows ==
    ASSUME PipelineInv, CommitInv, NEW r \in RunIds, ~Completed(r), NEW row,
           \/ runs' = runs
           \/ runs' = [runs EXCEPT ![r] = None]
           \/ /\ runs' = [runs EXCEPT ![r] = row]
              /\ {"status", "invalid", "input", "req"} \subseteq DOMAIN row
              /\ row.status # "completed"
              /\ \/ /\ live[r] # None
                    /\ row.input = live[r].input /\ row.req = live[r].req
                 \/ /\ runs[r] # None
                    /\ row.input = runs[r].input /\ row.req = runs[r].req
                 \/ GivenJob(r, row)
    PROVE  RecordsFollow
<1>1. CASE runs' = runs
  BY <1>1, CommitParts
<1>2. CASE runs' # runs
  <2>1. /\ \A q \in RunIds : q # r => runs'[q] = runs[q]
        /\ \/ runs'[r] = None
           \/ /\ runs'[r] = row
              /\ {"status", "invalid", "input", "req"} \subseteq DOMAIN row
              /\ row.status # "completed"
              /\ \/ /\ live[r] # None
                    /\ row.input = live[r].input /\ row.req = live[r].req
                 \/ /\ runs[r] # None
                    /\ row.input = runs[r].input /\ row.req = runs[r].req
                 \/ GivenJob(r, row)
    BY <1>2 DEF PipelineInv, ArchiveInv, ArchiveShape
  <2>2. \A q \in RunIds : q # r =>
          /\ runs[q] # None =>
               {"status", "invalid", "input", "req"} \subseteq DOMAIN runs[q]
          /\ Completed(q)' <=> Completed(q)
    BY <2>1 DEF CommitInv, RowShape, Completed
  <2>3. ~Completed(r)'
    BY <2>1 DEF Completed
  <2> QED
    BY <2>1, <2>2, <2>3 DEF RecordsFollow
<1> QED
  BY <1>1, <1>2

\* deleteActivityAnalysisAttempt never takes the record of a completed run.
LEMMA DeletedFollows ==
    ASSUME PipelineInv, CommitInv, NEW r \in RunIds, DeleteAttempt(r)
    PROVE  RecordsFollow /\ UNCHANGED archive
<1>1. UNCHANGED archive
  BY DEF DeleteAttempt
<1>2. CASE UNCHANGED runs
  BY <1>1, <1>2, CommitParts
<1>3. CASE runs' # runs
  <2>1. ~Completed(r) /\ runs' = [runs EXCEPT ![r] = None]
    BY <1>3 DEF DeleteAttempt
  <2> QED
    BY <1>1, <2>1, RecordFollows
<1> QED
  BY <1>2, <1>3

\* An active run is removed from the active map, or goes on with its input.
LEMMA RunFollows ==
    ASSUME PipelineInv, CommitInv, NEW r \in RunIds, NEW row,
           \/ live' = live
           \/ live' = [live EXCEPT ![r] = None]
           \/ /\ live' = [live EXCEPT ![r] = row]
              /\ {"input", "req"} \subseteq DOMAIN row
              /\ \/ /\ live[r] # None
                    /\ row.input = live[r].input /\ row.req = live[r].req
                 \/ GivenJob(r, row)
    PROVE  LiveFollows
<1>1. CASE live' = live
  BY <1>1, CommitParts
<1>2. CASE live' # live
  <2>1. /\ \A q \in RunIds : q # r => live'[q] = live[q]
        /\ \/ live'[r] = None
           \/ /\ live'[r] = row
              /\ {"input", "req"} \subseteq DOMAIN row
              /\ \/ /\ live[r] # None
                    /\ row.input = live[r].input /\ row.req = live[r].req
                 \/ GivenJob(r, row)
    BY <1>2 DEF PipelineInv, RunInv, LiveShape
  <2> QED
    BY <2>1 DEF LiveFollows, CommitInv, RowShape
<1> QED
  BY <1>1, <1>2

\* A job that is deferred or given up is let go by a run that has not published.
LEMMA LetGoKept ==
    ASSUME PipelineInv, CommitInv, NEW r \in RunIds, Holds(r), ~Published(r),
           (\E semantic \in BOOLEAN : DeferJob(semantic)) \/ FailJobTerminally
    PROVE  HolderKept /\ JobNumbers' /\ ReceiptsGrow
<1>1. /\ {"status", "run", "attempt", "req", "terminal", "due"} \subseteq DOMAIN job
      /\ job # None /\ job.attempt \in Nat /\ job.req \in Nat
  BY DEF Holds, PipelineInv, RunInv, JobShape, JobFields, CommitInv, JobNumbers
<1>2. UNCHANGED receipts
  BY DEF DeferJob, FailJobTerminally
<1>3. job'.status = "retry_wait" /\ job'.attempt \in Nat /\ job'.req \in Nat
  <2>1. CASE FailJobTerminally
    BY <1>1, <2>1 DEF FailJobTerminally
  <2>2. ASSUME NEW semantic \in BOOLEAN, DeferJob(semantic)
        PROVE  job'.status = "retry_wait" /\ job'.attempt \in Nat /\ job'.req \in Nat
    <3>1. CASE semantic
      <4>1. job' = [job EXCEPT !.status = "retry_wait", !.run = NoRun, !.due = FALSE,
                               !.attempt = @ + 1, !.req = 0]
        BY <2>2, <3>1, Zenon DEF DeferJob
      <4> QED
        BY <1>1, <4>1
    <3>2. CASE ~semantic
      BY <1>1, <2>2, <3>2 DEF DeferJob
    <3> QED
      BY <3>1, <3>2
  <2> QED
    BY <2>1, <2>2
<1>4. \A q \in RunIds : ~Holds(q)' /\ (Holds(q) => q = r)
  BY <1>3 DEF Holds
<1> QED
  BY <1>2, <1>3, <1>4, CommitParts DEF HolderKept, JobNumbers

\* Phase two removes the receipts of the windows that its run has consumed, so no
\* receipt that is left belongs to a consumed window.
LEMMA CompletionCommit ==
    ASSUME PipelineInv, CommitInv, NEW r \in RunIds, Holds(r), CompleteJob,
           UNCHANGED archive, RecordsFollow, LiveFollows, used'.runs = used.runs,
           OrphanHolds', VerdictSound', InHandArchived'
    PROVE  CommitInv'
<1> USE DEF CommitInv
<1>1. receipts' = [w \in Windows |-> IF w \in job.windows THEN None ELSE receipts[w]]
  BY DEF CompleteJob
<1>2. \A w \in Windows : receipts'[w] # None =>
        receipts'[w] = receipts[w] /\ w \notin job.windows
  BY <1>1
<1>3. job' # None => job'.status = "pending" /\ job'.attempt = 0 /\ job'.req = 1
  BY DEF CompleteJob, Materialize
<1>4. \A q \in RunIds : ~Holds(q)'
  BY <1>3 DEF Holds
<1>5. RowShape'
  BY <1>2 DEF RowShape, RecordsFollow, LiveFollows
<1>6. JobNumbers'
  BY <1>3 DEF JobNumbers
<1>7. FreshRecords'
  <2> SUFFICES ASSUME NEW q \in RunIds, q > used.runs, runs'[q] # None PROVE FALSE
    BY DEF FreshRecords
  <2>1. runs[q] = None /\ live[q] = None
    BY DEF FreshRecords, PipelineInv, RunInv, FreshRuns
  <2>2. GivenJob(q, runs'[q])
    BY <2>1 DEF RecordsFollow
  <2>3. q \in Nat /\ used.runs \in Nat
    BY WindowsNat DEF PipelineInv, RunInv, UsedShape
  <2> QED
    BY <2>2, <2>3 DEF GivenJob
<1>8. ReceiptArchived'
  BY <1>2 DEF ReceiptArchived, HasArchive
<1>9. ConsumedIsHeld'
  BY <1>2 DEF ConsumedIsHeld, ConsumedBy
<1>10. HeldInput' /\ HeldRecord' /\ PublishedVerified'
  BY <1>4 DEF HeldInput, HeldRecord, PublishedVerified
<1> QED
  BY <1>5, <1>6, <1>7, <1>8, <1>9, <1>10

----------------------------------------------------------------------------
(* Steps of the dispatcher *)

\* reconcileRunningJob takes up the run that holds the job, without a verdict.
LEMMA ReconcilingOrphan ==
    ASSUME NEW d \in Dispatcher, NextJobKind = "running"
    PROVE  /\ Reconciling(d).pc \in {"idle", "queued"}
              \/ (Reconciling(d).pc = "reconcile" /\ Holds(Reconciling(d).run))
           /\ Reconciling(d).verdict \in {"none", d.verdict}
<1>1. job # None /\ job.status = "running"
  BY DEF NextJobKind, ActiveJob
<1> QED
  BY <1>1 DEF Reconciling, Drained, Dispatcher, Holds

\* A drain that only looks at the job and moves the dispatcher.
LEMMA LooksCommit ==
    ASSUME PipelineInv, CommitInv,
           UNCHANGED <<receipts, job, archive, runs, live, dlv>>, used'.runs = used.runs,
           OrphanHolds', VerdictSound'
    PROVE  CommitInv'
BY CommitParts, CommitFrame

\* A drain that ends, is woken, or takes up an orphan.
LEMMA DrainCommit ==
    ASSUME PipelineInv, CommitInv, UNCHANGED delivery,
           \/ RetryTimerFires \/ DrainIdles \/ DrainNotDue \/ DrainReconciles
           \/ ReconciliationThrows
    PROVE  CommitInv'
<1> USE DEF ledger, encrypted, session, delivery
<1>1. /\ UNCHANGED <<receipts, job, archive, runs, live, dlv>> /\ used'.runs = used.runs
      /\ dsp \in Dispatcher
  BY FaultUsed DEF RetryTimerFires, DrainIdles, DrainNotDue, DrainReconciles,
     ReconciliationThrows, PipelineInv, RunInv
<1>2. ArchiveKept /\ RecordsFollow /\ \A r \in RunIds : Holds(r) => Holds(r)'
  BY <1>1, CommitParts DEF Holds
<1>3. CASE DispatcherGoesOn
  BY <1>1, <1>2, <1>3, DispatcherFrame, LooksCommit
<1>4. CASE RetryTimerFires
  <2> DEFINE d == [dsp EXCEPT !.timer = FALSE]
  <2>1. d \in Dispatcher /\ d.pc = dsp.pc /\ d.run = dsp.run /\ d.verdict = dsp.verdict
    BY <1>1 DEF Dispatcher
  <2>2. dsp' = Woken(d)
    BY <1>4 DEF RetryTimerFires
  <2> HIDE DEF d
  <2> QED
    BY <1>3, <2>1, <2>2, WokenGoesOn DEF PipelineInv
<1>5. CASE DrainIdles \/ DrainNotDue \/ ReconciliationThrows
  <2>1. PICK d \in Dispatcher : dsp' = Drained(d)
    BY <1>1, <1>5, ArmedDispatcher DEF DrainIdles, DrainNotDue, ReconciliationThrows
  <2> QED
    BY <1>3, <2>1, DrainedGoesOn
<1>6. CASE DrainReconciles
  <2>1. NextJobKind = "running" /\ dsp' = Reconciling(dsp)
    BY <1>6 DEF DrainReconciles
  <2>2. /\ dsp'.pc \in {"idle", "queued"} \/ (dsp'.pc = "reconcile" /\ Holds(dsp'.run))
        /\ dsp'.verdict \in {"none", dsp.verdict}
    BY <1>1, <2>1, ReconcilingOrphan
  <2>3. OrphanHolds'
    BY <1>1, <2>2 DEF OrphanHolds, Holds
  <2>4. VerdictSound'
    BY <2>2 DEF CommitInv, VerdictSound, Published, Completed, ConsumedBy
  <2> QED
    BY <1>1, <2>3, <2>4, LooksCommit
<1> QED
  BY <1>4, <1>5, <1>6

\* startClaimedJob: the new run has no record and has published nothing, and the
\* job was in nobody's hands.
LEMMA ClaimCommit ==
    ASSUME PipelineInv, CommitInv, UNCHANGED delivery, DrainClaims
    PROVE  CommitInv'
<1> USE DEF CommitInv
<1> DEFINE r == used.runs + 1
<1>1. /\ UNCHANGED <<receipts, archive, runs, live, dlv>>
      /\ used.runs \in Nat /\ used'.runs = r /\ dsp'.pc = "start"
      /\ dsp'.verdict = dsp.verdict
  BY DEF DrainClaims, ClaimJob, encrypted, delivery, PipelineInv, RunInv, UsedShape,
     Dispatcher
<1>2. job # None /\ job.status # "running"
  BY DEF DrainClaims, NextJobKind, ActiveJob
<1>3. {"status", "run", "attempt", "req"} \subseteq DOMAIN job
      /\ job.attempt \in Nat /\ job.req \in Nat
  BY <1>2 DEF PipelineInv, RunInv, JobShape, JobFields, JobNumbers
<1>4. job' = [job EXCEPT !.status = "running", !.run = r, !.req = RequestOf(job)]
  BY DEF DrainClaims, ClaimJob
<1> HIDE DEF r
<1>5. /\ job'.windows = job.windows /\ job'.status = "running" /\ job'.run = r
      /\ job'.attempt = job.attempt /\ job'.req = RequestOf(job)
  BY <1>3, <1>4
<1>6. RequestOf(job) \in Nat /\ RequestOf(job) # 0
  BY <1>3 DEF RequestOf
<1>7. JobNumbers'
  BY <1>3, <1>5, <1>6 DEF JobNumbers
<1>8. RowShape' /\ ReceiptArchived' /\ InHandArchived'
  BY <1>1 DEF RowShape, ReceiptArchived, InHandArchived, HasArchive
<1>9. FreshRecords'
  <2> SUFFICES ASSUME NEW q \in RunIds, q > used'.runs PROVE runs[q] = None
    BY <1>1 DEF FreshRecords
  <2>1. q > used.runs
    BY <1>1, WindowsNat DEF r
  <2> QED
    BY <2>1 DEF FreshRecords
<1>10. ConsumedIsHeld'
  BY <1>1, <1>2 DEF ConsumedIsHeld, ConsumedBy, Holds
<1>11. ASSUME NEW q \in RunIds, Holds(q)'
       PROVE  live[q] = None /\ runs[q] = None /\ ~Published(q)
  <2>1. q > used.runs /\ ~(q <= used.runs)
    BY <1>1, <1>5, <1>11 DEF Holds, r
  <2> QED
    BY <2>1 DEF PipelineInv, RunInv, FreshRuns, FreshRecords, ArchiveInv, PublishedOnce
<1>12. HeldInput' /\ HeldRecord'
  BY <1>1, <1>11 DEF HeldInput, HeldRecord
<1>13. PublishedVerified'
  BY <1>1, <1>11 DEF PublishedVerified, Published, Completed, ConsumedBy
<1>14. OrphanHolds' /\ VerdictSound'
  BY <1>1 DEF OrphanHolds, VerdictSound
<1> QED
  BY <1>7, <1>8, <1>9, <1>10, <1>12, <1>13, <1>14

\* reconcileOrphanedActivityRun: a holder that has published is found to have
\* completed, and no record contradicts the job.
LEMMA ReadOrphanedCommit ==
    ASSUME PipelineInv, CommitInv, UNCHANGED delivery, ReadOrphanedRun
    PROVE  CommitInv'
<1> USE DEF CommitInv
<1>1. PICK r \in RunIds : /\ r = dsp.run /\ Holds(r)
  BY DEF ReadOrphanedRun, OrphanHolds, PipelineInv, RunInv, OrphanedRun
<1>2. /\ UNCHANGED <<receipts, job, archive, live, dlv>> /\ used'.runs = used.runs
      /\ dsp'.pc = "resolve" /\ dsp'.run = r /\ dsp'.verdict = VerdictOn(r)
  BY <1>1 DEF ReadOrphanedRun, ledger, session, delivery, PipelineInv, RunInv, Dispatcher
<1>3. RecordsFollow
  <2>1. CASE UNCHANGED runs
    BY <2>1, CommitParts
  <2>2. CASE ~UNCHANGED runs
    <3>1. /\ runs[r] # None /\ runs[r].status = "starting"
          /\ runs' = [runs EXCEPT ![r].status = "interrupted"]
      BY <1>1, <2>2 DEF ReadOrphanedRun
    <3>2. {"status", "invalid", "input", "req"} \subseteq DOMAIN runs[r]
      BY <3>1 DEF RowShape
    <3> DEFINE row == [runs[r] EXCEPT !.status = "interrupted"]
    <3>3. /\ {"status", "invalid", "input", "req"} \subseteq DOMAIN row
          /\ row.status # "completed" /\ row.input = runs[r].input
          /\ row.req = runs[r].req
      BY <3>2
    <3>4. runs' = [runs EXCEPT ![r] = row]
      BY <3>1
    <3>5. ~Completed(r)
      BY <3>1 DEF Completed
    <3> HIDE DEF row
    <3> QED
      BY <3>1, <3>3, <3>4, <3>5, RecordFollows
  <2> QED
    BY <2>1, <2>2
<1>4. OrphanHolds'
  BY <1>1, <1>2 DEF OrphanHolds, Holds
<1>5. runs[r] # None => runs[r].input = InputOf(job) /\ runs[r].req = RequestOf(job)
  BY <1>1 DEF HeldRecord
<1>6. Published(r) => Completed(r) /\ Verified(r, InputOf(job), RequestOf(job))
  BY <1>1 DEF PublishedVerified, Verified
<1>7. /\ VerdictOn(r) \notin {"invalid", "unproven"}
      /\ Published(r) => VerdictOn(r) = "completed"
  <2>1. CASE runs[r] = None
    <3>1. VerdictOn(r) = "retryable"
      BY <2>1 DEF VerdictOn
    <3>2. ~Published(r)
      BY <1>6, <2>1 DEF Completed
    <3> QED
      BY <3>1, <3>2
  <2>2. CASE runs[r] # None /\ Completed(r)
    <3>1. Verified(r, InputOf(job), RequestOf(job))
      BY <1>6, <2>2 DEF Published
    <3>2. VerdictOn(r) = "completed"
      BY <1>5, <2>2, <3>1 DEF VerdictOn
    <3> QED
      BY <3>2
  <2>3. CASE runs[r] # None /\ ~Completed(r)
    <3>1. VerdictOn(r) \in {"invalid-output", "retryable"}
      BY <1>5, <2>3 DEF VerdictOn
    <3> QED
      BY <1>6, <2>3, <3>1
  <2> QED
    BY <2>1, <2>2, <2>3
<1>8. ASSUME NEW q, q = dsp'.run, Published(q)' PROVE Published(r)
  <2>1. q = r
    BY <1>2, <1>8
  <2>2. Completed(r)' => Completed(r)
    BY <1>3 DEF RecordsFollow
  <2>3. \A w \in Windows : ConsumedBy(w, r)' => ConsumedBy(w, r)
    BY <1>2 DEF ConsumedBy
  <2> QED
    BY <1>8, <2>1, <2>2, <2>3 DEF Published
<1>9. VerdictSound'
  BY <1>2, <1>7, <1>8 DEF VerdictSound, Published, Completed, ConsumedBy
<1> QED
  BY <1>2, <1>3, <1>4, <1>9, CommitParts, CommitFrame

\* The outcome of a reconciliation: phase two for a run that has published, a retry
\* or the end of the job for one that has not.
LEMMA ResolveCommit ==
    ASSUME PipelineInv, CommitInv, UNCHANGED delivery, ResolveOrphanedRun
    PROVE  CommitInv'
<1> USE DEF CommitInv
<1>1. PICK r \in RunIds : /\ r = dsp.run /\ Holds(r) /\ dsp.pc = "resolve"
  BY DEF ResolveOrphanedRun, PipelineInv, RunInv, OrphanedRun
<1>2. dsp \in Dispatcher /\ dsp.verdict \notin {"invalid", "unproven"}
  BY DEF PipelineInv, RunInv, VerdictSound
<1>3. DeleteAttempt(r) /\ UNCHANGED <<live, dlv>> /\ used'.runs = used.runs
  BY <1>1, <1>2 DEF ResolveOrphanedRun, session, delivery
<1>4. /\ RecordsFollow /\ LiveFollows /\ UNCHANGED archive /\ ArchiveKept
      /\ InHandArchived'
  BY <1>3, DeletedFollows, CommitParts
<1>5. PICK d \in Dispatcher : dsp' = Drained(d)
  BY <1>2, WokenDispatcher, ArmedDispatcher DEF ResolveOrphanedRun
<1>6. DispatcherGoesOn /\ dsp'.pc \notin {"reconcile", "resolve"}
  BY <1>5, DrainedGoesOn
<1>7. OrphanHolds' /\ VerdictSound'
  BY <1>4, <1>6, DispatcherFrame
<1>8. CASE dsp.verdict = "completed"
  <2>1. CompleteJob
    BY <1>8 DEF ResolveOrphanedRun
  <2> QED
    BY <1>1, <1>3, <1>4, <1>7, <2>1, CompletionCommit
<1>9. CASE dsp.verdict # "completed"
  <2>1. ~Published(r)
    BY <1>1, <1>9 DEF VerdictSound
  <2>2. DeferJob(FALSE) \/ DeferJob(TRUE) \/ FailJobTerminally
    BY <1>9 DEF ResolveOrphanedRun
  <2>3. HolderKept /\ JobNumbers' /\ ReceiptsGrow
    BY <1>1, <2>1, <2>2, LetGoKept
  <2> QED
    BY <1>3, <1>4, <1>7, <2>3, CommitFrame
<1> QED
  BY <1>8, <1>9

\* startActivityAnalysis gives the run, and its record, the input of its job.
LEMMA StartPersistsCommit ==
    ASSUME PipelineInv, CommitInv, UNCHANGED delivery, StartPersists
    PROVE  CommitInv'
<1> USE DEF CommitInv
<1>1. PICK r \in RunIds : r = dsp.run /\ dsp.pc = "start" /\ Holds(r) /\ r <= used.runs
  BY DEF StartPersists, PipelineInv, RunInv, StartingRun
<1>2. /\ UNCHANGED <<receipts, job, archive, dlv, used>>
      /\ dsp'.pc = "request" /\ dsp'.verdict = dsp.verdict
  BY DEF StartPersists, PutRun, ledger, delivery, PipelineInv, RunInv, Dispatcher
<1>3. RequestOf(job) = job.req
  BY <1>1 DEF JobNumbers, Holds, RequestOf
<1>4. ~Completed(r)
  BY <1>1 DEF PipelineInv, ArchiveInv, PublishedOnce, Published
<1> DEFINE record == [status |-> "starting", invalid |-> FALSE, input |-> InputOf(job),
                      req |-> job.req]
           active == [stage |-> "starting", class |-> "none", old |-> FALSE,
                      input |-> InputOf(job), req |-> job.req]
<1>5. runs' = [runs EXCEPT ![r] = record] /\ live' = [live EXCEPT ![r] = active]
  BY <1>1 DEF StartPersists, PutRun
<1>6. GivenJob(r, record) /\ GivenJob(r, active)
  BY <1>1, <1>3 DEF GivenJob
<1>7. /\ {"status", "invalid", "input", "req"} \subseteq DOMAIN record
      /\ record.status # "completed" /\ {"input", "req"} \subseteq DOMAIN active
  OBVIOUS
<1> HIDE DEF record, active
<1>8. RecordsFollow
  BY <1>4, <1>5, <1>6, <1>7, RecordFollows
<1>9. LiveFollows
  BY <1>5, <1>6, <1>7, RunFollows
<1>10. OrphanHolds' /\ VerdictSound'
  BY <1>2 DEF OrphanHolds, VerdictSound
<1> QED
  BY <1>2, <1>8, <1>9, <1>10, CommitParts, CommitFrame

\* activity.start only moves the run.
LEMMA StartRequestsCommit ==
    ASSUME PipelineInv, CommitInv, UNCHANGED delivery, StartRequests
    PROVE  CommitInv'
<1>1. PICK r \in RunIds : r = dsp.run /\ live[r] # None
  BY DEF StartRequests, PipelineInv, RunInv, StartingRun, InStage
<1>2. /\ UNCHANGED <<receipts, job, archive, runs, dlv, used>> /\ dsp' = Drained(dsp)
      /\ dsp \in Dispatcher
  BY DEF StartRequests, ledger, encrypted, delivery, PipelineInv, RunInv
<1> DEFINE row == [live[r] EXCEPT !.stage = "running"]
<1>3. live' = [live EXCEPT ![r] = row]
  BY <1>1 DEF StartRequests
<1>4. /\ {"input", "req"} \subseteq DOMAIN row
      /\ row.input = live[r].input /\ row.req = live[r].req
  BY <1>1 DEF CommitInv, RowShape
<1> HIDE DEF row
<1>5. LiveFollows
  BY <1>1, <1>3, <1>4, RunFollows
<1>6. DispatcherGoesOn /\ dsp'.pc \notin {"reconcile", "resolve"}
  BY <1>2, DrainedGoesOn
<1>7. OrphanHolds' /\ VerdictSound'
  BY <1>2, <1>6, CommitParts, DispatcherFrame
<1> QED
  BY <1>2, <1>5, <1>7, CommitParts, CommitFrame

\* The catch branch of startClaimedJob defers the job of a run that never ran.
LEMMA StartThrowsCommit ==
    ASSUME PipelineInv, CommitInv, UNCHANGED delivery, StartThrows
    PROVE  CommitInv'
<1>1. PICK r \in RunIds : /\ r = dsp.run /\ Holds(r) /\ dsp.pc \in {"start", "request"}
                          /\ dsp.pc = "request" => InStage(r, "starting")
  BY DEF StartThrows, PipelineInv, RunInv, StartingRun
<1>2. ~Published(r)
  BY <1>1 DEF PipelineInv, ArchiveInv, PublishedOnce, InStage
<1>3. used'.runs = used.runs /\ dsp \in Dispatcher
  BY FaultUsed DEF StartThrows, PipelineInv, RunInv
<1>4. DeferJob(FALSE) /\ DeleteAttempt(r) /\ UNCHANGED dlv
      /\ live' \in {live, [live EXCEPT ![r] = None]}
  BY <1>1 DEF StartThrows, delivery
<1>5. RecordsFollow /\ UNCHANGED archive
  BY <1>4, DeletedFollows
<1>6. LiveFollows
  BY <1>4, RunFollows
<1>7. HolderKept /\ JobNumbers' /\ ReceiptsGrow
  BY <1>1, <1>2, <1>4, LetGoKept
<1> DEFINE d == [dsp EXCEPT !.mine = @ \ {dsp.run}]
<1>8. d \in Dispatcher
  BY <1>3 DEF Dispatcher
<1>9. dsp' = Drained(Woken(d))
  BY DEF StartThrows
<1> HIDE DEF d
<1>10. DispatcherGoesOn /\ dsp'.pc \notin {"reconcile", "resolve"}
  BY <1>8, <1>9, WokenDispatcher, DrainedGoesOn
<1>11. OrphanHolds' /\ VerdictSound'
  BY <1>5, <1>10, CommitParts, DispatcherFrame
<1> QED
  BY <1>3, <1>4, <1>5, <1>6, <1>7, <1>11, CommitParts, CommitFrame

\* So the dispatcher preserves the invariant.
LEMMA DispatcherCommit ==
    ASSUME PipelineInv, CommitInv, DispatcherStep
    PROVE  CommitInv'
BY DrainCommit, ClaimCommit, ReadOrphanedCommit, ResolveCommit, StartPersistsCommit,
   StartRequestsCommit, StartThrowsCommit DEF DispatcherStep, DispatcherDrains

----------------------------------------------------------------------------
(* Steps of the runs *)

\* A run that is still active is not the orphan that is being reconciled.
LEMMA ActiveIsNoOrphan ==
    ASSUME PipelineInv, CommitInv, NEW r \in RunIds, live[r] # None, Holds(r)
    PROVE  dsp.pc \notin {"reconcile", "resolve"}
BY HolderUnique DEF PipelineInv, RunInv, OrphanedRun, CommitInv, OrphanHolds

\* A run goes on in another stage; its record is left alone or gets its failure.
LEMMA RunGoesOnCommit ==
    ASSUME PipelineInv, CommitInv, UNCHANGED delivery, NEW r \in RunIds,
           \/ SidecarCompletes(r) \/ SidecarFails(r) \/ SidecarExits(r)
           \/ EmitFailure(r) \/ PersistFailure(r) \/ CommitThrows(r)
    PROVE  CommitInv'
<1> USE DEF ledger, encrypted, session
<1>1. /\ live[r] # None /\ live[r].stage \in {"running", "failing", "finishing", "committing"}
      /\ {"stage", "input", "req"} \subseteq DOMAIN live[r]
  BY DEF SidecarCompletes, SidecarFails, SidecarExits, EmitFailure, PersistFailure,
     CommitThrows, InStage, PipelineInv, RunInv, LiveShape, CommitInv, RowShape
<1>2. ~Published(r)
  BY <1>1 DEF PipelineInv, ArchiveInv, PublishedOnce
<1>3. /\ UNCHANGED <<receipts, job, archive, dlv, dsp>> /\ used'.runs = used.runs
  BY FaultUsed DEF SidecarCompletes, SidecarFails, SidecarExits, EmitFailure,
     PersistFailure, CommitThrows, PutRun, delivery, PipelineInv, RunInv
<1>4. LiveFollows
  <2>1. ASSUME NEW row, live' = [live EXCEPT ![r] = row],
               DOMAIN row = DOMAIN live[r], row.input = live[r].input,
               row.req = live[r].req
        PROVE  LiveFollows
    BY <1>1, <2>1, RunFollows
  <2>2. CASE SidecarFails(r)
    <3>1. PICK c : live' = [live EXCEPT ![r] = [live[r] EXCEPT !.stage = "failing",
                                                             !.class = c]]
      BY <2>2 DEF SidecarFails
    <3> DEFINE row == [live[r] EXCEPT !.stage = "failing", !.class = c]
    <3>2. /\ DOMAIN row = DOMAIN live[r] /\ row.input = live[r].input
          /\ row.req = live[r].req
      BY <1>1
    <3>3. live' = [live EXCEPT ![r] = row]
      BY <3>1
    <3> HIDE DEF row
    <3> QED
      BY <2>1, <3>2, <3>3
  <2>3. CASE SidecarExits(r)
    <3>1. PICK s : live' = [live EXCEPT ![r] = [live[r] EXCEPT !.stage = s,
                                                             !.class = "terminal"]]
      BY <2>3 DEF SidecarExits
    <3> DEFINE row == [live[r] EXCEPT !.stage = s, !.class = "terminal"]
    <3>2. /\ DOMAIN row = DOMAIN live[r] /\ row.input = live[r].input
          /\ row.req = live[r].req
      BY <1>1
    <3>3. live' = [live EXCEPT ![r] = row]
      BY <3>1
    <3> HIDE DEF row
    <3> QED
      BY <2>1, <3>2, <3>3
  <2>4. CASE ~SidecarFails(r) /\ ~SidecarExits(r)
    <3>1. PICK s : live' = [live EXCEPT ![r] = [live[r] EXCEPT !.stage = s]]
      BY <2>4 DEF SidecarCompletes, EmitFailure, PersistFailure, CommitThrows, ToStage
    <3> DEFINE row == [live[r] EXCEPT !.stage = s]
    <3>2. /\ DOMAIN row = DOMAIN live[r] /\ row.input = live[r].input
          /\ row.req = live[r].req
      BY <1>1
    <3>3. live' = [live EXCEPT ![r] = row]
      BY <3>1
    <3> HIDE DEF row
    <3> QED
      BY <2>1, <3>2, <3>3
  <2> QED
    BY <2>2, <2>3, <2>4
<1>5. RecordsFollow
  <2>1. CASE UNCHANGED runs
    BY <2>1, CommitParts
  <2>2. CASE EmitFailure(r) \/ PersistFailure(r)
    <3>1. PICK s, i : /\ runs' = [runs EXCEPT ![r] =
                              [status |-> s, invalid |-> i, input |-> live[r].input,
                               req |-> live[r].req]]
                      /\ s # "completed"
      <4>1. CASE EmitFailure(r)
        <5> DEFINE status == IF live[r].class = "terminal" THEN "interrupted" ELSE "failed"
        <5>1. runs' = [runs EXCEPT ![r] = [status |-> status, invalid |-> FALSE,
                                           input |-> live[r].input, req |-> live[r].req]]
          BY <4>1 DEF EmitFailure, PutRun
        <5>2. status # "completed"
          OBVIOUS
        <5> HIDE DEF status
        <5> QED
          BY <5>1, <5>2
      <4>2. CASE PersistFailure(r)
        <5>1. runs[r].status # "completed"
          BY <4>2 DEF PersistFailure, PipelineInv, ArchiveInv, FailureRecord
        <5> QED
          BY <4>2, <5>1 DEF PersistFailure, PutRun
      <4> QED
        BY <2>2, <4>1, <4>2
    <3> DEFINE row == [status |-> s, invalid |-> i, input |-> live[r].input,
                       req |-> live[r].req]
    <3>2. /\ {"status", "invalid", "input", "req"} \subseteq DOMAIN row
          /\ row.status # "completed" /\ row.input = live[r].input
          /\ row.req = live[r].req
      BY <3>1
    <3>3. runs' = [runs EXCEPT ![r] = row] /\ ~Completed(r)
      BY <1>2, <3>1 DEF Published
    <3> HIDE DEF row
    <3> QED
      BY <1>1, <3>2, <3>3, RecordFollows
  <2> QED
    BY <2>1, <2>2 DEF SidecarCompletes, SidecarFails, SidecarExits, CommitThrows
<1>6. DispatcherGoesOn /\ \A q \in RunIds : Holds(q) => Holds(q)'
  BY <1>3 DEF DispatcherGoesOn, Holds
<1>7. OrphanHolds' /\ VerdictSound'
  BY <1>3, <1>5, <1>6, CommitParts, DispatcherFrame
<1> QED
  BY <1>3, <1>4, <1>5, <1>7, CommitParts, CommitFrame DEF delivery

\* quiesceActivityRunsForSessionTransition: a run that has not published leaves,
\* its record is cancelled or left as it was.
LEMMA QuiesceCommit ==
    ASSUME PipelineInv, CommitInv, UNCHANGED delivery, NEW r \in RunIds, QuiesceRun(r)
    PROVE  CommitInv'
<1> USE DEF ledger, encrypted, session
<1>1. live[r] # None /\ ~Published(r)
  BY DEF QuiesceRun, OpenStages, PipelineInv, ArchiveInv, PublishedOnce
<1>2. UNCHANGED <<receipts, job, archive, dlv, dsp>> /\ used'.runs = used.runs
  BY DEF QuiesceRun, PutRun, delivery
<1>3. LiveFollows
  BY RunFollows DEF QuiesceRun
<1> DEFINE row == [status |-> "cancelled", invalid |-> FALSE, input |-> live[r].input,
                   req |-> live[r].req]
<1>4. /\ {"status", "invalid", "input", "req"} \subseteq DOMAIN row
      /\ row.status # "completed" /\ row.input = live[r].input
      /\ row.req = live[r].req
  OBVIOUS
<1>5. (runs' = runs \/ runs' = [runs EXCEPT ![r] = row]) /\ ~Completed(r)
  BY <1>1 DEF QuiesceRun, PutRun, Published
<1> HIDE DEF row
<1>6. RecordsFollow
  BY <1>1, <1>4, <1>5, RecordFollows
<1>7. DispatcherGoesOn /\ \A q \in RunIds : Holds(q) => Holds(q)'
  BY <1>2 DEF DispatcherGoesOn, Holds
<1>8. OrphanHolds' /\ VerdictSound'
  BY <1>2, <1>6, <1>7, CommitParts, DispatcherFrame
<1> QED
  BY <1>2, <1>3, <1>6, <1>8, CommitParts, CommitFrame DEF delivery

\* cancelAllForAccount: a run that has not published leaves, and lets its job go.
LEMMA CancelCommit ==
    ASSUME PipelineInv, CommitInv, UNCHANGED delivery, NEW r \in RunIds,
           CancelRun(r, BundlePresent)
    PROVE  CommitInv'
<1> USE DEF ledger, encrypted, session
<1>1. live[r] # None /\ ~Published(r)
  BY DEF CancelRun, OpenStages, PipelineInv, ArchiveInv, PublishedOnce
<1>2. UNCHANGED <<archive, dlv>> /\ used'.runs = used.runs
  BY DEF CancelRun, delivery
<1>3. LiveFollows
  BY RunFollows DEF CancelRun
<1>4. RecordsFollow
  <2>1. PICK record : record \in CancelledRecord(r, BundlePresent /\ Holds(r))
                      /\ runs' = [runs EXCEPT ![r] = record]
    BY DEF CancelRun
  <2>2. PICK row : /\ record = runs[r] \/ record = None \/ record = row
                   /\ {"status", "invalid", "input", "req"} \subseteq DOMAIN row
                   /\ row.status # "completed" /\ row.input = live[r].input
                   /\ row.req = live[r].req
    <3> DEFINE status == IF live[r].stage \in OpenStages THEN "cancelled"
                         ELSE IF live[r].class = "terminal" THEN "interrupted" ELSE "failed"
               row == [status |-> status, invalid |-> live[r].class = "invalid-output",
                       input |-> live[r].input, req |-> live[r].req]
    <3>1. record \in {runs[r], row, None}
      BY <2>1 DEF CancelledRecord
    <3>2. status # "completed"
      OBVIOUS
    <3> HIDE DEF status
    <3>3. /\ {"status", "invalid", "input", "req"} \subseteq DOMAIN row
          /\ row.status # "completed" /\ row.input = live[r].input
          /\ row.req = live[r].req
      BY <3>2
    <3> HIDE DEF row
    <3> QED
      BY <3>1, <3>3
  <2>3. ~Completed(r)
    BY <1>1 DEF Published
  <2>4. CASE record = runs[r]
    <3>1. runs' = runs
      BY <2>1, <2>4 DEF PipelineInv, ArchiveInv, ArchiveShape
    <3> QED
      BY <3>1, CommitParts
  <2>5. CASE record # runs[r]
    BY <1>1, <2>1, <2>2, <2>3, <2>5, RecordFollows
  <2> QED
    BY <2>4, <2>5
<1>5. /\ HolderKept /\ JobNumbers' /\ ReceiptsGrow
      /\ Holds(r) \/ job' = job
  <2>1. CASE UNCHANGED ledger
    BY <2>1, CommitParts
  <2>2. CASE ~UNCHANGED ledger
    <3>1. Holds(r) /\ DeferJob(FALSE)
      BY <2>2 DEF CancelRun
    <3> QED
      BY <1>1, <3>1, LetGoKept
  <2> QED
    BY <2>1, <2>2
<1>6. DispatcherGoesOn
  <2>1. CASE dsp' = dsp
    BY <2>1 DEF DispatcherGoesOn
  <2>2. CASE dsp' # dsp
    <3> DEFINE d == [dsp EXCEPT !.mine = @ \ {r}]
    <3>1. /\ d \in Dispatcher /\ d.pc = dsp.pc /\ d.run = dsp.run
          /\ d.verdict = dsp.verdict
      BY DEF PipelineInv, RunInv, Dispatcher
    <3>2. dsp' = Woken(d)
      BY <2>2 DEF CancelRun
    <3> HIDE DEF d
    <3> QED
      BY <3>1, <3>2, WokenGoesOn DEF PipelineInv
  <2> QED
    BY <2>1, <2>2
<1>7. dsp'.pc \in {"reconcile", "resolve"} => \A q \in RunIds : Holds(q) => Holds(q)'
  BY <1>1, <1>5, <1>6, ActiveIsNoOrphan DEF DispatcherGoesOn, Holds
<1>8. OrphanHolds' /\ VerdictSound'
  BY <1>2, <1>4, <1>6, <1>7, CommitParts, DispatcherFrame
<1> QED
  BY <1>2, <1>3, <1>4, <1>5, <1>8, CommitParts, CommitFrame

\* Phase one. The run holds the job and publishes what it was given: the archives
\* of the job's windows, under their request ids, become its own.
LEMMA CommitRunCommit ==
    ASSUME PipelineInv, CommitInv, UNCHANGED delivery, NEW r \in RunIds, CommitRun(r)
    PROVE  CommitInv'
<1> USE DEF CommitInv
<1> DEFINE input == live[r].input
<1>0. NoRun \notin RunIds
  BY WindowsNat DEF NoRun
<1>1. /\ live[r] # None /\ live[r].stage = "committing"
      /\ {"stage", "input", "req"} \subseteq DOMAIN live[r]
      /\ UNCHANGED <<receipts, job, dlv, dsp, used>>
  BY DEF CommitRun, InStage, ledger, delivery, PipelineInv, RunInv, LiveShape, RowShape
<1>2. Holds(r) /\ ~Published(r) /\ dsp.pc \notin {"reconcile", "resolve"}
  BY <1>1, ActiveIsNoOrphan
  DEF PipelineInv, ArchiveInv, RunInputs, AtWork, InStage, PublishedOnce
<1>3. input = InputOf(job) /\ live[r].req = RequestOf(job) /\ DOMAIN input = job.windows
  BY <1>1, <1>2 DEF HeldInput, InputOf
<1>4. \A w \in job.windows : w \in Windows /\ receipts[w] # None
  BY <1>2 DEF PipelineInv, DeliveryInv, JobIsReceived, Holds
<1>5. \A w \in DOMAIN input : HasArchive(w, input[w]) /\ archive[w].by \in {NoRun, r}
  BY DEF CommitRun, CanPublish
<1>6. archive' = [w \in Windows |-> IF w \in DOMAIN input
                                    THEN [archive[w] EXCEPT !.by = r] ELSE archive[w]]
  BY DEF CommitRun, PublishCompletedRun
<1>7. /\ runs'[r] = [status |-> "completed", invalid |-> FALSE, input |-> input,
                     req |-> live[r].req]
      /\ \A q \in RunIds : q # r => runs'[q] = runs[q]
  BY DEF CommitRun, PublishCompletedRun, PipelineInv, ArchiveInv, ArchiveShape
<1>8. /\ live' = [live EXCEPT ![r] = [live[r] EXCEPT !.stage = "committed"]]
      /\ \A q \in RunIds : q # r => live'[q] = live[q]
  BY DEF CommitRun, ToStage, PipelineInv, RunInv, LiveShape
<1> HIDE DEF input
<1>9. ASSUME NEW w \in DOMAIN input
      PROVE  /\ archive'[w] # None /\ {"sem", "by"} \subseteq DOMAIN archive'[w]
             /\ archive'[w].sem = archive[w].sem /\ archive'[w].by = r
  <2>1. w \in Windows /\ archive[w] # None /\ {"sem", "by"} \subseteq DOMAIN archive[w]
    BY <1>3, <1>4, <1>5, <1>9 DEF HasArchive, RowShape
  <2>2. archive'[w] = [archive[w] EXCEPT !.by = r]
    BY <1>6, <1>9, <2>1
  <2>3. /\ {"sem", "by"} \subseteq DOMAIN archive'[w]
        /\ archive'[w].sem = archive[w].sem /\ archive'[w].by = r
    BY <2>1, <2>2
  <2> QED
    BY <2>3, RowIsNotNone
<1>10. \A w \in Windows : w \notin DOMAIN input => archive'[w] = archive[w]
  BY <1>6
<1>11. \A w \in Windows : \A k : HasArchive(w, k) => HasArchive(w, k)'
  BY <1>9, <1>10 DEF HasArchive
<1>12. RowShape'
  <2>1. live'[r] = [live[r] EXCEPT !.stage = "committed"]
    BY <1>8 DEF PipelineInv, RunInv, LiveShape
  <2>2. {"input", "req"} \subseteq DOMAIN live'[r]
    BY <1>1, <2>1
  <2>3. \A q \in RunIds : live'[q] # None => {"input", "req"} \subseteq DOMAIN live'[q]
    BY <1>8, <2>2 DEF RowShape
  <2>4. {"status", "invalid", "input", "req"} \subseteq DOMAIN runs'[r]
    BY <1>7
  <2>5. \A q \in RunIds : runs'[q] # None =>
          {"status", "invalid", "input", "req"} \subseteq DOMAIN runs'[q]
    BY <1>7, <2>4 DEF RowShape
  <2>6. \A w \in Windows : archive'[w] # None =>
          {"sem", "by"} \subseteq DOMAIN archive'[w] /\ archive'[w].by \in RunIds \cup {NoRun}
    BY <1>9, <1>10 DEF RowShape
  <2> QED
    BY <1>1, <2>3, <2>5, <2>6 DEF RowShape
<1>13. JobNumbers' /\ OrphanHolds' /\ VerdictSound'
  BY <1>1, <1>2 DEF JobNumbers, OrphanHolds, VerdictSound
<1>14. FreshRecords'
  <2>1. ~(r > used.runs)
    BY <1>1 DEF PipelineInv, RunInv, FreshRuns
  <2> QED
    BY <1>1, <1>7, <2>1 DEF FreshRecords
<1>15. ReceiptArchived'
  BY <1>1, <1>11 DEF ReceiptArchived, HasArchive
<1>16. ConsumedIsHeld'
  <2> SUFFICES ASSUME NEW w \in Windows, NEW q \in RunIds, receipts[w] # None,
                      ConsumedBy(w, q)'
               PROVE  Holds(q) /\ w \in job.windows
    BY <1>1 DEF ConsumedIsHeld, Holds
  <2>1. CASE w \in DOMAIN input
    BY <1>2, <1>3, <1>9, <2>1 DEF ConsumedBy
  <2>2. CASE w \notin DOMAIN input
    BY <1>10, <2>2 DEF ConsumedIsHeld, ConsumedBy
  <2> QED
    BY <2>1, <2>2
<1>17. InputOf(job)' = InputOf(job) /\ RequestOf(job)' = RequestOf(job)
  BY <1>1 DEF InputOf, RequestOf
<1>18. \A q \in RunIds : Holds(q)' => q = r
  BY <1>1, <1>2 DEF Holds
<1>19. HeldInput'
  <2>1. live'[r] = [live[r] EXCEPT !.stage = "committed"]
    BY <1>8 DEF PipelineInv, RunInv, LiveShape
  <2>2. live'[r].input = input /\ live'[r].req = live[r].req
    BY <1>1, <2>1 DEF input
  <2> QED
    BY <1>3, <1>17, <1>18, <2>2 DEF HeldInput
<1>20. HeldRecord'
  BY <1>3, <1>7, <1>17, <1>18 DEF HeldRecord
<1>21. Verified(r, InputOf(job), RequestOf(job))'
  <2>1. Completed(r)' /\ runs'[r].input = input /\ runs'[r].req = live[r].req
    <3>1. runs'[r].status = "completed" /\ runs'[r] # None
      BY <1>7 DEF None
    <3> QED
      BY <1>7, <3>1 DEF Completed
  <2>2. \A w \in Windows : archive'[w] # None /\ archive'[w].by = r <=> w \in DOMAIN input
    BY <1>2, <1>9, <1>10 DEF Published, ConsumedBy
  <2>3. {w \in Windows : archive'[w] # None /\ archive'[w].by = r} = DOMAIN input
    BY <1>3, <1>4, <2>2
  <2>4. \A w \in DOMAIN input : archive'[w] # None /\ archive'[w].sem = input[w]
    BY <1>5, <1>9 DEF HasArchive
  <2> QED
    <3>1. InputOf(job)' = input /\ RequestOf(job)' = live[r].req
      BY <1>3, <1>17
    <3> QED
      BY <2>1, <2>3, <2>4, <3>1 DEF Verified, HasArchive
<1>22. PublishedVerified'
  BY <1>18, <1>21 DEF PublishedVerified
<1>23. InHandArchived'
  <2>1. ASSUME dlv.pc \in {"analyze", "archive", "apply"}
        PROVE  dlv.w \in Windows /\ dlv.w \notin DOMAIN input
    BY <1>3, <1>4, <2>1 DEF PipelineInv, DeliveryInv, InHand
  <2> QED
    BY <1>1, <1>10, <2>1 DEF InHandArchived, HasArchive
<1> QED
  BY <1>12, <1>13, <1>14, <1>15, <1>16, <1>19, <1>20, <1>22, <1>23

\* finishRun and onActivityRunTerminal: phase two for a run that has committed, a
\* retry or the end of the job for one that has not.
LEMMA FinishCommit ==
    ASSUME PipelineInv, CommitInv, UNCHANGED delivery, NEW r \in RunIds,
           FinishRun(r, BundlePresent)
    PROVE  CommitInv'
<1> USE DEF ledger, encrypted, session
<1>1. /\ live[r] # None /\ used' = used /\ UNCHANGED dlv
      /\ live[r].stage \in {"committed", "finished", "unpersisted"}
      /\ Published(r) => live[r].stage = "committed"
  BY DEF FinishRun, delivery, PipelineInv, ArchiveInv, PublishedOnce
<1>2. LiveFollows
  BY RunFollows DEF FinishRun
<1>3. RecordsFollow /\ UNCHANGED archive
  <2>1. CASE UNCHANGED <<runs, archive>>
    BY <2>1, CommitParts
  <2>2. CASE DeleteAttempt(r)
    BY <2>2, DeletedFollows
  <2> QED
    BY <2>1, <2>2 DEF FinishRun
<1>4. DispatcherGoesOn
  <2>1. CASE dsp' = dsp
    BY <2>1 DEF DispatcherGoesOn
  <2>2. CASE dsp' # dsp
    <3> DEFINE d == [dsp EXCEPT !.mine = @ \ {r}]
    <3>1. /\ d \in Dispatcher /\ d.pc = dsp.pc /\ d.run = dsp.run
          /\ d.verdict = dsp.verdict
      BY DEF PipelineInv, RunInv, Dispatcher
    <3>2. dsp' = Woken(d)
      BY <2>2 DEF FinishRun
    <3> HIDE DEF d
    <3> QED
      BY <3>1, <3>2, WokenGoesOn DEF PipelineInv
  <2> QED
    BY <2>1, <2>2
<1>5. UNCHANGED ledger \/ (Holds(r) /\ JobAfterRun(r))
  BY DEF FinishRun, JobAfterRun
<1>6. dsp'.pc \in {"reconcile", "resolve"} => \A q \in RunIds : Holds(q) => Holds(q)'
  BY <1>1, <1>4, <1>5, ActiveIsNoOrphan DEF DispatcherGoesOn, Holds
<1>7. OrphanHolds' /\ VerdictSound' /\ InHandArchived'
  BY <1>1, <1>3, <1>4, <1>6, CommitParts, DispatcherFrame
<1>8. CASE UNCHANGED ledger
  BY <1>1, <1>2, <1>3, <1>7, <1>8, CommitParts, CommitFrame
<1>9. CASE Holds(r) /\ live[r].stage = "committed" /\ JobAfterRun(r)
  <2>1. CompleteJob
    BY <1>9 DEF JobAfterRun
  <2> QED
    BY <1>1, <1>2, <1>3, <1>7, <1>9, <2>1, CompletionCommit
<1>10. CASE Holds(r) /\ live[r].stage # "committed" /\ JobAfterRun(r)
  <2>1. DeferJob(ReportedClass(r) = "invalid-output") \/ FailJobTerminally
    BY <1>10 DEF JobAfterRun
  <2>2. (\E semantic \in BOOLEAN : DeferJob(semantic)) \/ FailJobTerminally
    <3>1. (ReportedClass(r) = "invalid-output") \in BOOLEAN
      OBVIOUS
    <3> QED
      BY <2>1, <3>1, Zenon
  <2>3. HolderKept /\ JobNumbers' /\ ReceiptsGrow
    BY <1>1, <1>10, <2>2, LetGoKept
  <2> QED
    BY <1>1, <1>2, <1>3, <1>7, <2>3, CommitParts, CommitFrame
<1> QED
  BY <1>5, <1>8, <1>9, <1>10

\* So the runs preserve the invariant.
LEMMA RunStepCommit ==
    ASSUME PipelineInv, CommitInv, RunStep
    PROVE  CommitInv'
<1>1. UNCHANGED delivery
  BY DEF RunStep
<1>2. PICK r \in RunIds :
        \/ SidecarCompletes(r) \/ SidecarFails(r) \/ SidecarExits(r)
        \/ EmitFailure(r) \/ PersistFailure(r)
        \/ CommitRun(r) \/ CommitThrows(r)
        \/ FinishRun(r, BundlePresent) \/ QuiesceRun(r) \/ CancelRun(r, BundlePresent)
  BY DEF RunStep
<1> QED
  BY <1>1, <1>2, RunGoesOnCommit, CommitRunCommit, FinishCommit, QuiesceCommit,
     CancelCommit

----------------------------------------------------------------------------
(* Lifecycle, sessions, time, crashes, retention *)

\* Runs that are marked old keep their input.
LEMMA MarkOldFollows ==
    ASSUME CommitInv, live' \in {live, MarkOld}
    PROVE  LiveFollows
<1> SUFFICES ASSUME NEW r \in RunIds, live'[r] # None
             PROVE  /\ {"input", "req"} \subseteq DOMAIN live'[r] /\ live[r] # None
                    /\ live'[r].input = live[r].input /\ live'[r].req = live[r].req
  BY DEF LiveFollows
<1>1. live'[r] = live[r] \/ (live[r] # None /\ live'[r] = [live[r] EXCEPT !.old = TRUE])
  BY DEF MarkOld
<1>2. live[r] # None /\ {"input", "req"} \subseteq DOMAIN live[r]
  BY <1>1 DEF CommitInv, RowShape
<1> QED
  BY <1>1, <1>2

\* Starting the bundle takes up the run of a running job, or no run.
LEMMA StartBundleGoesOn ==
    ASSUME PipelineInv, CommitInv, StartBundle
    PROVE  /\ JobNew
           /\ DispatcherGoesOn \/ (dsp'.pc = "reconcile" /\ Holds(dsp'.run) /\ job' = job
                                   /\ dsp'.verdict = "none")
<1>1. JobNew
  BY MaterializeNew DEF StartBundle, RecoverJobs
<1>2. NewDispatcher \in Dispatcher /\ NewDispatcher.verdict = "none"
      /\ NewDispatcher.pc = "idle"
  BY NewDispatcherType DEF NewDispatcher
<1>3. CASE NextJobKind # "running"
  <2>1. dsp' = NewDispatcher
    BY <1>3 DEF StartBundle
  <2> QED
    BY <1>1, <1>2, <2>1 DEF DispatcherGoesOn
<1>4. CASE NextJobKind = "running"
  <2>1. dsp' = Reconciling(NewDispatcher) /\ job # None
    BY <1>4 DEF StartBundle, NextJobKind, ActiveJob
  <2>2. /\ dsp'.verdict = "none"
        /\ \/ dsp'.pc \in {"idle", "queued"}
           \/ dsp'.pc = "reconcile" /\ Holds(dsp'.run)
    <3>1. dsp'.verdict \in {"none", NewDispatcher.verdict}
      BY <1>2, <1>4, <2>1, ReconcilingOrphan
    <3>2. \/ dsp'.pc \in {"idle", "queued"}
          \/ dsp'.pc = "reconcile" /\ Holds(Reconciling(NewDispatcher).run)
      BY <1>2, <1>4, <2>1, ReconcilingOrphan
    <3> QED
      BY <1>2, <2>1, <3>1, <3>2
  <2>3. job' = job
    BY <1>1, <2>1 DEF JobNew
  <2> QED
    BY <1>1, <2>2, <2>3 DEF DispatcherGoesOn
<1> QED
  BY <1>3, <1>4

\* Starting and stopping the bundle.
LEMMA LifecycleCommit ==
    ASSUME PipelineInv, CommitInv, Lifecycle
    PROVE  CommitInv'
<1> USE DEF ledger, encrypted, dispatch, session, delivery
<1>1. /\ UNCHANGED <<receipts, archive, runs>> /\ used'.runs = used.runs
      /\ dsp \in Dispatcher /\ live' \in {live, MarkOld}
  BY FaultUsed DEF Lifecycle, StartBundle, RecoverJobs, RecoveryThrows, ListWindows,
     PersistListedWindow, Enqueue, FinishActivation, StopBundle, StopDispatcher,
     ReleaseBundle, PipelineInv, RunInv
<1>2. JobNew
  BY MaterializeNew DEF Lifecycle, StartBundle, RecoverJobs, RecoveryThrows, ListWindows,
     PersistListedWindow, Enqueue, FinishActivation, StopBundle, StopDispatcher,
     ReleaseBundle, JobNew
<1>3. HolderKept /\ JobNumbers' /\ \A r : Holds(r)' <=> Holds(r)
  BY <1>2, JobNewKept
<1>4. InHandArchived'
  <2>1. \/ dlv' = dlv \/ dlv' = [dlv EXCEPT !.on = TRUE]
        \/ dlv' = [dlv EXCEPT !.on = FALSE, !.timer = FALSE]
    BY DEF Lifecycle, StartBundle, RecoveryThrows, ListWindows, PersistListedWindow,
       FinishActivation, StopBundle, StopDispatcher, ReleaseBundle, StopService
  <2>2. dlv'.pc = dlv.pc /\ dlv'.w = dlv.w /\ dlv'.k = dlv.k
    BY <2>1 DEF PipelineInv, DeliveryInv, ServiceShape
  <2> QED
    BY <1>1, <2>2 DEF CommitInv, InHandArchived, HasArchive
<1>5. OrphanHolds' /\ VerdictSound'
  <2>1. CASE DispatcherGoesOn
    BY <1>1, <1>3, <2>1, CommitParts, DispatcherFrame
  <2>2. CASE StartBundle /\ ~DispatcherGoesOn
    BY <2>2, StartBundleGoesOn DEF OrphanHolds, VerdictSound, Holds
  <2>3. CASE RecoveryThrows \/ ReleaseBundle
    <3>1. dsp' = Drained(dsp) \/ dsp' = NewDispatcher
      BY <2>3 DEF RecoveryThrows, ReleaseBundle
    <3>2. DispatcherGoesOn
      BY <1>1, <3>1, DrainedGoesOn DEF NewDispatcher, DispatcherGoesOn
    <3> QED
      BY <2>1, <3>2
  <2>4. CASE FinishActivation
    <3> DEFINE d == [dsp EXCEPT !.on = TRUE]
    <3>1. d \in Dispatcher /\ d.pc = dsp.pc /\ d.run = dsp.run /\ d.verdict = dsp.verdict
      BY <1>1 DEF Dispatcher
    <3>2. dsp' = dsp \/ dsp' = Woken(d)
      BY <2>4 DEF FinishActivation
    <3> HIDE DEF d
    <3>3. DispatcherGoesOn
      BY <3>1, <3>2, WokenGoesOn DEF PipelineInv, DispatcherGoesOn
    <3> QED
      BY <2>1, <3>3
  <2>5. CASE ListWindows \/ PersistListedWindow \/ StopBundle \/ StopDispatcher
    <3>1. dsp' = dsp \/ dsp' = [dsp EXCEPT !.on = FALSE, !.wake = FALSE, !.timer = FALSE]
      BY <2>5 DEF ListWindows, PersistListedWindow, StopBundle, StopDispatcher
    <3>2. DispatcherGoesOn
      BY <1>1, <3>1 DEF DispatcherGoesOn, Dispatcher
    <3> QED
      BY <2>1, <3>2
  <2> QED
    BY <2>1, <2>2, <2>3, <2>4, <2>5 DEF Lifecycle
<1>6. ReceiptsGrow /\ ArchiveKept /\ RecordsFollow /\ LiveFollows
  BY <1>1, CommitParts, MarkOldFollows
<1> QED
  BY <1>1, <1>3, <1>4, <1>5, <1>6, CommitFrame

\* Sealing, time, session changes and crashes leave the two databases alone but
\* for the retry time of the job.
LEMMA OtherCommit ==
    ASSUME PipelineInv, CommitInv,
           \/ SealWindow(phase = "starting") \/ TimePasses
           \/ RefreshSession \/ SignOut \/ Crash
    PROVE  CommitInv'
<1> USE DEF ledger, encrypted, dispatch, session, delivery
<1>1. UNCHANGED <<receipts, archive, runs>> /\ used'.runs = used.runs
  BY DEF SealWindow, TimePasses, JobBackoffElapses, BackoffElapses, RefreshSession,
     SignOut, Crash, PipelineInv, RunInv, UsedShape
<1>2. HolderKept /\ JobNumbers' /\ \A r \in RunIds : Holds(r) => Holds(r)'
  <2>1. CASE job' = job
    BY <2>1, CommitParts DEF Holds
  <2>2. CASE JobBackoffElapses
    <3>1. /\ job # None /\ job.status = "retry_wait"
          /\ job' = [job EXCEPT !.due = TRUE]
      BY <2>2 DEF JobBackoffElapses
    <3>2. /\ job'.status = "retry_wait" /\ job'.attempt = job.attempt
          /\ job'.req = job.req
      BY <3>1 DEF PipelineInv, RunInv, JobShape, JobFields
    <3> QED
      BY <3>1, <3>2 DEF CommitInv, HolderKept, Holds, JobNumbers
  <2> QED
    BY <2>1, <2>2 DEF SealWindow, TimePasses, BackoffElapses, RefreshSession, SignOut,
       Crash
<1>3. LiveFollows
  <2>1. CASE live' \in {live, MarkOld}
    BY <2>1, MarkOldFollows
  <2>2. CASE live' = [r \in RunIds |-> None]
    BY <2>2 DEF LiveFollows
  <2> QED
    BY <2>1, <2>2 DEF SealWindow, TimePasses, RefreshSession, SignOut, Crash
<1>4. DispatcherGoesOn
  BY DEF SealWindow, TimePasses, RefreshSession, SignOut, Crash, DispatcherGoesOn,
     NewDispatcher
<1>5. InHandArchived'
  <2>1. CASE dlv' = dlv
    BY <1>1, <2>1, CommitParts
  <2>2. CASE dlv' = StoppedService
    BY <2>2 DEF StoppedService, InHandArchived
  <2> QED
    BY <2>1, <2>2 DEF SealWindow, TimePasses, RefreshSession, SignOut, Crash
<1>6. ReceiptsGrow /\ ArchiveKept /\ RecordsFollow /\ OrphanHolds' /\ VerdictSound'
  BY <1>1, <1>2, <1>4, CommitParts, DispatcherFrame
<1> QED
  BY <1>1, <1>2, <1>3, <1>5, <1>6, CommitFrame

\* Retention takes the record and the archives of a run that does not hold the
\* job; a receipt on such an archive would mean that it does.
LEMMA CleanupCommit ==
    ASSUME PipelineInv, CommitInv, NEW r \in RunIds, CleanupRun(r)
    PROVE  CommitInv'
<1> USE DEF CommitInv, ledger, dispatch, session, delivery
<1>1. /\ UNCHANGED <<outbox, receipts, job, live, dsp, used, dlv>>
      /\ r # dsp.run /\ ~Holds(r)
      /\ \A w \in DOMAIN runs[r].input : outbox[w] = None
  BY DEF CleanupRun, Protected, Holds
<1>2. \A w \in Windows :
           \/ archive'[w] = archive[w]
           \/ archive'[w] = None /\ ConsumedBy(w, r) /\ Completed(r)
  BY DEF CleanupRun, ExpireRun, ConsumedBy
<1>3. runs'[r] = None /\ \A q \in RunIds : q # r => runs'[q] = runs[q]
  BY DEF CleanupRun, ExpireRun, PipelineInv, ArchiveInv, ArchiveShape
<1>4. \A q \in RunIds : Completed(q)' <=> q # r /\ Completed(q)
  BY <1>3 DEF Completed
<1>5. \A w \in Windows, q \in RunIds : q # r => (ConsumedBy(w, q)' <=> ConsumedBy(w, q))
  BY <1>2 DEF ConsumedBy
<1>6. \A w \in Windows, q \in RunIds : ConsumedBy(w, q)' => ConsumedBy(w, q)
  BY <1>2 DEF ConsumedBy
<1>7. \A w \in Windows : receipts[w] # None => archive'[w] = archive[w]
  BY <1>1, <1>2 DEF ConsumedIsHeld
<1>8. RowShape' /\ FreshRecords'
  BY <1>1, <1>2, <1>3 DEF RowShape, FreshRecords
<1>9. ReceiptArchived' /\ ConsumedIsHeld'
  <2>1. ReceiptArchived'
    BY <1>1, <1>7 DEF ReceiptArchived, HasArchive
  <2>2. ConsumedIsHeld'
    BY <1>1, <1>6 DEF ConsumedIsHeld, Holds
  <2> QED
    BY <2>1, <2>2
<1>10. \A q \in RunIds : Holds(q)' => Holds(q) /\ q # r
  BY <1>1 DEF Holds
<1>11. UNCHANGED <<InputOf(job), RequestOf(job)>>
  BY <1>1 DEF InputOf, RequestOf
<1>12. JobNumbers' /\ HeldInput' /\ HeldRecord'
  BY <1>1, <1>3, <1>10, <1>11 DEF JobNumbers, HeldInput, HeldRecord
<1>13. \A q \in RunIds : q # r => (Published(q)' <=> Published(q))
  BY <1>4, <1>5 DEF Published
<1>14. PublishedVerified'
  <2> SUFFICES ASSUME NEW q \in RunIds, Holds(q)', Published(q)'
               PROVE  Verified(q, InputOf(job), RequestOf(job))'
    BY DEF PublishedVerified
  <2>1. q # r /\ Holds(q) /\ Verified(q, InputOf(job), RequestOf(job))
    BY <1>10, <1>13 DEF PublishedVerified
  <2>2. DOMAIN InputOf(job) = job.windows
    BY DEF InputOf
  <2>3. \A w \in job.windows : w \in Windows /\ archive'[w] = archive[w]
    BY <1>7, <2>1 DEF PipelineInv, DeliveryInv, JobIsReceived, Holds
  <2>4. {w \in Windows : archive'[w] # None /\ archive'[w].by = q}
          = {w \in Windows : archive[w] # None /\ archive[w].by = q}
    BY <1>5, <2>1 DEF ConsumedBy
  <2> QED
    BY <1>3, <1>4, <1>11, <2>1, <2>2, <2>3, <2>4 DEF Verified, HasArchive
<1>15. OrphanHolds' /\ VerdictSound'
  <2>1. OrphanHolds'
    BY <1>1 DEF OrphanHolds, Holds
  <2>2. ASSUME dsp.pc = "resolve", NEW q, q = dsp.run, Published(q)'
        PROVE  dsp.verdict = "completed"
    <3>1. q \in RunIds /\ q # r
      BY <1>1, <2>2 DEF PipelineInv, RunInv, OrphanedRun
    <3> QED
      BY <1>13, <2>2, <3>1 DEF VerdictSound
  <2>3. VerdictSound'
    BY <1>1, <2>2 DEF VerdictSound, Published, Completed, ConsumedBy
  <2> QED
    BY <2>1, <2>3
<1>16. InHandArchived'
  <2>1. CASE dlv.pc \in {"analyze", "archive", "apply"}
    <3>1. dlv.w \in Windows /\ outbox[dlv.w] # None
      BY <2>1 DEF PipelineInv, DeliveryInv, InHand
    <3>2. ~(ConsumedBy(dlv.w, r) /\ Completed(r))
      BY <1>1, <3>1 DEF PipelineInv, ArchiveInv, ConsumedInput
    <3>3. archive'[dlv.w] = archive[dlv.w]
      BY <1>2, <3>1, <3>2
    <3> QED
      BY <1>1, <3>3 DEF InHandArchived, HasArchive
  <2>2. CASE dlv.pc \notin {"analyze", "archive", "apply"}
    BY <1>1, <2>2 DEF InHandArchived
  <2> QED
    BY <2>1, <2>2
<1> QED
  BY <1>8, <1>9, <1>12, <1>14, <1>15, <1>16

----------------------------------------------------------------------------
(* The theorems *)

\* Nothing is stored and nothing runs at first.
LEMMA CommitInvInit == Init => CommitInv
<1> SUFFICES ASSUME Init PROVE CommitInv
  OBVIOUS
<1>1. /\ archive = [w \in Windows |-> None] /\ runs = [r \in RunIds |-> None]
      /\ live = [r \in RunIds |-> None] /\ dsp = NewDispatcher /\ dlv = StoppedService
      /\ receipts = [w \in Windows |-> None] /\ job = None
  BY DEF Init, LedgerInit, ArchiveInit, DispatchInit, DeliveryInit
<1>2. /\ RowShape /\ JobNumbers /\ FreshRecords /\ ReceiptArchived /\ ConsumedIsHeld
      /\ HeldInput /\ HeldRecord
  BY <1>1 DEF RowShape, JobNumbers, FreshRecords, ReceiptArchived, ConsumedIsHeld,
     HeldInput, HeldRecord
<1>3. PublishedVerified /\ OrphanHolds /\ VerdictSound /\ InHandArchived
  BY <1>1 DEF PublishedVerified, Holds, OrphanHolds, VerdictSound, InHandArchived,
     NewDispatcher, StoppedService
<1> QED
  BY <1>2, <1>3 DEF CommitInv

\* Every step preserves the invariant of the two phases.
LEMMA CommitInvNext ==
    PipelineInv /\ CommitInv /\ [Next]_vars => CommitInv'
<1> SUFFICES ASSUME PipelineInv, CommitInv, [Next]_vars PROVE CommitInv'
  OBVIOUS
<1>1. CASE UNCHANGED vars
  <2>1. /\ UNCHANGED <<receipts, job, archive, runs, live, dlv, dsp>>
        /\ used'.runs = used.runs
    BY <1>1 DEF vars, ledger, encrypted, dispatch, delivery
  <2>2. OrphanHolds' /\ VerdictSound'
    BY <2>1 DEF CommitInv, OrphanHolds, VerdictSound, Holds, Published, Completed,
       ConsumedBy
  <2> QED
    BY <2>1, <2>2, LooksCommit
<1>2. CASE Next
  BY <1>2, LifecycleCommit, DeliveryCommit, DispatcherCommit, RunStepCommit, OtherCommit,
     CleanupCommit DEF Next
<1> QED
  BY <1>1, <1>2

\* The invariant of the two phases holds in every behaviour.
LEMMA CommitInvHolds == Spec => [](PipelineInv /\ CommitInv)
<1>1. Init => CommitInv
  BY CommitInvInit
<1>2. PipelineInv /\ CommitInv /\ [Next]_vars => CommitInv'
  BY CommitInvNext
<1> QED
  BY <1>1, <1>2, PipelineInvHolds, PTL DEF Spec

\* A consumed window that still has its receipt was consumed by the holder of the
\* job.
LEMMA ConsumedByHolder ==
    ASSUME PipelineInv, CommitInv, NEW w \in Windows, Consumed(w), receipts[w] # None
    PROVE  /\ archive[w].by \in RunIds /\ Holds(archive[w].by) /\ w \in job.windows
           /\ Published(archive[w].by)
<1>1. archive[w].by \in RunIds /\ ConsumedBy(w, archive[w].by)
  BY DEF CommitInv, RowShape, Consumed, ConsumedBy
<1> QED
  BY <1>1 DEF CommitInv, ConsumedIsHeld, Published

\* A run whose windows are those of the job it holds, and that has published
\* nothing, works on windows that nobody has consumed.
LEMMA HolderAlone ==
    ASSUME PipelineInv, CommitInv, NEW r \in RunIds, Holds(r), ~Published(r),
           NEW w \in job.windows
    PROVE  w \in Windows /\ receipts[w] # None /\ ~Consumed(w)
<1>1. w \in Windows /\ receipts[w] # None
  BY DEF PipelineInv, DeliveryInv, JobIsReceived, Holds
<1> QED
  BY <1>1, ConsumedByHolder, HolderUnique

\* The expensive Agent operation is not repeated: startActivityAnalysis runs on no
\* window whose analysis an earlier run has turned into committed feedback, whatever
\* crash or error fell between the two phases of that commit.
THEOREM NoRerunOfConsumedHolds == Spec => []NoRerunOfConsumed
<1>1. ASSUME PipelineInv, CommitInv PROVE NoRerunOfConsumed
  <2> SUFFICES ASSUME NEW r \in RunIds, NEW w \in Windows, InStage(r, "running"),
                      w \in DOMAIN live[r].input
               PROVE  ~Consumed(w)
    BY DEF NoRerunOfConsumed
  <2>1. Holds(r) /\ w \in job.windows /\ ~Published(r)
    BY <1>1 DEF PipelineInv, ArchiveInv, RunInputs, AtWork, PublishedOnce, InStage
  <2> QED
    BY <1>1, <2>1, HolderAlone
<1> QED
  BY <1>1, CommitInvHolds, PTL

\* completeProactiveFeedbackRun never fails for want of its sources: their archives
\* are there under the request ids the run was given, and no other run has consumed
\* them, however often the job was retried and whatever retention removed.
THEOREM CommitFindsSourcesHolds == Spec => []CommitFindsSources
<1>1. ASSUME PipelineInv, CommitInv PROVE CommitFindsSources
  <2> SUFFICES ASSUME NEW r \in RunIds, InStage(r, "committing"),
                      NEW w \in DOMAIN live[r].input
               PROVE  /\ HasArchive(w, live[r].input[w])
                      /\ archive[w].by \in {NoRun, r}
    BY DEF CommitFindsSources, CanPublish
  <2>1. Holds(r) /\ w \in job.windows /\ ~Published(r) /\ live[r] # None
    BY <1>1 DEF PipelineInv, ArchiveInv, RunInputs, AtWork, PublishedOnce, InStage
  <2>2. w \in Windows /\ receipts[w] # None /\ ~Consumed(w)
    BY <1>1, <2>1, HolderAlone
  <2>3. live[r].input[w] = receipts[w].sem
    BY <1>1, <2>1, <2>2 DEF CommitInv, HeldInput, InputOf
  <2> QED
    BY <1>1, <2>2, <2>3 DEF CommitInv, ReceiptArchived, HasArchive, Consumed
<1> QED
  BY <1>1, CommitInvHolds, PTL

\* cleanupAccount and every failure leave what phase two needs: the archive of each
\* receipt and, once phase one of a running job has committed, the proof that
\* verifyCompletedProactiveFeedbackRun demands of it.
THEOREM PhaseTwoProofHolds == Spec => []PhaseTwoProof
<1>1. ASSUME PipelineInv, CommitInv PROVE PhaseTwoProof
  <2>1. \A w \in Received : HasArchive(w, receipts[w].sem)
    BY <1>1 DEF CommitInv, ReceiptArchived, Received
  <2>2. ASSUME job # None, job.status = "running", NEW w \in job.windows, Consumed(w)
        PROVE  Verified(job.run, InputOf(job), RequestOf(job))
    <3>1. w \in Windows /\ receipts[w] # None
      BY <1>1, <2>2 DEF PipelineInv, DeliveryInv, JobIsReceived
    <3>2. PICK q \in RunIds : Holds(q) /\ Published(q)
      BY <1>1, <2>2, <3>1, ConsumedByHolder
    <3> QED
      BY <1>1, <3>2 DEF CommitInv, PublishedVerified, Holds
  <2> QED
    BY <2>1, <2>2 DEF PhaseTwoProof
<1> QED
  BY <1>1, CommitInvHolds, PTL

\* reconcileOrphanedActivityRun never meets a record that contradicts its job: no
\* job is given up as recovery_identity_mismatch or completed_run_not_atomic.
THEOREM RecoveryNeverMismatchesHolds == Spec => []RecoveryNeverMismatches
<1>1. CommitInv => RecoveryNeverMismatches
  BY DEF CommitInv, VerdictSound, RecoveryNeverMismatches
<1> QED
  BY <1>1, CommitInvHolds, PTL

\* No window is scored twice: a receipt of a consumed window exists only while phase
\* two of the very run that consumed it is pending (completeActivityAnalysisJob), so
\* no session change, restart or replay scores it again.
THEOREM NoDoubleScoringHolds == Spec => []NoDoubleScoring
<1>1. ASSUME PipelineInv, CommitInv PROVE NoDoubleScoring
  BY <1>1, ConsumedByHolder DEF NoDoubleScoring
<1> QED
  BY <1>1, CommitInvHolds, PTL

----------------------------------------------------------------------------
(* The queue of the service and the windows that are on their way to it *)

\* Outside of its activation the bundle has no queue and no retry timer, and no
\* notification waits while it recovers.
BundleStopped ==
    /\ phase \notin {"up", "stopDelivery"} => tail = <<>>
    /\ phase \notin {"starting", "up"} => dlv.on = FALSE
    /\ phase = "starting" \/ dlv.on = FALSE => dlv.timer = FALSE
    /\ phase = "recovering" => notify = NoWindow
    /\ phase # "starting" => listed = {}

\* Besides drains the queue holds at most the one notification that is awaited.
OneNotification(t, w) ==
    /\ \A i \in 1..Len(t) : t[i] \in {DrainOp, w}
    /\ \A i, j \in 1..Len(t) : t[i] # DrainOp /\ t[j] # DrainOp => i = j

\* What the queue of operations adds.
QueueInv == BundleStopped /\ OneNotification(tail, notify)

\* A window on its way into the outbox was never analysed, and a window that is
\* still attributed is archived only while it is in the outbox.
NewWindow(w) == /\ w \in source /\ outbox[w] = None
                /\ receipts[w] = None /\ archive[w] = None
NotificationIsNew ==
    notify # NoWindow => notify \in Windows /\ NewWindow(notify) /\ notify \notin listed
ListedIsAttributed == listed \subseteq source
ArchivedIsQueued == \A w \in source : archive[w] # None => outbox[w] # None

\* A queued window without a receipt is attributed, or a run has consumed it.
QueuedHasSource ==
    \A w \in Windows : outbox[w] # None /\ receipts[w] = None => w \in source \/ Consumed(w)

OutboxInv ==
    /\ NotificationIsNew /\ ListedIsAttributed /\ ArchivedIsQueued /\ QueuedHasSource
    /\ ArchiveMatchesRequest

----------------------------------------------------------------------------
(* The queue *)

\* Removing the head of the queue, and kicking a drain, keep the notification.
LEMMA TailNotification ==
    ASSUME NEW t \in Seq(Nat), t # <<>>, NEW w, OneNotification(t, w)
    PROVE  /\ OneNotification(Tail(t), w)
           /\ Head(t) # DrainOp => Head(t) = w /\ OneNotification(Tail(t), NoWindow)
<1>1. /\ Tail(t) \in Seq(Nat) /\ Len(Tail(t)) = Len(t) - 1 /\ Len(t) \in Nat
      /\ \A i \in 1..Len(Tail(t)) : /\ Tail(t)[i] = t[i + 1] /\ i + 1 \in 1..Len(t)
                                    /\ i \in Nat /\ i + 1 # 1
      /\ 1 \in 1..Len(t) /\ Head(t) = t[1]
  OBVIOUS
<1>2. OneNotification(Tail(t), w)
  <2>1. \A i \in 1..Len(Tail(t)) : Tail(t)[i] \in {DrainOp, w}
    BY <1>1 DEF OneNotification
  <2>2. ASSUME NEW i \in 1..Len(Tail(t)), NEW j \in 1..Len(Tail(t)),
               Tail(t)[i] # DrainOp, Tail(t)[j] # DrainOp
        PROVE  i = j
    <3>1. i + 1 = j + 1
      BY <1>1, <2>2 DEF OneNotification
    <3> QED
      BY <1>1, <3>1
  <2> QED
    BY <2>1, <2>2 DEF OneNotification
<1>3. ASSUME Head(t) # DrainOp
      PROVE  Head(t) = w /\ OneNotification(Tail(t), NoWindow)
  <2>1. \A i \in 1..Len(Tail(t)) : Tail(t)[i] = DrainOp
    BY <1>1, <1>3 DEF OneNotification
  <2> QED
    BY <1>1, <1>3, <2>1 DEF OneNotification
<1> QED
  BY <1>2, <1>3

\* An operation that is appended comes after the others.
LEMMA AppendNotification ==
    ASSUME NEW t \in Seq(Nat), NEW w, OneNotification(t, w)
    PROVE  /\ OneNotification(Append(t, DrainOp), w)
           /\ w = NoWindow => \A v \in Nat : OneNotification(Append(t, v), v)
<1>1. ASSUME NEW v \in Nat
      PROVE  /\ Len(Append(t, v)) = Len(t) + 1 /\ Len(t) \in Nat
             /\ \A i \in 1..Len(Append(t, v)) :
                  \/ i \in 1..Len(t) /\ Append(t, v)[i] = t[i]
                  \/ i = Len(t) + 1 /\ Append(t, v)[i] = v
  OBVIOUS
<1>2. OneNotification(Append(t, DrainOp), w)
  <2>1. DrainOp \in Nat
    BY DEF DrainOp
  <2> QED
    BY <1>1, <2>1 DEF OneNotification
<1>3. ASSUME NEW v \in Nat, w = NoWindow
      PROVE  OneNotification(Append(t, v), v)
  <2>1. \A i \in 1..Len(t) : t[i] = DrainOp
    BY <1>3 DEF OneNotification, DrainOp, NoWindow
  <2>2. \A i \in 1..Len(Append(t, v)) :
          Append(t, v)[i] = DrainOp \/ (i = Len(t) + 1 /\ Append(t, v)[i] = v)
    BY <1>1, <2>1
  <2> QED
    BY <2>2 DEF OneNotification
<1> QED
  BY <1>2, <1>3

LEMMA KickedNotification ==
    ASSUME NEW t \in Seq(Nat), NEW w, OneNotification(t, w)
    PROVE  OneNotification(Kicked(t), w)
BY AppendNotification DEF Kicked

\* An empty queue, and one of drains only, hold no notification whatever is awaited.
LEMMA NoNotification ==
    ASSUME NEW t \in Seq(Nat), OneNotification(t, NoWindow) \/ t = <<>>, NEW w
    PROVE  OneNotification(t, w)
BY DEF OneNotification, DrainOp, NoWindow

\* However deliver() returns, it takes at most the drain from the queue.
LEMMA ServiceReturnsQueue ==
    ASSUME DeliveryInv, QueueInv, Continue \/ EndDrain \/ EndDrainAndRetry,
           tail # <<>>, UNCHANGED <<phase, listed, notify>>
    PROVE  QueueInv'
<1>1. /\ tail \in Seq(Nat) /\ dlv'.on = dlv.on
      /\ dlv'.timer = dlv.timer \/ dlv'.timer = dlv.on
  BY DEF DeliveryInv, SealedOnly, ServiceShape, Continue, EndDrain, EndDrainAndRetry,
     NextInLoop
<1>2. tail' = tail \/ tail' = Tail(tail)
  BY DEF Continue, EndDrain, EndDrainAndRetry
<1>3. phase \in {"up", "stopDelivery"}
  BY DEF QueueInv, BundleStopped
<1>4. BundleStopped'
  BY <1>1, <1>3 DEF QueueInv, BundleStopped
<1>5. OneNotification(tail', notify')
  BY <1>1, <1>2, TailNotification DEF QueueInv
<1> QED
  BY <1>4, <1>5 DEF QueueInv, OneNotification

\* The service only takes operations from the queue and kicks drains.
LEMMA DeliveryQueue ==
    ASSUME DeliveryInv, QueueInv, DeliveryStep
    PROVE  QueueInv'
<1>0. /\ UNCHANGED <<phase, listed>> /\ tail \in Seq(Nat) /\ ServiceShape
      /\ OneNotification(tail, notify) /\ BundleStopped
  BY DEF DeliveryStep, DeliveryInv, SealedOnly, QueueInv
<1>1. CASE DropNotification
  <2>1. /\ tail # <<>> /\ Head(tail) # DrainOp /\ tail' = Tail(tail)
        /\ notify' = NoWindow /\ UNCHANGED dlv
    BY <1>1 DEF DropNotification, DrainOp, NoWindow
  <2>2. BundleStopped'
    BY <1>0, <2>1 DEF BundleStopped
  <2>3. OneNotification(tail', notify')
    BY <1>0, <2>1, TailNotification
  <2> QED
    BY <2>2, <2>3 DEF QueueInv, OneNotification
<1>2. CASE RunEnqueue
  <2>1. /\ tail # <<>> /\ Head(tail) # DrainOp /\ tail' = Kicked(Tail(tail))
        /\ notify' = NoWindow /\ UNCHANGED dlv
    BY <1>2 DEF RunEnqueue
  <2>2. BundleStopped'
    BY <1>0, <2>1 DEF BundleStopped
  <2>3. Tail(tail) \in Seq(Nat) /\ OneNotification(Tail(tail), NoWindow)
    BY <1>0, <2>1, TailNotification
  <2>4. OneNotification(tail', notify')
    BY <2>1, <2>3, KickedNotification
  <2> QED
    BY <2>2, <2>4 DEF QueueInv, OneNotification
<1>3. CASE RetryTimerKicks
  <2>1. /\ dlv.on /\ dlv.timer /\ tail' = Kicked(tail) /\ UNCHANGED notify
        /\ dlv' = [dlv EXCEPT !.timer = FALSE]
    BY <1>3 DEF RetryTimerKicks
  <2>2. phase = "up"
    BY <1>0, <2>1 DEF BundleStopped
  <2>3. dlv'.on = dlv.on /\ dlv'.timer = FALSE
    BY <1>0, <2>1 DEF ServiceShape
  <2>4. BundleStopped'
    BY <1>0, <2>1, <2>2, <2>3 DEF BundleStopped
  <2>5. OneNotification(tail', notify')
    BY <1>0, <2>1, KickedNotification
  <2> QED
    BY <2>4, <2>5 DEF QueueInv, OneNotification
<1>4. CASE /\ UNCHANGED <<tail, notify>>
           /\ dlv'.on = dlv.on /\ dlv'.timer = dlv.timer
  BY <1>0, <1>4 DEF QueueInv, BundleStopped, OneNotification
<1>5. \/ DropNotification \/ RunEnqueue \/ RetryTimerKicks
      \/ /\ UNCHANGED <<tail, notify>>
         /\ dlv'.on = dlv.on /\ dlv'.timer = dlv.timer
      \/ /\ tail # <<>> /\ UNCHANGED notify
         /\ Continue \/ EndDrain \/ EndDrainAndRetry
  <2>1. CASE DeliverWindow \/ AnalyzeSucceeds \/ ArchiveAnalysis \/ ApplyAnalysis
    BY <1>0, <2>1 DEF DeliverWindow, AnalyzeSucceeds, ArchiveAnalysis, ApplyAnalysis,
       GoTo, Draining, ServiceShape
  <2>2. CASE RecoverArchived
    BY <1>0, <2>2 DEF RecoverArchived, GoTo, ServiceShape
  <2>3. CASE \/ DrainStops \/ RecoverThrows \/ SessionChanged \/ AnalyzeInvalid
             \/ AnalyzeThrows \/ ArchiveThrows \/ AcknowledgeSource \/ AcknowledgeThrows
    BY <2>3 DEF DrainStops, RecoverThrows, SessionChanged, AnalyzeInvalid, AnalyzeThrows,
       ArchiveThrows, AcknowledgeSource, AcknowledgeThrows, Throws, Draining, Acknowledging
  <2> QED
    BY <2>1, <2>2, <2>3 DEF DeliveryStep
<1> QED
  BY <1>0, <1>1, <1>2, <1>3, <1>4, <1>5, ServiceReturnsQueue

\* An activation starts with an empty queue and ends with its first operations.
LEMMA LifecycleQueue ==
    ASSUME DeliveryInv, QueueInv, Lifecycle
    PROVE  QueueInv'
<1> USE DEF delivery
<1>0. /\ tail \in Seq(Nat) /\ ServiceShape /\ notify \in Nat
      /\ OneNotification(tail, notify) /\ BundleStopped
  BY DEF DeliveryInv, SealedOnly, QueueInv
<1>1. CASE StartBundle \/ RecoveryThrows \/ StopDispatcher \/ ReleaseBundle
  BY <1>0, <1>1 DEF StartBundle, RecoveryThrows, StopDispatcher, ReleaseBundle, QueueInv,
     BundleStopped, OneNotification
<1>2. CASE PersistListedWindow
  BY <1>0, <1>2 DEF PersistListedWindow, QueueInv, BundleStopped, OneNotification
<1>3. CASE ListWindows
  <2>1. /\ phase = "recovering" /\ UNCHANGED <<notify, tail>>
        /\ \/ /\ phase' = "starting" /\ dlv' = [dlv EXCEPT !.on = TRUE]
           \/ phase' = "stopDelivery" /\ UNCHANGED <<listed, dlv>>
    BY <1>3 DEF ListWindows
  <2>2. \/ phase' = "starting" /\ dlv'.timer = FALSE
        \/ phase' = "stopDelivery" /\ UNCHANGED <<listed, dlv>>
    BY <1>0, <2>1 DEF BundleStopped, ServiceShape
  <2> QED
    BY <1>0, <2>1, <2>2 DEF QueueInv, BundleStopped, OneNotification
<1>4. CASE FinishActivation
  <2>1. /\ phase = "starting" /\ listed = {} /\ tail = <<>> /\ UNCHANGED <<notify, listed>>
        /\ tail' = AfterActivation
        /\ \/ phase' = "up" /\ UNCHANGED dlv
           \/ phase' = "stopDelivery" /\ dlv' = StopService
    BY <1>0, <1>4 DEF FinishActivation, BundleStopped
  <2>2. Kicked(<<>>) \in Seq(Nat) /\ OneNotification(Kicked(<<>>), NoWindow)
    <3>1. <<>> \in Seq(Nat) /\ OneNotification(<<>>, NoWindow)
      BY DEF OneNotification
    <3>2. Kicked(<<>>) \in {<<>>, Append(<<>>, 0)} /\ Append(<<>>, 0) \in Seq(Nat)
      BY DEF Kicked, DrainOp
    <3> QED
      BY <3>1, <3>2, KickedNotification
  <2>3. OneNotification(tail', notify')
    <3>1. CASE notify = NoWindow
      BY <2>1, <2>2, <3>1 DEF AfterActivation
    <3>2. CASE notify # NoWindow
      <4>1. tail' = Append(Kicked(<<>>), notify)
        BY <2>1, <3>2 DEF AfterActivation
      <4>2. OneNotification(Append(Kicked(<<>>), notify), notify)
        BY <1>0, <2>2, AppendNotification
      <4> QED
        BY <2>1, <4>1, <4>2
    <3> QED
      BY <3>1, <3>2
  <2>4. BundleStopped'
    <3>1. \/ phase' = "up" /\ dlv'.timer = FALSE
          \/ phase' = "stopDelivery" /\ dlv'.on = FALSE /\ dlv'.timer = FALSE
      BY <1>0, <2>1 DEF BundleStopped, StopService, ServiceShape
    <3> QED
      BY <2>1, <3>1 DEF BundleStopped
  <2> QED
    BY <2>3, <2>4 DEF QueueInv, OneNotification
<1>5. CASE StopBundle
  <2>1. /\ phase = "up" /\ phase' = "stopDelivery" /\ UNCHANGED <<notify, tail, listed>>
        /\ dlv'.on = FALSE /\ dlv'.timer = FALSE
    BY <1>0, <1>5 DEF StopBundle, StopService, ServiceShape
  <2> QED
    BY <1>0, <2>1 DEF QueueInv, BundleStopped, OneNotification
<1> QED
  BY <1>1, <1>2, <1>3, <1>4, <1>5 DEF Lifecycle

\* Every step keeps the queue in order.
LEMMA QueueInvNext ==
    ASSUME DeliveryInv, QueueInv, [Next]_vars
    PROVE  QueueInv'
<1> USE DEF delivery
<1>0. /\ tail \in Seq(Nat) /\ sealed \in Nat
      /\ OneNotification(tail, notify) /\ BundleStopped
  BY DEF DeliveryInv, SealedOnly, QueueInv
<1>1. CASE UNCHANGED <<phase, listed, tail, notify, dlv>>
  BY <1>1 DEF QueueInv, BundleStopped, OneNotification
<1>2. CASE SealWindow(phase = "starting") /\ UNCHANGED <<phase, listed>>
  <2>1. /\ notify = NoWindow /\ UNCHANGED <<dlv, phase, listed>>
        /\ \/ notify' = NoWindow /\ tail' = tail
           \/ /\ dlv.on /\ notify' = sealed + 1
              /\ \/ phase = "starting" /\ tail' = tail
                 \/ phase # "starting" /\ tail' = Append(tail, sealed + 1)
    BY <1>2 DEF SealWindow
  <2>2. BundleStopped'
    BY <1>0, <2>1 DEF BundleStopped
  <2>3. OneNotification(tail', notify')
    <3>1. OneNotification(tail, NoWindow) /\ sealed + 1 \in Nat
      BY <1>0, <2>1
    <3>2. OneNotification(tail, sealed + 1)
      BY <1>0, <3>1, NoNotification
    <3>3. OneNotification(Append(tail, sealed + 1), sealed + 1)
      BY <1>0, <3>1, AppendNotification
    <3> QED
      BY <2>1, <3>1, <3>2, <3>3
  <2> QED
    BY <2>2, <2>3 DEF QueueInv, OneNotification
<1>3. CASE Crash
  BY <1>3 DEF Crash, StoppedService, QueueInv, BundleStopped, OneNotification
<1>4. \/ UNCHANGED <<phase, listed, tail, notify, dlv>>
      \/ SealWindow(phase = "starting") /\ UNCHANGED <<phase, listed>>
      \/ Lifecycle \/ DeliveryStep \/ Crash
  BY DEF Next, vars, DispatcherStep, RunStep, TimePasses, RefreshSession, SignOut,
     CleanupRun
<1> QED
  BY <1>1, <1>2, <1>3, <1>4, LifecycleQueue, DeliveryQueue

----------------------------------------------------------------------------
(* The outbox and the archive *)

\* What a step does that neither seals, enqueues nor acknowledges a window.
OutboxKept ==
    /\ source' = source /\ listed' \subseteq listed /\ notify' \in {notify, NoWindow}
    /\ \A w \in Windows :
         /\ outbox'[w] = None <=> outbox[w] = None
         /\ outbox[w] # None => outbox'[w].sem = outbox[w].sem \/ archive'[w] = None
         /\ receipts'[w] = None /\ receipts[w] # None => outbox[w] = None
         /\ receipts'[w] # None /\ receipts[w] = None => outbox[w] # None
         /\ archive'[w] # None =>
              \/ archive[w] # None /\ archive'[w].sem = archive[w].sem
              \/ outbox[w] # None /\ archive'[w].sem = outbox[w].sem
         /\ outbox[w] # None /\ Consumed(w) => Consumed(w)'

\* Steps that leave the rows, or only take receipts and archives for queued windows.
LEMMA OutboxFrame ==
    ASSUME DeliveryInv, OutboxInv, OutboxKept
    PROVE  OutboxInv'
<1> USE DEF OutboxInv, OutboxKept
<1>1. NotificationIsNew'
  BY DEF NotificationIsNew, NewWindow
<1>2. ListedIsAttributed'
  BY DEF ListedIsAttributed
<1>3. source \subseteq Windows
  BY DEF DeliveryInv, SealedOnly
<1>4. ArchivedIsQueued'
  BY <1>3 DEF ArchivedIsQueued
<1>5. QueuedHasSource'
  BY DEF QueuedHasSource
<1>6. ArchiveMatchesRequest'
  BY DEF ArchiveMatchesRequest, Queued
<1> QED
  BY <1>1, <1>2, <1>4, <1>5, <1>6

\* A window without an archive may enter the outbox.
LEMMA EnqueueOutbox ==
    ASSUME DeliveryInv, OutboxInv, NEW w \in source, outbox[w] = None => archive[w] = None,
           Enqueue(w), UNCHANGED <<source, archive>>, listed' \subseteq listed,
           notify' = NoWindow \/ (notify' = notify /\ notify # w)
    PROVE  OutboxInv'
<1> USE DEF OutboxInv
<1>0. w \in Windows /\ UNCHANGED receipts /\ LedgerShape /\ source \subseteq Windows
  BY DEF DeliveryInv, SealedOnly, Enqueue
<1>1. CASE outbox[w] = None /\ receipts[w] = None
  <2>1. PICK at : outbox' = [outbox EXCEPT ![w] =
                        [sem |-> 0, terminal |-> FALSE, due |-> TRUE, at |-> at]]
    BY <1>1 DEF Enqueue
  <2> DEFINE row == [sem |-> 0, terminal |-> FALSE, due |-> TRUE, at |-> at]
  <2>2. row # None
    BY DEF None
  <2>3. \A v \in Windows : outbox'[v] = IF v = w THEN row ELSE outbox[v]
    BY <1>0, <2>1 DEF LedgerShape
  <2> HIDE DEF row
  <2>4. NotificationIsNew' /\ ListedIsAttributed' /\ ArchivedIsQueued'
    BY <1>0, <2>2, <2>3 DEF NotificationIsNew, NewWindow, ListedIsAttributed,
       ArchivedIsQueued
  <2>5. QueuedHasSource' /\ ArchiveMatchesRequest'
    BY <1>0, <1>1, <2>2, <2>3 DEF QueuedHasSource, ArchiveMatchesRequest, Consumed, Queued
  <2> QED
    BY <2>4, <2>5
<1>2. CASE ~(outbox[w] = None /\ receipts[w] = None)
  <2>1. UNCHANGED outbox
    BY <1>2 DEF Enqueue
  <2>2. NotificationIsNew' /\ ListedIsAttributed' /\ ArchivedIsQueued'
    BY <1>0, <2>1 DEF NotificationIsNew, NewWindow, ListedIsAttributed, ArchivedIsQueued
  <2>3. QueuedHasSource' /\ ArchiveMatchesRequest'
    BY <1>0, <2>1 DEF QueuedHasSource, ArchiveMatchesRequest, Consumed, Queued
  <2> QED
    BY <2>2, <2>3
<1> QED
  BY <1>1, <1>2

\* Steps that leave outbox, receipts and archive alone.
LEMMA OutboxUntouched ==
    ASSUME UNCHANGED <<outbox, receipts, archive, source>>, listed' \subseteq listed,
           notify' \in {notify, NoWindow}
    PROVE  OutboxKept
BY DEF OutboxKept, Consumed

\* The service retries the window in hand under a new request only without an
\* archive, archives it under the request of its row, and releases it with its row.
LEMMA DeliveryOutbox ==
    ASSUME PipelineInv, CommitInv, QueueInv, OutboxInv, DeliveryStep
    PROVE  OutboxInv'
<1> USE DEF ledger, encrypted
<1>0. /\ UNCHANGED listed /\ DeliveryInv /\ LedgerShape /\ ServiceShape /\ InHand
      /\ ArchiveShape /\ InHandArchived /\ tail \in Seq(Nat) /\ source \subseteq Windows
      /\ ArchiveMatchesRequest /\ notify \in Nat
  BY DEF DeliveryStep, PipelineInv, DeliveryInv, ArchiveInv, CommitInv, SealedOnly, OutboxInv
<1>1. CASE RunEnqueue
  <2>1. /\ tail # <<>> /\ Head(tail) # DrainOp /\ notify' = NoWindow
        /\ UNCHANGED <<source, archive>>
        /\ Enqueue(Head(tail)) \/ UNCHANGED ledger
    BY <1>1 DEF RunEnqueue
  <2>2. Head(tail) = notify /\ notify # NoWindow
    BY <1>0, <2>1, TailNotification DEF QueueInv, DrainOp, NoWindow
  <2>3. NewWindow(notify)
    BY <2>2 DEF OutboxInv, NotificationIsNew
  <2>4. CASE Enqueue(Head(tail))
    BY <1>0, <2>1, <2>2, <2>3, <2>4, EnqueueOutbox DEF NewWindow
  <2>5. CASE UNCHANGED ledger
    BY <1>0, <2>1, <2>5, OutboxUntouched, OutboxFrame
  <2> QED
    BY <2>1, <2>4, <2>5
<1>2. CASE RecoverThrows \/ AnalyzeThrows \/ ArchiveThrows \/ AcknowledgeThrows
  <2>1. /\ dlv.pc # "idle" /\ UNCHANGED <<source, notify, archive>>
        /\ DeferWindow(dlv.w) \/ MarkTerminal(dlv.w)
    BY <1>2 DEF RecoverThrows, AnalyzeThrows, ArchiveThrows, AcknowledgeThrows,
       Acknowledging, Draining, Throws
  <2>2. /\ RowsKept /\ UNCHANGED receipts
        /\ \A v \in Windows : outbox[v] # None => outbox'[v].sem = outbox[v].sem
    BY <1>0, <2>1, RowTouched DEF InHand
  <2>3. OutboxKept
    BY <1>0, <2>1, <2>2 DEF OutboxKept, RowsKept, Consumed
  <2> QED
    BY <1>0, <2>3, OutboxFrame
<1>3. CASE AnalyzeInvalid
  <2>1. /\ dlv.pc = "analyze" /\ UNCHANGED <<source, notify, archive>>
        /\ AdvanceSemanticAttempt(dlv.w)
    BY <1>3 DEF AnalyzeInvalid, Draining
  <2>2. /\ dlv.w \in Windows /\ outbox[dlv.w] # None /\ outbox[dlv.w].sem = dlv.k
        /\ receipts[dlv.w] = None
    BY <1>0, <2>1 DEF InHand
  <2>3. archive[dlv.w] = None
    BY <1>0, <2>1, <2>2 DEF InHandArchived, HasArchive, ArchiveMatchesRequest, Queued
  <2>4. RowsKept /\ UNCHANGED receipts
    BY <1>0, <2>1, <2>2, RowAdvanced
  <2>5. \A v \in Windows : v # dlv.w => outbox'[v] = outbox[v]
    BY <1>0, <2>1, <2>2 DEF AdvanceSemanticAttempt, LedgerShape
  <2>6. OutboxKept
    BY <1>0, <2>1, <2>3, <2>4, <2>5 DEF OutboxKept, RowsKept, Consumed
  <2> QED
    BY <1>0, <2>6, OutboxFrame
<1>4. CASE ArchiveAnalysis
  <2>1. /\ UNCHANGED <<outbox, receipts, source, notify>> /\ dlv.pc = "archive"
        /\ dlv.w \in Windows /\ outbox[dlv.w] # None /\ outbox[dlv.w].sem = dlv.k
    BY <1>0, <1>4 DEF ArchiveAnalysis, Draining, InHand
  <2>2. archive[dlv.w] = None
    BY <1>0, <1>4, <2>1 DEF ArchiveAnalysis, CanArchive, InHandArchived, HasArchive
  <2> DEFINE row == [sem |-> dlv.k, score |-> dlv.score, by |-> NoRun]
  <2>3. row # None /\ row.sem = dlv.k
    BY DEF None
  <2>4. \A w \in Windows : archive'[w] = IF w = dlv.w THEN row ELSE archive[w]
    BY <1>0, <1>4, <2>2 DEF ArchiveAnalysis, ArchiveEventStream, ArchiveShape
  <2> HIDE DEF row
  <2>5. OutboxKept
    BY <1>0, <2>1, <2>2, <2>3, <2>4 DEF OutboxKept, Consumed
  <2> QED
    BY <1>0, <2>5, OutboxFrame
<1>5. ASSUME NEW s, Apply(dlv.w, s), dlv.pc \in {"recover", "apply"},
             UNCHANGED <<source, notify, archive>>
      PROVE  OutboxInv'
  <2>1. dlv.w \in Windows /\ receipts[dlv.w] = None /\ outbox[dlv.w] # None
    BY <1>0, <1>5 DEF InHand
  <2>2. /\ UNCHANGED outbox /\ receipts'[dlv.w] # None
        /\ \A v \in Windows : v # dlv.w => receipts'[v] = receipts[v]
    BY <1>0, <1>5, <2>1, ApplyEffect
  <2>3. OutboxKept
    BY <1>0, <1>5, <2>1, <2>2 DEF OutboxKept, Consumed
  <2> QED
    BY <1>0, <2>3, OutboxFrame
<1>6. CASE AcknowledgeSource
  <2>1. /\ dlv.pc # "idle" /\ tail # <<>> /\ source' = source \ {dlv.w}
        /\ UNCHANGED <<notify, receipts, archive>>
        /\ outbox' = [outbox EXCEPT ![dlv.w] = None]
    BY <1>6 DEF AcknowledgeSource, Acknowledging, Draining, DeleteOutbox
  <2>2. dlv.w \in Windows /\ outbox[dlv.w] # None /\ listed = {}
    BY <1>0, <2>1 DEF InHand, QueueInv, BundleStopped
  <2>3. \A v \in Windows : outbox'[v] = IF v = dlv.w THEN None ELSE outbox[v]
    BY <1>0, <2>1, <2>2 DEF LedgerShape
  <2>4. NotificationIsNew' /\ ListedIsAttributed' /\ ArchivedIsQueued'
    BY <1>0, <2>1, <2>2, <2>3 DEF OutboxInv, NotificationIsNew, NewWindow,
       ListedIsAttributed, ArchivedIsQueued
  <2>5. QueuedHasSource' /\ ArchiveMatchesRequest'
    BY <1>0, <2>1, <2>3 DEF OutboxInv, QueuedHasSource, ArchiveMatchesRequest, Consumed,
       Queued
  <2> QED
    BY <2>4, <2>5 DEF OutboxInv
<1>7. CASE UNCHANGED <<outbox, receipts, archive, source>> /\ notify' \in {notify, NoWindow}
  BY <1>0, <1>7, OutboxUntouched, OutboxFrame
<1>8. \/ RunEnqueue \/ RecoverThrows \/ AnalyzeThrows \/ ArchiveThrows \/ AcknowledgeThrows
      \/ AnalyzeInvalid \/ ArchiveAnalysis \/ AcknowledgeSource
      \/ /\ dlv.pc \in {"recover", "apply"} /\ UNCHANGED <<source, notify, archive>>
         /\ \E s : Apply(dlv.w, s)
      \/ UNCHANGED <<outbox, receipts, archive, source>> /\ notify' \in {notify, NoWindow}
  BY DEF DeliveryStep, DropNotification, RetryTimerKicks, DrainStops, DeliverWindow,
     RecoverArchived, SessionChanged, AnalyzeSucceeds, ApplyAnalysis, Draining
<1> QED
  BY <1>1, <1>2, <1>3, <1>4, <1>5, <1>6, <1>7, <1>8

\* The jobs leave the outbox alone, and completing one removes no receipt of a
\* window that is in it.
LEMMA JobStepOutbox ==
    ASSUME DeliveryInv, JobStep, UNCHANGED <<outbox, source, notify, listed>>,
           \A w \in Windows :
             /\ archive'[w] # None => archive[w] # None /\ archive'[w].sem = archive[w].sem
             /\ Consumed(w) => Consumed(w)'
    PROVE  OutboxKept
<1>1. \A w \in Windows : receipts'[w] = receipts[w]
                         \/ (receipts'[w] = None /\ outbox[w] = None)
  <2>1. CASE JobCompleted
    <3>1. \A w \in Windows : receipts'[w] = IF w \in job.windows THEN None ELSE receipts[w]
      BY <2>1 DEF JobCompleted, CompleteJob
    <3>2. \A w \in job.windows : outbox[w] = None
      BY <2>1 DEF JobCompleted, Holds, DeliveryInv, AckGate
    <3> QED
      BY <3>1, <3>2
  <2>2. CASE ~JobCompleted
    BY <2>2 DEF JobStep, JobKept, JobMade, JobMoved
  <2> QED
    BY <2>1, <2>2
<1> QED
  BY <1>1 DEF OutboxKept

\* What the commit of a run does to the archive.
LEMMA CommitMarks ==
    ASSUME PipelineInv, CommitInv, NEW r \in RunIds, CommitRun(r)
    PROVE  /\ \A w \in Windows \ DOMAIN live[r].input : archive'[w] = archive[w]
           /\ \A w \in DOMAIN live[r].input :
                w \in Windows =>
                  /\ archive[w] # None /\ archive'[w] # None
                  /\ archive'[w].sem = archive[w].sem /\ archive'[w].by = r
                  /\ "score" \in DOMAIN archive[w] => archive'[w].score = archive[w].score
<1>1. /\ \A w \in DOMAIN live[r].input : archive[w] # None
      /\ archive' = [w \in Windows |->
                       IF w \in DOMAIN live[r].input THEN [archive[w] EXCEPT !.by = r]
                       ELSE archive[w]]
  BY DEF CommitRun, CanPublish, PublishCompletedRun, HasArchive
<1>2. ASSUME NEW w \in DOMAIN live[r].input, w \in Windows
      PROVE  /\ archive[w] # None /\ archive'[w] # None
             /\ archive'[w].sem = archive[w].sem /\ archive'[w].by = r
             /\ "score" \in DOMAIN archive[w] => archive'[w].score = archive[w].score
  <2>1. {"sem", "by"} \subseteq DOMAIN archive[w] /\ archive[w] # None
    BY <1>1, <1>2 DEF CommitInv, RowShape
  <2>2. archive'[w] = [archive[w] EXCEPT !.by = r]
    BY <1>1, <1>2
  <2>3. archive'[w] # None
    BY <2>1, <2>2, RowIsNotNone
  <2> QED
    BY <2>1, <2>2, <2>3
<1> QED
  BY <1>1, <1>2

\* The steps of a run change the archive only by its commit.
LEMMA RunStepMarks ==
    ASSUME RunStep
    PROVE  UNCHANGED archive \/ \E r \in RunIds : CommitRun(r)
BY DEF RunStep, encrypted, SidecarCompletes, SidecarFails, SidecarExits, EmitFailure,
   PersistFailure, CommitThrows, FinishRun, QuiesceRun, CancelRun, PutRun, DeleteAttempt

LEMMA DispatcherStepMarks ==
    ASSUME DispatcherStep
    PROVE  UNCHANGED archive
BY DEF DispatcherStep, DispatcherDrains, encrypted, RetryTimerFires, DrainIdles, DrainNotDue,
   DrainReconciles, DrainClaims, ReadOrphanedRun, ReconciliationThrows, ResolveOrphanedRun,
   StartPersists, StartRequests, StartThrows, PutRun, DeleteAttempt

\* Claims, retries, commits and completions.
LEMMA JobsOutbox ==
    ASSUME PipelineInv, CommitInv, OutboxInv, DispatcherStep \/ RunStep
    PROVE  OutboxInv'
<1>0. DeliveryInv /\ JobShape /\ NoRun \notin RunIds
  BY WindowsNat DEF PipelineInv, RunInv, NoRun
<1>1. JobStep /\ UNCHANGED <<outbox, delivery, listed>>
  BY <1>0, DispatcherJobStep, RunJobStep
<1>2. \A w \in Windows :
        /\ archive'[w] # None => archive[w] # None /\ archive'[w].sem = archive[w].sem
        /\ Consumed(w) => Consumed(w)'
  <2>1. CASE UNCHANGED archive
    BY <2>1 DEF Consumed
  <2>2. ASSUME NEW r \in RunIds, CommitRun(r)
        PROVE  \A w \in Windows :
                 /\ archive'[w] # None => archive[w] # None /\ archive'[w].sem = archive[w].sem
                 /\ Consumed(w) => Consumed(w)'
    BY <1>0, <2>2, CommitMarks DEF Consumed
  <2> QED
    BY <2>1, <2>2, RunStepMarks, DispatcherStepMarks
<1> QED
  BY <1>0, <1>1, <1>2, JobStepOutbox, OutboxFrame DEF delivery

\* delivery.start() lists the attributed windows while no notification is awaited.
LEMMA LifecycleOutbox ==
    ASSUME PipelineInv, QueueInv, OutboxInv, Lifecycle
    PROVE  OutboxInv'
<1> USE DEF ledger, encrypted, delivery
<1>0. DeliveryInv /\ source \subseteq Windows
  BY DEF PipelineInv, DeliveryInv, SealedOnly
<1>1. CASE StartBundle \/ FinishActivation
  <2>1. RecoverJobs /\ UNCHANGED <<archive, source, notify, listed>>
    BY <1>1 DEF StartBundle, FinishActivation
  <2>2. JobStep /\ UNCHANGED outbox
    BY <2>1, RecoverJobStep
  <2> QED
    BY <1>0, <2>1, <2>2, JobStepOutbox, OutboxFrame DEF Consumed
<1>2. CASE RecoveryThrows \/ StopBundle \/ StopDispatcher \/ ReleaseBundle
  <2>1. UNCHANGED <<outbox, receipts, archive, source, notify, listed>>
    BY <1>2 DEF RecoveryThrows, StopBundle, StopDispatcher, ReleaseBundle
  <2> QED
    BY <1>0, <2>1, OutboxUntouched, OutboxFrame
<1>3. CASE ListWindows
  <2>1. /\ phase = "recovering" /\ UNCHANGED <<outbox, receipts, archive, source, notify>>
        /\ listed' = source \/ listed' = listed
    BY <1>3 DEF ListWindows
  <2>2. notify = NoWindow
    BY <2>1 DEF QueueInv, BundleStopped
  <2>3. NotificationIsNew' /\ ListedIsAttributed'
    BY <2>1, <2>2 DEF OutboxInv, NotificationIsNew, ListedIsAttributed
  <2>4. ArchivedIsQueued' /\ QueuedHasSource' /\ ArchiveMatchesRequest'
    BY <2>1 DEF OutboxInv, ArchivedIsQueued, QueuedHasSource, ArchiveMatchesRequest,
       Consumed, Queued
  <2> QED
    BY <2>3, <2>4 DEF OutboxInv
<1>4. CASE PersistListedWindow
  <2>1. PICK w \in listed : Enqueue(w) /\ listed' = listed \ {w}
    BY <1>4 DEF PersistListedWindow
  <2>2. UNCHANGED <<source, notify, archive>>
    BY <1>4 DEF PersistListedWindow
  <2>3. /\ w \in source /\ (outbox[w] = None => archive[w] = None)
        /\ notify = NoWindow \/ notify # w
    BY <2>1 DEF OutboxInv, ListedIsAttributed, ArchivedIsQueued, NotificationIsNew
  <2> QED
    BY <1>0, <2>1, <2>2, <2>3, EnqueueOutbox
<1> QED
  BY <1>1, <1>2, <1>3, <1>4 DEF Lifecycle

\* A window is sealed with nothing known of it.
LEMMA SealOutbox ==
    ASSUME PipelineInv, OutboxInv, SealWindow(phase = "starting"), UNCHANGED listed
    PROVE  OutboxInv'
<1> USE DEF ledger, encrypted
<1>1. /\ sealed \in Nat /\ sealed < NumWindows
      /\ source' = source \cup {sealed + 1} /\ notify' \in {sealed + 1, NoWindow}
      /\ UNCHANGED <<outbox, receipts, archive>>
  BY DEF PipelineInv, DeliveryInv, SealedOnly, SealWindow
<1>2. sealed + 1 \in Windows /\ ~(sealed + 1 <= sealed)
  BY <1>1, StoreConstants DEF Windows
<1>3. /\ outbox[sealed + 1] = None /\ receipts[sealed + 1] = None
      /\ archive[sealed + 1] = None /\ sealed + 1 \notin listed
  BY <1>2 DEF PipelineInv, DeliveryInv, SealedOnly, ArchiveInv, ArchiveSealed, Sealed
<1>4. NotificationIsNew' /\ ListedIsAttributed' /\ ArchivedIsQueued'
  BY <1>1, <1>2, <1>3 DEF OutboxInv, NotificationIsNew, NewWindow, ListedIsAttributed,
     ArchivedIsQueued
<1>5. QueuedHasSource' /\ ArchiveMatchesRequest'
  BY <1>1 DEF OutboxInv, QueuedHasSource, ArchiveMatchesRequest, Consumed, Queued
<1> QED
  BY <1>4, <1>5 DEF OutboxInv

\* Retention takes no archive of a queued window.
LEMMA CleanupOutbox ==
    ASSUME PipelineInv, OutboxInv, NEW r \in RunIds, CleanupRun(r)
    PROVE  OutboxInv'
<1> USE DEF ledger, delivery
<1>1. /\ UNCHANGED <<outbox, receipts, source, notify, listed>>
      /\ \A w \in DOMAIN runs[r].input : outbox[w] = None
  BY DEF CleanupRun
<1>2. \A w \in Windows :
        archive'[w] = archive[w] \/ (archive'[w] = None /\ ConsumedBy(w, r) /\ Completed(r))
  BY DEF CleanupRun, ExpireRun, ConsumedBy
<1>3. \A w \in Windows : archive'[w] = archive[w] \/ (archive'[w] = None /\ outbox[w] = None)
  BY <1>1, <1>2 DEF PipelineInv, ArchiveInv, ConsumedInput
<1>4. OutboxKept
  BY <1>1, <1>3 DEF OutboxKept, Consumed
<1> QED
  BY <1>4, OutboxFrame DEF PipelineInv

\* A crash releases at most a window that is being acknowledged.
LEMMA CrashOutbox ==
    ASSUME PipelineInv, OutboxInv, Crash
    PROVE  OutboxInv'
<1> USE DEF ledger, encrypted
<1>1. /\ UNCHANGED <<outbox, receipts, archive>> /\ notify' = NoWindow /\ listed' = {}
      /\ source' = source \/ (Acknowledging /\ source' = source \ {dlv.w})
  BY DEF Crash
<1>2. \A w \in source \ source' : receipts[w] # None \/ Consumed(w)
  BY <1>1, AcknowledgedIsDurable
<1>3. NotificationIsNew' /\ ListedIsAttributed' /\ ArchivedIsQueued'
  BY <1>1 DEF OutboxInv, NotificationIsNew, ListedIsAttributed, ArchivedIsQueued
<1>4. QueuedHasSource' /\ ArchiveMatchesRequest'
  BY <1>1, <1>2 DEF OutboxInv, QueuedHasSource, ArchiveMatchesRequest, Consumed, Queued
<1> QED
  BY <1>3, <1>4 DEF OutboxInv

\* Every step keeps it.
LEMMA OutboxInvNext ==
    ASSUME PipelineInv, CommitInv, QueueInv, OutboxInv, [Next]_vars
    PROVE  OutboxInv'
<1> USE DEF ledger, encrypted, delivery, dispatch
<1>1. CASE \/ UNCHANGED vars \/ RefreshSession \/ SignOut
           \/ (TimePasses /\ JobBackoffElapses)
  <2>1. UNCHANGED <<outbox, receipts, archive, source, notify, listed>>
    BY <1>1 DEF vars, RefreshSession, SignOut, TimePasses, JobBackoffElapses
  <2> QED
    BY <2>1, OutboxUntouched, OutboxFrame DEF PipelineInv
<1>2. CASE TimePasses /\ \E w \in Windows : BackoffElapses(w)
  <2>1. PICK w \in Windows : BackoffElapses(w)
    BY <1>2
  <2>2. UNCHANGED <<archive, source, notify, listed>> /\ outbox[w] # None
    BY <1>2, <2>1 DEF TimePasses, BackoffElapses, Queued
  <2>3. /\ RowsKept /\ UNCHANGED receipts
        /\ \A v \in Windows : outbox[v] # None => outbox'[v].sem = outbox[v].sem
    BY <2>1, <2>2, RowTouched DEF PipelineInv, DeliveryInv
  <2>4. OutboxKept
    BY <2>2, <2>3 DEF OutboxKept, RowsKept, Consumed
  <2> QED
    BY <2>4, OutboxFrame DEF PipelineInv
<1>3. CASE TimePasses
  BY <1>1, <1>2, <1>3 DEF TimePasses
<1>4. CASE SealWindow(phase = "starting") /\ UNCHANGED <<phase, listed>>
  BY <1>4, SealOutbox
<1>5. CASE Lifecycle \/ DeliveryStep \/ DispatcherStep \/ RunStep
  BY <1>5, LifecycleOutbox, DeliveryOutbox, JobsOutbox
<1>6. CASE Crash \/ \E r \in RunIds : CleanupRun(r)
  BY <1>6, CrashOutbox, CleanupOutbox
<1> HIDE DEF ledger, encrypted, delivery, dispatch
<1> QED
  BY <1>1, <1>3, <1>4, <1>5, <1>6 DEF Next

\* The outbox starts empty.
LEMMA OutboxInvInit == Init => QueueInv /\ OutboxInv
<1> SUFFICES ASSUME Init PROVE QueueInv /\ OutboxInv
  OBVIOUS
<1>1. /\ outbox = [w \in Windows |-> None] /\ receipts = [w \in Windows |-> None]
      /\ source = {} /\ listed = {} /\ notify = NoWindow /\ tail = <<>> /\ phase = "down"
      /\ dlv = StoppedService
  BY DEF Init, LedgerInit, DeliveryInit
<1>2. QueueInv
  BY <1>1 DEF QueueInv, BundleStopped, OneNotification, StoppedService
<1>3. OutboxInv
  BY <1>1 DEF OutboxInv, NotificationIsNew, ListedIsAttributed, ArchivedIsQueued,
     QueuedHasSource, ArchiveMatchesRequest, Queued
<1> QED
  BY <1>2, <1>3

\* The invariants of the queue and of the outbox hold in every behaviour.
LEMMA OutboxInvHolds == Spec => [](QueueInv /\ OutboxInv)
<1>1. PipelineInv /\ CommitInv /\ QueueInv /\ OutboxInv /\ [Next]_vars
        => QueueInv' /\ OutboxInv'
  BY QueueInvNext, OutboxInvNext DEF PipelineInv
<1> QED
  BY <1>1, OutboxInvInit, CommitInvHolds, PTL DEF Spec

\* archiveProactiveFeedbackEventStream never collides with an earlier analysis: the
\* archive of a window that is in the outbox is under the request id of its row,
\* whatever crash, retry or new semantic attempt came in between.
THEOREM ArchiveMatchesRequestHolds == Spec => []ArchiveMatchesRequest
<1>1. OutboxInv => ArchiveMatchesRequest
  BY DEF OutboxInv
<1> QED
  BY <1>1, OutboxInvHolds, PTL

----------------------------------------------------------------------------
(* Sums *)

\* The sum of g over S, as the number of cells under g.
Cells(g, S) == {c \in S \X Nat : c[2] < g[c[1]]}
Weight(g, S) == Cardinality(Cells(g, S))

\* A set of numbers that is not empty has a least element.
LEMMA LeastNumber ==
    ASSUME NEW S, S \subseteq Nat, S # {}
    PROVE  \E k \in S : \A m \in S : k <= m
<1> DEFINE R == OpToRel(<, Nat)
<1>1. IsWellFoundedOn(R, Nat)
  BY NatLessThanWellFounded
<1> HIDE DEF R
<1>2. PICK k \in S : \A m \in S : ~(<<m, k>> \in R)
  BY <1>1, WFMin
<1>3. \A m \in S : m < k => <<m, k>> \in R
  BY DEF R, OpToRel
<1>4. ASSUME NEW m \in S PROVE k <= m
  <2>1. m \in Nat /\ k \in Nat /\ ~(m < k)
    BY <1>2, <1>3
  <2> QED
    BY <2>1
<1> QED
  BY <1>4

\* One element has as many cells as its number.
LEMMA CellsOfOne ==
    ASSUME NEW g, NEW x, g[x] \in Nat
    PROVE  IsFiniteSet(Cells(g, {x})) /\ Weight(g, {x}) = g[x]
<1> DEFINE I == 0..(g[x] - 1)
           f == [i \in I |-> <<x, i>>]
<1>1. IsFiniteSet(I) /\ Cardinality(I) = g[x]
  <2>1. 0 \in Int /\ g[x] - 1 \in Int
    OBVIOUS
  <2>2. IsFiniteSet(I) /\ Cardinality(I) = IF 0 > g[x] - 1 THEN 0 ELSE (g[x] - 1) - 0 + 1
    BY <2>1, FS_Interval
  <2> QED
    BY <2>2
<1>2. \A c \in Cells(g, {x}) : c[2] \in I /\ f[c[2]] = c
  BY DEF Cells
<1>3. \A i \in I : f[i] \in Cells(g, {x})
  BY DEF Cells
<1>4. f \in Bijection(I, Cells(g, {x}))
  <2>1. f \in [I -> Cells(g, {x})]
    BY <1>3
  <2>2. \A i, j \in I : f[i] = f[j] => i = j
    OBVIOUS
  <2>3. \A c \in Cells(g, {x}) : \E i \in I : f[i] = c
    BY <1>2
  <2> HIDE DEF I, f
  <2> QED
    BY <2>1, <2>2, <2>3 DEF Bijection, Injection, Surjection, IsInjective
<1> HIDE DEF I, f
<1>5. ExistsBijection(I, Cells(g, {x}))
  BY <1>4 DEF ExistsBijection
<1> QED
  BY <1>1, <1>5, FS_Bijection DEF Weight

\* The cells of finitely many elements are finitely many.
LEMMA CellsFinite ==
    ASSUME NEW g, NEW S, IsFiniteSet(S), \A x \in S : g[x] \in Nat
    PROVE  IsFiniteSet(Cells(g, S))
<1> DEFINE f == [x \in S |-> Cells(g, {x})]
           T == {f[x] : x \in S}
<1>1. f \in Surjection(S, T)
  BY DEF Surjection
<1>2. IsFiniteSet(T)
  <2> HIDE DEF T, f
  <2> QED
    BY <1>1, FS_Surjection
<1>3. \A t \in T : IsFiniteSet(t)
  <2>1. \A x \in S : f[x] = Cells(g, {x})
    OBVIOUS
  <2>2. \A x \in S : IsFiniteSet(Cells(g, {x}))
    BY CellsOfOne
  <2> HIDE DEF f
  <2> QED
    BY <2>1, <2>2
<1>4. Cells(g, S) = UNION T
  <2>1. \A c \in Cells(g, S) : c[1] \in S /\ c \in f[c[1]]
    BY DEF Cells
  <2>2. \A x \in S : Cells(g, {x}) \subseteq Cells(g, S)
    BY DEF Cells
  <2> QED
    BY <2>1, <2>2
<1> HIDE DEF T
<1> QED
  BY <1>2, <1>3, <1>4, FS_UNION

\* A sum is additive.
LEMMA WeightUnion ==
    ASSUME NEW g, NEW S, NEW T, IsFiniteSet(S), IsFiniteSet(T), S \cap T = {},
           \A x \in S \cup T : g[x] \in Nat
    PROVE  /\ Weight(g, S) \in Nat /\ Weight(g, T) \in Nat
           /\ Weight(g, S \cup T) = Weight(g, S) + Weight(g, T)
<1>1. IsFiniteSet(Cells(g, S)) /\ IsFiniteSet(Cells(g, T))
  BY CellsFinite
<1>2. Cells(g, S \cup T) = Cells(g, S) \cup Cells(g, T)
  BY DEF Cells
<1>3. Cells(g, S) \cap Cells(g, T) = {}
  BY DEF Cells
<1>4. Cardinality(Cells(g, S)) \in Nat /\ Cardinality(Cells(g, T)) \in Nat
  BY <1>1, FS_CardinalityType
<1>5. Cardinality(Cells(g, S) \cup Cells(g, T))
        = Cardinality(Cells(g, S)) + Cardinality(Cells(g, T)) - Cardinality({})
  BY <1>1, <1>3, FS_Union
<1>6. Cardinality({}) = 0
  BY FS_EmptySet
<1>7. ASSUME NEW a \in Nat, NEW b \in Nat, NEW c, c = a + b - Cardinality({})
      PROVE  c = a + b
  BY <1>6, <1>7
<1>8. Cardinality(Cells(g, S) \cup Cells(g, T))
        = Cardinality(Cells(g, S)) + Cardinality(Cells(g, T))
  BY <1>4, <1>5, <1>7, Zenon
<1> QED
  BY <1>2, <1>4, <1>8, Zenon DEF Weight

\* It depends on the numbers of its elements only.
LEMMA WeightSame ==
    ASSUME NEW g, NEW h, NEW S, \A x \in S : g[x] = h[x]
    PROVE  Weight(g, S) = Weight(h, S)
<1>1. Cells(g, S) = Cells(h, S)
  BY DEF Cells
<1> QED
  BY <1>1 DEF Weight

\* Without any number there is nothing to sum.
LEMMA WeightZero ==
    ASSUME NEW g, NEW S, \A x \in S : g[x] = 0
    PROVE  Weight(g, S) = 0
<1>1. Cells(g, S) = {}
  BY DEF Cells
<1> QED
  BY <1>1, FS_EmptySet DEF Weight

\* The element that MapThenSumSet takes first, and the equation of its recursion.
Pick(s) == CHOOSE x \in s : TRUE
SumEq(k, g, T) ==
    k = [s \in SUBSET T |-> IF s = {} THEN 0 ELSE g[Pick(s)] + k[s \ {Pick(s)}]]

\* The recursion counts the cells: of the sets for which it did not, one would have the
\* least number of elements.
LEMMA RecursionIsWeight ==
    ASSUME NEW g, NEW T, IsFiniteSet(T), \A x \in T : g[x] \in Nat
    PROVE  (CHOOSE k : SumEq(k, g, T))[T] = Weight(g, T)
<1>0. \A s \in SUBSET T : s # {} => Pick(s) \in s
  BY DEF Pick
<1>1. ASSUME NEW s \in SUBSET T, s # {}
      PROVE  Weight(g, s) = g[Pick(s)] + Weight(g, s \ {Pick(s)})
  <2>1. PICK x : x = Pick(s) /\ x \in s
    BY <1>0, <1>1
  <2>2. IsFiniteSet(s) /\ IsFiniteSet(s \ {x}) /\ IsFiniteSet({x})
    BY FS_Subset, FS_Singleton, FS_RemoveElement
  <2>3. s = {x} \cup (s \ {x}) /\ {x} \cap (s \ {x}) = {}
    BY <2>1
  <2>4. Weight(g, {x} \cup (s \ {x})) = Weight(g, {x}) + Weight(g, s \ {x})
    BY <2>1, <2>2, <2>3, WeightUnion
  <2>5. Weight(g, {x}) = g[x]
    BY <2>1, CellsOfOne
  <2> QED
    BY <2>1, <2>3, <2>4, <2>5
<1>2. SumEq([s \in SUBSET T |-> Weight(g, s)], g, T)
  <2> DEFINE k == [s \in SUBSET T |-> Weight(g, s)]
  <2>1. Weight(g, {}) = 0
    BY WeightZero
  <2>2. \A s \in SUBSET T :
           Weight(g, s) = IF s = {} THEN 0 ELSE g[Pick(s)] + k[s \ {Pick(s)}]
    BY <1>1, <2>1
  <2> QED
    BY <2>2 DEF SumEq
<1>3. PICK k : k = (CHOOSE h : SumEq(h, g, T)) /\ SumEq(k, g, T)
  BY <1>2
<1>4. /\ k[{}] = 0
      /\ \A s \in SUBSET T : s # {} => k[s] = g[Pick(s)] + k[s \ {Pick(s)}]
  BY <1>3 DEF SumEq
<1>5. ASSUME NEW t \in SUBSET T, k[t] # Weight(g, t)
      PROVE  FALSE
  <2> DEFINE Bad == {n \in Nat : \E s \in SUBSET T :
                                    Cardinality(s) = n /\ k[s] # Weight(g, s)}
  <2>1. \A s \in SUBSET T : IsFiniteSet(s) /\ Cardinality(s) \in Nat
    BY FS_Subset, FS_CardinalityType
  <2>2. Bad \subseteq Nat /\ Bad # {}
    BY <1>5, <2>1
  <2>3. PICK n \in Bad : \A m \in Bad : n <= m
    BY <2>2, LeastNumber
  <2>4. PICK s \in SUBSET T : Cardinality(s) = n /\ k[s] # Weight(g, s)
    BY <2>3
  <2>5. CASE s = {}
    BY <1>4, <2>4, <2>5, WeightZero
  <2>6. CASE s # {}
    <3>1. PICK u \in SUBSET T : u = s \ {Pick(s)} /\ Cardinality(u) = n - 1
      BY <1>0, <2>1, <2>4, <2>6, FS_RemoveElement
    <3>2. k[u] = Weight(g, u)
      <4>1. n - 1 \in Nat /\ n \in Nat
        BY <2>1, <2>3, <3>1
      <4>2. n - 1 \notin Bad
        BY <2>3, <4>1
      <4> QED
        BY <3>1, <4>1, <4>2
    <3> QED
      BY <1>1, <1>4, <2>4, <2>6, <3>1, <3>2
  <2> QED
    BY <2>5, <2>6
<1> QED
  BY <1>3, <1>5

\* So the sum of the scores of some rows is the number of their cells.
LEMMA ScoreSum ==
    ASSUME NEW rows, NEW S, IsFiniteSet(S), \A w \in S : rows[w].score \in Nat
    PROVE  MapThenSumSet(LAMBDA w : rows[w].score, S) = Weight([w \in S |-> rows[w].score], S)
<1> DEFINE g == [w \in S |-> rows[w].score]
<1>2. \A k : SumEq(k, g, S) <=>
         k = [s \in SUBSET S |->
            IF s = {} THEN 0 ELSE rows[Pick(s)].score + k[s \ {Pick(s)}]]
  <2>1. \A s \in SUBSET S : s # {} => Pick(s) \in S
    BY DEF Pick
  <2>2. \A s \in SUBSET S : s # {} => g[Pick(s)] = rows[Pick(s)].score
    BY <2>1
  <2> HIDE DEF g
  <2> QED
    BY <2>2 DEF SumEq
<1>3. (CHOOSE k : SumEq(k, g, S)) = 
     (CHOOSE k : k = [s \in SUBSET S |->
            IF s = {} THEN 0 ELSE rows[Pick(s)].score + k[s \ {Pick(s)}]])
  <2> HIDE DEF g
  <2> QED
   BY <1>2
<1>4. \A x \in S : g[x] \in Nat
  OBVIOUS
<1>5. (CHOOSE k : k = [s \in SUBSET S |->
            IF s = {} THEN 0 ELSE rows[Pick(s)].score + k[s \ {Pick(s)}]])[S] = Weight(g, S)
  <2> HIDE DEF g
  <2> QED
    BY <1>3, <1>4, RecursionIsWeight
<1> QED
  BY <1>5 DEF MapThenSumSet, MapThenFoldSet, Pick

----------------------------------------------------------------------------
(* The scores *)

\* Windows are finitely many, and so are those of a set of rows.
LEMMA WindowsFinite == IsFiniteSet(Windows) /\ \A S \in SUBSET Windows : IsFiniteSet(S)
<1>1. IsFiniteSet(Windows)
  BY FS_Interval, StoreConstants DEF Windows
<1> QED
  BY <1>1, FS_Subset

\* The score of some rows is the sum of their scores.
LEMMA ScoreInWeight ==
    ASSUME NEW rows, NEW S \in SUBSET Windows, \A w \in S : rows[w].score \in Nat
    PROVE  ScoreIn(rows, S) = Weight([w \in S |-> rows[w].score], S)
<1>1. IsFiniteSet(S)
  BY WindowsFinite
<1>2. MapThenSumSet(LAMBDA w : rows[w].score, S) = Weight([w \in S |-> rows[w].score], S)
  BY <1>1, ScoreSum
<1> QED
  BY <1>2 DEF ScoreIn

\* It depends on these rows only.
LEMMA ScoreInSame ==
    ASSUME NEW rows, NEW others, NEW S \in SUBSET Windows,
           \A w \in S : rows[w].score \in Nat /\ others[w].score = rows[w].score
    PROVE  ScoreIn(others, S) = ScoreIn(rows, S)
<1>1. /\ ScoreIn(rows, S) = Weight([w \in S |-> rows[w].score], S)
      /\ ScoreIn(others, S) = Weight([w \in S |-> others[w].score], S)
  BY ScoreInWeight
<1>2. [w \in S |-> rows[w].score] = [w \in S |-> others[w].score]
  OBVIOUS
<1> QED
  BY <1>1, <1>2

\* It is additive, and that of one row is the row's.
LEMMA ScoreInUnion ==
    ASSUME NEW rows, NEW S \in SUBSET Windows, NEW T \in SUBSET Windows, S \cap T = {},
           \A w \in S \cup T : rows[w].score \in Nat
    PROVE  /\ ScoreIn(rows, S) \in Nat /\ ScoreIn(rows, T) \in Nat
           /\ ScoreIn(rows, S \cup T) = ScoreIn(rows, S) + ScoreIn(rows, T)
<1> DEFINE g == [w \in S \cup T |-> rows[w].score]
<1>1. IsFiniteSet(S) /\ IsFiniteSet(T) /\ S \cup T \in SUBSET Windows
  BY WindowsFinite
<1>2. /\ ScoreIn(rows, S) = Weight([w \in S |-> rows[w].score], S)
      /\ ScoreIn(rows, T) = Weight([w \in T |-> rows[w].score], T)
      /\ ScoreIn(rows, S \cup T) = Weight(g, S \cup T)
  BY <1>1, ScoreInWeight
<1>3. /\ Weight([w \in S |-> rows[w].score], S) = Weight(g, S)
      /\ Weight([w \in T |-> rows[w].score], T) = Weight(g, T)
  <2>1. /\ \A w \in S : [v \in S |-> rows[v].score][w] = g[w]
        /\ \A w \in T : [v \in T |-> rows[v].score][w] = g[w]
    OBVIOUS
  <2> HIDE DEF g
  <2> QED
    BY <2>1, WeightSame
<1>4. \A w \in S \cup T : g[w] \in Nat
  OBVIOUS
<1> HIDE DEF g
<1>5. /\ Weight(g, S) \in Nat /\ Weight(g, T) \in Nat
      /\ Weight(g, S \cup T) = Weight(g, S) + Weight(g, T)
  BY <1>1, <1>4, WeightUnion
<1> QED
  BY <1>2, <1>3, <1>5

\* The score of one row, and of none.
LEMMA ScoreInOne ==
    ASSUME NEW rows, NEW w \in Windows, rows[w].score \in Nat
    PROVE  ScoreIn(rows, {w}) = rows[w].score
<1> DEFINE g == [v \in {w} |-> rows[v].score]
<1>1. ScoreIn(rows, {w}) = Weight(g, {w})
  BY ScoreInWeight
<1>2. g[w] = rows[w].score
  OBVIOUS
<1> HIDE DEF g
<1>3. Weight(g, {w}) = g[w]
  BY <1>2, CellsOfOne
<1> QED
  BY <1>1, <1>2, <1>3

LEMMA ScoreInNone ==
    ASSUME NEW rows
    PROVE  ScoreIn(rows, {}) = 0
<1> DEFINE g == [v \in {} |-> rows[v].score]
<1>1. ScoreIn(rows, {}) = Weight(g, {})
  BY ScoreInWeight
<1> HIDE DEF g
<1>2. Weight(g, {}) = 0
  BY WeightZero
<1> QED
  BY <1>1, <1>2

\* A finite set of numbers that is not empty has a greatest element.
LEMMA GreatestNumber ==
    ASSUME NEW S, S \subseteq Nat, IsFiniteSet(S), S # {}
    PROVE  Max(S) \in S /\ \A m \in S : m <= Max(S)
<1> DEFINE Top(T, k) == k \in T /\ \A m \in T : m <= k
           Bad == {n \in Nat : \E T \in SUBSET S :
                     Cardinality(T) = n /\ T # {} /\ ~\E k : Top(T, k)}
<1>1. \E k : Top(S, k)
  <2> SUFFICES ASSUME ~\E k : Top(S, k) PROVE FALSE
    OBVIOUS
  <2>1. \A T \in SUBSET S : IsFiniteSet(T) /\ Cardinality(T) \in Nat
    BY FS_Subset, FS_CardinalityType
  <2>2. Bad \subseteq Nat /\ Bad # {}
    BY <2>1
  <2>3. PICK n \in Bad : \A m \in Bad : n <= m
    BY <2>2, LeastNumber
  <2>4. PICK T \in SUBSET S : Cardinality(T) = n /\ T # {} /\ ~\E k : Top(T, k)
    BY <2>3
  <2>5. PICK x \in T : TRUE
    BY <2>4
  <2>6. PICK U \in SUBSET S : U = T \ {x} /\ Cardinality(U) = n - 1
    <3>1. IsFiniteSet(T) /\ Cardinality(T) = n /\ x \in T
      BY <2>1, <2>4, <2>5
    <3>2. Cardinality(T \ {x}) = n - 1
      BY <3>1, FS_RemoveElement
    <3>3. T \ {x} \in SUBSET S
      BY <2>4
    <3> QED
      BY <3>2, <3>3
  <2>7. n - 1 \in Nat /\ n \in Nat
    BY <2>1, <2>3, <2>6
  <2>8. U = {} \/ \E k : Top(U, k)
    <3>1. n - 1 \notin Bad
      BY <2>3, <2>7
    <3> QED
      BY <2>6, <2>7, <3>1
  <2>9. CASE U = {}
    <3>1. Top(T, x)
      BY <2>5, <2>6, <2>9
    <3> QED
      BY <2>4, <3>1
  <2>10. ASSUME NEW k, Top(U, k)
         PROVE  FALSE
    <3>1. k \in Nat /\ x \in Nat /\ T = U \cup {x} /\ T \subseteq Nat
      BY <2>5, <2>6, <2>10
    <3>2. CASE x <= k
      <4>1. Top(T, k)
        BY <2>10, <3>1, <3>2
      <4> QED
        BY <2>4, <4>1
    <3>3. CASE k <= x
      <4>1. \A m \in T : m <= x
        BY <2>10, <3>1, <3>3
      <4>2. Top(T, x)
        BY <3>1, <4>1
      <4> QED
        BY <2>4, <4>2
    <3> QED
      BY <3>1, <3>2, <3>3
  <2> QED
    BY <2>8, <2>9, <2>10
<1>2. PICK k : Top(S, k)
  BY <1>1
<1>3. k \in S /\ \A m \in S : k >= m
  BY <1>2
<1>4. Max(S) \in S /\ \A m \in S : Max(S) >= m
  BY <1>3 DEF Max
<1> QED
  BY <1>4

\* With receipts there are oldest ones.
LEMMA OldestExist ==
    ASSUME NEW rows, NEW n \in Nat, n # 0, NEW v \in Windows, rows[v] # None,
           \A w \in Windows : rows[w] # None => rows[w].at \in Nat
    PROVE  Oldest(rows, n) # {}
<1> DEFINE all == {w \in Windows : rows[w] # None}
           ats == {rows[w].at : w \in all}
<1>1. ats \subseteq Nat /\ ats # {}
  OBVIOUS
<1>2. PICK k \in ats : \A m \in ats : k <= m
  BY <1>1, LeastNumber
<1>3. PICK w \in all : rows[w].at = k
  BY <1>2
<1>4. {u \in all : rows[u].at < rows[w].at} = {}
  <2>1. \A u \in all : ~(rows[u].at < rows[w].at)
    BY <1>1, <1>2, <1>3
  <2> QED
    BY <2>1
<1>5. Cardinality({u \in all : rows[u].at < rows[w].at}) < n
  <2>1. 0 < n
    OBVIOUS
  <2> QED
    BY <1>4, <2>1, FS_EmptySet
<1> QED
  BY <1>5 DEF Oldest

\* A new job consumes exactly the scores of its windows, and the total it was made
\* from has reached the threshold.
LEMMA MaterializeTotals ==
    ASSUME NEW rows, NEW total, Materialize(rows, total, None), job' # None,
           \A w \in Windows : rows[w] # None => rows[w].at \in Nat /\ rows[w].score \in Nat,
           total = ScoreIn(rows, {w \in Windows : rows[w] # None}), total \in Nat
    PROVE  /\ "consumed" \in DOMAIN job' /\ job'.windows # {}
           /\ job'.consumed = ScoreIn(rows, job'.windows)
           /\ total >= ScoreThreshold
<1>1. /\ total >= ScoreThreshold
      /\ \E n \in 1..MaxJobResults :
           /\ "consumed" \in DOMAIN job' /\ job'.windows = Oldest(rows, n)
           /\ job'.consumed = ScoreIn(rows, job'.windows)
  BY StoreConstants DEF Materialize
<1>2. {w \in Windows : rows[w] # None} # {}
  BY <1>1, ScoreInNone, StoreConstants
<1> QED
  BY <1>1, <1>2, OldestExist, StoreConstants

----------------------------------------------------------------------------
(* The accumulated score *)

\* The numbers the score is made of: those of the receipts, those of the archive,
\* from which a receipt is recovered, and that of the response in hand.
ReceiptNumbers ==
    \A w \in Windows : receipts[w] # None =>
        receipts[w].score \in Scores /\ receipts[w].at \in Nat
ArchiveNumbers ==
    /\ \A w \in Windows : archive[w] # None =>
         "score" \in DOMAIN archive[w] /\ archive[w].score \in Scores
    /\ dlv.pc \in {"archive", "apply"} => dlv.score \in Scores

\* The score is the sum of the receipts, a job consumes that of its windows, and
\* while there is a job the score has reached the threshold.
ScoreTotals ==
    /\ score = TotalScore(Received)
    /\ job # None => /\ "consumed" \in DOMAIN job /\ job.windows # {}
                     /\ job.consumed = TotalScore(job.windows)
                     /\ score >= ScoreThreshold

\* The invariant of the score.
ScoreInv == ReceiptNumbers /\ ArchiveNumbers /\ ScoreTotals

\* What a step may do to the receipts and the score.
SameScore ==
    /\ UNCHANGED <<receipts, score>>
    /\ \/ job' = job
       \/ /\ job # None /\ job' # None
          /\ DOMAIN job' = DOMAIN job /\ job'.windows = job.windows
          /\ "consumed" \in DOMAIN job => job'.consumed = job.consumed
       \/ Materialize(receipts, score, job)
\* A new receipt, and phase two.
MoreScore == \E w \in Windows, s \in Scores : receipts[w] = None /\ Apply(w, s)
ScoreTaken == (\E r : Holds(r)) /\ CompleteJob

\* The scores of any receipts can be summed.
LEMMA ScoresAreNumbers ==
    ASSUME ReceiptNumbers, NEW S \in SUBSET Received
    PROVE  /\ S \subseteq Windows /\ \A w \in S : receipts[w].score \in Nat
           /\ TotalScore(S) \in Nat
<1>1. S \in SUBSET Windows /\ \A w \in S : receipts[w].score \in Nat
  BY StoreConstants DEF ReceiptNumbers, Received
<1>2. ScoreIn(receipts, S) \in Nat
  <2>1. {} \in SUBSET Windows /\ S \cap {} = {} /\ \A w \in S \cup {} : receipts[w].score \in Nat
    BY <1>1
  <2> QED
    BY <1>1, <2>1, ScoreInUnion
<1> QED
  BY <1>1, <1>2 DEF TotalScore

\* A new receipt comes after the others.
LEMMA NextRank ==
    ASSUME ReceiptNumbers
    PROVE  Max({receipts[v].at : v \in Received} \cup {0}) + 1 \in Nat
<1> DEFINE f == [v \in Received |-> receipts[v].at]
           T == {receipts[v].at : v \in Received}
<1>1. IsFiniteSet(Received) /\ f \in Surjection(Received, T)
  <2>1. Received \in SUBSET Windows
    BY DEF Received
  <2>2. f \in Surjection(Received, T)
    BY DEF Surjection
  <2> HIDE DEF f, T
  <2> QED
    BY <2>1, <2>2, WindowsFinite
<1>2. T \subseteq Nat
  BY DEF ReceiptNumbers, Received
<1> HIDE DEF f, T
<1>3. IsFiniteSet(T)
  BY <1>1, FS_Surjection
<1>4. IsFiniteSet(T \cup {0}) /\ T \cup {0} \subseteq Nat /\ T \cup {0} # {}
  BY <1>2, <1>3, FS_AddElement
<1>5. Max(T \cup {0}) \in Nat
  BY <1>4, GreatestNumber
<1> QED
  BY <1>5 DEF T

\* A job that is claimed, deferred or given up keeps what it consumes, and one that
\* is made consumes the scores of its windows.
LEMMA SameScoreTotals ==
    ASSUME DeliveryInv, ReceiptNumbers, ScoreTotals, SameScore
    PROVE  ReceiptNumbers' /\ ScoreTotals'
<1>1. UNCHANGED <<receipts, score>> /\ ReceiptNumbers'
  BY DEF SameScore, ReceiptNumbers
<1>2. score' = TotalScore(Received)'
  BY <1>1 DEF ScoreTotals, TotalScore, Received
<1>3. CASE job' = job
  BY <1>1, <1>2, <1>3 DEF ScoreTotals, TotalScore
<1>4. CASE /\ job # None /\ job' # None
           /\ DOMAIN job' = DOMAIN job /\ job'.windows = job.windows
           /\ "consumed" \in DOMAIN job => job'.consumed = job.consumed
  BY <1>1, <1>2, <1>4 DEF ScoreTotals, TotalScore
<1>5. CASE job = None /\ Materialize(receipts, score, None)
  <2>1. /\ \A w \in Windows : receipts[w] # None =>
             receipts[w].at \in Nat /\ receipts[w].score \in Nat
        /\ score = ScoreIn(receipts, {w \in Windows : receipts[w] # None}) /\ score \in Nat
    <3>1. Received \in SUBSET Received
      OBVIOUS
    <3> QED
      BY <3>1, ScoresAreNumbers, StoreConstants
      DEF ScoreTotals, TotalScore, Received, ReceiptNumbers
  <2>2. job' # None => /\ "consumed" \in DOMAIN job' /\ job'.windows # {}
                       /\ job'.consumed = ScoreIn(receipts, job'.windows)
                       /\ score >= ScoreThreshold
    BY <1>5, <2>1, MaterializeTotals
  <2> QED
    BY <1>1, <1>2, <2>2 DEF ScoreTotals, TotalScore
<1>6. CASE job # None /\ Materialize(receipts, score, job)
  BY <1>3, <1>6, MaterializeWindows
<1> QED
  BY <1>3, <1>4, <1>5, <1>6 DEF SameScore

\* apply adds the receipt and its score in one transaction.
LEMMA MoreScoreTotals ==
    ASSUME DeliveryInv, ReceiptNumbers, ScoreTotals, MoreScore
    PROVE  ReceiptNumbers' /\ ScoreTotals'
<1>1. PICK w \in Windows, s \in Scores : receipts[w] = None /\ Apply(w, s)
  BY DEF MoreScore
<1>2. LedgerShape /\ JobIsReceived
  BY DEF DeliveryInv
<1> DEFINE row == [sem |-> outbox[w].sem, score |-> s,
                   at |-> Max({receipts[v].at : v \in Received} \cup {0}) + 1]
<1>3. /\ receipts' = [receipts EXCEPT ![w] = row] /\ score' = score + s
      /\ Materialize([receipts EXCEPT ![w] = row], score + s, job)
  BY <1>1 DEF Apply
<1>4. row # None /\ row.score = s /\ row.score \in Scores /\ row.at \in Nat
  BY NextRank DEF None
<1> HIDE DEF row
<1>5. \A v \in Windows : receipts'[v] = IF v = w THEN row ELSE receipts[v]
  BY <1>2, <1>3 DEF LedgerShape
<1>6. ReceiptNumbers'
  BY <1>4, <1>5 DEF ReceiptNumbers
<1>7. Received' = Received \cup {w} /\ w \notin Received /\ Received \in SUBSET Windows
  BY <1>1, <1>4, <1>5 DEF Received
<1>8. /\ \A v \in Received : receipts[v].score \in Nat /\ receipts'[v].score = receipts[v].score
      /\ receipts'[w].score = s /\ s \in Nat
  <2>1. \A v \in Received : receipts[v].score \in Nat
    BY StoreConstants DEF ReceiptNumbers, Received
  <2> QED
    BY <1>4, <1>5, <1>7, <2>1, StoreConstants
<1>9. ScoreIn(receipts', Received') = score + s /\ score + s \in Nat
  <2>1. ScoreIn(receipts', Received) = ScoreIn(receipts, Received)
    BY <1>7, <1>8, ScoreInSame
  <2>2. ScoreIn(receipts', {w}) = s
    BY <1>8, ScoreInOne
  <2>3. /\ {w} \in SUBSET Windows /\ Received \cap {w} = {}
        /\ \A v \in Received \cup {w} : receipts'[v].score \in Nat
    BY <1>7, <1>8
  <2>4. /\ ScoreIn(receipts', Received) \in Nat
        /\ ScoreIn(receipts', Received \cup {w})
             = ScoreIn(receipts', Received) + ScoreIn(receipts', {w})
    BY <1>7, <2>3, ScoreInUnion
  <2>5. score = ScoreIn(receipts, Received)
    BY DEF ScoreTotals, TotalScore
  <2> QED
    BY <1>7, <1>8, <2>1, <2>2, <2>4, <2>5
<1>10. score' = TotalScore(Received)'
  BY <1>3, <1>9 DEF TotalScore
<1>11. CASE job # None
  <2>1. job' = job
    BY <1>1, <1>2, <1>11, ApplyEffect
  <2>2. job.windows \in SUBSET Windows /\ job.windows \subseteq Received
    BY <1>2, <1>11 DEF JobIsReceived, Received
  <2>3. ScoreIn(receipts', job.windows) = ScoreIn(receipts, job.windows)
    BY <1>8, <2>2, ScoreInSame
  <2>4. score' >= ScoreThreshold
    <3>1. score >= ScoreThreshold /\ score \in Nat
      <4>1. Received \in SUBSET Received
        OBVIOUS
      <4> QED
        BY <1>11, <4>1, ScoresAreNumbers DEF ScoreTotals
    <3> QED
      BY <1>3, <1>8, <3>1, StoreConstants
  <2>5. /\ "consumed" \in DOMAIN job' /\ job'.windows # {}
        /\ job'.consumed = ScoreIn(receipts', job'.windows)
    BY <1>11, <2>1, <2>3 DEF ScoreTotals, TotalScore
  <2> QED
    BY <1>6, <1>10, <2>4, <2>5 DEF ScoreTotals, TotalScore
<1>12. CASE job = None
  <2>1. PICK rows : rows = receipts'
    OBVIOUS
  <2>2. \A v \in Windows : rows[v] # None => rows[v].at \in Nat /\ rows[v].score \in Nat
    BY <1>6, <2>1, StoreConstants DEF ReceiptNumbers
  <2>3. score + s = ScoreIn(rows, {v \in Windows : rows[v] # None})
    BY <1>9, <2>1 DEF Received
  <2>4. Materialize(rows, score + s, None)
    BY <1>3, <1>12, <2>1
  <2>5. job' # None => /\ "consumed" \in DOMAIN job' /\ job'.windows # {}
                       /\ job'.consumed = ScoreIn(rows, job'.windows)
                       /\ score + s >= ScoreThreshold
    BY <1>9, <2>2, <2>3, <2>4, MaterializeTotals
  <2> QED
    BY <1>3, <1>6, <1>10, <2>1, <2>5 DEF ScoreTotals, TotalScore
<1> QED
  BY <1>11, <1>12

\* Phase two takes the receipts of the job and exactly their score.
LEMMA ScoreTakenTotals ==
    ASSUME DeliveryInv, ReceiptNumbers, ScoreTotals, ScoreTaken
    PROVE  ReceiptNumbers' /\ ScoreTotals'
<1>1. job # None
  BY DEF ScoreTaken, Holds
<1>2. /\ receipts' = [w \in Windows |-> IF w \in job.windows THEN None ELSE receipts[w]]
      /\ score' = score - job.consumed
      /\ Materialize([w \in Windows |-> IF w \in job.windows THEN None ELSE receipts[w]],
                     score - job.consumed, None)
  BY DEF ScoreTaken, CompleteJob
<1>3. ReceiptNumbers'
  BY <1>2 DEF ReceiptNumbers
<1>4. /\ job.windows \in SUBSET Received /\ Received' = Received \ job.windows
      /\ Received \in SUBSET Windows
  BY <1>1, <1>2 DEF DeliveryInv, JobIsReceived, Received
<1>5. \A v \in Received : receipts[v].score \in Nat
  BY StoreConstants DEF ReceiptNumbers, Received
<1>6. ScoreIn(receipts', Received') = score - job.consumed /\ score - job.consumed \in Nat
  <2>1. /\ Received' \in SUBSET Windows /\ job.windows \in SUBSET Windows
        /\ job.windows \cap Received' = {} /\ job.windows \cup Received' = Received
    BY <1>4
  <2>2. /\ ScoreIn(receipts, job.windows) \in Nat /\ ScoreIn(receipts, Received') \in Nat
        /\ ScoreIn(receipts, job.windows \cup Received')
             = ScoreIn(receipts, job.windows) + ScoreIn(receipts, Received')
    <3>1. \A v \in job.windows \cup Received' : receipts[v].score \in Nat
      BY <1>5, <2>1
    <3> QED
      BY <2>1, <3>1, ScoreInUnion
  <2>3. ScoreIn(receipts', Received') = ScoreIn(receipts, Received')
    <3>1. \A v \in Received' : receipts[v].score \in Nat
                               /\ receipts'[v].score = receipts[v].score
      BY <1>2, <1>4, <1>5
    <3> QED
      BY <2>1, <3>1, ScoreInSame
  <2>4. score = ScoreIn(receipts, Received) /\ job.consumed = ScoreIn(receipts, job.windows)
    BY <1>1 DEF ScoreTotals, TotalScore
  <2>5. score = job.consumed + ScoreIn(receipts, Received')
    BY <2>1, <2>2, <2>4, Zenon
  <2>6. job.consumed \in Nat /\ ScoreIn(receipts, Received') \in Nat
    BY <2>2, <2>4
  <2>7. score - job.consumed = ScoreIn(receipts, Received')
    BY <2>5, <2>6
  <2> QED
    BY <2>3, <2>6, <2>7, Zenon
<1>7. score' = TotalScore(Received)'
  BY <1>2, <1>6 DEF TotalScore
<1>8. PICK rows : rows = receipts'
  OBVIOUS
<1>9. \A v \in Windows : rows[v] # None => rows[v].at \in Nat /\ rows[v].score \in Nat
  BY <1>3, <1>8, StoreConstants DEF ReceiptNumbers
<1>10. score - job.consumed = ScoreIn(rows, {v \in Windows : rows[v] # None})
  BY <1>6, <1>8 DEF Received
<1>11. Materialize(rows, score - job.consumed, None)
  BY <1>2, <1>8
<1>12. job' # None => /\ "consumed" \in DOMAIN job' /\ job'.windows # {}
                      /\ job'.consumed = ScoreIn(rows, job'.windows)
                      /\ score - job.consumed >= ScoreThreshold
  BY <1>6, <1>9, <1>10, <1>11, MaterializeTotals
<1> QED
  BY <1>2, <1>3, <1>7, <1>8, <1>12 DEF ScoreTotals, TotalScore

\* A claim, a retry, the end of a backoff and giving up keep what a job consumes.
LEMMA JobKeepsScore ==
    ASSUME LedgerShape, JobShape, job # None,
           \/ \E r : ClaimJob(r)
           \/ \E semantic \in BOOLEAN : DeferJob(semantic)
           \/ FailJobTerminally \/ JobBackoffElapses
    PROVE  SameScore
<1>0. "windows" \in DOMAIN job /\ JobFields \subseteq DOMAIN job
  BY DEF LedgerShape, JobShape
<1>1. /\ UNCHANGED <<receipts, score>>
      /\ DOMAIN job' = DOMAIN job /\ job'.windows = job.windows
      /\ "consumed" \in DOMAIN job => job'.consumed = job.consumed
  BY <1>0 DEF ClaimJob, DeferJob, FailJobTerminally, JobBackoffElapses, JobFields
<1>2. job' # None
  <2>1. "windows" \in DOMAIN job' /\ "windows" # "none"
    BY <1>0, <1>1
  <2> QED
    BY <2>1, RowIsNotNone
<1> QED
  BY <1>1, <1>2 DEF SameScore

\* The dispatcher claims, retries, gives up or completes the job.
LEMMA DispatcherScore ==
    ASSUME DeliveryInv, JobShape, DispatcherStep
    PROVE  SameScore \/ ScoreTaken
<1> USE DEF ledger
<1>0. LedgerShape
  BY DEF DeliveryInv
<1>1. CASE UNCHANGED ledger
  BY <1>1 DEF SameScore
<1>2. CASE DrainClaims
  <2>1. PICK r : ClaimJob(r)
    BY <1>2 DEF DrainClaims
  <2>2. job # None
    BY <1>2 DEF DrainClaims, NextJobKind, ActiveJob
  <2> QED
    BY <1>0, <2>1, <2>2, JobKeepsScore
<1>3. CASE ResolveOrphanedRun
  <2>1. Holds(dsp.run) /\ job # None
    BY <1>3 DEF ResolveOrphanedRun, Holds
  <2>2. CompleteJob \/ (\E semantic \in BOOLEAN : DeferJob(semantic)) \/ FailJobTerminally
    BY <1>3 DEF ResolveOrphanedRun
  <2> QED
    BY <1>0, <2>1, <2>2, JobKeepsScore DEF ScoreTaken
<1>4. CASE StartThrows
  <2>1. job # None /\ DeferJob(FALSE)
    BY <1>4 DEF StartThrows, Holds
  <2> QED
    BY <1>0, <2>1, JobKeepsScore
<1>5. UNCHANGED ledger \/ DrainClaims \/ ResolveOrphanedRun \/ StartThrows
  BY DEF DispatcherStep, DispatcherDrains, RetryTimerFires, DrainIdles, DrainNotDue,
         DrainReconciles, ReadOrphanedRun, ReconciliationThrows, StartPersists,
         StartRequests
<1> QED
  BY <1>1, <1>2, <1>3, <1>4, <1>5

\* So does the end of a run.
LEMMA RunScore ==
    ASSUME DeliveryInv, JobShape, RunStep
    PROVE  SameScore \/ ScoreTaken
<1> USE DEF ledger
<1>0. LedgerShape
  BY DEF DeliveryInv
<1>1. PICK r \in RunIds :
          \/ SidecarCompletes(r) \/ SidecarFails(r) \/ SidecarExits(r)
          \/ EmitFailure(r) \/ PersistFailure(r)
          \/ CommitRun(r) \/ CommitThrows(r)
          \/ FinishRun(r, BundlePresent) \/ QuiesceRun(r)
          \/ CancelRun(r, BundlePresent)
  BY DEF RunStep
<1>2. \/ UNCHANGED ledger
      \/ /\ Holds(r)
         /\ \/ CompleteJob \/ FailJobTerminally
            \/ \E semantic \in BOOLEAN : DeferJob(semantic)
  <2>1. CASE FinishRun(r, BundlePresent)
    <3>1. JobAfterRun(r) \/ UNCHANGED ledger
      BY <2>1 DEF FinishRun
    <3>2. ASSUME NEW semantic, semantic = (ReportedClass(r) = "invalid-output")
          PROVE  semantic \in BOOLEAN
      BY <3>2
    <3> QED
      BY <3>1, <3>2 DEF JobAfterRun
  <2>2. CASE CancelRun(r, BundlePresent)
    BY <2>2 DEF CancelRun
  <2>3. CASE ~FinishRun(r, BundlePresent) /\ ~CancelRun(r, BundlePresent)
    BY <1>1, <2>3 DEF SidecarCompletes, SidecarFails, SidecarExits, EmitFailure,
         PersistFailure, CommitRun, CommitThrows, QuiesceRun
  <2> QED
    BY <2>1, <2>2, <2>3
<1>3. CASE UNCHANGED ledger
  BY <1>3 DEF SameScore
<1>4. CASE Holds(r) /\ CompleteJob
  BY <1>4 DEF ScoreTaken
<1>5. CASE Holds(r) /\ (FailJobTerminally \/ \E semantic \in BOOLEAN : DeferJob(semantic))
  BY <1>0, <1>5, JobKeepsScore DEF Holds
<1> QED
  BY <1>2, <1>3, <1>4, <1>5

\* The service adds at most the receipt of the window in hand, with the score of its
\* response or of its archive.
LEMMA DeliveryScore ==
    ASSUME DeliveryInv, ScoreInv, DeliveryStep
    PROVE  SameScore \/ MoreScore
<1> USE DEF ledger
<1>1. CASE \E s \in Scores : dlv.pc \in {"recover", "apply"} /\ Apply(dlv.w, s)
  <2>1. dlv.w \in Windows /\ receipts[dlv.w] = None
    BY <1>1 DEF DeliveryInv, InHand
  <2> QED
    BY <1>1, <2>1 DEF MoreScore
<1>2. CASE UNCHANGED <<receipts, score, job>>
  BY <1>2 DEF SameScore
<1>3. CASE RecoverArchived
  <2>1. dlv.pc = "recover"
    BY <1>3 DEF RecoverArchived, Draining
  <2>2. \/ UNCHANGED ledger
        \/ HasArchive(dlv.w, dlv.k) /\ Apply(dlv.w, archive[dlv.w].score)
    BY <1>3 DEF RecoverArchived
  <2>3. HasArchive(dlv.w, dlv.k) => archive[dlv.w].score \in Scores
    BY <2>1 DEF HasArchive, ScoreInv, ArchiveNumbers, DeliveryInv, InHand
  <2> QED
    BY <1>1, <1>2, <2>1, <2>2, <2>3
<1>4. CASE ApplyAnalysis
  <2>1. dlv.pc = "apply" /\ Apply(dlv.w, dlv.score) /\ dlv.score \in Scores
    BY <1>4 DEF ApplyAnalysis, Draining, ScoreInv, ArchiveNumbers
  <2> QED
    BY <1>1, <2>1
<1>5. CASE ~RecoverArchived /\ ~ApplyAnalysis
  <2>1. UNCHANGED <<receipts, score, job>>
    BY <1>5 DEF DeliveryStep, DropNotification, RunEnqueue, Enqueue, RetryTimerKicks,
       DrainStops, DeliverWindow, RecoverThrows, Throws, DeferWindow, MarkTerminal,
       SessionChanged, AnalyzeSucceeds, AnalyzeInvalid, AdvanceSemanticAttempt,
       AnalyzeThrows, ArchiveAnalysis, ArchiveThrows, AcknowledgeSource, DeleteOutbox,
       AcknowledgeThrows
  <2> QED
    BY <1>2, <2>1
<1> QED
  BY <1>3, <1>4, <1>5

\* Whatever happens, the receipts, the score and the job move together.
LEMMA ScoreStep ==
    ASSUME PipelineInv, ScoreInv, [Next]_vars
    PROVE  SameScore \/ MoreScore \/ ScoreTaken
<1> USE DEF ledger
<1>0. DeliveryInv /\ JobShape /\ LedgerShape
  BY DEF PipelineInv, RunInv, DeliveryInv
<1>1. CASE UNCHANGED <<receipts, score, job>>
  BY <1>1 DEF SameScore
<1>2. CASE Lifecycle
  <2>1. CASE StartBundle \/ FinishActivation
    BY <2>1 DEF StartBundle, FinishActivation, RecoverJobs, SameScore
  <2>2. CASE ~StartBundle /\ ~FinishActivation
    <3>1. UNCHANGED <<receipts, score, job>>
      BY <1>2, <2>2 DEF Lifecycle, RecoveryThrows, ListWindows, PersistListedWindow, Enqueue,
         StopBundle, StopDispatcher, ReleaseBundle
    <3> QED
      BY <1>1, <3>1
  <2> QED
    BY <2>1, <2>2
<1>3. CASE TimePasses /\ JobBackoffElapses
  BY <1>0, <1>3, JobKeepsScore DEF JobBackoffElapses
<1>4. CASE DeliveryStep \/ DispatcherStep \/ RunStep
  BY <1>0, <1>4, DeliveryScore, DispatcherScore, RunScore
<1>5. \/ UNCHANGED <<receipts, score, job>> \/ Lifecycle
      \/ TimePasses /\ JobBackoffElapses
      \/ DeliveryStep \/ DispatcherStep \/ RunStep
  BY DEF Next, vars, TimePasses, BackoffElapses, SealWindow, RefreshSession, SignOut, Crash,
     CleanupRun
<1> QED
  BY <1>1, <1>2, <1>3, <1>4, <1>5

\* The archive keeps the score it was given, and the service hands on the analyzer's.
LEMMA ArchiveNumbersNext ==
    ASSUME PipelineInv, CommitInv, ScoreInv, [Next]_vars
    PROVE  ArchiveNumbers'
<1> USE DEF delivery, encrypted
<1>0. /\ ArchiveShape /\ InHand /\ ServiceShape /\ ArchiveNumbers
  BY DEF PipelineInv, ArchiveInv, DeliveryInv, ScoreInv
<1>1. CASE UNCHANGED archive /\ (UNCHANGED dlv \/ dlv'.pc \notin {"archive", "apply"})
  BY <1>0, <1>1 DEF ArchiveNumbers
<1>2. CASE DeliveryStep
  <2>1. CASE ArchiveAnalysis
    <3>1. /\ dlv.pc = "archive" /\ dlv.w \in Windows /\ dlv.score \in Scores
          /\ dlv'.score = dlv.score
      BY <1>0, <2>1 DEF ArchiveAnalysis, Draining, GoTo, InHand, ArchiveNumbers, ServiceShape
    <3> DEFINE row == [sem |-> dlv.k, score |-> dlv.score, by |-> NoRun]
    <3>2. "score" \in DOMAIN row /\ row.score = dlv.score
      OBVIOUS
    <3>3. archive' = archive \/ archive' = [archive EXCEPT ![dlv.w] = row]
      BY <2>1 DEF ArchiveAnalysis, ArchiveEventStream
    <3> HIDE DEF row
    <3>4. \A w \in Windows : archive'[w] = archive[w] \/ archive'[w] = row
      BY <1>0, <3>1, <3>3 DEF ArchiveShape
    <3> QED
      BY <1>0, <3>1, <3>2, <3>4 DEF ArchiveNumbers
  <2>2. CASE AnalyzeSucceeds
    <3>1. UNCHANGED archive
      BY <2>2 DEF AnalyzeSucceeds
    <3>2. dlv'.pc \notin {"archive", "apply"} \/ dlv'.score \in Scores
      BY <1>0, <2>2 DEF AnalyzeSucceeds, EndDrain, NextInLoop, ServiceShape
    <3> QED
      BY <1>0, <3>1, <3>2 DEF ArchiveNumbers
  <2>3. CASE ~ArchiveAnalysis /\ ~AnalyzeSucceeds
    <3>1. UNCHANGED archive
      BY <1>2, <2>3 DEF DeliveryStep, DropNotification, RunEnqueue, RetryTimerKicks, DrainStops,
         DeliverWindow, RecoverArchived, RecoverThrows, SessionChanged, AnalyzeInvalid,
         AnalyzeThrows, ArchiveThrows, ApplyAnalysis, AcknowledgeSource, AcknowledgeThrows
    <3>2. CASE DropNotification \/ RunEnqueue
      BY <1>1, <3>1, <3>2 DEF DropNotification, RunEnqueue
    <3>3. CASE RetryTimerKicks
      <4>1. dlv'.pc = dlv.pc /\ dlv'.score = dlv.score
        BY <1>0, <3>3 DEF RetryTimerKicks, ServiceShape
      <4> QED
        BY <1>0, <3>1, <4>1 DEF ArchiveNumbers
    <3>4. CASE DeliverWindow \/ ApplyAnalysis
      <4>1. dlv'.pc \in {"ackApplied", "recover", "ack"}
        BY <1>0, <3>4 DEF DeliverWindow, ApplyAnalysis, ServiceShape
      <4> QED
        BY <1>1, <3>1, <4>1
    <3>5. CASE RecoverArchived
      <4>1. dlv'.pc \in {"analyze", "ackConsumed", "ack"}
        BY <1>0, <3>5 DEF RecoverArchived, GoTo, ServiceShape
      <4> QED
        BY <1>1, <3>1, <4>1
    <3>6. CASE Continue \/ EndDrain \/ EndDrainAndRetry
      <4>1. dlv'.pc = "idle"
        BY <1>0, <3>6 DEF Continue, EndDrain, EndDrainAndRetry, NextInLoop, ServiceShape
      <4> QED
        BY <1>1, <3>1, <4>1
    <3> QED
      BY <1>2, <2>3, <3>2, <3>3, <3>4, <3>5, <3>6 DEF DeliveryStep, DrainStops, RecoverThrows,
         SessionChanged, AnalyzeInvalid, AnalyzeThrows, ArchiveThrows, AcknowledgeSource,
         AcknowledgeThrows, Throws
  <2> QED
    BY <2>1, <2>2, <2>3
<1>3. CASE RunStep
  <2>1. UNCHANGED dlv
    BY <1>3 DEF RunStep
  <2>2. CASE UNCHANGED archive
    BY <1>1, <2>1, <2>2
  <2>3. ASSUME NEW r \in RunIds, CommitRun(r)
        PROVE  ArchiveNumbers'
    <3>1. ASSUME NEW w \in Windows, archive'[w] # None
          PROVE  "score" \in DOMAIN archive'[w] /\ archive'[w].score \in Scores
      <4>1. archive' = [v \in Windows |->
                         IF v \in DOMAIN live[r].input THEN [archive[v] EXCEPT !.by = r]
                         ELSE archive[v]]
        BY <2>3 DEF CommitRun, PublishCompletedRun
      <4>2. archive[w] # None
        BY <2>3, <3>1, CommitMarks
      <4>3. "score" \in DOMAIN archive[w] /\ archive[w].score \in Scores
        BY <1>0, <4>2 DEF ArchiveNumbers
      <4>4. archive'[w] = archive[w] \/ archive'[w] = [archive[w] EXCEPT !.by = r]
        BY <4>1
      <4> QED
        BY <4>3, <4>4
    <3> QED
      BY <1>0, <2>1, <3>1 DEF ArchiveNumbers
  <2> QED
    BY <1>3, <2>2, <2>3, RunStepMarks
<1>4. CASE \E r \in RunIds : CleanupRun(r)
  <2>1. PICK r \in RunIds : CleanupRun(r)
    BY <1>4
  <2>2. UNCHANGED dlv /\ \A w \in Windows : archive'[w] = archive[w] \/ archive'[w] = None
    BY <2>1 DEF CleanupRun, ExpireRun
  <2> QED
    BY <1>0, <2>2 DEF ArchiveNumbers
<1>5. CASE Lifecycle
  <2>1. UNCHANGED archive
    BY <1>5 DEF Lifecycle, StartBundle, RecoveryThrows, ListWindows, PersistListedWindow,
       FinishActivation, StopBundle, StopDispatcher, ReleaseBundle
  <2>2. dlv'.pc = dlv.pc /\ dlv'.score = dlv.score
    BY <1>0, <1>5 DEF Lifecycle, StartBundle, RecoveryThrows, ListWindows, PersistListedWindow,
       FinishActivation, StopBundle, StopDispatcher, ReleaseBundle, StopService, ServiceShape
  <2> QED
    BY <1>0, <2>1, <2>2 DEF ArchiveNumbers
<1>6. CASE Crash
  <2>1. UNCHANGED archive /\ dlv'.pc = "idle"
    BY <1>6 DEF Crash, StoppedService
  <2> QED
    BY <1>1, <2>1
<1>7. CASE DispatcherStep
  BY <1>1, <1>7, DispatcherStepMarks DEF DispatcherStep
<1>8. CASE \/ UNCHANGED vars \/ TimePasses \/ RefreshSession \/ SignOut
           \/ SealWindow(phase = "starting")
  BY <1>1, <1>8 DEF vars, TimePasses, RefreshSession, SignOut, SealWindow
<1> QED
  BY <1>2, <1>3, <1>4, <1>5, <1>6, <1>7, <1>8 DEF Next

\* Nothing is scored at the start.
LEMMA ScoreInvInit == Init => ScoreInv
<1> SUFFICES ASSUME Init PROVE ScoreInv
  OBVIOUS
<1>1. /\ receipts = [w \in Windows |-> None] /\ archive = [w \in Windows |-> None]
      /\ score = 0 /\ job = None /\ dlv.pc = "idle"
  BY DEF Init, LedgerInit, ArchiveInit, DeliveryInit, StoppedService
<1>2. Received = {}
  BY <1>1 DEF Received
<1>3. TotalScore(Received) = 0
  BY <1>2, ScoreInNone DEF TotalScore
<1> QED
  BY <1>1, <1>3 DEF ScoreInv, ReceiptNumbers, ArchiveNumbers, ScoreTotals

\* The invariant of the score holds in every behaviour.
LEMMA ScoreInvHolds == Spec => []ScoreInv
<1>1. PipelineInv /\ CommitInv /\ ScoreInv /\ [Next]_vars => ScoreInv'
  <2> SUFFICES ASSUME PipelineInv, CommitInv, ScoreInv, [Next]_vars PROVE ScoreInv'
    OBVIOUS
  <2>1. SameScore \/ MoreScore \/ ScoreTaken
    BY ScoreStep
  <2>2. ReceiptNumbers' /\ ScoreTotals'
    BY <2>1, SameScoreTotals, MoreScoreTotals, ScoreTakenTotals DEF PipelineInv, ScoreInv
  <2>3. ArchiveNumbers'
    BY ArchiveNumbersNext
  <2> QED
    BY <2>2, <2>3 DEF ScoreInv
<1> QED
  BY <1>1, ScoreInvInit, CommitInvHolds, PTL DEF Spec

\* materializeActivityAnalysisJob, apply and completeActivityAnalysisJob account for
\* every receipt: the accumulated score is the sum of the stored receipts, and a job
\* consumes exactly the scores of the receipts assigned to it, through every
\* interleaving of apply, phase two and recovery.
THEOREM ScoreIsReceiptsHolds == Spec => []ScoreIsReceipts
<1>1. PipelineInv /\ ScoreInv => ScoreIsReceipts
  BY DEF PipelineInv, DeliveryInv, JobIsReceived, ScoreInv, ScoreTotals, ScoreIsReceipts,
     Received
<1> QED
  BY <1>1, ScoreInvHolds, CommitInvHolds, PTL

----------------------------------------------------------------------------
(* The refinement *)

\* What the refinement mapping makes of the state.
Status == [w \in Windows |-> WindowStatus(w)]
Points == [w \in Windows |-> IF WindowStatus(w) = "scored" THEN receipts[w].score ELSE 0]

\* A step that seals, scores and consumes nothing.
QuietFeedback ==
    /\ UNCHANGED sealed /\ source' \subseteq source
    /\ \A w \in Windows :
         /\ receipts'[w] = receipts[w] \/ receipts'[w] = None
         /\ Consumed(w)' => Consumed(w)
         /\ Consumed(w) => Consumed(w)' \/ receipts'[w] = None

\* The sum of the points of the abstract specification.
LEMMA FeedbackSum ==
    ASSUME \A w \in Windows : Points[w] \in Nat
    PROVE  Feedback!MapThenSumSet(LAMBDA w : Points[w], Windows) = Weight(Points, Windows)
<1> DEFINE g == Points
<1>1. IsFiniteSet(Windows)
  BY WindowsFinite
<1>2. \A k : SumEq(k, g, Windows) <=>
         k = [s \in SUBSET Windows |->
            IF s = {} THEN 0 ELSE g[Pick(s)] + k[s \ {Pick(s)}]]
  BY DEF SumEq
<1>3. \A x \in Windows : g[x] \in Nat
  OBVIOUS
<1> HIDE DEF g
<1>4. (CHOOSE k : SumEq(k, g, Windows)) =
     (CHOOSE k : k = [s \in SUBSET Windows |->
            IF s = {} THEN 0 ELSE g[Pick(s)] + k[s \ {Pick(s)}]])
  BY <1>2
<1>5. (CHOOSE k : k = [s \in SUBSET Windows |->
            IF s = {} THEN 0 ELSE g[Pick(s)] + k[s \ {Pick(s)}]])[Windows] = Weight(g, Windows)
  BY <1>1, <1>3, <1>4, RecursionIsWeight
<1>6. Feedback!MapThenSumSet(LAMBDA w : g[w], Windows) = Weight(g, Windows)
  BY <1>5 DEF Feedback!MapThenSumSet, Feedback!MapThenFoldSet, Pick
<1> QED
  BY <1>6 DEF g

\* Such a step leaves every window as it is in the abstract specification: what it
\* releases in Reflection is durable elsewhere, and a receipt or a consumption that
\* disappears was that of a consumed window.
LEMMA QuietStatus ==
    ASSUME PipelineInv, [Next]_vars, QuietFeedback
    PROVE  UNCHANGED <<Status, Points>>
<1>1. \A w \in source \ source' : receipts'[w] # None \/ Consumed(w)
  BY SourceOutlivesReceiptStep
<1>2. \A w \in Windows : receipts[w] # None /\ receipts'[w] = None => Consumed(w)
  BY ScoreOnlyConsumedStep DEF Received
<1>3. \A w \in Windows : Consumed(w) => w \notin source
  BY DEF PipelineInv, ArchiveInv, ConsumedIsReleased
<1>4. ASSUME NEW w \in Windows
      PROVE  /\ WindowStatus(w)' = WindowStatus(w)
             /\ WindowStatus(w) = "scored" => receipts'[w] = receipts[w]
  <2>0. UNCHANGED sealed /\ source' \subseteq source
    BY DEF QuietFeedback
  <2>1. CASE Consumed(w)
    <3>1. Consumed(w)' \/ (receipts'[w] = None /\ w \notin source')
      BY <1>3, <2>0, <2>1 DEF QuietFeedback
    <3> QED
      BY <2>0, <2>1, <3>1 DEF WindowStatus
  <2>2. CASE ~Consumed(w)
    <3>1. ~Consumed(w)' /\ receipts'[w] = receipts[w]
      BY <1>2, <2>2 DEF QuietFeedback
    <3>2. receipts[w] = None => (w \in source' <=> w \in source)
      BY <1>1, <2>0, <2>2, <3>1
    <3> QED
      BY <2>0, <2>2, <3>1, <3>2 DEF WindowStatus
  <2> QED
    BY <2>1, <2>2
<1>5. Status' = Status
  BY <1>4 DEF Status
<1>6. Points' = Points
  <2>1. \A w \in Windows :
          (IF WindowStatus(w) = "scored" THEN receipts[w].score ELSE 0)'
            = IF WindowStatus(w) = "scored" THEN receipts[w].score ELSE 0
    BY <1>4
  <2> QED
    BY <2>1 DEF Points
<1> QED
  BY <1>5, <1>6

\* A window is sealed.
LEMMA SealFeedback ==
    ASSUME PipelineInv, SealWindow(phase = "starting")
    PROVE  Feedback!Seal(sealed + 1)
<1> USE DEF ledger, encrypted
<1>0. PICK v : v = sealed + 1
  OBVIOUS
<1>1. /\ sealed \in Nat /\ sealed < NumWindows
      /\ sealed' = v /\ source' = source \cup {v}
      /\ UNCHANGED <<receipts, archive>>
  BY <1>0 DEF PipelineInv, DeliveryInv, SealedOnly, SealWindow
<1>2. v \in Windows /\ ~(v <= sealed) /\ v > sealed /\ ~(v > sealed')
  BY <1>0, <1>1, StoreConstants DEF Windows
<1>3. receipts[v] = None /\ archive[v] = None
  BY <1>2 DEF PipelineInv, DeliveryInv, SealedOnly, ArchiveInv, ArchiveSealed, Sealed
<1>4. \A w \in Windows : w # v => (w > sealed' <=> w > sealed)
  BY <1>0, <1>1 DEF Windows
<1>5. WindowStatus(v) = "unsealed" /\ WindowStatus(v)' = "sealed"
  BY <1>1, <1>2, <1>3 DEF WindowStatus, Consumed
<1>6. \A w \in Windows : w # v => WindowStatus(w)' = WindowStatus(w)
  BY <1>1, <1>4 DEF WindowStatus, Consumed
<1>7. Status' = [Status EXCEPT ![v] = "sealed"]
  BY <1>2, <1>5, <1>6 DEF Status
<1>8. Points' = Points
  <2>1. \A w \in Windows :
          (IF WindowStatus(w) = "scored" THEN receipts[w].score ELSE 0)'
            = IF WindowStatus(w) = "scored" THEN receipts[w].score ELSE 0
    BY <1>1, <1>5, <1>6
  <2> QED
    BY <2>1 DEF Points
<1>9. Status[v] = "unsealed"
  BY <1>2, <1>5 DEF Status
<1> QED
  BY <1>0, <1>7, <1>8, <1>9 DEF Feedback!Seal, Status, Points

\* A window is scored.
LEMMA ApplyFeedback ==
    ASSUME PipelineInv, CommitInv, OutboxInv, dlv.pc \in {"recover", "apply"},
           ~Consumed(dlv.w), NEW s \in Scores, Apply(dlv.w, s),
           UNCHANGED <<source, sealed, archive>>
    PROVE  dlv.w \in Windows /\ Feedback!Score(dlv.w, s)
<1>0. PICK v : v = dlv.w
  OBVIOUS
<1>1. /\ v \in Windows /\ outbox[v] # None /\ receipts[v] = None /\ Sealed(v)
      /\ LedgerShape
  BY <1>0 DEF PipelineInv, DeliveryInv, InHand, SealedOnly
<1>2. v \in source /\ ~Consumed(v)
  BY <1>0, <1>1 DEF OutboxInv, QueuedHasSource
<1>3. ~(v > sealed)
  <2>1. sealed \in Nat /\ v \in Nat /\ v <= sealed
    BY <1>1, WindowsNat DEF PipelineInv, DeliveryInv, SealedOnly, Sealed
  <2> QED
    BY <2>1
<1>4. /\ receipts'[v] # None /\ receipts'[v].score = s
      /\ \A w \in Windows : w # v => receipts'[w] = receipts[w]
  <2> DEFINE row == [sem |-> outbox[v].sem, score |-> s,
                     at |-> Max({receipts[w].at : w \in Received} \cup {0}) + 1]
  <2>1. receipts' = [receipts EXCEPT ![v] = row]
    BY <1>0, <1>1 DEF Apply
  <2>2. row # None /\ row.score = s
    BY DEF None
  <2> HIDE DEF row
  <2> QED
    BY <1>1, <2>1, <2>2 DEF LedgerShape
<1>5. WindowStatus(v) = "sealed" /\ WindowStatus(v)' = "scored"
  BY <1>1, <1>2, <1>3, <1>4 DEF WindowStatus, Consumed
<1>6. \A w \in Windows : w # v => WindowStatus(w)' = WindowStatus(w)
  BY <1>4 DEF WindowStatus, Consumed
<1>7. Status' = [Status EXCEPT ![v] = "scored"]
  BY <1>1, <1>5, <1>6 DEF Status
<1>8. Points' = [Points EXCEPT ![v] = s]
  <2>1. \A w \in Windows :
          (IF WindowStatus(w) = "scored" THEN receipts[w].score ELSE 0)'
            = IF w = v THEN s
              ELSE IF WindowStatus(w) = "scored" THEN receipts[w].score ELSE 0
    BY <1>4, <1>5, <1>6
  <2> QED
    BY <1>1, <2>1 DEF Points
<1>9. Status[v] = "sealed"
  BY <1>1, <1>5 DEF Status
<1> QED
  BY <1>0, <1>1, <1>7, <1>8, <1>9 DEF Feedback!Score, Status, Points

\* Before a run commits, every receipt is scored and waits for its feedback.
LEMMA ReceivedIsScored ==
    ASSUME PipelineInv, CommitInv, NEW r \in RunIds, Holds(r), ~Published(r),
           NEW w \in Received
    PROVE  w \in Windows /\ ~Consumed(w) /\ ~(w > sealed) /\ WindowStatus(w) = "scored"
<1>1. w \in Windows /\ receipts[w] # None
  BY DEF Received
<1>2. ~Consumed(w)
  BY <1>1, ConsumedByHolder, HolderUnique
<1>3. ~(w > sealed)
  <2>1. sealed \in Nat /\ w \in Nat /\ w <= sealed
    BY <1>1, WindowsNat DEF PipelineInv, DeliveryInv, SealedOnly, Sealed
  <2> QED
    BY <2>1
<1> QED
  BY <1>1, <1>2, <1>3 DEF WindowStatus

\* So the points are the accumulated score.
LEMMA PointsAreScore ==
    ASSUME PipelineInv, CommitInv, ScoreInv, NEW r \in RunIds, Holds(r), ~Published(r)
    PROVE  Feedback!MapThenSumSet(LAMBDA w : Points[w], Windows) = score
<1>1. Received \in SUBSET Windows /\ Windows \ Received \in SUBSET Windows
  BY DEF Received
<1>2. \A w \in Received : receipts[w].score \in Nat /\ Points[w] = receipts[w].score
  <2>1. \A w \in Received : receipts[w].score \in Nat
    BY StoreConstants DEF ScoreInv, ReceiptNumbers, Received
  <2> QED
    BY <1>1, <2>1, ReceivedIsScored DEF Points
<1>3. \A w \in Windows \ Received : Points[w] = 0
  BY DEF Points, WindowStatus, Received
<1> DEFINE g == [w \in Received |-> receipts[w].score]
<1>4. score = Weight(g, Received)
  <2>1. ScoreIn(receipts, Received) = Weight(g, Received)
    BY <1>1, <1>2, ScoreInWeight
  <2> QED
    BY <2>1 DEF ScoreInv, ScoreTotals, TotalScore
<1>5. \A w \in Received : g[w] = Points[w]
  BY <1>2
<1> HIDE DEF g
<1>6. Weight(g, Received) = Weight(Points, Received)
  BY <1>5, WeightSame
<1>7. Weight(Points, Windows \ Received) = 0
  BY <1>3, WeightZero
<1>8. /\ Weight(Points, Received) \in Nat
      /\ Weight(Points, Received \cup (Windows \ Received))
           = Weight(Points, Received) + Weight(Points, Windows \ Received)
  <2>1. /\ IsFiniteSet(Received) /\ IsFiniteSet(Windows \ Received)
        /\ Received \cap (Windows \ Received) = {}
    BY <1>1, WindowsFinite
  <2>2. \A w \in Received \cup (Windows \ Received) : Points[w] \in Nat
    BY <1>2, <1>3
  <2> QED
    BY <2>1, <2>2, WeightUnion
<1>9. Received \cup (Windows \ Received) = Windows
  BY <1>1
<1>10. Weight(Points, Windows) = score
  BY <1>4, <1>6, <1>7, <1>8, <1>9
<1>11. \A w \in Windows : Points[w] \in Nat
  BY <1>2, <1>3
<1> QED
  BY <1>10, <1>11, FeedbackSum

\* The commit of a run consumes the windows of its job, all of them scored.
LEMMA CommitFeedback ==
    ASSUME PipelineInv, CommitInv, ScoreInv, NEW r \in RunIds, CommitRun(r),
           UNCHANGED delivery
    PROVE  \E S \in SUBSET Windows : S # {} /\ Feedback!Consume(S)
<1> USE DEF ledger, delivery
<1>1. /\ Holds(r) /\ DOMAIN live[r].input = job.windows /\ ~Published(r) /\ job # None
      /\ UNCHANGED <<source, sealed, receipts>>
  BY DEF CommitRun, InStage, PipelineInv, ArchiveInv, RunInputs, AtWork, PublishedOnce, Holds
<1>12. PICK S : S = job.windows
  OBVIOUS
<1>2. S \in SUBSET Received /\ S \in SUBSET Windows /\ S # {} /\ score >= ScoreThreshold
  BY <1>1, <1>12 DEF PipelineInv, DeliveryInv, JobIsReceived, Received, ScoreInv, ScoreTotals
<1>3. /\ \A w \in Windows \ S : archive'[w] = archive[w]
      /\ \A w \in S : archive'[w] # None /\ archive'[w].by = r
  BY <1>1, <1>2, <1>12, CommitMarks
<1>4. \A w \in S : WindowStatus(w) = "scored" /\ ~(w > sealed)
  BY <1>1, <1>2, ReceivedIsScored
<1>5. \A w \in S : WindowStatus(w)' = "consumed"
  <2>1. r # NoRun
    BY WindowsNat DEF NoRun
  <2> QED
    BY <1>1, <1>3, <1>4, <2>1 DEF WindowStatus, Consumed
<1>6. \A w \in Windows \ S : WindowStatus(w)' = WindowStatus(w)
  BY <1>1, <1>3 DEF WindowStatus, Consumed
<1>7. Status' = [w \in Windows |-> IF w \in S THEN "consumed" ELSE Status[w]]
  BY <1>2, <1>5, <1>6 DEF Status
<1>8. Points' = [w \in Windows |-> IF w \in S THEN 0 ELSE Points[w]]
  <2>1. \A w \in Windows :
          (IF WindowStatus(w) = "scored" THEN receipts[w].score ELSE 0)'
            = IF w \in S THEN 0
              ELSE IF WindowStatus(w) = "scored" THEN receipts[w].score ELSE 0
    BY <1>1, <1>5, <1>6
  <2> QED
    BY <2>1 DEF Points
<1>9. \A w \in S : Status[w] = "scored"
  BY <1>2, <1>4 DEF Status
<1>10. Feedback!MapThenSumSet(LAMBDA w : Points[w], Windows) >= ScoreThreshold
  BY <1>1, <1>2, PointsAreScore
<1>11. Feedback!Consume(S)
  BY <1>7, <1>8, <1>9, <1>10 DEF Feedback!Consume, Status, Points
<1> QED
  BY <1>2, <1>11

\* A completed job only loses receipts.
LEMMA ReceiptsOnlyGo ==
    ASSUME SameScore \/ ScoreTaken
    PROVE  \A w \in Windows : receipts'[w] = receipts[w] \/ receipts'[w] = None
BY DEF SameScore, ScoreTaken, CompleteJob

\* The service scores the window in hand or is quiet.
LEMMA DeliveryFeedback ==
    ASSUME PipelineInv, CommitInv, ScoreInv, DeliveryStep
    PROVE  \/ QuietFeedback
           \/ /\ dlv.pc \in {"recover", "apply"} /\ ~Consumed(dlv.w)
              /\ \E s \in Scores : Apply(dlv.w, s)
              /\ UNCHANGED <<source, sealed, archive>>
<1> USE DEF ledger, encrypted
<1>1. CASE /\ UNCHANGED <<receipts, archive, sealed>>
           /\ source' = source \/ source' = source \ {dlv.w}
  BY <1>1 DEF QuietFeedback, Consumed
<1>2. CASE RecoverArchived
  <2>1. /\ dlv.pc = "recover" /\ UNCHANGED <<source, sealed, archive>>
        /\ \/ UNCHANGED ledger
           \/ /\ HasArchive(dlv.w, dlv.k) /\ ~Consumed(dlv.w)
              /\ Apply(dlv.w, archive[dlv.w].score)
    BY <1>2 DEF RecoverArchived, Draining
  <2>2. HasArchive(dlv.w, dlv.k) => archive[dlv.w].score \in Scores
    BY <2>1 DEF HasArchive, ScoreInv, ArchiveNumbers, PipelineInv, DeliveryInv, InHand
  <2> QED
    BY <1>1, <2>1, <2>2
<1>3. CASE ApplyAnalysis
  <2>1. /\ dlv.pc = "apply" /\ Apply(dlv.w, dlv.score) /\ dlv.score \in Scores
        /\ UNCHANGED <<source, sealed, archive>>
    BY <1>3 DEF ApplyAnalysis, Draining, ScoreInv, ArchiveNumbers
  <2>2. ~Consumed(dlv.w)
    BY <2>1 DEF CommitInv, InHandArchived, Consumed
  <2> QED
    BY <2>1, <2>2
<1>4. CASE ArchiveAnalysis
  <2>1. /\ UNCHANGED <<receipts, source, sealed>> /\ dlv.w \in Windows
        /\ \/ archive' = archive
           \/ /\ archive[dlv.w] = None
              /\ archive' = [archive EXCEPT ![dlv.w] =
                               [sem |-> dlv.k, score |-> dlv.score, by |-> NoRun]]
    BY <1>4 DEF ArchiveAnalysis, ArchiveEventStream, Draining, PipelineInv, DeliveryInv, InHand
  <2>2. ArchiveShape
    BY DEF PipelineInv, ArchiveInv
  <2>3. \A w \in Windows : archive'[w] = archive[w]
                           \/ (archive[w] = None /\ archive'[w].by = NoRun)
    BY <2>1, <2>2 DEF ArchiveShape
  <2>4. \A w \in Windows : Consumed(w)' <=> Consumed(w)
    BY <2>3 DEF Consumed
  <2> QED
    BY <2>1, <2>4 DEF QuietFeedback
<1>5. CASE ~RecoverArchived /\ ~ApplyAnalysis /\ ~ArchiveAnalysis
  <2>1. /\ UNCHANGED <<receipts, archive, sealed>>
        /\ source' = source \/ source' = source \ {dlv.w}
    BY <1>5 DEF DeliveryStep, DropNotification, RunEnqueue, Enqueue, RetryTimerKicks,
       DrainStops, DeliverWindow, RecoverThrows, Throws, DeferWindow, MarkTerminal,
       SessionChanged, AnalyzeSucceeds, AnalyzeInvalid, AdvanceSemanticAttempt,
       AnalyzeThrows, ArchiveThrows, AcknowledgeSource, DeleteOutbox, AcknowledgeThrows
  <2> QED
    BY <1>1, <2>1
<1> QED
  BY <1>2, <1>3, <1>4, <1>5

\* Retention takes only what a run has consumed, and no receipt waits for that run.
LEMMA CleanupFeedback ==
    ASSUME PipelineInv, CommitInv, NEW r \in RunIds, CleanupRun(r)
    PROVE  QuietFeedback
<1> USE DEF ledger, delivery
<1>1. /\ UNCHANGED <<receipts, source, sealed>> /\ ~Protected(r)
      /\ \A w \in Windows : archive'[w] = archive[w] \/ (archive'[w] = None /\ ConsumedBy(w, r))
  BY DEF CleanupRun, ExpireRun, ConsumedBy
<1>2. ~Holds(r)
  BY <1>1 DEF Protected, Holds
<1>3. \A w \in Windows : archive'[w] # archive[w] => archive'[w] = None /\ receipts'[w] = None
  BY <1>1, <1>2 DEF CommitInv, ConsumedIsHeld
<1> QED
  BY <1>1, <1>3 DEF QuietFeedback, Consumed

\* The steps of the dispatcher and of the runs other than a commit are quiet.
LEMMA JobsFeedback ==
    ASSUME PipelineInv, DispatcherStep \/ RunStep
    PROVE  QuietFeedback \/ \E r \in RunIds : CommitRun(r) /\ UNCHANGED delivery
<1>1. UNCHANGED delivery /\ DeliveryInv /\ JobShape
  BY DEF DispatcherStep, RunStep, PipelineInv, RunInv
<1>2. \A w \in Windows : receipts'[w] = receipts[w] \/ receipts'[w] = None
  BY <1>1, DispatcherScore, RunScore, ReceiptsOnlyGo
<1>3. UNCHANGED archive => QuietFeedback
  BY <1>1, <1>2 DEF QuietFeedback, Consumed, delivery
<1> QED
  BY <1>1, <1>3, DispatcherStepMarks, RunStepMarks

\* Every step of the pipeline seals, scores, consumes or is quiet.
LEMMA FeedbackSteps ==
    ASSUME PipelineInv, CommitInv, ScoreInv, [Next]_vars
    PROVE  \/ QuietFeedback
           \/ SealWindow(phase = "starting")
           \/ /\ dlv.pc \in {"recover", "apply"} /\ ~Consumed(dlv.w)
              /\ \E s \in Scores : Apply(dlv.w, s)
              /\ UNCHANGED <<source, sealed, archive>>
           \/ \E r \in RunIds : CommitRun(r) /\ UNCHANGED delivery
<1> USE DEF ledger, encrypted, delivery
<1>1. CASE UNCHANGED <<receipts, archive, sealed>> /\ source' \subseteq source
  BY <1>1 DEF QuietFeedback, Consumed
<1>2. CASE Lifecycle
  <2>1. UNCHANGED <<receipts, archive, source, sealed>>
    BY <1>2 DEF Lifecycle, StartBundle, RecoverJobs, RecoveryThrows, ListWindows,
       PersistListedWindow, Enqueue, FinishActivation, StopBundle, StopDispatcher,
       ReleaseBundle
  <2> QED
    BY <1>1, <2>1
<1>3. CASE DeliveryStep
  BY <1>3, DeliveryFeedback
<1>4. CASE DispatcherStep \/ RunStep
  BY <1>4, JobsFeedback
<1>5. CASE \/ UNCHANGED vars \/ TimePasses \/ RefreshSession \/ SignOut \/ Crash
  <2>1. UNCHANGED <<receipts, archive, sealed>> /\ source' \subseteq source
    BY <1>5 DEF vars, TimePasses, JobBackoffElapses, BackoffElapses, RefreshSession, SignOut,
       Crash
  <2> QED
    BY <1>1, <2>1
<1>6. CASE \E r \in RunIds : CleanupRun(r)
  BY <1>6, CleanupFeedback
<1> HIDE DEF ledger, encrypted, delivery
<1> QED
  BY <1>2, <1>3, <1>4, <1>5, <1>6 DEF Next

\* Every step is one of ActivityFeedback, or stutters there.
LEMMA StepIsFeedback ==
    ASSUME PipelineInv, CommitInv, OutboxInv, ScoreInv, [Next]_vars
    PROVE  Feedback!Next \/ UNCHANGED <<Status, Points>>
<1>1. CASE QuietFeedback
  BY <1>1, QuietStatus
<1>2. CASE SealWindow(phase = "starting")
  <2>1. Feedback!Seal(sealed + 1)
    BY <1>2, SealFeedback
  <2>2. sealed + 1 \in Windows
    BY <1>2, StoreConstants DEF SealWindow, PipelineInv, DeliveryInv, SealedOnly, Windows
  <2> QED
    BY <2>1, <2>2 DEF Feedback!Next
<1>3. CASE /\ dlv.pc \in {"recover", "apply"} /\ ~Consumed(dlv.w)
           /\ \E s \in Scores : Apply(dlv.w, s)
           /\ UNCHANGED <<source, sealed, archive>>
  <2>1. PICK s \in Scores : Apply(dlv.w, s)
    BY <1>3
  <2>2. dlv.w \in Windows /\ Feedback!Score(dlv.w, s)
    BY <1>3, <2>1, ApplyFeedback
  <2> QED
    BY <2>2 DEF Feedback!Next
<1>4. CASE \E r \in RunIds : CommitRun(r) /\ UNCHANGED delivery
  <2>1. \E S \in SUBSET Windows : S # {} /\ Feedback!Consume(S)
    BY <1>4, CommitFeedback
  <2> QED
    BY <2>1, Zenon DEF Feedback!Next
<1> QED
  BY <1>1, <1>2, <1>3, <1>4, FeedbackSteps

\* The pipeline implements ActivityFeedback: through crashes, session changes,
\* retries and retention each window is scored once and consumed once, by a
\* single commit (completeProactiveFeedbackRun), and only when the unused scores
\* have reached the threshold.
THEOREM PipelineImplementsFeedback == Spec => FeedbackSpec
<1>1. Init => Feedback!Init
  <2> SUFFICES ASSUME Init PROVE Feedback!Init
    OBVIOUS
  <2>1. sealed = 0
    BY DEF Init, DeliveryInit
  <2>2. \A w \in Windows : WindowStatus(w) = "unsealed"
    BY <2>1 DEF WindowStatus, Windows
  <2> QED
    BY <2>2 DEF Feedback!Init
<1>2. PipelineInv /\ CommitInv /\ OutboxInv /\ ScoreInv /\ [Next]_vars
        => Feedback!Next \/ UNCHANGED <<Status, Points>>
  BY StepIsFeedback
<1>3. PipelineInv /\ CommitInv /\ OutboxInv /\ ScoreInv /\ [Next]_vars
        => [Feedback!Next]_<<[w \in Windows |-> WindowStatus(w)],
                             [w \in Windows |->
                                IF WindowStatus(w) = "scored" THEN receipts[w].score ELSE 0]>>
  BY <1>2 DEF Status, Points
<1> QED
  BY <1>1, <1>3, CommitInvHolds, OutboxInvHolds, ScoreInvHolds, PTL
  DEF Spec, FeedbackSpec, Feedback!Spec
=============================================================================
