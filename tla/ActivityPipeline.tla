--------------------------- MODULE ActivityPipeline ---------------------------
(***************************************************************************)
(* The activity pipeline of one account: Reflection seals windows, the     *)
(* delivery service has each analysed and scored, and the dispatcher hands *)
(* the accumulated receipts to an Agent run. The bundle of service,        *)
(* dispatcher and store is started and stopped by                          *)
(* ActivityWindowDeliveryLifecycle in the order src/bun/index.ts gives it. *)
(*                                                                         *)
(* The session changes in two ways. A sign-out (or expiry) invalidates the *)
(* session at once, then stops the bundle and cancels the account's runs.  *)
(* A token refresh revokes the owner, stops the bundle and quiesces the    *)
(* open runs while the old session is still in place, then replaces it.    *)
(* The process may crash between any two steps.                            *)
(***************************************************************************)
EXTENDS ActivityWindowDelivery

VARIABLES
    phase,    \* of the bundle's lifecycle
    listed    \* windows listed by start() and not yet persisted

vars == <<ledger, encrypted, dispatch, delivery, phase, listed>>

Phases == {"down", "recovering", "starting", "up", "stopDelivery", "stopDispatch"}

TypeOK ==
    /\ LedgerTypeOK /\ ArchiveTypeOK /\ DispatchTypeOK /\ DeliveryTypeOK
    /\ phase \in Phases
    /\ listed \subseteq Windows

Init ==
    /\ LedgerInit /\ ArchiveInit /\ DispatchInit /\ DeliveryInit
    /\ phase = "down" /\ listed = {}

BundlePresent == phase # "down"

----------------------------------------------------------------------------
(* Lifecycle of the bundle *)

MarkOld == [r \in RunIds |-> IF live[r] = None THEN None
                              ELSE [live[r] EXCEPT !.old = TRUE]]

\* The barrier before a session is activated: sign-out has cancelled every run,
\* a refresh has quiesced the open ones.
BarrierPassed ==
    \A r \in RunIds :
        live[r] # None => auth # "out" /\ live[r].stage \notin OpenStages

\* startActivityWindowDelivery under the session just activated, whose id a
\* refresh may have replaced; then startAndRecover up to its first await.
StartBundle ==
    /\ phase = "down" /\ notify = NoWindow
    /\ BarrierPassed
    /\ RecoverJobs
    /\ dsp' = IF NextJobKind = "running" THEN Reconciling(NewDispatcher)
              ELSE NewDispatcher
    /\ live' \in {live, IF auth = "refreshing" THEN MarkOld ELSE live}
    /\ current' = TRUE /\ auth' = "in"
    /\ phase' = "recovering"
    /\ UNCHANGED <<encrypted, used, delivery, listed>>

\* A failed recovery fails the start, which releases the bundle.
RecoveryThrows ==
    /\ phase = "recovering"
    /\ dsp.pc \in {"reconcile", "resolve"}
    /\ \/ dsp.pc = "reconcile" /\ ~SignedIn /\ UNCHANGED used
       \/ Fault
    /\ dsp' = Drained(dsp)
    /\ current' = FALSE
    /\ phase' = "stopDelivery"
    /\ UNCHANGED <<ledger, encrypted, live, auth, delivery, listed>>

\* delivery.start: the windows attributed to the account are listed.
ListWindows ==
    /\ phase = "recovering" /\ dsp.pc = "idle"
    /\ IF current
       THEN /\ phase' = "starting" /\ listed' = source
            /\ dlv' = [dlv EXCEPT !.on = TRUE]
       ELSE phase' = "stopDelivery" /\ UNCHANGED <<listed, dlv>>
    /\ UNCHANGED <<ledger, encrypted, dispatch, source, sealed, notify, tail>>

PersistListedWindow ==
    /\ phase = "starting"
    /\ \E w \in listed : /\ \A v \in listed : w <= v
                         /\ Enqueue(w)
                         /\ listed' = listed \ {w}
    /\ UNCHANGED <<encrypted, dispatch, delivery, phase>>

StopService == [dlv EXCEPT !.on = FALSE, !.timer = FALSE]

\* The end of delivery.start, and dispatcher.start unless the attempt is stale.
FinishActivation ==
    /\ phase = "starting" /\ listed = {}
    /\ RecoverJobs
    /\ tail' = AfterActivation
    /\ IF current
       THEN /\ phase' = "up" /\ UNCHANGED dlv
            /\ dsp' = Woken([dsp EXCEPT !.on = TRUE])
       ELSE phase' = "stopDelivery" /\ dlv' = StopService /\ UNCHANGED dsp
    /\ UNCHANGED <<encrypted, live, session, used, source, sealed, notify, listed>>

\* A token refresh revokes the owner, which makes the bundle stale.
RefreshSession ==
    /\ auth = "in" /\ used.rotations < MaxRotations
    /\ used' = [used EXCEPT !.rotations = @ + 1]
    /\ current' = FALSE /\ auth' = "refreshing"
    /\ UNCHANGED <<ledger, encrypted, live, dsp, delivery, phase, listed>>

\* Sign-out and expiry drop the session at once: the bundle and every run of
\* the coordinator become stale together.
SignOut ==
    /\ auth # "out" /\ used.rotations < MaxRotations
    /\ used' = [used EXCEPT !.rotations = @ + 1]
    /\ current' = FALSE /\ auth' = "out"
    /\ live' = MarkOld
    /\ UNCHANGED <<ledger, encrypted, dsp, delivery, phase, listed>>

\* lifecycle.stop, and stopActivityWindowDeliveryResources in its order: the
\* service stops and its queue drains, then the dispatcher, then the store.
StopBundle ==
    /\ phase = "up" /\ ~current
    /\ phase' = "stopDelivery" /\ dlv' = StopService
    /\ UNCHANGED <<ledger, encrypted, dispatch, source, sealed, notify, tail, listed>>

StopDispatcher ==
    /\ phase = "stopDelivery" /\ tail = <<>>
    /\ phase' = "stopDispatch"
    /\ dsp' = [dsp EXCEPT !.on = FALSE, !.wake = FALSE, !.timer = FALSE]
    /\ UNCHANGED <<ledger, encrypted, live, session, used, delivery, listed>>

ReleaseBundle ==
    /\ phase = "stopDispatch" /\ dsp.pc = "idle"
    /\ phase' = "down"
    /\ dsp' = NewDispatcher
    /\ UNCHANGED <<ledger, encrypted, live, session, used, delivery, listed>>

----------------------------------------------------------------------------
(* Crash, retention, time *)

\* The process dies: only the three databases survive. The source may already
\* be acknowledged when the outbox row still waits for its deletion.
Crash ==
    /\ used.crashes < MaxCrashes
    /\ used' = [used EXCEPT !.crashes = @ + 1]
    /\ source' \in {source, IF Acknowledging /\ current THEN source \ {dlv.w} ELSE source}
    /\ live' = [r \in RunIds |-> None]
    /\ dsp' = NewDispatcher /\ current' = FALSE
    /\ notify' = NoWindow /\ tail' = <<>> /\ dlv' = StoppedService
    /\ phase' = "down" /\ auth' = "out" /\ listed' = {}
    /\ UNCHANGED <<ledger, encrypted, sealed>>

\* Mutant: retention treats every run alike.
Protected_None(r) == FALSE

\* phaseTwoPendingRunIds: the run of a running job is exempt from retention.
Protected(r) == job # None /\ job.status = "running" /\ job.run = r

\* cleanupAccount, for one expired run. Retention is counted in days, so the
\* run no longer does anything and nothing of its windows is on its way.
CleanupRun(r) ==
    /\ runs[r] # None /\ ~Protected(r)
    /\ live[r] # None => live[r].stage \in {"starting", "leaked"}
    /\ r # dsp.run
    /\ \A w \in DOMAIN runs[r].input : outbox[w] = None /\ notify # w
    /\ ExpireRun(r)
    /\ UNCHANGED <<ledger, dispatch, delivery, phase, listed>>

Lifecycle ==
    \/ StartBundle \/ RecoveryThrows \/ ListWindows \/ PersistListedWindow
    \/ FinishActivation \/ StopBundle \/ StopDispatcher \/ ReleaseBundle

DeliveryStep ==
    /\ \/ DropNotification \/ RunEnqueue \/ RetryTimerKicks
       \/ DrainStops \/ DeliverWindow
       \/ RecoverArchived \/ RecoverThrows \/ SessionChanged
       \/ AnalyzeSucceeds \/ AnalyzeInvalid \/ AnalyzeThrows
       \/ ArchiveAnalysis \/ ArchiveThrows \/ ApplyAnalysis
       \/ AcknowledgeSource \/ AcknowledgeThrows
    /\ UNCHANGED <<phase, listed>>

\* A drain of the dispatcher is a task of its own. The service's step from the
\* receipt to its acknowledgement awaits nothing but synchronous SQLite calls,
\* so no other task runs in between.
DispatcherDrains ==
    /\ dlv.pc # "ack"
    /\ DrainIdles \/ DrainNotDue \/ DrainReconciles \/ DrainClaims

DispatcherStep ==
    /\ \/ RetryTimerFires \/ DispatcherDrains
       \/ ReadOrphanedRun
       \/ phase # "recovering" /\ ReconciliationThrows
       \/ ResolveOrphanedRun
       \/ StartPersists \/ StartRequests \/ StartThrows
    /\ UNCHANGED <<delivery, phase, listed>>

RunStep ==
    /\ \E r \in RunIds :
         \/ SidecarCompletes(r) \/ SidecarFails(r) \/ SidecarExits(r)
         \/ EmitFailure(r) \/ PersistFailure(r)
         \/ CommitRun(r) \/ CommitThrows(r)
         \/ FinishRun(r, BundlePresent)
         \/ auth = "refreshing" /\ ~BundlePresent /\ QuiesceRun(r)
         \/ auth = "out" /\ CancelRun(r, BundlePresent)
    /\ UNCHANGED <<delivery, phase, listed>>

TimePasses ==
    /\ JobBackoffElapses \/ \E w \in Windows : BackoffElapses(w)
    /\ UNCHANGED <<encrypted, dispatch, delivery, phase, listed>>

Next ==
    \/ SealWindow(phase = "starting") /\ UNCHANGED <<phase, listed>>
    \/ Lifecycle \/ DeliveryStep \/ DispatcherStep \/ RunStep
    \/ TimePasses
    \/ RefreshSession \/ SignOut \/ Crash
    \/ \E r \in RunIds : CleanupRun(r)

Spec == Init /\ [][Next]_vars

\* Timers fire, started work goes on, an installed application is started again
\* after a crash, and a backoff ends. Nothing is assumed of the activity that
\* seals windows, of faults, crashes, session changes or retention.
FairSpec ==
    /\ Spec
    /\ WF_vars(Lifecycle) /\ WF_vars(DeliveryStep)
    /\ WF_vars(DispatcherStep) /\ WF_vars(RunStep)
    /\ WF_vars(TimePasses)

----------------------------------------------------------------------------
(* Safety *)

\* The accumulated score is exactly the sum of the stored receipts, and a job
\* consumes exactly the scores of the receipts assigned to it, through every
\* interleaving of apply, phase two and recovery.
ScoreIsReceipts ==
    /\ score = TotalScore(Received)
    /\ job # None => /\ job.windows # {} /\ job.windows \subseteq Received
                     /\ job.consumed = TotalScore(job.windows)

\* No window is scored twice: a window whose analysis a completed run has
\* consumed has a receipt only while phase two of that very run is pending. It
\* covers a session change that races the commit of the run, restarts and
\* replays of an archived analysis.
NoDoubleScoring ==
    \A w \in Windows :
        Consumed(w) /\ receipts[w] # None =>
            Holds(archive[w].by) /\ w \in job.windows

\* A window that a run has consumed is no longer attributed in Reflection, so
\* the scan at the next start cannot enqueue it again.
ConsumedIsReleased == \A w \in Windows : Consumed(w) => w \notin source

\* The archive of a queued window is under the request id of its outbox row:
\* delivery finds it instead of calling the model again and colliding with it.
ArchiveMatchesRequest ==
    \A w \in Queued : archive[w] # None => archive[w].sem = outbox[w].sem

\* Until phase two removes a receipt, the encrypted database keeps the archive
\* of its analysis and, once phase one of a running job has committed, the
\* complete proof of that commit; retention in particular takes neither.
PhaseTwoProof ==
    /\ \A w \in Received : HasArchive(w, receipts[w].sem)
    /\ job # None /\ job.status = "running" /\ (\E w \in job.windows : Consumed(w)) =>
         Verified(job.run, InputOf(job), RequestOf(job))

\* Recovery never meets a record that contradicts its job: no job is failed for
\* good as recovery_identity_mismatch or completed_run_not_atomic.
RecoveryNeverMismatches == dsp.verdict \notin {"invalid", "unproven"}

\* At most one activity run is at the model, and it is the run of the job; a
\* wake, a session change or a retry never leaves two.
OneOpenRun ==
    \A r \in RunIds : InStage(r, "running") /\ ~live[r].old => Holds(r)

\* The expensive Agent operation is not repeated: no run works on a window whose
\* analysis an earlier run has already turned into committed feedback, whatever
\* crash or error fell between the two phases of that commit.
NoRerunOfConsumed ==
    \A r \in RunIds, w \in Windows :
        InStage(r, "running") /\ w \in DOMAIN live[r].input => ~Consumed(w)

\* The commit of a run never fails for want of its sources: their archives are
\* there, under the request ids the run was given, and no other run has consumed
\* them, however often the job was retried and whatever retention removed.
CommitFindsSources ==
    \A r \in RunIds :
        InStage(r, "committing") => CanPublish(r, live[r].input)

\* Reflection's attribution is released only when the receipt, or the
\* consumption by a completed run, is durable in another database.
SourceOutlivesReceipt ==
    [][\A w \in source \ source' : receipts'[w] # None \/ Consumed(w)]_vars

\* A receipt and its score disappear only when a completed run has consumed the
\* window; no failure, crash or stale session takes score away.
ScoreOnlyConsumed ==
    [][\A w \in Received : receipts'[w] = None => Consumed(w)]_vars

----------------------------------------------------------------------------
(* Refinement *)

\* What the three databases together say of a window. Once phase one has
\* committed the window is consumed, whether or not phase two has removed its
\* receipt; a window of which nothing is left was consumed and has expired.
WindowStatus(w) ==
    IF w > sealed THEN "unsealed"
    ELSE IF Consumed(w) THEN "consumed"
    ELSE IF receipts[w] # None THEN "scored"
    ELSE IF w \in source THEN "sealed"
    ELSE "consumed"

Feedback ==
    INSTANCE ActivityFeedback
    WITH status <- [w \in Windows |-> WindowStatus(w)],
         points <- [w \in Windows |->
                      IF WindowStatus(w) = "scored" THEN receipts[w].score ELSE 0]

\* The pipeline implements ActivityFeedback: through crashes, session changes,
\* retries and retention each window is scored once and consumed once, by a
\* single commit, and only when the unused scores have reached the threshold.
FeedbackSpec == Feedback!Spec

----------------------------------------------------------------------------
(* Liveness, without session changes *)

\* Every sealed window is acknowledged or, after a rejection or the last
\* semantic attempt, marked terminal: no wake, timer or notification is lost
\* between the collector, the operation queue, retries and restarts.
WindowsSettle ==
    \A w \in Windows :
        w \in source ~> w \notin source \/ (w \in Queued /\ outbox[w].terminal)

\* Every job is eventually consumed or marked terminal: a job that is pending,
\* waiting for its backoff, or running in a lost process always gets its drain.
JobsSettle == ActiveJob ~> ~ActiveJob

\* Every window and every job settles.
EverythingSettles == WindowsSettle /\ JobsSettle

----------------------------------------------------------------------------
(* What the repository says of the program, and the program does not do *)

\* docs/REFLECTION_SYSTEM.md: a job that fails or whose process exits remains
\* recoverable. In the code a job is given up for good only when the model's
\* output was unusable at the last attempt, or when the sidecar exits once.
JobStaysRecoverable ==
    job # None /\ job.terminal => job.attempt >= MaxSemanticAttempts - 1

\* docs/REFLECTION_SYSTEM.md: windows not durably in the outbox are not scanned
\* again, so a row is only ever added by the notification of its sealing.
NoBackScan ==
    [][\A w \in Windows : outbox[w] = None /\ outbox'[w] # None =>
         tail # <<>> /\ Head(tail) = w]_vars

\* activity-window-worker.ts: cloud calls never block the Reflection cursor, so
\* the collector never waits for its notification while a request is out.
CursorNotBlocked == ~(notify # NoWindow /\ Draining("analyze"))

\* agent-run-coordinator.ts: across a session transition a job remains
\* retryable. No job is held by a run that nothing will finish while a new
\* bundle, which leaves runs of the active map alone, serves the account.
NoStrandedJob ==
    phase = "up" /\ current =>
        \A r \in RunIds : Holds(r) => ~InStage(r, "leaked")
=============================================================================
