---------------------- MODULE ActivityAnalysisDispatcher ----------------------
(***************************************************************************)
(* The serial dispatcher of Agent jobs                                     *)
(* (src/bun/activity-analysis-dispatcher.ts) and the life of the activity  *)
(* run it starts in the Agent coordinator                                  *)
(* (src/bun/agent-run-coordinator.ts).                                     *)
(*                                                                         *)
(* A step goes from one await to the next. A job is finished in two        *)
(* phases: phase one is the run's commit in the encrypted database, phase  *)
(* two the job's removal from the ledger; a crash, a session change or an  *)
(* error may fall between any two steps.                                   *)
(***************************************************************************)
EXTENDS ActivityArchive

CONSTANTS
    MaxCrashes,    \* process crashes in a behaviour (bound)
    MaxRotations,  \* session changes in a behaviour (bound)
    MaxFaults      \* transport, model and sidecar failures (bound)

VARIABLES
    live,     \* AgentRunCoordinator.active, activity runs only
    dsp,      \* the dispatcher of the current bundle
    current,  \* isAttemptCurrent: the bundle's session and owner are current
    auth,     \* the account's session in RemoteAuthSession
    used      \* how much of each bound a behaviour has used

session == <<current, auth>>
dispatch == <<live, dsp, session, used>>

\* The stages of an active run. From "committing" and "failing" on, the
\* snapshot's status is terminal. A "leaked" run has a terminal status, and
\* nothing that it still does removes it from the active map.
OpenStages == {"starting", "running"}
ClosingStages == {"committing", "committed", "failing", "finishing", "finished",
                  "unpersisted", "leaked"}
FailureClass == {"none", "transient", "invalid-output", "terminal"}

LiveRow ==
    [stage : OpenStages \cup ClosingStages, class : FailureClass,
     old : BOOLEAN, input : RunInput, req : Nat]

Dispatcher ==
    [on : BOOLEAN,                     \* started
     pc : {"idle", "queued", "reconcile", "resolve", "start", "request"},
     run : RunIds \cup {NoRun},        \* the run this drain works on
     verdict : {"none", "completed", "unproven", "invalid-output", "retryable",
                "invalid"},
     wake : BOOLEAN,                   \* wakePending
     timer : BOOLEAN,                  \* retryTimer is armed
     mine : SUBSET RunIds]             \* attemptsByRunId

DispatchTypeOK ==
    /\ live \in [RunIds -> LiveRow \cup {None}]
    /\ dsp \in Dispatcher
    /\ current \in BOOLEAN
    /\ auth \in {"out", "in", "refreshing"}
    /\ used \in [crashes : 0..MaxCrashes, rotations : 0..MaxRotations,
                 faults : 0..MaxFaults, runs : 0..MaxRuns]

NewDispatcher ==
    [on |-> FALSE, pc |-> "idle", run |-> NoRun, verdict |-> "none",
     wake |-> FALSE, timer |-> FALSE, mine |-> {}]

DispatchInit ==
    /\ live = [r \in RunIds |-> None]
    /\ dsp = NewDispatcher
    /\ current = FALSE /\ auth = "out"
    /\ used = [crashes |-> 0, rotations |-> 0, faults |-> 0, runs |-> 0]

\* The session the coordinator checks, which a refresh leaves in place until the
\* bundle has stopped.
SignedIn == auth # "out"

Fault == used.faults < MaxFaults /\ used' = [used EXCEPT !.faults = @ + 1]

----------------------------------------------------------------------------
(* Scheduling of drains *)

\* wake and scheduleDrain: at most one drain is scheduled or running; a wake
\* that arrives meanwhile is remembered.
Woken(d) ==
    IF ~d.on THEN d
    ELSE IF d.pc = "idle" THEN [d EXCEPT !.pc = "queued"]
    ELSE [d EXCEPT !.wake = TRUE]

\* Mutant: a wake that arrived during the drain is forgotten.
Drained_ForgetsWake(d) ==
    [d EXCEPT !.run = NoRun, !.verdict = "none", !.pc = "idle", !.wake = FALSE]

\* The end of a drain, which schedules the remembered wake.
Drained(d) ==
    [d EXCEPT !.run = NoRun, !.verdict = "none",
              !.pc = IF d.on /\ d.wake THEN "queued" ELSE "idle",
              !.wake = FALSE]

\* armRetry
Armed(d) == [d EXCEPT !.timer = d.on]

RetryTimerFires ==
    /\ dsp.on /\ dsp.timer
    /\ dsp' = Woken([dsp EXCEPT !.timer = FALSE])
    /\ UNCHANGED <<ledger, encrypted, live, session, used>>

----------------------------------------------------------------------------
(* drain *)

DrainIdles ==
    /\ dsp.pc = "queued"
    /\ ~dsp.on \/ ~current \/ NextJobKind = "none"
    /\ dsp' = Drained(dsp)
    /\ UNCHANGED <<ledger, encrypted, live, session, used>>

DrainNotDue ==
    /\ dsp.pc = "queued" /\ dsp.on /\ current
    /\ NextJobKind = "not_due"
    /\ dsp' = Drained(Armed(dsp))
    /\ UNCHANGED <<ledger, encrypted, live, session, used>>

\* Mutant: a running job is always taken for an orphan.
Reconciling_Always(d) == [d EXCEPT !.pc = "reconcile", !.run = job.run]

\* The synchronous part of reconcileRunningJob and of
\* reconcileOrphanedActivityRun: a run this dispatcher started, or one that is
\* still active in the coordinator, is left to its own terminal callback.
Reconciling(d) ==
    IF job.run \in d.mine \/ live[job.run] # None
    THEN Drained(d)
    ELSE [d EXCEPT !.pc = "reconcile", !.run = job.run]

DrainReconciles ==
    /\ dsp.pc = "queued" /\ dsp.on /\ current
    /\ NextJobKind = "running"
    /\ dsp' = Reconciling(dsp)
    /\ UNCHANGED <<ledger, encrypted, live, session, used>>

\* startClaimedJob up to the first await of startActivityAnalysis.
DrainClaims ==
    /\ dsp.pc = "queued" /\ dsp.on /\ current
    /\ NextJobKind = "ready"
    /\ used.runs < MaxRuns
    /\ LET r == used.runs + 1
       IN /\ ClaimJob(r)
          /\ used' = [used EXCEPT !.runs = r]
          /\ dsp' = [dsp EXCEPT !.pc = "start", !.run = r, !.mine = @ \cup {r}]
    /\ UNCHANGED <<encrypted, live, session>>

----------------------------------------------------------------------------
(* Recovery of a job whose run this process no longer has *)

InputOf(j) == [w \in j.windows |-> receipts[w].sem]

\* Mutant: a stored run is retried whether or not its commit went through.
VerdictOn_IgnoresCommit(r) ==
    IF runs[r] = None THEN "retryable"
    ELSE IF runs[r].input # InputOf(job) \/ runs[r].req # RequestOf(job) THEN "invalid"
    ELSE IF runs[r].status # "starting" /\ runs[r].invalid THEN "invalid-output"
    ELSE "retryable"

\* What the stored record says of the run.
VerdictOn(r) ==
    IF runs[r] = None THEN "retryable"
    ELSE IF runs[r].input # InputOf(job) \/ runs[r].req # RequestOf(job) THEN "invalid"
    ELSE IF Completed(r)
    THEN IF Verified(r, InputOf(job), RequestOf(job)) THEN "completed" ELSE "unproven"
    ELSE IF runs[r].status # "starting" /\ runs[r].invalid THEN "invalid-output"
    ELSE "retryable"

\* An unfinished record is marked interrupted before the job is retried.
ReadOrphanedRun ==
    /\ dsp.pc = "reconcile" /\ SignedIn
    /\ dsp' = [dsp EXCEPT !.pc = "resolve", !.verdict = VerdictOn(dsp.run)]
    /\ IF runs[dsp.run] # None /\ runs[dsp.run].status = "starting"
          /\ VerdictOn(dsp.run) = "retryable"
       THEN runs' = [runs EXCEPT ![dsp.run].status = "interrupted"]
       ELSE UNCHANGED runs
    /\ UNCHANGED <<ledger, archive, live, session, used>>

\* A read that fails, or a session that has changed, ends the drain with an
\* exception; the job stays running and the drain is retried.
ReconciliationThrows ==
    /\ dsp.pc \in {"reconcile", "resolve"}
    /\ \/ dsp.pc = "reconcile" /\ ~SignedIn /\ UNCHANGED used
       \/ Fault
    /\ dsp' = Drained(Armed(dsp))
    /\ UNCHANGED <<ledger, encrypted, live, session>>

\* The verdict applied to the job, and the finished attempt's record deleted.
\* Like every update of a job row it requires that the run still holds it.
ResolveOrphanedRun ==
    /\ dsp.pc = "resolve"
    /\ Holds(dsp.run)
    /\ CASE dsp.verdict = "completed" ->
              CanComplete(dsp.run) /\ CompleteJob /\ dsp' = Drained(Woken(dsp))
         [] dsp.verdict = "retryable" ->
              DeferJob(FALSE) /\ dsp' = Drained(Armed(dsp))
         [] dsp.verdict = "invalid-output" /\ job.attempt < MaxSemanticAttempts - 1 ->
              DeferJob(TRUE) /\ dsp' = Drained(Armed(dsp))
         [] OTHER -> FailJobTerminally /\ dsp' = Drained(dsp)
    /\ IF dsp.verdict \in {"invalid", "unproven"}
       THEN UNCHANGED encrypted ELSE DeleteAttempt(dsp.run)
    /\ UNCHANGED <<live, session, used>>

----------------------------------------------------------------------------
(* startActivityAnalysis *)

\* The archive of the newest analysis must be there and carry its request id.
SupportContextArchived ==
    LET newest == CHOOSE w \in job.windows :
                    \A v \in job.windows : receipts[v].at <= receipts[w].at
    IN HasArchive(newest, receipts[newest].sem)

\* The run is put in the active map and its record is persisted.
StartPersists ==
    /\ dsp.pc = "start" /\ SignedIn /\ SupportContextArchived
    /\ live' = [live EXCEPT ![dsp.run] =
                  [stage |-> "starting", class |-> "none", old |-> FALSE,
                   input |-> InputOf(job), req |-> job.req]]
    /\ PutRun(dsp.run, "starting", FALSE, InputOf(job), job.req)
    /\ dsp' = [dsp EXCEPT !.pc = "request"]
    /\ UNCHANGED <<ledger, session, used>>

\* activity.start is sent; the sidecar answers with events.
StartRequests ==
    /\ dsp.pc = "request" /\ SignedIn
    /\ live' = [live EXCEPT ![dsp.run].stage = "running"]
    /\ dsp' = Drained(dsp)
    /\ UNCHANGED <<ledger, encrypted, session, used>>

\* An exception before the request: the job is deferred by the dispatcher's
\* catch branch. A run that is already in the active map is discarded, except
\* when the session check or the policy read right after its record's write is
\* what fails: then it stays there, though nothing will ever be sent for it.
StartThrows ==
    /\ dsp.pc \in {"start", "request"}
    /\ Holds(dsp.run)
    /\ \/ /\ ~SignedIn \/ (dsp.pc = "start" /\ ~SupportContextArchived)
          /\ UNCHANGED used
       \/ Fault
    /\ DeferJob(FALSE)
    /\ DeleteAttempt(dsp.run)
    /\ live' \in {live, [live EXCEPT ![dsp.run] = None]}
    /\ dsp' = Drained(Woken([dsp EXCEPT !.mine = @ \ {dsp.run}]))
    /\ UNCHANGED session

----------------------------------------------------------------------------
(* The run in the coordinator *)

InStage(r, stage) == live[r] # None /\ live[r].stage = stage
ToStage(r, stage) == live' = [live EXCEPT ![r].stage = stage]

\* run.completed with a usable summary. Events for a run whose session is no
\* longer current are ignored.
SidecarCompletes(r) ==
    /\ InStage(r, "running") /\ ~live[r].old
    /\ ToStage(r, "committing")
    /\ UNCHANGED <<ledger, encrypted, dsp, session, used>>

\* failRun: an unusable result, or a failed request or model call. A session
\* change aborts the model calls of activity runs.
SidecarFails(r) ==
    /\ InStage(r, "running") /\ ~live[r].old
    /\ \/ /\ live' = [live EXCEPT ![r].stage = "failing",
                                   ![r].class = "invalid-output"]
          /\ UNCHANGED used
       \/ /\ live' = [live EXCEPT ![r].stage = "failing",
                                   ![r].class = "transient"]
          /\ Fault \/ (~current /\ UNCHANGED used)
    /\ UNCHANGED <<ledger, encrypted, dsp, session>>

\* interruptRun, when the sidecar exits or an event is missing. No failure
\* class is set, which finishRun reads as terminal. With a stale session the
\* emit throws and nothing removes the run from the active map.
SidecarExits(r) ==
    /\ InStage(r, "running")
    /\ Fault
    /\ live' = [live EXCEPT ![r].stage = IF live[r].old THEN "leaked" ELSE "failing",
                            ![r].class = "terminal"]
    /\ UNCHANGED <<ledger, encrypted, dsp, session>>

\* The first write of a failed run, by emit, carries no error. emit checks the
\* session again after it and throws, which leaves the run in the active map.
EmitFailure(r) ==
    /\ InStage(r, "failing")
    /\ PutRun(r, IF live[r].class = "terminal" THEN "interrupted" ELSE "failed",
              FALSE, live[r].input, live[r].req)
    /\ ToStage(r, IF live[r].old THEN "leaked" ELSE "finishing")
    /\ UNCHANGED <<ledger, dsp, session, used>>

\* The second write, by finishRun, carries the failure.
PersistFailure(r) ==
    /\ InStage(r, "finishing")
    /\ PutRun(r, runs[r].status, live[r].class = "invalid-output",
              live[r].input, live[r].req)
    /\ ToStage(r, "finished")
    /\ UNCHANGED <<ledger, dsp, session, used>>

\* Phase one. It may fail, and then the run ends as a transient failure.
CommitRun(r) ==
    /\ InStage(r, "committing") /\ CanPublish(r, live[r].input)
    /\ PublishCompletedRun(r, live[r].input, live[r].req)
    /\ ToStage(r, "committed")
    /\ UNCHANGED <<ledger, dsp, session, used>>

CommitThrows(r) ==
    /\ InStage(r, "committing")
    /\ IF CanPublish(r, live[r].input) THEN Fault ELSE UNCHANGED used
    /\ ToStage(r, "unpersisted")
    /\ UNCHANGED <<ledger, encrypted, dsp, session>>

\* The failure class finishRun reports. A failure whose session changed during
\* its write counts as not persisted.
ReportedClass(r) ==
    IF live[r].stage = "unpersisted" \/ live[r].old
    THEN "transient" ELSE live[r].class

\* Mutant: a session change after the commit turns the success into a retry.
JobAfterRun_StaleIsTransient(r) ==
    IF ~Holds(r) THEN UNCHANGED ledger
    ELSE IF live[r].stage = "committed" /\ ~live[r].old
    THEN CanComplete(r) /\ CompleteJob
    ELSE IF ReportedClass(r) = "terminal" THEN FailJobTerminally
    ELSE DeferJob(ReportedClass(r) = "invalid-output")

\* onActivityRunTerminal of the dispatcher: phase two, or the job's retry. A
\* job that the run no longer holds is left alone.
JobAfterRun(r) ==
    IF ~Holds(r) THEN UNCHANGED ledger
    ELSE IF live[r].stage = "committed"
    THEN CanComplete(r) /\ CompleteJob
    ELSE IF \/ ReportedClass(r) = "terminal"
            \/ /\ ReportedClass(r) = "invalid-output"
               /\ r \in dsp.mine /\ job.attempt >= MaxSemanticAttempts - 1
    THEN FailJobTerminally
    ELSE DeferJob(ReportedClass(r) = "invalid-output")

\* The end of finishRun: the run leaves the active map and the dispatcher, if
\* there is one, is told.
FinishRun(r, dispatcherPresent) ==
    /\ live[r] # None
    /\ live[r].stage \in {"committed", "finished", "unpersisted"}
    /\ live' = [live EXCEPT ![r] = None]
    /\ IF dispatcherPresent
       THEN /\ JobAfterRun(r)
            /\ IF Holds(r) THEN DeleteAttempt(r) ELSE UNCHANGED encrypted
            /\ dsp' = Woken([dsp EXCEPT !.mine = @ \ {r}])
       ELSE UNCHANGED <<ledger, encrypted, dsp>>
    /\ UNCHANGED <<session, used>>

\* quiesceActivityRunsForSessionTransition: every run whose status is not yet
\* terminal is cancelled. Its record is written, or the write fails; there is no
\* dispatcher to tell.
QuiesceRun(r) ==
    /\ live[r] # None /\ live[r].stage \in OpenStages
    /\ \/ PutRun(r, "cancelled", FALSE, live[r].input, live[r].req)
       \/ UNCHANGED encrypted
    /\ live' = [live EXCEPT ![r] = None]
    /\ UNCHANGED <<ledger, dsp, session, used>>

\* The record a run cancelled at sign-out is left with: the write of its final
\* status, which may fail, and then the dispatcher's best-effort deletion.
CancelledRecord(r, deleting) ==
    LET status == IF live[r].stage \in OpenStages THEN "cancelled"
                  ELSE IF live[r].class = "terminal" THEN "interrupted" ELSE "failed"
        written == [status |-> status, invalid |-> live[r].class = "invalid-output",
                    input |-> live[r].input, req |-> live[r].req]
    IN {runs[r], written} \cup (IF deleting THEN {None} ELSE {})

\* cancelAllForAccount, at sign-out: waits for pending starts, then finishes
\* every run that is still in the active map, also one with a terminal status,
\* as a transient failure.
CancelRun(r, dispatcherPresent) ==
    /\ live[r] # None /\ live[r].stage \in OpenStages \cup {"leaked"}
    /\ dsp.pc \notin {"start", "request"}
    /\ live' = [live EXCEPT ![r] = None]
    /\ \E record \in CancelledRecord(r, dispatcherPresent /\ Holds(r)) :
         runs' = [runs EXCEPT ![r] = record]
    /\ IF dispatcherPresent
       THEN /\ IF Holds(r) THEN DeferJob(FALSE) ELSE UNCHANGED ledger
            /\ dsp' = Woken([dsp EXCEPT !.mine = @ \ {r}])
       ELSE UNCHANGED <<ledger, dsp>>
    /\ UNCHANGED <<archive, session, used>>
=============================================================================
