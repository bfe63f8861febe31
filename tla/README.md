# Verification of WhaleHall

TLA+ modules, TLC configurations and TLAPS proofs kept beside the WhaleHall
desktop application. Paths below are relative to the repository root (`src/` of
`PROJECT.json`'s paths is that root, so `src/bun/index.ts` is
`src/src/bun/index.ts` there).

WhaleHall runs a Bun main process with several WebViews, a Mastra sidecar process
that talks to the models, a Rust Local Tool Host that senses activity and keeps the
event journals, a calendar and a vault, and two cloud services (the activity-window
worker and DataCenter). The main process is one JavaScript thread; nearly all its
durable state is in SQLite files, and no transaction spans two of them.

## 1. Inventory

| Part | Source | Modules | What is hard |
|---|---|---|---|
| Activity pipeline: window ledger, delivery service, encrypted archive and run records, dispatcher, activity runs of the coordinator, bundle and session | `agent/activity-window-worker.ts`, `bun/encrypted-agent-repository.ts`, `bun/activity-analysis-dispatcher.ts`, `bun/agent-run-coordinator.ts`, `bun/index.ts` | `ActivityWindowStore`, `ActivityArchive`, `ActivityAnalysisDispatcher`, `ActivityWindowDelivery`, `ActivityPipeline`; promise: `ActivityFeedback` | a commit in two databases; wakes and timers as the only thing that makes work go on; sessions that end at every await |
| Delivery lifecycle | `bun/activity-window-delivery-lifecycle.ts` | `DeliveryLifecycle` | overlapping starts, stops and sessions |
| Account sessions | `bun/remote-auth-session.ts`, `bun/index.ts` | `RemoteAuthSession` | sign-in, refresh, sign-out and expiry overtake each other between awaits |
| Feedback policy, clear and reset | `bun/proactive-feedback-runtime.ts`, `bun/encrypted-agent-repository.ts` | `ProactiveFeedbackReset` | erasure across two databases with a journal, late writers |
| Conversation and planning runs, approvals | `bun/agent-run-coordinator.ts`, `bun/agent-tool-policy.ts`, `bun/local-agent-tool-executor.ts` | `AgentRuns` | decisions, cancellations, sign-out and sidecar exits meet one tool call |
| Sidecar client and host | `bun/mastra-sidecar-client.ts`, `agent/mastra-host/runtime.ts` | `MastraSidecar`, `MastraHost` | generations of processes, late frames, a shutdown among running work |
| DataCenter synchronisation | `bun/data-center-sync.ts`, `bun/data-center-origin-cutover.ts` | `DataCenterSync` | lost answers, changes of owner, cutover of the origin |
| Native process client | `agent/local-tool-client.ts`, `agent/agent-runtime.ts` | `LocalHost` | ownership of a process tree whose end may not be confirmed |
| Timeline | `agent/timeline/*` | `TimelineCollector`, `TimelineVaultGc`, `TimelineJobs`; `EventJournal` | cursors committed in another process, leases, garbage collection |
| Planning, calendar batches | `agent/planning/*` | `PlanningAdjustment`, `PlanningVault`, `PlanScheduler`, `GoalBoundary` | recovery of half-applied adjustments, collection beside writers |
| Reflection | `agent/reflection/*`, `bun/reflection-feedback.ts`, `bun/deferred-reflection-operations.ts` | `ReflectionStream`, `ReflectionWindows`, `ReflectionJobs`; promise: `ReflectionJobQueue` | one cursor, boundaries older than events, reminders presented at most once |
| Shutdown | `bun/app-lifecycle.ts`, `bun/index.ts` | `ProcessShutdown` | deadlines that let the sequence overtake its owners |
| Updates | `bun/app-update-controller.ts`, `bun/app-update-*-installer.ts` | `AppUpdateController`, `UpdateInstaller` | a helper that may be killed between two renames |

The hazards of this code, each at its line and with the properties that would catch
it, are in `PROJECT.json`.

How the parts interact. The tool host appends events; Timeline and Reflection pull
them through one cursor each and seal windows. Reflection's collector *awaits* the
delivery service's notification; the service sends the window to the analyzer,
archives the analysis, writes a receipt with its score and wakes the dispatcher when
a receipt made a job; the dispatcher awaits the coordinator's start of an Agent run
and is called back at its end. A change of session makes the bundle stale, stops it
and cancels or quiesces the runs; the next start reads the encrypted database to find
out what became of a job that was running. Planning saves sealed snapshots through
the host and applies calendar batches. The shutdown drains the owners in dependency
order; the updater ends the application only through it.

## 2. Modules

```
ActivityWindowStore          the ledger (one action per transaction)
  ^ EXTENDS
ActivityArchive              archives and run records of the encrypted database
  ^
ActivityAnalysisDispatcher   dispatcher and the life of an activity run
  ^
ActivityWindowDelivery       delivery service and the end of the collector
  ^
ActivityPipeline             bundle, sessions, crash, retention; Next, properties
  ^       \-- INSTANCE ActivityFeedback              the abstract promise
  |-- MCActivityPipeline                             TLC
  \-- ActivityPipeline_proofs                        TLAPS

DeliveryLifecycle <- MCAccount      with RemoteAuthSession, ProactiveFeedbackReset,
                                    DataCenterSync
AgentRuns         <- MCAgent        with MastraSidecar, MastraHost
PlanningVault     <- MCPlanning     with PlanningAdjustment, PlanScheduler, GoalBoundary
ProcessShutdown   <- MCApplication  with AppUpdateController, UpdateInstaller, LocalHost
TimelineJobs      <- MCTimeline     with TimelineCollector, TimelineVaultGc
ReflectionJobs    <- MCReflection   with ReflectionStream, ReflectionWindows
                     MCLiveness     the components whose waits and retries must end
EventJournal                        the journal, EXTENDed or INSTANCEd by its readers
```

`DeliveryLifecycle`, `AgentRuns`, `PlanningVault`, `ProcessShutdown`, `TimelineJobs`,
`ReflectionJobs` and `DataCenterSync` have a proof module each (`..._proofs`), beside the
one of the pipeline.

`ReflectionJobs` refines `ReflectionJobQueue` (an INSTANCE inside it).

**Runs of several components.** An MC module EXTENDs one component and has the
others as instances. A behaviour runs exactly one of them: the variable `part` is
chosen in the initial state and never changes, the variables of the others keep a
constant value. Nothing is composed, so every property is about one component, under
the bounds written at its instance; the state space is the sum of theirs. Several
properties of one component are then checked as one formula, `part = "..." =>` the
conjunction, named in the comment above it. Where state and step properties go
together the formula is `[][States /\ States' /\ Steps]_mcVars`, which says the same
as `[]States /\ [][Steps]_mcVars` for every behaviour that takes a step.

**Correspondence.** A stretch of code between two awaits is one action; code that is
synchronous across a promise (a SQLite call behind an `async` function) is one step
as well. A promise that callers share is a record with the stage it is in; a timer is
a flag; a delay is a flag that a step of time raises. An operation that throws leaves
its transaction undone. Crash actions forget everything but the databases. The
counters named `used`, `faults` and the constants `Max...` only bound the instances;
they appear in guards and nowhere else.

The state of the pipeline, for which most is proved: each ledger table is a function
from windows to rows (`outbox`, `receipts`), the state row is `score` and `trigger`,
the job table, which holds at most one row, is `job`; `archive` and `runs` are the
tables of the encrypted database; `source` is Reflection's attribution table; `live`
is the coordinator's active map, `dsp` the fields and program counter of the
dispatcher, `tail` the `operationTail` promise chain and `dlv` the fields and program
counter of the service; `current` and `auth` are the session, `phase` the lifecycle of
the bundle. The receipt of a window and its acknowledgement are separate steps, since
a crash or an exception may fall between them, but no other task runs there, hence the
guard `dlv.pc # "ack"` of the dispatcher's drains. The release in Reflection and the
deletion of the outbox row are one step, and `Crash` may happen in between.
`JobRow.attempt` is compared in the code with a literal 2, the number of semantic
attempts less one; the model writes `MaxSemanticAttempts - 1` so that smaller
instances keep the relation. A run whose start throws after its record was written
stays in the coordinator's map as `starting`, one whose failure is interrupted by a
session change as `leaked`; both are kept, since reconciliation reads that map.

Abstractions of data: a window is its number in sealing order, a request id the pair
of window and attempt, an analysis its score, an account or a record a model value.
Scores are REAL in the code and compared with `SCORE_EPSILON`
(`agent/activity-window-worker.ts:1412`); rounding is out of reach of the integers
used here, and no property covers it.

### What to know about single modules

* `AgentRuns` has one conversation or planning run with its commands, tool calls,
  approvals and critical operations. An approval whose ten minutes are over when its call
  is about to be executed is written as expired (`CheckApproval`), as the code does.
  `SidecarCancels` assumes that the sidecar answers a cancellation, which `MastraHost`
  shows of the host's side.
* `DataCenterSync`: the server is external; it applies a batch at most once by its
  identifier and keeps one cursor per account, as the client relies on. `SyncAssumption`
  is the hypothesis of its theorems; TLC evaluates it for both instances (`SyncBounds`).
* `ProcessShutdown`: `orphan` is the case in which no account is signed in when the quit
  arrives while runs of a cleared session are still being cancelled: `agent-runs` then
  cancels nothing (`bun/index.ts:1998`), the sidecar may be stopped before those runs have
  ended, which the comment in `stopSidecar` (line 2031) does not say, and only the drain
  of the session in front of the repository waits for them. `SidecarOutlivesRuns` excepts
  them, `RepositoryClosesLast` does not. The run combines this case with a finished
  startup only (`ShutdownBounded`), the liveness instance leaves it out; the theorem does
  neither. `pet-activity-feedback` is synchronous and, like `startup-retry`, not joined
  again by the repository. `LateAttempts` says whether an owner may be asked again after a
  deadline; the liveness instance leaves an automatic attempt alone.
* `PlanningAdjustment`: `FailedMeansUnwritten` is checked where replies of the host are
  not lost; with a lost reply a batch may be in the calendar although its adjustment
  is recorded as failed (section 7).
* `PlanningVault`: the host serves the pipe in order and a crash drops the rest. Under
  the lease and that order the retention time is not needed for safety.
* `PlanScheduler` is the scheduling algorithm over two days instead of seven, against what
  its result has to satisfy. Its definitions are RECURSIVE, so it stays with TLC.
* `GoalBoundary`: production passes no `startupGoal`. Failures of the first journal's
  append are not modelled, those of the second are.
* `LocalHost`: a stop that is not a shutdown may resolve while a waiting caller already
  spawns the replacement, which is why ownership is stated of every live process.
* `TimelineVaultGc`: a drain that fails while a save waits for its record is swallowed and
  the save tries again; in front of a save it ends it. A repeated `sealWindow` that finds
  its window and revision only ends its preparation (`Repeats`).
* `TimelineCollector`: the collector row and its snapshot are one variable; leases of
  `TimelineVaultGc` may expire at any time, which covers every delay.
* `TimelineJobs`: one undeliverable AgentInput fails the whole batch
  (`agent-input-adapter.ts:139`), as in the code.
* `ReflectionStream`: `NothingSkipped` is checked without a crash or a lag of the host,
  `NothingAdopted` with at most one deferred transition; section 7 says what happens
  otherwise.
* `ReflectionWindows`: one permission stands for all of them. Both instances have
  `MAX_WAIT = 1` and `MaxTime = 2`, so an event may lie past the deadline of the open
  window: the window is then sealed in front of it (`OverdueBefore`, which has a mutant of
  its own) and no window spans more than its wait. `WindowingBounded` leaves the latest
  time to behaviours of at most four events, crashes and cutovers together.
* `UpdateInstaller`: a preparation checks the entries, extracts, and checks the tree and
  the signature, so a refused candidate is on disk for a while. macOS removes the
  transaction and ignores a removal that fails; Windows, where the preparation is outside
  any `try`, leaves it. A cleanup may fail and leave any part. The next attempt makes a
  directory of its own. Hence `FailureMeansIntact` speaks of the bundle of the application
  and of what was moved, not of the candidate, and `OnlyValidInstalled` says that what was
  left is never installed. The helper and the application may each be killed (`Killed`,
  `AppKilled`).
* `ReflectionJobs`: times beyond `MaxTime` count as `MaxTime`; inference always abstains
  or yields a reminder, failures come from the set `Faults`.

## 3. Runs

| Run | Checks | Distinct states |
|---|---|---|
| `crash_recovery` | the pipeline through a crash and a fault at any place: `TypeOK`, `ScoreIsReceipts`, `ConsumedIsReleased`, `PhaseTwoProof`, `RecoveryNeverMismatches`, `NoRerunOfConsumed`, `CommitFindsSources`, `SourceOutlivesReceipt`, `ScoreOnlyConsumed`, and that it implements `ActivityFeedback` (`FeedbackSpec`) | 456 k |
| `session_change` | two refreshes or sign-outs at any point: `NoDoubleScoring`, `ArchiveMatchesRequest`, `OneOpenRun` | 498 k |
| `progress` | under `FairSpec`, every sealed window and every job settles: `EverythingSettles` | 115 k |
| `account` | `LifecycleSafe`, `LifecycleSteps`, `SessionsSafe`, `ResetSafe`, `SyncSafe` | 974 k |
| `agent` | `RunsSafe`, `DecisionIsFinal`, `SidecarSafe`, `HostSafe` | 555 k |
| `planning` | `VaultSafe`, `ReaderFindsAll`, `AdjustmentSafe`, `ScheduleSafe`, `GoalSafe` | 803 k |
| `application` | `ShutdownSafe`, `InstallationSafe`, `UpdateSafe`, `NativeSafe` | 912 k |
| `timeline` | `TimelineJobsSafe`, `CollectorSafe`, `SnapshotsSafe` | 705 k |
| `reflection` | `ReflectionJobsSafe`, `StreamSafe`, `WindowsSafe`, and that the runner over SQLite implements the reference repository (`IsAQueue`) | 2 213 k |
| `liveness` | `EverythingEnds`, the conjunction of what every component promises to end | 55 k |
| `write_after_logout`, `cursor_divergence` | one sentence of the repository each, violated (section 7) | |

Every property of a passing run has a mutant in `PROJECT.json`: a variant of one
mapped definition, suffixed after an underscore in the modules, under which TLC
refutes the property.

**What they show.** `crash_recovery` and `session_change`: the three databases agree
through crashes, faults and session changes; the score is the sum of the receipts; a
consumed window is no longer attributed in Reflection; retention never takes the proof of
a commit whose second phase is pending; recovery never gives a job up for a contradiction
and never repeats a run that has committed. `FeedbackSpec`: a window is sealed, scored and
consumed once each, a consumption is a single step and takes place only when the unused
scores reach the threshold; the mapping `WindowStatus` says that the commit in the
encrypted database is the moment of consumption. `account`: no part of a bundle is
orphaned and a stop is a barrier; the published session is the newest, prepared and
restorable; what was erased stays erased; events are uploaded to one account and none is
skipped silently. `agent`: a denied or expired decision on a tool call is final, an
approved one may only expire before it is carried out, an approved write is made at most
once and only with its approval; an answer of the sidecar is taken from the process that
was asked; a host run ends once. `planning`: no vault record a row refers to is collected,
an applied adjustment is in the calendar, sessions do not overlap, the user's goal is
applied and never rolled back. `application`: owners close after those that depend on
them, the path of the application is never empty during an installation on macOS, a
candidate that a check refuses is never installed although it may be left on disk, a
native process is always owned. `timeline` and `reflection`: no event is lost or taken
twice, nothing of a revoked permission is sealed, a job is committed once and a reminder
presented once.

**Bounds.** Pipeline: two windows, scores {1, 2} or {1}, threshold 2, two semantic
attempts (three in the code), at most two receipts per job, two runs, one crash and one
fault or two session changes. Two windows let a job be made of one or of both, a
receipt arrive while a job runs, and one window queue behind another; two runs let a
job be retried once. Liveness needs a run for every retry that the fault, the crash and
the invalid outputs may cause, hence four. The bounds of the other components stand at
their instances in the MC modules, with a sentence on what they let happen: two
accounts and three calls for sessions; one piece of evidence and two epochs for the
reset; one tool call, two deciding users, and two commands with a crash, or one command
with the end of session or sidecar; two operations of a plan, of which one may be
retried; two releases; three native processes for two callers; two writers beside the
collector; up to four events per window. They are the smallest in which two of the
failures, ends, stops and replays that a component handles can meet.

`CHECK_DEADLOCK FALSE` is set throughout: with the bounds used up the application
idles, which is no deadlock.

**Fairness.** `progress` assumes weak fairness of five groups: a started activation or
shutdown goes on and the application is started again after a crash (`Lifecycle`);
promises settle, timers fire, and a request to analyzer, sidecar or database ends in
one of its outcomes, as the timeouts of the clients make it (`DeliveryStep`,
`DispatcherStep`, `RunStep`); a backoff ends (`TimePasses`). Nothing is assumed of
sealing, faults, crashes, sessions or retention, and nothing of a particular outcome.
`liveness` assumes of each component what its own `FairSpec` states: steps after an
await are taken, timers fire, a killed process ends, leases lapse, and the user's part
is left free. Strong fairness appears only in `MastraSidecar` (`StopDependents`,
`StopSettles`) and `ProactiveFeedbackReset`, for steps that others disable for a while.

## 4. Proofs

All theorems hold for every value of the constants under the named assumptions of the
component's module (`...Assumption`, `Run...`: the bounds are natural numbers, finite
sets where the code's tables are finite, handlers and users apart); TLC evaluates those
assumptions in every run. Each inductive invariant was model-checked on the instance of
the component's run before it was proved. `_proofs` modules EXTEND the component and
`TLAPS`; there is one lemma per action or group of actions that change the same things,
and the temporal step comes last.

### `ActivityPipeline_proofs`, the runs

    THEOREM OneOpenRunHolds == Spec => []OneOpenRun

At most one activity run of the current session is at the model, and it is the run
that holds the account's job. `OneOpenRun` is not inductive: whether a second run
can be started depends on the dispatcher's position and on what a restarted bundle
finds in the coordinator's map. The inductive invariant `RunInv` adds: the shape of
the job, the active map and the dispatcher (`JobShape`, `LiveShape`, `UsedShape`);
a run id not yet handed out is not in the active map (`FreshRuns`); between claim
and request the dispatcher's run holds the job (`StartingRun`); a run that is being
reconciled is not in the active map (`OrphanedRun`); and without a bundle the
dispatcher is at rest (`NoDispatcherWhenDown`). There is one lemma per group of
actions: operations of the ledger that leave a job's holder alone are treated once,
and each module's actions are then cases of a few such facts.

### `ActivityPipeline_proofs`, the hand-overs

    THEOREM ConsumedIsReleasedHolds    == Spec => []ConsumedIsReleased
    THEOREM SourceOutlivesReceiptHolds == Spec => SourceOutlivesReceipt
    THEOREM ScoreOnlyConsumedHolds     == Spec => ScoreOnlyConsumed

These are the two hand-overs of a window between databases that share no
transaction: from Reflection to the ledger, and from the ledger to the encrypted
database. The invariant is `PipelineInv == RunInv /\ DeliveryInv /\ ArchiveInv`.

- `DeliveryInv` is about the ledger and the delivery service. Its heart is
  `AckGate`: a job that has been claimed has no window left in the outbox. It holds
  because `nextActivityAnalysisJob` gives out no job while a receipt waits for its
  acknowledgement (`SameRequest` and `JobIsReceived` connect that check with the
  windows of the job), and it is what keeps the end of a run away from the window
  that the service has in hand (`InHand`). `ReleasedSource` then says that such a
  window is released by Reflection, and `SealedOnly` that nothing is known of a
  window that is not sealed yet.
- `ArchiveInv` is about the archive, the run records and the runs. A run publishes
  once (`PublishedOnce`, `FailureRecord`); a run that may still commit holds the job
  and has its windows as input (`RunInputs`), so by `AckGate` and `ReleasedSource` a
  commit consumes only released windows; phase two, at the end of a run or in
  recovery, finds phase one committed (`CommittedProof`, `VerdictProof`); retention
  takes no archive that the service is about to rely on (`ConsumedInput`,
  `ConsumedInHand`).

Most steps change nothing that the proofs of phase one consist of; `ArchiveFrame`
treats them once, and the commit, the claim, the two steps of a start, the verdict
and retention have lemmas of their own. The invariant was model-checked on the
instances of `crash_recovery` and `session_change` before it was proved.

### `ActivityPipeline_proofs`, the commit

    THEOREM CommitFindsSourcesHolds       == Spec => []CommitFindsSources
    THEOREM PhaseTwoProofHolds            == Spec => []PhaseTwoProof
    THEOREM RecoveryNeverMismatchesHolds  == Spec => []RecoveryNeverMismatches
    THEOREM NoRerunOfConsumedHolds        == Spec => []NoRerunOfConsumed
    THEOREM NoDoubleScoringHolds          == Spec => []NoDoubleScoring
    THEOREM ArchiveMatchesRequestHolds    == Spec => []ArchiveMatchesRequest
    THEOREM ScoreIsReceiptsHolds          == Spec => []ScoreIsReceipts
    THEOREM PipelineImplementsFeedback    == Spec => FeedbackSpec

The two phases in which a run's result is committed, over the two databases. The
invariant is `PipelineInv /\ CommitInv`. A receipt and the archive agree on the request
of every window (`ReceiptArchived`, kept through the service's steps by
`InHandArchived`); a run and its record carry the request of the job it holds
(`HeldInput`, `HeldRecord`, `PublishedVerified`); a window that is consumed and still has
its receipt belongs to the job of the run that consumed it (`ConsumedIsHeld`), so no
other run finds it; and the verdict on a run that published before a crash is that it
completed (`OrphanHolds`, `VerdictSound`). Most steps neither claim, start, publish,
complete nor expire anything: `CommitFrame` treats them once.

Three more results rest on it, each with the part of the invariant it needs; all parts
were model-checked on the instances of `crash_recovery` and `session_change` first.

- `ArchiveMatchesRequest`: the archive of a window in the outbox is under the request of
  its row. It could fail if a window that has been analysed were put into the outbox
  again with its first request. `QueueInv` says what the promise chain and the collector
  have under way (nothing when the bundle is stopped; one notification at most), and
  `OutboxInv` that every way into the outbox, by the scan of a starting bundle or by the
  notification, is for a window that was never analysed, and that an attributed window
  is archived only while it is in the outbox.
- `ScoreIsReceipts`: the stored score is the sum of the receipts, and a job's that of its
  windows. `ScoreInv` adds that the rows carry numbers (`ReceiptNumbers`,
  `ArchiveNumbers`) and that the score has reached the threshold while a job exists
  (`ScoreTotals`). A sum is a recursive function over sets, and the induction theorems of
  the library cannot be used; so `Weight` counts the *cells* of a sum (the pairs of an
  element and a number below its value), whose laws are those of cardinality, and
  `RecursionIsWeight` shows that the recursion counts the cells: among the sets for which
  it did not, one would have the fewest elements.
- `FeedbackSpec`: every step of the pipeline is a step of `ActivityFeedback` under the
  mapping (`Seal`, `Score` or `Consume`) or leaves the mapped state alone
  (`QuietFeedback`). The commit in the encrypted database consumes all windows of the job
  at once, by `CommitFindsSources`' invariant, and its points are the score of the job,
  by `ScoreInv`, hence above the threshold.

### `DeliveryLifecycle_proofs`

    THEOREM LifecycleSafeHolds == Spec => []LifecycleSafe
    THEOREM LifecycleStepsHold == Spec => LifecycleSteps

No part of a bundle is orphaned, a ready bundle is complete, a stop is a barrier, and
nothing is opened for a session that is gone. In `LifecycleInv`, `OneAttempt` says that
only the start operation's attempt is unsettled, `StageInv` what each stage has
published, `StoppedIsOld` that a stop makes the attempt it joins an old one, and
`ReleaseInv`, `ReleaseProgress` how far the release of a bundle has come.

### `TimelineJobs_proofs`

    THEOREM TimelineJobsSafeHolds == Spec => TimelineJobsSafe

A stored result goes together with its AgentInput and the state of its job, it is the
point of no return, the attempts of a job are its recorded failures and lost claims, and
an AgentInput is acknowledged once. `ClaimInv` follows the one claim that is under way:
its job is running, or has its result, or was removed by retention, and then for good;
`FailuresBounded` and `LostByFault` bound the attempts, which is what the type invariant
needs.

### `AgentRuns_proofs`

    THEOREM WritesOnceAndApproved == Spec => []RunsSafe
    THEOREM DecisionsAreFinal     == Spec => DecisionIsFinal

A denied or expired approval never changes again, and an approved one may only expire, at
the execution of a call whose ten minutes are over and whose write has not taken effect.
For that the proof follows what may run a call that was approved: an approval that
expires is one the right to execute has not been used for.

A write takes effect at most once, and only when the user approved that very call, though
decisions, cancellations, sign-out, recovery and exits of the sidecar interleave with the
commands under way. The hard part is that the approval is read before an await and used
after it. The invariant follows the *right to execute* a call, which lies in the sidecar's
token, in what a command that decided still has to do, or in the steps of an execution
that has begun. `OneRight` says that it lies in one of these places at most, only for an
approved call, and that the write has used it up. The other parts are what that needs:
the kinds of the state (`Shape`), which steps a command may have before it (`Placed`,
`TodosLaid`), that an approval is proposed once (`ProposedOnce`), and that a command in a
critical operation is alone in its run's (`CriticalHeld`). Assumptions: `RunKinds`,
`RunUsers`, `RunBounds`.

### `ReflectionJobs_proofs`

    THEOREM ReflectionJobsSafeHolds == Spec => []ReflectionJobsSafe
    THEOREM JobsAreAQueue           == Spec => IsAQueue
    THEOREM GivesUpLateHolds        == Spec => GivesUpLate

The runner and its SQLite repository. `JobsInv` consists of the kinds of the tables
(`Laid`), of leases and next attempts (`Leased`), of the state in which the runner's job
is at each of its points (`Held`), of the agreement of journal and jobs (`Journalled`), of
the attempts (`AttemptsAreSpent`) and of the reminders (`Reminded`, `ReminderOnce`,
`RemindersApart`). That a reminder is presented once is not inductive alone: `Reminded`
adds that what was presented had been claimed, and that what the runner is about to
present was claimed by it and not presented, so after a crash no job presents it again.
`JobsAreAQueue` maps each step to an operation of `ReflectionJobQueue` in a state that
accepts it, or to one that leaves the jobs alone; claiming takes the oldest runnable job.
`GivesUpLateHolds` says that a retryable failure ends a job only after the job has been
failing for `TERMINAL_AFTER`. Assumption: `JobsAssumption`.

### `ProcessShutdown_proofs`

    THEOREM ShutdownSafeHolds == Spec => []ShutdownSafe

The repository is closed last, the sidecar outlives the runs of the captured account, and
the process exits only with every owner closed, for any owners and whichever deadlines
pass. `ShutdownInv` adds `InOrder` (an owner is touched only when those it depends on are
closed), `Drained` (what the closing of an owner waits for has ended for good) and
`Settled` (each step of the sequence that was passed completed or failed, and a completed
one has its owner closed). The next step is the least position still open, so the proof
uses the well-foundedness of the natural numbers (`WFMin`), not induction.
`ShutdownAssumption` asks for an instance that has the repository, the client and the runs
among its owners.

### `PlanningVault_proofs`

    THEOREM VaultSafeHolds      == Spec => []VaultSafe
    THEOREM ReaderFindsAllHolds == Spec => ReaderFindsAll

What a row of the plan refers to is stored, a finished save has its row, and a reader,
which takes no lease, finds all of what it opens. The hard part is that the lease alone
excludes nothing: a caller whose request timed out gives the lease back while its request
is still queued, and the host serves it later. What protects the rows is the order of the
pipe. `DeletesFirst` says that a deletion left behind is served before the first seal of
the next save is answered, so what a save was told is stored stays stored until its row is
written (`Sealing`); `NoWrites` says that a row left behind is written before the
inventory of the next collection is listed, so a collection that has read every reference
page (`Scanning`) keeps what any row refers to when it deletes (`Keeping`). `Leased`,
`Asked`, `Pending` and `Idling` say who holds the lease, which request each caller waits
for and that one who has not asked has no reply, and `Reading` follows the reader. The
conjunction, `VaultInv`, was model-checked before it was proved, on an instance of 3.2
million states with a row from before the vault, timeouts, a crash and reads. Assumption:
`VaultAssumption`, which says that the numbers of saves, chunks, rows of a page and
records of a batch are positive and the bounds natural numbers.

### `DataCenterSync_proofs`

    THEOREM UploadedToOneHolds          == ASSUME SyncAssumption PROVE Spec => []UploadedToOne
    THEOREM NothingSkippedHolds         == ASSUME SyncAssumption PROVE Spec => []NothingSkippedSilently
    THEOREM BodyWithinOwnershipHolds    == ASSUME SyncAssumption PROVE Spec => []BodyWithinOwnership
    THEOREM SentUnderConsentHolds       == ASSUME SyncAssumption PROVE Spec => []SentUnderConsent
    THEOREM OneAgentHolds               == ASSUME SyncAssumption PROVE Spec => []OneAgentPerAccount
    THEOREM NoServiceBeforeCutoverHolds == ASSUME SyncAssumption PROVE Spec => []NoServiceBeforeCutover
    THEOREM SyncTypeHolds               == ASSUME SyncAssumption PROVE Spec => []SyncTypeOK

One consumer of the journal serves the accounts of the machine one after the other, and
every request may be lost, applied late, or found again by another process. The invariant
speaks of all the requests there are (`Made`: applied, given up, in a row, in hand). A
body of an account that is not the owner ends at the *floor*, where the owner took the
consumer over (`Bounded`); what the owner has in hand and in its row begins behind it
(`Working`, `Rows`); so bodies of two accounts are disjoint (`Disjoint`). The hard part
is the change of owner, which takes eight awaited steps. `Taking` says what holds before
each of them: the tail that was read covers every body of the others, what lies between
the server's cursor and that tail is audited before the consumer passes it, and the row of
the new owner is empty when the owner changes. `Contiguous` says that the server has no
gap before its cursor, so a cursor that is committed or rebased passes nothing that is not
covered. `Consented`, `Registered` and `Cutover` carry consent, registration and origin.
The conjunction, `SyncInv`, was model-checked before it was proved, exhaustively on 2.4
million states with two accounts, three sessions and two faults, and by simulation with
three accounts and all levels of consent. The module is an instance of the run's, so
`SyncAssumption` is a hypothesis and not an ASSUME: the constants are those of the client,
and `None` is neither an account nor a reason.

These are all parts of `SyncSafe` but `CursorsNeverDiverge`, which holds for one client
only (section 7) and stays with TLC.

## 5. Only model-checked

* Liveness (`EverythingSettles`, `EverythingEnds`): fairness and ENABLED are out of the
  prover's reach.
* `TypeOK` of the pipeline: the proofs carry the shape of the state they need in
  `RunInv`, `DeliveryInv`, `ArchiveInv`, `CommitInv` and `ScoreInv`.
* `PlanScheduler`, whose definitions are RECURSIVE (`ScheduleSafe`).
* The components without a proof module: the properties that the MC modules compose are
  checked on the instances of section 3. Of `SyncSafe`, `CursorsNeverDiverge`.

## 6. Not modelled

* Rust and Swift: the native observer, its supervisor and sensors, the journals inside
  the host. They appear as the other end of the pipe, in the shape the TypeScript code
  uses them.
* Pure I/O and formats: encryption and keys, the wire protocols, manifest and archive
  parsing, the credential helper, audit capture, training export.
* Prompts, model calls and model relays: an inference is one of its outcomes.
* The renderer and the pet's animation.
* Within the modelled parts: the legacy cutover and the baseline table of the ledger,
  SQLite failures of the ledger itself, the calendar tools of conversations, the
  questions of a planning session, building of timeline episodes, coalescing of events
  within a reflection window.

## 7. Disagreements found

Two have a run. `write_after_logout`: `call()` awaits the write of `tool.call.started`
before its critical operation begins (`bun/agent-run-coordinator.ts:1998`); when the
sidecar exits in that gap, a sign-out finds nothing to wait for and the approved write
takes effect after it, against `docs/CONVERSATION_AGENT_INTEGRATION.md:116`.
`cursor_divergence`: `rebaseConsumerForAccount` commits the local consumer before the
advance is sent and before the owner row changes (`bun/data-center-sync.ts:612`); when it
stops there and the previous owner returns, every round ends in the exception of line
374, which says that this cannot be.

The others were met while modelling; the sentence is quoted, as a property that the
code does not have, in the module named, and no run keeps it:

* `ActivityPipeline`: `JobStaysRecoverable` (one exit of the sidecar makes a job
  terminal; `docs/REFLECTION_SYSTEM.md:247` calls it recoverable), `NoBackScan`
  (`start()` scans windows again; lines 244 and 245 say it does not), `CursorNotBlocked`
  (the collector's notification queues behind a drain whose request is out),
  `NoStrandedJob` (a run that is failing while a refresh takes place stays in the active
  map and holds its job until the process ends or the user signs out).
* `AgentRuns`: `LogoutLeavesNoRun` (a session that ends during the write of a terminal
  record leaves the run in the active map), `AnsweredOnlyWhenAsked` (two answers to one
  planning question that are under way together are both accepted).
* `MastraHost`: `EventFramesValid` (a start and a cancel read together give
  `run.cancelled` followed by `run.started`).
* `AppUpdateController`: `StagingRetryable`, `MandatoryInstalled` (a release that is ready
  is downloaded again and cannot be staged; a mandatory release published meanwhile is
  not noticed). `ProcessShutdown`: `FailureIsRetryable` (memoised close promises).
* `PlanningAdjustment`: `FailedMeansUnwritten` with lost replies, `FailureKeepsActive`,
  `FirstConfirmationCommits`, `PendingIsFinalised`. `PlanningVault`: `ScanCompletes`.
  `GoalBoundary`: `RetryCompletesMirror`. `TimelineCollector`: `GoalsFollow`.
* `ReflectionStream`: `NothingSkipped` when the host restarts between two subscriptions
  or its broadcast lags, `NothingAdopted` with a login deferred while a candidate is
  already live.

## 8. Plan

What would come next: proofs about `RemoteAuthSession`; models of the audit capture and of
the credential helper's client, which are now taken as given.
