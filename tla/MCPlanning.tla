----------------------------- MODULE MCPlanning -----------------------------
(***************************************************************************)
(* Model checking of planning: the vault with its garbage collector, the   *)
(* adjustment of a plan by concurrent operations, the scheduler, and the   *)
(* boundary a change of the goal draws through journal, collector and      *)
(* host. A behaviour runs one of them, which 'part' names. PlanningVault   *)
(* stays in its initial state meanwhile; the variables of the others are   *)
(* 0.                                                                      *)
(***************************************************************************)
EXTENDS PlanningVault

AllKinds ==
    {"draft", "message", "retry", "confirm", "task", "pause", "resume", "complete",
     "archive", "calendar", "daily", "undo"}

VARIABLES
    part,   \* the component that runs; it never changes
    \* PlanningAdjustment
    history, cal, calOps, maint, orphans, outbox, adjustUsed,
    \* PlanScheduler
    in, order, cur, out,
    \* GoalBoundary
    log, v2, col, intent, json, rt, host, req, budget,
    \* of more than one component
    op

adjustVars == <<history, cal, calOps, maint, orphans, outbox, adjustUsed>>
scheduleVars == <<in, order, cur, out>>
goalVars == <<log, v2, col, intent, json, rt, host, req, budget>>
mcVars == <<part, vars, adjustVars, scheduleVars, goalVars, op>>

NoAdjust ==
    /\ history = 0 /\ cal = 0 /\ calOps = 0 /\ maint = 0 /\ orphans = 0 /\ outbox = 0
    /\ adjustUsed = 0
NoSchedule ==
    /\ in = 0 /\ order = 0 /\ cur = 0 /\ out = 0
NoGoal ==
    /\ log = 0 /\ v2 = 0 /\ col = 0 /\ intent = 0 /\ json = 0 /\ rt = 0
    /\ host = 0 /\ req = 0 /\ budget = 0

\* Two operations of an active plan with one task, of which one may be retried; the user
\* edits the calendar twice, the process crashes once, no write fails.
Adjust == INSTANCE PlanningAdjustment WITH
    Tasks <- {1}, First <- {1}, Kinds <- {"task", "calendar", "undo"},
    Starts <- {"active"}, MaxOps <- 2, MaxTries <- 3, MaxCrashes <- 1, MaxFaults <- 0,
    MaxEdits <- 1, used <- adjustUsed

\* One try of each operation, from every state of the plan; a write fails or its reply
\* is lost.
Operations == INSTANCE PlanningAdjustment WITH
    Tasks <- {1, 2}, First <- {1}, Kinds <- AllKinds,
    Starts <- {"none", "proposed", "active"}, MaxOps <- 2, MaxTries <- 2,
    MaxCrashes <- 1, MaxFaults <- 1, MaxEdits <- 0, used <- adjustUsed

\* Two days of ten minutes, three tasks.
Schedule == INSTANCE PlanScheduler WITH
    NumDays <- 2, DayLength <- 10, Quarter <- 2, Nows <- {3}, Sessions <- {2},
    Capacities <- {2, 9}, Estimates <- {4}

\* Three changes of the goal among three targets, deaths of the host and the
\* application, one failing write.
Goal == INSTANCE GoalBoundary WITH
    Targets <- {1, 2, 3}, MaxRequests <- 3, MaxHostDeaths <- 2, MaxAppDeaths <- 1,
    MaxMirrorErrors <- 1

\* A read, or a request that times out, or a crash; with a read or a crash two
\* calls of save, one before a read that times out.
Bounded ==
    /\ used.timeouts + used.crashes <= 1 /\ used.reads + used.crashes <= 1
    /\ used.reads + used.timeouts = 2 => used.tries = 1
    /\ used.reads + used.crashes = 1 => used.tries <= 2

\* A failing write or a crash.
OperationsBounded == adjustUsed.faults + adjustUsed.crashes <= 1

MCInit ==
    \/ /\ part = "vault" /\ Init
       /\ NoAdjust /\ NoSchedule /\ NoGoal /\ op = 0
    \/ /\ part = "adjust" /\ Adjust!Init
       /\ Init /\ NoSchedule /\ NoGoal
    \/ /\ part = "operations" /\ Operations!Init
       /\ Init /\ NoSchedule /\ NoGoal
    \/ /\ part = "schedule" /\ Schedule!Init
       /\ Init /\ NoAdjust /\ NoGoal /\ op = 0
    \/ /\ part = "goal" /\ Goal!Init
       /\ Init /\ NoAdjust /\ NoSchedule

MCNext ==
    \/ /\ part = "vault" /\ Next /\ Bounded'
       /\ UNCHANGED <<part, adjustVars, scheduleVars, goalVars, op>>
    \/ /\ part = "adjust" /\ Adjust!Next
       /\ UNCHANGED <<part, vars, scheduleVars, goalVars>>
    \/ /\ part = "operations" /\ Operations!Next /\ OperationsBounded'
       /\ UNCHANGED <<part, vars, scheduleVars, goalVars>>
    \/ /\ part = "schedule" /\ Schedule!Next
       /\ UNCHANGED <<part, vars, adjustVars, goalVars, op>>
    \/ /\ part = "goal" /\ Goal!Next
       /\ UNCHANGED <<part, vars, adjustVars, scheduleVars>>

MCSpec == MCInit /\ [][MCNext]_mcVars

-----------------------------------------------------------------------------
(* Properties                                                              *)

\* A failed adjustment wrote nothing, an active plan never becomes failed, a key has one
\* version, an applied adjustment is in the calendar and was made for the events it met.
\* (FailedMeansUnwritten, ActiveNeverFailed, OneVersionPerKey, BatchMeetsItsEvents,
\* PlanningTypeOK, AppliedIsCommitted of PlanningAdjustment.)
AdjustmentSafeStates ==
    /\ part = "adjust" =>
         /\ Adjust!FailedMeansUnwritten
         /\ Adjust!ActiveNeverFailed
         /\ Adjust!OneVersionPerKey
    /\ part = "operations" =>
         /\ Operations!PlanningTypeOK
         /\ Operations!AppliedIsCommitted
AdjustmentSafeSteps ==
    part = "adjust" => Adjust!BatchMeetsItsEventsStep
AdjustmentSafe ==
    [][AdjustmentSafeStates /\ AdjustmentSafeStates' /\ AdjustmentSafeSteps]_mcVars

\* No two sessions overlap, each takes the first slot that fits within the capacity of
\* its day, dependencies come first, no part of a task is forgotten and the sessions of
\* today are kept. (SchedulerTypeOK, NoDoubleBooking, FirstFit, DependenciesFirst,
\* WithinCapacity, NothingForgotten, EstimateIsLastSession, TodayIsFrozen of
\* PlanScheduler.)
ScheduleSafe ==
    part = "schedule" =>
      /\ Schedule!SchedulerTypeOK
      /\ Schedule!NoDoubleBooking
      /\ Schedule!FirstFit
      /\ Schedule!DependenciesFirst
      /\ Schedule!WithinCapacity
      /\ Schedule!NothingForgotten
      /\ Schedule!EstimateIsLastSession
      /\ Schedule!TodayIsFrozen

\* The intent of the user is applied and never rolled back, the journal can always be
\* consumed, and no goal is in force that was not prepared. (TypeOK, NoRollback,
\* ChainConsumable, IntentApplied, NeverUnprepared of GoalBoundary.)
GoalSafeStates ==
    part = "goal" =>
      /\ Goal!TypeOK
      /\ Goal!NoRollback
      /\ Goal!ChainConsumable
      /\ Goal!IntentApplied
GoalSafeSteps ==
    part = "goal" => Goal!NeverUnpreparedStep
GoalSafe ==
    [][GoalSafeStates /\ GoalSafeStates' /\ GoalSafeSteps]_mcVars
=============================================================================
