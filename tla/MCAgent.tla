------------------------------- MODULE MCAgent -------------------------------
(***************************************************************************)
(* Model checking of the agent: the coordinator's runs with their tool     *)
(* approvals, the client of the Mastra sidecar, and the host inside the    *)
(* sidecar. A behaviour runs one of them, which 'part' names. AgentRuns    *)
(* stays in its initial state meanwhile; the variables of the others are   *)
(* 0.                                                                      *)
(***************************************************************************)
EXTENDS AgentRuns

CONSTANTS
    Planning, Conversation     \* runs of the host

VARIABLES
    part,   \* the component that runs; it never changes
    \* MastraSidecar
    child, proc, ready, shutdown, timer, req, owed, inbox, host, clientTracked, ended,
    queue, told, calling, stop, rung, faults,
    \* MastraHost
    up, rec, born, valid, ends, plan, snap, asked, hostUsed

clientVars == <<child, proc, ready, shutdown, timer, req, owed, inbox, host,
                clientTracked, ended, queue, told, calling, stop, rung, faults>>
hostVars == <<up, rec, born, valid, ends, plan, snap, asked, hostUsed>>
mcVars == <<part, vars, clientVars, hostVars>>

NoClient ==
    /\ child = 0 /\ proc = 0 /\ ready = 0 /\ shutdown = 0 /\ timer = 0 /\ req = 0
    /\ owed = 0 /\ inbox = 0 /\ host = 0 /\ clientTracked = 0 /\ ended = 0 /\ queue = 0
    /\ told = 0 /\ calling = 0 /\ stop = 0 /\ rung = 0 /\ faults = 0
NoHost ==
    /\ up = 0 /\ rec = 0 /\ born = 0 /\ valid = 0 /\ ends = 0 /\ plan = 0
    /\ snap = 0 /\ asked = 0 /\ hostUsed = 0

\* The client of the sidecar: one request that is made twice, two processes.
Client == INSTANCE MastraSidecar WITH
    Ids <- {1}, MaxKids <- 2, MaxTries <- 2, MaxFrames <- 1, MaxFaults <- 1,
    tracked <- clientTracked

\* The process itself: a planning run and another, of which it keeps one.
Host == INSTANCE MastraHost WITH
    Runs <- {Planning, Conversation}, Planner <- Planning, MaxRounds <- 1,
    MaxRetained <- 1, MaxCrashes <- 1, MaxFaults <- 1, MaxDeltas <- 0, used <- hostUsed

\* Two commands and a crash, or one command with the end of the session, of the
\* sidecar's process, a failing write or a timeout; a planning run without a crash.
Bounded ==
    /\ kind = "task-planning" => used.crashes = 0 /\ used.cmds <= 1
    /\ \/ used.exits + used.faults + used.outs = 0
       \/ used.cmds <= 1 /\ used.exits + used.faults + used.outs = 1
          /\ used.exits + used.faults + used.crashes <= 1

\* A request that is made again, or a fault.
ClientBounded == faults = 0 \/ req[1].n <= 1

MCInit ==
    \/ /\ part = "runs" /\ Init
       /\ NoClient /\ NoHost
    \/ /\ part = "sidecar" /\ Client!Init
       /\ Init /\ NoHost
    \/ /\ part = "host" /\ Host!Init
       /\ Init /\ NoClient

MCNext ==
    \/ /\ part = "runs" /\ Next /\ Bounded'
       /\ UNCHANGED <<part, clientVars, hostVars>>
    \/ /\ part = "sidecar" /\ Client!Next /\ ClientBounded'
       /\ UNCHANGED <<part, vars, hostVars>>
    \/ /\ part = "host" /\ Host!Next
       /\ UNCHANGED <<part, vars, clientVars>>

MCSpec == MCInit /\ [][MCNext]_mcVars

-----------------------------------------------------------------------------
(* Properties                                                              *)

\* An answer is taken from the process that was asked, an interrupted run is reported
\* once and never forgotten, a process that was given up is restarted, and none is left
\* or started when the application quits. (SidecarTypeOK, StopLeavesNothing,
\* AnsweredByItsProcess, NoRunForgotten, RestartScheduled, NoSpawnAfterShutdown,
\* InterruptedIsFinal of MastraSidecar.)
SidecarSafeStates ==
    part = "sidecar" =>
      /\ Client!SidecarTypeOK
      /\ Client!StopLeavesNothing
      /\ Client!AnsweredByItsProcess
      /\ Client!NoRunForgotten
      /\ Client!RestartScheduled
SidecarSafeSteps ==
    part = "sidecar" =>
      /\ Client!NoSpawnAfterShutdownStep
      /\ Client!InterruptedIsFinalStep
SidecarSafe ==
    [][SidecarSafeStates /\ SidecarSafeStates' /\ SidecarSafeSteps]_mcVars

\* A run ends once, a question is the current one and rounds are bounded, a live run is
\* never forgotten to make room, and nothing starts after the shutdown began.
\* (HostTypeOK, EndsOnce, RoundsBounded, QuestionIsCurrent, LiveRunKept, ShutdownIsFinal
\* of MastraHost.)
HostSafeStates ==
    part = "host" =>
      /\ Host!HostTypeOK
      /\ Host!EndsOnce
      /\ Host!RoundsBounded
      /\ Host!QuestionIsCurrent
HostSafeSteps ==
    part = "host" =>
      /\ Host!LiveRunKeptStep
      /\ Host!ShutdownIsFinalStep
HostSafe ==
    [][HostSafeStates /\ HostSafeStates' /\ HostSafeSteps]_mcVars
=============================================================================
