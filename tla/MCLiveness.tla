----------------------------- MODULE MCLiveness -----------------------------
(***************************************************************************)
(* Liveness of the components whose waits and retries have to end. A       *)
(* behaviour runs one of them, which 'part' names, while the others stay   *)
(* in an initial state; the fairness is the one each component states for  *)
(* itself.                                                                 *)
(***************************************************************************)
EXTENDS Integers, Sequences, FiniteSets

VARIABLES
    part,   \* the component that runs; it never changes
    \* DeliveryLifecycle
    session, lc, att, open, rel, waiters, deliveryUsed,
    \* AppUpdateController
    updateSnap, man, chk, dl, ins, adapter, shut, owned, timer, updateLife, pub, over,
    updateUsed,
    \* UpdateInstaller
    app, main, launcher, cand, dirs, helper, ready, late, installerResult, started,
    first, installerUsed,
    \* LocalHost
    tree, told, client, clean, stop, pending, replies, caller, runtime, stopResult,
    nativeUsed,
    \* MastraHost
    up, rec, born, valid, ends, plan, mastraSnap, asked, mastraUsed,
    \* TimelineJobs
    job, timelineResult, out, old, run, aborted, held, timelineFailed, lost,
    timelineFaults,
    \* ReflectionJobs
    jobs, journal, notes, runner, shown, spent, now, reflectionUsed,
    \* ProcessShutdown
    latched, reqs, runs, orphan, revoke, startup, rpc, fl, broken, natStop, pc, waits,
    completed, shutdownFailed, auto, pend, shutdownLife, shutdownFaults

deliveryVars == <<session, lc, att, open, rel, waiters, deliveryUsed>>
updateVars == <<updateSnap, man, chk, dl, ins, adapter, shut, owned, timer, updateLife,
                pub, over, updateUsed>>
installerVars == <<app, main, launcher, cand, dirs, helper, ready, late,
                   installerResult, started, first, installerUsed>>
nativeVars == <<tree, told, client, clean, stop, pending, replies, caller, runtime,
                stopResult, nativeUsed>>
mastraVars == <<up, rec, born, valid, ends, plan, mastraSnap, asked, mastraUsed>>
timelineVars == <<job, timelineResult, out, old, run, aborted, held, timelineFailed,
                  lost, timelineFaults>>
reflectionVars == <<jobs, journal, notes, runner, shown, spent, now, reflectionUsed>>
shutdownVars == <<latched, reqs, runs, orphan, revoke, startup, rpc, fl, broken,
                  natStop, pc, waits, completed, shutdownFailed, auto, pend, shutdownLife,
                  shutdownFaults>>
vars == <<part, deliveryVars, updateVars, installerVars, nativeVars, mastraVars,
          timelineVars, reflectionVars, shutdownVars>>

\* The delivery bundle: two starts, one session, a stop.
Delivery == INSTANCE DeliveryLifecycle WITH
    MaxStarts <- 2, MaxKeys <- 1, MaxStops <- 1, MaxFaults <- 1, used <- deliveryUsed

\* One release, which is mandatory.
Update == INSTANCE AppUpdateController WITH
    Latest <- 1, Mandatory <- {1}, MaxFaults <- 2, MaxLate <- 1, MaxQuits <- 1,
    snap <- updateSnap, life <- updateLife, used <- updateUsed

\* The installation on Windows.
Installer == INSTANCE UpdateInstaller WITH
    Platform <- "win", MaxFaults <- 3, MaxKills <- 1, MaxAttempts <- 2,
    result <- installerResult, used <- installerUsed

\* The owner of the native process: one caller, two processes.
Native == INSTANCE LocalHost WITH
    Callers <- {"c1"}, App <- "app", MaxSpawns <- 2, MaxStops <- 1, MaxFaults <- 1,
    JobObject <- TRUE, used <- nativeUsed

\* The Mastra host: a planning run and a conversation.
Mastra == INSTANCE MastraHost WITH
    Runs <- {"p", "c"}, Planner <- "p", MaxRounds <- 1, MaxRetained <- 2,
    MaxCrashes <- 0, MaxFaults <- 1, MaxDeltas <- 0, snap <- mastraSnap,
    used <- mastraUsed

\* The jobs of one window of the timeline.
Timeline == INSTANCE TimelineJobs WITH
    Windows <- {1}, Consumers <- {"c1"}, MaxRetries <- 2, MaxLeases <- 0,
    MaxFaults <- 1, result <- timelineResult, failed <- timelineFailed,
    faults <- timelineFaults

\* The job of a window of reflection; no failure is fatal.
Reflection == INSTANCE ReflectionJobs WITH
    Windows <- {1}, Keys <- {"k"}, LEASE <- 1, TERMINAL_AFTER <- 2, DEDUPLICATION <- 2,
    DRAINING <- 3, Faults <- {"retry"}, MaxTime <- 3, MaxFaults <- 1, MaxCrashes <- 1,
    MaxStops <- 0, MaxReplays <- 0, used <- reflectionUsed

\* The shutdown while nothing of it fails and an account is signed in.
Shutdown == INSTANCE ProcessShutdown WITH
    Flights <- {"runs", "reflection", "native", "repository"}, Failing <- {},
    MaxRequests <- 0, MaxFaults <- 0, LateAttempts <- {FALSE}, failed <- shutdownFailed,
    life <- shutdownLife, faults <- shutdownFaults

\* Nothing is under way when the quit arrives.
Quiet == Shutdown!Init /\ reqs = 0 /\ ~runs /\ ~orphan /\ ~rpc /\ startup = "done"

Init ==
    \/ /\ part = "delivery" /\ Delivery!Init
       /\ Update!Init /\ Installer!Init /\ Native!Init /\ Mastra!Init /\ Timeline!Init
       /\ Reflection!Init /\ Quiet
    \/ /\ part = "update" /\ Update!Init
       /\ Delivery!Init /\ Installer!Init /\ Native!Init /\ Mastra!Init /\ Timeline!Init
       /\ Reflection!Init /\ Quiet
    \/ /\ part = "windows" /\ Installer!Init
       /\ Delivery!Init /\ Update!Init /\ Native!Init /\ Mastra!Init /\ Timeline!Init
       /\ Reflection!Init /\ Quiet
    \/ /\ part = "host" /\ Native!Init
       /\ Delivery!Init /\ Update!Init /\ Installer!Init /\ Mastra!Init /\ Timeline!Init
       /\ Reflection!Init /\ Quiet
    \/ /\ part = "mastra" /\ Mastra!Init
       /\ Delivery!Init /\ Update!Init /\ Installer!Init /\ Native!Init /\ Timeline!Init
       /\ Reflection!Init /\ Quiet
    \/ /\ part = "timeline" /\ Timeline!Init
       /\ Delivery!Init /\ Update!Init /\ Installer!Init /\ Native!Init /\ Mastra!Init
       /\ Reflection!Init /\ Quiet
    \/ /\ part = "reflection" /\ Reflection!Init
       /\ Delivery!Init /\ Update!Init /\ Installer!Init /\ Native!Init /\ Mastra!Init
       /\ Timeline!Init /\ Quiet
    \/ /\ part = "shutdown" /\ Shutdown!Init /\ ~orphan
       /\ Delivery!Init /\ Update!Init /\ Installer!Init /\ Native!Init /\ Mastra!Init
       /\ Timeline!Init /\ Reflection!Init

Next ==
    \/ /\ part = "delivery" /\ Delivery!Next
       /\ UNCHANGED <<part, updateVars, installerVars, nativeVars, mastraVars,
                       timelineVars, reflectionVars, shutdownVars>>
    \/ /\ part = "update" /\ Update!Next
       /\ UNCHANGED <<part, deliveryVars, installerVars, nativeVars, mastraVars,
                       timelineVars, reflectionVars, shutdownVars>>
    \/ /\ part = "windows" /\ Installer!Next
       /\ UNCHANGED <<part, deliveryVars, updateVars, nativeVars, mastraVars,
                       timelineVars, reflectionVars, shutdownVars>>
    \/ /\ part = "host" /\ Native!Next
       /\ UNCHANGED <<part, deliveryVars, updateVars, installerVars, mastraVars,
                       timelineVars, reflectionVars, shutdownVars>>
    \/ /\ part = "mastra" /\ Mastra!Next
       /\ UNCHANGED <<part, deliveryVars, updateVars, installerVars, nativeVars,
                       timelineVars, reflectionVars, shutdownVars>>
    \/ /\ part = "timeline" /\ Timeline!LiveNext
       /\ UNCHANGED <<part, deliveryVars, updateVars, installerVars, nativeVars,
                       mastraVars, reflectionVars, shutdownVars>>
    \/ /\ part = "reflection" /\ Reflection!Next
       /\ UNCHANGED <<part, deliveryVars, updateVars, installerVars, nativeVars,
                       mastraVars, timelineVars, shutdownVars>>
    \/ /\ part = "shutdown" /\ (Shutdown!Step \/ Shutdown!Exited)
       /\ UNCHANGED <<part, deliveryVars, updateVars, installerVars, nativeVars,
                       mastraVars, timelineVars, reflectionVars>>

Spec == Init /\ [][Next]_vars


UpdateVars == Update!vars
DeliveryVars == Delivery!vars
InstallerVars == Installer!vars
NativeVars == Native!vars
MastraVars == Mastra!vars
TimelineVars == Timeline!vars
ReflectionVars == Reflection!vars
ShutdownVars == Shutdown!vars

\* The fairness the components state for themselves.
Fairness ==
    /\ WF_DeliveryVars(part = "delivery" /\ Delivery!AttemptSteps)
    /\ WF_DeliveryVars(part = "delivery" /\ Delivery!StopJoins)
    /\ WF_DeliveryVars(part = "delivery" /\ Delivery!ReleasePart)
    /\ WF_DeliveryVars(part = "delivery" /\ Delivery!ReleaseEnds)
    /\ WF_DeliveryVars(part = "delivery" /\ Delivery!StartResumes)
    /\ WF_UpdateVars(part = "update" /\ Update!CheckSteps)
    /\ WF_UpdateVars(part = "update" /\ Update!DownloadSteps)
    /\ WF_UpdateVars(part = "update" /\ Update!InstallSteps)
    /\ WF_UpdateVars(part = "update" /\ Update!TimerSteps)
    /\ WF_InstallerVars(part = "windows" /\ Installer!AppSteps)
    /\ WF_InstallerVars(part = "windows" /\ Installer!HelperSteps)
    /\ WF_InstallerVars(part = "windows" /\ Installer!LauncherEnds)
    /\ WF_NativeVars(part = "host" /\ Native!ClientStep)
    /\ \A i \in Native!Ids :
         WF_NativeVars(/\ part = "host"
                     /\ \/ Native!HostAnswers(i) \/ Native!RequestTimesOut(i)
                        \/ \E n \in Native!Procs : Native!ReadAnswer(n, i))
    /\ \A n \in Native!Procs :
         WF_NativeVars(part = "host" /\ tree[n] = "dying" /\ Native!LeaderEnds(n))
    /\ \A r \in {"p", "c"} :
         WF_MastraVars(part = "mastra" /\ (Mastra!Execute(r) \/ Mastra!StepFails(r)))
    /\ WF_MastraVars(part = "mastra" /\ Mastra!ShutdownStep)
    /\ WF_TimelineVars(part = "timeline" /\ Timeline!Runner)
    /\ WF_TimelineVars(part = "timeline" /\ Timeline!Restart)
    /\ WF_TimelineVars(part = "timeline" /\ Timeline!RetryDue(1))
    /\ WF_TimelineVars(part = "timeline" /\ Timeline!LeaseLapses(1))
    /\ WF_TimelineVars(part = "timeline" /\ Timeline!Ages(1))
    /\ WF_ReflectionVars(part = "reflection" /\ Reflection!RunnerSteps)
    /\ WF_ReflectionVars(part = "reflection" /\ Reflection!Tick)
    /\ WF_ShutdownVars(part = "shutdown" /\ shutdownLife # "exited" /\ Shutdown!Work)
    /\ WF_ShutdownVars(part = "shutdown" /\ shutdownLife # "exited" /\ Shutdown!Sequence)
    /\ WF_ShutdownVars(part = "shutdown" /\ shutdownLife # "exited" /\ Shutdown!AutomaticRetry)
    /\ \A f \in {"runs", "reflection", "native", "repository"} :
         WF_ShutdownVars(part = "shutdown" /\ shutdownLife # "exited" /\ Shutdown!Owner(f))

FairSpec == Spec /\ Fairness


-----------------------------------------------------------------------------
(* Properties                                                              *)

\* Every stop ends, and no start call waits for ever.
StopsEnd == Delivery!StopsEnd


WaitersResume == Delivery!WaitersResume

\* Everything the updater shows as under way ends: a spinner is never for ever.
WorkEnds == Update!WorkEnds

\* Once the application has exited for the helper, some application comes up again,
\* unless the helper is killed or the attempts to start one fail.
UpAgain == Installer!UpAgain

\* Every caller gets an answer or an error, whatever happens to the host.
CallersSettle == Native!CallersSettle

\* A run that was accepted ends or waits for the user, unless the process ends first
\* (schedule, failUnlessTerminal).
RunsSettle == Mastra!RunsSettle

\* A sealed window is committed, given up or removed by retention in the end: an attempt
\* that fails for 24 hours is given up.
EveryJobEnds == Timeline!EveryJobEnds

\* A retryable failure ends a job only after TERMINAL_AFTER of failing.
GivesUpLate == Reflection!GivesUpLate

\* Every job is committed or given up in the end.
EverySettled == Reflection!EverySettled

\* One quit is enough when owners are merely late: the process exits although deadlines
\* passed. Only a quit whose time was over before an owner was asked, so that none is
\* pending, is left to the user (app-lifecycle.ts 202).
QuitEnds == Shutdown!QuitEnds

\* Whoever waits is answered and whatever is retried ends.
EverythingEnds ==
    /\ StopsEnd
    /\ WaitersResume
    /\ WorkEnds
    /\ UpAgain
    /\ CallersSettle
    /\ RunsSettle
    /\ EveryJobEnds
    /\ GivesUpLate
    /\ EverySettled
    /\ QuitEnds
=============================================================================
