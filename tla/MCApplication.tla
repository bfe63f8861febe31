---------------------------- MODULE MCApplication ----------------------------
(***************************************************************************)
(* Model checking of the application's life: its shutdown, its update and  *)
(* the installer of the update on both platforms, and the owner of its     *)
(* native process. A behaviour runs one of them, which 'part' names.       *)
(* ProcessShutdown stays in its initial state meanwhile; the variables of  *)
(* the others are 0.                                                       *)
(***************************************************************************)
EXTENDS ProcessShutdown

VARIABLES
    part,   \* the component that runs; it never changes
    \* AppUpdateController
    snap, man, chk, dl, ins, adapter, shut, owned, timer, updateLife, pub, over,
    \* UpdateInstaller
    app, main, launcher, cand, dirs, helper, ready, late, result, started, first,
    \* LocalHost
    tree, told, client, clean, stop, pending, replies, caller, runtime, stopResult,
    \* of more than one component
    used

updateVars == <<snap, man, chk, dl, ins, adapter, shut, owned, timer, updateLife, pub,
                over>>
installerVars == <<app, main, launcher, cand, dirs, helper, ready, late, result,
                   started, first>>
hostVars == <<tree, told, client, clean, stop, pending, replies, caller, runtime,
              stopResult>>
mcVars == <<part, vars, updateVars, installerVars, hostVars, used>>

NoUpdate ==
    /\ snap = 0 /\ man = 0 /\ chk = 0 /\ dl = 0 /\ ins = 0 /\ adapter = 0
    /\ shut = 0 /\ owned = 0 /\ timer = 0 /\ updateLife = 0 /\ pub = 0 /\ over = 0
NoInstaller ==
    /\ app = 0 /\ main = 0 /\ launcher = 0 /\ cand = 0 /\ dirs = 0 /\ helper = 0
    /\ ready = 0 /\ late = 0 /\ result = 0 /\ started = 0 /\ first = 0
NoHost ==
    /\ tree = 0 /\ told = 0 /\ client = 0 /\ clean = 0 /\ stop = 0 /\ pending = 0
    /\ replies = 0 /\ caller = 0 /\ runtime = 0 /\ stopResult = 0

\* Two releases, the second of which is mandatory.
Update == INSTANCE AppUpdateController WITH
    Latest <- 2, Mandatory <- {2}, MaxFaults <- 2, MaxLate <- 1, MaxQuits <- 1,
    life <- updateLife

\* The installation on macOS.
Mac == INSTANCE UpdateInstaller WITH
    Platform <- "macos", MaxFaults <- 3, MaxKills <- 2, MaxAttempts <- 2

\* The installation on Windows.
Windows == INSTANCE UpdateInstaller WITH
    Platform <- "win", MaxFaults <- 3, MaxKills <- 2, MaxAttempts <- 2

\* The owner of the native process: two callers, three processes, two stops.
Host == INSTANCE LocalHost WITH
    Callers <- {"c1", "c2"}, App <- "app", MaxSpawns <- 3, MaxStops <- 2,
    MaxFaults <- 1, JobObject <- FALSE

\* Nothing is under way.
Quiet == Init /\ reqs = 0 /\ ~runs /\ ~orphan /\ ~rpc /\ startup = "done"

\* A session that is being cleared meets a finished startup and no waiting answer.
ShutdownBounded == orphan => startup = "done" /\ ~rpc

\* Three processes, or two stops, or a fault.
HostBounded ==
    /\ used.spawns > 2 => used.stops + used.faults <= 1
    /\ used.stops > 1 => used.faults = 0

MCInit ==
    \/ /\ part = "shutdown" /\ Init /\ ShutdownBounded
       /\ NoUpdate /\ NoInstaller /\ NoHost /\ used = 0
    \/ /\ part = "update" /\ Update!Init
       /\ Quiet /\ NoInstaller /\ NoHost
    \/ /\ part = "macos" /\ Mac!Init
       /\ Quiet /\ NoUpdate /\ NoHost
    \/ /\ part = "windows" /\ Windows!Init
       /\ Quiet /\ NoUpdate /\ NoHost
    \/ /\ part = "host" /\ Host!Init
       /\ Quiet /\ NoUpdate /\ NoInstaller

MCNext ==
    \/ /\ part = "shutdown" /\ Next
       /\ UNCHANGED <<part, updateVars, installerVars, hostVars, used>>
    \/ /\ part = "update" /\ Update!Next
       /\ UNCHANGED <<part, vars, installerVars, hostVars>>
    \/ /\ part = "macos" /\ Mac!Next
       /\ UNCHANGED <<part, vars, updateVars, hostVars>>
    \/ /\ part = "windows" /\ Windows!Next
       /\ UNCHANGED <<part, vars, updateVars, hostVars>>
    \/ /\ part = "host" /\ Host!Next /\ HostBounded'
       /\ UNCHANGED <<part, vars, updateVars, installerVars>>

MCSpec == MCInit /\ [][MCNext]_mcVars

-----------------------------------------------------------------------------
(* Properties                                                              *)

\* What is installed is what was staged and verified, an offer can be installed, one
\* worker runs at a time, and an update ends or replaces no quit before the application
\* is drained. (UpdateTypeOK, InstalledIsStaged, OfferIsStaged, OneWorker, EndsDrained,
\* QuitNotReplaced of AppUpdateController.)
UpdateSafeStates ==
    part = "update" =>
      /\ Update!UpdateTypeOK
      /\ Update!InstalledIsStaged
      /\ Update!OfferIsStaged
      /\ Update!OneWorker
      /\ Update!EndsDrained
UpdateSafeSteps ==
    part = "update" => Update!QuitNotReplacedStep
UpdateSafe ==
    [][UpdateSafeStates /\ UpdateSafeStates' /\ UpdateSafeSteps]_mcVars

\* The path of the application is never empty on macOS; on both platforms the old one is
\* never lost and only a valid new one takes its place, after the exit, and a reported
\* failure means the old one is in place with no helper left. (InstallerTypeOK, PathNeverEmpty, OldNeverLost, OnlyValidInstalled,
\* FailureMeansIntact, MovedAfterExit, InstalledIsUp, RolledBackIsOld of
\* UpdateInstaller.)
InstallationSafe ==
    /\ part = "macos" =>
         /\ Mac!InstallerTypeOK
         /\ Mac!PathNeverEmpty
         /\ Mac!OldNeverLost
         /\ Mac!OnlyValidInstalled
         /\ Mac!FailureMeansIntact
         /\ Mac!MovedAfterExit
         /\ Mac!InstalledIsUp
         /\ Mac!RolledBackIsOld
    /\ part = "windows" =>
         /\ Windows!InstallerTypeOK
         /\ Windows!OldNeverLost
         /\ Windows!OnlyValidInstalled
         /\ Windows!FailureMeansIntact
         /\ Windows!MovedAfterExit
         /\ Windows!InstalledIsUp
         /\ Windows!RolledBackIsOld

\* A live process is owned by the client, the quit leaves none behind, and none is
\* started after it. (TypeOK, LiveIsOwned, QuitMeansGone, NoSpawnAfterQuit of
\* LocalHost.)
NativeSafeStates ==
    part = "host" =>
      /\ Host!TypeOK
      /\ Host!LiveIsOwned
      /\ Host!QuitMeansGone
NativeSafeSteps ==
    part = "host" => Host!NoSpawnAfterQuitStep
NativeSafe ==
    [][NativeSafeStates /\ NativeSafeStates' /\ NativeSafeSteps]_mcVars
=============================================================================
