------------------------------ MODULE LocalHost ------------------------------
(***************************************************************************)
(* Who owns the native process.  LocalToolClient spawns whalehall-local,   *)
(* correlates its answers, and when the process fails or is stopped keeps  *)
(* owning it until the end of its whole process tree is confirmed; only    *)
(* then may a replacement be spawned.  AgentRuntime sits on top: every     *)
(* caller goes through ensureStarted, concurrent starts share one promise, *)
(* and the quit of the application forbids further starts.                 *)
(*                                                                         *)
(* A process is the number of its spawn.  Continuations that follow each   *)
(* other by microtasks alone are one step: nothing else can run between    *)
(* them.  What the requests say, and the startup goal the preparation      *)
(* carries (module GoalBoundary), are left out.                            *)
(***************************************************************************)
EXTENDS Integers, FiniteSets

CONSTANTS
    Callers,        \* callers of the runtime, one request each
    App,            \* the startup sequence of the application
    MaxSpawns,      \* processes spawned at most
    MaxStops,       \* calls of AgentRuntime.stop at most
    MaxFaults,      \* failing spawns and kills, and broken pipes, at most
    JobObject       \* TRUE on Windows: the tree ends with its leader

HostAssumption ==
    /\ App \notin Callers
    /\ {MaxSpawns, MaxStops, MaxFaults} \subseteq Nat
    /\ JobObject \in BOOLEAN

VARIABLES
    tree,           \* what is left of each process tree
    told,           \* processes whose exit the client has handled
    client,         \* LocalToolClient: child, failed, cleanup, stopping
    clean,          \* forced cleanup of each process: its stage
    stop,           \* the shared stop operation: its stage and its process
    pending,        \* request of each caller, and the health check of App: its process
    replies,        \* answers written by a process and not read yet
    caller,         \* stage of every caller
    runtime,        \* AgentRuntime: prepared, auto, shutdown, boot
    stopResult,     \* how the last call of stop ended
    used            \* bounds: spawns, stops, faults

vars == <<tree, told, client, clean, stop, pending, replies, caller, runtime,
          stopResult, used>>

Procs == 1..MaxSpawns
All == Callers \cup {App}
Health == "health"
Ids == Callers \cup {Health}

Alive(n) == tree[n] \in {"up", "orphans", "dying"}
LeaderGone(n) == tree[n] \in {"orphans", "gone"}

(* The process is usable: it is owned and has not failed. *)
IsRunning == client.child # 0 /\ client.child \notin client.failed

(* Mutant: the exit of the leader is taken for the end of the tree.        *)
TreeEnded_LeaderIsEnough(n) == LeaderGone(n)

(* What the client asks of an owned tree before it lets go of it.          *)
TreeEnded(n) == LeaderGone(n) /\ (JobObject \/ tree[n] = "gone")

Fault == used.faults < MaxFaults
Faulted == [used EXCEPT !.faults = @ + 1]

(* No stop operation is under way. *)
NoStop == [stage |-> "none", child |-> 0]

Init ==
    /\ tree = [n \in Procs |-> "no"]
    /\ told = {}
    /\ client = [child |-> 0, failed |-> {}, cleanup |-> 0, stopping |-> FALSE]
    /\ clean = [n \in Procs |-> "none"]
    /\ stop = NoStop
    /\ pending = [i \in Ids |-> 0]
    /\ replies = {}
    /\ caller = [c \in All |-> "idle"]
    /\ runtime = [prepared |-> FALSE, auto |-> FALSE, shutdown |-> FALSE, boot |-> "none"]
    /\ stopResult = "none"
    /\ used = [spawns |-> 0, stops |-> 0, faults |-> 0]

-----------------------------------------------------------------------------
(* Pieces of the client.                                                   *)

(* forceCloseFailedProcessTree, registered once per process: it is over at *)
(* once when the exit of the leader is known to have completed the tree.   *)
BeginCleanup(cl, n, exitKnown) ==
    [clean |-> IF cl.cleanup = n THEN clean
               ELSE [clean EXCEPT ![n] =
                        IF exitKnown /\ TreeEnded(n) THEN "done" ELSE "kill"],
     client |-> [cl EXCEPT !.cleanup = n]]

(* Callers whose request is rejected, and what the startup does when its   *)
(* health check is: with the quit under way it stops what is running.      *)
Rejected == {c \in Callers : pending[c] # 0}
HealthLost == pending[Health] # 0

(* The boot operation ends: the callers behind it issue their request if   *)
(* the process is usable and the application is not quitting.              *)
BootEnds(rt, callers, pend, running, n) ==
    LET waiting == {c \in All : callers[c] = "boot"}
        go == running /\ ~rt.shutdown
    IN  [runtime |-> [rt EXCEPT !.boot = "none",
                                !.auto = @ \/ (go /\ App \in waiting)],
         caller |-> [c \in All |->
                        IF c \notin waiting THEN callers[c]
                        ELSE IF ~go THEN "err"
                        ELSE IF c = App THEN "ok" ELSE "wait"],
         pending |-> [i \in Ids |-> IF i \in waiting /\ go /\ i # App THEN n
                                    ELSE pend[i]]]

(* Every pending request is rejected; a lost health check ends the boot.   *)
(* still: whether the process stays usable, as seen by the boot.           *)
RejectAll(rt, n, still) ==
    LET rejected == [c \in All |-> IF c \in Rejected THEN "err" ELSE caller[c]]
        none == [i \in Ids |-> 0]
    IN  IF ~HealthLost THEN [runtime |-> rt, caller |-> rejected, pending |-> none]
        ELSE IF rt.shutdown /\ still
        THEN [runtime |-> [rt EXCEPT !.boot = "stop"], caller |-> rejected, pending |-> none]
        ELSE BootEnds(rt, rejected, none, still, n)

(* AgentRuntime.handleFailure: the next start has to prepare again.        *)
Relocked(rt) == [rt EXCEPT !.prepared = FALSE]

(* failChild and the unexpected exit in handleExit. *)
FailChild(n, exitKnown) ==
    LET marked == [client EXCEPT !.failed = @ \cup {n}]
        begun == BeginCleanup(marked, n, exitKnown)
        after == RejectAll(Relocked(runtime), n, FALSE)
    IN  /\ client' = begun.client
        /\ clean' = begun.clean
        /\ runtime' = after.runtime
        /\ caller' = after.caller
        /\ pending' = after.pending

(* spawnLocal, reached with no process owned; its health check is issued   *)
(* at once.  S: the callers that share this start.                         *)
SpawnFor(S, cl, rt, callers) ==
    LET n == used.spawns + 1
    IN  \/ /\ n \in Procs
           /\ tree' = [tree EXCEPT ![n] = "up"]
           /\ client' = [cl EXCEPT !.child = n, !.stopping = FALSE]
           /\ runtime' = [rt EXCEPT !.boot = "health"]
           /\ pending' = [pending EXCEPT ![Health] = n]
           /\ caller' = [c \in All |-> IF c \in S THEN "boot" ELSE callers[c]]
           /\ used' = [used EXCEPT !.spawns = n]
        \/ /\ Fault \/ n \notin Procs
           /\ used' = IF n \in Procs THEN Faulted ELSE used
           /\ client' = [cl EXCEPT !.stopping = FALSE]
           /\ runtime' = Relocked(rt)
           /\ caller' = [c \in All |-> IF c \in S THEN "err" ELSE callers[c]]
           /\ UNCHANGED <<tree, pending>>

-----------------------------------------------------------------------------
(* The callers.                                                            *)

(* The startup sequence prepares the host unless one is running; a caller  *)
(* uses the running one, and may prepare a restart only after the startup  *)
(* was acknowledged.                                                       *)
MayStart(c) ==
    IF c = App THEN ~IsRunning /\ runtime.boot = "none"
    ELSE IsRunning \/ runtime.auto

(* ensureStarted, and prepareStartupGoalChange with start for the startup. *)
Call(c) ==
    /\ caller[c] = "idle"
    /\ UNCHANGED <<told, stop, replies, stopResult>>
    /\ IF runtime.shutdown \/ ~MayStart(c)
       THEN /\ caller' = [caller EXCEPT ![c] = "err"]
            /\ UNCHANGED <<tree, client, clean, pending, runtime, used>>
       ELSE IF IsRunning
       THEN /\ caller' = [caller EXCEPT ![c] = "wait"]
            /\ pending' = [pending EXCEPT ![c] = client.child]
            /\ UNCHANGED <<tree, client, clean, runtime, used>>
       ELSE IF client.child # 0
       THEN LET begun == BeginCleanup(client, client.child, FALSE)
            IN  /\ client' = begun.client
                /\ clean' = begun.clean
                /\ caller' = [caller EXCEPT ![c] = "prep"]
                /\ UNCHANGED <<tree, pending, runtime, used>>
       ELSE /\ SpawnFor({c}, client, [runtime EXCEPT !.prepared = TRUE,
                                                    !.auto = @ /\ c # App], caller)
            /\ UNCHANGED clean

(* The application gives the startup another try after it stopped the host. *)
StartupRetries ==
    /\ caller[App] = "err" /\ stop.stage = "none" /\ ~runtime.shutdown
    /\ stopResult # "none"
    /\ caller' = [caller EXCEPT ![App] = "idle"]
    /\ stopResult' = "none"
    /\ UNCHANGED <<tree, told, client, clean, stop, pending, replies, runtime, used>>

-----------------------------------------------------------------------------
(* The native process (external: module LocalToolCalls has its inside).    *)

HostAnswers(i) ==
    /\ pending[i] # 0 /\ tree[pending[i]] = "up"
    /\ <<pending[i], i>> \notin replies
    /\ replies' = replies \cup {<<pending[i], i>>}
    /\ UNCHANGED <<tree, told, client, clean, stop, pending, caller, runtime, stopResult, used>>

(* The leader ends: it crashed, was told to by the end of its input, or    *)
(* was killed.  Descendants may outlive it unless a job object holds them. *)
LeaderEnds(n) ==
    /\ tree[n] \in {"up", "dying"}
    /\ \E left \in IF JobObject \/ tree[n] = "dying" THEN {"gone"} ELSE {"orphans", "gone"} :
          tree' = [tree EXCEPT ![n] = left]
    /\ UNCHANGED <<told, client, clean, stop, pending, replies, caller, runtime, stopResult, used>>

OrphansEnd(n) ==
    /\ tree[n] = "orphans"
    /\ tree' = [tree EXCEPT ![n] = "gone"]
    /\ UNCHANGED <<told, client, clean, stop, pending, replies, caller, runtime, stopResult, used>>

-----------------------------------------------------------------------------
(* Events of the client.                                                   *)

(* handleLine: an answer of another process, or to a request that is no    *)
(* longer pending, is dropped.                                             *)
ReadAnswer(n, i) ==
    /\ <<n, i>> \in replies
    /\ replies' = replies \ {<<n, i>>}
    /\ UNCHANGED <<tree, told, client, clean, stopResult, used>>
    /\ IF n # client.child \/ pending[i] = 0
       THEN UNCHANGED <<pending, caller, runtime, stop>>
       ELSE IF i # Health
       THEN /\ pending' = [pending EXCEPT ![i] = 0]
            /\ caller' = [caller EXCEPT ![i] = "ok"]
            /\ UNCHANGED <<runtime, stop>>
       ELSE LET none == [pending EXCEPT ![Health] = 0]
                ended == BootEnds(runtime, caller, none, TRUE, n)
            IN  IF runtime.shutdown
                THEN /\ pending' = none
                     /\ runtime' = [runtime EXCEPT !.boot = "stop"]
                     /\ UNCHANGED <<caller, stop>>
                ELSE /\ pending' = ended.pending
                     /\ caller' = ended.caller
                     /\ runtime' = ended.runtime
                     /\ UNCHANGED stop

(* A malformed line or a broken pipe. *)
ProtocolFailure ==
    /\ client.child # 0
    /\ Fault /\ used' = Faulted
    /\ FailChild(client.child, FALSE)
    /\ UNCHANGED <<tree, told, stop, replies, stopResult>>

(* handleExit: during a stop the stop itself waits for the tree; after a   *)
(* stop that failed the late exit starts the cleanup.                      *)
HandleExit(n) ==
    /\ n \notin told /\ LeaderGone(n)
    /\ told' = told \cup {n}
    /\ UNCHANGED <<tree, stop, replies, stopResult, used>>
    /\ IF n # client.child THEN UNCHANGED <<client, clean, pending, caller, runtime>>
       ELSE IF client.stopping
       THEN /\ UNCHANGED <<pending, caller, runtime>>
            /\ IF stop.stage # "none" THEN UNCHANGED <<client, clean>>
               ELSE LET begun == BeginCleanup(client, n, TRUE)
                    IN  client' = begun.client /\ clean' = begun.clean
       ELSE IF n \in client.failed
       THEN LET begun == BeginCleanup(client, n, TRUE)
            IN  /\ client' = begun.client /\ clean' = begun.clean
                /\ UNCHANGED <<pending, caller, runtime>>
       ELSE FailChild(n, TRUE)

(* A request is not answered in time.  The host is reported as failing,    *)
(* yet stays the owned and usable process.                                 *)
RequestTimesOut(i) ==
    /\ pending[i] # 0
    /\ LET none == [pending EXCEPT ![i] = 0]
           relocked == Relocked(runtime)
           ended == BootEnds(relocked, caller, none, IsRunning, client.child)
       IN  IF i # Health
           THEN /\ pending' = none
                /\ caller' = [caller EXCEPT ![i] = "err"]
                /\ runtime' = relocked
           ELSE IF runtime.shutdown /\ IsRunning
           THEN /\ pending' = none
                /\ runtime' = [relocked EXCEPT !.boot = "stop"]
                /\ UNCHANGED caller
           ELSE /\ pending' = ended.pending
                /\ caller' = ended.caller
                /\ runtime' = ended.runtime
    /\ UNCHANGED <<tree, told, client, clean, stop, replies, stopResult, used>>

-----------------------------------------------------------------------------
(* The forced cleanup of a failed process.                                 *)

(* forceKill: the tree is told to die, or the kill itself fails. *)
Kill(n) ==
    \/ tree' = [tree EXCEPT ![n] = IF Alive(n) THEN "dying" ELSE @] /\ UNCHANGED used
    \/ Fault /\ used' = Faulted /\ UNCHANGED tree

CleanupKills(n) ==
    /\ clean[n] = "kill"
    /\ Kill(n)
    /\ clean' = [clean EXCEPT ![n] = "confirm"]
    /\ UNCHANGED <<told, client, stop, pending, replies, caller, runtime, stopResult>>

Waiting == {c \in All : caller[c] = "prep"}

(* A local.stop the boot operation waits for is over: so is the boot.      *)
BootStops(rt) == IF rt.boot = "stop" THEN [rt EXCEPT !.boot = "none"] ELSE rt
BootCallers(rt, callers) ==
    [c \in All |-> IF rt.boot = "stop" /\ callers[c] = "boot" THEN "err" ELSE callers[c]]

(* The tree is confirmed gone: ownership ends, a stop that waited for it   *)
(* is over, and whoever was preparing a restart goes on to spawn, unless   *)
(* the application has begun to quit meanwhile.                            *)
CleanupEnds(n) ==
    /\ \/ clean[n] = "done"
       \/ clean[n] = "confirm" /\ TreeEnded(n)
    /\ clean' = [clean EXCEPT ![n] = "none"]
    /\ UNCHANGED <<told, replies>>
    /\ LET mine == client.cleanup = n
           cl == [client EXCEPT !.child = IF @ = n THEN 0 ELSE @,
                                !.cleanup = IF mine THEN 0 ELSE @]
           ended == mine /\ stop.stage = "cleanup"
           woken == IF mine THEN Waiting ELSE {}
           rt == IF ended THEN BootStops(runtime) ELSE runtime
           callers == IF ended THEN BootCallers(runtime, caller) ELSE caller
           prepared == [rt EXCEPT !.prepared = TRUE, !.auto = @ /\ App \notin woken]
       IN  /\ stop' = IF ended THEN NoStop ELSE stop
           /\ stopResult' = IF ended THEN "ok" ELSE stopResult
           /\ IF woken = {} \/ runtime.shutdown
              THEN /\ client' = cl
                   /\ runtime' = rt
                   /\ caller' = [c \in All |-> IF c \in woken THEN "err" ELSE callers[c]]
                   /\ UNCHANGED <<tree, pending, used>>
              ELSE SpawnFor(woken, cl, prepared, callers)

(* The end of the tree could not be confirmed in time: the process stays   *)
(* owned and failed, and whoever waited is told.                           *)
CleanupFails(n) ==
    /\ clean[n] = "confirm" /\ ~TreeEnded(n)
    /\ clean' = [clean EXCEPT ![n] = "none"]
    /\ UNCHANGED <<tree, told, replies, pending, used>>
    /\ LET mine == client.cleanup = n
           ended == mine /\ stop.stage = "cleanup"
           woken == IF mine THEN Waiting ELSE {}
           rt == IF ended THEN BootStops(runtime) ELSE runtime
           callers == IF ended THEN BootCallers(runtime, caller) ELSE caller
       IN  /\ client' = [client EXCEPT !.cleanup = IF mine THEN 0 ELSE @]
           /\ stop' = IF ended THEN NoStop ELSE stop
           /\ stopResult' = IF ended THEN "failed" ELSE stopResult
           /\ runtime' = Relocked(rt)
           /\ caller' = [c \in All |-> IF c \in woken THEN "err" ELSE callers[c]]

-----------------------------------------------------------------------------
(* Stopping.                                                               *)

(* stopOwnedChild for a caller of local.stop: everything pending is        *)
(* rejected, then the owned process is waited for.  rt: the runtime the    *)
(* caller leaves behind.                                                   *)
StopOwned(rt) ==
    LET n == client.child
        \* a health check this stop rejects makes the boot stop as well when quitting
        after == RejectAll(rt, n, IsRunning)
        stage == IF n = 0 THEN "none" ELSE IF client.cleanup = n THEN "cleanup" ELSE "grace"
    IN  /\ client' = [client EXCEPT !.stopping = TRUE]
        /\ stop' = [stage |-> stage, child |-> n]
        /\ stopResult' = IF stage = "none" THEN "ok" ELSE "none"
        /\ runtime' = after.runtime
        /\ caller' = after.caller
        /\ pending' = after.pending

(* AgentRuntime.stop by the quit, or by the startup before its next try. *)
Stop ==
    /\ used.stops < MaxStops
    /\ runtime.shutdown \/ caller[App] = "err"
    /\ stop.stage = "none"
    /\ used' = [used EXCEPT !.stops = @ + 1]
    /\ StopOwned([runtime EXCEPT !.prepared = FALSE, !.auto = FALSE])
    /\ UNCHANGED <<tree, told, clean, replies>>

(* The boot operation found the quit and stops the process it started. *)
BootStop ==
    /\ runtime.boot = "stop" /\ stop.stage = "none"
    /\ IF IsRunning THEN StopOwned(runtime)
       ELSE /\ runtime' = BootStops(runtime)
            /\ caller' = BootCallers(runtime, caller)
            /\ UNCHANGED <<client, stop, stopResult, pending>>
    /\ UNCHANGED <<tree, told, clean, replies, used>>

StopSucceeds ==
    /\ stop' = NoStop
    /\ stopResult' = "ok"
    /\ client' = [client EXCEPT !.child = IF @ = stop.child THEN 0 ELSE @]
    /\ runtime' = BootStops(runtime)
    /\ caller' = BootCallers(runtime, caller)

(* The leader exits within the grace period and nothing is left of it. *)
StopGraceful ==
    /\ stop.stage = "grace" /\ TreeEnded(stop.child)
    /\ StopSucceeds
    /\ UNCHANGED <<tree, told, clean, pending, replies, used>>

(* The period is over, or the leader left descendants behind: kill. *)
StopForces ==
    /\ stop.stage = "grace" /\ ~TreeEnded(stop.child)
    /\ Kill(stop.child)
    /\ stop' = [stop EXCEPT !.stage = "confirm"]
    /\ UNCHANGED <<told, client, clean, pending, replies, caller, runtime, stopResult>>

StopConfirmed ==
    /\ stop.stage = "confirm" /\ TreeEnded(stop.child)
    /\ StopSucceeds
    /\ UNCHANGED <<tree, told, clean, pending, replies, used>>

(* STOP_FAILED: the process stays owned.  A boot that waited ends too. *)
StopFails ==
    /\ stop.stage = "confirm" /\ ~TreeEnded(stop.child)
    /\ stop' = NoStop
    /\ stopResult' = "failed"
    /\ runtime' = BootStops(runtime)
    /\ caller' = BootCallers(runtime, caller)
    /\ UNCHANGED <<tree, told, client, clean, pending, replies, used>>

BeginShutdown ==
    /\ ~runtime.shutdown
    /\ runtime' = [runtime EXCEPT !.shutdown = TRUE, !.prepared = FALSE, !.auto = FALSE]
    /\ UNCHANGED <<tree, told, client, clean, stop, pending, replies, caller, stopResult, used>>

-----------------------------------------------------------------------------
ClientStep ==
    \/ \E n \in Procs : \/ HandleExit(n) \/ CleanupKills(n) \/ CleanupEnds(n)
                        \/ CleanupFails(n)
                        \/ \E i \in Ids : ReadAnswer(n, i)
    \/ BootStop \/ StopGraceful \/ StopForces \/ StopConfirmed \/ StopFails

Next ==
    \/ \E c \in All : Call(c)
    \/ StartupRetries \/ Stop \/ BeginShutdown \/ ProtocolFailure
    \/ \E i \in Ids : HostAnswers(i) \/ RequestTimesOut(i)
    \/ \E n \in Procs : LeaderEnds(n) \/ OrphansEnd(n)
    \/ ClientStep

Spec == Init /\ [][Next]_vars

(* The event loop runs what is due, a process answers or is timed out, and *)
(* what was killed, or has no input left, ends.                            *)
FairSpec ==
    /\ Spec
    /\ WF_vars(ClientStep)
    /\ \A i \in Ids : WF_vars(HostAnswers(i) \/ RequestTimesOut(i)
                                \/ \E n \in Procs : ReadAnswer(n, i))
    /\ \A n \in Procs : WF_vars(tree[n] = "dying" /\ LeaderEnds(n))

-----------------------------------------------------------------------------
TypeOK ==
    /\ tree \in [Procs -> {"no", "up", "orphans", "dying", "gone"}]
    /\ told \subseteq Procs
    /\ client \in [child : 0..MaxSpawns, failed : SUBSET Procs,
                   cleanup : 0..MaxSpawns, stopping : BOOLEAN]
    /\ clean \in [Procs -> {"none", "done", "kill", "confirm"}]
    /\ stop \in [stage : {"none", "cleanup", "grace", "confirm"}, child : 0..MaxSpawns]
    /\ pending \in [Ids -> 0..MaxSpawns]
    /\ replies \subseteq (Procs \X Ids)
    /\ caller \in [All -> {"idle", "prep", "boot", "wait", "ok", "err"}]
    /\ runtime \in [prepared : BOOLEAN, auto : BOOLEAN, shutdown : BOOLEAN,
                    boot : {"none", "health", "stop"}]
    /\ stopResult \in {"none", "ok", "failed"}

(* A live process is the owned one.  So two process trees never run side   *)
(* by side: a replacement is spawned only after the end of the whole tree  *)
(* before it is confirmed; and no mix of exits, failing kills, cleanups,   *)
(* stops and restarts loses the handle that the next stop needs.           *)
LiveIsOwned == \A n \in Procs : Alive(n) => client.child = n

(* beginShutdown promises that this application instance spawns no native  *)
(* work any more, also not for callers that were waiting for a cleanup.    *)
NoSpawnAfterQuitStep == runtime.shutdown => used'.spawns = used.spawns
NoSpawnAfterQuit == [][NoSpawnAfterQuitStep]_vars

(* When the stop of a quitting application resolves, nothing of the native *)
(* host is left running, and nothing appears afterwards.                   *)
QuitMeansGone ==
    runtime.shutdown /\ stopResult = "ok" => \A n \in Procs : ~Alive(n)

(* Every caller gets an answer or an error, whatever happens to the host.  *)
CallersSettle == \A c \in Callers : caller[c] # "idle" ~> caller[c] \in {"ok", "err"}

(* A stop resolves or fails: it never hangs on a cleanup or on a boot.     *)
StopSettles == stop.stage # "none" ~> stop.stage = "none"
=============================================================================
