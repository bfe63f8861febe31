---------------------------- MODULE MastraSidecar ----------------------------
(* The supervision of the agent's sidecar process (MastraSidecarClient): its    *)
(* start, its exits and the restart timer, the requests that are pending with   *)
(* it, the frames it has sent and that are worked off in order, the interrupted *)
(* runs that are reported to the coordinator, and the stop of the application.  *)
(* Every process that was spawned stays owned until it has closed.              *)
EXTENDS Naturals, Sequences, FiniteSets

CONSTANTS
    Ids,          \* request identifiers; a caller may use one again after a failure
    MaxKids,      \* processes spawned at most
    MaxTries,     \* requests made with one identifier at most
    MaxFrames,    \* frames of one process waiting behind a host call at most
    MaxFaults     \* failed spawns, broken pipes, bad frames and failed reports at most

MastraSidecarAssumption ==
    /\ MaxKids \in Nat \ {0} /\ MaxTries \in Nat \ {0}
    /\ MaxFrames \in Nat \ {0} /\ MaxFaults \in Nat

Kids == 1..MaxKids

\* A run is the attempt of a request that started it.
Runs == Ids \X (1..MaxTries)

VARIABLES
    child,        \* the process requests are written to, 0: none
    proc,         \* [Kids -> "unborn", "up", "gone"]; the ones up are owned
    ready,        \* runtime.initialize was answered by the child
    shutdown,     \* shutdownRequested, which is never taken back
    timer,        \* restartTimer is set
    req,          \* [Ids -> the request: its state, attempt, process and answer]
    owed,         \* [Kids -> the runs the process was asked to start]
    inbox,        \* [Kids -> frames received and not worked off yet]
    host,         \* the processes whose host call is being answered
    tracked,      \* activeRunIds
    ended,        \* runs whose last event was delivered
    queue,        \* interruptionQueue: sets of runs
    told,         \* runs that were reported interrupted
    calling,      \* interruptionDrain is under way
    stop,         \* the stop under way, and whether a part of it has failed
    rung,         \* [Kids -> how far stopChild is with the process]
    faults

vars == <<child, proc, ready, shutdown, timer, req, owed, inbox, host, tracked,
          ended, queue, told, calling, stop, rung, faults>>

NoReq == [st |-> "idle", n |-> 0, kid |-> 0, from |-> 0]

Owned == {k \in Kids : proc[k] = "up"}

Queued == UNION {queue[i] : i \in 1..Len(queue)}

RunOf(id) == <<id, req[id].n>>

Init ==
    /\ child = 0 /\ proc = [k \in Kids |-> "unborn"] /\ ready = FALSE
    /\ shutdown = FALSE /\ timer = FALSE
    /\ req = [id \in Ids |-> NoReq]
    /\ owed = [k \in Kids |-> {}] /\ inbox = [k \in Kids |-> <<>>] /\ host = {}
    /\ tracked = {} /\ ended = {} /\ queue = <<>> /\ told = {} /\ calling = FALSE
    /\ stop = [st |-> "idle", bad |-> FALSE]
    /\ rung = [k \in Kids |-> "none"] /\ faults = 0

Fault == faults < MaxFaults /\ faults' = faults + 1

----------------------------------------------------------------------------
(* Start, exit and restart *)

Unborn == {k \in Kids : proc[k] = "unborn"}

\* spawnAndInitialize up to its first await: the process is owned and current.
SpawnAndInitialize ==
    /\ Unborn # {} /\ child = 0
    /\ LET k == CHOOSE k \in Unborn : \A l \in Unborn : k <= l
       IN child' = k /\ proc' = [proc EXCEPT ![k] = "up"]
    /\ ready' = FALSE /\ timer' = FALSE

\* scheduleRestart; the delays differ in length only.
ScheduleRestart == ~shutdown

\* The requests that are waiting for the process or for its start are rejected.
RejectAll ==
    [id \in Ids |-> IF req[id].st \in {"awaiting", "pending"}
                    THEN [req[id] EXCEPT !.st = "rejected"] ELSE req[id]]

Interrupt == Append(queue, tracked)

\* handleExit of the current process: everything that hangs on it is let go, the
\* runs it worked on are queued to be reported, and a restart is scheduled. The
\* process itself is killed, and owned until it closes.
HandleExit ==
    /\ child' = 0 /\ ready' = FALSE
    /\ req' = RejectAll
    /\ tracked' = {} /\ queue' = Interrupt /\ calling' = TRUE
    /\ timer' = ScheduleRestart

\* The process has ended and its pipes are closed.
Close(k) ==
    /\ proc[k] = "up"
    /\ proc' = [proc EXCEPT ![k] = "gone"]
    /\ IF child = k THEN HandleExit
       ELSE UNCHANGED <<child, ready, req, tracked, queue, calling, timer>>
    /\ UNCHANGED <<shutdown, owed, inbox, host, ended, told, stop, rung, faults>>

\* An error of the process handle, a write that fails, an initialisation that is
\* refused or takes too long: the process is given up while it may still run.
GiveUp ==
    /\ child # 0 /\ Fault
    /\ HandleExit
    /\ UNCHANGED <<proc, shutdown, owed, inbox, host, ended, told, stop, rung>>

\* The restart timer: start(), whose failure sets the timer again.
Restart ==
    /\ timer
    /\ \/ SpawnAndInitialize /\ UNCHANGED faults
       \/ Fault /\ UNCHANGED <<child, proc, ready, timer>>
    /\ UNCHANGED <<shutdown, req, owed, inbox, host, tracked, ended, queue, told,
                   calling, stop, rung>>

----------------------------------------------------------------------------
(* Requests *)

Asked(id, st, k) ==
    [req EXCEPT ![id] = [st |-> st, n |-> req[id].n + 1, kid |-> k, from |-> 0]]

\* The coordinator tracks the run and makes the request that starts it. Without a
\* process one is started first; the request is pending once it is registered.
Request(id) ==
    /\ req[id].st \in {"idle", "rejected"} /\ req[id].n < MaxTries
    /\ tracked' = IF shutdown THEN tracked ELSE tracked \cup {<<id, req[id].n + 1>>}
    /\ IF shutdown
       THEN req' = Asked(id, "rejected", 0) /\ UNCHANGED <<child, proc, ready, timer, owed, faults>>
       ELSE IF child # 0
       THEN /\ req' = Asked(id, "pending", child)
            /\ owed' = [owed EXCEPT ![child] = @ \cup {<<id, req[id].n + 1>>}]
            /\ UNCHANGED <<child, proc, ready, timer, faults>>
       ELSE /\ SpawnAndInitialize /\ req' = Asked(id, "awaiting", 0)
            /\ UNCHANGED <<owed, faults>>
    /\ UNCHANGED <<shutdown, inbox, host, ended, queue, told, calling, stop, rung>>

\* The same when the process cannot be spawned: the caller is told and lets go of
\* the run, and the restart is scheduled.
RequestUnspawned(id) ==
    /\ req[id].st \in {"idle", "rejected"} /\ req[id].n < MaxTries
    /\ ~shutdown /\ child = 0 /\ Fault
    /\ req' = Asked(id, "rejected", 0)
    /\ timer' = ScheduleRestart
    /\ UNCHANGED <<child, proc, ready, shutdown, owed, inbox, host, tracked, ended,
                   queue, told, calling, stop, rung>>

\* rejectPending by its timer or by the caller's signal; the caller lets go of the run.
Expire(id) ==
    /\ req[id].st \in {"pending", "awaiting"}
    /\ req' = [req EXCEPT ![id].st = "rejected"]
    /\ tracked' = tracked \ {RunOf(id)}
    /\ UNCHANGED <<child, proc, ready, shutdown, timer, owed, inbox, host, ended,
                   queue, told, calling, stop, rung, faults>>

----------------------------------------------------------------------------
(* Frames of the process *)

\* acceptBytes: only the current process is listened to. The frame remembers
\* whether it was read before the shutdown.
Receive(k, type, run) ==
    /\ child = k /\ proc[k] = "up"
    /\ Len(inbox[k]) < IF k \in host THEN MaxFrames ELSE 1
    /\ inbox' = [inbox EXCEPT ![k] =
           Append(@, [type |-> type, run |-> run, early |-> ~shutdown])]
    /\ UNCHANGED <<child, proc, ready, shutdown, timer, req, host, tracked, ended,
                   queue, told, calling, stop, rung>>

NoRun == <<"none", 0>>

\* What a frame is found to be; one that is neither a response, an event nor a host
\* call of the protocol's shape is bad.
FrameTypes == {"ready", "answer", "event", "call", "bad"}

SendsReady(k) ==
    /\ ~ready
    /\ Receive(k, "ready", NoRun) /\ UNCHANGED <<owed, faults>>

\* The answer to a request, and later the last event of the run it started.
SendsAnswer(k) ==
    \E run \in owed[k] :
        /\ ready
        /\ Receive(k, "answer", run)
        /\ owed' = [owed EXCEPT ![k] = @ \ {run}] /\ UNCHANGED faults

SendsEvent(k) ==
    \E run \in Runs \ ended :
        /\ req[run[1]].st = "ok" /\ req[run[1]].from = k /\ req[run[1]].n = run[2]
        /\ Receive(k, "event", run) /\ UNCHANGED <<owed, faults>>

SendsCall(k) == ready /\ Receive(k, "call", NoRun) /\ UNCHANGED <<owed, faults>>

SendsNonsense(k) == Receive(k, "bad", NoRun) /\ Fault /\ UNCHANGED owed

\* Mutant: the frame is worked off whoever sent it.
Heard_Always(k) == TRUE

\* The frames of a process that is no longer the current one are passed over.
Heard(k) == child = k

\* acceptResponse: only the identifier is looked up.
AcceptAnswer(k, run) ==
    IF req[run[1]].st = "pending"
    THEN [req EXCEPT ![run[1]].st = "ok", ![run[1]].from = k] ELSE req

\* The requests that awaited the start are written now.
Initialized(k) ==
    [id \in Ids |-> IF req[id].st = "awaiting"
                    THEN [req[id] EXCEPT !.st = "pending", !.kid = k] ELSE req[id]]

\* The frame at the head, unless a host call before it is still being answered.
Accept(k) ==
    LET f == Head(inbox[k])
        heard == Heard(k)
        on(t) == heard /\ f.type = t
        news == on("event") /\ (~shutdown \/ f.early)
    IN /\ inbox[k] # <<>> /\ k \notin host
       /\ inbox' = [inbox EXCEPT ![k] = Tail(@)]
       /\ host' = IF on("call") /\ ~shutdown THEN host \cup {k} ELSE host
       /\ ended' = IF news THEN ended \cup {f.run} ELSE ended
       /\ IF on("bad") /\ child = k THEN HandleExit /\ UNCHANGED owed
          ELSE /\ tracked' = IF news THEN tracked \ {f.run} ELSE tracked
               /\ req' = IF on("answer") THEN AcceptAnswer(k, f.run)
                         ELSE IF on("ready") THEN Initialized(k) ELSE req
               /\ ready' = (ready \/ on("ready"))
               /\ owed' = IF on("ready")
                          THEN [owed EXCEPT ![k] = @ \cup
                                   {RunOf(id) : id \in {i \in Ids : req[i].st = "awaiting"}}]
                          ELSE owed
               /\ UNCHANGED <<child, queue, calling, timer>>
       /\ UNCHANGED <<proc, shutdown, told, stop, rung, faults>>

\* onHostCall settles; the answer is written if the process is still the current one.
HostCallSettles(k) ==
    /\ k \in host
    /\ host' = host \ {k}
    /\ UNCHANGED <<child, proc, ready, shutdown, timer, req, owed, inbox, tracked, ended,
                   queue, told, calling, stop, rung, faults>>

FramesSettled == host = {} /\ \A k \in Kids : inbox[k] = <<>>

----------------------------------------------------------------------------
(* The report of interrupted runs *)

\* A head that could not be reported stays where it is.
AfterFailure == queue

\* drainInterruptions: one after the other, until the queue is empty.
DrainInterruption ==
    /\ calling
    /\ \/ /\ told' = told \cup Head(queue) /\ queue' = Tail(queue)
          /\ calling' = (Len(queue) > 1)
          /\ UNCHANGED <<stop, faults>>
       \/ /\ Fault
          /\ calling' = FALSE /\ queue' = AfterFailure
          /\ stop' = [stop EXCEPT !.bad = @ \/ stop.st = "dependents"]
          /\ UNCHANGED told
    /\ UNCHANGED <<child, proc, ready, shutdown, timer, req, owed, inbox, host, tracked,
                   ended, rung>>

----------------------------------------------------------------------------
(* Stop *)

BeginShutdown ==
    /\ ~shutdown
    /\ shutdown' = TRUE /\ timer' = FALSE
    /\ UNCHANGED <<child, proc, ready, req, owed, inbox, host, tracked, ended, queue,
                   told, calling, stop, rung, faults>>

StoppedKids == Owned

\* stop: a stop that has failed may be made again.
Stop ==
    /\ stop.st \in {"idle", "failed"}
    /\ shutdown' = TRUE /\ timer' = FALSE
    /\ stop' = [st |-> IF StoppedKids = {} THEN "frames" ELSE "children", bad |-> FALSE]
    /\ rung' = [k \in Kids |-> IF k \notin StoppedKids THEN "none"
                               ELSE IF k = child THEN "ask" ELSE "wait"]
    /\ UNCHANGED <<child, proc, ready, req, owed, inbox, host, tracked, ended, queue,
                   told, calling, faults>>

\* stopChild: the current process is asked to end, for a while; then each is waited
\* for, terminated and killed. The last wait ends with the process not closed.
StopChild(k) ==
    /\ stop.st = "children"
    /\ \/ rung[k] = "ask" /\ rung' = [rung EXCEPT ![k] = "wait"]
       \/ rung[k] = "wait" /\ rung' = [rung EXCEPT ![k] =
                                   IF proc[k] = "gone" THEN "closed" ELSE "lost"]
    /\ UNCHANGED <<child, proc, ready, shutdown, timer, req, owed, inbox, host, tracked,
                   ended, queue, told, calling, stop, faults>>

\* stopOwnedChild after the processes, or, when there was none, after the frames:
\* what hangs on them is waited for.
StopDependents ==
    /\ \/ stop.st = "children" /\ \A k \in Kids : rung[k] \in {"none", "closed", "lost"}
       \/ stop.st = "frames" /\ FramesSettled
    /\ stop' = [st |-> "dependents", bad |-> \E k \in Kids : rung[k] = "lost"]
    /\ calling' = (queue # <<>>)
    /\ UNCHANGED <<child, proc, ready, shutdown, timer, req, owed, inbox, host, tracked,
                   ended, queue, told, rung, faults>>

StopSettles ==
    /\ stop.st = "dependents" /\ FramesSettled /\ ~calling
    /\ stop' = [stop EXCEPT !.st = IF stop.bad THEN "failed" ELSE "done"]
    /\ UNCHANGED <<child, proc, ready, shutdown, timer, req, owed, inbox, host, tracked,
                   ended, queue, told, calling, rung, faults>>

----------------------------------------------------------------------------
Next ==
    \/ Restart \/ GiveUp \/ DrainInterruption
    \/ BeginShutdown \/ Stop \/ StopDependents \/ StopSettles
    \/ \E id \in Ids : Request(id) \/ RequestUnspawned(id) \/ Expire(id)
    \/ \E k \in Kids :
          \/ Close(k) \/ Accept(k) \/ HostCallSettles(k) \/ StopChild(k)
          \/ SendsReady(k) \/ SendsAnswer(k) \/ SendsEvent(k) \/ SendsCall(k)
          \/ SendsNonsense(k)

Spec == Init /\ [][Next]_vars

\* Timers fire, frames are worked off, host calls and reports settle. Nothing is
\* assumed of the process itself: it may neither answer nor close. A stop that waits
\* for the frames goes on when there is none, before the next one is read.
Fairness ==
    /\ \A id \in Ids : WF_vars(Expire(id))
    /\ \A k \in Kids : WF_vars(Accept(k)) /\ WF_vars(HostCallSettles(k)) /\ WF_vars(StopChild(k))
    /\ WF_vars(DrainInterruption) /\ SF_vars(StopDependents) /\ SF_vars(StopSettles)

LiveSpec == Spec /\ Fairness

----------------------------------------------------------------------------
(* Properties *)

SidecarTypeOK ==
    /\ child \in 0..MaxKids /\ proc \in [Kids -> {"unborn", "up", "gone"}]
    /\ ready \in BOOLEAN /\ shutdown \in BOOLEAN /\ timer \in BOOLEAN /\ calling \in BOOLEAN
    /\ req \in [Ids -> [st : {"idle", "awaiting", "pending", "ok", "rejected"},
                        n : 0..MaxTries, kid : 0..MaxKids, from : 0..MaxKids]]
    /\ \A k \in Kids : \A i \in 1..Len(inbox[k]) : inbox[k][i].type \in FrameTypes
    /\ owed \in [Kids -> SUBSET Runs] /\ host \subseteq Kids
    /\ tracked \subseteq Runs /\ ended \subseteq Runs /\ told \subseteq Runs
    /\ stop.st \in {"idle", "children", "frames", "dependents", "failed", "done"}
    /\ child # 0 => proc[child] = "up"

\* A stop that succeeds leaves nothing behind: no process that was ever spawned,
\* the given up ones included, no frame in work, no request pending, no interrupted
\* run that was not reported (stopOwnedChild, drainInterruptions).
StopLeavesNothing ==
    stop.st = "done" =>
        /\ Owned = {} /\ FramesSettled /\ queue = <<>> /\ tracked = {}
        /\ \A id \in Ids : req[id].st \notin {"awaiting", "pending"}

\* No process is spawned once the shutdown was requested, whatever timers and
\* requests were under way (beginShutdown, start).
NoSpawnAfterShutdownStep ==
    shutdown => \A k \in Kids : proc[k] = "unborn" => proc'[k] = "unborn"
NoSpawnAfterShutdown == [][NoSpawnAfterShutdownStep]_vars

\* A request is answered by the process it was written to, also when its identifier
\* was used before with a process that has been given up (acceptBytes, accept).
AnsweredByItsProcess == \A id \in Ids : req[id].st = "ok" => req[id].from = req[id].kid

\* A run the process has accepted is never forgotten: it is tracked, it has ended,
\* or its interruption is queued or was reported (handleExit, acceptBytes).
NoRunForgotten ==
    \A id \in Ids :
        req[id].st = "ok" => RunOf(id) \in tracked \cup ended \cup told \cup Queued

\* A run that was let go as interrupted gets no event any more: the report would
\* be followed by an event of a run that has ended (accept, handleExit).
InterruptedIsFinalStep ==
    \A run \in told \cup Queued : run \in ended' => run \in ended
InterruptedIsFinal == [][InterruptedIsFinalStep]_vars

\* Without a process a restart is scheduled, unless the application is shut down
\* (handleExit, start, scheduleRestart).
RestartScheduled ==
    ~shutdown /\ child = 0 /\ (Owned # {} \/ \E id \in Ids : req[id].n > 0) => timer

\* Every request settles: by its answer, its timer, or the end of the process
\* (requestInternal, rejectPending, handleExit).
RequestsSettle ==
    \A id \in Ids : req[id].st \in {"awaiting", "pending"} ~> req[id].st \in {"ok", "rejected"}

\* A stop ends, with success or not, also when the process does not listen
\* (stopChild, stopOwnedChild).
StopEnds == stop.st = "children" ~> stop.st \in {"failed", "done"}

================================================================================
