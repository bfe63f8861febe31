-------------------------- MODULE ReflectionStream --------------------------
(***************************************************************************)
(* DesktopReflectionService (src/agent/reflection/service.ts) between the  *)
(* event journal of the native host and the reflection collector, with the *)
(* operations that wait while no service is published                      *)
(* (src/bun/deferred-reflection-operations.ts) and the start loop of       *)
(* src/bun/index.ts.                                                       *)
(*                                                                         *)
(* The service reads the journal as the named consumer "reflection": it    *)
(* pulls pages and, once it has caught up, also takes the events the host  *)
(* pushes.  An event is first materialised by the collector (durable) and  *)
(* its cursor committed afterwards.  Operations run one at a time from a   *)
(* queue.  The collector is reduced to the log of what it materialised and *)
(* under which owner, and to the window it has open; ReflectionWindows     *)
(* models it in detail.  Steps between which the event loop cannot run     *)
(* another callback are one action.                                        *)
(***************************************************************************)
EXTENDS Integers, Sequences, FiniteSets, TLC

CONSTANTS
    Accounts,       \* accounts that may log in
    LIMIT,          \* events of a page
    THRESHOLD,      \* counted events that fill a window
    CAPACITY,       \* events the broadcast channel of the host keeps
    MaxEvents, MaxFaults, MaxCrashes, MaxLogins,    \* bounds
    MaxDeferred,    \* account transitions deferred at most
    DeferWhile,     \* phases of the service in which they may happen
    HostMayCrash,   \* the host may end under a running service
    MayFail         \* a published runtime may be torn down by a later startup step

Reader == "reflection"
Nobody == "nobody"

StreamAssumption ==
    /\ {LIMIT, THRESHOLD, CAPACITY} \subseteq Nat \ {0}
    /\ {MaxEvents, MaxFaults, MaxCrashes, MaxLogins, MaxDeferred} \subseteq Nat
    /\ {HostMayCrash, MayFail} \subseteq BOOLEAN
    /\ Nobody \notin Accounts
    /\ DeferWhile \subseteq {"off", "start", "live", "shut"}

VARIABLES
    rows, last, retained, committed, now, host, ring, wire,
    gate,       \* what lets a call start the host, see HostBegins
    origin,     \* who was logged in when each event was appended
    taken,      \* durable: what the collector materialised, in order
    owner,      \* durable: account of the collector's cloud owner epoch
    window,     \* durable: events of the open window, [from, late]
    sealed,     \* durable: positions in taken that a sealed window holds
    svc,        \* the service, see NoService
    op,         \* the operation that runs, see Idle
    queue,      \* operations behind it
    who,        \* the account that is logged in
    auth,       \* its transition and what the runtime calls the owner
    deferred,   \* DeferredReflectionOperations.pending
    used        \* bounds

hostState == <<rows, last, retained, committed, now, host, ring, wire>>
collector == <<taken, owner, window, sealed>>
login == <<who, auth, deferred>>
vars == <<rows, last, retained, committed, now, host, ring, wire, gate, origin,
          taken, owner, window, sealed, svc, op, queue, who, auth, deferred, used>>

INSTANCE EventJournal
    WITH Keys <- 1..MaxEvents, Data <- {"event"}, Consumers <- {Reader},
         RETENTION <- 1, MaxTime <- 0

(* phase "off": no service; "start": start() runs; "live": started; "shut":*)
(* beginShutdown was called.  accepting: acceptingLiveEvents; missed: a    *)
(* push arrived while it was FALSE, since the loop last looked; cursor:    *)
(* lastCommittedCursor; target: the owner start() has to cut over to;      *)
(* published: reflectionRuntime is set; timer, count, late, catchup: the   *)
(* timers of the deadline, of its retries and of the catch up are armed;   *)
(* deferring: deadlinesDeferred.                                           *)
NoService ==
    [phase |-> "off", accepting |-> FALSE, missed |-> FALSE, cursor |-> 0,
     target |-> Nobody, published |-> FALSE, timer |-> FALSE, count |-> FALSE,
     late |-> FALSE, catchup |-> FALSE, poll |-> FALSE, deferring |-> TRUE]

(* at: "query", "items", "commit", "flush" or "end"; todo and more: the page.*)
Idle == [kind |-> "none", arg |-> Nobody, n |-> 0, at |-> "end", todo |-> <<>>,
         more |-> FALSE]

Operation(kind, arg, n) ==
    [Idle EXCEPT !.kind = kind, !.arg = arg, !.n = n,
                 !.at = IF kind = "ingest" THEN "items" ELSE "query",
                 !.todo = IF kind = "ingest" THEN <<n>> ELSE <<>>]

Kinds == {"none", "start", "ingest", "poll", "catchup", "count", "late", "cutover",
          "replay"}

TypeOK ==
    /\ JournalTypeOK
    /\ gate \in {"closed", "prepared", "automatic"}
    /\ origin \in Seq(Accounts \cup {Nobody}) /\ Len(origin) = last
    /\ \A i \in DOMAIN taken : /\ taken[i].seq \in 1..last
                               /\ taken[i].owner \in Accounts \cup {Nobody}
    /\ owner \in Accounts \cup {Nobody} /\ who \in Accounts \cup {Nobody}
    /\ window.from \in 0..Len(taken) /\ window.late \in BOOLEAN
    /\ sealed \subseteq 1..window.from
    /\ svc.phase \in {"off", "start", "live", "shut"}
    /\ svc.cursor \in 0..last
    /\ svc.published => svc.phase = "live"
    /\ \A o \in {op} \cup {queue[i] : i \in DOMAIN queue} : o.kind \in Kinds
    /\ auth.to \in Accounts \cup {Nobody, "idle"}
    /\ auth.desired \in Accounts \cup {Nobody}
    /\ Len(deferred) <= MaxDeferred

Init ==
    /\ JournalInit
    /\ gate = "closed" /\ origin = <<>> /\ taken = <<>> /\ owner = Nobody
    /\ window = [from |-> 0, late |-> FALSE] /\ sealed = {}
    /\ svc = NoService /\ op = Idle /\ queue = <<>>
    /\ who = Nobody /\ auth = [to |-> "idle", desired |-> Nobody] /\ deferred = <<>>
    /\ used = [faults |-> 0, crashes |-> 0, logins |-> 0]

Fault == /\ used.faults < MaxFaults
         /\ used' = [used EXCEPT !.faults = @ + 1]

-----------------------------------------------------------------------------
(* The host and what it pushes.                                            *)

(* A sensor records an event.                                              *)
SensorAppends ==
    /\ last < MaxEvents
    /\ AppendDraft([key |-> last + 1, data |-> "event", at |-> 0])
    /\ origin' = Append(origin, who)
    /\ UNCHANGED <<gate, collector, svc, op, queue, login, used>>

(* The host is started by any call of the agent (ensureStarted), of this   *)
(* service or of another, once start() has prepared the goal boundary; a   *)
(* host that ended is restarted only after start() acknowledged it.  Its   *)
(* sensors run before the connection listens.                              *)
HostBegins ==
    /\ gate # "closed"
    /\ HostStarts
    /\ UNCHANGED <<gate, origin, collector, svc, op, queue, login, used>>

HostReady == HostServes /\ UNCHANGED <<gate, origin, collector, svc, op, queue, login, used>>

HostForwards == Forward /\ UNCHANGED <<gate, origin, collector, svc, op, queue, login, used>>

HostCrashes ==
    /\ HostMayCrash /\ host # "down" /\ used.crashes < MaxCrashes
    /\ HostDown
    /\ gate' = IF gate = "prepared" THEN "closed" ELSE gate
    /\ used' = [used EXCEPT !.crashes = @ + 1]
    /\ UNCHANGED <<origin, collector, svc, op, queue, login>>

(* The listener of start(): a push is queued, or only counted while the    *)
(* service has not caught up.                                              *)
FrameArrives ==
    /\ wire # <<>>
    /\ IF svc.phase \in {"start", "live"}
       THEN IF svc.accepting
            THEN /\ queue' = Append(queue, Operation("ingest", Nobody, Head(wire)))
                 /\ UNCHANGED svc
            ELSE svc' = [svc EXCEPT !.missed = TRUE] /\ UNCHANGED queue
       ELSE UNCHANGED <<svc, queue>>
    /\ wire' = Tail(wire)
    /\ UNCHANGED <<rows, last, retained, committed, now, host, ring, gate,
                   origin,                   collector, op, login, used>>

-----------------------------------------------------------------------------
(* The service starts, is published, and is torn down.                     *)

(* The open window is no longer open: it was sealed, or forgotten.         *)
Emptied == [from |-> Len(taken), late |-> FALSE]
WindowEvents == window.from + 1 .. Len(taken)

(* A recovered owner that is not the current one is replaced by nobody     *)
(* before anything is pulled.                                              *)
OwnerAtStart == IF owner # auth.desired THEN Nobody ELSE owner

(* start() up to transport.start(): recover, leave the recovered owner.    *)
Start ==
    /\ svc.phase = "off"
    /\ gate' = "prepared"
    /\ svc' = [NoService EXCEPT !.phase = "start", !.target = auth.desired]
    /\ op' = Operation("start", Nobody, 0)
    /\ owner' = OwnerAtStart
    /\ window' = IF owner' # owner THEN Emptied ELSE window
    /\ UNCHANGED <<hostState, origin, taken, sealed, queue, login, used>>

(* Which operation a timer or a caller adds; one of each kind at most.     *)
Waiting(kind) == op.kind = kind \/ \E i \in DOMAIN queue : queue[i].kind = kind

(* armEventPoll; the callback only queues the operation.                   *)
PollFires ==
    /\ svc.phase = "live" /\ svc.poll
    /\ svc' = [svc EXCEPT !.poll = FALSE]
    /\ queue' = Append(queue, Operation("poll", Nobody, 0))
    /\ UNCHANGED <<hostState, gate, origin, collector, op, login, used>>

CatchUpFires ==
    /\ svc.phase = "live" /\ svc.catchup
    /\ svc' = [svc EXCEPT !.catchup = FALSE]
    /\ queue' = Append(queue, Operation("catchup", Nobody, 0))
    /\ UNCHANGED <<hostState, gate, origin, collector, op, login, used>>

(* The timer of the open window, and the retry after its pull failed.      *)
DeadlineFires ==
    /\ svc.phase = "live" /\ svc.timer
    /\ svc' = [svc EXCEPT !.timer = FALSE]
    /\ window' = [window EXCEPT !.late = TRUE]
    /\ queue' = Append(queue, Operation("late", Nobody, 0))
    /\ UNCHANGED <<hostState, gate, origin, taken, owner, sealed, op, login, used>>

DeadlineRetryFires ==
    /\ svc.phase = "live" /\ svc.late
    /\ svc' = [svc EXCEPT !.late = FALSE]
    /\ queue' = Append(queue, Operation("late", Nobody, 0))
    /\ UNCHANGED <<hostState, gate, origin, collector, op, login, used>>

(* coordinateCount, called by a retry, ignores a service that is paused.   *)
CountRetryFires ==
    /\ svc.phase = "live" /\ svc.count
    /\ svc' = [svc EXCEPT !.count = FALSE]
    /\ queue' = IF svc.accepting THEN Append(queue, Operation("count", Nobody, 0))
                ELSE queue
    /\ UNCHANGED <<hostState, gate, origin, collector, op, login, used>>

(* publishReflectionRuntime: replay what was deferred, in order, and       *)
(* publish in the turn that finds nothing left.                            *)
ReplayNext ==
    /\ svc.phase = "live" /\ ~svc.published /\ deferred # <<>>
    /\ ~Waiting("replay")
    /\ queue' = Append(queue, Operation("replay", Head(deferred), 0))
    /\ UNCHANGED <<hostState, gate, origin, collector, svc, op, login, used>>

Publish ==
    /\ svc.phase = "live" /\ ~svc.published /\ deferred = <<>>
    /\ ~Waiting("replay")
    /\ svc' = [svc EXCEPT !.published = TRUE]
    /\ UNCHANGED <<hostState, gate, origin, collector, op, queue, login, used>>

(* beginShutdown: no more ingress, no more timers.                         *)
Sealed(s) == [NoService EXCEPT !.phase = "shut", !.cursor = s.cursor]

(* A later step of the start loop fails: the runtime is withdrawn and      *)
(* closed.                                                                 *)
StartupFails ==
    /\ MayFail /\ svc.published /\ used.crashes < MaxCrashes
    /\ used' = [used EXCEPT !.crashes = @ + 1]
    /\ svc' = Sealed(svc)
    /\ UNCHANGED <<hostState, gate, origin, collector, op, queue, login>>

(* Operations that find the service shut down return or throw; a cutover   *)
(* fails its caller.                                                       *)
CallerFails(kinds) ==
    IF auth.to # "idle" /\ "cutover" \in kinds
    THEN /\ who' = IF auth.to = Nobody THEN who ELSE Nobody
         /\ auth' = [auth EXCEPT !.to = "idle"]
    ELSE UNCHANGED <<who, auth>>

(* stop() has joined the queue, and agent.stop() ends the host.            *)
Stopped ==
    /\ svc.phase = "shut" /\ op = Idle
    /\ svc' = NoService /\ queue' = <<>>
    /\ CallerFails({queue[i].kind : i \in DOMAIN queue})
    /\ HostDown /\ gate' = "closed"
    /\ UNCHANGED <<origin, collector, op, deferred, used>>

(* The application ends; the session is restored later.                    *)
AppCrashes ==
    /\ used.crashes < MaxCrashes /\ svc.phase # "off"
    /\ HostDown /\ gate' = "closed"
    /\ svc' = NoService /\ op' = Idle /\ queue' = <<>>
    /\ who' = Nobody /\ auth' = [to |-> "idle", desired |-> Nobody] /\ deferred' = <<>>
    /\ used' = [used EXCEPT !.crashes = @ + 1]
    /\ UNCHANGED <<origin, collector>>

-----------------------------------------------------------------------------
(* Operations of the queue.                                                *)

(* The next operation begins.  A push behind a failed one is only counted; *)
(* a poll of a paused service restores it.                                 *)
OpBegins ==
    /\ op = Idle /\ queue # <<>> /\ svc.phase = "live"
    /\ queue' = Tail(queue)
    /\ LET o == Head(queue)
       IN IF o.kind = "ingest" /\ ~svc.accepting
          THEN svc' = [svc EXCEPT !.missed = TRUE] /\ UNCHANGED op
          ELSE /\ op' = IF o.kind = "poll" /\ ~svc.accepting
                        THEN [o EXCEPT !.arg = "restore"] ELSE o
               /\ UNCHANGED svc
    /\ UNCHANGED <<hostState, gate, origin, collector, login, used>>

(* After the last event of a page: the next page, or what follows the pull.*)
Proceed(o) ==
    IF o.todo # <<>> THEN o
    ELSE IF o.kind = "ingest" THEN Idle
    ELSE [o EXCEPT !.at = IF o.more THEN "query" ELSE "flush"]

Loops == op.kind \in {"start", "catchup"} \/ op.arg = "restore"

(* pullBacklog asks for a page; a loop forgets the pushes it missed before.*)
QueryPage ==
    /\ op.at = "query" /\ host = "serving"
    /\ op' = Proceed([op EXCEPT !.at = "items", !.todo = Page(Reader, LIMIT),
                                !.more = HasMore(Reader, LIMIT)])
    /\ svc' = IF Loops /\ op.todo = <<>> /\ ~op.more
              THEN [svc EXCEPT !.missed = FALSE] ELSE svc
    /\ UNCHANGED <<hostState, gate, origin, collector, queue, login, used>>

Materialised(n) == \E i \in DOMAIN taken : taken[i].seq = n
Open == Len(taken) - window.from

(* Mutant: an event the collector has already materialised is taken again. *)
Known_CursorOnly(n) == n <= svc.cursor

(* ingestJournalEvent skips what it has committed, the collector what it   *)
(* has a receipt for.                                                      *)
Known(n) == n <= svc.cursor \/ Materialised(n)

(* A full window is sealed before the next event, an overdue one when the  *)
(* event is younger than its deadline.                                     *)
SplitBefore ==
    IF Open >= THRESHOLD \/ Open = 0 THEN {TRUE}
    ELSE IF window.late THEN BOOLEAN ELSE {FALSE}

(* The event is materialised: a full window is sealed first, and the one   *)
(* that becomes full is announced.                                         *)
Ingest ==
    /\ op.at = "items" /\ op.todo # <<>>
    /\ IF Known(Head(op.todo))
       THEN UNCHANGED <<taken, window, sealed, svc, queue>>
       ELSE \E split \in SplitBefore :
              LET base == IF split THEN Emptied ELSE window
                  count == Len(taken) + 1 - base.from >= THRESHOLD
              IN /\ taken' = Append(taken, [seq |-> Head(op.todo), owner |-> owner])
                 /\ window' = base
                 /\ sealed' = IF split THEN sealed \cup WindowEvents ELSE sealed
                 /\ svc' = [svc EXCEPT !.timer = ~count /\ ~svc.deferring]
                 /\ queue' = IF count /\ svc.accepting
                             THEN Append(queue, Operation("count", Nobody, 0))
                             ELSE queue
    /\ op' = IF Head(op.todo) <= svc.cursor THEN Proceed([op EXCEPT !.todo = Tail(@)])
             ELSE [op EXCEPT !.at = "commit"]
    /\ UNCHANGED <<hostState, gate, origin, owner, login, used>>

(* commitCursor.                                                           *)
CommitEvent ==
    /\ op.at = "commit" /\ host = "serving"
    /\ CommitCursor(Reader, Head(op.todo))
    /\ svc' = [svc EXCEPT !.cursor = Head(op.todo)]
    /\ op' = Proceed([op EXCEPT !.at = "items", !.todo = Tail(@)])
    /\ UNCHANGED <<rows, last, retained, now, host, ring, wire, gate, origin,
                   collector, queue, login, used>>

(* flushCountDue and flushDue: which operations flush, and what is due.    *)
Due ==
    /\ op.kind = "poll" => Loops
    /\ \/ Open >= THRESHOLD
       \/ window.late /\ Open > 0 /\ op.kind # "count"

CaughtUp == ~svc.missed

(* What follows the pull, by kind of operation.  A loop that missed a push *)
(* pulls again before it enables the live path.                            *)
OpContinues ==
    /\ op.at = "flush" /\ op.kind \notin {"cutover", "replay"}
    /\ LET started == op.kind = "start" /\ CaughtUp
           flush == Due /\ (op.kind = "start" => started /\ owner = svc.target)
       IN /\ gate' = IF started THEN "automatic" ELSE gate
          /\ owner' = IF started THEN svc.target ELSE owner
          /\ window' = IF flush \/ owner' # owner THEN Emptied ELSE window
          /\ sealed' = IF flush THEN sealed \cup WindowEvents ELSE sealed
    /\ IF Loops /\ ~CaughtUp
       THEN op' = [op EXCEPT !.at = "query"] /\ UNCHANGED svc
       ELSE /\ op' = Idle
            /\ svc' = CASE op.kind = "start" ->
                             [svc EXCEPT !.phase = "live", !.accepting = TRUE,
                                         !.poll = TRUE, !.deferring = FALSE,
                                         !.timer = window'.from < Len(taken)]
                        [] Loops /\ svc.phase = "live" ->
                             [svc EXCEPT !.accepting = TRUE, !.catchup = FALSE,
                                         !.poll = @ \/ op.kind = "poll"]
                        [] op.kind = "count" -> [svc EXCEPT !.count = FALSE]
                        [] op.kind = "late" -> [svc EXCEPT !.late = FALSE]
                        [] op.kind = "poll" /\ svc.phase = "live" ->
                             [svc EXCEPT !.poll = TRUE]
                        [] OTHER -> svc
    /\ UNCHANGED <<hostState, origin, taken, queue, login, used>>

CutoverWindow == IF owner # op.arg THEN Emptied ELSE window

(* cutoverCloudOwner after its pull; the caller goes on.                   *)
Cutover ==
    /\ op.at = "flush" /\ op.kind \in {"cutover", "replay"}
    /\ owner' = op.arg
    /\ window' = CutoverWindow
    /\ svc' = [svc EXCEPT !.timer = @ /\ window' = window]
    /\ IF op.kind = "replay"
       THEN deferred' = Tail(deferred) /\ UNCHANGED <<who, auth>>
       ELSE /\ who' = IF auth.to = Nobody THEN Nobody ELSE who
            /\ auth' = [to |-> "idle", desired |-> op.arg]
            /\ UNCHANGED deferred
    /\ op' = Idle
    /\ UNCHANGED <<hostState, gate, origin, taken, sealed, queue, used>>

(* A query, a commit, the collector's save or its seal fails.  A failed    *)
(* pull or push pauses the live path; the operation decides what is        *)
(* retried.  A failed start or replay closes the candidate.                *)
Paused(s) == IF s.phase = "live" /\ s.accepting
             THEN [s EXCEPT !.accepting = FALSE, !.catchup = TRUE] ELSE s

OpFails ==
    /\ op.at \in {"query", "items", "commit"}
    /\ \/ Fault
       \/ /\ op.at # "items" /\ host = "down" /\ gate = "closed"
          /\ UNCHANGED used
    /\ op' = Idle
    /\ svc' = IF op.kind \in {"start", "replay"} THEN Sealed(svc)
              ELSE LET s == Paused(svc)
                   IN [s EXCEPT !.catchup = @ \/ (op.kind = "catchup" /\ s.phase = "live"),
                                !.late = @ \/ (op.kind = "late" /\ s.phase = "live"),
                                !.count = @ \/ (op.kind = "count" /\ s.phase = "live"),
                                !.poll = @ \/ (op.kind = "poll" /\ s.phase = "live")]
    /\ CallerFails({op.kind})
    /\ UNCHANGED <<hostState, gate, origin, collector, queue, deferred>>

-----------------------------------------------------------------------------
(* Accounts.  A transition is a cutover of the published service, or it is *)
(* deferred and its caller goes on.                                        *)

Transition(to) ==
    /\ auth.to = "idle" /\ used.logins < MaxLogins
    /\ used' = [used EXCEPT !.logins = @ + 1]
    /\ IF svc.published
       THEN /\ queue' = Append(queue, Operation("cutover", to, 0))
            /\ auth' = [to |-> to, desired |-> Nobody]
            /\ who' = IF to = Nobody THEN who ELSE to
            /\ UNCHANGED deferred
       ELSE /\ Len(deferred) < MaxDeferred /\ svc.phase \in DeferWhile
            /\ deferred' = Append(deferred, to)
            /\ auth' = [auth EXCEPT !.desired = to]
            /\ who' = to
            /\ UNCHANGED queue
    /\ UNCHANGED <<hostState, gate, origin, collector, svc, op>>

LogIn == who = Nobody /\ \E a \in Accounts : Transition(a)
LogOut == who # Nobody /\ Transition(Nobody)

-----------------------------------------------------------------------------

HostStep == HostBegins \/ HostReady \/ HostForwards
OpStep ==
    \/ OpBegins \/ QueryPage \/ Ingest \/ CommitEvent \/ OpContinues \/ Cutover
TimerFires ==
    \/ PollFires \/ CatchUpFires \/ DeadlineFires \/ DeadlineRetryFires
    \/ CountRetryFires
StartLoop == Start \/ ReplayNext \/ Publish \/ Stopped

Next ==
    \/ SensorAppends \/ HostStep \/ HostCrashes \/ FrameArrives
    \/ OpStep \/ OpFails \/ TimerFires \/ StartLoop
    \/ StartupFails \/ AppCrashes \/ LogIn \/ LogOut

Spec == Init /\ [][Next]_vars

(* Accounts are interchangeable.                                           *)
Symmetry == Permutations(Accounts)

(* The event loop runs, timers fire, the host is scheduled and its pipe is *)
(* read; nothing is assumed of sensors, faults and users.                  *)
FairSpec ==
    /\ Spec
    /\ WF_vars(HostBegins) /\ WF_vars(HostReady) /\ WF_vars(HostForwards)
    /\ WF_vars(FrameArrives) /\ WF_vars(OpStep) /\ WF_vars(StartLoop)
    /\ WF_vars(PollFires) /\ WF_vars(CatchUpFires) /\ WF_vars(DeadlineFires)
    /\ WF_vars(DeadlineRetryFires) /\ WF_vars(CountRetryFires)

-----------------------------------------------------------------------------
(* Properties.                                                             *)

(* Every event is materialised at most once, although the process may end  *)
(* or the commit fail between the collector's save and the cursor.         *)
MaterialisedOnce ==
    \A i, j \in DOMAIN taken : taken[i].seq = taken[j].seq => i = j

(* "Never let a later cursor jump over that durable gap": whatever was     *)
(* committed has all its predecessors materialised, in cursor order.       *)
NothingSkipped ==
    /\ \A i \in DOMAIN taken : taken[i].seq = i
    /\ committed[Reader] <= Len(taken)

(* "Never let native backlog accumulated across an account transition be   *)
(* adopted by the incoming account": an event of a sealed window belongs   *)
(* to the account that was logged in when it was recorded, or to nobody.   *)
NothingAdopted ==
    \A i \in sealed : taken[i].owner \in {Nobody, origin[taken[i].seq]}

(* A window never spans two owners.                                        *)
OneOwnerPerWindow ==
    \A i \in DOMAIN taken : i > window.from => taken[i].owner = owner

(* Every recorded event is materialised in the end, whatever was lost,     *)
(* paused or restarted on the way.                                         *)
CatchesUp == \A n \in 1..MaxEvents : last >= n ~> Materialised(n)

(* A full window is sealed in the end, also when the pull before it fails. *)
FullWindowIsSealed == Open >= THRESHOLD ~> Open < THRESHOLD

=============================================================================
