------------------------------- MODULE AgentRuns -------------------------------
(***************************************************************************)
(* One conversation or planning run of AgentRunCoordinator                  *)
(* (src/bun/agent-run-coordinator.ts) and the tool approvals of             *)
(* AgentToolPolicy, from its start to its end: the user's commands, the     *)
(* sidecar's events and host calls, the end of the sidecar process, sign    *)
(* out, and a crash of the application. Each is a task: a sequence of       *)
(* segments between awaits, and the segments of different tasks interleave. *)
(* The run's record is written in the segment that issues the write; what   *)
(* follows the write is the next segment. The messages are left out.        *)
(***************************************************************************)
EXTENDS Integers, Sequences, FiniteSets, TLC

CONSTANTS
    Kinds,      \* kinds of runs: "conversation-turn", "task-planning"
    Calls,      \* write-tool calls the model may propose
    Users,      \* commands of the user that may be under way together
    MaxObjects, \* ActiveRun objects there are at a time (bound)
    MaxCmds,    \* commands (bound)
    MaxExits,   \* ends of the sidecar process (bound)
    MaxOuts,    \* ends of a session (bound)
    MaxCrashes, \* crashes of the application (bound)
    MaxFaults   \* timeouts, failing writes, protocol gaps (bound)

Handlers == {"start", "chain", "host", "tail", "interrupt", "logout", "sweep"}

ASSUME RunKinds == Kinds \subseteq {"conversation-turn", "task-planning"}
ASSUME RunUsers == Users \cap Handlers = {}
ASSUME RunBounds ==
    {MaxObjects, MaxCmds, MaxExits, MaxOuts, MaxCrashes, MaxFaults} \subseteq Nat

VARIABLES
    kind,      \* "conversation-turn" or "task-planning"
    db,        \* the run's record
    appr,      \* tool_approvals: status and the run revision each is bound to
    old,       \* approvals whose ten minutes have passed
    obj,       \* ActiveRun objects
    active,    \* the object the active map holds for the run, or 0
    tokens,    \* approvedToolCalls
    sess,      \* the published session, 0 when signed out
    side,      \* what the sidecar is doing with the run
    tracked,   \* the run is among the client's activeRunIds
    events,    \* run events accepted and not yet applied (run.chain)
    task,      \* the asynchronous operations under way
    done,      \* (history variable) times each write took effect
    used       \* how much of each bound a behaviour has used

persisted == <<kind, db, appr>>
vars == <<persisted, old, obj, active, tokens, sess, side, tracked, events, task, done, used>>

None == "none"
Insts == 1..MaxObjects
Sessions == 1..(MaxOuts + MaxCrashes + 1)
Tasks == Users \cup Handlers
Terminal == {"completed", "cancelled", "interrupted", "failed"}
Unfinished == {"starting", "running", "suspended", "cancelling"}
\* "question" stands for the clarification a planning run waits for
Pend == Calls \cup {None, "question"}

Blank == [status |-> None, rev |-> 0, pend |-> None]
NoRun == [status |-> None, rev |-> 0, pend |-> None, rec |-> FALSE, crit |-> FALSE, sess |-> 0]
Idle == [todo |-> <<>>, i |-> 0, c |-> None, yes |-> FALSE, s |-> 0, snap |-> Blank]

Snap == [status : Unfinished \cup Terminal \cup {None}, rev : Nat, pend : Pend]

RunTypeOK ==
    /\ kind \in {None, "conversation-turn", "task-planning"}
    /\ db \in Snap
    /\ appr \in [Calls -> [st : {None, "pending", "approved", "denied", "expired"}, rev : Nat]]
    /\ old \subseteq Calls /\ tokens \subseteq Calls
    /\ \A i \in Insts : obj[i].status \in Unfinished \cup Terminal \cup {None}
    /\ active \in Insts \cup {0}
    /\ sess \in Sessions \cup {0}
    /\ side \in {"none", "starting", "running", "asking", "suspended", "approving",
                 "declining", "approved", "calling", "cancelling", "done"}
    /\ tracked \in BOOLEAN
    /\ events \in Seq({"running", "suspended", "question", "completed", "cancelled",
                       "failed", "gap"})
    /\ \A t \in Tasks : task[t].snap \in Snap /\ task[t].i \in Insts \cup {0}
    /\ done \in [Calls -> Nat]

Init ==
    /\ kind = None /\ db = Blank
    /\ appr = [c \in Calls |-> [st |-> None, rev |-> 0]]
    /\ old = {} /\ obj = [i \in Insts |-> NoRun] /\ active = 0 /\ tokens = {}
    /\ sess = 1 /\ side = "none" /\ tracked = FALSE /\ events = <<>>
    /\ task = [t \in Tasks |-> Idle]
    /\ done = [c \in Calls |-> 0]
    /\ used = [cmds |-> 0, exits |-> 0, outs |-> 0, crashes |-> 0, faults |-> 0]

----------------------------------------------------------------------------
(* The session and the active map *)

\* isRunSessionCurrent, and the condition assertRunSession throws on
IsRunSessionCurrent(i) == active = i /\ sess # 0 /\ obj[i].sess = sess

IsTerminal(i) == obj[i].status \in Terminal

\* isRecoverableSuspension
IsRecoverableSuspension(i) == obj[i].status = "suspended" /\ obj[i].pend # None

Free(t) == task[t] = Idle
\* An object that neither the map nor a task refers to
IsFresh(i) == i # active /\ \A t \in Tasks : task[t].i # i
FreshObject == CHOOSE i \in Insts : IsFresh(i)

\* activate
Activate(i, status, rev, pend, rec) ==
    /\ active' = i
    /\ obj' = [obj EXCEPT ![i] = [status |-> status, rev |-> rev, pend |-> pend,
                                  rec |-> rec, crit |-> FALSE, sess |-> sess]]
    /\ events' = <<>>

Shot(o) == [status |-> o.status, rev |-> o.rev, pend |-> o.pend]

Has(todo, step) == \E k \in 1..Len(todo) : todo[k] = step

\* The steps of a finally block run although the operation threw.
Unwound(todo) == (IF Has(todo, "endCritical") THEN <<"endCritical">> ELSE <<>>)
                   \o (IF Has(todo, "reply") THEN <<"reply">> ELSE <<>>)

Set(t, todo) == IF todo = <<>> THEN task' = [task EXCEPT ![t] = Idle]
                ELSE task' = [task EXCEPT ![t].todo = todo]
Advance(t) == Set(t, Tail(task[t].todo))
Throw(t) == Set(t, Unwound(Tail(task[t].todo)))

At(t, step) == task[t].todo # <<>> /\ Head(task[t].todo) = step
Obj(t) == obj[task[t].i]

\* The segment continues when its assertRunSession holds, and throws otherwise.
Current(t) == IsRunSessionCurrent(task[t].i)

Memory == UNCHANGED <<active, tokens, sess, side, tracked, events>>
Rest == UNCHANGED <<old, done, used>>

\* emit and persistRun: the record is the object as it is now.
EmitAs(t, o, todo) ==
    /\ obj' = [obj EXCEPT ![task[t].i] = o]
    /\ db' = Shot(o)
    /\ Set(t, todo)

\* emit of an event that changes no field kept here
Emit(t) ==
    /\ At(t, "emit")
    /\ IF Current(t) THEN EmitAs(t, Obj(t), Tail(task[t].todo))
       ELSE Throw(t) /\ UNCHANGED <<obj, db>>
    /\ UNCHANGED <<kind, appr>> /\ Memory /\ Rest

----------------------------------------------------------------------------
(* The start of a run *)

\* startConversationTurn and startTaskPlanningRun up to the first await; the
\* request counts as a pending start until it returns.
StartRun(k) ==
    /\ sess # 0 /\ kind = None /\ Free("start")
    /\ kind' = k
    /\ task' = [task EXCEPT !["start"] =
           [Idle EXCEPT !.s = sess, !.todo =
               IF k = "conversation-turn"
               THEN <<"messages", "activate", "emit", "request">>
               ELSE <<"activate", "request">>]]
    /\ UNCHANGED <<db, appr, obj>> /\ Memory /\ Rest

ActivateRun ==
    /\ At("start", "activate")
    /\ IF sess # task["start"].s
       THEN Throw("start") /\ UNCHANGED <<db, obj, active, events>>
       ELSE /\ \E i \in Insts : IsFresh(i)
            /\ Activate(FreshObject, "starting", 1, None, FALSE)
            /\ db' = [status |-> "starting", rev |-> 1, pend |-> None]
            /\ task' = [task EXCEPT !["start"].todo = Tail(@), !["start"].i = FreshObject]
    /\ UNCHANGED <<kind, appr, tokens, sess, side, tracked>> /\ Rest

RequestStart ==
    /\ At("start", "request")
    /\ IF Current("start")
       THEN side' = "starting" /\ tracked' = TRUE /\ Advance("start")
       ELSE Throw("start") /\ UNCHANGED <<side, tracked>>
    /\ UNCHANGED <<persisted, obj, active, tokens, sess, events>> /\ Rest

----------------------------------------------------------------------------
(* The ends of a run *)

Ending == (IF kind = "conversation-turn" THEN <<"message">> ELSE <<>>) \o <<"emit", "finish">>

\* failRun, finishCancelled and interruptRun: the text that is still buffered is
\* flushed, which throws outside the session, and the status is set.
EnterEnd(t, e) ==
    LET o == [Obj(t) EXCEPT !.status = e, !.rev = IF e = "interrupted" THEN @ + 1 ELSE @]
    IN /\ At(t, e)
       /\ IF IsTerminal(task[t].i) \/ (e = "failed" /\ ~Current(t))
          THEN Throw(t) /\ UNCHANGED obj
          ELSE /\ \/ ~Current(t) /\ UNCHANGED obj
                  \/ obj' = [obj EXCEPT ![task[t].i] = o]
               /\ IF Current(t) THEN Set(t, Ending \o Tail(task[t].todo)) ELSE Throw(t)
       /\ UNCHANGED persisted /\ Memory /\ Rest

\* putMessage: the messages are stored, and anything may happen meanwhile.
PutMessage(t) ==
    /\ \E step \in {"messages", "message", "putComplete"} : At(t, step)
    /\ Advance(t)
    /\ UNCHANGED <<persisted, obj>> /\ Memory /\ Rest

\* An object no other task refers to is forgotten.
Without(o, i, t) ==
    IF Tail(task[t].todo) = <<>> /\ \A x \in Tasks \ {t} : task[x].i # i
    THEN [obj EXCEPT ![i] = NoRun] ELSE [obj EXCEPT ![i] = o]

\* finishRun: the record is written once more, and whatever comes of the write
\* the run leaves the active map and its approved calls are forgotten.
DropRun(t) ==
    /\ db' = Shot(Obj(t))
    /\ active' = 0 /\ tokens' = {} /\ tracked' = FALSE /\ events' = <<>>
    /\ obj' = Without(Obj(t), task[t].i, t)
    /\ Advance(t)
    /\ UNCHANGED <<kind, appr, sess, side>> /\ Rest

FinishRun(t) ==
    /\ At(t, "finish")
    /\ IF Current(t) \/ t = "logout" THEN DropRun(t)
       ELSE Throw(t) /\ UNCHANGED <<persisted, obj>> /\ Memory /\ Rest

\* handleCompleted
Completing ==
    (IF kind = "conversation-turn" THEN <<"putComplete">> ELSE <<>>)
    \o <<"emit", "complete", "finish">>

SetCompleted(t) ==
    /\ At(t, "complete")
    /\ IF Current(t) THEN EmitAs(t, [Obj(t) EXCEPT !.status = "completed"], Tail(task[t].todo))
       ELSE Throw(t) /\ UNCHANGED <<obj, db>>
    /\ UNCHANGED <<kind, appr>> /\ Memory /\ Rest

----------------------------------------------------------------------------
(* The sidecar and its events *)

Accept(e) == events' = Append(events, e)
Sidecar == UNCHANGED <<persisted, obj, active, tokens, sess>> /\ Rest

\* A request is accepted: the sidecar works on the run and says so.
SidecarAccepts ==
    /\ side \in {"starting", "approving", "declining"} /\ Free("host")
    /\ side' = IF side = "approving" THEN "approved" ELSE "running"
    /\ Accept("running")
    /\ UNCHANGED <<task, tracked>> /\ Sidecar

\* A terminal event also makes the client forget the run.
SidecarEnds(e) ==
    /\ side = "running"
    /\ Accept(e) /\ side' = "done" /\ tracked' = FALSE
    /\ UNCHANGED task /\ Sidecar

SidecarAsks ==
    /\ side = "running" /\ kind = "task-planning"
    /\ Accept("question") /\ side' = "suspended"
    /\ UNCHANGED <<task, tracked>> /\ Sidecar

\* Frames are taken one after another: an event waits for the host call before it.
SidecarCancels ==
    /\ side = "cancelling" /\ Free("host")
    /\ Accept("cancelled") /\ side' = "done" /\ tracked' = FALSE
    /\ UNCHANGED task /\ Sidecar

\* acceptSidecarEvent sees a sequence that does not follow the last one.
SidecarSkips ==
    /\ side = "running" /\ used.faults < MaxFaults
    /\ Accept("gap")
    /\ used' = [used EXCEPT !.faults = @ + 1]
    /\ UNCHANGED <<persisted, old, obj, active, tokens, sess, side, tracked, task, done>>

Apply(o, e) ==
    CASE e = "running" -> [o EXCEPT !.status = "running"]
      [] e = "suspended" -> [o EXCEPT !.status = "suspended"]
      [] e = "question" -> [o EXCEPT !.status = "suspended", !.pend = "question", !.rev = @ + 1]

\* applySidecarEvent, one event of the run's chain after another
TakeEvent ==
    LET e == Head(events)
        i == active
    IN /\ events # <<>> /\ Free("chain")
       /\ events' = Tail(events)
       /\ IF i = 0 \/ ~IsRunSessionCurrent(i) \/ (e # "gap" /\ IsTerminal(i))
          THEN UNCHANGED <<task, obj, db>>
          ELSE IF e \in {"running", "suspended", "question"}
          THEN /\ obj' = [obj EXCEPT ![i] = Apply(obj[i], e)]
               /\ db' = Shot(Apply(obj[i], e))
               /\ UNCHANGED task
          ELSE /\ task' = [task EXCEPT !["chain"] = [Idle EXCEPT !.i = i, !.todo =
                      CASE e = "gap" -> <<"interrupted">>
                        [] e = "completed" -> Completing
                        [] OTHER -> <<e>>]]
               /\ UNCHANGED <<obj, db>>
       /\ UNCHANGED <<kind, appr, active, tokens, sess, side, tracked>> /\ Rest

\* A request the sidecar does not answer in time, or answers with an error: failRun.
RequestFails ==
    /\ side \in {"starting", "approving", "declining"} /\ Free("tail") /\ used.faults < MaxFaults
    /\ active # 0 /\ ~IsTerminal(active) /\ IsRunSessionCurrent(active)
    /\ obj' = [obj EXCEPT ![active].status = "failed"]
    /\ task' = [task EXCEPT !["tail"] = [Idle EXCEPT !.i = active, !.todo = Ending]]
    /\ used' = [used EXCEPT !.faults = @ + 1]
    /\ UNCHANGED <<persisted, old, done>> /\ Memory

\* The process ends: the requests it has not answered are rejected, the runs it
\* worked on are interrupted. It is started again when it is needed.
SidecarExits ==
    LET failing == side \in {"starting", "approving", "declining"} /\ active # 0 /\ Free("tail")
    IN /\ used.exits < MaxExits /\ Free("interrupt")
       /\ side' = "none" /\ tracked' = FALSE
       /\ task' = [task EXCEPT
              !["interrupt"] = IF tracked /\ active # 0
                               THEN [Idle EXCEPT !.i = active, !.todo = <<"settle">>] ELSE @,
              !["tail"] = IF failing THEN [Idle EXCEPT !.i = active, !.todo = <<"failed">>] ELSE @]
       /\ used' = [used EXCEPT !.exits = @ + 1]
       /\ UNCHANGED <<persisted, old, obj, active, tokens, sess, events, done>>

CriticalSettled(i) == ~obj[i].crit

IsKept(i) == IsRecoverableSuspension(i)

\* interruptRuns: a run that waits for the user is kept for the next process.
InterruptRun ==
    LET t == "interrupt" i == task["interrupt"].i IN
    /\ At(t, "settle") /\ CriticalSettled(i)
    /\ IF active # i \/ IsTerminal(i) THEN Throw(t) /\ UNCHANGED <<obj, db>>
       ELSE IF ~IsKept(i)
            THEN Set(t, <<"interrupted">>) /\ UNCHANGED <<obj, db>>
            ELSE IF Current(t) THEN EmitAs(t, [obj[i] EXCEPT !.rec = TRUE], <<>>)
            ELSE Throw(t) /\ obj' = [obj EXCEPT ![i].rec = TRUE] /\ UNCHANGED db
    /\ UNCHANGED <<kind, appr>> /\ Memory /\ Rest

----------------------------------------------------------------------------
(* Host calls of the sidecar: a proposal, and the execution of an approved call *)

\* propose up to proposeWrite: the revision the approval is bound to is new.
Propose(c) ==
    LET o == [obj[active] EXCEPT !.rev = @ + 1] IN
    /\ side = "running" /\ kind = "conversation-turn" /\ Free("host")
    /\ appr[c].st = None /\ active # 0 /\ ~IsTerminal(active) /\ IsRunSessionCurrent(active)
    /\ side' = "asking"
    /\ obj' = [obj EXCEPT ![active] = o]
    /\ task' = [task EXCEPT !["host"] =
           [Idle EXCEPT !.i = active, !.c = c, !.snap = Shot(o),
               !.todo = <<"putApproval", "proposed", "reply">>]]
    /\ UNCHANGED <<persisted, active, tokens, sess, tracked, events>> /\ Rest

PutApproval ==
    /\ At("host", "putApproval")
    /\ appr' = [appr EXCEPT ![task["host"].c] =
                   [st |-> "pending", rev |-> task["host"].snap.rev]]
    /\ Advance("host")
    /\ UNCHANGED <<kind, db, obj>> /\ Memory /\ Rest

Proposed ==
    /\ At("host", "proposed")
    /\ IF Current("host")
       THEN EmitAs("host", [Obj("host") EXCEPT !.pend = task["host"].c], Tail(task["host"].todo))
       ELSE Throw("host") /\ UNCHANGED <<obj, db>>
    /\ UNCHANGED <<kind, appr>> /\ Memory /\ Rest

\* The answer of a host call; after a proposal the sidecar suspends the run.
Reply ==
    /\ At("host", "reply")
    /\ side' = CASE side = "asking" -> "suspended" [] side = "calling" -> "running"
                 [] OTHER -> side
    /\ events' = IF side = "asking" THEN Append(events, "suspended") ELSE events
    /\ Advance("host")
    /\ UNCHANGED <<persisted, obj, active, tokens, sess, tracked>> /\ Rest

\* Mutant: the approved call stays in the map.
Spent_Kept(c) == tokens

\* approvedToolCalls.delete
Spent(c) == tokens \ {c}

\* call: the approved call is taken out of the map before anything is awaited.
\* Without one, or for a run that has ended, the call is refused: a sidecar that
\* calls again is not served twice.
CallTool(c) ==
    LET refused == \/ active = 0
                   \/ IsTerminal(active) \/ ~IsRunSessionCurrent(active)
    IN /\ side \in {"approved", "running"} /\ Free("host") /\ appr[c].st # None
       /\ IF refused \/ c \notin tokens
          THEN side' = "running" /\ UNCHANGED <<task, tokens, db>>
          ELSE /\ side' = "calling" /\ tokens' = Spent(c)
               /\ db' = Shot(obj[active])
               /\ task' = [task EXCEPT !["host"] =
                      [Idle EXCEPT !.i = active, !.c = c, !.todo = <<"begin", "reply">>]]
       /\ UNCHANGED <<kind, appr, obj, active, sess, tracked, events>> /\ Rest

Executing == <<"check", "land">>

\* beginCriticalOperation, which throws when the run already has one
BeginTool ==
    /\ At("host", "begin")
    /\ IF Current("host") /\ CriticalSettled(task["host"].i)
       THEN /\ obj' = [obj EXCEPT ![task["host"].i].crit = TRUE]
            /\ Set("host", Executing \o <<"endCritical", "reply">>)
       ELSE Throw("host") /\ UNCHANGED obj
    /\ UNCHANGED persisted /\ Memory /\ Rest

EndCritical(t) ==
    /\ At(t, "endCritical")
    /\ obj' = [obj EXCEPT ![task[t].i].crit = FALSE]
    /\ Advance(t)
    /\ UNCHANGED persisted /\ Memory /\ Rest

\* What follows the execution, by its result: the sidecar is told, or the run
\* that is resolved without a sidecar is completed or failed.
AfterTool(t, ok) ==
    <<"emit">>
    \o (IF t = "host" THEN <<"endCritical", "reply">>
        ELSE (IF ok THEN <<"assert">> \o Completing ELSE <<"failed">>) \o <<"endCritical">>)

\* Mutant: the status is set without comparing it with what was read.
CompareAndSet_NoCompare(c, expected, next) ==
    [ok |-> TRUE, appr |-> [appr EXCEPT ![c].st = next]]

\* compareAndSetApprovalStatus
CompareAndSet(c, expected, next) ==
    IF appr[c].st = expected THEN [ok |-> TRUE, appr |-> [appr EXCEPT ![c].st = next]]
    ELSE [ok |-> FALSE, appr |-> appr]

\* assertApprovedForExecution: decided, unchanged and not past its ten minutes
Executable(c) == appr[c].st = "approved" /\ c \notin old

\* An approval that is not carried out in time is marked expired.
Lapsed(c) == IF c \in old THEN CompareAndSet(c, "approved", "expired").appr ELSE appr

CheckApproval(t) ==
    LET c == task[t].c IN
    /\ At(t, "check")
    /\ IF Executable(c)
       THEN /\ UNCHANGED appr
            /\ IF Current(t) THEN Advance(t) ELSE Throw(t)
       ELSE /\ appr' = Lapsed(c)
            /\ Set(t, AfterTool(t, FALSE))
    /\ UNCHANGED <<kind, db, obj>> /\ Memory /\ Rest

AssertSession(t) ==
    /\ At(t, "assert")
    /\ IF Current(t) THEN Advance(t) ELSE Throw(t)
    /\ UNCHANGED <<persisted, obj>> /\ Memory /\ Rest

\* The executor's write takes effect, or fails.
ExecuteTool(t) ==
    /\ At(t, "land")
    /\ \/ /\ done' = [done EXCEPT ![task[t].c] = @ + 1]
          /\ Set(t, AfterTool(t, TRUE))
          /\ UNCHANGED used
       \/ /\ used.faults < MaxFaults
          /\ used' = [used EXCEPT !.faults = @ + 1]
          /\ Set(t, AfterTool(t, FALSE))
          /\ UNCHANGED done
    /\ UNCHANGED <<persisted, old, obj>> /\ Memory

----------------------------------------------------------------------------
(* Commands of the user *)

\* requireMutableRun: the active run of this session, or a suspended one that is
\* read from its record; anything else is not found.
Command(u, op, c, yes) ==
    LET direct == active # 0 /\ obj[active].sess = sess
    IN /\ sess # 0 /\ Free(u) /\ used.cmds < MaxCmds
       /\ direct \/ db.status = "suspended"
       /\ task' = [task EXCEPT ![u] =
              [Idle EXCEPT !.i = IF direct THEN active ELSE 0, !.c = c, !.yes = yes,
                  !.s = sess, !.snap = db,
                  !.todo = IF direct THEN <<op>> ELSE <<"reactivate", "track", op>>]]
       /\ used' = [used EXCEPT !.cmds = @ + 1]
       /\ UNCHANGED <<persisted, old, obj, done>> /\ Memory

\* reactivateSuspendedRun: a second one replaces the first in the map.
Reactivate(u) ==
    /\ At(u, "reactivate")
    /\ IF sess # task[u].s THEN Throw(u) /\ UNCHANGED <<obj, active, events>>
       ELSE LET r == task[u].snap IN
            /\ \E i \in Insts : IsFresh(i)
            /\ Activate(FreshObject, r.status, r.rev, r.pend, TRUE)
            /\ task' = [task EXCEPT ![u].todo = Tail(@), ![u].i = FreshObject]
    /\ UNCHANGED <<persisted, tokens, sess, side, tracked>> /\ Rest

TrackRun(u) ==
    /\ At(u, "track")
    /\ IF Current(u) THEN tracked' = TRUE /\ Advance(u) ELSE Throw(u) /\ UNCHANGED tracked
    /\ UNCHANGED <<persisted, obj, active, tokens, sess, side, events>> /\ Rest

\* decideAgentToolApproval: the approval is shown with the revision it is bound
\* to, and a decision for another revision is a conflict.
BeginDecision(u) ==
    /\ At(u, "decide")
    /\ IF Obj(u).rev = appr[task[u].c].rev /\ CriticalSettled(task[u].i)
       THEN /\ obj' = [obj EXCEPT ![task[u].i].crit = TRUE]
            /\ Set(u, (IF appr[task[u].c].st = "pending"
                       THEN <<"consume", "decided", "resolve">> ELSE <<>>) \o <<"endCritical">>)
       ELSE Throw(u) /\ UNCHANGED obj
    /\ UNCHANGED persisted /\ Memory /\ Rest

\* AgentToolPolicy.decide: the approval that was read as pending is consumed; one
\* that has expired meanwhile is marked so instead.
ConsumeApproval(u) ==
    LET c == task[u].c
        r == CompareAndSet(c, "pending", IF c \in old THEN "expired"
                                         ELSE IF task[u].yes THEN "approved" ELSE "denied")
    IN /\ At(u, "consume")
       /\ appr' = r.appr
       /\ IF r.ok /\ c \notin old THEN Advance(u) ELSE Throw(u)
       /\ UNCHANGED <<kind, db, obj>> /\ Memory /\ Rest

\* Only the process that proposed a call may execute it.
Token(u) == IF task[u].yes /\ ~Obj(u).rec THEN tokens \cup {task[u].c} ELSE tokens

Decided(u) ==
    LET o == [Obj(u) EXCEPT !.rev = @ + 1, !.status = "running", !.pend = None] IN
    /\ At(u, "decided")
    /\ IF Current(u)
       THEN EmitAs(u, o, Tail(task[u].todo)) /\ tokens' = Token(u)
       ELSE Throw(u) /\ UNCHANGED <<obj, db, tokens>>
    /\ UNCHANGED <<kind, appr, old, active, sess, side, tracked, events, done, used>>

\* The sidecar is told, or refuses what it does not wait for; resolveRecoveredApproval
\* goes on without one, still inside the critical operation.
Resolve(u) ==
    /\ At(u, "resolve")
    /\ IF ~Current(u) THEN Throw(u) /\ UNCHANGED <<side, tracked>>
       ELSE IF Obj(u).rec
       THEN /\ Set(u, (IF task[u].yes THEN <<"emit">> \o Executing
                       ELSE <<"assert">> \o Completing) \o <<"endCritical">>)
            /\ UNCHANGED <<side, tracked>>
       ELSE /\ tracked' = TRUE
            /\ IF side = "suspended"
               THEN side' = (IF task[u].yes THEN "approving" ELSE "declining") /\ Advance(u)
               ELSE /\ Free("tail") /\ UNCHANGED side
                    /\ task' = [task EXCEPT ![u].todo = Tail(@), !["tail"] =
                           [Idle EXCEPT !.i = task[u].i, !.todo = <<"failed">>]]
    /\ UNCHANGED <<persisted, obj, active, tokens, sess, events>> /\ Rest

Cancellable(i) == ~IsTerminal(i) /\ CriticalSettled(i)

\* cancelAgentRun
CancelAgentRun(u) ==
    /\ At(u, "cancel")
    /\ IF Cancellable(task[u].i) /\ Current(u)
       THEN EmitAs(u, [Obj(u) EXCEPT !.rev = @ + 1, !.status = "cancelling"],
                   <<"cancelRequest">>)
       ELSE Throw(u) /\ UNCHANGED <<obj, db>>
    /\ UNCHANGED <<kind, appr, old, done, used>> /\ Memory

\* The sidecar is asked to cancel; one that does not know the run refuses.
RequestCancel(u) ==
    /\ At(u, "cancelRequest")
    /\ IF ~Current(u) THEN Throw(u) /\ UNCHANGED side
       ELSE IF side = "none" THEN Set(u, <<"cancelled">>) /\ UNCHANGED side
       ELSE Set(u, <<"cancelAnswer">>) /\ side' = (IF side = "done" THEN side ELSE "cancelling")
    /\ UNCHANGED <<persisted, obj, active, tokens, sess, tracked, events>> /\ Rest

\* It answers after its event. No answer in ten seconds, or the end of the process,
\* ends the run here.
CancelAnswered(u) ==
    /\ At(u, "cancelAnswer")
    /\ \/ side = "done" /\ Advance(u) /\ UNCHANGED used
       \/ side \notin {"cancelling", "done"} /\ Set(u, <<"cancelled">>) /\ UNCHANGED used
       \/ /\ side = "cancelling" /\ used.faults < MaxFaults
          /\ used' = [used EXCEPT !.faults = @ + 1]
          /\ Set(u, <<"cancelled">>)
    /\ UNCHANGED <<persisted, old, obj, done>> /\ Memory

\* submitPlanningClarification: the run is looked at, the two read grants are
\* awaited, and the answer is accepted.
CheckAnswer(u) ==
    /\ At(u, "answer")
    /\ IF Obj(u).status = "suspended" /\ Obj(u).pend = "question"
       THEN Set(u, <<"answered", "answerRequest">>) ELSE Throw(u)
    /\ UNCHANGED <<persisted, obj>> /\ Memory /\ Rest

Answered(u) ==
    /\ At(u, "answered")
    /\ IF Current(u)
       THEN EmitAs(u, [Obj(u) EXCEPT !.rev = @ + 1, !.status = "running"],
                   Tail(task[u].todo))
       ELSE Throw(u) /\ UNCHANGED <<obj, db>>
    /\ UNCHANGED <<kind, appr, old, done, used>> /\ Memory

\* A sidecar that does not know the run reads the session back; one that is not
\* waiting refuses the answer, and the run fails.
RequestAnswer(u) ==
    /\ At(u, "answerRequest")
    /\ IF ~Current(u) THEN Throw(u) /\ UNCHANGED <<side, tracked>>
       ELSE /\ tracked' = TRUE
            /\ IF side \in {"suspended", "none"} THEN side' = "starting" /\ Advance(u)
               ELSE Set(u, <<"failed">>) /\ UNCHANGED side
    /\ UNCHANGED <<persisted, obj, active, tokens, sess, events>> /\ Rest

----------------------------------------------------------------------------
(* Sign out, sign in, crash *)

\* The session is withdrawn first, then cancelAllForAccount ends what it ran.
Logout ==
    /\ sess # 0 /\ Free("logout") /\ used.outs < MaxOuts
    /\ sess' = 0
    /\ task' = [task EXCEPT !["logout"] = [Idle EXCEPT !.todo = <<"drainStarts">>]]
    /\ used' = [used EXCEPT !.outs = @ + 1]
    /\ UNCHANGED <<persisted, old, obj, active, tokens, side, tracked, events, done>>

DrainStarts ==
    /\ At("logout", "drainStarts") /\ Free("start")
    /\ task' = [task EXCEPT !["logout"] =
           IF active = 0 THEN Idle
           ELSE [Idle EXCEPT !.i = active, !.todo = <<"drainChain">>]]
    /\ UNCHANGED <<persisted, obj>> /\ Memory /\ Rest

DrainChain ==
    /\ At("logout", "drainChain") /\ Free("chain") /\ events = <<>>
    /\ Set("logout", IF active = task["logout"].i THEN <<"drainHost">> ELSE <<>>)
    /\ UNCHANGED <<persisted, obj>> /\ Memory /\ Rest

HostCallsSettled == Free("host")

\* Then its host calls; then, when there is one, its critical operation.
DrainHost ==
    LET t == "logout" IN
    /\ At(t, "drainHost") /\ HostCallsSettled
    /\ IF ~CriticalSettled(task[t].i) THEN Set(t, <<"drainCritical">>)
       ELSE IF IsTerminal(task[t].i)
       THEN Set(t, <<"finish">>)
       ELSE Set(t, <<"cancelRun">>)
    /\ UNCHANGED <<persisted, obj>> /\ Memory /\ Rest

DrainCritical ==
    LET t == "logout" IN
    /\ At(t, "drainCritical") /\ CriticalSettled(task[t].i)
    /\ Set(t, IF active # task[t].i \/ IsTerminal(task[t].i) THEN <<>> ELSE <<"cancelRun">>)
    /\ UNCHANGED <<persisted, obj>> /\ Memory /\ Rest

\* The sidecar is asked for three seconds, then finishCancelledForLogout ends the
\* run without a session.
CancelForLogout ==
    LET t == "logout" IN
    /\ At(t, "cancelRun")
    /\ side' = IF side = "none" THEN side ELSE "done"
    /\ IF IsTerminal(task[t].i) THEN Throw(t) /\ UNCHANGED obj
       ELSE LET o == [Obj(t) EXCEPT !.status = "cancelled"] IN
            /\ obj' = [obj EXCEPT ![task[t].i] = o]
            /\ task' = [task EXCEPT ![t].todo =
                   IF kind = "conversation-turn" THEN <<"message", "finish">> ELSE <<"finish">>]
    /\ UNCHANGED <<persisted, active, tokens, sess, tracked, events>> /\ Rest

Login ==
    /\ sess = 0 /\ Free("logout")
    /\ sess' = used.outs + used.crashes + 1
    /\ UNCHANGED <<persisted, obj, active, tokens, side, tracked, events, task>> /\ Rest

\* listRestorableAgentRuns: records nobody works on are marked interrupted.
Sweep ==
    /\ sess # 0 /\ Free("sweep") /\ db.status \in {"starting", "running", "cancelling"}
    /\ ~(active # 0 /\ obj[active].sess = sess)
    /\ task' = [task EXCEPT !["sweep"] = [Idle EXCEPT !.s = sess, !.todo = <<"orphan">>,
                   !.snap = [db EXCEPT !.status = "interrupted", !.rev = @ + 1]]]
    /\ UNCHANGED <<persisted, obj>> /\ Memory /\ Rest

SweepWrite ==
    /\ At("sweep", "orphan")
    /\ IF sess = task["sweep"].s THEN db' = task["sweep"].snap ELSE UNCHANGED db
    /\ Advance("sweep")
    /\ UNCHANGED <<kind, appr, obj>> /\ Memory /\ Rest

\* The application ends and is started again, signed out.
Crash ==
    /\ used.crashes < MaxCrashes
    /\ used' = [used EXCEPT !.crashes = @ + 1]
    /\ obj' = [i \in Insts |-> NoRun] /\ active' = 0 /\ tokens' = {} /\ sess' = 0
    /\ side' = "none" /\ tracked' = FALSE /\ events' = <<>>
    /\ task' = [t \in Tasks |-> Idle]
    /\ UNCHANGED <<persisted, old, done>>

\* Ten minutes pass.
Expire(c) ==
    /\ appr[c].st \in {"pending", "approved"} /\ c \notin old
    /\ old' = old \cup {c}
    /\ UNCHANGED <<persisted, obj, task, done, used>> /\ Memory

----------------------------------------------------------------------------
Step(t) ==
    \/ Emit(t) \/ PutMessage(t) \/ FinishRun(t)
    \/ SetCompleted(t) \/ EndCritical(t)
    \/ \E e \in {"failed", "cancelled", "interrupted"} : EnterEnd(t, e)
    \/ CheckApproval(t) \/ AssertSession(t) \/ ExecuteTool(t)

StepUser(u) ==
    \/ Reactivate(u) \/ TrackRun(u) \/ BeginDecision(u) \/ ConsumeApproval(u)
    \/ Decided(u) \/ Resolve(u) \/ CancelAgentRun(u) \/ RequestCancel(u) \/ CancelAnswered(u)
    \/ CheckAnswer(u) \/ Answered(u) \/ RequestAnswer(u)

StepStart == ActivateRun \/ RequestStart
StepHost == PutApproval \/ Proposed \/ Reply \/ BeginTool
StepLogout == DrainStarts \/ DrainChain \/ DrainHost \/ DrainCritical \/ CancelForLogout

Commands(u) ==
    \/ \E c \in Calls, yes \in BOOLEAN :
          kind = "conversation-turn" /\ appr[c].st # None /\ Command(u, "decide", c, yes)
    \/ Command(u, "cancel", None, FALSE)
    \/ kind = "task-planning" /\ Command(u, "answer", None, FALSE)

Next ==
    \/ \E k \in Kinds : StartRun(k)
    \/ \E t \in Tasks : Step(t)
    \/ \E u \in Users : StepUser(u) \/ Commands(u)
    \/ StepStart \/ StepHost \/ StepLogout \/ InterruptRun \/ SweepWrite \/ TakeEvent
    \/ SidecarAccepts \/ SidecarAsks \/ SidecarCancels \/ SidecarSkips \/ SidecarExits
    \/ \E e \in {"completed", "failed"} : SidecarEnds(e)
    \/ RequestFails
    \/ \E c \in Calls : Propose(c) \/ CallTool(c) \/ Expire(c)
    \/ Logout \/ Login \/ Sweep \/ Crash

Spec == Init /\ [][Next]_vars

\* Awaited work goes on, a timer or the end of the process answers what the
\* sidecar does not, and a sidecar that was told to cancel says so.
Fairness ==
    /\ \A t \in Tasks : WF_vars(Step(t))
    /\ \A u \in Users : WF_vars(StepUser(u))
    /\ WF_vars(StepStart) /\ WF_vars(StepHost) /\ WF_vars(StepLogout)
    /\ WF_vars(InterruptRun) /\ WF_vars(TakeEvent) /\ WF_vars(SidecarCancels)

LiveSpec == Spec /\ Fairness

\* The slots of the user's commands are interchangeable.
UserSlots == Permutations(Users)

----------------------------------------------------------------------------
(* Properties *)

\* A write the user approved takes effect at most once, whatever the run meets:
\* a second decision, a second reactivation, a late call of the sidecar, a crash
\* and the recovery of the approval (call, resolveRecoveredApproval).
WriteAtMostOnce == \A c \in Calls : done[c] <= 1

\* What was written was approved, and no decision that was made afterwards says
\* otherwise (decide, assertApprovedForExecution).
WriteWasApproved == \A c \in Calls : done[c] > 0 => appr[c].st = "approved"

\* A decision is final: the other of two decisions under way together changes
\* nothing any more, and a denied or expired call never becomes approved. What the
\* ten minutes may still take back is an approval that was never carried out, and a
\* write that took effect is never recorded as expired (compareAndSetApprovalStatus,
\* assertApprovedForExecution).
DecisionIsFinalStep ==
    \A c \in Calls :
        /\ appr[c].st \in {"denied", "expired"} => appr'[c] = appr[c]
        /\ appr[c].st = "approved" /\ appr'[c] # appr[c] =>
              /\ appr'[c] = [appr[c] EXCEPT !.st = "expired"]
              /\ c \in old /\ done[c] = 0 /\ done'[c] = 0
DecisionIsFinal == [][DecisionIsFinalStep]_vars

\* A write takes effect while the session it was approved in is signed in, or
\* while the sign out still waits for it; never when a later session may be there
\* (assertRunSession, cancelAllForAccount).
WriteInItsSessionStep ==
    done' # done => sess # 0 \/ ~Free("logout")
WriteInItsSession == [][WriteInItsSessionStep]_vars

\* An answer is accepted only by a run that waits for one
\* (submitPlanningClarification).
AnsweredOnlyWhenAskedStep ==
    \A u \in Users : At(u, "answered") /\ Current(u) /\ task'[u] # Idle /\ task'[u] # task[u]
           => Obj(u).status = "suspended"
AnsweredOnlyWhenAsked == [][AnsweredOnlyWhenAskedStep]_vars

\* A cancel that was accepted ends the run: the sidecar's event, the refusal of the
\* request, or the end of the process takes it out of the active map
\* (cancelAgentRun, finishCancelled, interruptRuns).
CancelEndsRun == \A u \in Users : At(u, "cancelRequest") ~> active = 0

\* A sign out is not held up for ever by what it waits for (cancelAllForAccount).
LogoutEnds == ~Free("logout") ~> Free("logout")

\* When a sign out has been dealt with, no run of an ended session is active
\* (cancelAllForAccount).
LogoutLeavesNoRun ==
    sess # 0 /\ active # 0 => obj[active].sess = sess

\* A tool writes at most once, and what it writes was approved.
RunsSafe == RunTypeOK /\ WriteAtMostOnce /\ WriteWasApproved
================================================================================
