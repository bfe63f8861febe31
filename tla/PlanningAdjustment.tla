-------------------------- MODULE PlanningAdjustment --------------------------
(***************************************************************************)
(* PlanningRuntime (src/agent/planning/runtime.ts) over the native store   *)
(* (planning.rs): the operations on one plan as concurrent calls. An       *)
(* operation is a chain of saves and one calendar batch, each atomic by    *)
(* itself and idempotent by an operation key; between two of them other    *)
(* operations run, the process may crash, a reply may be lost. A save      *)
(* seals the snapshot in the vault first, under record ids bound to the    *)
(* key and the version; what was sealed for a write that never happened    *)
(* is an orphan until the garbage collection of the maintenance loop.      *)
(***************************************************************************)
EXTENDS Integers, Sequences, FiniteSets

CONSTANTS
    Tasks,
    First,      \* the tasks of the first revision
    Kinds,      \* the operations of this instance
    Starts,     \* the initial states of this instance
    MaxOps,     \* operation ids (bound)
    MaxTries,   \* calls, first ones and retries (bound)
    MaxCrashes, \* crashes of the process (bound)
    MaxFaults,  \* writes that fail or whose reply is lost (bound)
    MaxEdits    \* edits of the calendar by the user (bound)

InstanceOK ==
    /\ First \subseteq Tasks /\ First # {}
    /\ Starts \subseteq {"none", "proposed", "active"}
    /\ {MaxOps, MaxTries, MaxCrashes, MaxFaults, MaxEdits} \subseteq Nat

VARIABLES
    history, \* plan_history with the key of each version; the last one is the plan
    cal,     \* the plan's calendar events
    calOps,  \* the calendar batches of the operation ledger
    op,      \* the operations; number 0 is recoverPendingAdjustments
    maint,   \* runPlanningMaintenance
    orphans, \* <<key, version>> of sealed records no snapshot refers to
    outbox,  \* a calendar-changed entry that asks for a re-estimate is pending
    used     \* how much of each bound a behaviour has used

vars == <<history, cal, calOps, op, maint, orphans, outbox, used>>

Ops == 1..MaxOps
Actors == 0..MaxOps
Status == {"draft", "awaiting", "active", "paused", "completed", "archived"}
Running == {"active", "paused"}

----------------------------------------------------------------------------
(* Snapshots, revisions and change sets *)

Version == Len(history)
Plan == history[Version]
Key(o, stage) == <<o, stage>>
\* getOperationResult
Recorded(key) == \E v \in 1..Version : history[v].key = key
VersionOf(key) == CHOOSE v \in 1..Version : history[v].key = key

ActiveTasks(s) == IF s.active = 0 THEN {} ELSE s.revs[s.active].tasks

\* mapModelTasks: an automatic adjustment extends the active scope, it never
\* narrows it.
Scope(s, tasks, automatic) == IF automatic THEN ActiveTasks(s) \cup tasks ELSE tasks

\* canAutomaticallyMutateCalendarEvent
Mutable(s, id) == ~cal[id].locked /\ cal[id].task \notin s.done
MutableEvents(s) == {id \in DOMAIN cal : Mutable(s, id)}

Lowest(S) == CHOOSE x \in S : \A y \in S : x <= y

\* buildCalendarChangeSet for revision number n whose scheduled tasks are the
\* given ones: a task keeps its mutable event, a task without any event gets a
\* new one, a mutable event that is not reused goes.
Reused(s, t) == LET ids == {id \in MutableEvents(s) : cal[id].task = t}
                IN IF ids = {} THEN {} ELSE {Lowest(ids)}
ChangeSet(s, n, scheduled, fresh) ==
    LET kept == {id \in DOMAIN cal : ~Mutable(s, id)}
        wanted == {t \in scheduled \ s.done : \A id \in kept : cal[id].task # t}
        created == {t \in wanted : Reused(s, t) = {}}
        used_ids == UNION {Reused(s, t) : t \in wanted}
    IN {[kind |-> "update", id |-> id, task |-> cal[id].task, ver |-> cal[id].ver,
         from |-> cal[id].at, to |-> n] : id \in {i \in used_ids : cal[i].at # n}}
       \cup
       {[kind |-> "create", id |-> fresh + Cardinality({u \in created : u <= t}),
         task |-> t, ver |-> 0, from |-> 0, to |-> n] : t \in created}
       \cup
       {[kind |-> "delete", id |-> id, task |-> cal[id].task, ver |-> cal[id].ver,
         from |-> cal[id].at, to |-> 0] : id \in MutableEvents(s) \ used_ids}

\* reverseChangeSet
Reverse(cs) ==
    {[kind |-> CASE c.kind = "create" -> "delete"
                 [] c.kind = "delete" -> "create"
                 [] c.kind = "update" -> "update",
      id |-> c.id, task |-> c.task,
      ver |-> CASE c.kind = "create" -> 1 [] c.kind = "delete" -> 0
                [] c.kind = "update" -> c.ver + 1,
      from |-> c.to, to |-> c.from] : c \in cs}

----------------------------------------------------------------------------
(* The native calendar: mutate_calendar *)

\* The ownership and actor checks and the version check of one change.
RuntimeMay(c) ==
    /\ c.task \in Plan.tasks
    /\ c.kind # "delete" => Plan.status \in Running /\ c.task \notin Plan.done
    /\ c.id \in DOMAIN cal => ~cal[c.id].locked
VersionFits(c) ==
    IF c.kind = "create" THEN c.id \notin DOMAIN cal
    ELSE c.id \in DOMAIN cal /\ cal[c.id].ver = c.ver

Changed(cs) ==
    LET gone == {c.id : c \in {d \in cs : d.kind = "delete"}}
        set  == {c.id : c \in {d \in cs : d.kind # "delete"}}
        Of(id) == CHOOSE c \in cs : c.id = id
    IN [id \in (DOMAIN cal \ gone) \cup set |->
            IF id \in set THEN [task |-> Of(id).task, ver |-> Of(id).ver + 1,
                                at |-> Of(id).to, locked |-> FALSE]
            ELSE cal[id]]

\* Mutant: the ledger of calendar operations is not consulted.
Replayed_Never(key, cs) == FALSE
Replayed(key, cs) == [key |-> key, cs |-> cs] \in calOps
KeyTaken(key) == \E b \in calOps : b.key = key

\* A batch is committed, found to be committed, or refused as a whole.
Committed(key, cs) ==
    \/ Replayed(key, cs) /\ UNCHANGED <<cal, calOps>>
    \/ /\ ~Replayed(key, cs) /\ ~KeyTaken(key)
       /\ \A c \in cs : RuntimeMay(c) /\ VersionFits(c)
       /\ cal' = Changed(cs)
       /\ calOps' = calOps \cup {[key |-> key, cs |-> cs]}
Refused(key, cs) ==
    /\ ~Replayed(key, cs)
    /\ KeyTaken(key) \/ \E c \in cs : ~(RuntimeMay(c) /\ VersionFits(c))

----------------------------------------------------------------------------
(* The state *)

NoPlan == [key |-> <<0, "none">>, status |-> "draft", active |-> 0, proposed |-> 0,
           tasks |-> {}, done |-> {}, revs |-> <<>>, adj |-> <<>>]
Idle(kind) == [kind |-> kind, stage |-> "idle", base |-> 0, out |-> NoPlan,
               next |-> "done", for |-> 0, key |-> <<0, "none">>, cs |-> {},
               caught |-> FALSE]

Stages == {"idle", "analyze", "save", "apply", "done", "error"}
Key_s == Actors \X {"none", "start", "stage", "pending", "final", "apply", "clear", "undo"}
MaxRevisions == 2 + MaxOps
MaxEvents == Cardinality(Tasks) * (MaxTries + 1)
Change == [kind : {"create", "update", "delete"}, id : 1..MaxEvents, task : Tasks,
           ver : Nat, from : 0..MaxRevisions, to : 0..MaxRevisions]
SnapshotOK(s) ==
    /\ s.key \in Key_s /\ s.status \in Status
    /\ s.active \in 0..Len(s.revs) /\ s.proposed \in 0..Len(s.revs)
    /\ s.tasks \subseteq Tasks /\ s.done \subseteq s.tasks
    /\ \A i \in DOMAIN s.revs : s.revs[i].tasks \subseteq Tasks /\ s.revs[i].parent \in 0..(i - 1)
    /\ \A i \in DOMAIN s.adj :
           /\ s.adj[i].op \in Actors /\ s.adj[i].cs \subseteq Change
           /\ s.adj[i].status \in {"pending", "applied", "failed", "undone"}
           /\ s.adj[i].prev \in 0..Len(s.revs) /\ s.adj[i].next \in 1..Len(s.revs)

PlanningTypeOK ==
    /\ \A v \in 1..Version : SnapshotOK(history[v])
    /\ \A id \in DOMAIN cal :
           /\ id \in 1..MaxEvents
           /\ cal[id] \in [task : Tasks, ver : Nat, at : 0..MaxRevisions, locked : BOOLEAN]
    /\ \A b \in calOps : b.key \in Key_s /\ b.cs \subseteq Change
    /\ \A o \in Actors : op[o].stage \in Stages /\ op[o].base \in 0..Version
    /\ maint \in {"idle", "recover"}
    /\ \A x \in orphans : x[1] \in Key_s /\ x[2] \in 1..(Version + 1)
    /\ outbox \in BOOLEAN
    /\ used \in [tries : 0..MaxTries, crashes : 0..MaxCrashes, faults : 0..MaxFaults,
                 edits : 0..MaxEdits, ids : 0..MaxEvents]

Rev(tasks, parent) == [tasks |-> tasks, parent |-> parent]
Proposed == [NoPlan EXCEPT !.key = <<0, "start">>, !.status = "awaiting",
                !.proposed = 1, !.tasks = First, !.revs = <<Rev(First, 0)>>]
Active == [Proposed EXCEPT !.status = "active", !.proposed = 0, !.active = 1]

\* No plan yet; a first proposal; an active plan whose tasks have their events.
Init ==
    /\ \E start \in Starts :
           history = CASE start = "none" -> <<>>
                       [] start = "proposed" -> <<Proposed>>
                       [] start = "active" -> <<Active>>
    /\ LET placed == IF history # <<>> /\ Plan.status = "active" THEN First ELSE {} IN
           /\ cal = [id \in 1..Cardinality(placed) |->
                        [task |-> CHOOSE t \in placed : Cardinality({u \in placed : u <= t}) = id,
                         ver |-> 1, at |-> 1, locked |-> FALSE]]
           /\ used = [tries |-> 0, crashes |-> 0, faults |-> 0, edits |-> 0,
                      ids |-> Cardinality(placed)]
    /\ calOps = {} /\ orphans = {} /\ outbox = FALSE /\ maint = "idle"
    /\ op \in {f \in [Actors -> {Idle(k) : k \in Kinds \cup {"recover"}}] :
                  \A o \in Actors : f[o].kind = "recover" <=> o = 0}

Fault == used.faults < MaxFaults /\ used' = [used EXCEPT !.faults = @ + 1]
Set(o, row) == op' = [op EXCEPT ![o] = row]
Fail(o) == op' = [op EXCEPT ![o] = [Idle(op[o].kind) EXCEPT !.stage = "error"]]

----------------------------------------------------------------------------
(* Calls *)

Staged == {"draft", "message", "task", "resume", "complete", "daily"}
Automatic == {"task", "resume", "calendar", "daily"}
Allowed(kind) ==
    CASE kind \in {"message", "retry"} -> Status \ {"archived"}
      [] kind = "confirm" -> {"awaiting"} \cup Running
      [] kind \in {"task", "complete", "calendar", "daily"} -> Running
      [] kind = "pause" -> {"active"}
      [] kind = "resume" -> {"paused"}
      [] kind = "archive" -> {"draft", "awaiting", "completed"}
      [] kind = "undo" -> Status

\* What the staged save of an operation writes.
StagedSnapshots(o) ==
    LET k == op[o].kind
        s == [Plan EXCEPT !.key = Key(o, "stage")]
    IN CASE k = "task" -> {[s EXCEPT !.done = @ \cup {t}] : t \in ActiveTasks(Plan) \ Plan.done}
         [] k = "resume" -> {[s EXCEPT !.status = "active"]}
         [] k = "complete" -> IF ActiveTasks(s) # {} /\ ActiveTasks(s) \subseteq s.done
                              THEN {s} ELSE {}
         [] OTHER -> {s}

SaveRow(o, base, out, next) ==
    [Idle(op[o].kind) EXCEPT !.stage = "save", !.base = base, !.out = out, !.next = next]

\* finalizePendingAdjustment, from the calendar batch on.
ApplyRow(o, base, for, cs) ==
    [Idle(op[o].kind) EXCEPT !.stage = "apply", !.base = base, !.for = for,
                             !.key = Key(for, "apply"), !.cs = cs]
PendingOf(s, for) ==
    {i \in DOMAIN s.adj : s.adj[i].op = for /\ s.adj[i].status = "pending"}

LatestApplied(s) ==
    {i \in DOMAIN s.adj : /\ s.adj[i].status = "applied"
                          /\ \A j \in (i + 1)..Len(s.adj) : s.adj[j].status # "applied"}

Callable(o) ==
    /\ op[o].stage \in {"idle", "error"} /\ used.tries < MaxTries
    /\ \A p \in 1..(o - 1) : op[p].stage # "idle"
Called == used' = [used EXCEPT !.tries = @ + 1]

\* createPlanDraft: the draft is created before it is analysed.
CreateDraft(o) ==
    /\ op[o].kind = "draft" /\ Callable(o) /\ history = <<>>
    /\ Called
    /\ Set(o, SaveRow(o, 0, [NoPlan EXCEPT !.key = Key(o, "stage")], "analyze"))
    /\ UNCHANGED <<history, cal, calOps, maint, orphans, outbox>>

\* A call of an operation whose result is recorded returns it.
Replay(o) ==
    /\ Callable(o) /\ Recorded(Key(o, "final"))
    /\ Called
    /\ Set(o, [Idle(op[o].kind) EXCEPT !.stage = "done"])
    /\ UNCHANGED <<history, cal, calOps, maint, orphans, outbox>>

\* A retry finds its staged snapshot and goes on from there.
Resume(o) ==
    /\ Callable(o) /\ ~Recorded(Key(o, "final"))
    /\ Recorded(Key(o, "stage"))
    /\ Called
    /\ Set(o, [Idle(op[o].kind) EXCEPT !.stage = "analyze",
                                       !.base = VersionOf(Key(o, "stage"))])
    /\ UNCHANGED <<history, cal, calOps, maint, orphans, outbox>>

\* A repeated confirmation finds the pending snapshot it saved.
ResumeConfirm(o) ==
    /\ op[o].kind = "confirm" /\ Callable(o) /\ ~Recorded(Key(o, "final"))
    /\ Recorded(Key(o, "pending"))
    /\ Called
    /\ LET v == VersionOf(Key(o, "pending")) IN
           \E i \in PendingOf(history[v], o) :
               Set(o, ApplyRow(o, v, o, history[v].adj[i].cs))
    /\ UNCHANGED <<history, cal, calOps, maint, orphans, outbox>>

\* The first call of an operation with a stage of its own.
CallStaged(o) ==
    /\ op[o].kind \in Staged \ {"draft"} /\ Callable(o)
    /\ ~Recorded(Key(o, "final")) /\ ~Recorded(Key(o, "stage"))
    /\ history # <<>> /\ Plan.status \in Allowed(op[o].kind)
    /\ Called
    /\ \E s \in StagedSnapshots(o) : Set(o, SaveRow(o, Version, s, "analyze"))
    /\ UNCHANGED <<history, cal, calOps, maint, orphans, outbox>>

\* retryPlanAnalysis and notifyCalendarChanged analyse the plan as it is.
CallAnalysis(o) ==
    /\ op[o].kind \in {"retry", "calendar"} /\ Callable(o)
    /\ ~Recorded(Key(o, "final"))
    /\ history # <<>> /\ Plan.status \in Allowed(op[o].kind)
    /\ op[o].kind = "calendar" => outbox
    /\ Called
    /\ Set(o, [Idle(op[o].kind) EXCEPT !.stage = "analyze", !.base = Version])
    /\ UNCHANGED <<history, cal, calOps, maint, orphans, outbox>>

\* changeStatus: pausePlan and archivePlan.
CallStatus(o) ==
    /\ op[o].kind \in {"pause", "archive"} /\ Callable(o)
    /\ ~Recorded(Key(o, "final"))
    /\ history # <<>> /\ Plan.status \in Allowed(op[o].kind)
    /\ Called
    /\ Set(o, SaveRow(o, Version,
                  [Plan EXCEPT !.key = Key(o, "final"),
                               !.status = IF op[o].kind = "pause" THEN "paused"
                                          ELSE "archived"], "done"))
    /\ UNCHANGED <<history, cal, calOps, maint, orphans, outbox>>

\* undoPlanAdjustment: only the latest applied adjustment.
CallUndo(o) ==
    /\ op[o].kind = "undo" /\ Callable(o) /\ ~Recorded(Key(o, "final"))
    /\ history # <<>>
    /\ Called
    /\ \E i \in LatestApplied(Plan) :
           LET a == Plan.adj[i]
               out == [Plan EXCEPT !.key = Key(o, "final"),
                          !.active = IF a.prev = 0 THEN @ ELSE a.prev,
                          !.adj = [@ EXCEPT ![i].status = "undone"]]
               row == SaveRow(o, Version, out, "done")
           IN Set(o, IF a.cs = {} THEN row
                     ELSE [row EXCEPT !.stage = "apply", !.key = Key(o, "undo"),
                                      !.cs = Reverse(a.cs)])
    /\ UNCHANGED <<history, cal, calOps, maint, orphans, outbox>>

----------------------------------------------------------------------------
(* Analysis: the calendar is listed, the model asked, the result prepared *)

Adjustment(o, s, status, changes) ==
    [op |-> o, prev |-> s.active, next |-> Len(s.revs) + 1, cs |-> changes, status |-> status]

\* persistAppliedWithoutCalendarMutation, persistUnscheduledAutomaticCheckpoint
AppliedAtOnce(o, s, tasks) ==
    LET manual == op[o].kind = "confirm" IN
    [s EXCEPT !.key = Key(o, "final"),
              !.status = IF manual /\ @ = "awaiting" THEN "active" ELSE @,
              !.active = Len(s.revs) + 1,
              !.proposed = IF manual THEN 0 ELSE @,
              !.tasks = @ \cup tasks,
              !.revs = Append(@, Rev(tasks, s.active)),
              !.adj = Append(@, Adjustment(o, s, "applied", {}))]

\* prepareAndApplyAdjustment for a revision whose tasks have room or have not.
Prepared(o, s, base, tasks, room) ==
    LET cs == ChangeSet(s, Len(s.revs) + 1, IF room THEN tasks ELSE {}, used.ids)
        pending == [s EXCEPT !.key = Key(o, "pending"),
                       !.revs = Append(@, Rev(tasks, s.active)),
                       !.adj = Append(@, Adjustment(o, s, "pending", cs))]
    IN IF cs = {} \/ (op[o].kind # "confirm" /\ ~room)
       THEN SaveRow(o, base, AppliedAtOnce(o, s, tasks), "done")
       ELSE [SaveRow(o, base, pending, "apply") EXCEPT !.for = o, !.cs = cs]

\* The model is unavailable or wants a clarification, or a proposal has no
\* effect but on the proposed revision: one save under the operation's key.
AnalysisOnly(o, s, base) ==
    SaveRow(o, base, [s EXCEPT !.key = Key(o, "final")], "done")
Proposal(o, s, base, tasks) ==
    LET keep == s.active # 0 /\ s.status \in Running IN
    SaveRow(o, base,
        [s EXCEPT !.key = Key(o, "final"),
                  !.status = IF keep THEN @ ELSE "awaiting",
                  !.proposed = Len(s.revs) + 1,
                  !.tasks = IF keep THEN @ ELSE @ \cup tasks,
                  !.revs = Append(@, Rev(tasks, s.active))], "done")

Creates(row) == {c \in row.cs : c.kind = "create"}
Takes(row) == used' = [used EXCEPT !.ids = @ + Cardinality(Creates(row))]

\* analyzePlan; what it saves inside its try block is replaced by the record
\* of a failed analysis when the save throws.
Analyze(o) ==
    /\ op[o].stage = "analyze" /\ op[o].kind # "complete"
    /\ LET base == op[o].base
           s == history[base]
       IN \/ Set(o, AnalysisOnly(o, s, base)) /\ UNCHANGED used
          \/ \E tasks \in (SUBSET Tasks) \ {{}}, room \in BOOLEAN :
                LET auto == op[o].kind \in Automatic
                    row == IF auto
                           THEN Prepared(o, s, base, Scope(s, tasks, TRUE), room)
                           ELSE Proposal(o, s, base, tasks)
                IN Set(o, [row EXCEPT !.caught = TRUE]) /\ Takes(row)
    /\ UNCHANGED <<history, cal, calOps, maint, orphans, outbox>>

\* confirmPlanRevision: a proposal that is not based on the active revision is
\* analysed anew; one that lost its room is saved for another confirmation.
CallConfirm(o) ==
    /\ op[o].kind = "confirm" /\ Callable(o)
    /\ ~Recorded(Key(o, "final")) /\ ~Recorded(Key(o, "pending"))
    /\ history # <<>> /\ Plan.status \in Allowed("confirm") /\ Plan.proposed # 0
    /\ LET base == Plan.revs[Plan.proposed] IN
       \/ /\ base.parent # Plan.active
          /\ Set(o, [Idle("confirm") EXCEPT !.stage = "analyze", !.base = Version])
          /\ Called
       \/ /\ base.parent = Plan.active
          /\ \/ LET row == Prepared(o, Plan, Version, base.tasks, TRUE) IN
                /\ Set(o, row)
                /\ used' = [used EXCEPT !.tries = @ + 1,
                                        !.ids = @ + Cardinality(Creates(row))]
             \/ /\ Called
                /\ Set(o, SaveRow(o, Version,
                       [Plan EXCEPT !.key = Key(o, "final"),
                            !.proposed = Len(Plan.revs) + 1,
                            !.revs = Append(@, Rev(base.tasks, Plan.active))], "done"))
    /\ UNCHANGED <<history, cal, calOps, maint, orphans, outbox>>

\* completePlan lists the future events and deletes what the model placed.
ListCompleted(o) ==
    /\ op[o].stage = "analyze" /\ op[o].kind = "complete"
    /\ LET s == history[op[o].base]
           out == [s EXCEPT !.key = Key(o, "final"), !.status = "completed"]
           row == SaveRow(o, op[o].base, out, "done")
           cs == {[kind |-> "delete", id |-> id, task |-> cal[id].task, ver |-> cal[id].ver,
                   from |-> cal[id].at, to |-> 0] :
                       id \in {i \in DOMAIN cal : ~cal[i].locked}}
       IN Set(o, IF cs = {} THEN row
                 ELSE [row EXCEPT !.stage = "apply", !.key = Key(o, "clear"), !.cs = cs])
    /\ UNCHANGED <<history, cal, calOps, maint, orphans, outbox, used>>

----------------------------------------------------------------------------
(* The calendar batch of an operation *)

\* What finalizePendingAdjustment saves.
Finalized(s, for, ok) ==
    LET i == CHOOSE j \in PendingOf(s, for) : TRUE
        a == s.adj[i]
        confirmed == op[for].kind = "confirm"
    IN IF ok
       THEN [s EXCEPT !.key = Key(for, "final"),
                !.status = IF confirmed /\ @ = "awaiting" THEN "active" ELSE @,
                !.active = a.next,
                !.proposed = IF confirmed THEN 0 ELSE @,
                !.tasks = @ \cup s.revs[a.next].tasks,
                !.adj = [@ EXCEPT ![i].status = "applied"]]
       ELSE [s EXCEPT !.key = Key(for, "final"),
                !.active = IF a.prev = 0 THEN @ ELSE a.prev,
                !.adj = [@ EXCEPT ![i].status = "failed"]]

\* After the batch: an adjustment is finalised whatever the answer was, the
\* other two operations go on only when it was committed.
Answered(o, ok) ==
    IF op[o].for # 0
    THEN Set(o, SaveRow(o, op[o].base, Finalized(history[op[o].base], op[o].for, ok), "done"))
    ELSE IF ok THEN Set(o, [op[o] EXCEPT !.stage = "save"]) ELSE Fail(o)

\* The call that saved the pending adjustment sends its batch at once, in the
\* one pipe to the store; a recovery that has read the adjustment comes later.
InTurn(o) ==
    /\ op[o].stage = "apply"
    /\ o = 0 => ~(op[op[0].for].stage = "apply" /\ op[op[0].for].next = "sent")

Apply(o) ==
    /\ InTurn(o)
    /\ Committed(op[o].key, op[o].cs)
    /\ Answered(o, TRUE)
    /\ UNCHANGED <<history, maint, orphans, outbox, used>>

ApplyRefused(o) ==
    /\ InTurn(o)
    /\ Refused(op[o].key, op[o].cs)
    /\ Answered(o, FALSE)
    /\ UNCHANGED <<history, cal, calOps, maint, orphans, outbox, used>>

\* applyChangeSet answers a failed call and a lost reply in the same way.
ApplyUnavailable(o) ==
    /\ InTurn(o) /\ Fault
    /\ Answered(o, FALSE)
    /\ UNCHANGED <<history, cal, calOps, maint, orphans, outbox>>

ApplyLost(o) ==
    /\ InTurn(o) /\ Fault
    /\ Committed(op[o].key, op[o].cs)
    /\ Answered(o, FALSE)
    /\ UNCHANGED <<history, maint, orphans, outbox>>

----------------------------------------------------------------------------
(* Saves: savePlan seals the snapshot and writes it at the expected version *)

Sealed(o) == <<op[o].out.key, op[o].base + 1>>
\* The record ids exist with other content: an orphan, or the same save done
\* by another call.
SealConflict(o) ==
    \/ Sealed(o) \in orphans
    \/ op[o].base < Version /\ history[op[o].base + 1].key = op[o].out.key

\* A save that throws: inside analyzePlan the failed analysis is saved instead.
Thrown(o) ==
    IF op[o].caught
    THEN Set(o, AnalysisOnly(o, history[op[o].base], op[o].base))
    ELSE Fail(o)

After(o) ==
    IF op[o].next = "apply"
    THEN [ApplyRow(o, op[o].base + 1, op[o].for, op[o].cs) EXCEPT !.next = "sent"]
    ELSE [Idle(op[o].kind) EXCEPT !.stage = op[o].next,
                                  !.base = IF op[o].next = "analyze" THEN op[o].base + 1 ELSE 0]

Save(o) ==
    /\ op[o].stage = "save" /\ ~SealConflict(o)
    /\ op[o].base = Version /\ ~Recorded(op[o].out.key)
    /\ history' = Append(history, op[o].out)
    /\ Set(o, After(o))
    /\ outbox' = (outbox /\ ~(op[o].kind = "calendar" /\ op[o].next = "done"))
    /\ UNCHANGED <<cal, calOps, maint, orphans, used>>

\* write_plan refuses another version than the expected one, and a key that the
\* operation ledger holds with another request.
SaveRefused(o) ==
    /\ op[o].stage = "save" /\ ~SealConflict(o)
    /\ op[o].base < Version \/ Recorded(op[o].out.key)
    /\ orphans' = orphans \cup {Sealed(o)}
    /\ Thrown(o)
    /\ UNCHANGED <<history, cal, calOps, maint, outbox, used>>

SaveConflict(o) ==
    /\ op[o].stage = "save" /\ SealConflict(o)
    /\ Thrown(o)
    /\ UNCHANGED <<history, cal, calOps, maint, orphans, outbox, used>>

\* The snapshot is sealed, the write fails.
SaveUnavailable(o) ==
    /\ op[o].stage = "save" /\ ~SealConflict(o) /\ Fault
    /\ orphans' = orphans \cup {Sealed(o)}
    /\ Thrown(o)
    /\ UNCHANGED <<history, cal, calOps, maint, outbox>>

\* The write happens, its reply is lost.
SaveLost(o) ==
    /\ op[o].stage = "save" /\ ~SealConflict(o) /\ Fault
    /\ op[o].base = Version /\ ~Recorded(op[o].out.key)
    /\ history' = Append(history, op[o].out)
    /\ Thrown(o)
    /\ UNCHANGED <<cal, calOps, maint, orphans, outbox>>

----------------------------------------------------------------------------
(* Maintenance, crash, user *)

Pendings(s) == {i \in DOMAIN s.adj : s.adj[i].status = "pending"}

\* A round of the loop: recoverPendingAdjustments takes the first pending
\* adjustment of the plan,
RecoverBegin ==
    /\ maint = "idle" /\ history # <<>> /\ Pendings(Plan) # {}
    /\ LET a == Plan.adj[Lowest(Pendings(Plan))] IN
           Set(0, ApplyRow(0, Version, a.op, a.cs))
    /\ maint' = "recover"
    /\ UNCHANGED <<history, cal, calOps, orphans, outbox, used>>

\* then collectVaultGarbageIfDue deletes the orphans; what throws before it
\* ends the round.
RecoverEnd ==
    /\ maint = "recover" /\ op[0].stage \in {"done", "error"}
    /\ orphans' = IF op[0].stage = "done" THEN {} ELSE orphans
    /\ maint' = "idle"
    /\ Set(0, Idle("recover"))
    /\ UNCHANGED <<history, cal, calOps, outbox, used>>

\* A round with nothing to recover.
Collect ==
    /\ maint = "idle" /\ history # <<>> /\ Pendings(Plan) = {}
    /\ orphans # {}
    /\ orphans' = {}
    /\ UNCHANGED <<history, cal, calOps, op, maint, outbox, used>>

\* Calls end; one of them may have sealed what it does not write any more.
Crash ==
    /\ used.crashes < MaxCrashes
    /\ used' = [used EXCEPT !.crashes = @ + 1]
    /\ \E left \in {{}} \cup {{Sealed(o)} : o \in {a \in Actors : op[a].stage = "save" /\ ~SealConflict(a)}} :
           orphans' = orphans \cup left
    /\ op' = [o \in Actors |->
                 IF op[o].stage \in {"idle", "done"} THEN op[o]
                 ELSE IF o = 0 THEN Idle("recover")
                 ELSE [Idle(op[o].kind) EXCEPT !.stage = "error"]]
    /\ maint' = "idle"
    /\ UNCHANGED <<history, cal, calOps, outbox>>

\* mutateRendererCalendar: a user's change locks the event, or frees it, or
\* deletes it, and asks for a re-estimate through the outbox.
UserEdit(id) ==
    /\ used.edits < MaxEdits /\ id \in DOMAIN cal
    /\ used' = [used EXCEPT !.edits = @ + 1]
    /\ \/ cal' = [cal EXCEPT ![id].ver = @ + 1, ![id].locked = TRUE, ![id].at = 0]
       \/ cal[id].locked /\ cal' = [cal EXCEPT ![id].ver = @ + 1, ![id].locked = FALSE]
       \/ cal' = [x \in DOMAIN cal \ {id} |-> cal[x]]
    /\ outbox' = TRUE
    /\ UNCHANGED <<history, calOps, op, maint, orphans>>

----------------------------------------------------------------------------

Step(o) ==
    \/ Apply(o) \/ ApplyRefused(o) \/ Save(o) \/ SaveRefused(o) \/ SaveConflict(o)
Faults(o) == ApplyUnavailable(o) \/ ApplyLost(o) \/ SaveUnavailable(o) \/ SaveLost(o)
Call(o) ==
    \/ CreateDraft(o) \/ Replay(o) \/ Resume(o) \/ ResumeConfirm(o) \/ CallStaged(o)
    \/ CallAnalysis(o) \/ CallStatus(o) \/ CallUndo(o) \/ CallConfirm(o)
    \/ Analyze(o) \/ ListCompleted(o)

Next ==
    \/ \E o \in Actors : Step(o) \/ Faults(o)
    \/ \E o \in Ops : Call(o)
    \/ RecoverBegin \/ RecoverEnd \/ Collect
    \/ Crash
    \/ \E id \in DOMAIN cal : UserEdit(id)

Spec == Init /\ [][Next]_vars

----------------------------------------------------------------------------
(* Properties *)

\* An adjustment is marked applied only when its calendar batch is in the
\* ledger of the store, whoever finalised it and however often it was tried.
AppliedIsCommitted ==
    history # <<>> =>
        \A i \in DOMAIN Plan.adj :
            LET a == Plan.adj[i] IN
            a.status \in {"applied", "undone"} /\ a.cs # {} =>
                Replayed(Key(a.op, "apply"), a.cs)

\* An adjustment that is marked failed has not been written to the calendar
\* ("本轮调整没有写入").
FailedMeansUnwritten ==
    history # <<>> =>
        \A i \in DOMAIN Plan.adj :
            Plan.adj[i].status = "failed" =>
                [key |-> Key(Plan.adj[i].op, "apply"), cs |-> Plan.adj[i].cs] \notin calOps

\* A batch of the runtime meets every event it moves or deletes as it was when
\* the batch was prepared: an edit by the user in between makes the whole batch
\* fail, even one that locked the event and freed it again.
BatchMeetsItsEventsStep ==
    \A b \in calOps' \ calOps :
           \A c \in b.cs : c.kind # "create" =>
               /\ c.id \in DOMAIN cal
               /\ cal[c.id].at = c.from /\ ~cal[c.id].locked
BatchMeetsItsEvents == [][BatchMeetsItsEventsStep]_vars

\* The active revision is never one whose calendar batch was refused.
ActiveNeverFailed ==
    history # <<>> =>
        \A i \in DOMAIN Plan.adj :
            Plan.adj[i].status = "failed" => Plan.active # Plan.adj[i].next

\* An operation key stands for one version of the plan: a retry, a recovery and
\* the call itself never write its result twice.
OneVersionPerKey ==
    \A v, w \in 1..Version : history[v].key = history[w].key => v = w

\* A refused batch leaves the active revision pointer where the last applied
\* adjustment put it (the comment of finalizePendingAdjustment).
FailureKeepsActiveStep ==
    (Version > 0 /\ Version' = Version + 1) =>
          (\A i \in DOMAIN Plan.adj :
              Plan.adj[i].status = "pending" /\ history'[Version + 1].adj[i].status = "failed"
                  => history'[Version + 1].active = Plan.active)
FailureKeepsActive == [][FailureKeepsActiveStep]_vars

\* The first confirmation of a plan puts its events into the calendar when
\* nobody else touches it.
FirstConfirmationCommits ==
    history # <<>> =>
        \A i \in DOMAIN Plan.adj :
            Plan.adj[i].prev = 0 => Plan.adj[i].status # "failed"

\* An adjustment that was interrupted is finalised by the maintenance loop.
PendingIsFinalised ==
    (history # <<>> /\ Pendings(Plan) # {}) ~> (history # <<>> /\ Pendings(Plan) = {})

\* Calls in flight go on and the maintenance loop runs every minute.
Fairness ==
    /\ \A o \in Actors : WF_vars(Step(o)) /\ WF_vars(Analyze(o) \/ ListCompleted(o))
    /\ WF_vars(RecoverBegin) /\ WF_vars(RecoverEnd)
    /\ WF_vars(Collect)
FairSpec == Spec /\ Fairness
===============================================================================
