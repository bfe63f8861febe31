---------------------------- MODULE GoalBoundary ----------------------------
(***************************************************************************)
(* The active goal, from the request of the user to the durable boundary   *)
(* every event is attributed to: DesktopReflectionService (setActiveGoal,  *)
(* the start of the service, the pull of the journal) over AgentRuntime,   *)
(* which remembers the requested change and replays it into every process  *)
(* it starts, over LocalToolClient, which hands it to the process in its   *)
(* environment, over the native host, which writes two journals: the event *)
(* journal (v1, read by the collector) and the observation journal (v2,    *)
(* which only keeps its current goal version and the boundaries it knows). *)
(*                                                                         *)
(* The host may die at any point, the whole application may die, an answer *)
(* may be lost, and the v2 write may fail after the v1 write.  A restart   *)
(* may be begun by the service or by any other caller of the runtime.      *)
(***************************************************************************)
EXTENDS Integers, Sequences, SequencesExt

CONSTANTS
    Targets,        \* the goals the user may ask for: 1..n, by activation time
    MaxRequests,    \* how many changes the user asks for
    MaxHostDeaths,  \* how often the native process dies
    MaxAppDeaths,   \* how often the application dies
    MaxMirrorErrors \* how often the v2 write fails after the v1 write

TargetsAssumption == Targets = 1..Len(SetToSeq(Targets))
BoundsAssumption ==
    {MaxRequests, MaxHostDeaths, MaxAppDeaths, MaxMirrorErrors} \subseteq Nat

VARIABLES
    log,       \* v1: the goal.contextChanged events, in cursor order
    v2,        \* v2: current goal version and the boundaries it has stored
    col,       \* the collector's snapshot: active goal, revision, events consumed
    intent,    \* AgentRuntime.goalReconciliationIntent (kind "unset" before any)
    json,      \* LocalToolClient.preparedStartupGoalChangeJson
    rt,        \* AgentRuntime: prepared, auto (automaticRestartPrepared)
    host,      \* the native process: stage and the startup intent it was given
    req,       \* the event.goal.change request in the host
    op,        \* the operation at the head of the service's serial queue
    budget     \* what is left of the bounds

vars == <<log, v2, col, intent, json, rt, host, req, op, budget>>

-----------------------------------------------------------------------------
NoGoal == [t |-> 0, v |-> 0]

\* A change: the goal before, the goal after, and when it was asked for.
\* Its deduplication key is a hash of the revision and the two goals as they
\* were planned; the time is not part of it.
NoChange == [kind |-> "unset", key |-> <<0, NoGoal, NoGoal>>,
             prev |-> NoGoal, next |-> NoGoal, at |-> 0]
NullChange == [NoChange EXCEPT !.kind = "null"]

NoReq == [stage |-> "none", c |-> NoChange]
Idle == [pc |-> "idle", t |-> 0, c |-> NoChange, want |-> NoGoal]
Down == [stage |-> "down", given |-> NoChange]

LastGoal == IF log = <<>> THEN NoGoal ELSE Last(log).next

\* latest_goal_state: a cleared goal has the revision after its predecessor.
LatestRevision ==
    IF log = <<>> THEN -1
    ELSE IF LastGoal.t # 0 THEN LastGoal.v ELSE Last(log).prev.v + 1

Init ==
    /\ log = <<>>
    /\ v2 = [cur |-> 0, seen |-> {}]
    /\ col = [goal |-> NoGoal, rev |-> 0, n |-> 0]
    /\ intent = NoChange
    /\ json = NoChange
    /\ rt = [prepared |-> FALSE, auto |-> FALSE]
    /\ host = Down
    /\ req = NoReq
    /\ op = [Idle EXCEPT !.pc = "boot"]
    /\ budget = [asks |-> MaxRequests, hosts |-> MaxHostDeaths,
                 apps |-> MaxAppDeaths, mirrors |-> MaxMirrorErrors]

-----------------------------------------------------------------------------
(* The native host                                                         *)
-----------------------------------------------------------------------------
\* The v1 row of a change, if its key is already stored.
Stored(c) == SelectSeq(log, LAMBDA e : e.key = c.key)

\* events.rs insert_prepared_event: a known key must carry the same event.
AppendEvent(c) ==
    IF Stored(c) = <<>> THEN [ok |-> TRUE, log |-> Append(log, c)]
    ELSE [ok |-> Stored(c)[1] = c, log |-> log]

\* The boundary rebased onto the latest durable goal.
RebasedOn(c, current, revision) ==
    [c EXCEPT !.prev = current,
              !.next = IF @.t = 0 THEN @ ELSE [@ EXCEPT !.v = revision + 1]]

\* events.rs reconcile_startup_goal_change: the later of the state the
\* intent starts from and the latest durable one is the current one; nothing
\* is written when it already has the target.
ReconcileStartup(c) ==
    LET recovered == IF c.prev.v > c.next.v - 1 THEN c.prev.v ELSE c.next.v - 1
        newer     == LatestRevision >= recovered
        current   == IF newer THEN LastGoal ELSE c.prev
        revision  == IF newer THEN LatestRevision ELSE recovered
        ok        == LatestRevision = recovered => LastGoal = c.prev
    IN  IF ~ok THEN [ok |-> FALSE, log |-> log, wrote |-> FALSE, c |-> c]
        ELSE IF current.t = c.next.t
        THEN [ok |-> TRUE, log |-> log, wrote |-> FALSE, c |-> c]
        ELSE LET b == RebasedOn(c, current, revision)
                 r == AppendEvent(b)
             IN  [ok |-> r.ok, log |-> r.log, wrote |-> TRUE, c |-> b]

\* observations.rs append_goal_change: a known key must carry the same
\* content, an unknown one must continue the current version.
Mirror(c) ==
    LET known == {e \in v2.seen : e.key = c.key} IN
    IF known # {} THEN [ok |-> known = {c}, v2 |-> v2]
    ELSE IF v2.cur # 0 /\ v2.cur # c.prev.v THEN [ok |-> FALSE, v2 |-> v2]
    ELSE [ok |-> TRUE,
          v2 |-> [cur |-> c.next.v, seen |-> v2.seen \cup {c}]]

\* AgentRuntime.handleFailure: the gate is locked again.
Relock == rt' = [rt EXCEPT !.prepared = FALSE]

\* The process fails to start or dies: every pending request is rejected,
\* and the operation that made or awaited it fails; one that was between two
\* calls goes on and finds the process gone at its next call.
HostGone ==
    /\ host' = Down
    /\ req' = NoReq
    /\ Relock
    /\ op' \in IF op.pc = "reply" THEN {Idle}
               ELSE IF op.pc \in {"pull", "send", "pull2"} THEN {op, Idle}
               ELSE {op}

\* LocalToolClient.start: the prepared change goes into the environment of
\* the new process, which opens its journals.
Spawn ==
    /\ host.stage = "prepared"
    /\ host' = [stage |-> "v1", given |-> json]
    /\ UNCHANGED <<log, v2, col, intent, json, rt, req, op, budget>>

\* The first half of the startup: the event journal.
StartupEventJournal ==
    /\ host.stage = "v1"
    /\ IF host.given.kind # "change"
       THEN /\ host' = [host EXCEPT !.stage = "up"]
            /\ UNCHANGED <<log, req, rt, op>>
       ELSE LET r == ReconcileStartup(host.given) IN
            IF r.ok
            THEN /\ log' = r.log
                 /\ host' = [stage |-> "v2",
                             given |-> IF r.wrote THEN r.c ELSE host.given]
                 /\ UNCHANGED <<req, rt, op>>
            ELSE HostGone /\ UNCHANGED log
    /\ UNCHANGED <<v2, col, intent, json, budget>>

\* The second half: the observation journal.
StartupObservations ==
    /\ host.stage = "v2"
    /\ LET r == Mirror(host.given) IN
       IF r.ok
       THEN /\ v2' = r.v2
            /\ host' = [host EXCEPT !.stage = "up"]
            /\ UNCHANGED <<req, rt, op>>
       ELSE HostGone /\ UNCHANGED v2
    /\ UNCHANGED <<log, col, intent, json, budget>>

\* event.goal.change, first half: the legacy append.
ServeGoalChange ==
    /\ host.stage = "up"
    /\ req.stage = "sent"
    /\ LET r == AppendEvent(req.c) IN
       /\ log' = r.log
       /\ req' = [req EXCEPT !.stage = IF r.ok THEN "half" ELSE "failed"]
    /\ UNCHANGED <<v2, col, intent, json, rt, host, op, budget>>

\* event.goal.change, second half: the mirror, whose failure is answered.
ServeMirror ==
    /\ host.stage = "up"
    /\ req.stage = "half"
    /\ \/ LET r == Mirror(req.c) IN
          /\ v2' = r.v2
          /\ req' = [req EXCEPT !.stage = IF r.ok THEN "done" ELSE "failed"]
          /\ UNCHANGED budget
       \/ /\ budget.mirrors > 0
          /\ req' = [req EXCEPT !.stage = "failed"]
          /\ budget' = [budget EXCEPT !.mirrors = @ - 1]
          /\ UNCHANGED v2
    /\ UNCHANGED <<log, col, intent, json, rt, host, op>>

\* The process dies, at any stage.
HostDies ==
    /\ host.stage \in {"v1", "v2", "up"}
    /\ budget.hosts > 0
    /\ budget' = [budget EXCEPT !.hosts = @ - 1]
    /\ HostGone
    /\ UNCHANGED <<log, v2, col, intent, json>>

-----------------------------------------------------------------------------
(* AgentRuntime.ensureStarted, called by the service or by anybody else    *)
-----------------------------------------------------------------------------
\* What an automatic restart prepares.
StartupIntent == intent

\* prepareStartupGoalChange of the client keeps a prepared change with the
\* same key: a process may have appended it before it died.
Prepared(c) ==
    IF json.kind = "change" /\ c.kind = "change" /\ json.key = c.key THEN json ELSE c

\* A locked gate opens only for a runtime whose first start was
\* acknowledged, and only with the intent prepared.
EnsureStarted ==
    /\ host.stage = "down"
    /\ rt.prepared \/ rt.auto
    /\ json' = IF rt.prepared THEN json ELSE Prepared(StartupIntent)
    /\ rt' = [rt EXCEPT !.prepared = TRUE]
    /\ host' = [host EXCEPT !.stage = "prepared"]

\* A caller other than the service (the timeline, planning, a tool call).
OtherCaller ==
    /\ op.pc # "boot"
    /\ EnsureStarted
    /\ UNCHANGED <<log, v2, col, intent, req, op, budget>>

\* The caller that restarted the process acknowledges the prepared change.
Acknowledge ==
    /\ host.stage = "up"
    /\ rt.auto
    /\ json.kind # "unset"
    /\ json' = NoChange
    /\ UNCHANGED <<log, v2, col, intent, rt, host, req, op, budget>>

-----------------------------------------------------------------------------
(* DesktopReflectionService                                                *)
-----------------------------------------------------------------------------
Fails == op' = Idle

\* The host serves its pipe in order: a query waits for an earlier change.
QueryServed == host.stage = "up" /\ req.stage \notin {"sent", "half"}

\* The start of the service: the production runtime passes no startup goal,
\* so the boundary that is prepared is null.
BootPrepare ==
    /\ op.pc = "boot"
    /\ host.stage = "down"
    /\ intent' = NullChange
    /\ json' = NullChange
    /\ rt' = [prepared |-> TRUE, auto |-> FALSE]
    /\ host' = [host EXCEPT !.stage = "prepared"]
    /\ op' = [op EXCEPT !.pc = "bootpull"]
    /\ UNCHANGED <<log, v2, col, req, budget>>

\* The attempt failed: the runtime is stopped and the start is tried again.
BootFails ==
    /\ op.pc = "bootpull"
    /\ host.stage = "down"
    /\ rt' = [prepared |-> FALSE, auto |-> FALSE]
    /\ op' = [op EXCEPT !.pc = "boot"]
    /\ UNCHANGED <<log, v2, col, intent, json, host, req, budget>>

\* The backlog is consumed, the boundary acknowledged, the service is live.
BootDone ==
    /\ op.pc = "bootpull"
    /\ QueryServed
    /\ col.n = Len(log)
    /\ json' = NoChange
    /\ rt' = [rt EXCEPT !.auto = TRUE]
    /\ op' = Idle
    /\ UNCHANGED <<log, v2, col, intent, host, req, budget>>

\* collector.ts handleGoalBoundary accepts the next event of the journal.
Acceptable(e) ==
    /\ e.prev.v = col.goal.v
    /\ e.next.t # 0 => e.next.v = col.rev + 1

\* One event of a pull, ingested and committed.  An event that does not
\* continue the collector's goal throws and stays the next one for ever:
\* ChainConsumable says that there is none.
PullEvent ==
    /\ op.pc \in {"bootpull", "pull", "pull2"}
    /\ QueryServed
    /\ col.n < Len(log)
    /\ Acceptable(log[col.n + 1])
    /\ col' = [goal |-> log[col.n + 1].next, rev |-> col.rev + 1, n |-> col.n + 1]
    /\ UNCHANGED <<log, v2, intent, json, rt, host, req, op, budget>>

\* A poll, a live event or any other operation that only pulls.
Poll ==
    /\ op.pc = "idle"
    /\ \/ host.stage # "up"
       \/ col.n < Len(log)
    /\ op' = [Idle EXCEPT !.pc = "pull", !.t = -1]
    /\ UNCHANGED <<log, v2, col, intent, json, rt, host, req, budget>>

\* setActiveGoal: the change is planned after a pull.
SetActiveGoal ==
    /\ op.pc = "idle"
    /\ budget.asks > 0
    /\ \E t \in Targets \cup {0} :
          op' = [Idle EXCEPT !.pc = "pull", !.t = t]
    /\ budget' = [budget EXCEPT !.asks = @ - 1]
    /\ UNCHANGED <<log, v2, col, intent, json, rt, host, req>>

\* A call of the operation finds no process and restarts it.
OpRestarts ==
    /\ op.pc \in {"pull", "send", "pull2"}
    /\ EnsureStarted
    /\ UNCHANGED <<log, v2, col, intent, req, op, budget>>

\* planActiveGoalChange: an older or an equal goal changes nothing.
Planned(t) ==
    LET keep == \/ t # 0 /\ col.goal.t # 0 /\ t < col.goal.t
                \/ t = col.goal.t
        next == IF t = 0 THEN NoGoal ELSE [t |-> t, v |-> col.rev + 1]
    IN  IF keep THEN NoChange
        ELSE [kind |-> "change", key |-> <<col.rev + 1, col.goal, next>>,
              prev |-> col.goal, next |-> next, at |-> MaxRequests - budget.asks]

\* Mutant: the plan is made from what was consumed before the pull.
PullDone_PlanFirst ==
    /\ op.pc = "pull"
    /\ QueryServed
    /\ op.t # -1
    /\ op' = LET c == Planned(op.t) IN
             IF op.t = -1 \/ c.kind = "unset" THEN Idle
             ELSE [op EXCEPT !.pc = "append", !.c = c, !.want = c.next]
    /\ UNCHANGED <<log, v2, col, intent, json, rt, host, req, budget>>

\* The pull is over; a change is planned from the collector's snapshot.
PullDone ==
    /\ op.pc = "pull"
    /\ QueryServed
    /\ col.n = Len(log)
    /\ op' = LET c == Planned(op.t) IN
             IF op.t = -1 \/ c.kind = "unset" THEN Idle
             ELSE [op EXCEPT !.pc = "append", !.c = c, !.want = c.next]
    /\ UNCHANGED <<log, v2, col, intent, json, rt, host, req, budget>>

\* appendDesktopGoalChange records the change before it needs the process.
RecordIntent ==
    /\ op.pc = "append"
    /\ intent' = op.c
    /\ op' = [op EXCEPT !.pc = "send"]
    /\ UNCHANGED <<log, v2, col, json, rt, host, req, budget>>

SendGoalChange ==
    /\ op.pc = "send"
    /\ host.stage = "up"
    /\ req' = [stage |-> "sent", c |-> op.c]
    /\ op' = [op EXCEPT !.pc = "reply"]
    /\ UNCHANGED <<log, v2, col, intent, json, rt, host, budget>>

\* The answer of the host.
Answered ==
    /\ op.pc = "reply"
    /\ req.stage \in {"done", "failed"}
    /\ op' = IF req.stage = "done" THEN [op EXCEPT !.pc = "pull2"] ELSE Idle
    /\ req' = NoReq
    /\ UNCHANGED <<log, v2, col, intent, json, rt, host, budget>>

\* The request times out; the host goes on with it, before anything later.
TimesOut ==
    /\ op.pc = "reply"
    /\ req.stage \in {"sent", "half"}
    /\ budget.hosts > 0
    /\ Fails
    /\ Relock
    /\ budget' = [budget EXCEPT !.hosts = @ - 1]
    /\ UNCHANGED <<log, v2, col, intent, json, host, req>>

\* The late answer of a request that timed out is ignored.
LateAnswer ==
    /\ op.pc # "reply"
    /\ req.stage \in {"done", "failed"}
    /\ req' = NoReq
    /\ UNCHANGED <<log, v2, col, intent, json, rt, host, op, budget>>

\* The boundary was materialised by the pull that followed the append.
Materialised ==
    /\ op.pc = "pull2"
    /\ QueryServed
    /\ col.n = Len(log)
    /\ op' = Idle
    /\ UNCHANGED <<log, v2, col, intent, json, rt, host, req, budget>>

\* The application dies and is started again: only the journals and the
\* collector's snapshot survive.
AppDies ==
    /\ budget.apps > 0
    /\ op.pc # "boot"
    /\ budget' = [budget EXCEPT !.apps = @ - 1]
    /\ intent' = NoChange
    /\ json' = NoChange
    /\ rt' = [prepared |-> FALSE, auto |-> FALSE]
    /\ host' = Down
    /\ req' = NoReq
    /\ op' = [Idle EXCEPT !.pc = "boot"]
    /\ UNCHANGED <<log, v2, col>>

HostSteps == Spawn \/ StartupEventJournal \/ StartupObservations
             \/ ServeGoalChange \/ ServeMirror
ServiceSteps == BootPrepare \/ BootFails \/ BootDone \/ PullEvent \/ PullDone
                \/ OpRestarts \/ RecordIntent
                \/ SendGoalChange \/ Answered \/ LateAnswer \/ Materialised
                \/ Acknowledge

Next ==
    \/ HostSteps
    \/ ServiceSteps
    \/ OtherCaller \/ Poll \/ SetActiveGoal
    \/ HostDies \/ TimesOut \/ AppDies

Spec == Init /\ [][Next]_vars

\* The host serves what it is given, an awaited call goes on, the event poll
\* is re-armed after every poll (service.ts armEventPoll).
FairSpec ==
    /\ Spec
    /\ WF_vars(HostSteps)
    /\ WF_vars(ServiceSteps)
    /\ WF_vars(Poll)
-----------------------------------------------------------------------------
Change == [kind : {"unset", "null", "change"},
           key : {<<0, NoGoal, NoGoal>>} \cup
                 ((1..MaxRequests) \X [t : Targets \cup {0}, v : 0..MaxRequests]
                                  \X [t : Targets \cup {0}, v : 0..MaxRequests]),
           prev : [t : Targets \cup {0}, v : 0..MaxRequests],
           next : [t : Targets \cup {0}, v : 0..MaxRequests],
           at : 0..MaxRequests]

\* The journals, the snapshot and the stages have their types, and the event
\* journal never holds more boundaries than were asked for.
TypeOK ==
    /\ Len(log) <= MaxRequests /\ \A i \in 1..Len(log) : log[i] \in Change
    /\ v2.cur \in 0..MaxRequests /\ v2.seen \subseteq Change
    /\ col.n \in 0..Len(log) /\ col.rev \in 0..MaxRequests
    /\ {intent, json, host.given, req.c, op.c} \subseteq Change
    /\ rt \in [prepared : BOOLEAN, auto : BOOLEAN]
    /\ host.stage \in {"down", "prepared", "v1", "v2", "up"}
    /\ req.stage \in {"none", "sent", "half", "done", "failed"}
    /\ op.pc \in {"boot", "bootpull", "idle", "pull", "append", "send", "reply", "pull2"}

\* Whatever dies, times out or is replayed, the event journal is a chain the
\* collector can consume to its end: every boundary starts from the goal the
\* one before it left, at the next revision, so no pull ever throws
\* GoalVersionMismatchError and stops the consumer for good.
ChainConsumable ==
    \A i \in 1..Len(log) :
        /\ log[i].prev = IF i = 1 THEN NoGoal ELSE log[i - 1].next
        /\ log[i].next.t # 0 => log[i].next.v = i

\* The boundaries are in the order in which the user asked for them, each
\* once: no restart and no late request rolls the goal back or writes the
\* same change again.
NoRollback ==
    \A i, j \in 1..Len(log) : i < j => log[i].at < log[j].at

\* While a process is up and no change is on its way, the journal has the
\* goal that was last asked for: a lost request or answer is made good by the
\* replay of the intent before the process serves anything.
IntentApplied ==
    /\ host.stage = "up"
    /\ intent.kind = "change"
    /\ op.pc \notin {"send", "reply"}
    /\ req.stage \notin {"sent", "half"}
    => LastGoal.t = intent.next.t

\* A process is only ever spawned with a prepared boundary in hand.
NeverUnpreparedStep ==
    host.stage = "prepared" /\ host'.stage = "v1" => json.kind # "unset"
NeverUnprepared == [][NeverUnpreparedStep]_vars

\* With the host dying but neither the application nor the v2 write failing,
\* the two journals agree on the goal version whenever the process is up and
\* no change is half written.
MirrorInStep ==
    host.stage = "up" /\ req.stage \notin {"sent", "half"} => v2.cur = LastGoal.v

\* A change that was recorded reaches the journal, or a later one is asked
\* for, however often the process dies.
IntentReachesJournal ==
    \A n \in 1..MaxRequests :
        (intent.at = n) ~> (intent.at # n \/ LastGoal.t = intent.next.t)

\* The comment at the RPC (lib.rs): a retry completes the missing mirror.  A
\* setActiveGoal that resolves leaves the two journals in step.
RetryCompletesMirrorStep ==
    op.pc = "pull" /\ op.t # -1 /\ op'.pc = "idle" /\ host'.stage = "up"
       => v2'.cur = LastGoal.v
RetryCompletesMirror == [][RetryCompletesMirrorStep]_vars
=============================================================================
