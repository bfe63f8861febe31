-------------------------- MODULE ReflectionWindows --------------------------
(***************************************************************************)
(* ReflectionCollector (src/agent/reflection/collector.ts) and the windows *)
(* it seals: which events a window holds, why it ends, and what a          *)
(* revocation, a goal change or a change of owner does to it.              *)
(*                                                                         *)
(* The journal is the sequence `log` in cursor order; ReflectionStream     *)
(* shows how events reach the collector.  Every save of the snapshot is    *)
(* one transaction; the process may end between two of them, and the       *)
(* commit of the last cursor may be lost, so that an event is ingested     *)
(* again.  Sensors report late: an event may have happened one unit of     *)
(* time before it is recorded.  One permission stands for all, text and    *)
(* tokens are left out.                                                    *)
(***************************************************************************)
EXTENDS Integers, Sequences, FiniteSets, SequencesExt

CONSTANTS
    Kinds,          \* kinds of event the sensors record, see Sensed
    Owners,         \* accounts the collector may belong to, and "nobody"
    THRESHOLD,      \* counted events that fill a window
    MAX_WAIT,       \* longest time a window stays open
    LOOKBACK,       \* age of the events a window takes along as context
    MaxEvents, MaxTime, MaxCrashes, MaxCutovers     \* bounds

(* "work" is counted; "typed" is counted and needs the permission; "scan"  *)
(* is not counted; "away" is a boundary of presence; "goal" is recorded by *)
(* the service.                                                            *)
Sensed == {"work", "typed", "scan", "away", "revoked", "granted"}

WindowsAssumption ==
    /\ Kinds \subseteq Sensed \cup {"goal"}
    /\ {THRESHOLD, MAX_WAIT} \subseteq Nat \ {0}
    /\ {LOOKBACK, MaxEvents, MaxTime, MaxCrashes, MaxCutovers} \subseteq Nat
    /\ "nobody" \in Owners

VARIABLES
    log,        \* the journal: [n, kind, at, seen], seen: when it was recorded
    next,       \* the cursor after the last one committed
    snap,       \* the durable snapshot of the collector
    windows,    \* sealed windows, in the order they were sealed
    op,         \* "idle", or what follows a pull that has caught up
    pulled,     \* events recorded when that pull ended
    cuts,       \* where the owner changed: cursors of the next event
    now, used

vars == <<log, next, snap, windows, op, pulled, cuts, now, used>>

Closed == [events |-> <<>>, start |-> 0, goal |-> 0, owner |-> "nobody"]

TypeOK ==
    /\ \A i \in DOMAIN log : log[i].n = i /\ log[i].kind \in Kinds
                             /\ log[i].at \in 0..now
    /\ next \in 1..Len(log) + 1
    /\ snap.goal \in 0..MaxEvents /\ snap.revision >= snap.goal
    /\ snap.owner \in Owners /\ snap.denied \in BOOLEAN
    /\ snap.receipts \subseteq 1..Len(log)
    /\ op \in {"idle", "count", "due", "cutover"}
    /\ now \in 0..MaxTime

Init ==
    /\ log = <<>> /\ next = 1
    /\ snap = [open |-> Closed, context |-> <<>>, receipts |-> {}, denied |-> FALSE,
               goal |-> 0, revision |-> 0, owner |-> "nobody"]
    /\ windows = <<>> /\ op = "idle" /\ pulled = 0 /\ cuts = {} /\ now = 0
    /\ used = [crashes |-> 0, cutovers |-> 0]

-----------------------------------------------------------------------------
(* Events.                                                                 *)

Counted(e) == e.kind \in {"work", "typed"}
CountedOf(es) == SelectSeq(es, Counted)
IsOpen(s) == s.open.events # <<>>
Count(s) == Len(CountedOf(s.open.events))

(* countThresholdReachedAt and latestEventTime.                            *)
ReachedAt(s) == Last(CountedOf(s.open.events)).at
LatestAt(s) == Max({s.open.events[i].at : i \in DOMAIN s.open.events})
Deadline(s) == s.open.start + MAX_WAIT

Record(kind, at) ==
    log' = Append(log, [n |-> Len(log) + 1, kind |-> kind, at |-> at, seen |-> now])

(* A sensor records what happened now or a moment ago.                     *)
Sense(kind) ==
    /\ kind \in Kinds \cap Sensed /\ Len(log) < MaxEvents
    /\ \E at \in {now, IF now > 0 THEN now - 1 ELSE 0} : Record(kind, at)
    /\ UNCHANGED <<next, snap, windows, op, pulled, cuts, now, used>>

Unread == SubSeq(log, next, Len(log))

(* setActiveGoal: planned after a pull, recorded after that, and always    *)
(* materialised before another one is planned.                             *)
ChangeGoal ==
    /\ "goal" \in Kinds /\ Len(log) < MaxEvents /\ op = "idle"
    /\ \A i \in DOMAIN Unread : Unread[i].kind # "goal"
    /\ \E at \in {now, IF now > 0 THEN now - 1 ELSE 0} : Record("goal", at)
    /\ UNCHANGED <<next, snap, windows, op, pulled, cuts, now, used>>

-----------------------------------------------------------------------------
(* Sealing.                                                                *)

(* selectContext: what the window before had counted, not too old.         *)
ContextFor(s) ==
    SelectSeq(s.context,
              LAMBDA e : s.open.start - e.at \in 0..LOOKBACK)

EndOf(s, endedAt) == IF endedAt < s.open.start THEN s.open.start ELSE endedAt

WindowOf(s, reason, endedAt) ==
    [events |-> s.open.events, context |-> ContextFor(s), reason |-> reason,
     start |-> s.open.start, end |-> EndOf(s, endedAt), goal |-> s.open.goal,
     owner |-> s.open.owner, at |-> next,
     known |-> IF op = "idle" THEN next ELSE pulled]

Emptied(s, context) == [s EXCEPT !.open = Closed, !.context = context]

(* sealCandidate: the window, its job and the snapshot are one transaction;*)
(* its counted events become the context of the next one.                  *)
SealWindow(s, reason, endedAt) ==
    /\ windows' = Append(windows, WindowOf(s, reason, endedAt))
    /\ snap' = Emptied(s, CountedOf(s.open.events))

-----------------------------------------------------------------------------
(* Ingestion of the next event, by the service's pull or push.             *)

Event == Head(Unread)

SameTimeBoundary(s, e) == e.at = ReachedAt(s) /\ e.kind \in {"goal", "away"}

Retroactive(s, e) == e.kind = "away" /\ IsOpen(s) /\ e.at < LatestAt(s)

(* Mutant: a revocation waits until a full or overdue window is sealed.    *)
Authorization_Late(e) == FALSE

(* Handled before anything is sealed.                                      *)
Authorization(e) == e.kind \in {"revoked", "granted"}

Blocked(s, e) == s.denied /\ e.kind = "typed"

(* A full window is sealed before the event that comes after it.           *)
FullBefore(s, e) == Count(s) >= THRESHOLD /\ ~SameTimeBoundary(s, e)

(* Mutant: only the timer seals an overdue window.                         *)
OverdueBefore_Never(s, e) == FALSE

(* An overdue window is sealed before an event younger than its deadline.  *)
OverdueBefore(s, e) == e.at > Deadline(s)

SealsFirst(s, e) ==
    /\ IsOpen(s)
    /\ ~Authorization(e) /\ ~Blocked(s, e) /\ ~Retroactive(s, e)
    /\ FullBefore(s, e) \/ OverdueBefore(s, e)

Fresh(e) == e.n \notin snap.receipts

(* The first transaction of an event that closes a window; the event is    *)
(* looked at again afterwards.                                             *)
SealBefore ==
    /\ op = "idle" /\ Unread # <<>> /\ Fresh(Event) /\ SealsFirst(snap, Event)
    /\ IF FullBefore(snap, Event)
       THEN SealWindow(snap, "event_count", ReachedAt(snap))
       ELSE SealWindow(snap, "max_wait", Deadline(snap))
    /\ UNCHANGED <<log, next, op, pulled, cuts, now, used>>

Received(s, e) == [s EXCEPT !.receipts = @ \cup {e.n}]

(* In a window an event carries the goal version of its materialisation.   *)
UnderGoal(s, e) == [n |-> e.n, kind |-> e.kind, at |-> e.at, goal |-> s.goal]

WithEvent(s, e) == [s EXCEPT !.open.events = Append(@, UnderGoal(s, e))]

Started(s, e) ==
    [s EXCEPT !.open = [events |-> <<UnderGoal(s, e)>>, start |-> e.at,
                        goal |-> s.goal, owner |-> s.owner]]

Save(s) == snap' = s /\ UNCHANGED windows

(* authorization.revoked discards what was collected; granted only opens   *)
(* the gate again.                                                         *)
IngestAuthorization(s, e) ==
    Save(IF e.kind = "revoked" THEN [Emptied(s, <<>>) EXCEPT !.denied = TRUE]
         ELSE [s EXCEPT !.denied = FALSE])

(* handleGoalBoundary.                                                     *)
IngestGoal(s, e) ==
    LET g == [s EXCEPT !.goal = s.revision + 1, !.revision = s.revision + 1]
    IN IF IsOpen(s) THEN SealWindow([WithEvent(s, e) EXCEPT !.goal = g.goal,
                                                           !.revision = g.revision],
                                    "goal_boundary", e.at)
       ELSE Save(g)

(* handlePresenceBoundary and handleRetroactivePresenceBoundary: one older *)
(* than the window is only received.                                       *)
IngestPresence(s, e) ==
    IF ~IsOpen(s) \/ e.at < s.open.start THEN Save(s)
    ELSE SealWindow(WithEvent(s, e), "presence_boundary",
                    IF Retroactive(s, e) THEN Max({e.seen, LatestAt(s)}) ELSE e.at)

(* A counted event opens or extends the window; one that is at the         *)
(* deadline closes it, one that fills it is announced to the service.      *)
IngestCounted(s, e) ==
    LET t == IF IsOpen(s) THEN WithEvent(s, e) ELSE Started(s, e)
    IN IF Count(t) < THRESHOLD /\ e.at >= Deadline(t)
       THEN SealWindow(t, "max_wait", Deadline(t))
       ELSE Save(t)

Ingest ==
    /\ op = "idle" /\ Unread # <<>> /\ Fresh(Event) /\ ~SealsFirst(snap, Event)
    /\ LET e == Event
           s == Received(snap, e)
       IN IF Authorization(e) THEN IngestAuthorization(s, e)
          ELSE IF Blocked(s, e) THEN Save(s)
          ELSE IF e.kind = "goal" THEN IngestGoal(s, e)
          ELSE IF e.kind = "away" THEN IngestPresence(s, e)
          ELSE IF e.kind = "scan" THEN Save(IF IsOpen(s) THEN WithEvent(s, e) ELSE s)
          ELSE IngestCounted(s, e)
    /\ UNCHANGED <<log, next, op, pulled, cuts, now, used>>

(* The cursor is committed after the event was materialised.               *)
Commit ==
    /\ op = "idle" /\ Unread # <<>> /\ ~Fresh(Event)
    /\ next' = next + 1
    /\ UNCHANGED <<log, snap, windows, op, pulled, cuts, now, used>>

-----------------------------------------------------------------------------
(* What the service asks for after a pull that has caught up.              *)

Asks(kind) ==
    /\ op = "idle" /\ Unread = <<>>
    /\ op' = kind /\ pulled' = Len(log)
    /\ UNCHANGED <<log, next, snap, windows, cuts, now, used>>

(* coordinateCount and coordinateDeadline.                                 *)
AskCount == IsOpen(snap) /\ Count(snap) >= THRESHOLD /\ Asks("count")
AskDue == IsOpen(snap) /\ now >= Deadline(snap) /\ Asks("due")

(* flushCountDue and flushDue.                                             *)
Flush ==
    /\ op \in {"count", "due"} /\ op' = "idle"
    /\ IF IsOpen(snap) /\ Count(snap) >= THRESHOLD
       THEN SealWindow(snap, "event_count", ReachedAt(snap))
       ELSE IF op = "due" /\ IsOpen(snap) /\ now >= Deadline(snap)
            THEN SealWindow(snap, "max_wait", Deadline(snap))
            ELSE UNCHANGED <<snap, windows>>
    /\ UNCHANGED <<log, next, pulled, cuts, now, used>>

AskCutover ==
    /\ used.cutovers < MaxCutovers
    /\ Asks("cutover")

CutTo(o) == [Emptied(snap, <<>>) EXCEPT !.owner = o]

(* cutoverCloudOwner: nothing of the old owner's evidence is kept.         *)
Cutover ==
    /\ op = "cutover" /\ op' = "idle"
    /\ \E o \in Owners \ {snap.owner} : Save(CutTo(o))
    /\ cuts' = cuts \cup {next}
    /\ used' = [used EXCEPT !.cutovers = @ + 1]
    /\ UNCHANGED <<log, next, pulled, now>>

(* The process ends; the last commit may not have reached the journal.     *)
Crash ==
    /\ used.crashes < MaxCrashes
    /\ next' \in {next} \cup (IF next > 1 THEN {next - 1} ELSE {})
    /\ op' = "idle"
    /\ used' = [used EXCEPT !.crashes = @ + 1]
    /\ UNCHANGED <<log, snap, windows, pulled, cuts, now>>

Tick == /\ now < MaxTime /\ now' = now + 1
        /\ UNCHANGED <<log, next, snap, windows, op, pulled, cuts, used>>

Next ==
    \/ \E kind \in Kinds : Sense(kind)
    \/ ChangeGoal \/ SealBefore \/ Ingest \/ Commit
    \/ AskCount \/ AskDue \/ Flush \/ AskCutover \/ Cutover
    \/ Crash \/ Tick

Spec == Init /\ [][Next]_vars

-----------------------------------------------------------------------------
(* Properties.                                                             *)

EventsOf(w) == {w.events[i] : i \in DOMAIN w.events}
Cursors(w) == {e.n : e \in EventsOf(w)}
OpenCursors == {snap.open.events[i].n : i \in DOMAIN snap.open.events}
CountedIn(w) == Len(CountedOf(w.events))

(* A window holds one to THRESHOLD counted events, none of them younger    *)
(* than its deadline, and one that ended by count is exactly full ("at     *)
(* most 64 counted events, at most five minutes").                         *)
WindowsAreBounded ==
    \A i \in DOMAIN windows :
        LET w == windows[i]
        IN /\ CountedIn(w) \in 1..THRESHOLD
           /\ w.reason = "event_count" => CountedIn(w) = THRESHOLD
           /\ \A e \in EventsOf(w) : Counted(e) => e.at <= w.start + MAX_WAIT
           /\ w.end >= w.start

(* No event is in two windows, and windows follow each other in cursor     *)
(* order, the open one last, although sealing and ingesting the event that *)
(* caused it are two transactions and events are replayed.                 *)
WindowsInOrder ==
    /\ \A i, j \in DOMAIN windows : i < j =>
         \A m \in Cursors(windows[i]), n \in Cursors(windows[j]) : m < n
    /\ \A i \in DOMAIN windows :
         \A m \in Cursors(windows[i]), n \in OpenCursors : m < n

(* The evidence of a window belongs to the goal the window names; only the *)
(* boundary that ended it may not.                                         *)
OneGoalPerWindow ==
    \A i \in DOMAIN windows : \A e \in EventsOf(windows[i]) :
        e.kind = "goal" \/ e.goal = windows[i].goal

Revocations == {i \in DOMAIN log : log[i].kind = "revoked"}

(* A revocation outranks whatever was due: no window sealed after it was   *)
(* materialised holds, as evidence or as context, anything older than it.  *)
NothingOfRevoked ==
    \A i \in DOMAIN windows : \A r \in Revocations : r < windows[i].at =>
        /\ \A n \in Cursors(windows[i]) : n > r
        /\ \A k \in DOMAIN windows[i].context : windows[i].context[k].n > r

(* A window is attributed to the owner under which all of it was           *)
(* collected: no change of owner lies between its events, or between its   *)
(* context and itself.                                                     *)
OneOwnerPerWindow ==
    \A i \in DOMAIN windows : \A c \in cuts :
        LET all == Cursors(windows[i])
                   \cup {windows[i].context[k].n : k \in DOMAIN windows[i].context}
        IN (\A n \in all : n < c) \/ (\A n \in all : n >= c)

(* "authorization/boundary > count": a full window does not end by count   *)
(* when a boundary of the same moment inside the window was already        *)
(* recorded next to it.                                                    *)
BoundaryBeforeCount ==
    \A i \in DOMAIN windows :
        LET w == windows[i]
            b == Last(w.events).n + 1
        IN w.reason = "event_count" /\ b <= w.known /\ b \in DOMAIN log =>
             ~(/\ log[b].kind \in {"goal", "away"} /\ log[b].at >= w.start
               /\ log[b].at = Last(CountedOf(w.events)).at)

(* Every counted event that was materialised is in a window, or it was     *)
(* discarded for a reason: the gate was closed, or a revocation or a       *)
(* change of owner came after it.                                          *)
Accounted ==
    \A n \in snap.receipts : Counted(log[n]) =>
        \/ n \in OpenCursors \/ \E i \in DOMAIN windows : n \in Cursors(windows[i])
        \/ log[n].kind = "typed" /\ \E r \in Revocations : r < n
        \/ \E r \in Revocations \cap snap.receipts : r > n
        \/ \E c \in cuts : c > n

=============================================================================
