-------------------------- MODULE TimelineCollector --------------------------
(***************************************************************************)
(* The durable consumer of semantic events (Timeline v2).  The native host *)
(* keeps a journal of semantic events and one cursor per consumer; the     *)
(* service pulls the journal, the collector materialises every event into  *)
(* an open window or seals the window, and only then is the cursor         *)
(* committed.  A push is a wake-up, every operation goes through one       *)
(* serial queue, and the process may crash between any two durable steps.  *)
(*                                                                         *)
(*   service.ts                     start, pullBacklog, ingest, queue      *)
(*   collector.ts                   ingestSerialized, boundaries, sealing  *)
(*   timeline-runtime-lifecycle.ts  candidates, retries, closing           *)
(*   sqlite-repository.ts           loadCollector, saveCollector,          *)
(*                                  sealWindow (one transaction each)      *)
(*                                                                         *)
(* Cursors are positions of the journal.  The collector is the only writer *)
(* of its row, so the snapshot in memory and the row are one variable.     *)
(***************************************************************************)
EXTENDS Integers, Sequences, FiniteSets, SequencesExt

CONSTANTS
    Kinds,          \* the kinds of events that occur in this instance
    Threshold,      \* effectiveEventThreshold (64)
    MaxWait,        \* maxWaitMs (300000), in ticks
    Lookback,       \* TIMELINE_CONTEXT_LOOKBACK_MS, in ticks
    ContextLimit,   \* TIMELINE_CONTEXT_EVENT_LIMIT (5)
    PullLimit,      \* events of one page
    MaxEvents,      \* bound: length of the journal
    MaxTime,        \* bound: the clock
    MaxFaults,      \* bound: failed calls and crashes
    Fresh           \* TRUE: no collector has ever been saved

None == -1
AllKinds == {"effective", "context", "goal", "presence", "revoked", "restored"}
Authorization == {"revoked", "restored"}

TimelineAssumption ==
    /\ Kinds \subseteq AllKinds
    /\ {Threshold, MaxWait, PullLimit, ContextLimit} \subseteq Nat \ {0}
    /\ {Lookback, MaxEvents, MaxTime, MaxFaults} \subseteq Nat
    /\ Fresh \in BOOLEAN

VARIABLES
    now,        \* clock.nowMs
    journal,    \* the semantic journal: <<[kind, at, goal], ...>>
    jgoal,      \* version of the goal the journal is at
    committed,  \* native side: the consumer's committed cursor
    snap,       \* the collector row (NoSnap: none saved)
    windows,    \* timeline_windows, in the order they were sealed
    initial,    \* initialGoal of the candidate, when no collector is saved
    life,       \* lifecycle: "off", "starting", "running", "closing", "closed"
    queue,      \* the service's operations; the first one is running
    todo,       \* steps left of the running operation
    page,       \* cursors of the page being ingested
    more,       \* page.hasMore
    last,       \* lastCommittedCursor
    pushed,     \* a push came since the last look at pushGeneration
    deferred,   \* deadlinesDeferred
    timer,      \* the armed deadline, or None
    seen,       \* ghost: length of the journal when the operation began
    mismatch,   \* ghost: an event was refused for its goal version
    faults      \* failed calls and crashes so far

vars == <<now, journal, jgoal, committed, snap, windows, initial, life, queue,
          todo, page, more, last, pushed, deferred, timer, seen, mismatch, faults>>

env == <<now, journal, jgoal>>
volatile == <<initial, queue, todo, page, more, last, pushed, deferred, timer, seen>>

NoOpen == [goal |-> None, at |-> None, deadline |-> None, events |-> <<>>]
NoSnap == [goal |-> None, open |-> NoOpen, ctx |-> <<>>, recent |-> {},
           mat |-> None]

Cursors == 1..MaxEvents
Effective(c) == journal[c].kind = "effective"
EffectiveOf(s) == SelectSeq(s, Effective)
LastOf(s, n) == SubSeq(s, IF Len(s) > n THEN Len(s) - n + 1 ELSE 1, Len(s))
HasOpen(s) == s.open.events # <<>>
Count(open) == Len(EffectiveOf(open.events))
Due(open) == now >= open.deadline
(* thresholdReachedAt: occurredAt of the last effective event.             *)
ReachedAt(open) == journal[Last(EffectiveOf(open.events))].at

-----------------------------------------------------------------------------
(* What the operations of the service's queue do, step by step.            *)

Steps(op) ==
    CASE op = "start"    -> <<"recover", "transport", "query", "stable", "resume">>
      [] op = "wake"     -> <<"query", "count", "due">>
      [] op = "deadline" -> <<"query", "due">>
      [] op = "count"    -> <<"query", "count">>

(* enqueue: an operation reads nothing before it is first in the queue, so *)
(* wake-ups, polls and deadlines are queued when they begin; the flush     *)
(* that a full window asks for waits behind the operation that filled it.  *)
Enqueue(op) ==
    /\ queue = <<>>
    /\ queue' = <<op>> /\ todo' = Steps(op) /\ seen' = Len(journal)

(* The running operation ends with q the queue it leaves behind.           *)
NextOperation(q) ==
    /\ queue' = Tail(q)
    /\ todo' = IF Len(q) > 1 THEN Steps(q[2]) ELSE <<>>
    /\ seen' = IF Len(q) > 1 THEN Len(journal) ELSE 0

(* A step is done and t is left of its operation.                          *)
Continue(t, q) ==
    IF t = <<>> THEN NextOperation(q)
    ELSE todo' = t /\ queue' = q /\ UNCHANGED seen

At(step) == todo # <<>> /\ Head(todo) = step

Reset ==
    /\ initial' = None
    /\ queue' = <<>> /\ todo' = <<>> /\ page' = <<>> /\ more' = FALSE
    /\ last' = 0 /\ pushed' = FALSE /\ deferred' = FALSE
    /\ timer' = None /\ seen' = 0

(* The running operation is rejected.  A start that fails closes its       *)
(* candidate and the lifecycle retries with a fresh one; any other         *)
(* operation only reports its error.                                       *)
Reject ==
    IF life = "starting"
    THEN life' = "off" /\ Reset
    ELSE /\ NextOperation(queue)
         /\ page' = <<>> /\ more' = FALSE
         /\ UNCHANGED <<initial, life, last, pushed, deferred, timer>>

-----------------------------------------------------------------------------
(* The environment: the clock, the native host's journal and its pushes.   *)

Init ==
    /\ now = 0 /\ journal = <<>> /\ jgoal = 0 /\ committed = 0
    /\ snap = IF Fresh THEN NoSnap ELSE [NoSnap EXCEPT !.goal = 0, !.mat = 0]
    /\ windows = <<>> /\ initial = None /\ life = "off"
    /\ queue = <<>> /\ todo = <<>> /\ page = <<>> /\ more = FALSE
    /\ last = 0 /\ pushed = FALSE /\ deferred = FALSE /\ timer = None
    /\ seen = 0 /\ mismatch = FALSE /\ faults = 0

Tick ==
    /\ now < MaxTime
    /\ now' = now + 1
    /\ UNCHANGED <<journal, jgoal, committed, snap, windows, life, volatile,
                   mismatch, faults>>

(* The host appends an event; the observation may be late.  The version of *)
(* a goal event is the one it replaces.                                    *)
Observe ==
    /\ Len(journal) < MaxEvents
    /\ \E kind \in Kinds, at \in {now, now - 1} \cap Nat :
         /\ journal' = Append(journal, [kind |-> kind, at |-> at, goal |-> jgoal])
         /\ jgoal' = IF kind = "goal" THEN jgoal + 1 ELSE jgoal
    /\ UNCHANGED <<now, committed, snap, windows, life, volatile, mismatch, faults>>

(* onSemanticEvent: a wake-up.  While the service starts it only moves     *)
(* pushGeneration.                                                         *)
Push ==
    /\ committed < Len(journal)
    /\ \/ /\ life = "starting" /\ ~At("recover") /\ ~At("transport")
          /\ pushed' = TRUE
          /\ UNCHANGED <<queue, todo, seen>>
       \/ /\ life = "running"
          /\ Enqueue("wake")
          /\ UNCHANGED pushed
    /\ UNCHANGED <<env, initial, committed, snap, windows, life, page, more, last,
                   deferred, timer, mismatch, faults>>

(* armEventPoll's timer: pullNow.                                          *)
Poll ==
    /\ life = "running"
    /\ Enqueue("wake")
    /\ UNCHANGED <<env, initial, committed, snap, windows, life, page, more, last,
                   pushed, deferred, timer, mismatch, faults>>

(* armDeadline's timer: onDeadlineReady queues a pull and a flush.         *)
DeadlineFires ==
    /\ timer # None /\ now >= timer /\ life = "running"
    /\ timer' = None
    /\ Enqueue("deadline")
    /\ UNCHANGED <<env, initial, committed, snap, windows, life, page, more, last,
                   pushed, deferred, mismatch, faults>>

-----------------------------------------------------------------------------
(* The lifecycle.                                                          *)

(* startCandidate (also the retry): a fresh runtime, which is given the    *)
(* goal the Reflection runtime is at.                                      *)
Start ==
    /\ life = "off"
    /\ life' = "starting"
    /\ initial' = IF snap.mat = None THEN jgoal ELSE None
    /\ queue' = <<"start">> /\ todo' = Steps("start") /\ seen' = Len(journal)
    /\ UNCHANGED <<env, committed, snap, windows, page, more, last, pushed,
                   deferred, timer, mismatch, faults>>

(* lifecycle.beginShutdown and service.beginShutdown: no ingress, timers   *)
(* cancelled; the operations that are queued find the runtime closed.  A   *)
(* candidate that is starting is closed when its start has settled.        *)
BeginShutdown ==
    /\ life \in {"off", "running"}
    /\ life' = IF life = "off" THEN "closed" ELSE "closing"
    /\ timer' = None /\ deferred' = FALSE
    /\ UNCHANGED <<env, initial, committed, snap, windows, queue, todo, page, more,
                   last, pushed, seen, mismatch, faults>>

(* settleShutdown: nothing runs any more.                                  *)
Settled ==
    /\ life = "closing" /\ queue = <<>>
    /\ life' = "closed" /\ Reset
    /\ UNCHANGED <<env, committed, snap, windows, mismatch, faults>>

Crash ==
    /\ faults < MaxFaults
    /\ life' = "off" /\ Reset /\ faults' = faults + 1
    /\ UNCHANGED <<env, committed, snap, windows, mismatch>>

(* A query, a transport start, a save or a commit that fails.              *)
CallFails ==
    /\ faults < MaxFaults
    /\ todo # <<>> /\ Head(todo) \in {"recover", "transport", "query",
                                      "ingest", "commit"}
    /\ Reject
    /\ faults' = faults + 1
    /\ UNCHANGED <<env, committed, snap, windows, mismatch>>

-----------------------------------------------------------------------------
(* The steps of a start.                                                   *)

(* collector.recover({deferDeadline}): the saved snapshot, or an initial   *)
(* one with the goal the candidate was given.                              *)
Recover ==
    /\ At("recover")
    /\ deferred' = TRUE
    /\ snap' = IF snap.mat = None
               THEN [NoSnap EXCEPT !.goal = initial, !.mat = 0]
               ELSE snap
    /\ initial' = None
    /\ Continue(Tail(todo), queue)
    /\ UNCHANGED <<env, committed, windows, life, page, more, last, pushed,
                   timer, mismatch, faults>>

(* transport.start, and the push generation before the first pull.         *)
TransportStart ==
    /\ At("transport")
    /\ todo' = Tail(todo)
    /\ pushed' = FALSE /\ seen' = Len(journal)
    /\ UNCHANGED <<env, initial, committed, snap, windows, life, queue, page, more,
                   last, deferred, timer, mismatch, faults>>

(* The loop ends when no push came during the pull.                        *)
Stable ==
    /\ At("stable")
    /\ IF pushed
       THEN todo' = <<"query">> \o todo /\ seen' = Len(journal)
       ELSE todo' = Tail(todo) /\ UNCHANGED seen
    /\ pushed' = FALSE
    /\ UNCHANGED <<env, initial, committed, snap, windows, life, queue, page, more,
                   last, deferred, timer, mismatch, faults>>

-----------------------------------------------------------------------------
(* Sealing.                                                                *)

(* buildTimelineWindow: the context of a window is what the last window    *)
(* left behind within the lookback.                                        *)
Context(s) ==
    LET near(c) == /\ Effective(c)
                   /\ s.open.at - journal[c].at \in 0..Lookback
    IN LastOf(SelectSeq(s.ctx, near), ContextLimit)

(* sealCandidate and sealWindow: the window, its job and the collector     *)
(* without an open window, in one transaction.                             *)
Window(s, reason) ==
    [reason |-> reason, goal |-> s.open.goal, deadline |-> s.open.deadline,
     events |-> s.open.events, context |-> Context(s), mat |-> s.mat,
     seen |-> seen]

Sealed(s, goal) ==
    [s EXCEPT !.goal = goal, !.open = NoOpen,
              !.ctx = LastOf(EffectiveOf(s.open.events), ContextLimit)]

Seal(s, reason, goal) ==
    /\ windows' = Append(windows, Window(s, reason))
    /\ snap' = Sealed(s, goal)
    /\ timer' = None

Save(s) == snap' = s /\ UNCHANGED windows

(* flushCountDue, flushDue and resumeDeadlines.                            *)
Flush(count, due) ==
    IF count /\ HasOpen(snap) /\ Count(snap.open) >= Threshold
    THEN Seal(snap, "event_count", snap.goal)
    ELSE IF due /\ HasOpen(snap) /\ Due(snap.open)
    THEN Seal(snap, "max_wait", snap.goal)
    ELSE UNCHANGED <<snap, windows, timer>>

FlushCountDue ==
    /\ At("count") /\ life # "closing"
    /\ Flush(TRUE, FALSE)
    /\ Continue(Tail(todo), queue)
    /\ UNCHANGED <<env, initial, committed, life, page, more, last, pushed, deferred,
                   mismatch, faults>>

FlushDue ==
    /\ At("due") /\ life # "closing"
    /\ Flush(TRUE, TRUE)
    /\ Continue(Tail(todo), queue)
    /\ UNCHANGED <<env, initial, committed, life, page, more, last, pushed, deferred,
                   mismatch, faults>>

(* resumeDeadlines, and the start is over: pushes are accepted.            *)
ResumeDeadlines ==
    /\ At("resume")
    /\ deferred' = FALSE
    /\ IF HasOpen(snap) /\ (Count(snap.open) >= Threshold \/ Due(snap.open))
       THEN Flush(TRUE, TRUE)
       ELSE /\ timer' = IF HasOpen(snap) THEN snap.open.deadline ELSE timer
            /\ UNCHANGED <<snap, windows>>
    /\ life' = "running"
    /\ Continue(Tail(todo), queue)
    /\ UNCHANGED <<env, initial, committed, page, more, last, pushed, mismatch, faults>>

(* The collector's flushes are not guarded by assertRuntimeOpen: a         *)
(* shutdown that comes between the pull and the flush lets it run.         *)
FlushWhileClosing ==
    /\ life = "closing" /\ todo # <<>> /\ Head(todo) \in {"count", "due"}
    /\ Flush(TRUE, Head(todo) = "due")
    /\ Continue(Tail(todo), queue)
    /\ UNCHANGED <<env, initial, committed, life, page, more, last, pushed, deferred,
                   mismatch, faults>>

-----------------------------------------------------------------------------
(* Pulling the backlog.                                                    *)

(* querySemanticEvents: a page of what follows the committed cursor.       *)
Query ==
    /\ At("query") /\ life # "closing"
    /\ LET left == Len(journal) - committed
           n == IF left < PullLimit THEN left ELSE PullLimit
       IN /\ page' = [i \in 1..n |-> committed + i]
          /\ more' = (left > n)
          /\ IF n = 0
             THEN Continue(Tail(todo), queue)
             ELSE /\ todo' = <<"ingest">> \o Tail(todo)
                  /\ UNCHANGED <<queue, seen>>
    /\ UNCHANGED <<env, initial, committed, snap, windows, life, last, pushed,
                   deferred, timer, mismatch, faults>>

(* assertRuntimeOpen after the shutdown has begun.                         *)
RuntimeClosed ==
    /\ life = "closing"
    /\ todo # <<>> /\ Head(todo) \in {"query", "ingest", "commit"}
    /\ Reject
    /\ UNCHANGED <<env, committed, snap, windows, mismatch, faults>>

(* The page is used up.                                                    *)
PageDone ==
    /\ At("ingest") /\ page = <<>> /\ life # "closing"
    /\ IF more
       THEN /\ todo' = <<"query">> \o Tail(todo)
            /\ UNCHANGED <<queue, seen>>
       ELSE Continue(Tail(todo), queue)
    /\ more' = FALSE
    /\ UNCHANGED <<env, initial, committed, snap, windows, life, page, last, pushed,
                   deferred, timer, mismatch, faults>>

(* recentEventIds.includes(event.eventId).                                 *)
Known(c) == c \in snap.recent

(* An event the process has committed, or the collector has seen.          *)
Skip ==
    /\ At("ingest") /\ page # <<>> /\ life # "closing"
    /\ Head(page) <= last \/ Known(Head(page))
    /\ IF Head(page) <= last
       THEN page' = Tail(page) /\ UNCHANGED todo
       ELSE todo' = <<"commit">> \o Tail(todo) /\ UNCHANGED page
    /\ UNCHANGED <<env, initial, committed, snap, windows, life, queue, more, last,
                   pushed, deferred, timer, seen, mismatch, faults>>

(* The event that ingestSerialized is given, not seen before.              *)
Ingesting(c) ==
    /\ At("ingest") /\ page # <<>> /\ life # "closing"
    /\ c = Head(page) /\ c > last /\ ~Known(c)

(* addRecent and materializedCursor.                                       *)
Seen(s, c) == [s EXCEPT !.recent = @ \cup {c}, !.mat = c]

(* The open window takes the event in, when there is one.                  *)
Taken(s, c) ==
    IF HasOpen(s) THEN [s EXCEPT !.open.events = Append(@, c)] ELSE s

Materialised ==
    /\ todo' = <<"commit">> \o Tail(todo)
    /\ UNCHANGED <<env, initial, committed, life, page, more, last, pushed,
                   deferred, seen, mismatch, faults>>

(* Mutant: an authorization boundary keeps the open window.                *)
AfterAuthorization_KeepsWindow(s) == [s EXCEPT !.ctx = <<>>]

(* resetForAuthorizationBoundarySerialized: the pending content is dropped.*)
AfterAuthorization(s) == [s EXCEPT !.open = NoOpen, !.ctx = <<>>]

(* handleAuthorizationBoundary, which outranks every seal.                 *)
IngestAuthorization ==
    \E c \in Cursors :
       /\ Ingesting(c) /\ journal[c].kind \in Authorization
       /\ Save(Seen(AfterAuthorization(snap), c))
       /\ timer' = None
       /\ UNCHANGED queue
       /\ Materialised

(* A full window is sealed before the next event, unless that event is a   *)
(* boundary of the same moment.                                            *)
FullBefore(c) ==
    /\ HasOpen(snap) /\ Count(snap.open) >= Threshold
    /\ ~ /\ journal[c].at = ReachedAt(snap.open)
         /\ journal[c].kind \in {"goal", "presence"}

(* An event after the deadline does not belong to the open window.         *)
OverdueBefore(c) == HasOpen(snap) /\ journal[c].at > snap.open.deadline

(* The seal is written before the event is looked at again.                *)
SealBefore ==
    \E c \in Cursors :
       /\ Ingesting(c) /\ journal[c].kind \notin Authorization
       /\ FullBefore(c) \/ OverdueBefore(c)
       /\ Seal(snap, IF FullBefore(c) THEN "event_count" ELSE "max_wait", snap.goal)
       /\ UNCHANGED <<env, initial, committed, life, queue, todo, page, more, last,
                      pushed, deferred, seen, mismatch, faults>>

Accepted(c) ==
    /\ Ingesting(c) /\ journal[c].kind \notin Authorization
    /\ ~FullBefore(c) /\ ~OverdueBefore(c)
    /\ journal[c].goal = snap.goal

GoalCandidate(c) == Seen(Taken(snap, c), c)

(* handleGoalBoundary: the event closes the window of the goal it ends.    *)
IngestGoal ==
    \E c \in Cursors :
       /\ Accepted(c) /\ journal[c].kind = "goal"
       /\ IF HasOpen(snap)
          THEN Seal(GoalCandidate(c), "goal_boundary", journal[c].goal + 1)
          ELSE /\ Save([GoalCandidate(c) EXCEPT !.goal = journal[c].goal + 1])
               /\ UNCHANGED timer
       /\ UNCHANGED queue
       /\ Materialised

(* handlePresenceBoundary.                                                 *)
IngestPresence ==
    \E c \in Cursors :
       /\ Accepted(c) /\ journal[c].kind = "presence"
       /\ IF HasOpen(snap)
          THEN Seal(Seen(Taken(snap, c), c), "presence_boundary", snap.goal)
          ELSE Save(Seen(snap, c)) /\ UNCHANGED timer
       /\ UNCHANGED queue
       /\ Materialised

(* An event that does not count is kept only inside an open window.        *)
IngestContext ==
    \E c \in Cursors :
       /\ Accepted(c) /\ journal[c].kind = "context"
       /\ Save(Seen(Taken(snap, c), c))
       /\ UNCHANGED <<timer, queue>>
       /\ Materialised

(* startWindow.                                                            *)
Started(s, c) ==
    [s EXCEPT !.open = [goal |-> s.goal, at |-> journal[c].at,
                        deadline |-> journal[c].at + MaxWait, events |-> <<c>>]]

(* An effective event; the one that reaches the threshold asks for a pull  *)
(* and a flush instead of sealing at once, so that a boundary that is      *)
(* already in the journal is seen first.                                   *)
EffectiveCandidate(c) ==
    Seen(IF HasOpen(snap) THEN Taken(snap, c) ELSE Started(snap, c), c)

IngestEffective ==
    \E c \in Cursors :
       /\ Accepted(c) /\ Effective(c)
       /\ LET s == EffectiveCandidate(c)
          IN /\ Save(s)
             /\ IF Count(s.open) >= Threshold
                THEN /\ timer' = None
                     /\ queue' = IF life = "running" /\ "count" \notin Range(queue)
                                 THEN Append(queue, "count") ELSE queue
                ELSE /\ timer' = IF deferred THEN timer ELSE s.open.deadline
                     /\ UNCHANGED queue
       /\ Materialised

(* TimelineGoalVersionMismatchError: the operation fails and the cursor    *)
(* stays where it is.                                                      *)
Mismatch ==
    \E c \in Cursors :
       /\ Ingesting(c) /\ journal[c].kind \notin Authorization
       /\ ~FullBefore(c) /\ ~OverdueBefore(c)
       /\ journal[c].goal # snap.goal
       /\ mismatch' = TRUE
       /\ Reject
       /\ UNCHANGED <<env, committed, snap, windows, faults>>

CommitTarget == Head(page)

(* commitSemanticEventCursor: the native cursor only moves forward.        *)
CommitCursor ==
    /\ At("commit") /\ life # "closing"
    /\ committed' = IF CommitTarget > committed THEN CommitTarget ELSE committed
    /\ last' = CommitTarget
    /\ page' = Tail(page)
    /\ todo' = <<"ingest">> \o Tail(todo)
    /\ UNCHANGED <<env, initial, snap, windows, life, queue, more, pushed, deferred,
                   timer, seen, mismatch, faults>>

(* A commit whose reply is lost.                                           *)
CommitReplyLost ==
    /\ At("commit") /\ life # "closing" /\ faults < MaxFaults
    /\ committed' = IF CommitTarget > committed THEN CommitTarget ELSE committed
    /\ Reject
    /\ faults' = faults + 1
    /\ UNCHANGED <<env, snap, windows, mismatch>>

-----------------------------------------------------------------------------
StartSteps == Recover \/ TransportStart \/ Stable \/ ResumeDeadlines

PullSteps ==
    \/ Query \/ PageDone \/ Skip
    \/ IngestAuthorization \/ SealBefore \/ IngestGoal \/ IngestPresence
    \/ IngestContext \/ IngestEffective \/ Mismatch \/ CommitCursor

FlushSteps == FlushCountDue \/ FlushDue \/ FlushWhileClosing

Next ==
    \/ Tick \/ Observe \/ Push \/ Poll \/ DeadlineFires
    \/ Start \/ BeginShutdown \/ Settled \/ Crash \/ CallFails \/ CommitReplyLost
    \/ StartSteps \/ PullSteps \/ FlushSteps \/ RuntimeClosed

Spec == Init /\ [][Next]_vars

(* Time passes, a closed or crashed runtime is started again, the queue is *)
(* served, and the poll timer fires.                                       *)
Fairness ==
    /\ WF_vars(Tick) /\ WF_vars(Start) /\ WF_vars(Poll)
    /\ WF_vars(StartSteps \/ PullSteps \/ FlushSteps)

(* An application that is not quit.                                        *)
LiveNext == Next /\ life' \notin {"closing", "closed"}

FairSpec == Init /\ [][LiveNext]_vars /\ Fairness

-----------------------------------------------------------------------------
(* Properties.                                                             *)

WindowType ==
    [reason : {"event_count", "max_wait", "goal_boundary", "presence_boundary"},
     goal : 0..MaxEvents, deadline : 0..(MaxTime + MaxWait),
     events : Seq(Cursors), context : Seq(Cursors), mat : Cursors,
     seen : 0..MaxEvents]

(* The variables have their types, and a sealed window has an effective    *)
(* event (sealCandidate refuses an empty one).                             *)
TypeOK ==
    /\ now \in 0..MaxTime /\ Len(journal) <= MaxEvents
    /\ committed \in 0..MaxEvents /\ last \in 0..MaxEvents
    /\ snap.goal \in {None} \cup 0..MaxEvents
    /\ snap.mat \in {None} \cup 0..MaxEvents
    /\ snap.recent \subseteq Cursors
    /\ HasOpen(snap) => Count(snap.open) > 0
    /\ \A i \in DOMAIN windows : /\ windows[i] \in WindowType
                                 /\ EffectiveOf(windows[i].events) # <<>>
    /\ life \in {"off", "starting", "running", "closing", "closed"}
    /\ Len(queue) <= 2
    /\ timer \in {None} \cup 0..(MaxTime + MaxWait)

Elements(s) == {s[i] : i \in DOMAIN s}
InWindows == UNION {Elements(windows[i].events) : i \in DOMAIN windows}

(* Every event whose cursor is committed has been materialised, and an     *)
(* effective event is in exactly one window or in the open one, unless an  *)
(* authorization boundary came after it ("its cursor advances only after   *)
(* the encrypted collector/window write succeeds", service.ts:93); crashes *)
(* between the write and the commit, lost replies and repeated wake-ups    *)
(* included.                                                               *)
NothingLost ==
    /\ committed <= (IF snap.mat = None THEN 0 ELSE snap.mat)
    /\ \A c \in 1..committed :
         journal[c].kind = "effective" =>
           \/ c \in InWindows \cup Elements(snap.open.events)
           \/ \E a \in (c + 1)..snap.mat : journal[a].kind \in Authorization

(* The windows and the open window partition the journal in its order: no  *)
(* event is summarised twice and no window reaches into another one.       *)
InJournalOrder ==
    LET all == FoldSeq(LAMBDA w, acc : w.events \o acc, snap.open.events, windows)
    IN \A i \in 1..(Len(all) - 1) : all[i] < all[i + 1]

(* "Authorization revocation outranks every seal trigger" (collector.ts:   *)
(* 191): after an authorization boundary is materialised no window shows   *)
(* what came before it, neither as an event nor as context; and a count or *)
(* a deadline never seals a window whose revocation was the next event of  *)
(* the journal when the operation that seals it began.                     *)
NothingRevoked ==
    \A i \in DOMAIN windows :
       LET w == windows[i]
           shown == Elements(w.events) \cup Elements(w.context)
       IN /\ \A a \in 1..w.mat :
               journal[a].kind \in Authorization => \A c \in shown : c > a
          /\ (w.reason \in {"event_count", "max_wait"} /\ w.mat < w.seen)
               => journal[w.mat + 1].kind \notin Authorization

(* The events of a window belong to the window's goal, and a goal boundary *)
(* ends its window.                                                        *)
OneGoal ==
    \A i \in DOMAIN windows :
       LET w == windows[i]
       IN \A k \in DOMAIN w.events :
            /\ journal[w.events[k]].goal = w.goal
            /\ journal[w.events[k]].kind = "goal" => k = Len(w.events)

(* "The 63rd effective event does not seal and the 64th seals exactly      *)
(* once", and no event of a window lies after its deadline.                *)
WithinLimits ==
    \A i \in DOMAIN windows :
       LET w == windows[i]
       IN /\ Len(EffectiveOf(w.events)) <= Threshold
          /\ w.reason = "event_count" => Len(EffectiveOf(w.events)) = Threshold
          /\ \A c \in Elements(w.events) : journal[c].at <= w.deadline

(* "Recovered collector state and replayed goal boundaries remain          *)
(* authoritative" (service.ts:81): the collector never meets an event of   *)
(* another goal version than its own.                                      *)
GoalsFollow == ~mismatch

(* The backlog is consumed and no window stays open past its deadline.     *)
CatchesUp == []<>(committed = Len(journal))
Closes == []((HasOpen(snap) /\ Due(snap.open)) => <>(~HasOpen(snap) \/ ~Due(snap.open)))
=============================================================================
