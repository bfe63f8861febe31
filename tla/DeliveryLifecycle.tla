--------------------------- MODULE DeliveryLifecycle ---------------------------
(***************************************************************************)
(* ActivityWindowDeliveryLifecycle                                         *)
(* (src/bun/activity-window-delivery-lifecycle.ts) and the bundle it       *)
(* starts and releases (startActivityWindowDelivery in src/bun/index.ts).  *)
(*                                                                         *)
(* Starts and stops overlap: a stop invalidates the attempt that is still  *)
(* running, joins it and releases what it owns. A key stands for an        *)
(* account, session and generation; the session may move on to the next    *)
(* key at any time, and a call keeps the key it was made with.             *)
(***************************************************************************)
EXTENDS Integers

CONSTANTS
    MaxStarts,   \* start attempts in a behaviour (bound)
    MaxKeys,     \* sessions in a behaviour (bound)
    MaxStops,    \* stop operations in a behaviour (bound)
    MaxFaults    \* exceptions thrown by the steps of a start or a release

ASSUME DeliveryLifecycleAssumption ==
    {MaxStarts, MaxKeys, MaxStops, MaxFaults} \subseteq Nat

VARIABLES
    session,  \* the key of the current session, 0 when signed out
    lc,       \* the fields of the lifecycle object
    att,      \* start attempts, in the order of their creation
    open,     \* the parts of each attempt's bundle that are open
    rel,      \* the release in progress
    waiters,  \* keys of the start calls that wait for the stop operation
    used      \* how much of each bound a behaviour has used

vars == <<session, lc, att, open, rel, waiters, used>>

Attempts == 1..MaxStarts
Keys == 1..MaxKeys
Parts == {"analyzer", "delivery", "dispatcher", "store"}

\* Where an attempt is: queued behind a microtask, awaiting the policy cutover,
\* the dispatcher's recovery or the delivery's activation, in its catch handler,
\* or settled.
AttemptStage == {"free", "scheduled", "cutover", "recover", "activate",
                 "cleanup", "settled"}

Lifecycle ==
    [epoch : Nat, closed : BOOLEAN, ready : BOOLEAN,
     resources : 0..MaxStarts,   \* the attempt that owns the bundle, or 0
     token : 0..MaxStarts,       \* attemptToken
     start : 0..MaxStarts,       \* startOperation
     stop : {"none", "join", "release"}]

LifecycleTypeOK ==
    /\ session \in 0..MaxKeys
    /\ lc \in Lifecycle
    /\ att \in [Attempts -> [stage : AttemptStage, key : 0..MaxKeys, epoch : Nat]]
    /\ open \in [Attempts -> SUBSET Parts]
    /\ rel \in [of : 0..MaxStarts, part : Parts \cup {"none"}, failed : BOOLEAN,
                by : {"start", "stop"}]
    /\ waiters \subseteq Keys
    /\ used \in [starts : 0..MaxStarts, keys : 0..MaxKeys, stops : 0..MaxStops,
                 faults : 0..MaxFaults]

NoRelease == [of |-> 0, part |-> "none", failed |-> FALSE, by |-> "stop"]

Init ==
    /\ session = 0
    /\ lc = [epoch |-> 0, closed |-> FALSE, ready |-> FALSE, resources |-> 0,
             token |-> 0, start |-> 0, stop |-> "none"]
    /\ att = [a \in Attempts |-> [stage |-> "free", key |-> 0, epoch |-> 0]]
    /\ open = [a \in Attempts |-> {}]
    /\ rel = NoRelease
    /\ waiters = {}
    /\ used = [starts |-> 0, keys |-> 0, stops |-> 0, faults |-> 0]

Fault == used.faults < MaxFaults /\ used' = [used EXCEPT !.faults = @ + 1]

\* isCurrent of an attempt.
IsCurrent(a) == ~lc.closed /\ lc.epoch = att[a].epoch /\ lc.token = a

\* assertAttemptCurrent: the attempt is current and so is its session.
AssertAttemptCurrent(a) == IsCurrent(a) /\ session = att[a].key

----------------------------------------------------------------------------
(* Sessions *)

SessionChanges ==
    /\ \/ used.keys < MaxKeys /\ session' = used.keys + 1
          /\ used' = [used EXCEPT !.keys = @ + 1]
       \/ session # 0 /\ session' = 0 /\ UNCHANGED used
    /\ UNCHANGED <<lc, att, open, rel, waiters>>

----------------------------------------------------------------------------
(* start *)

\* A start that finds nothing to wait for makes an attempt. A start for the same
\* key joins the operation, one for another key is refused, as is one that finds
\* resources; these leave the state alone.
CanStart ==
    /\ ~lc.closed /\ lc.stop = "none" /\ lc.start = 0 /\ lc.resources = 0
    /\ used.starts < MaxStarts

NewAttempt(k) ==
    /\ CanStart
    /\ LET a == used.starts + 1
       IN /\ lc' = [lc EXCEPT !.token = a, !.start = a]
          /\ att' = [att EXCEPT ![a] = [stage |-> "scheduled", key |-> k,
                                         epoch |-> lc.epoch]]
          /\ used' = [used EXCEPT !.starts = a]

Start ==
    /\ session # 0 /\ ~lc.closed
    /\ \/ NewAttempt(session) /\ UNCHANGED waiters
       \/ /\ lc.stop # "none" /\ waiters' = waiters \cup {session}
          /\ UNCHANGED <<lc, att, used>>
    /\ UNCHANGED <<session, open, rel>>

\* A start that waited for a stop calls start again, with its old key.
StartResumes ==
    /\ lc.stop = "none"
    /\ \E k \in waiters :
        /\ waiters' = waiters \ {k}
        /\ NewAttempt(k) \/ (~CanStart /\ UNCHANGED <<lc, att, used>>)
    /\ UNCHANGED <<session, open, rel>>

\* Mutant: the start operation is not cleared when it settles.
Settled_KeepsStart(l, a) ==
    [l EXCEPT !.token = IF @ = a /\ l.resources = 0 THEN 0 ELSE @]

\* Settling an attempt: the finally handler.
Settled(l, a) ==
    [l EXCEPT !.start = IF @ = a THEN 0 ELSE @,
              !.token = IF @ = a /\ l.resources = 0 THEN 0 ELSE @]

\* The catch handler: release the bundle if this attempt owns one.
Fails(a) ==
    LET l == [lc EXCEPT !.ready = FALSE, !.token = IF @ = a THEN 0 ELSE @]
    IN IF lc.resources = a
       THEN /\ lc' = l
            /\ att' = [att EXCEPT ![a].stage = "cleanup"]
            /\ rel' = [of |-> a, part |-> "analyzer", failed |-> FALSE, by |-> "start"]
       ELSE /\ lc' = Settled(l, a)
            /\ att' = [att EXCEPT ![a].stage = "settled"]
            /\ rel' = rel

StageAfter == [scheduled |-> "cutover", cutover |-> "recover", recover |-> "activate",
               activate |-> "settled"]

\* The parts that exist once a stage has been left: the store first, the others
\* together after the cutover.
PartsAfter == [scheduled |-> {"store"}, cutover |-> Parts, recover |-> Parts,
               activate |-> Parts]

\* run(attempt): between two awaits the attempt checks that it is current, opens
\* what comes next and publishes it; the last step makes the lifecycle ready.
AttemptAdvances(a) ==
    /\ att[a].stage \in DOMAIN StageAfter
    /\ AssertAttemptCurrent(a)
    /\ att' = [att EXCEPT ![a].stage = StageAfter[@]]
    /\ open' = [open EXCEPT ![a] = @ \cup PartsAfter[att[a].stage]]
    /\ lc' = CASE att[a].stage = "scheduled" -> [lc EXCEPT !.resources = a]
               [] att[a].stage = "activate" -> Settled([lc EXCEPT !.ready = TRUE], a)
               [] OTHER -> lc
    /\ UNCHANGED <<session, rel, waiters, used>>

\* A check that fails, or an exception of a step.
AttemptFails(a) ==
    /\ att[a].stage \in DOMAIN StageAfter
    /\ \/ ~AssertAttemptCurrent(a) /\ UNCHANGED used
       \/ Fault
    /\ Fails(a)
    /\ UNCHANGED <<session, open, waiters>>

----------------------------------------------------------------------------
(* stop and close *)

\* A stop while one is in progress joins it.
Stop ==
    /\ lc.stop = "none" /\ used.stops < MaxStops
    /\ used' = [used EXCEPT !.stops = @ + 1]
    /\ lc' = [lc EXCEPT !.epoch = @ + 1, !.ready = FALSE, !.stop = "join"]
    /\ UNCHANGED <<session, att, open, rel, waiters>>

\* Mutant: the stop does not wait for the start operation.
StopJoins_NoWait ==
    /\ lc.stop = "join"
    /\ IF lc.resources = 0
       THEN lc' = [lc EXCEPT !.stop = "none"] /\ rel' = rel
       ELSE /\ lc' = [lc EXCEPT !.stop = "release"]
            /\ rel' = [of |-> lc.resources, part |-> "analyzer", failed |-> FALSE,
                       by |-> "stop"]
    /\ UNCHANGED <<session, att, open, waiters, used>>

StopJoins ==
    /\ lc.stop = "join" /\ lc.start = 0
    /\ IF lc.resources = 0
       THEN lc' = [lc EXCEPT !.stop = "none"] /\ rel' = rel
       ELSE /\ lc' = [lc EXCEPT !.stop = "release"]
            /\ rel' = [of |-> lc.resources, part |-> "analyzer", failed |-> FALSE,
                       by |-> "stop"]
    /\ UNCHANGED <<session, att, open, waiters, used>>

Close ==
    /\ ~lc.closed
    /\ lc' = [lc EXCEPT !.closed = TRUE, !.epoch = @ + 1, !.ready = FALSE]
    /\ UNCHANGED <<session, att, open, rel, waiters, used>>

----------------------------------------------------------------------------
(* Release *)

PartAfter == [analyzer |-> "delivery", delivery |-> "dispatcher",
              dispatcher |-> "store", store |-> "none"]

\* The parts are stopped in order; a failure is remembered and the others are
\* stopped all the same.
ReleasePart ==
    /\ rel.of # 0 /\ rel.part # "none"
    /\ \/ /\ open' = [open EXCEPT ![rel.of] = @ \ {rel.part}]
          /\ rel' = [rel EXCEPT !.part = PartAfter[@]]
          /\ UNCHANGED used
       \/ /\ rel.part \in open[rel.of] /\ Fault
          /\ rel' = [rel EXCEPT !.part = PartAfter[@], !.failed = TRUE]
          /\ UNCHANGED open
    /\ UNCHANGED <<session, lc, att, waiters>>

\* Mutant: a bundle is forgotten even if a part did not stop.
Released_Always(l) ==
    [l EXCEPT !.resources = 0, !.token = 0, !.ready = FALSE]

\* releaseExact: the bundle is forgotten only if every part has stopped.
Released(l) ==
    IF rel.failed \/ l.resources # rel.of THEN l
    ELSE [l EXCEPT !.resources = 0, !.token = 0, !.ready = FALSE]

\* A release that failed rejects the operation, and with it the start calls that
\* await a stop.
ReleaseEnds ==
    /\ rel.of # 0 /\ rel.part = "none"
    /\ rel' = NoRelease
    /\ IF rel.by = "stop"
       THEN /\ lc' = [Released(lc) EXCEPT !.stop = "none"]
            /\ waiters' = IF rel.failed THEN {} ELSE waiters
            /\ att' = att
       ELSE /\ lc' = Settled(Released(lc), rel.of)
            /\ waiters' = waiters
            /\ att' = [att EXCEPT ![rel.of].stage = "settled"]
    /\ UNCHANGED <<session, open, used>>

----------------------------------------------------------------------------

AttemptSteps == \E a \in Attempts : AttemptAdvances(a) \/ AttemptFails(a)

Next ==
    \/ SessionChanges
    \/ Start
    \/ StartResumes
    \/ AttemptSteps
    \/ Stop
    \/ StopJoins
    \/ Close
    \/ ReleasePart
    \/ ReleaseEnds

Spec == Init /\ [][Next]_vars

\* Awaited steps settle and microtasks run.
FairSpec ==
    Spec /\ WF_vars(AttemptSteps) /\ WF_vars(StopJoins) /\ WF_vars(ReleasePart)
         /\ WF_vars(ReleaseEnds) /\ WF_vars(StartResumes)

----------------------------------------------------------------------------
(* Properties *)

\* Every open part belongs to the bundle the lifecycle knows, so that a later
\* stop can release it: a ledger is never left open by an attempt that was
\* invalidated, failed, or failed to clean up (start, releaseExact).
NoOrphanParts == \A a \in Attempts : open[a] # {} => lc.resources = a

\* "an unpublished or half-started bundle cannot appear after the stop barrier
\* has completed": when a stop ends without a failure nothing is open and no
\* attempt is under way.
StopIsBarrierStep ==
     (lc.stop # "none" /\ lc'.stop = "none" /\ ~rel.failed)
        => (\A a \in Attempts : open'[a] = {}) /\ lc'.start = 0
StopIsBarrier == [][StopIsBarrierStep]_vars

\* Nothing is opened for a session that is gone, during a stop, or after close.
OpensOnlyForSessionStep ==
     \A a \in Attempts :
          ~(open'[a] \subseteq open[a])
          => session = att[a].key /\ ~lc.closed /\ lc.stop = "none"
OpensOnlyForSession == [][OpensOnlyForSessionStep]_vars

\* A ready bundle is complete: all its parts are open.
ReadyIsComplete == lc.ready => lc.resources # 0 /\ open[lc.resources] = Parts

\* Every stop ends, and no start call waits for ever.
StopsEnd == (lc.stop # "none") ~> (lc.stop = "none")
WaitersResume == (waiters # {}) ~> (waiters = {})

\* The bundle is owned until it is released, and whole when it is ready.
LifecycleSafe == LifecycleTypeOK /\ NoOrphanParts /\ ReadyIsComplete

\* A stop is a barrier, and nothing is opened for a session that is gone.
LifecycleSteps == StopIsBarrier /\ OpensOnlyForSession
=============================================================================
