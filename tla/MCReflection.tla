---------------------------- MODULE MCReflection ----------------------------
(***************************************************************************)
(* Model checking of reflection: the queue of its jobs with the reminders  *)
(* they end in, the stream that carries the journal's events to the        *)
(* collector, and the windows the collector seals. A behaviour runs one of *)
(* them, which 'part' names. ReflectionJobs stays in its initial state     *)
(* meanwhile; the variables of the others are 0.                           *)
(***************************************************************************)
EXTENDS ReflectionJobs

VARIABLES
    part,   \* the component that runs; it never changes
    \* ReflectionStream
    rows, last, retained, committed, streamNow, host, ring, wire, gate, origin, taken,
    owner, window, sealed, svc, queue, who, auth, deferred, streamUsed,
    \* ReflectionWindows
    log, next, snap, windows, pulled, cuts, windowingNow, windowingUsed,
    \* of more than one component
    op

streamVars == <<rows, last, retained, committed, streamNow, host, ring, wire, gate,
                origin, taken, owner, window, sealed, svc, queue, who, auth, deferred,
                streamUsed>>
windowingVars == <<log, next, snap, windows, pulled, cuts, windowingNow, windowingUsed>>
mcVars == <<part, vars, streamVars, windowingVars, op>>

NoStream ==
    /\ rows = 0 /\ last = 0 /\ retained = 0 /\ committed = 0 /\ streamNow = 0 /\ host = 0
    /\ ring = 0 /\ wire = 0 /\ gate = 0 /\ origin = 0 /\ taken = 0 /\ owner = 0
    /\ window = 0 /\ sealed = 0 /\ svc = 0 /\ queue = 0 /\ who = 0 /\ auth = 0
    /\ deferred = 0 /\ streamUsed = 0
NoWindowing ==
    /\ log = 0 /\ next = 0 /\ snap = 0 /\ windows = 0 /\ pulled = 0 /\ cuts = 0
    /\ windowingNow = 0 /\ windowingUsed = 0

\* The stream of the journal for one reader while nobody logs in; a page or a commit
\* fails, the process ends.
Stream == INSTANCE ReflectionStream WITH
    Accounts <- {}, LIMIT <- 2, THRESHOLD <- 2, CAPACITY <- 2, MaxEvents <- 2,
    MaxFaults <- 1, MaxCrashes <- 1, MaxLogins <- 0, MaxDeferred <- 0,
    DeferWhile <- {"off", "shut"}, HostMayCrash <- FALSE, MayFail <- FALSE,
    now <- streamNow, used <- streamUsed

\* Two accounts and their transitions, one of which is deferred.
Logins == INSTANCE ReflectionStream WITH
    Accounts <- {"a", "b"}, LIMIT <- 1, THRESHOLD <- 1, CAPACITY <- 2, MaxEvents <- 2,
    MaxFaults <- 0, MaxCrashes <- 1, MaxLogins <- 2, MaxDeferred <- 1,
    DeferWhile <- {"off"}, HostMayCrash <- TRUE, MayFail <- TRUE, now <- streamNow,
    used <- streamUsed

\* Windows of counted events, scans, goals and absences.
Windowing == INSTANCE ReflectionWindows WITH
    Kinds <- {"work", "scan", "goal", "away"}, Owners <- {"nobody"}, THRESHOLD <- 2,
    MAX_WAIT <- 1, LOOKBACK <- 1, MaxEvents <- 4, MaxTime <- 2, MaxCrashes <- 1,
    MaxCutovers <- 0, now <- windowingNow, used <- windowingUsed

\* Windows whose permission is revoked and granted, with a change of their owner.
Revoked == INSTANCE ReflectionWindows WITH
    Kinds <- {"work", "typed", "revoked", "granted"}, Owners <- {"nobody", "a"},
    THRESHOLD <- 2, MAX_WAIT <- 1, LOOKBACK <- 1, MaxEvents <- 3, MaxTime <- 2,
    MaxCrashes <- 1, MaxCutovers <- 1, now <- windowingNow, used <- windowingUsed

\* Two of the failures, ends, stops and replays meet.
Bounded == used.faults + used.crashes + used.stops + used.replays <= 2

\* Past the deadline of a window that was opened at once: four events, or three and a
\* crash or a change of owner.
WindowingBounded ==
    windowingNow > 1 => Len(log) + windowingUsed.crashes + windowingUsed.cutovers <= 4

MCInit ==
    \/ /\ part = "jobs" /\ Init
       /\ NoStream /\ NoWindowing /\ op = 0
    \/ /\ part = "stream" /\ Stream!Init
       /\ Init /\ NoWindowing
    \/ /\ part = "owners" /\ Logins!Init
       /\ Init /\ NoWindowing
    \/ /\ part = "windows" /\ Windowing!Init
       /\ Init /\ NoStream
    \/ /\ part = "revoked" /\ Revoked!Init
       /\ Init /\ NoStream

MCNext ==
    \/ /\ part = "jobs" /\ Next /\ Bounded'
       /\ UNCHANGED <<part, streamVars, windowingVars, op>>
    \/ /\ part = "stream" /\ Stream!Next
       /\ UNCHANGED <<part, vars, windowingVars>>
    \/ /\ part = "owners" /\ Logins!Next
       /\ UNCHANGED <<part, vars, windowingVars>>
    \/ /\ part = "windows" /\ Windowing!Next /\ WindowingBounded'
       /\ UNCHANGED <<part, vars, streamVars>>
    \/ /\ part = "revoked" /\ Revoked!Next /\ WindowingBounded'
       /\ UNCHANGED <<part, vars, streamVars>>

MCSpec == MCInit /\ [][MCNext]_mcVars

-----------------------------------------------------------------------------
(* Properties                                                              *)

\* An event is materialised once and none is skipped, a window has one owner, and
\* nothing recorded before an account is adopted by it. (MaterialisedOnce,
\* NothingSkipped, TypeOK, NothingAdopted, OneOwnerPerWindow of ReflectionStream.)
StreamSafe ==
    /\ part = "stream" =>
         /\ Stream!MaterialisedOnce
         /\ Stream!NothingSkipped
    /\ part = "owners" =>
         /\ Logins!TypeOK
         /\ Logins!NothingAdopted
         /\ Logins!OneOwnerPerWindow

\* Windows are bounded, in order, of one goal and one owner, every event is accounted
\* for, a boundary comes before the count, and nothing of a revoked permission is
\* sealed. (TypeOK, WindowsAreBounded, WindowsInOrder, OneGoalPerWindow,
\* BoundaryBeforeCount, Accounted, NothingOfRevoked, OneOwnerPerWindow of
\* ReflectionWindows.)
WindowsSafe ==
    /\ part = "windows" =>
         /\ Windowing!TypeOK
         /\ Windowing!WindowsAreBounded
         /\ Windowing!WindowsInOrder
         /\ Windowing!OneGoalPerWindow
         /\ Windowing!BoundaryBeforeCount
         /\ Windowing!Accounted
    /\ part = "revoked" =>
         /\ Revoked!NothingOfRevoked
         /\ Revoked!OneOwnerPerWindow
         /\ Revoked!Accounted
=============================================================================
