----------------------------- MODULE MCTimeline -----------------------------
(***************************************************************************)
(* Model checking of the timeline: the jobs of its windows and the inputs  *)
(* they become, the collector that turns the journal into windows, and the *)
(* collection of its sealed snapshots. A behaviour runs one of them, which *)
(* 'part' names. TimelineJobs stays in its initial state meanwhile; the    *)
(* variables of the others are 0.                                          *)
(***************************************************************************)
EXTENDS TimelineJobs

VARIABLES
    part,   \* the component that runs; it never changes
    \* TimelineCollector
    now, journal, jgoal, committed, snap, windows, initial, life, queue, todo, page,
    more, last, pushed, deferred, timer, seen, mismatch, collectorFaults,
    \* TimelineVaultGc
    row, gc, range, vault, pipe, op, saves, vaultFaults

collectorVars == <<now, journal, jgoal, committed, snap, windows, initial, life, queue,
                   todo, page, more, last, pushed, deferred, timer, seen, mismatch,
                   collectorFaults>>
vaultVars == <<row, gc, range, vault, pipe, op, saves, vaultFaults>>
mcVars == <<part, vars, collectorVars, vaultVars>>

NoCollector ==
    /\ now = 0 /\ journal = 0 /\ jgoal = 0 /\ committed = 0 /\ snap = 0 /\ windows = 0
    /\ initial = 0 /\ life = 0 /\ queue = 0 /\ todo = 0 /\ page = 0 /\ more = 0
    /\ last = 0 /\ pushed = 0 /\ deferred = 0 /\ timer = 0 /\ seen = 0 /\ mismatch = 0
    /\ collectorFaults = 0
NoVault ==
    /\ row = 0 /\ gc = 0 /\ range = 0 /\ vault = 0 /\ pipe = 0 /\ op = 0
    /\ saves = 0 /\ vaultFaults = 0

\* A collector that has been saved before; the permission is revoked.
Revoked == INSTANCE TimelineCollector WITH
    Kinds <- {"effective", "context", "revoked"}, Threshold <- 2, MaxWait <- 1,
    Lookback <- 1, ContextLimit <- 1, PullLimit <- 2, MaxEvents <- 3, MaxTime <- 1,
    MaxFaults <- 1, Fresh <- FALSE, faults <- collectorFaults

\* The first start of a collector; the goal changes, the user leaves.
Windowing == INSTANCE TimelineCollector WITH
    Kinds <- {"effective", "goal", "presence"}, Threshold <- 2, MaxWait <- 1,
    Lookback <- 1, ContextLimit <- 1, PullLimit <- 2, MaxEvents <- 2, MaxTime <- 2,
    MaxFaults <- 1, Fresh <- TRUE, faults <- collectorFaults

\* The collection of sealed snapshots beside two writers.
Vault == INSTANCE TimelineVaultGc WITH
    Writers <- {"w1", "w2"}, Contents <- {"a", "b"}, BatchLimit <- 1,
    LegacyRevision <- 0, MaxRevision <- 2, MaxSaves <- 3, MaxFaults <- 1,
    faults <- vaultFaults

\* The same after a migration, with the snapshots of three revisions.
Legacy == INSTANCE TimelineVaultGc WITH
    Writers <- {"w1", "w2"}, Contents <- {"a"}, BatchLimit <- 2, LegacyRevision <- 3,
    MaxRevision <- 1, MaxSaves <- 2, MaxFaults <- 1, faults <- vaultFaults

\* Three events, or a failed call or a crash.
RevokedBounded == collectorFaults = 0 \/ 3 \notin DOMAIN journal

\* Three saves, or a failed call or a crash.
VaultBounded == vaultFaults = 0 \/ saves <= 2

MCInit ==
    \/ /\ part = "jobs" /\ Init
       /\ NoCollector /\ NoVault
    \/ /\ part = "revoked" /\ Revoked!Init
       /\ Init /\ NoVault
    \/ /\ part = "windows" /\ Windowing!Init
       /\ Init /\ NoVault
    \/ /\ part = "vault" /\ Vault!Init
       /\ Init /\ NoCollector
    \/ /\ part = "legacy" /\ Legacy!Init
       /\ Init /\ NoCollector

MCNext ==
    \/ /\ part = "jobs" /\ Next
       /\ UNCHANGED <<part, collectorVars, vaultVars>>
    \/ /\ part = "revoked" /\ Revoked!Next /\ RevokedBounded'
       /\ UNCHANGED <<part, vars, vaultVars>>
    \/ /\ part = "windows" /\ Windowing!Next
       /\ UNCHANGED <<part, vars, vaultVars>>
    \/ /\ part = "vault" /\ Vault!Next /\ VaultBounded'
       /\ UNCHANGED <<part, vars, collectorVars>>
    \/ /\ part = "legacy" /\ Legacy!Next
       /\ UNCHANGED <<part, vars, collectorVars>>

MCSpec == MCInit /\ [][MCNext]_mcVars

-----------------------------------------------------------------------------
(* Properties                                                              *)

\* No event is lost or taken out of order, nothing of a revoked permission is sealed,
\* and a window keeps its limits and its one goal. (TypeOK, NothingLost, InJournalOrder,
\* NothingRevoked, WithinLimits, OneGoal of TimelineCollector.)
CollectorSafe ==
    /\ part = "revoked" =>
         /\ Revoked!TypeOK
         /\ Revoked!NothingLost
         /\ Revoked!InJournalOrder
         /\ Revoked!NothingRevoked
         /\ Revoked!WithinLimits
    /\ part = "windows" =>
         /\ Windowing!NothingLost
         /\ Windowing!InJournalOrder
         /\ Windowing!OneGoal
         /\ Windowing!WithinLimits

\* The snapshot that is active is stored, and no record of the vault is forgotten.
\* (TypeOK, ActiveIsStored, NothingForgotten of TimelineVaultGc.)
SnapshotsSafe ==
    /\ part = "vault" =>
         /\ Vault!TypeOK
         /\ Vault!ActiveIsStored
         /\ Vault!NothingForgotten
    /\ part = "legacy" =>
         /\ Legacy!ActiveIsStored
         /\ Legacy!NothingForgotten
=============================================================================
