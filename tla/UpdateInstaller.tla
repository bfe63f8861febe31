--------------------------- MODULE UpdateInstaller ---------------------------
(* The replacement of the application by a helper process. The application      *)
(* extracts and validates the candidate, starts the helper, waits for its armed  *)
(* proof and exits; the helper waits for exactly that process to end, exchanges  *)
(* the bundles, starts the new application, and puts the old one back when it    *)
(* does not come up. On macOS the exchange is one system call and the launcher   *)
(* is watched for a while; on Windows it is two moves that are retried until a   *)
(* deadline. Either process may be killed at any point.                          *)
EXTENDS Naturals, FiniteSets

CONSTANTS
    Platform,      \* "macos" or "win"
    MaxFaults,     \* file operations, starts and launches that fail
    MaxKills,      \* times the machine or a user ends one of the two processes
    MaxAttempts    \* installations the application tries

UpdateInstallerAssumption ==
    /\ Platform \in {"macos", "win"}
    /\ MaxFaults \in Nat /\ MaxKills \in Nat /\ MaxAttempts \in Nat \ {0}

VARIABLES
    app,           \* the application's step of the handoff
    main,          \* its process runs
    launcher,      \* the process that started it runs
    cand,          \* the candidate archive of this attempt: what is wrong with it
    dirs,          \* the bundle at each path of the transaction
    helper,        \* the helper's step; "none": no process
    ready,         \* armed.json of this transaction exists
    late,          \* the helper's deadline for the exit has passed
    result,        \* what the helper recorded
    started,       \* bundles the helper started that came up
    first,         \* ghost: the first file operation found the processes gone
    used           \* bounds

vars == <<app, main, launcher, cand, dirs, helper, ready, late, result, started, first, used>>
procs == <<main, launcher>>
trans == <<cand, ready, late>>

Paths == {"current", "candidate", "backup", "failed"}
\* What may be wrong with an archive, and which check notices it.
Flaws == {"none", "entry", "tree", "signature"}

NoTransaction == [p \in Paths |-> IF p = "current" THEN "old" ELSE "none"]

Init ==
    /\ app = "idle" /\ main = TRUE /\ launcher = TRUE /\ cand = "none" /\ dirs = NoTransaction
    /\ helper = "none" /\ ready = FALSE /\ late = FALSE /\ result = "none" /\ started = {}
    /\ first = TRUE /\ used = [faults |-> 0, kills |-> 0, attempts |-> 0]

Fault == used.faults < MaxFaults /\ used' = [used EXCEPT !.faults = @ + 1]
HelperAlive == helper # "none"
At(step) == main /\ app = step
Does(step) == helper = step
AppOnly == UNCHANGED <<procs, dirs, helper, late, result, started, first>>
HelperOnly == UNCHANGED <<app, procs, cand, ready>>

----------------------------------------------------------------------------
(* The application's side *)

\* A new transaction beside the running application: its directory has a random
\* name and is created here, so that what an earlier one left behind is never seen.
Prepare ==
    /\ At("idle") /\ used.attempts < MaxAttempts
    /\ used' = [used EXCEPT !.attempts = @ + 1]
    /\ cand' \in Flaws /\ app' = "validate" /\ ready' = FALSE
    /\ dirs' = [NoTransaction EXCEPT !["current"] = dirs["current"]]
    /\ UNCHANGED <<procs, helper, late, result, started, first>>

\* parseAndValidateTarArchive and its helpers: types, paths, duplicates, sizes,
\* trailing content and the required files of the archive's entries.
EntriesValid(c) == c # "entry"

\* validateBunArchiveFiles and validateExtractedMacBundle: the tree on disk is
\* exactly the archive's, on the application's volume, without links.
TreeValid(c) == c # "tree"

\* codesign --verify --deep --strict; only macOS has it.
SignatureValid(c) == Platform = "win" \/ c # "signature"

ExtractedValid(c) == TreeValid(c) /\ SignatureValid(c)

\* The entries are checked before anything is written, and extracted: from here on
\* a candidate is on disk that may still be refused.
Extract ==
    /\ At("validate") /\ EntriesValid(cand)
    /\ dirs' = [dirs EXCEPT !["candidate"] = "new"] /\ app' = "extracted"
    /\ UNCHANGED <<procs, cand, helper, ready, late, result, started, first, used>>

\* The candidate is in place with the helper's script and the plan.
Validated ==
    /\ At("extracted") /\ ExtractedValid(cand) /\ app' = "launch"
    /\ UNCHANGED <<cand, ready, used>> /\ AppOnly

\* A step of the preparation throws: a check refuses the candidate, or a file
\* operation fails.
PreparationThrows ==
    \/ At("validate") /\ (IF EntriesValid(cand) THEN Fault ELSE UNCHANGED used)
    \/ At("extracted") /\ (IF ExtractedValid(cand) THEN Fault ELSE UNCHANGED used)

\* macOS removes the transaction; a removal that fails is ignored.
RefusedByMac ==
    /\ Platform = "macos" /\ PreparationThrows /\ app' = "failed"
    /\ dirs' \in {dirs, [dirs EXCEPT !["candidate"] = "none"]}
    /\ UNCHANGED <<procs, cand, helper, ready, late, result, started, first>>

\* Windows leaves it as it is.
RefusedByWindows ==
    /\ Platform = "win" /\ PreparationThrows /\ app' = "failed"
    /\ UNCHANGED <<cand, ready>> /\ AppOnly

\* spawn: the helper exists, or did not start.
Launch ==
    /\ At("launch") /\ app' = "await" /\ helper' = "arm" /\ late' = FALSE /\ result' = "none"
    /\ UNCHANGED <<procs, cand, dirs, ready, started, first, used>>

LaunchFails ==
    /\ At("launch") /\ Fault /\ app' = "cleanup"
    /\ UNCHANGED <<cand, ready>> /\ AppOnly

\* waitForMacUpdateInstallerReady: the file is this transaction's proof and the
\* exact child is still there afterwards. Windows looks for its end only before
\* it reads the file.
Proven == ready /\ (Platform = "win" \/ HelperAlive)

HandsOver == At("await") /\ Proven

\* The exit is requested in the same turn: the process ends.
Exit ==
    /\ HandsOver /\ app' = "gone" /\ main' = FALSE
    /\ UNCHANGED <<launcher, trans, dirs, helper, result, started, first, used>>

\* exitForUpdate threw or returned.
ExitReturns ==
    /\ HandsOver /\ Fault /\ app' = "terminate"
    /\ UNCHANGED <<cand, ready>> /\ AppOnly

\* The helper closed, wrote no proof in time, or wrote another one.
AwaitFails ==
    /\ At("await")
    /\ IF HelperAlive THEN Fault ELSE UNCHANGED used
    /\ app' = "terminate"
    /\ UNCHANGED <<cand, ready>> /\ AppOnly

\* terminateOwnedHelper: it is the confirmed end of the process that releases it,
\* however long that takes.
Terminated == ~HelperAlive

Terminate ==
    /\ At("terminate") /\ HelperAlive /\ helper' = "none"
    /\ UNCHANGED <<app, procs, trans, dirs, result, started, first, used>>

Reaped ==
    /\ At("terminate") /\ Terminated /\ app' = "cleanup"
    /\ UNCHANGED <<cand, ready, used>> /\ AppOnly

\* cleanupPreparedMacUpdate and cleanupUncommittedWindowsInstall remove the
\* transaction: what it holds is gone.
Cleanup ==
    /\ At("cleanup") /\ app' = "failed"
    /\ dirs' = [p \in Paths |-> IF p = "current" THEN dirs[p] ELSE "none"] /\ ready' = FALSE
    /\ UNCHANGED <<procs, cand, helper, late, result, started, first, used>>

\* A removal throws, in place of the error that led here: any part of it may be left.
CleanupFails ==
    /\ At("cleanup") /\ Fault /\ app' = "failed"
    /\ dirs' \in {dirs, [dirs EXCEPT !["candidate"] = "none"]} /\ ready' \in {ready, FALSE}
    /\ UNCHANGED <<procs, cand, helper, late, result, started, first>>

\* The failure is shown and the user tries again.
TryAgain ==
    /\ At("failed") /\ used.attempts < MaxAttempts /\ app' = "idle"
    /\ UNCHANGED <<cand, ready, used>> /\ AppOnly

\* The launcher, which waits for the process it started, ends after it.
LauncherEnds ==
    /\ ~main /\ launcher /\ launcher' = FALSE
    /\ UNCHANGED <<app, main, trans, dirs, helper, result, started, first, used>>

----------------------------------------------------------------------------
(* The helper *)

Step(to) ==
    /\ helper' = to /\ UNCHANGED <<dirs, late, result, started, first>> /\ HelperOnly
Ends(r) ==
    /\ helper' = "none" /\ result' = r /\ UNCHANGED <<dirs, late, first>> /\ HelperOnly

\* The plan and the paths are checked, and the identities of the processes to
\* wait for are those of the plan; then armed.json appears by a rename.
Arm ==
    /\ Does("arm") /\ main /\ dirs["candidate"] = "new" /\ dirs["backup"] = "none"
    /\ ready' = TRUE /\ helper' = "wait"
    /\ UNCHANGED <<app, procs, cand, dirs, late, result, started, first, used>>

ArmFails ==
    /\ Does("arm") /\ (IF main THEN Fault ELSE UNCHANGED used)
    /\ Ends("none") /\ UNCHANGED started

\* Both processes are gone by their start identity; Windows knows only the main one.
Exited == ~main /\ (Platform = "win" \/ ~launcher)

DeadlinePasses ==
    /\ Does("wait") /\ ~late /\ Fault /\ late' = TRUE
    /\ UNCHANGED <<app, procs, cand, ready, dirs, helper, result, started, first>>

\* waitForOwnedProcesses returned.
WaitEnds == Does("wait") /\ Exited /\ Step("exchange") /\ UNCHANGED used

\* The deadline: nothing was touched, and nothing is started.
WaitFails == Does("wait") /\ late /\ ~Exited /\ Ends("aborted") /\ UNCHANGED <<started, used>>

Move(a, b) == [dirs EXCEPT ![b] = dirs[a], ![a] = "none"]
Swap(a, b) == [dirs EXCEPT ![a] = dirs[b], ![b] = dirs[a]]

\* The processes that run from the bundle are gone, as far as the helper waits for them.
ProcessesGone == ~main /\ (Platform = "win" \/ ~launcher)

Moves(d, to) ==
    /\ dirs' = d /\ helper' = to /\ first' = (first /\ ProcessesGone)
    /\ UNCHANGED <<late, result, started>> /\ HelperOnly

\* Mutant: the bundles are exchanged by two renames.
Exchange_ByRenames ==
    /\ Does("exchange") /\ Moves(Move("current", "backup"), "move") /\ UNCHANGED used

\* The first file operation: macOS exchanges the two names in one call, Windows
\* moves the application aside.
Exchange ==
    /\ Does("exchange")
    /\ IF Platform = "macos" THEN Moves(Swap("current", "candidate"), "keep")
       ELSE Moves(Move("current", "backup"), "move")
    /\ UNCHANGED used

\* Neither has happened: the old application is started again.
ExchangeFails ==
    /\ Does("exchange") /\ Fault /\ Step("restart-before")

\* macOS: the old bundle becomes the backup. Windows: the candidate takes its place.
Keep ==
    /\ Does("keep") /\ Moves(Move("candidate", "backup"), "start") /\ UNCHANGED used
KeepFails == Does("keep") /\ Fault /\ Step("undo")

Replace ==
    /\ Does("move") /\ Moves(Move("candidate", "current"), "start") /\ UNCHANGED used
ReplaceFails == Does("move") /\ Fault /\ Step("undo")

\* startAndProbe: the launcher runs and is still there after a while. Windows
\* only asks for a process.
CameUp(b) == b # "none"

Start ==
    /\ Does("start") /\ CameUp(dirs["current"])
    /\ started' = started \cup {dirs["current"]} /\ Ends("installed") /\ UNCHANGED used

StartFails == Does("start") /\ Fault /\ Step("undo")

\* The bundles after the old one was put back. macOS exchanges the names again
\* and sets the failed bundle aside; Windows moves the new one away first, if it
\* was moved in, and then the backup.
Undone ==
    IF Platform = "macos"
    THEN IF dirs["backup"] = "none" THEN Swap("current", "candidate")
         ELSE [dirs EXCEPT !["current"] = dirs["backup"], !["backup"] = "none",
                           !["failed"] = dirs["current"]]
    ELSE [dirs EXCEPT !["failed"] = dirs["current"], !["current"] = dirs["backup"], !["backup"] = "none"]

Undo == Does("undo") /\ Moves(Undone, "restart") /\ UNCHANGED used

\* macOS exchanged the bundles and could not set the failed one aside, which is
\* ignored.
UndoNotSetAside ==
    /\ Does("undo") /\ Platform = "macos" /\ dirs["backup"] # "none" /\ Fault
    /\ Moves(Swap("current", "backup"), "restart")

\* Windows has moved the new bundle away and cannot move the backup in.
UndoHalf ==
    /\ Does("undo") /\ Platform = "win" /\ dirs["current"] # "none" /\ Fault
    /\ Moves(Move("current", "failed"), "restart-backup")

UndoFails == Does("undo") /\ Fault /\ Step("restart-backup")

\* The restored application is started.
Restart ==
    /\ Does("restart") /\ CameUp(dirs["current"])
    /\ started' = started \cup {dirs["current"]} /\ Ends("rolled_back") /\ UNCHANGED used
RestartBefore ==
    /\ Does("restart-before") /\ CameUp(dirs["current"])
    /\ started' = started \cup {dirs["current"]} /\ Ends("failed_before_swap") /\ UNCHANGED used

\* The rollback failed: the launcher of the backup is started where it is.
RestartBackup ==
    /\ Does("restart-backup") /\ CameUp(dirs["backup"])
    /\ started' = started \cup {dirs["backup"]} /\ Ends("rollback_failed") /\ UNCHANGED used

\* The restored application does not come up: macOS still tries the bundle at
\* the backup's path, where none is left when the failed one was set aside.
RestartFails ==
    /\ Does("restart") /\ Fault
    /\ IF Platform = "macos" THEN Step("restart-backup")
       ELSE Ends("rollback_failed") /\ UNCHANGED started

\* No application could be started.
NothingStarts ==
    /\ helper \in {"restart-before", "restart-backup"}
    /\ IF helper = "restart-backup" /\ dirs["backup"] = "none" THEN UNCHANGED used ELSE Fault
    /\ Ends(IF helper = "restart-before" THEN "failed_before_swap" ELSE "rollback_failed")
    /\ UNCHANGED started

Kill == used.kills < MaxKills /\ used' = [used EXCEPT !.kills = @ + 1]

\* The helper is killed.
Killed ==
    /\ HelperAlive /\ Kill
    /\ helper' = "none" /\ UNCHANGED <<dirs, late, result, started, first>> /\ HelperOnly

\* The application is killed: a helper it has started does not know that.
AppKilled ==
    /\ main /\ Kill /\ main' = FALSE /\ app' = "killed"
    /\ UNCHANGED <<launcher, trans, dirs, helper, result, started, first>>

----------------------------------------------------------------------------
AppSteps ==
    \/ Prepare \/ Extract \/ Validated \/ RefusedByMac \/ RefusedByWindows
    \/ Launch \/ LaunchFails \/ Exit \/ ExitReturns \/ AwaitFails \/ Terminate \/ Reaped
    \/ Cleanup \/ CleanupFails \/ TryAgain
HelperSteps ==
    \/ Arm \/ ArmFails \/ WaitEnds \/ WaitFails \/ Exchange \/ ExchangeFails \/ Keep \/ KeepFails
    \/ Replace \/ ReplaceFails \/ Start \/ StartFails \/ Undo \/ UndoNotSetAside \/ UndoHalf
    \/ UndoFails \/ Restart \/ RestartBefore \/ RestartBackup \/ RestartFails \/ NothingStarts

Next == AppSteps \/ HelperSteps \/ LauncherEnds \/ DeadlinePasses \/ Killed \/ AppKilled

Spec == Init /\ [][Next]_vars

\* Processes go on, and a launcher ends after the process it waits for.
FairSpec ==
    /\ Spec /\ WF_vars(AppSteps) /\ WF_vars(HelperSteps) /\ WF_vars(LauncherEnds)

----------------------------------------------------------------------------
(* Properties *)

Bundles == {"none", "old", "new"}
InstallerTypeOK ==
    /\ app \in {"idle", "validate", "extracted", "launch", "await", "terminate", "cleanup",
                "failed", "gone", "killed"}
    /\ main \in BOOLEAN /\ launcher \in BOOLEAN /\ cand \in Flaws
    /\ dirs \in [Paths -> Bundles]
    /\ helper \in {"none", "arm", "wait", "exchange", "keep", "move", "start", "undo",
                   "restart", "restart-before", "restart-backup"}
    /\ result \in {"none", "aborted", "failed_before_swap", "rolled_back", "rollback_failed", "installed"}
    /\ started \subseteq Bundles

\* Both names exist before and after the exchange: on macOS a launchable bundle
\* is at the application's path at every moment, also when the helper is killed
\* between any two of its steps (app-update-macos-installer.ts 133).
PathNeverEmpty == dirs["current"] # "none"

\* The old bundle is always somewhere: no failure, kill, rollback or cleanup of
\* a transaction removes the only copy.
OldNeverLost == \E p \in Paths : dirs[p] = "old"

\* A candidate that any check of the platform refuses is never at the application's
\* path, although it may lie beside it (prepareMacUpdateTransaction, applyStagedUpdate).
OnlyValidInstalled ==
    dirs["current"] = "new" => cand \in {"none"} \cup (IF Platform = "win" THEN {"signature"} ELSE {})

\* The application reports a failure it can recover from only when no helper is
\* left that could replace it, and it has the bundle it was started from, none of
\* which was moved, whatever a cleanup has left of the candidate (440).
FailureMeansIntact ==
    At("failed") =>
        /\ ~HelperAlive
        /\ dirs["current"] = "old" /\ dirs["backup"] = "none" /\ dirs["failed"] = "none"

\* Nothing is moved while the processes that run from the bundle exist (1235, 1612).
MovedAfterExit == first

\* "installed" is recorded only when the new bundle is in place, came up, and the
\* old one is kept as a backup.
InstalledIsUp ==
    result = "installed" => dirs["current"] = "new" /\ "new" \in started /\ dirs["backup"] = "old"

\* Once the application has exited for the helper, some application comes up
\* again, unless the helper is killed or the attempts to start one fail.
UpAgain ==
    (app = "gone") ~> (started # {} \/ used.kills > 0 \/ used.faults > 0)

\* A rollback that succeeded leaves the old bundle running from its own path.
RolledBackIsOld == result = "rolled_back" => dirs["current"] = "old" /\ "old" \in started

=============================================================================
