------------------------- MODULE AppUpdateController -------------------------
(* The application's updater: checks of the signed manifest, the download and    *)
(* staging of its archive and the installation, which are three flights over     *)
(* one snapshot; the automatic and the mandatory paths that start them; the      *)
(* Electrobun adapter that seals one staged archive; and the two ways the        *)
(* process ends, an ordinary quit and an exit the updater owns.                  *)
EXTENDS Naturals, FiniteSets

CONSTANTS
    Latest,        \* releases are 1..Latest; the running one is 0
    Mandatory,     \* releases whose minimumSupportedVersion exceeds the running one
    MaxFaults,     \* requests, files, stagings and preparations that go wrong
    MaxLate,       \* downloads asked for although a release is ready
    MaxQuits       \* ordinary quits

AppUpdateAssumption ==
    /\ Latest \in Nat \ {0} /\ Mandatory \subseteq 1..Latest
    /\ MaxFaults \in Nat /\ MaxLate \in Nat /\ MaxQuits \in Nat

VARIABLES
    snap,          \* the snapshot: state, release, and of a failure its operation and code
    man,           \* verifiedManifest, 0: null
    chk,           \* checkFlight: what it waits for
    dl,            \* downloadFlight: what it waits for, its manifest, who waits for it
    ins,           \* installFlight: what it waits for
    adapter,       \* stagingSealed, stagedArchive, and whether the file is still as proven
    shut,          \* shuttingDown
    owned,         \* installExitOwned
    timer,         \* automaticCheckTimer: armed, firing (its check runs) or off
    life,          \* the lifecycle: its shutdown attempt, an exit the updater asked for, a quit
    pub,           \* the newest release the server signs
    over,          \* how the process ended: running, quit, replaced
    used           \* bounds

vars == <<snap, man, chk, dl, ins, adapter, shut, owned, timer, life, pub, over, used>>
work == <<man, chk, dl, ins>>
exits == <<shut, owned, life, over>>

Plain(st) == [st |-> st, rel |-> 0, op |-> "none", code |-> "none"]
With(st, r) == [st |-> st, rel |-> r, op |-> "none", code |-> "none"]

\* sanitizeAppUpdateFailure: the failures that say they may be tried again.
Retryable(code) == code \notin {"updates_disabled", "incompatible_release"}

\* fail: the operation and the code are kept, and the release where one was chosen.
Fail(code, op, r) == [st |-> "failed", rel |-> r, op |-> op, code |-> code]

Installable ==
    \/ snap.st = "ready"
    \/ snap.st = "failed" /\ snap.rel # 0 /\ snap.op = "install" /\ Retryable(snap.code)

NoDl == [at |-> "none", rel |-> 0, auto |-> FALSE, inst |-> FALSE]

Init ==
    /\ snap = Plain("idle") /\ man = 0 /\ chk = "none" /\ dl = NoDl /\ ins = "none"
    /\ adapter = [sealed |-> FALSE, staged |-> 0, intact |-> TRUE]
    /\ shut = FALSE /\ owned = FALSE /\ timer = "armed"
    /\ life = [attempt |-> "none", ext |-> FALSE, quit |-> FALSE, retry |-> FALSE]
    /\ pub \in {0, 1} /\ over = "running" /\ used = [faults |-> 0, late |-> 0, quits |-> 0]

Fault == used.faults < MaxFaults /\ used' = [used EXCEPT !.faults = @ + 1]
Alive == over = "running"

----------------------------------------------------------------------------
(* Checks *)

\* The synchronous head of runCheck.
CheckBegins == man' = 0 /\ snap' = Plain("checking")

\* The early returns of checkForUpdate.
MayCheck ==
    /\ ~shut /\ chk = "none" /\ dl = NoDl /\ ins = "none"
    /\ snap.st \notin {"ready", "preparing_install", "installing"}

\* startCheck from a renderer, and the timer's runAutomaticCheck, which waits
\* for a check that already runs.
StartCheck ==
    /\ Alive /\ MayCheck /\ CheckBegins /\ chk' = "local"
    /\ UNCHANGED <<dl, ins, adapter, exits, timer, pub, used>>

AutomaticCheck ==
    /\ Alive /\ timer = "armed" /\ timer' = "firing"
    /\ IF MayCheck THEN CheckBegins /\ chk' = "local" ELSE UNCHANGED <<man, snap, chk>>
    /\ UNCHANGED <<dl, ins, adapter, exits, pub, used>>

\* The finally of runAutomaticCheck: the timer is armed again unless the
\* application is ending.
AutomaticCheckEnds ==
    /\ Alive /\ timer = "firing" /\ chk = "none"
    /\ timer' = IF shut THEN "off" ELSE "armed"
    /\ UNCHANGED <<snap, work, adapter, exits, pub, used>>

\* A check is made by its own flight or by the download, which then is the flight.
CheckAt(step) == chk = step \/ dl.at = step
CheckMoves(step) ==
    IF chk # "none" THEN chk' = step /\ UNCHANGED dl
    ELSE dl' = [dl EXCEPT !.at = step] /\ UNCHANGED chk

\* getLocalInfo answered: the channel and the target are those of an update.
LocalInfo ==
    /\ Alive /\ CheckAt("local") /\ snap.st = "checking"
    /\ CheckMoves("fetch")
    /\ UNCHANGED <<snap, man, ins, adapter, exits, timer, pub, used>>

\* A check that ends without a release: the flight is over, and with it the
\* download that made it or waited for it.
CheckEndsWith(s) ==
    /\ snap' = s /\ chk' = "none"
    /\ dl' = IF dl.at \in {"join", "local", "fetch"} THEN [dl EXCEPT !.at = "ending"] ELSE dl
    /\ UNCHANGED <<man, ins, adapter, exits, timer, pub>>

\* The local metadata is unusable, or the channel or the platform has no updates.
CheckRefused ==
    /\ Alive /\ CheckAt("local")
    /\ \E s \in {Fail("incompatible_release", "check", 0), Plain("disabled")} : CheckEndsWith(s)
    /\ Fault

\* fetchAndVerifyManifest threw, or the manifest is for another application.
ManifestFails ==
    /\ Alive /\ CheckAt("fetch")
    /\ \E code \in {"network_unavailable", "invalid_manifest", "signature_invalid",
                    "incompatible_release", "update_metadata_mismatch"} :
          CheckEndsWith(Fail(code, "check", 0))
    /\ Fault

UpToDate ==
    /\ Alive /\ CheckAt("fetch") /\ pub = 0
    /\ CheckEndsWith(Plain("up_to_date")) /\ UNCHANGED used

\* scheduleMandatoryInstall: the download is started, or joined, before anything
\* else runs, and the installation follows if it ends ready.
AfterDownload(d, r) == IF r \in Mandatory /\ ~shut THEN [d EXCEPT !.auto = TRUE] ELSE d

\* A verified manifest of a newer release. A download that waited for it goes
\* on with it; a mandatory one starts its own.
ManifestVerified ==
    /\ Alive /\ CheckAt("fetch") /\ pub # 0
    /\ man' = pub /\ chk' = "none"
    /\ LET waits == dl # NoDl
           starts == waits \/ (pub \in Mandatory /\ ~shut)
       IN /\ snap' = With(IF starts THEN "downloading" ELSE "available", pub)
          /\ dl' = IF starts
                   THEN AfterDownload([dl EXCEPT !.at = "body", !.rel = pub], pub)
                   ELSE dl
    /\ UNCHANGED <<ins, adapter, exits, timer, pub, used>>

----------------------------------------------------------------------------
(* Downloads *)

\* runDownload: with a verified manifest the archive is fetched at once;
\* otherwise the check flight is awaited, or a check is made.
DownloadBegins(d) ==
    IF man # 0
    THEN /\ dl' = [d EXCEPT !.at = "body", !.rel = man]
         /\ snap' = With("downloading", man) /\ UNCHANGED <<man, chk>>
    ELSE IF chk # "none"
    THEN dl' = [d EXCEPT !.at = "join"] /\ UNCHANGED <<snap, man, chk>>
    ELSE dl' = [d EXCEPT !.at = "local"] /\ CheckBegins /\ UNCHANGED chk

\* downloadUpdate, which joins the flight there is. It does not look at the
\* snapshot: a release that is ready is downloaded again.
StartDownload ==
    /\ Alive /\ ~shut /\ dl = NoDl /\ ins = "none"
    /\ DownloadBegins(NoDl)
    /\ IF snap.st = "ready"
       THEN used.late < MaxLate /\ used' = [used EXCEPT !.late = @ + 1]
       ELSE UNCHANGED used
    /\ UNCHANGED <<ins, adapter, exits, timer, pub>>

DownloadFails(code) ==
    /\ snap' = Fail(code, "download", dl.rel) /\ dl' = [dl EXCEPT !.at = "ending"]
    /\ UNCHANGED <<man, chk, ins, exits, timer, pub>>

\* The request, a read, a write or a timeout fails; the length or the digest is
\* not the manifest's.
BodyFails ==
    /\ Alive /\ dl.at = "body" /\ Fault
    /\ \E code \in {"download_failed", "archive_size_mismatch", "archive_digest_mismatch"} :
          DownloadFails(code)
    /\ UNCHANGED adapter

\* The archive is complete and its digest is the signed one.
BodyVerified ==
    /\ Alive /\ dl.at = "body"
    /\ snap' = With("verifying", dl.rel) /\ dl' = [dl EXCEPT !.at = "stage"]
    /\ UNCHANGED <<man, chk, ins, adapter, exits, timer, pub, used>>

\* stageVerifiedFullArchive: "already sealed" is thrown before anything is touched.
Seal == ~adapter.sealed

StageBegins ==
    /\ Alive /\ dl.at = "stage"
    /\ IF Seal
       THEN /\ adapter' = [sealed |-> TRUE, staged |-> 0, intact |-> TRUE]
            /\ dl' = [dl EXCEPT !.at = "recognise"]
            /\ UNCHANGED <<snap, man, chk, ins, exits, timer, pub>>
       ELSE DownloadFails("staging_failed") /\ UNCHANGED adapter
    /\ UNCHANGED used

\* Decompression, the renames or Electrobun's recognition of the file fail: the
\* previous file is put back and the adapter may be used again.
StageFails ==
    /\ Alive /\ dl.at = "recognise" /\ Fault
    /\ adapter' = [adapter EXCEPT !.sealed = FALSE]
    /\ DownloadFails("staging_failed")

StageEnds ==
    /\ Alive /\ dl.at = "recognise"
    /\ adapter' = [adapter EXCEPT !.staged = dl.rel, !.intact = TRUE]
    /\ snap' = With("ready", dl.rel) /\ dl' = [dl EXCEPT !.at = "ending"]
    /\ UNCHANGED <<man, chk, ins, exits, timer, pub, used>>

----------------------------------------------------------------------------
(* Installation *)

MayInstall == ins = "none" /\ (~shut \/ owned)

\* requestShutdownAuthorization: one attempt at a time, and its first part is the
\* synchronous onQuitRequested, which closes this controller too.
RequestShutdown(l) ==
    /\ life' = IF l.attempt = "none" THEN [l EXCEPT !.attempt = "running"] ELSE l
    /\ shut' = TRUE /\ timer' = IF timer = "armed" THEN "off" ELSE timer

\* installUpdateAndRestart and runInstall up to the preparation, which asks the
\* lifecycle for an exit the updater owns. Anything but an installable snapshot
\* is left as it is.
InstallBegins ==
    IF MayInstall /\ Installable
    THEN /\ ins' = "prepare" /\ owned' = TRUE
         /\ snap' = With("preparing_install", snap.rel)
         /\ RequestShutdown([life EXCEPT !.ext = TRUE, !.quit = FALSE, !.retry = FALSE])
    ELSE UNCHANGED <<ins, owned, snap, life, shut, timer>>

InstallNow ==
    /\ Alive /\ dl = NoDl /\ MayInstall /\ Installable /\ InstallBegins
    /\ UNCHANGED <<man, chk, dl, adapter, pub, over, used>>

\* A request during a download is made again when the download has ended.
InstallAfterDownload ==
    /\ Alive /\ MayInstall /\ dl # NoDl /\ ~dl.inst
    /\ dl' = [dl EXCEPT !.inst = TRUE]
    /\ UNCHANGED <<snap, man, chk, ins, adapter, exits, timer, pub, used>>

\* The download flight settles: its field is cleared first, then those who
\* waited go on.
DownloadEnds ==
    /\ Alive /\ dl.at = "ending" /\ dl' = NoDl
    /\ IF dl.inst \/ (dl.auto /\ snap.st = "ready") THEN InstallBegins
       ELSE UNCHANGED <<ins, owned, snap, life, shut, timer>>
    /\ UNCHANGED <<man, chk, adapter, pub, over, used>>

\* drainBackgroundWork, one of the steps of the shutdown.
Drained == chk = "none" /\ dl = NoDl

\* The shutdown is done and the process may end: a quit nobody overtook exits.
ShutdownAuthorized ==
    /\ Alive /\ life.attempt = "running" /\ Drained
    /\ life' = [life EXCEPT !.attempt = "authorized"]
    /\ IF ins = "prepare" THEN ins' = "apply" /\ snap' = With("installing", snap.rel)
       ELSE UNCHANGED <<ins, snap>>
    /\ over' = IF life.quit /\ ~life.ext THEN "quit" ELSE over
    /\ UNCHANGED <<man, chk, dl, adapter, shut, owned, timer, pub, used>>

\* A critical step failed: the next request makes a new attempt, and a quit is
\* tried once more by itself when the owners that were late have settled.
ShutdownFails ==
    /\ Alive /\ life.attempt = "running" /\ Fault
    /\ life' = [life EXCEPT !.attempt = "none", !.quit = FALSE, !.retry = life.quit,
                            !.ext = IF ins = "prepare" THEN FALSE ELSE @]
    /\ IF ins = "prepare"
       THEN ins' = "none" /\ snap' = Fail("install_blocked", "install", snap.rel)
       ELSE UNCHANGED <<ins, snap>>
    /\ UNCHANGED <<man, chk, dl, adapter, shut, owned, timer, pub, over>>

\* Mutant: the staged file is taken as it is.
Intact_Assumed == TRUE

\* applyStagedUpdate compares the file with the proof taken at staging.
Intact == adapter.staged # 0 /\ adapter.intact

\* The helper is armed and this process exits.
Apply ==
    /\ Alive /\ ins = "apply" /\ Intact
    /\ over' = "replaced" /\ ins' = "none"
    /\ UNCHANGED <<snap, man, chk, dl, adapter, shut, owned, timer, life, pub, used>>

\* The proof does not hold or the handoff failed: the failure is shown and the
\* quiesced process is asked to exit (onPreparedInstallFailure, a microtask),
\* which the lifecycle lets through.
ApplyFails ==
    /\ Alive /\ ins = "apply"
    /\ IF Intact THEN Fault ELSE UNCHANGED used
    /\ ins' = "none" /\ snap' = Fail("install_failed", "install", snap.rel)
    /\ over' = "quit"
    /\ UNCHANGED <<man, chk, dl, adapter, shut, owned, timer, life, pub>>

----------------------------------------------------------------------------
(* The environment *)

\* quit: the same attempt serves a quit and an installation that is prepared.
Quit ==
    /\ Alive /\ ~life.quit /\ life.attempt # "authorized" /\ used.quits < MaxQuits
    /\ used' = [used EXCEPT !.quits = @ + 1]
    /\ RequestShutdown([life EXCEPT !.quit = TRUE, !.retry = FALSE])
    /\ UNCHANGED <<snap, work, adapter, owned, pub, over>>

AutomaticRetry ==
    /\ Alive /\ life.retry /\ life.attempt = "none"
    /\ RequestShutdown([life EXCEPT !.quit = TRUE, !.retry = FALSE])
    /\ UNCHANGED <<snap, work, adapter, owned, pub, over, used>>

\* handleBeforeQuit: once the shutdown is done the event is let through, also
\* while the updater prepares its exit.
BeforeQuit ==
    /\ Alive /\ life.attempt = "authorized" /\ used.quits < MaxQuits
    /\ used' = [used EXCEPT !.quits = @ + 1] /\ over' = "quit"
    /\ UNCHANGED <<snap, work, adapter, shut, owned, timer, life, pub>>

Publish ==
    /\ Alive /\ pub < Latest /\ pub' = pub + 1
    /\ UNCHANGED <<snap, work, adapter, exits, timer, used>>

\* The staged file is damaged or removed after it was proven.
FileChanges ==
    /\ Alive /\ adapter.staged # 0 /\ adapter.intact /\ Fault
    /\ adapter' = [adapter EXCEPT !.intact = FALSE]
    /\ UNCHANGED <<snap, work, exits, timer, pub>>

Ended == ~Alive /\ UNCHANGED vars

CheckSteps == LocalInfo \/ CheckRefused \/ ManifestFails \/ UpToDate \/ ManifestVerified
DownloadSteps ==
    BodyFails \/ BodyVerified \/ StageBegins \/ StageFails \/ StageEnds \/ DownloadEnds
InstallSteps == ShutdownAuthorized \/ ShutdownFails \/ Apply \/ ApplyFails
TimerSteps == AutomaticCheck \/ AutomaticCheckEnds

Next ==
    \/ CheckSteps \/ DownloadSteps \/ InstallSteps \/ TimerSteps \/ AutomaticRetry
    \/ StartCheck \/ StartDownload \/ InstallNow \/ InstallAfterDownload
    \/ Quit \/ BeforeQuit \/ Publish \/ FileChanges \/ Ended

Spec == Init /\ [][Next]_vars

\* Requests, files and processes are awaited under timeouts, and the timer fires.
FairSpec ==
    /\ Spec /\ WF_vars(CheckSteps) /\ WF_vars(DownloadSteps) /\ WF_vars(InstallSteps)
    /\ WF_vars(TimerSteps)

----------------------------------------------------------------------------
(* Properties *)

States == {"idle", "checking", "disabled", "up_to_date", "available", "downloading",
           "verifying", "ready", "preparing_install", "installing", "failed"}

UpdateTypeOK ==
    /\ snap.st \in States /\ snap.rel \in 0..Latest
    /\ snap.op \in {"none", "check", "download", "install"}
    /\ man \in 0..Latest /\ chk \in {"none", "local", "fetch"}
    /\ dl.at \in {"none", "join", "local", "fetch", "body", "stage", "recognise", "ending"}
    /\ dl.rel \in 0..Latest /\ ins \in {"none", "prepare", "apply"}
    /\ adapter \in [sealed : BOOLEAN, staged : 0..Latest, intact : BOOLEAN]
    /\ timer \in {"armed", "firing", "off"} /\ over \in {"running", "quit", "replaced"}
    /\ life.attempt \in {"none", "running", "authorized"}

\* What is installed is the release the user was shown, staged from a verified
\* download and unchanged since (app-update-controller.ts 829 and 947).
InstalledIsStaged ==
    over = "replaced" => adapter.staged # 0 /\ adapter.intact /\ snap.rel = adapter.staged

\* A snapshot that offers an installation, or reports one under way, names the
\* release that is staged, whatever checks and downloads ran in between.
OfferIsStaged ==
    Installable \/ snap.st \in {"preparing_install", "installing"} => snap.rel = adapter.staged

\* A download works on the manifest of the last check: no check runs beside a
\* fetch of the archive, and neither runs beside an installation (186 to 245).
OneWorker ==
    /\ dl.at \in {"body", "stage", "recognise"} => chk = "none" /\ dl.rel = man
    /\ ins = "apply" => chk = "none" /\ dl = NoDl

\* The process ends with no check or download in flight: the shutdown joined
\* them, and none starts after it was latched (272 to 290).
EndsDrained == ~Alive => chk = "none" /\ dl = NoDl

\* An application that the user quits is not replaced: an installation that is
\* scheduled when an ordinary quit has begun does not start (232).
QuitNotReplacedStep ==
    shut /\ ~owned => shut' /\ ~owned' /\ over' # "replaced"
QuitNotReplaced == [][QuitNotReplacedStep]_vars

\* Everything the updater shows as under way ends: a spinner is never for ever.
WorkEnds ==
    snap.st \in {"checking", "downloading", "verifying", "preparing_install", "installing"}
        ~> (snap.st \notin {"checking", "downloading", "verifying", "preparing_install", "installing"} \/ ~Alive)

\* A mandatory release is installed without the user, unless the application is
\* quit or something fails (392 to 401).
MandatoryInstalled ==
    (pub \in Mandatory) ~> (~Alive \/ snap.st = "failed" \/ used.faults > 0 \/ used.quits > 0)

\* After a failed staging the user is told to try again: the adapter would take
\* another archive (app-update.ts 389).
StagingRetryable == snap.code = "staging_failed" => ~adapter.sealed

=============================================================================
