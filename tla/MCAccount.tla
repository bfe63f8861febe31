------------------------------ MODULE MCAccount ------------------------------
(***************************************************************************)
(* Model checking of the components an account depends on: its session,    *)
(* the delivery bundle, the feedback policy with its erasures, and the     *)
(* synchronisation with the DataCenter. A behaviour runs one of them,      *)
(* which 'part' names; the variables the others do not use are 0.          *)
(* Components that have a variable of the same name share it.              *)
(***************************************************************************)
EXTENDS DeliveryLifecycle

CONSTANT NoOne   \* no account, no record

VARIABLES
    part,   \* the component that runs; it never changes
    \* RemoteAuthSession
    generation, current, cred, prepared, lock, refresh, call, accepting, sessionUsed,
    \* ProactiveFeedbackReset
    journal, epoch, enabled, where, inWrite, active, owed, shown, cloud, delivery, mem,
    auth, born, done, resetUsed,
    \* DataCenterSync
    kind, aged, lcur, accepted, agents, late, batch, advance, creds, owner, audited,
    cut, legacy, oldRows, config, cloudSession, gen, mode, floor, diverged, faults,
    \* of more than one component
    op

sessionVars == <<generation, current, cred, prepared, lock, refresh, call, accepting,
                 sessionUsed>>
resetVars == <<journal, epoch, enabled, where, inWrite, active, owed, shown, cloud,
               delivery, mem, auth, born, done, resetUsed>>
cloudVars == <<kind, aged, lcur, accepted, agents, late, batch, advance, creds, owner,
               audited, cut, legacy, oldRows, config, cloudSession, gen, mode, floor,
               diverged, faults>>
mcVars == <<part, vars, sessionVars, resetVars, cloudVars, op>>

NoSession ==
    /\ generation = 0 /\ current = 0 /\ cred = 0 /\ prepared = 0 /\ lock = 0 /\ refresh = 0
    /\ call = 0 /\ accepting = 0 /\ sessionUsed = 0
NoReset ==
    /\ journal = 0 /\ epoch = 0 /\ enabled = 0 /\ where = 0 /\ inWrite = 0 /\ active = 0
    /\ owed = 0 /\ shown = 0 /\ cloud = 0 /\ delivery = 0 /\ mem = 0 /\ auth = 0
    /\ born = 0 /\ done = 0 /\ resetUsed = 0
NoCloud ==
    /\ kind = 0 /\ aged = 0 /\ lcur = 0 /\ accepted = 0 /\ agents = 0 /\ late = 0
    /\ batch = 0 /\ advance = 0 /\ creds = 0 /\ owner = 0 /\ audited = 0 /\ cut = 0
    /\ legacy = 0 /\ oldRows = 0 /\ config = 0 /\ cloudSession = 0 /\ gen = 0 /\ mode = 0
    /\ floor = 0 /\ diverged = 0 /\ faults = 0

\* Account sessions: three calls of two accounts; one hook or store fails.
Session == INSTANCE RemoteAuthSession WITH
    Accounts <- {"a", "b"}, MaxCalls <- 3, MaxFaults <- 1, used <- sessionUsed

\* Policy, clear and reset: one piece of evidence, two epochs.
Reset == INSTANCE ProactiveFeedbackReset WITH
    Items <- {"w1"}, MaxEpoch <- 2, MaxFaults <- 1, MaxCrashes <- 1, used <- resetUsed

\* Synchronisation of two accounts under one level of consent.
Cloud == INSTANCE DataCenterSync WITH
    Accounts <- {"a", "b"}, None <- NoOne, Levels <- {"content"}, Kinds <- {"content"},
    BatchMax <- 2, Attempts <- 2, MaxEvents <- 2, MaxSessions <- 2, MaxFaults <- 1,
    MaxAged <- 0, session <- cloudSession

\* Synchronisation of one account whose consent changes, with events of every class.
Consent == INSTANCE DataCenterSync WITH
    Accounts <- {"a"}, None <- NoOne, Levels <- {"off", "metadata", "content"},
    Kinds <- {"system", "content", "goal", "big"}, BatchMax <- 2, Attempts <- 2,
    MaxEvents <- 2, MaxSessions <- 2, MaxFaults <- 1, MaxAged <- 0,
    session <- cloudSession

ASSUME SyncBounds == Cloud!SyncAssumption /\ Consent!SyncAssumption

\* A fault or a crash.
ResetBounded == resetUsed.faults + resetUsed.crashes <= 1

MCInit ==
    \/ /\ part = "delivery" /\ Init
       /\ NoSession /\ NoReset /\ NoCloud /\ op = 0
    \/ /\ part = "session" /\ Session!Init
       /\ Init /\ NoReset /\ NoCloud /\ op = 0
    \/ /\ part = "reset" /\ Reset!Init
       /\ Init /\ NoSession /\ NoCloud
    \/ /\ part = "cloud" /\ Cloud!Init
       /\ Init /\ NoSession /\ NoReset
    \/ /\ part = "consent" /\ Consent!Init
       /\ Init /\ NoSession /\ NoReset

MCNext ==
    \/ /\ part = "delivery" /\ Next
       /\ UNCHANGED <<part, sessionVars, resetVars, cloudVars, op>>
    \/ /\ part = "session" /\ Session!Next
       /\ UNCHANGED <<part, vars, resetVars, cloudVars, op>>
    \/ /\ part = "reset" /\ Reset!Next /\ ResetBounded'
       /\ UNCHANGED <<part, vars, sessionVars, cloudVars>>
    \/ /\ part = "cloud" /\ Cloud!Next
       /\ UNCHANGED <<part, vars, sessionVars, resetVars>>
    \/ /\ part = "consent" /\ Consent!Next
       /\ UNCHANGED <<part, vars, sessionVars, resetVars>>

MCSpec == MCInit /\ [][MCNext]_mcVars

-----------------------------------------------------------------------------
(* Properties                                                              *)

\* The session that is published is the newest one, its account was prepared, it can be
\* restored after a restart, a sign-out is final, and the handoff barrier ran between
\* two owners. (AuthTypeOK, LiveIsNewest, LiveIsPrepared, LiveIsRestorable,
\* SignOutIsFinal, BarrierBetweenOwners of RemoteAuthSession.)
SessionsSafeStates ==
    part = "session" =>
      /\ Session!AuthTypeOK
      /\ Session!LiveIsNewest
      /\ Session!LiveIsPrepared
      /\ Session!LiveIsRestorable
      /\ Session!SignOutIsFinal
SessionsSafeSteps ==
    part = "session" => Session!BarrierBetweenOwnersStep
SessionsSafe ==
    [][SessionsSafeStates /\ SessionsSafeStates' /\ SessionsSafeSteps]_mcVars

\* What was erased is gone and stays gone, a reset leaves nothing pending, evidence has
\* an owner who consented, and a result is shown only under consent. (ResetTypeOK,
\* ErasedIsGone, ResetLeavesNoPending, OwnerHasConsent, ShownUnderConsent of
\* ProactiveFeedbackReset.)
ResetSafeStates ==
    part = "reset" =>
      /\ Reset!ResetTypeOK
      /\ Reset!ErasedIsGone
      /\ Reset!ResetLeavesNoPending
      /\ Reset!OwnerHasConsent
ResetSafeSteps ==
    part = "reset" => Reset!ShownUnderConsentStep
ResetSafe ==
    [][ResetSafeStates /\ ResetSafeStates' /\ ResetSafeSteps]_mcVars

\* Every event is uploaded to one account at most and none is skipped silently, a body
\* is sent only under its owner and consent, an account has one agent, and nothing runs
\* before the cutover. One client that is not killed between a request and its answer
\* never sees its cursor diverge. (SyncTypeOK, UploadedToOne, NothingSkippedSilently,
\* BodyWithinOwnership, OneAgentPerAccount, NoServiceBeforeCutover, SentUnderConsent,
\* CursorsNeverDiverge of DataCenterSync.)
SyncSafe ==
    /\ part = "cloud" =>
         /\ Cloud!SyncTypeOK
         /\ Cloud!UploadedToOne
         /\ Cloud!NothingSkippedSilently
         /\ Cloud!BodyWithinOwnership
         /\ Cloud!OneAgentPerAccount
         /\ Cloud!NoServiceBeforeCutover
    /\ part = "consent" =>
         /\ Consent!SentUnderConsent
         /\ Consent!CursorsNeverDiverge
=============================================================================
