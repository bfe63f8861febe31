--------------------------- MODULE RemoteAuthSession ---------------------------
(***************************************************************************)
(* RemoteAuthSessionManager (src/bun/remote-auth-session.ts): sign-in,     *)
(* restore, sign-out, token refresh and authorized requests as concurrent  *)
(* calls. Every call that replaces or ends the session takes a new         *)
(* generation at once; what it then does to the credential store and to    *)
(* the account-owned local state is serialised by the transition lock, in  *)
(* which other calls may overtake it at every await.                       *)
(***************************************************************************)
EXTENDS Integers, Sequences

CONSTANTS
    Accounts,
    MaxCalls,    \* calls in a behaviour (bound)
    MaxFaults    \* failures of hooks and of the credential store (bound)

BoundsAreNat == MaxCalls \in Nat /\ MaxFaults \in Nat

VARIABLES
    generation, \* the newest generation
    current,    \* the published session
    cred,       \* the account whose refresh token is in the credential store
    prepared,   \* the account the local state is prepared for (the two hooks)
    lock,       \* transitionTail: the calls that hold or await the lock
    refresh,    \* the call that refreshPromise belongs to, or 0
    call,       \* calls in the order they were made
    accepting,  \* acceptingWork
    used        \* how much of each bound a behaviour has used

vars == <<generation, current, cred, prepared, lock, refresh, call, accepting, used>>

None == [acct |-> "none", sid |-> 0, gen |-> 0]
NoAccount == "none"
\* A call takes at most one generation when it is made and one when it ends
\* a session.
MaxGenerations == 2 * MaxCalls
Owners == Accounts \cup {NoAccount}
\* A refresh keeps the generation and may or may not change the session id.
Session == [acct : Accounts, sid : 1..2, gen : 1..MaxGenerations]
Calls == 1..MaxCalls

\* Stages outside the lock: "read" the credential, "net" awaits the server,
\* "sent" and "resent" an authorized request, "await" and "wait" a refresh
\* before the one or the other. The others are the sections of the lock.
Stage == {"free", "read", "net", "sent", "resent", "await", "wait", "done",
          "replace", "forget", "out", "erase", "expire", "wipe",
          "check", "prepare", "write", "publish", "activated",
          "rollback", "revoke", "drop"}

CallRow ==
    [kind : {"signIn", "restore", "signOut", "refresh", "request", "none"},
     stage : Stage,
     gen : 0..MaxGenerations,
     acct : Owners,               \* the account it is about
     src : Session \cup {None},   \* the identity it was started from
     on : 0..MaxCalls,            \* the refresh it waits for
     ok : BOOLEAN]                \* no step of it has failed

AuthTypeOK ==
    /\ generation \in 0..MaxGenerations
    /\ current \in Session \cup {None}
    /\ cred \in Owners
    /\ prepared \in Owners
    /\ lock \in Seq(Calls)
    /\ refresh \in 0..MaxCalls
    /\ call \in [Calls -> CallRow]
    /\ accepting \in BOOLEAN
    /\ used \in [calls : 0..MaxCalls, faults : 0..MaxFaults]

NoCall == [kind |-> "none", stage |-> "free", gen |-> 0, acct |-> NoAccount,
           src |-> None, on |-> 0, ok |-> TRUE]

\* A launch finds the credential of the last session, or none.
Init ==
    /\ generation = 0 /\ current = None
    /\ cred \in Owners /\ prepared = NoAccount
    /\ lock = <<>> /\ refresh = 0
    /\ call = [c \in Calls |-> NoCall]
    /\ accepting = TRUE
    /\ used = [calls |-> 0, faults |-> 0]

----------------------------------------------------------------------------
(* Helpers *)

\* isCurrentSession
IsCurrent(id) == current = id /\ id # None /\ id.gen = generation

Fault == used.faults < MaxFaults /\ used' = [used EXCEPT !.faults = @ + 1]

New(row) ==
    /\ used.calls < MaxCalls
    /\ used' = [used EXCEPT !.calls = @ + 1]
    /\ call' = [call EXCEPT ![used.calls + 1] = row]

\* What is kept of a call that has ended.
Ended(row) ==
    [NoCall EXCEPT !.kind = row.kind, !.stage = "done",
                   !.gen = IF row.kind = "signOut" THEN row.gen ELSE 0,
                   !.ok = row.ok]

Goto(c, stage) ==
    call' = [call EXCEPT ![c] = IF stage = "done" THEN Ended(@)
                                ELSE [@ EXCEPT !.stage = stage]]
Enqueued(c) == lock' = Append(lock, c)
Holds(c) == lock # <<>> /\ Head(lock) = c

\* A new generation that ends the live session at once.
NewGeneration ==
    /\ generation' = generation + 1
    /\ current' = None
    /\ refresh' = 0

----------------------------------------------------------------------------
(* Calls *)

\* signIn: a live session is given up before the network is asked.
SignIn(a) ==
    /\ accepting
    /\ New([kind |-> "signIn", stage |-> IF current = None THEN "net" ELSE "replace",
            gen |-> generation + 1, acct |-> a, src |-> None, on |-> 0, ok |-> TRUE])
    /\ generation' = generation + 1
    /\ IF current = None THEN UNCHANGED <<current, refresh, lock>>
       ELSE current' = None /\ refresh' = 0 /\ Enqueued(used.calls + 1)
    /\ UNCHANGED <<cred, prepared, accepting>>

\* restoreSession
Restore ==
    /\ accepting
    /\ New([kind |-> "restore", stage |-> IF current = None THEN "read" ELSE "replace",
            gen |-> generation + 1, acct |-> NoAccount, src |-> None, on |-> 0, ok |-> TRUE])
    /\ generation' = generation + 1
    /\ IF current = None THEN UNCHANGED <<current, refresh, lock>>
       ELSE current' = None /\ refresh' = 0 /\ Enqueued(used.calls + 1)
    /\ UNCHANGED <<cred, prepared, accepting>>

SignOut ==
    /\ accepting
    /\ New([kind |-> "signOut", stage |-> "out", gen |-> generation + 1,
            acct |-> current.acct, src |-> None, on |-> 0, ok |-> TRUE])
    /\ NewGeneration /\ Enqueued(used.calls + 1)
    /\ UNCHANGED <<cred, prepared, accepting>>

\* authorizedRequest with a token that is still valid, or that must be refreshed
\* first (getValidAuthorization): the refresh is the one under way, or one that
\* StartRefresh has just begun for it.
Request ==
    /\ accepting /\ current # None
    /\ \/ New([kind |-> "request", stage |-> "sent", gen |-> generation,
                acct |-> current.acct, src |-> current, on |-> 0, ok |-> TRUE])
       \/ /\ refresh # 0 /\ call[refresh].src = current
          /\ New([kind |-> "request", stage |-> "await", gen |-> generation,
                  acct |-> current.acct, src |-> current, on |-> refresh, ok |-> TRUE])
    /\ UNCHANGED <<generation, current, cred, prepared, lock, refresh, accepting>>

\* refreshSessionFor: one refresh at a time.
StartRefresh ==
    /\ current # None /\ refresh = 0
    /\ New([kind |-> "refresh", stage |-> "read", gen |-> generation,
            acct |-> current.acct, src |-> current, on |-> 0, ok |-> TRUE])
    /\ refresh' = used.calls + 1
    /\ UNCHANGED <<generation, current, cred, prepared, lock, accepting>>

BeginShutdown ==
    /\ accepting /\ accepting' = FALSE
    /\ UNCHANGED <<generation, current, cred, prepared, lock, refresh, call, used>>

----------------------------------------------------------------------------
(* Steps outside the lock *)

\* The end of call c. A refresh settles its promise: refreshPromise is cleared
\* if it is still this one, and the requests that waited go on with the session
\* that is current then, or fail.
CallEnds(c, ok) ==
    /\ refresh' = IF refresh = c THEN 0 ELSE refresh
    /\ call' = [d \in Calls |->
         IF d = c THEN Ended(call[d])
         ELSE IF call[d].on # c THEN call[d]
         ELSE IF ~ok \/ current = None THEN Ended(call[d])
         ELSE [call[d] EXCEPT
                 !.stage = IF @ = "await" THEN "sent" ELSE "resent",
                 !.src = current, !.on = 0]]

\* expireLocalSession and clearSessionIfCurrent, from call c.
Expires(c) ==
    /\ generation' = generation + 1
    /\ current' = None /\ refresh' = 0
    /\ call' = [call EXCEPT ![c].stage = "expire", ![c].acct = current.acct,
                            ![c].gen = generation + 1]
    /\ Enqueued(c)

\* credentials.read of a restore or a refresh.
ReadCredential(c) ==
    /\ call[c].stage = "read"
    /\ \/ /\ call[c].kind = "restore"
          /\ IF cred = NoAccount \/ call[c].gen # generation THEN Goto(c, "done")
             ELSE call' = [call EXCEPT ![c].stage = "net", ![c].acct = cred]
          /\ UNCHANGED <<generation, current, lock, refresh, used>>
       \/ /\ call[c].kind = "refresh" /\ IsCurrent(call[c].src)
          /\ IF cred = NoAccount
             THEN Expires(c)
             ELSE Goto(c, "net") /\ UNCHANGED <<generation, current, lock, refresh>>
          /\ UNCHANGED used
       \/ /\ call[c].kind = "refresh" /\ ~IsCurrent(call[c].src)
          /\ CallEnds(c, FALSE)
          /\ UNCHANGED <<generation, current, lock, used>>
       \/ /\ Fault /\ CallEnds(c, FALSE)
          /\ UNCHANGED <<generation, current, lock>>
    /\ UNCHANGED <<cred, prepared, accepting>>

\* The server's answer to a sign-in or to a refresh token.
Superseded(c) ==
    \/ call[c].gen # generation
    \/ call[c].src # None /\ ~IsCurrent(call[c].src)

Accepted(c) ==
    /\ call[c].stage = "net"
    /\ IF call[c].kind # "refresh" /\ call[c].gen # generation
       THEN Goto(c, "done") /\ UNCHANGED lock
       ELSE Goto(c, "check") /\ Enqueued(c)
    /\ UNCHANGED <<generation, current, cred, prepared, refresh, accepting, used>>

\* Offline, refused or unavailable; a refresh token that the server no longer
\* accepts (or answers for another account) ends the session it was read for.
Rejected(c) ==
    /\ call[c].stage = "net"
    /\ \/ /\ call[c].kind = "refresh" /\ CallEnds(c, FALSE)
          /\ UNCHANGED <<generation, current, lock>>
       \/ /\ call[c].kind # "refresh" /\ Goto(c, "done")
          /\ UNCHANGED <<generation, current, lock, refresh>>
       \/ /\ call[c].kind \in {"restore", "refresh"}
          /\ ~Superseded(c)
          /\ Expires(c)
    /\ UNCHANGED <<cred, prepared, accepting, used>>

\* The answer to an authorized request: dropped when the session has changed,
\* refreshed once on a 401, and a second 401 ends the session.
Answered(c) ==
    /\ call[c].stage \in {"sent", "resent"}
    /\ \/ /\ Goto(c, "done")
          /\ UNCHANGED <<generation, current, lock, refresh, used>>
       \/ /\ call[c].stage = "sent" /\ IsCurrent(call[c].src) /\ refresh # 0
          /\ call[refresh].src = call[c].src
          /\ call' = [call EXCEPT ![c].stage = "wait", ![c].on = refresh]
          /\ UNCHANGED <<generation, current, lock, refresh, used>>
       \/ /\ call[c].stage = "resent" /\ IsCurrent(call[c].src)
          /\ Expires(c) /\ UNCHANGED used
    /\ UNCHANGED <<cred, prepared, accepting>>

----------------------------------------------------------------------------
(* The lock: replacement, sign-out and expiry *)

\* onBeforeSessionClear. It revokes the owner first of all, so a failure leaves
\* the local state with no owner or with the old one.
Barrier(c, next) ==
    \/ prepared' = NoAccount /\ Goto(c, next) /\ UNCHANGED used
    \/ /\ Fault /\ prepared' \in {prepared, NoAccount}
       /\ call' = [call EXCEPT ![c].stage = next, ![c].ok = FALSE]

ClearOwner(c) ==
    /\ Holds(c)
    /\ \/ call[c].stage = "replace" /\ Barrier(c, "forget")
       \/ call[c].stage = "out" /\ Barrier(c, "erase")
       \/ call[c].stage = "expire" /\ call[c].acct # NoAccount /\ Barrier(c, "wipe")
       \/ /\ call[c].stage = "expire" /\ call[c].acct = NoAccount
          /\ Goto(c, "wipe") /\ UNCHANGED <<prepared, used>>
       \/ call[c].stage = "revoke" /\ Barrier(c, "drop")
    /\ UNCHANGED <<generation, current, cred, lock, refresh, accepting>>

\* credentials.delete after the barrier, whatever the barrier's outcome.
DeleteCredential(c) ==
    /\ Holds(c) /\ call[c].stage \in {"erase", "wipe", "drop"}
    /\ \/ cred' = NoAccount /\ UNCHANGED used
       \/ Fault /\ UNCHANGED cred
    /\ lock' = Tail(lock) /\ CallEnds(c, FALSE)
    /\ UNCHANGED <<generation, current, prepared, accepting>>

\* clearLiveSessionForReplacement: the token is read for a restore, deleted, and
\* the call goes on only if nothing failed.
ForgetCredential(c) ==
    /\ Holds(c) /\ call[c].stage = "forget"
    /\ lock' = Tail(lock)
    /\ \/ /\ cred' = NoAccount /\ UNCHANGED used
          /\ LET go == call[c].ok
                       /\ (call[c].kind = "restore" => cred # NoAccount
                                                       /\ call[c].gen = generation)
             IN IF ~go THEN Goto(c, "done")
                ELSE call' = [call EXCEPT
                       ![c].stage = "net",
                       ![c].acct = IF call[c].kind = "restore" THEN cred ELSE @]
       \/ Fault /\ UNCHANGED cred /\ Goto(c, "done")
    /\ UNCHANGED <<generation, current, prepared, refresh, accepting>>

----------------------------------------------------------------------------
(* The lock: persistAndActivate *)

\* An end of persistAndActivate: a refresh also settles its promise.
EndsActivation(c, ok) ==
    /\ lock' = Tail(lock)
    /\ CallEnds(c, ok)

CheckActivation(c) ==
    /\ Holds(c) /\ call[c].stage = "check"
    /\ IF Superseded(c) THEN EndsActivation(c, FALSE) /\ UNCHANGED current
       ELSE Goto(c, "prepare") /\ UNCHANGED <<lock, refresh, current>>
    /\ UNCHANGED <<generation, cred, prepared, accepting, used>>

\* rollbackPreparedOwner runs only for an owner this activation prepared, and
\* never once a session is live.
IsNewOwner(c) == call[c].src = None

\* onBeforeSessionActivate. It revokes the owner before anything else, so a
\* failure that the runtime does not contain leaves no owner.
Prepare(c) ==
    /\ Holds(c) /\ call[c].stage = "prepare"
    /\ \/ prepared' = call[c].acct /\ UNCHANGED used
          /\ IF call[c].gen = generation THEN Goto(c, "write") ELSE Goto(c, "rollback")
       \/ Fault /\ prepared' \in {NoAccount, prepared} /\ Goto(c, "rollback")
    /\ UNCHANGED <<generation, current, cred, lock, refresh, accepting>>

Rollback(c) ==
    /\ Holds(c) /\ call[c].stage = "rollback"
    /\ \/ /\ prepared' = IF IsNewOwner(c) /\ current = None THEN NoAccount ELSE prepared
          /\ UNCHANGED used
       \/ IsNewOwner(c) /\ current = None /\ Fault /\ UNCHANGED prepared
    /\ EndsActivation(c, FALSE)
    /\ UNCHANGED <<generation, current, cred, accepting>>

WriteCredential(c) ==
    /\ Holds(c) /\ call[c].stage = "write"
    /\ \/ cred' = call[c].acct /\ Goto(c, "publish") /\ UNCHANGED used
       \/ Fault /\ UNCHANGED cred /\ Goto(c, "rollback")
    /\ UNCHANGED <<generation, current, prepared, lock, refresh, accepting>>

\* Mutant: the generation is not checked again after the credential is written.
Publish_NoCheck(c) ==
    /\ Holds(c) /\ call[c].stage = "publish"
    /\ \E sid \in 1..2 :
         current' = [acct |-> call[c].acct, sid |-> sid, gen |-> call[c].gen]
    /\ Goto(c, "activated")
    /\ UNCHANGED <<generation, cred, prepared, lock, refresh, accepting, used>>

\* The last check before the session is published; a superseded activation takes
\* its credential back.
Publish(c) ==
    /\ Holds(c) /\ call[c].stage = "publish"
    /\ IF call[c].gen = generation
       THEN /\ \E sid \in 1..2 :
                 current' = [acct |-> call[c].acct, sid |-> sid, gen |-> generation]
            /\ Goto(c, "activated") /\ UNCHANGED cred
       ELSE /\ cred' = IF current = None THEN NoAccount ELSE cred
            /\ Goto(c, "rollback") /\ UNCHANGED current
    /\ UNCHANGED <<generation, prepared, lock, refresh, accepting, used>>

\* onSessionActivated; its failure revokes the session (revokeFailedActivation)
\* unless a newer call has already replaced it.
Activated(c) ==
    /\ Holds(c) /\ call[c].stage = "activated"
    /\ \/ /\ EndsActivation(c, current # None)
          /\ UNCHANGED <<generation, current, prepared, used>>
       \/ /\ Fault /\ prepared' \in {prepared, NoAccount}
          /\ IF current = None
             THEN EndsActivation(c, FALSE) /\ UNCHANGED <<generation, current>>
             ELSE /\ NewGeneration
                  /\ call' = [call EXCEPT ![c].stage = "revoke"] /\ UNCHANGED lock
    /\ UNCHANGED <<cred, accepting>>

----------------------------------------------------------------------------

Network(c) == ReadCredential(c) \/ Accepted(c) \/ Rejected(c) \/ Answered(c)

Locked(c) ==
    \/ ClearOwner(c) \/ DeleteCredential(c) \/ ForgetCredential(c)
    \/ CheckActivation(c) \/ Prepare(c) \/ Rollback(c) \/ WriteCredential(c)
    \/ Publish(c) \/ Activated(c)

Next ==
    \/ \E a \in Accounts : SignIn(a)
    \/ Restore
    \/ SignOut
    \/ Request
    \/ StartRefresh
    \/ BeginShutdown
    \/ \E c \in Calls : Network(c)
    \/ \E c \in Calls : Locked(c)

Spec == Init /\ [][Next]_vars

\* Requests time out, hooks and the credential helper answer.
FairSpec ==
    Spec /\ \A c \in Calls : WF_vars(Network(c)) /\ WF_vars(Locked(c))

----------------------------------------------------------------------------
(* Properties *)

\* A published session always has the newest generation: no activation that was
\* overtaken by a later sign-in, sign-out or expiry is ever published
\* (persistAndActivate, expireLocalSession).
LiveIsNewest == current # None => current.gen = generation

\* While a session is published the local state is prepared for its account, and
\* for no other: a late rollback or clear never pulls it away. Only a failed hook
\* may leave it without an owner.
LiveIsPrepared ==
    current # None => \/ prepared = current.acct
                      \/ used.faults > 0 /\ prepared = NoAccount

\* A published session can be restored after a restart: its refresh token is the
\* one in the credential store, even if calls overlapped.
LiveIsRestorable == current # None /\ lock = <<>> => cred = current.acct

\* Once a sign-out has ended without a failure and nothing was called after it,
\* neither session, credential nor prepared owner come back, whatever older
\* calls still do.
SignOutIsFinal ==
    \A c \in Calls :
      (call[c].kind = "signOut" /\ call[c].stage = "done" /\ call[c].gen = generation
       /\ call[c].ok /\ used.faults = 0)
      => current = None /\ cred = NoAccount /\ prepared = NoAccount

\* One account's local state is never replaced by another's without the barrier
\* in between, unless a barrier failed.
BarrierBetweenOwnersStep ==
     (used.faults = 0 /\ prepared # NoAccount) => prepared' \in {prepared, NoAccount}
BarrierBetweenOwners == [][BarrierBetweenOwnersStep]_vars

\* Every call ends: nobody waits for ever for the lock or for a refresh.
CallsEnd == \A c \in Calls : (call[c].stage # "free") ~> (call[c].stage = "done")
=============================================================================
