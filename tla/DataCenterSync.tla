--------------------------- MODULE DataCenterSync ---------------------------
(***************************************************************************)
(* Account-bound synchronisation of the desktop event journal with the     *)
(* DataCenter: src/bun/data-center-sync.ts with its wire records           *)
(* (data-center-contract.ts), its durable rows (encrypted-agent-           *)
(* repository.ts) and the one-time cutover of the production origin        *)
(* (data-center-origin-cutover.ts).                                        *)
(*                                                                         *)
(* The journal belongs to the machine, has one consumer cursor for the     *)
(* synchronisation, and outlives account sessions.  The server keeps one   *)
(* cursor per account.  One serial operation at a time moves both: it      *)
(* persists the exact request, sends it, commits the local cursor and      *)
(* deletes the request, and may stop between any two of these steps.  An   *)
(* operation is a record whose todo is the rest of its steps.              *)
(***************************************************************************)
EXTENDS Integers, Sequences, FiniteSets, FiniteSetsExt, SequencesExt

CONSTANTS
    Accounts,      \* account identities
    None,          \* no account, no record
    Levels,        \* consent levels of the sensor domain: "off", "metadata", "content"
    Kinds,         \* event classes: "system", "metadata", "content", "goal", "big"
    BatchMax,      \* events of a batch (500 events, 4 MiB)
    Attempts,      \* DATA_CENTER_REQUEST_ATTEMPTS
    MaxEvents,     \* bound: events of the journal
    MaxSessions,   \* bound: sign-ins
    MaxFaults,     \* bound: crashes, exits, lost or late requests
    MaxAged        \* bound: events that grow older than the retention

\* why an advance skips events
Reasons == {"content-not-consented", "consent-revoked", "account-boundary",
            "retention-expired", "payload-unsupported"}

SyncAssumption ==
    /\ None \notin Accounts \cup Reasons
    /\ Levels \subseteq {"off", "metadata", "content"}
    /\ Kinds \subseteq {"system", "metadata", "content", "goal", "big"}
    /\ {BatchMax, Attempts, MaxEvents} \subseteq Nat \ {0}
    /\ {MaxSessions, MaxFaults, MaxAged} \subseteq Nat

VARIABLES
    kind,      \* the journal: class of event 1, 2, ... Len(kind)
    aged,      \* the events up to this one are older than the retention
    lcur,      \* committed cursor of the consumer in the journal
    accepted,  \* the requests the server has applied
    agents,    \* installations the server knows of each account
    late,      \* requests given up by the client that still may arrive
    batch,     \* datacenter_production_pending_batch, a row per account
    advance,   \* datacenter_production_pending_advance, a row per account
    creds,     \* agent credentials of each account
    owner,     \* datacenter_production_consumer_owner
    audited,   \* events covered by a consumer audit record
    cut,       \* the cutover journal: "none", "prepared", "complete"
    legacy,    \* the retired refresh token is in the credential store
    oldRows,   \* transport rows of the retired origin exist
    config,    \* consent level in the configuration of this process
    session,   \* current session: <<account, generation>> or None
    gen,       \* sessions so far
    mode,      \* start-up and lifecycle of the service
    op,        \* the serial operation under way, or None
    floor,     \* ghost: journal tail when the owner took the consumer over
    diverged,  \* ghost: the cursors were found apart without a reason
    faults

durable == <<lcur, batch, advance, creds, owner, audited, cut, legacy, oldRows>>
server  == <<accepted, agents, late>>
process == <<config, session, gen, mode, op>>
vars    == <<kind, aged, durable, server, process, floor, diverged, faults>>

tail == Len(kind)

(***************************************************************************)
(* Wire records.  A batch carries the events first..last; its why says     *)
(* whether any of them is encrypted content.  An advance skips them, with  *)
(* why as the reason.                                                      *)
(***************************************************************************)
Request(t, a, first, last, why) ==
    [t |-> t, acct |-> a, first |-> first, last |-> last, why |-> why]

\* what projectDataCenterEvent makes of an event under configuration c
Projection(e, c) ==
    IF e <= aged THEN "retention-expired"
    ELSE IF kind[e] # "system" /\ c = "off" THEN "consent-revoked"
    ELSE IF kind[e] = "big" THEN "payload-unsupported"
    ELSE IF kind[e] \in {"content", "goal"} /\ c = "content" THEN "content"
    ELSE IF kind[e] = "goal" THEN "content-not-consented"
    ELSE "metadata"

Uploads(e, c) == Projection(e, c) \in {"metadata", "content"}

\* The events from the cursor on that travel in one request: uploads up to the
\* batch limit, or events skipped for the same reason.
Together(first, last, c) ==
    \/ /\ \A e \in first..last : Uploads(e, c)
       /\ last - first < BatchMax
    \/ /\ ~Uploads(first, c)
       /\ \A e \in first..last : Projection(e, c) = Projection(first, c)

PageRequest(a, first, end) ==
    LET last == Max({l \in first..end : Together(first, l, config)})
    IN  IF Uploads(first, config)
        THEN Request("batch", a, first, last,
                     IF \E e \in first..last : Projection(e, config) = "content"
                     THEN "content" ELSE "metadata")
        ELSE Request("advance", a, first, last, Projection(first, config))

NeedsContext(first, end) ==
    \E e \in first..end : Projection(e, config) = "content"

ReplacementReason(r) ==
    IF config = "off" /\ \E e \in r.first..r.last : kind[e] # "system"
        THEN "consent-revoked"
    ELSE IF r.why = "content" /\ config # "content" THEN "content-not-consented"
    ELSE IF \E e \in r.first..r.last : e <= aged THEN "retention-expired"
    ELSE None

(***************************************************************************)
(* The server: a request is applied when it starts at the account's        *)
(* cursor, answered again when it was applied before, refused otherwise;   *)
(* an advance is also answered when the cursor already stands at its end.  *)
(***************************************************************************)
Ack(a) == Max({0} \cup {r.last : r \in {q \in accepted : q.acct = a}})

Serves(r) ==
    \/ r \in accepted
    \/ r.first = Ack(r.acct) + 1
    \/ r.t = "advance" /\ r.last = Ack(r.acct)

Covered(a) == UNION {r.first..r.last : r \in {q \in accepted : q.acct = a}}
Uploaded(a) ==
    UNION {r.first..r.last : r \in {q \in accepted : q.acct = a /\ q.t = "batch"}}

(***************************************************************************)
(* The serial operation.                                                   *)
(***************************************************************************)
Op(id, todo) ==
    [id |-> id, todo |-> todo, tries |-> 1, end |-> 0, remote |-> 0, rec |-> None]

Me == op.id[1]

Step(s) == op # None /\ op.todo # <<>> /\ Head(op.todo) = s

\* assertCurrent
Current == op # None /\ session = op.id
Aborted == mode \in {"stopping", "closed"}

\* the operation goes on with these steps; an empty list ends it
Then(steps) == IF steps = <<>> THEN None
               ELSE [op EXCEPT !.todo = steps, !.tries = 1]
Next1 == Then(Tail(op.todo))

\* what follows an awaited local step: the next one in the same session,
\* otherwise assertCurrent throws and the operation ends
IfCurrent(next) == IF Current THEN next ELSE None

\* registration and consents are in place: rebase, or the account's own work
Owned(registered) ==
    IF owner = Me THEN <<"pending">> ELSE <<"tail", "cursor", "audit", "rebase">>
AfterConsent(c) ==
    IF c.consent = config THEN Owned(c) ELSE <<"consent">>

Begin ==
    /\ mode = "run"
    /\ op = None
    /\ session # None
    /\ op' = Op(session, <<"creds">>)
    /\ UNCHANGED <<kind, aged, durable, server, config, session, gen, mode,
                   floor, diverged, faults>>

\* putDataCenterAgentCredentials
StoreCredentials(c) == creds' = [creds EXCEPT ![Me] = c]

\* createCloudInstallationId: an identifier not used before
Fresh == gen + faults

\* registeredCredentials: the pending record is durable before the request
Credentials ==
    /\ Step("creds")
    /\ \/ /\ creds[Me].st = "none"
          /\ StoreCredentials([st |-> "pending", consent |-> None, inst |-> Fresh])
          /\ op' = [op EXCEPT !.todo = <<"register">>, !.end = Fresh]
       \/ /\ creds[Me].st = "pending"
          /\ op' = [op EXCEPT !.todo = <<"register">>, !.end = creds[Me].inst]
          /\ UNCHANGED creds
       \/ /\ creds[Me].st = "registered"
          /\ op' = Then(AfterConsent(creds[Me]))
          /\ UNCHANGED creds
    /\ UNCHANGED <<kind, aged, lcur, batch, advance, owner, audited, cut, legacy,
                   oldRows, server, config, session, gen, mode, floor, diverged, faults>>

(***************************************************************************)
(* Requests.  Every attempt may be answered; lost before or after the      *)
(* server applied it; or given up and applied later.  Three attempts, then *)
(* the operation ends with the error.                                      *)
(***************************************************************************)
Network == {"register", "consent", "cursor", "context", "send"}
AtNetwork == op # None /\ Head(op.todo) \in Network

\* what the server does with the request of the current step
Served ==
    \/ /\ Step("register")
       /\ agents' = [agents EXCEPT ![Me] = @ \cup {op.end}]
       /\ UNCHANGED accepted
    \/ /\ Step("send") /\ Serves(op.rec)
       /\ accepted' = accepted \cup {op.rec}
       /\ UNCHANGED agents
    \/ /\ ~Step("register") /\ ~(Step("send") /\ Serves(op.rec))
       /\ UNCHANGED <<accepted, agents>>

Register ==
    /\ Step("register") /\ Current /\ ~Aborted
    /\ Served
    /\ StoreCredentials([st |-> "registered", inst |-> op.end, consent |-> None])
    /\ op' = Then(AfterConsent(creds'[Me]))
    /\ UNCHANGED <<kind, aged, lcur, batch, advance, owner, audited, cut, legacy,
                   oldRows, late, config, session, gen, mode, floor, diverged, faults>>

\* ensureConsents: one request per domain, then the digest is stored
EnsureConsents ==
    /\ Step("consent") /\ Current /\ ~Aborted
    /\ StoreCredentials([creds[Me] EXCEPT !.consent = config])
    /\ op' = Then(Owned(creds[Me]))
    /\ UNCHANGED <<kind, aged, lcur, batch, advance, owner, audited, cut, legacy,
                   oldRows, server, config, session, gen, mode, floor, diverged, faults>>

\* getRemoteCursor, answered in the recovery of a pending batch
CursorForBatch ==
    LET r == op.rec
        why == ReplacementReason(r)
    IN  IF Ack(Me) = r.last THEN Then(<<"commit", "delete">>)
        ELSE IF Ack(Me) # r.first - 1 THEN None
        ELSE IF why # None
        THEN [Then(<<"replace", "send", "commit", "delete">>)
                EXCEPT !.rec = Request("advance", Me, r.first, r.last, why)]
        ELSE Then(<<"send", "commit", "delete">>)

\* ... for a page of new events ...
CursorForPage ==
    IF Ack(Me) # lcur THEN None
    ELSE IF NeedsContext(lcur + 1, op.end) THEN Then(<<"context">>)
    ELSE [Then(<<"put", "send", "commit", "delete">>)
            EXCEPT !.rec = PageRequest(Me, lcur + 1, op.end)]

\* ... and for a change of owner
CursorForRebase ==
    IF Ack(Me) > op.end THEN None ELSE [Next1 EXCEPT !.remote = Ack(Me)]

Rebasing == "audit" \in ToSet(op.todo)

GetRemoteCursor ==
    /\ Step("cursor") /\ Current /\ ~Aborted
    /\ op' = IF Rebasing THEN CursorForRebase
             ELSE IF op.rec # None THEN CursorForBatch ELSE CursorForPage
    /\ diverged' = (diverged \/ (~Rebasing /\ op' = None))
    /\ UNCHANGED <<kind, aged, durable, server, config, session, gen, mode, floor, faults>>

\* getEncryptionContext, then the batch is built
EncryptionContext ==
    /\ Step("context") /\ Current /\ ~Aborted
    /\ op' = [Then(<<"put", "send", "commit", "delete">>)
                EXCEPT !.rec = PageRequest(Me, lcur + 1, op.end)]
    /\ UNCHANGED <<kind, aged, durable, server, config, session, gen, mode,
                   floor, diverged, faults>>

\* sendPendingBatch, sendPendingAdvance: acknowledged, or refused for good
Send ==
    /\ Step("send") /\ Current /\ ~Aborted
    /\ Served
    /\ op' = IF Serves(op.rec) THEN Next1 ELSE None
    /\ UNCHANGED <<kind, aged, durable, late, config, session, gen, mode,
                   floor, diverged, faults>>

\* the attempt failed: wait and try again, or throw
Retry == IF op.tries < Attempts /\ Current /\ ~Aborted
         THEN [op EXCEPT !.tries = @ + 1] ELSE None

\* An attempt times out or its answer is lost; one that is aborted by a stop
\* or overtaken by a session change needs no fault.
AttemptFails ==
    /\ AtNetwork
    /\ IF Current /\ ~Aborted
       THEN faults < MaxFaults /\ faults' = faults + 1
       ELSE UNCHANGED faults
    /\ op' = Retry
    /\ \/ UNCHANGED server
       \/ Served /\ UNCHANGED late
       \/ /\ Step("send") /\ late' = late \cup {op.rec}
          /\ UNCHANGED <<accepted, agents>>
    /\ UNCHANGED <<kind, aged, durable, config, session, gen, mode, floor, diverged>>

\* a request given up by the client reaches the server after all
LateArrival(r) ==
    /\ r \in late
    /\ late' = late \ {r}
    /\ accepted' = IF Serves(r) THEN accepted \cup {r} ELSE accepted
    /\ UNCHANGED <<kind, aged, durable, agents, process, floor, diverged, faults>>

(***************************************************************************)
(* Local steps.                                                            *)
(***************************************************************************)
\* pendingOperation for the account that owns the consumer
PendingOperation ==
    /\ Step("pending")
    /\ op' = IfCurrent(
         IF batch[Me] # None /\ advance[Me] # None THEN None
         ELSE IF batch[Me] # None
              THEN [Then(<<"cursor">>) EXCEPT !.rec = batch[Me]]
         ELSE IF advance[Me] # None
              THEN [Then(<<"send", "commit", "delete">>) EXCEPT !.rec = advance[Me]]
         ELSE Then(<<"page">>))
    /\ UNCHANGED <<kind, aged, durable, server, config, session, gen, mode,
                   floor, diverged, faults>>

\* queryDesktopEvents from the committed cursor
QueryPage ==
    /\ Step("page")
    /\ op' = IF Current /\ lcur < tail
             THEN [Then(<<"cursor">>) EXCEPT !.end = tail] ELSE None
    /\ UNCHANGED <<kind, aged, durable, server, config, session, gen, mode,
                   floor, diverged, faults>>

\* getDesktopEventTailCursor
TailCursor ==
    /\ Step("tail")
    /\ op' = IfCurrent([Next1 EXCEPT !.end = tail])
    /\ UNCHANGED <<kind, aged, durable, server, config, session, gen, mode,
                   floor, diverged, faults>>

\* appendDataCenterConsumerAudit for the range about to be skipped
Audit ==
    /\ Step("audit")
    /\ audited' = audited \cup (op.remote + 1)..op.end
    /\ op' = IfCurrent(Next1)
    /\ UNCHANGED <<kind, aged, lcur, batch, advance, creds, owner, cut, legacy,
                   oldRows, server, config, session, gen, mode, floor, diverged, faults>>

\* Mutant: the pending records of the two accounts stay where they are and
\* ownership changes with the first commit.
RebaseLocally_OwnerFirst ==
    /\ Step("rebase")
    /\ IF Current /\ op.end >= lcur
       THEN /\ lcur' = op.end
            /\ owner' = Me /\ floor' = tail
            /\ op' = None
       ELSE op' = None /\ UNCHANGED <<lcur, owner, floor>>
    /\ UNCHANGED <<batch, advance>>
    /\ UNCHANGED <<kind, aged, creds, audited, cut, legacy,
                   oldRows, server, config, session, gen, mode, diverged, faults>>

\* The consumer moves to the tail; then the pending records of both accounts
\* are dropped, and the account-boundary advance of the new one is next.
RebaseLocally ==
    /\ Step("rebase")
    /\ IF Current /\ op.end >= lcur
       THEN /\ lcur' = op.end
            /\ op' = IF op.remote # op.end
                     THEN [Then(<<"drop", "put", "send", "commit", "own", "delete">>)
                             EXCEPT !.rec = Request("advance", Me, op.remote + 1,
                                                    op.end, "account-boundary")]
                     ELSE Then(<<"drop", "own">>)
       ELSE op' = None /\ UNCHANGED lcur
    /\ UNCHANGED <<kind, aged, batch, advance, creds, owner, audited, cut, legacy,
                   oldRows, server, config, session, gen, mode, floor, diverged, faults>>

\* the deletions after the commit, synchronous, unless the session has changed
DropStale ==
    /\ Step("drop")
    /\ IF Current
       THEN /\ batch'   = [a \in Accounts |-> IF a \in {Me, owner} THEN None ELSE batch[a]]
            /\ advance' = [a \in Accounts |-> IF a \in {Me, owner} THEN None ELSE advance[a]]
       ELSE UNCHANGED <<batch, advance>>
    /\ op' = IfCurrent(Next1)
    /\ UNCHANGED <<kind, aged, lcur, creds, owner, audited, cut, legacy,
                   oldRows, server, config, session, gen, mode, floor, diverged, faults>>

\* putDataCenterPendingRecord: refused while another operation is pending
PutPending ==
    /\ Step("put")
    /\ IF op.rec.t = "batch"
       THEN /\ batch' = IF advance[Me] = None /\ batch[Me] = None
                        THEN [batch EXCEPT ![Me] = op.rec] ELSE batch
            /\ UNCHANGED advance
            /\ op' = IfCurrent(IF batch'[Me] = op.rec THEN Next1 ELSE None)
       ELSE /\ advance' = IF advance[Me] = None /\ batch[Me] = None
                          THEN [advance EXCEPT ![Me] = op.rec] ELSE advance
            /\ UNCHANGED batch
            /\ op' = IfCurrent(IF advance'[Me] = op.rec THEN Next1 ELSE None)
    /\ UNCHANGED <<kind, aged, lcur, creds, owner, audited, cut, legacy,
                   oldRows, server, config, session, gen, mode, floor, diverged, faults>>

\* replaceDataCenterPendingBatchWithAdvance, one transaction
ReplacePending ==
    /\ Step("replace")
    /\ batch'   = [batch EXCEPT ![Me] = None]
    /\ advance' = [advance EXCEPT ![Me] = op.rec]
    /\ op' = IfCurrent(Next1)
    /\ UNCHANGED <<kind, aged, lcur, creds, owner, audited, cut, legacy,
                   oldRows, server, config, session, gen, mode, floor, diverged, faults>>

\* commit: the journal refuses to move the consumer back (CursorRegression)
Commit ==
    /\ Step("commit")
    /\ IF Current /\ op.rec.last >= lcur
       THEN lcur' = op.rec.last /\ op' = Next1
       ELSE op' = None /\ UNCHANGED lcur
    /\ UNCHANGED <<kind, aged, batch, advance, creds, owner, audited, cut, legacy,
                   oldRows, server, config, session, gen, mode, floor, diverged, faults>>

\* setDataCenterConsumerOwner
SetOwner ==
    /\ Step("own")
    /\ owner' = Me
    /\ floor' = op.end
    /\ op' = IfCurrent(Next1)
    /\ UNCHANGED <<kind, aged, lcur, batch, advance, creds, audited, cut, legacy,
                   oldRows, server, config, session, gen, mode, diverged, faults>>

\* deletePendingBatch, deletePendingAdvance; the operation is over
DeletePending ==
    /\ Step("delete")
    /\ batch'   = [batch EXCEPT ![Me] = IF @ = op.rec THEN None ELSE @]
    /\ advance' = [advance EXCEPT ![Me] = IF @ = op.rec THEN None ELSE @]
    /\ op' = None
    /\ UNCHANGED <<kind, aged, lcur, creds, owner, audited, cut, legacy,
                   oldRows, server, config, session, gen, mode, floor, diverged, faults>>

(***************************************************************************)
(* Start-up, sessions and the lifecycle of the service.                    *)
(***************************************************************************)
\* prepareDataCenterProductionOriginCutover: journal and clean-up in one transaction
PrepareCutover ==
    /\ mode = "boot"
    /\ IF cut = "complete"
       THEN /\ mode' = "off"
            /\ UNCHANGED <<cut, oldRows, batch, advance, creds, owner, audited>>
       ELSE /\ mode' = "boot-delete"
            /\ cut' = "prepared"
            /\ oldRows' = FALSE
            /\ batch' = [a \in Accounts |-> None]
            /\ advance' = [a \in Accounts |-> None]
            /\ creds' = [a \in Accounts |-> [st |-> "none", inst |-> 0, consent |-> None]]
            /\ owner' = None
            /\ audited' = {}
    /\ UNCHANGED <<kind, aged, lcur, legacy, server, config, session, gen, op,
                   floor, diverged, faults>>

\* the retired credential is deleted, or start-up fails and is tried again
DeleteLegacyCredential ==
    /\ mode = "boot-delete"
    /\ \/ legacy' = FALSE /\ mode' = "boot-complete" /\ UNCHANGED faults
       \/ /\ faults < MaxFaults /\ faults' = faults + 1
          /\ mode' = "boot" /\ UNCHANGED legacy
    /\ UNCHANGED <<kind, aged, lcur, batch, advance, creds, owner, audited, cut,
                   oldRows, server, config, session, gen, op, floor, diverged>>

CompleteCutover ==
    /\ mode = "boot-complete"
    /\ cut' = "complete"
    /\ mode' = "off"
    /\ UNCHANGED <<kind, aged, lcur, batch, advance, creds, owner, audited, legacy,
                   oldRows, server, config, session, gen, op, floor, diverged, faults>>

\* signIn, restoreSession: the session is current, then start()
SignIn(a) ==
    /\ mode = "off"
    /\ gen < MaxSessions
    /\ gen' = gen + 1
    /\ session' = <<a, gen + 1>>
    /\ mode' = "run"
    /\ UNCHANGED <<kind, aged, durable, server, config, op, floor, diverged, faults>>

\* the session ends; the account clean-up stops the service some time later
SignOut ==
    /\ mode = "run"
    /\ session' = None
    /\ mode' = "handoff"
    /\ UNCHANGED <<kind, aged, durable, server, config, gen, op, floor, diverged, faults>>

\* stop(): the loop is aborted and drained
Stop ==
    /\ mode = "handoff"
    /\ mode' = "stopping"
    /\ UNCHANGED <<kind, aged, durable, server, config, session, gen, op, floor,
                   diverged, faults>>

Drained ==
    /\ mode = "stopping"
    /\ op = None
    /\ mode' = "off"
    /\ UNCHANGED <<kind, aged, durable, server, config, session, gen, op, floor,
                   diverged, faults>>

\* beginShutdown
BeginShutdown ==
    /\ mode \in {"run", "handoff"}
    /\ faults < MaxFaults
    /\ mode' = "closed"
    /\ UNCHANGED <<kind, aged, durable, server, config, session, gen, op, floor,
                   diverged, faults>>

\* The process ends, at any point or after a shutdown, and the next one starts
\* with the configuration it finds.
Restart ==
    /\ faults < MaxFaults
    /\ faults' = faults + 1
    /\ mode' = "boot"
    /\ session' = None
    /\ op' = None
    /\ config' \in Levels
    /\ UNCHANGED <<kind, aged, durable, server, gen, floor, diverged>>

\* the local host appends an event to the journal
Append1(k) ==
    /\ tail < MaxEvents
    /\ kind' = Append(kind, k)
    /\ UNCHANGED <<aged, durable, server, process, floor, diverged, faults>>

\* an event grows older than DATA_CENTER_EVENT_MAX_AGE_MS
Age ==
    /\ aged < tail /\ aged < MaxAged
    /\ aged' = aged + 1
    /\ UNCHANGED <<kind, durable, server, process, floor, diverged, faults>>

Init ==
    /\ kind = <<>> /\ aged = 0 /\ lcur = 0
    /\ accepted = {} /\ agents = [a \in Accounts |-> {}] /\ late = {}
    /\ batch = [a \in Accounts |-> None]
    /\ advance = [a \in Accounts |-> None]
    /\ creds = [a \in Accounts |-> [st |-> "none", inst |-> 0, consent |-> None]]
    /\ owner = None /\ audited = {}
    /\ cut = "none" /\ legacy = TRUE /\ oldRows = TRUE
    /\ config \in Levels /\ session = None /\ gen = 0
    /\ mode = "boot" /\ op = None
    /\ floor = 0 /\ diverged = FALSE /\ faults = 0

Operation ==
    \/ Begin \/ Credentials \/ Register \/ EnsureConsents
    \/ GetRemoteCursor \/ EncryptionContext \/ Send
    \/ PendingOperation \/ QueryPage \/ TailCursor \/ Audit \/ RebaseLocally
    \/ DropStale \/ PutPending \/ ReplacePending \/ Commit \/ SetOwner \/ DeletePending

Lifecycle ==
    \/ PrepareCutover \/ DeleteLegacyCredential \/ CompleteCutover
    \/ SignOut \/ Stop \/ Drained \/ BeginShutdown \/ Restart
    \/ \E a \in Accounts : SignIn(a)

Next ==
    \/ Operation \/ Lifecycle
    \/ AttemptFails
    \/ \E r \in late : LateArrival(r)
    \/ \E k \in Kinds : Append1(k)
    \/ Age

Spec == Init /\ [][Next]_vars

(***************************************************************************)
(* Awaited local work goes on; an attempt is answered or fails (the        *)
(* request timeout) and answers are not lost for ever, because faults are  *)
(* bounded; the loop starts the next operation after at most 15 s; a stop  *)
(* aborts what it waits for.                                               *)
(***************************************************************************)
Fairness ==
    /\ WF_vars(Operation)
    /\ WF_vars((~Current \/ Aborted) /\ AttemptFails)
    /\ WF_vars(PrepareCutover \/ DeleteLegacyCredential \/ CompleteCutover)
    /\ WF_vars(Stop) /\ WF_vars(Drained)
    /\ WF_vars(mode = "closed" /\ Restart)

LiveSpec == Spec /\ Fairness

(***************************************************************************)
(* Properties.                                                             *)
(***************************************************************************)
Requests ==
    [t : {"batch", "advance"}, acct : Accounts, first : 1..MaxEvents,
     last : 1..MaxEvents, why : Reasons \cup {"metadata", "content"}]

\* The variables have their types.
SyncTypeOK ==
    /\ kind \in Seq(Kinds) /\ aged \in 0..tail /\ lcur \in 0..tail
    /\ accepted \subseteq Requests /\ late \subseteq Requests
    /\ batch \in [Accounts -> Requests \cup {None}]
    /\ advance \in [Accounts -> Requests \cup {None}]
    /\ owner \in Accounts \cup {None}
    /\ audited \subseteq 1..tail
    /\ cut \in {"none", "prepared", "complete"}
    /\ mode \in {"boot", "boot-delete", "boot-complete", "off", "run", "handoff",
                 "stopping", "closed"}
    /\ session = None \/ session \in Accounts \X (1..gen)

\* An event reaches one account only: whatever crashes, account switches and
\* late requests happen, no event is uploaded for two accounts.
UploadedToOne ==
    \A a, b \in Accounts : a # b => Uploaded(a) \cap Uploaded(b) = {}

\* The local cursor passes no event silently: each was accepted by the server in
\* a batch or an explicit advance, or is in the range of an audit record.
NothingSkippedSilently ==
    \A e \in 1..lcur : e \in audited \/ \E a \in Accounts : e \in Covered(a)

\* A batch that is about to be sent holds only events recorded after its account
\* took the consumer over: a pending body never crosses a change of owner.
BodyWithinOwnership ==
    Step("send") /\ op.rec.t = "batch" =>
        /\ owner = Me
        /\ op.rec.first > floor

\* A batch that is about to be sent, in a process that may have started with
\* another configuration than the one that built it, holds no content and no
\* event of a domain the configuration does not consent to.
SentUnderConsent ==
    Step("send") /\ op.rec.t = "batch" =>
        /\ op.rec.why = "content" => config = "content"
        /\ config = "off" => \A e \in op.rec.first..op.rec.last : kind[e] = "system"

\* Lost registration answers and crashes leave one agent of an account at the server.
OneAgentPerAccount == \A a \in Accounts : Cardinality(agents[a]) <= 1

\* The service runs only after the cutover: the retired credential and the
\* transport rows of the retired origin are gone.
NoServiceBeforeCutover ==
    mode \in {"off", "run", "handoff", "stopping", "closed"} => ~legacy /\ ~oldRows

\* The two cursors are apart only for a reason the client knows: the checks
\* "cursors diverged" of syncAccount and recoverPendingBatch never fail.
CursorsNeverDiverge == ~diverged

\* A signed-in account is caught up in the end: the server has acknowledged
\* every event, the consumer is at the tail and nothing is pending.
CatchesUp ==
    \A a \in Accounts :
        <>[](session # None /\ session[1] = a) =>
        <>[](Ack(a) = tail /\ lcur = tail /\ batch[a] = None /\ advance[a] = None)

\* A stop ends: the operation under way is aborted and drained.
StopDrains == mode = "stopping" ~> mode # "stopping"
=============================================================================
