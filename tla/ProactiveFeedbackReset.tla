------------------------- MODULE ProactiveFeedbackReset -------------------------
(***************************************************************************)
(* ProactiveFeedbackRuntime (src/bun/proactive-feedback-runtime.ts) and the *)
(* policy, clear and reset journals of the encrypted repository, for one    *)
(* account: the user turns proactive feedback on and off and erases its     *)
(* data while sessions rotate, the process crashes and the pipeline's own   *)
(* writes are under way. Operations are serialised; a serialised operation  *)
(* is the sequence of its awaited steps, and anything may happen between    *)
(* two of them. The feature's capability is constantly available            *)
(* (index.ts), so its absence is left out.                                  *)
(***************************************************************************)
EXTENDS Integers, Sequences, FiniteSets

CONSTANTS
    Items,      \* pieces of evidence that become windows, streams, runs, history
    MaxEpoch,   \* clears and resets (bound)
    MaxFaults,  \* awaited steps that fail (bound)
    MaxCrashes  \* process exits (bound)

ResetBounds == MaxEpoch \in Nat /\ MaxFaults \in Nat /\ MaxCrashes \in Nat

VARIABLES
    journal,   \* the clear journal, the pending-reset journal, or neither
    epoch,     \* proactive_feedback_clear_epochs
    enabled,   \* the saved policy
    where,     \* the stores that hold something of an item
    inWrite,   \* archive writes under way: the epoch captured before the awaits
    active,    \* runs under way: the epoch in the run's record
    owed,      \* committed results whose presentation callback is still due
    shown,     \* what the pet shows
    cloud,     \* Reflection's durable owner is the account
    delivery,  \* the delivery service runs
    mem,       \* the runtime's fields and the published session
    op,        \* the operation on the serial tail
    auth,      \* the session transition RemoteAuthSession is in
    born,      \* (history variable) the epoch an item was collected in
    done,      \* (history variable) the epochs of the last completed clear and reset
    used       \* how much of each bound a behaviour has used

data == <<where, inWrite, active, owed, shown>>
vars == <<journal, epoch, enabled, data, cloud, delivery, mem, op, auth, born, done, used>>

\* Session identities are reused once the older session is gone.
Ids == 1..2
IdOrNone == 0..2
Stores == {"reflection", "ledger", "stream", "run", "history"}
Pending == {"reflection", "ledger", "stream"}
Epochs == 0..MaxEpoch
NoEpoch == 0 - 1

Idle == [kind |-> "idle", id |-> 0, todo |-> <<>>, failed |-> FALSE, repaired |-> FALSE]
Fresh == [session |-> 0, candidate |-> 0, prepared |-> 0, owner |-> 0,
          desired |-> FALSE, satisfied |-> FALSE]

ResetTypeOK ==
    /\ journal \in {"none", "clear", "reset"}
    /\ epoch \in Epochs
    /\ enabled \in BOOLEAN
    /\ where \in [Items -> SUBSET Stores]
    /\ inWrite \in [Items -> Epochs \cup {NoEpoch}]
    /\ active \in [Items -> Epochs \cup {NoEpoch}]
    /\ owed \subseteq Items /\ shown \subseteq Items
    /\ cloud \in BOOLEAN /\ delivery \in BOOLEAN
    /\ mem \in [session : IdOrNone, candidate : IdOrNone, prepared : IdOrNone,
                owner : IdOrNone, desired : BOOLEAN, satisfied : BOOLEAN]
    /\ op.kind \in {"idle", "prepare", "ready", "on", "off", "clear", "out",
                    "failPrepare", "failReady", "cleanup"}
    /\ auth \in [id : IdOrNone,
                 stage : {"none", "prepare", "publish", "ready", "out",
                          "failPrepare", "failReady"}]
    /\ born \in [Items -> Epochs \cup {NoEpoch}]
    /\ done \in [clear : Epochs, reset : Epochs]
    /\ used \in [faults : 0..MaxFaults, crashes : 0..MaxCrashes]

Init ==
    /\ journal = "none" /\ epoch = 0 /\ enabled = TRUE
    /\ where = [w \in Items |-> {}]
    /\ inWrite = [w \in Items |-> NoEpoch] /\ active = [w \in Items |-> NoEpoch]
    /\ owed = {} /\ shown = {}
    /\ cloud = FALSE /\ delivery = FALSE
    /\ mem = Fresh /\ op = Idle
    /\ auth = [id |-> 0, stage |-> "none"]
    /\ born = [w \in Items |-> NoEpoch]
    /\ done = [clear |-> 0, reset |-> 0]
    /\ used = [faults |-> 0, crashes |-> 0]

----------------------------------------------------------------------------
(* The pipeline: each write carries the epoch it was started in *)

\* Mutant: a write is accepted in whatever epoch it was started.
Accepting_AnyEpoch(e) == journal = "none" /\ enabled

\* assertProactiveFeedbackEpochAccepting, policy included
Accepting(e) == journal = "none" /\ epoch = e /\ enabled

\* Reflection collects evidence for its durable owner.
Collect(w) ==
    /\ cloud /\ born[w] = NoEpoch
    /\ where' = [where EXCEPT ![w] = {"reflection"}]
    /\ born' = [born EXCEPT ![w] = epoch]
    /\ UNCHANGED <<journal, epoch, enabled, inWrite, active, owed, shown, cloud,
                   delivery, mem, op, auth, done, used>>

Pipeline == UNCHANGED <<journal, epoch, enabled, cloud, delivery, mem, op, auth,
                        born, done, used>>

HandOff(w) ==
    /\ delivery /\ "reflection" \in where[w]
    /\ where' = [where EXCEPT ![w] = (@ \ {"reflection"}) \cup {"ledger"}]
    /\ UNCHANGED <<inWrite, active, owed, shown>> /\ Pipeline

\* archiveProactiveFeedbackEventStream up to its encryption
StartArchive(w) ==
    /\ delivery /\ "ledger" \in where[w] /\ inWrite[w] = NoEpoch
    /\ journal = "none"
    /\ inWrite' = [inWrite EXCEPT ![w] = epoch]
    /\ UNCHANGED <<where, active, owed, shown>> /\ Pipeline

\* ... and its transaction, which the end of a delivery service does not stop.
Archive(w) ==
    /\ inWrite[w] # NoEpoch
    /\ inWrite' = [inWrite EXCEPT ![w] = NoEpoch]
    /\ where' = IF Accepting(inWrite[w])
                THEN [where EXCEPT ![w] = (@ \ {"ledger"}) \cup {"stream"}]
                ELSE where
    /\ UNCHANGED <<active, owed, shown>> /\ Pipeline

\* The coordinator starts a run for a stream.
StartRun(w) ==
    /\ delivery /\ "stream" \in where[w] /\ active[w] = NoEpoch /\ Accepting(epoch)
    /\ active' = [active EXCEPT ![w] = epoch]
    /\ UNCHANGED <<where, inWrite, owed, shown>> /\ Pipeline

\* putRun of a run that may have been cancelled since.
PutRun(w) ==
    /\ active[w] # NoEpoch /\ Accepting(active[w]) /\ "run" \notin where[w]
    /\ where' = [where EXCEPT ![w] = @ \cup {"run"}]
    /\ UNCHANGED <<inWrite, active, owed, shown>> /\ Pipeline

\* The run's end: the history row and the consumed stream in one transaction, the
\* presentation callback afterwards; or no result.
FinishRun(w) ==
    /\ active[w] # NoEpoch
    /\ active' = [active EXCEPT ![w] = NoEpoch]
    /\ \/ /\ Accepting(active[w]) /\ {"run", "stream"} \subseteq where[w]
          /\ where' = [where EXCEPT ![w] = (@ \ {"stream"}) \cup {"history"}]
          /\ owed' = owed \cup {w}
       \/ UNCHANGED <<where, owed>>
    /\ UNCHANGED <<inWrite, shown>> /\ Pipeline

\* isPresentationAllowed. A result from before the owner was published is never
\* shown (presentationNotBeforeMs).
Present(w) ==
    /\ w \in owed /\ owed' = owed \ {w}
    /\ shown' = IF /\ mem.owner # 0 /\ mem.owner = mem.session
                   /\ mem.candidate = mem.owner /\ mem.prepared = mem.owner
                THEN shown \cup {w} ELSE shown
    /\ UNCHANGED <<where, inWrite, active>> /\ Pipeline

----------------------------------------------------------------------------
(* The step sequences of the operations *)

\* finishPendingReset and finishPendingClear: every store is tried, and the
\* journal is completed only if none failed.
ResetSteps == <<"pet", "cut", "stopClear", "discard", "dropPending", "handoffs",
                "allCleared", "resetDone">>
ClearSteps == <<"pet", "cut", "stopClear", "discard", "handoffs", "erase",
                "allCleared", "clearDone">>

\* prepareSessionActivationInSerial
PrepareSteps == <<"petBarrier", "cutBarrier", "finishClear", "finishReset", "eligible">>

\* activateOwnerAndStartDelivery
ActivateSteps == <<"activate", "cutOn", "publishOwner", "deliver">>

RevokedIn(m) == [m EXCEPT !.owner = 0, !.desired = FALSE]

\* op goes on with more steps before the rest of its own.
Push(o, steps) == [o EXCEPT !.todo = steps \o Tail(o.todo)]
Pop(o) == Push(o, <<>>)

Fault == used.faults < MaxFaults /\ used' = [used EXCEPT !.faults = @ + 1]

\* An operation that throws. The two hooks of RemoteAuthSession contain what is
\* not a barrier's failure, and fail closed in an operation of their own.
Throw(m, barrier) ==
    /\ op' = Idle
    /\ mem' = IF op.kind \in {"prepare", "ready"} /\ ~barrier /\ m.prepared = op.id
              THEN [m EXCEPT !.prepared = 0] ELSE m
    /\ auth' = IF auth.id # op.id THEN auth
               ELSE [auth EXCEPT !.stage =
                       CASE op.kind = "prepare" -> IF barrier THEN "none" ELSE "failPrepare"
                         [] op.kind = "ready" -> "failReady"
                         [] op.kind = "failPrepare" -> "none"
                         [] op.kind = "failReady" -> "out"
                         [] OTHER -> @]

\* An operation that ends.
End ==
    /\ op.kind # "idle" /\ op.todo = <<>>
    /\ op' = Idle
    /\ auth' = IF auth.id # op.id THEN auth
               ELSE [auth EXCEPT !.stage =
                       IF op.kind \in {"prepare", "failPrepare"} THEN "publish"
                       ELSE IF op.kind \in {"ready", "failReady", "out"} THEN "none"
                       ELSE @]
    /\ UNCHANGED <<journal, epoch, enabled, data, cloud, delivery, mem, born, done, used>>

At(step) == op.todo # <<>> /\ Head(op.todo) = step

----------------------------------------------------------------------------
(* Steps that every operation shares *)

\* clearPetPresentation and cutoverCloudOwner(null), tried or required.
OwnerStep ==
    /\ \/ /\ At("pet") \/ At("petBarrier")
          /\ shown' = {} /\ UNCHANGED cloud
       \/ /\ At("cut") \/ At("cutBarrier")
          /\ cloud' = FALSE /\ UNCHANGED shown
    /\ op' = Pop(op)
    /\ UNCHANGED <<journal, epoch, enabled, where, inWrite, active, owed, delivery,
                   mem, auth, born, done, used>>

\* stopDelivery, with or without the ledger; the coordinator's runs; the stores.
DataStep ==
    /\ \/ /\ At("stop") \/ At("stopClear")
          /\ delivery' = FALSE
          /\ where' = IF At("stop") THEN where
                      ELSE [w \in Items |-> where[w] \ {"ledger"}]
       \/ /\ At("discard")
          /\ where' = [w \in Items |-> IF "history" \in where[w] THEN where[w]
                                       ELSE where[w] \ {"run"}]
          /\ UNCHANGED delivery
       \/ /\ At("dropPending") /\ journal = "reset"
          /\ where' = [w \in Items |-> IF "history" \in where[w] THEN where[w] \ {"stream"}
                                       ELSE where[w] \ {"stream", "run"}]
          /\ UNCHANGED delivery
       \/ /\ At("handoffs")
          /\ where' = [w \in Items |-> where[w] \ {"reflection"}]
          /\ UNCHANGED delivery
       \/ /\ At("erase")
          /\ where' = [w \in Items |-> where[w] \ {"stream", "run", "history"}]
          /\ UNCHANGED delivery
    /\ op' = Pop(op)
    /\ UNCHANGED <<journal, epoch, enabled, inWrite, active, owed, shown, cloud, mem,
                   auth, born, done, used>>

\* A tried step that fails is remembered; a required one throws.
StepFails ==
    /\ Fault
    /\ \/ /\ \E s \in {"pet", "cut", "stop", "stopClear", "discard", "dropPending",
                       "handoffs", "erase"} : At(s)
          /\ op' = [Pop(op) EXCEPT !.failed = TRUE]
          /\ UNCHANGED <<mem, auth>>
       \/ /\ At("petBarrier") /\ Throw(RevokedIn(mem), TRUE)
       \/ /\ At("cutBarrier")
          /\ Throw(RevokedIn(mem), op.kind # "prepare")
    /\ UNCHANGED <<journal, epoch, enabled, data, cloud, delivery, born, done>>

AllCleared ==
    /\ At("allCleared")
    /\ IF op.failed THEN Throw(mem, FALSE)
       ELSE op' = Pop(op) /\ UNCHANGED <<mem, auth>>
    /\ UNCHANGED <<journal, epoch, enabled, data, cloud, delivery, born, done, used>>

\* completeProactiveFeedbackPendingReset and completeProactiveFeedbackClear
Complete ==
    /\ At("resetDone") \/ At("clearDone")
    /\ journal' = IF journal = (IF At("resetDone") THEN "reset" ELSE "clear")
                  THEN "none" ELSE journal
    /\ IF At("resetDone")
       THEN done' = [done EXCEPT !.reset = epoch] /\ mem' = [mem EXCEPT !.satisfied = TRUE]
       ELSE done' = [done EXCEPT !.clear = epoch] /\ UNCHANGED mem
    /\ op' = [Pop(op) EXCEPT !.repaired = At("resetDone")]
    /\ UNCHANGED <<epoch, enabled, data, cloud, delivery, auth, born, used>>

\* beginProactiveFeedbackClear and beginProactiveFeedbackPendingReset, followed by
\* what they are begun for. A clear takes over an unfinished reset in its epoch.
Begin ==
    /\ \/ /\ At("beginClear")
          /\ journal = "none" => epoch < MaxEpoch
          /\ epoch' = IF journal = "none" THEN epoch + 1 ELSE epoch
          /\ journal' = "clear"
          /\ op' = Push(op, ClearSteps)
       \/ /\ At("beginReset") /\ journal # "clear"
          /\ journal = "none" => epoch < MaxEpoch
          /\ epoch' = IF journal = "none" THEN epoch + 1 ELSE epoch
          /\ journal' = "reset"
          /\ op' = Push(op, ResetSteps)
    /\ mem' = RevokedIn(mem)
    /\ UNCHANGED <<enabled, data, cloud, delivery, auth, born, done, used>>

\* The interrupted clear and the interrupted reset of an earlier operation.
Repair ==
    /\ \/ /\ At("finishClear")
          /\ op' = IF journal = "clear" THEN Push(op, ClearSteps) ELSE Pop(op)
          /\ mem' = IF journal = "clear" THEN RevokedIn(mem) ELSE mem
       \/ /\ At("finishReset")
          /\ op' = IF journal = "reset" THEN Push(op, ResetSteps) ELSE Pop(op)
          /\ mem' = IF journal = "reset" THEN RevokedIn(mem) ELSE mem
    /\ UNCHANGED <<journal, epoch, enabled, data, cloud, delivery, auth, born, done, used>>

----------------------------------------------------------------------------
(* Steps of one operation *)

Local == UNCHANGED <<journal, epoch, enabled, data, cloud, delivery, born, done, used>>

\* The end of a preparation: a disabled policy is enforced again unless this
\* preparation has just repaired it; otherwise the old session's delivery stops.
Eligible ==
    /\ At("eligible")
    /\ op' = Push(op, IF enabled THEN <<"stop", "markPrepared">>
                      ELSE IF op.repaired THEN <<"markPrepared">>
                      ELSE <<"beginReset", "markPrepared">>)
    /\ UNCHANGED <<mem, auth>> /\ Local

MarkPrepared ==
    /\ At("markPrepared")
    /\ op' = Pop(op)
    /\ mem' = [mem EXCEPT !.prepared = op.id, !.candidate = op.id]
    /\ UNCHANGED auth /\ Local

\* assertSession, and assertActivationCandidate
Current == mem.session = op.id
IsCandidate == mem.candidate \in {0, op.id}

Assert ==
    /\ \/ At("assert") /\ IF Current THEN op' = Pop(op) /\ UNCHANGED <<mem, auth>>
                          ELSE Throw(mem, FALSE)
       \/ At("assertBoth") /\ IF Current /\ IsCandidate
                              THEN op' = Pop(op) /\ UNCHANGED <<mem, auth>>
                              ELSE Throw(mem, FALSE)
    /\ Local

\* sessionReady after its repairs, and setPolicy's end.
AfterRepair ==
    /\ At("serve")
    /\ op' = Push(op, IF enabled
                      THEN IF ~mem.desired \/ mem.owner # op.id THEN ActivateSteps
                           ELSE IF op.kind = "ready" THEN <<"deliver">> ELSE <<>>
                      ELSE IF mem.satisfied THEN <<>> ELSE <<"beginReset">>)
    /\ UNCHANGED <<mem, auth>> /\ Local

\* setPolicy(enabled = true) before its write: a preparation this session never
\* had, an unfinished reset, or the repair that every enabling begins with.
PrepareEnable ==
    /\ At("prepareEnable")
    /\ op' = Push(op,
         (IF enabled /\ mem.prepared # op.id THEN PrepareSteps \o <<"assert">> ELSE <<>>)
         \o (IF ~enabled THEN <<"beginReset", "assert", "markPrepared">>
             ELSE IF journal = "reset" THEN <<"finishReset", "assert", "markPrepared">>
             ELSE <<>>))
    /\ UNCHANGED <<mem, auth>> /\ Local

\* The write of the policy. A disabling revokes the presentation before it, and
\* gives it back if the write fails.
WritePolicy ==
    /\ At("write")
    /\ IF ~(Current /\ IsCandidate)
       THEN Throw(mem, FALSE) /\ UNCHANGED <<enabled, cloud, used, owed>>
       ELSE \/ /\ enabled' = (op.kind = "on")
               /\ op' = Pop(op)
               /\ mem' = IF op.kind = "off" THEN [mem EXCEPT !.owner = 0] ELSE mem
               /\ UNCHANGED <<cloud, auth, used, owed>>
            \/ /\ Fault /\ UNCHANGED enabled
               /\ IF op.kind = "on" /\ ~enabled
                  THEN cloud' = FALSE /\ Throw(RevokedIn(mem), FALSE) /\ UNCHANGED owed
                  ELSE IF op.kind = "off" /\ enabled /\ mem.candidate = op.id
                          /\ mem.prepared = op.id /\ mem.desired
                  THEN /\ Throw([mem EXCEPT !.owner = op.id], FALSE)
                       /\ owed' = {} /\ UNCHANGED cloud
                  ELSE Throw(mem, FALSE) /\ UNCHANGED <<cloud, owed>>
    /\ UNCHANGED <<journal, epoch, where, inWrite, active, shown, delivery, born, done>>

\* activateOwner: revoke, the durable cutover, and only then the owner.
ActivationFails(m) ==
    /\ mem' = RevokedIn(IF m.prepared = op.id THEN [m EXCEPT !.prepared = 0] ELSE m)
    /\ op' = [op EXCEPT !.todo = <<"pet", "cut", "stop", "rethrow">>]
    /\ UNCHANGED auth

Activate ==
    /\ At("activate")
    /\ IF Current /\ IsCandidate /\ mem.prepared = op.id
       THEN op' = Pop(op) /\ mem' = RevokedIn(mem) /\ UNCHANGED auth
       ELSE ActivationFails(mem)
    /\ Local

CutOn ==
    /\ At("cutOn")
    /\ \/ /\ cloud' = TRUE /\ op' = Pop(op) /\ UNCHANGED <<mem, auth, used>>
       \/ Fault /\ ActivationFails(mem) /\ UNCHANGED cloud
    /\ UNCHANGED <<journal, epoch, enabled, data, delivery, born, done>>

PublishOwner ==
    /\ At("publishOwner")
    /\ IF Current
       THEN /\ mem' = [mem EXCEPT !.owner = op.id, !.desired = TRUE, !.satisfied = FALSE]
            /\ owed' = {}
            /\ op' = Pop(op) /\ UNCHANGED <<cloud, auth>>
       ELSE /\ cloud' = FALSE /\ ActivationFails(mem) /\ UNCHANGED owed
    /\ UNCHANGED <<journal, epoch, enabled, where, inWrite, active, shown, delivery,
                   born, done, used>>

Deliver ==
    /\ At("deliver")
    /\ \/ /\ Current /\ IsCandidate /\ mem.prepared = op.id
          /\ delivery' = TRUE /\ op' = Pop(op) /\ UNCHANGED <<mem, auth, used>>
       \/ /\ ~(Current /\ IsCandidate /\ mem.prepared = op.id)
          /\ ActivationFails(mem) /\ UNCHANGED <<delivery, used>>
       \/ Fault /\ ActivationFails(mem) /\ UNCHANGED delivery
    /\ UNCHANGED <<journal, epoch, enabled, data, cloud, born, done>>

Rethrow == At("rethrow") /\ Throw(mem, FALSE) /\ Local

\* cleanupProactiveFeedback: expired history with its stream and run, and runs
\* that neither have a result nor are protected.
Cleanup ==
    /\ At("cleanup")
    /\ \E old \in SUBSET {w \in Items : "run" \in where[w] /\ active[w] = NoEpoch} :
         where' = [w \in Items |-> IF w \in old THEN where[w] \ {"history", "run"}
                                   ELSE where[w]]
    /\ op' = Pop(op)
    /\ UNCHANGED <<journal, epoch, enabled, inWrite, active, owed, shown, cloud,
                   delivery, mem, auth, born, done, used>>

----------------------------------------------------------------------------
(* Operations, sessions, crashes *)

Start(kind, id, steps, m) ==
    /\ op.kind = "idle"
    /\ op' = [Idle EXCEPT !.kind = kind, !.id = id, !.todo = steps]
    /\ mem' = m

\* onBeforeSessionActivate for a new session, while the old one may be live.
Prepare(id) ==
    /\ auth.stage = "none" /\ id # mem.session
    /\ Start("prepare", id, PrepareSteps,
             [RevokedIn(mem) EXCEPT !.candidate = id, !.prepared = 0])
    /\ auth' = [id |-> id, stage |-> "prepare"]
    /\ Local

\* The session is published; onSessionActivated follows.
Publish ==
    /\ auth.stage = "publish"
    /\ mem' = [mem EXCEPT !.session = auth.id]
    /\ auth' = [auth EXCEPT !.stage = "ready"]
    /\ UNCHANGED op /\ Local

\* sessionReady: a newer activation makes it stale, and what its preparation did
\* not finish is done again.
Ready ==
    /\ auth.stage = "ready"
    /\ LET again == mem.prepared # auth.id IN
       Start("ready", auth.id,
             IF ~(mem.candidate \in {0, auth.id}) THEN <<>>
             ELSE (IF again THEN PrepareSteps \o <<"assert">> ELSE <<>>)
                  \o <<"finishClear", "finishReset", "assert", "serve", "assert", "cleanup">>,
             IF again THEN [RevokedIn(mem) EXCEPT !.candidate = auth.id] ELSE mem)
    /\ UNCHANGED auth /\ Local

\* failClosedAfterAuthFailure of either hook.
FailClosed ==
    /\ \/ /\ auth.stage = "failPrepare"
          /\ Start("failPrepare", auth.id, <<"cutBarrier", "stop">>, RevokedIn(mem))
       \/ /\ auth.stage = "failReady" /\ mem.session = auth.id
          /\ Start("failReady", auth.id, <<"petBarrier", "cutBarrier", "stop">>,
                   RevokedIn(mem))
       \/ /\ auth.stage = "failReady" /\ mem.session # auth.id
          /\ Start("failReady", auth.id, <<>>, mem)
    /\ UNCHANGED auth /\ Local

\* A sign-out, an expiry or a revoked activation ends the session at once; the
\* owner is cleared when the serial tail gets there.
EndSession ==
    /\ mem.session # 0 \/ auth.stage # "none"
    /\ mem' = [mem EXCEPT !.session = 0]
    /\ auth' = [id |-> 0, stage |-> "out"]
    /\ UNCHANGED op /\ Local

ClearOwner ==
    /\ auth.stage = "out"
    /\ Start("out", auth.id, <<"pet", "cut">>,
             [RevokedIn(mem) EXCEPT !.candidate = 0, !.prepared = 0, !.session = 0])
    /\ UNCHANGED auth /\ Local

\* The user's operations, for the session that is live when they are started.
SetPolicy(on) ==
    /\ mem.session # 0
    /\ Start(IF on THEN "on" ELSE "off", mem.session,
             <<"assertBoth", "finishClear", "assert">>
             \o (IF on THEN <<"prepareEnable", "write", "assert", "serve">>
                 ELSE <<"write", "beginReset">>)
             \o <<"assert", "cleanup">>, mem)
    /\ UNCHANGED auth /\ Local

ClearData ==
    /\ mem.session # 0 /\ mem.candidate \in {0, mem.session}
    /\ Start("clear", mem.session,
             <<"beginClear", "assertBoth", "markPrepared", "reactivate">>, RevokedIn(mem))
    /\ UNCHANGED auth /\ Local

\* clearData's end: the owner comes back if the policy still allows it.
Reactivate ==
    /\ At("reactivate")
    /\ op' = Push(op, IF enabled THEN ActivateSteps ELSE <<>>)
    /\ UNCHANGED <<mem, auth>> /\ Local

\* The process exits and is started again; Reflection comes up anonymous.
Crash ==
    /\ used.crashes < MaxCrashes
    /\ used' = [used EXCEPT !.crashes = @ + 1]
    /\ mem' = Fresh /\ op' = Idle /\ auth' = [id |-> 0, stage |-> "none"]
    /\ inWrite' = [w \in Items |-> NoEpoch] /\ active' = [w \in Items |-> NoEpoch]
    /\ owed' = {} /\ shown' = {} /\ cloud' = FALSE /\ delivery' = FALSE
    /\ UNCHANGED <<journal, epoch, enabled, where, born, done>>

----------------------------------------------------------------------------

Step ==
    \/ OwnerStep \/ DataStep \/ AllCleared \/ Complete \/ Begin \/ Repair
    \/ Eligible \/ MarkPrepared \/ Assert \/ AfterRepair \/ PrepareEnable
    \/ WritePolicy \/ Activate \/ CutOn \/ PublishOwner \/ Deliver \/ Rethrow
    \/ Cleanup \/ Reactivate \/ End

Transition == Publish \/ Ready \/ FailClosed \/ ClearOwner

Next ==
    \/ \E w \in Items : \/ Collect(w) \/ HandOff(w) \/ StartArchive(w) \/ Archive(w)
                        \/ StartRun(w) \/ PutRun(w) \/ FinishRun(w) \/ Present(w)
    \/ Step \/ StepFails
    \/ Transition
    \/ \E id \in Ids : Prepare(id)
    \/ EndSession
    \/ \E on \in BOOLEAN : SetPolicy(on)
    \/ ClearData
    \/ Crash

Spec == Init /\ [][Next]_vars

\* Awaited steps go on. The serial tail is first in, first out, so a session's
\* operations are not passed over for ever (strong fairness); and somebody signs in
\* again and again.
FairSpec ==
    /\ Spec
    /\ WF_vars(Step) /\ SF_vars(Transition)
    /\ SF_vars(\E id \in Ids : Prepare(id))

----------------------------------------------------------------------------
(* Properties *)

\* Nothing collected before the last completed erasure is in any store or on the
\* pet: not by a write that was under way, not after a crash between two stores,
\* not through a session that came and went (finishPendingClear).
ErasedIsGone ==
    \A w \in Items : born[w] # NoEpoch /\ born[w] < done.clear =>
        where[w] = {} /\ w \notin shown

\* Turning the feature off, or on again, removes all that was not yet a result:
\* evidence from before the last completed reset never becomes one later.
ResetLeavesNoPending ==
    \A w \in Items : born[w] # NoEpoch /\ born[w] < done.reset =>
        where[w] \cap Pending = {} /\ ("run" \in where[w] => "history" \in where[w])

\* The owner is published only under a saved consent, with no erasure owed and
\* with Reflection's durable owner already switched (activateOwner).
OwnerHasConsent == mem.owner # 0 => enabled /\ journal = "none" /\ cloud

\* The pet is never given a new result without consent, while an erasure is owed,
\* or for a session that is not the published one (isPresentationAllowed).
ShownUnderConsentStep ==
     shown' \subseteq shown \/ (enabled /\ journal = "none" /\ mem.owner = mem.session)
ShownUnderConsent == [][ShownUnderConsentStep]_vars

\* An interrupted erasure or reset is finished as long as sessions are activated:
\* it survives crashes and failing stores.
JournalIsFinished == (journal # "none") ~> (journal = "none")
=============================================================================
