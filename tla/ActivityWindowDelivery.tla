------------------------ MODULE ActivityWindowDelivery ------------------------
(***************************************************************************)
(* The delivery service that sends sealed Reflection windows to the        *)
(* analyzer (ActivityWindowDeliveryService in                              *)
(* src/agent/activity-window-worker.ts), with the ports src/bun/index.ts   *)
(* gives it, and the end of the Reflection collector that feeds it         *)
(* (src/agent/reflection/collector.ts).                                    *)
(*                                                                         *)
(* A window travels through three databases: Reflection's attribution of   *)
(* the window to its cloud owner, the encrypted archive, and the ledger.   *)
(* The attribution is released last, and each step can be repeated after a *)
(* crash.                                                                  *)
(***************************************************************************)
EXTENDS ActivityAnalysisDispatcher, Sequences

VARIABLES
    source,   \* reflection_window_cloud_owners: windows not yet acknowledged
    sealed,   \* number of windows sealed so far
    notify,   \* the window whose enqueueWindow the collector awaits, or none
    tail,     \* operationTail: the queue of drains and enqueue operations
    dlv       \* the delivery service

delivery == <<source, sealed, notify, tail, dlv>>

NoWindow == 0
DrainOp == 0      \* in tail; any other element is a window to enqueue

Service ==
    [on : BOOLEAN,                  \* started
     pc : {"idle", "ackApplied", "recover", "ackConsumed", "analyze", "archive",
           "apply", "ack"},
     w : Windows \cup {NoWindow},   \* the window deliver() works on
     k : 0..(MaxSemanticAttempts - 1),
     score : Scores \cup {0},       \* of the response
     trig : BOOLEAN,                \* triggerBecamePending
     timer : BOOLEAN]               \* retryTimer is armed

DeliveryTypeOK ==
    /\ source \subseteq Windows
    /\ sealed \in 0..NumWindows
    /\ notify \in Windows \cup {NoWindow}
    /\ tail \in Seq(Windows \cup {DrainOp})
    /\ dlv \in Service

StoppedService ==
    [on |-> FALSE, pc |-> "idle", w |-> NoWindow, k |-> 0, score |-> 0,
     trig |-> FALSE, timer |-> FALSE]

DeliveryInit ==
    /\ source = {} /\ sealed = 0 /\ notify = NoWindow
    /\ tail = <<>>
    /\ dlv = StoppedService

----------------------------------------------------------------------------
(* Reflection: sealing and the notification of the service *)

\* kickDrain: at most one drain is queued or running.
Kicked(t) ==
    IF dlv.on /\ ~\E i \in 1..Len(t) : t[i] = DrainOp
    THEN Append(t, DrainOp) ELSE t

\* sealCandidate and sealWindow: the window and its attribution are one
\* transaction; then the collector awaits onWindowSealed, which fails at once
\* without a started service. enqueueWindow first waits for an activation under
\* way, and only then joins the operation queue.
SealWindow(activating) ==
    /\ sealed < NumWindows /\ notify = NoWindow
    /\ sealed' = sealed + 1
    /\ source' = source \cup {sealed + 1}
    /\ notify' = IF dlv.on THEN sealed + 1 ELSE NoWindow
    /\ tail' = IF dlv.on /\ ~activating THEN Append(tail, sealed + 1) ELSE tail
    /\ UNCHANGED <<dlv, ledger, encrypted, dispatch>>

\* The end of an activation kicks a drain, and then releases the notification
\* that waited for it.
AfterActivation ==
    IF notify = NoWindow THEN Kicked(tail) ELSE Append(Kicked(tail), notify)

\* A notification still queued when the service stops fails and is reported.
DropNotification ==
    /\ notify # NoWindow /\ ~dlv.on
    /\ tail # <<>> /\ Head(tail) = notify
    /\ tail' = Tail(tail) /\ notify' = NoWindow
    /\ UNCHANGED <<source, sealed, dlv, ledger, encrypted, dispatch>>

\* The queued operation: persistWindow, unless the session has changed.
RunEnqueue ==
    /\ tail # <<>> /\ Head(tail) # DrainOp /\ dlv.on
    /\ IF current THEN Enqueue(Head(tail)) ELSE UNCHANGED ledger
    /\ tail' = Kicked(Tail(tail))
    /\ notify' = NoWindow
    /\ UNCHANGED <<source, sealed, dlv, encrypted, dispatch>>

RetryTimerKicks ==
    /\ dlv.on /\ dlv.timer
    /\ dlv' = [dlv EXCEPT !.timer = FALSE]
    /\ tail' = Kicked(tail)
    /\ UNCHANGED <<source, sealed, notify, ledger, encrypted, dispatch>>

----------------------------------------------------------------------------
(* drain *)

Draining(pc) == tail # <<>> /\ Head(tail) = DrainOp /\ dlv.pc = pc

\* How deliver() returns: to the loop of drain, out of it, or out of it with a
\* retry armed.
NextInLoop(d) == [d EXCEPT !.pc = "idle", !.w = NoWindow, !.k = 0, !.score = 0,
                           !.trig = FALSE]
Continue == dlv' = NextInLoop(dlv) /\ UNCHANGED tail
EndDrain == dlv' = NextInLoop(dlv) /\ tail' = Tail(tail)
EndDrainAndRetry ==
    /\ dlv' = [NextInLoop(dlv) EXCEPT !.timer = dlv.on]
    /\ tail' = Tail(tail)
GoTo(pc) == dlv' = [dlv EXCEPT !.pc = pc] /\ UNCHANGED tail

\* The next window is not due, there is none, or the service or its session is over.
DrainStops ==
    /\ Draining("idle")
    /\ \/ (~dlv.on \/ ~current \/ Deliverable = {}) /\ EndDrain
       \/ /\ dlv.on /\ current
          /\ \E w \in Deliverable : IsNextWindow(w) /\ ~IsReady(w)
          /\ EndDrainAndRetry
    /\ UNCHANGED <<source, sealed, notify, ledger, encrypted, dispatch>>

\* A window whose receipt is durable only has to be acknowledged.
DeliverWindow ==
    /\ Draining("idle") /\ dlv.on /\ current
    /\ \E w \in Deliverable :
         /\ IsNextWindow(w) /\ IsReady(w)
         /\ dlv' = [dlv EXCEPT !.w = w, !.k = outbox[w].sem,
                      !.pc = IF receipts[w] # None THEN "ackApplied" ELSE "recover"]
    /\ UNCHANGED <<source, sealed, notify, tail, ledger, encrypted, dispatch>>

----------------------------------------------------------------------------
(* deliver *)

\* An exception that is neither semantic nor permanent.
Throws == DeferWindow(dlv.w) /\ EndDrainAndRetry

\* recoverArchivedAnalysis. An archived analysis is applied without another call
\* of the model; one that a completed run has consumed is only acknowledged.
RecoverArchived ==
    /\ Draining("recover") /\ current
    /\ IF ~HasArchive(dlv.w, dlv.k)
       THEN GoTo("analyze") /\ UNCHANGED ledger
       ELSE IF Consumed(dlv.w)
       THEN GoTo("ackConsumed") /\ UNCHANGED ledger
       ELSE /\ CanApply(dlv.w, dlv.k) /\ Apply(dlv.w, archive[dlv.w].score)
            /\ dlv' = [dlv EXCEPT !.pc = "ack", !.trig = job = None /\ job' # None]
            /\ UNCHANGED tail
    /\ UNCHANGED <<source, sealed, notify, encrypted, dispatch>>

\* An archive that cannot be decrypted or parsed makes the row terminal; any
\* other failed read is retried.
RecoverThrows ==
    /\ Draining("recover") /\ current /\ Fault
    /\ \/ MarkTerminal(dlv.w) /\ Continue
       \/ Throws
    /\ UNCHANGED <<source, sealed, notify, encrypted, live, dsp, session>>

\* A session that changed during an await ends the drain without a retry.
SessionChanged ==
    /\ \E pc \in {"recover", "apply"} : Draining(pc)
    /\ ~current
    /\ EndDrain
    /\ UNCHANGED <<source, sealed, notify, ledger, encrypted, dispatch>>

AnalyzeSucceeds ==
    /\ Draining("analyze")
    /\ IF current
       THEN /\ \E s \in Scores : dlv' = [dlv EXCEPT !.pc = "archive", !.score = s]
            /\ UNCHANGED tail
       ELSE EndDrain
    /\ UNCHANGED <<source, sealed, notify, ledger, encrypted, dispatch>>

\* A response outside its contract: a new request, or the end of the row after
\* the last attempt.
AnalyzeInvalid ==
    /\ Draining("analyze")
    /\ CanAdvance(dlv.w, dlv.k) /\ AdvanceSemanticAttempt(dlv.w)
    /\ IF outbox'[dlv.w].terminal THEN Continue ELSE EndDrainAndRetry
    /\ UNCHANGED <<source, sealed, notify, encrypted, dispatch>>

\* A transport failure is retried, a rejected request is not. A session change
\* aborts the call, and stopping the bundle closes the analyzer.
AnalyzeThrows ==
    /\ Draining("analyze")
    /\ \/ Fault /\ Throws
       \/ Fault /\ MarkTerminal(dlv.w) /\ Continue
       \/ ~current /\ UNCHANGED used /\ Throws
    /\ UNCHANGED <<source, sealed, notify, encrypted, live, dsp, session>>

\* Mutant: the source is acknowledged once the analysis is archived, before the
\* receipt.
ArchiveAnalysis_Acknowledges ==
    /\ Draining("archive") /\ current
    /\ CanArchive(dlv.w, dlv.k, dlv.score)
    /\ ArchiveEventStream(dlv.w, dlv.k, dlv.score)
    /\ source' = source \ {dlv.w}
    /\ GoTo("apply")
    /\ UNCHANGED <<sealed, notify, ledger, dispatch>>

\* archiveAnalysisBeforeReceipt
ArchiveAnalysis ==
    /\ Draining("archive") /\ current
    /\ CanArchive(dlv.w, dlv.k, dlv.score)
    /\ ArchiveEventStream(dlv.w, dlv.k, dlv.score)
    /\ GoTo("apply")
    /\ UNCHANGED <<source, sealed, notify, ledger, dispatch>>

ArchiveThrows ==
    /\ Draining("archive")
    /\ ~current \/ ~CanArchive(dlv.w, dlv.k, dlv.score)
    /\ Throws
    /\ UNCHANGED <<source, sealed, notify, encrypted, dispatch>>

\* The receipt and the score, in one transaction.
ApplyAnalysis ==
    /\ Draining("apply") /\ current
    /\ CanApply(dlv.w, dlv.k) /\ Apply(dlv.w, dlv.score)
    /\ dlv' = [dlv EXCEPT !.pc = "ack", !.trig = job = None /\ job' # None]
    /\ UNCHANGED <<source, sealed, notify, tail, encrypted, dispatch>>

Acknowledging == \E pc \in {"ackApplied", "ackConsumed", "ack"} : Draining(pc)

\* acknowledgeSourceAfterReceipt and, with the session still current, the
\* deletion of the outbox row. The dispatcher is woken when the receipt made
\* its job, or when a recovered receipt finds a trigger pending.
AcknowledgeSource ==
    /\ Acknowledging /\ current
    /\ IF dlv.pc = "ackConsumed"
       THEN CanAcknowledgeConsumed(dlv.w, dlv.k)
       ELSE CanAcknowledgeApplied(dlv.w, dlv.k)
    /\ source' = source \ {dlv.w}
    /\ DeleteOutbox(dlv.w)
    /\ dsp' = IF \/ dlv.pc = "ack" /\ dlv.trig
                 \/ dlv.pc = "ackApplied" /\ trigger
              THEN Woken(dsp) ELSE dsp
    /\ Continue
    /\ UNCHANGED <<sealed, notify, encrypted, live, session, used>>

\* Mutant: a failed acknowledgement counts as a semantic failure.
AcknowledgeThrows_NewRequest ==
    /\ Acknowledging
    /\ \/ ~current /\ UNCHANGED used
       \/ Fault
    /\ AdvanceSemanticAttempt(dlv.w) /\ EndDrainAndRetry
    /\ UNCHANGED <<source, sealed, notify, encrypted, live, dsp, session>>

AcknowledgeThrows ==
    /\ Acknowledging
    /\ \/ ~current /\ UNCHANGED used
       \/ Fault
    /\ Throws
    /\ UNCHANGED <<source, sealed, notify, encrypted, live, dsp, session>>
=============================================================================
