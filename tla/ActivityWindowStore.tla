------------------------- MODULE ActivityWindowStore -------------------------
(***************************************************************************)
(* The account's activity-window ledger: the SQLite database owned by      *)
(* ActivityWindowDeliveryStore (src/agent/activity-window-worker.ts).      *)
(*                                                                         *)
(* Every method of that class is one synchronous SQLite transaction, so    *)
(* each is one action here; a method that throws leaves every table as it  *)
(* was, so the condition under which it does not throw is the action's     *)
(* guard, named CanXxx where a caller has to catch the exception.          *)
(*                                                                         *)
(* Windows are numbered in the order in which Reflection seals them. The   *)
(* request id of window w at semantic attempt k is the pair <<w, k>>, of   *)
(* which the tables only need k. Times are abstracted: queued_at_ms and    *)
(* received_at_ms to the rank they give among the stored rows, and         *)
(* next_attempt_at_ms to the Boolean due.                                  *)
(***************************************************************************)
EXTENDS Integers, FiniteSets, FiniteSetsExt, Functions

CONSTANTS
    NumWindows,           \* windows sealed in a behaviour (bound)
    Scores,               \* scores an analysis may carry, scaled to Naturals
    ScoreThreshold,       \* accumulated score at which a job is made
    MaxSemanticAttempts,  \* MAXIMUM_ACTIVITY_WINDOW_SEMANTIC_ATTEMPTS
    MaxJobResults,        \* MAXIMUM_ACTIVITY_ANALYSIS_RESULTS
    MaxRuns               \* Agent runs claimed in a behaviour (bound)

ASSUME StoreConstants ==
    /\ NumWindows \in Nat \ {0}
    /\ Scores \subseteq Nat
    /\ ScoreThreshold \in Nat \ {0}
    /\ MaxSemanticAttempts \in Nat \ {0}
    /\ MaxJobResults \in Nat \ {0}
    /\ MaxRuns \in Nat \ {0}

Windows == 1..NumWindows
RunIds == 1..MaxRuns
NoRun == 0
None == [none |-> TRUE]      \* an absent row

VARIABLES
    outbox,    \* activity_window_worker_outbox, by window_id
    receipts,  \* activity_window_worker_receipts, by source_window_id
    score,     \* activity_window_worker_state.accumulated_score
    trigger,   \* activity_window_worker_state.trigger_pending
    job        \* the one row of activity_window_worker_agent_jobs, with the
               \* windows whose receipts job_receipts assigns to it

ledger == <<outbox, receipts, score, trigger, job>>

OutboxRow ==
    [sem : 0..(MaxSemanticAttempts - 1), terminal : BOOLEAN,
     due : BOOLEAN, at : Nat]

ReceiptRow == [sem : 0..(MaxSemanticAttempts - 1), score : Scores, at : Nat]

JobRow ==
    [status : {"pending", "running", "retry_wait"}, run : RunIds \cup {NoRun},
     windows : SUBSET Windows, consumed : Nat, attempt : Nat, req : Nat,
     terminal : BOOLEAN, due : BOOLEAN]

LedgerTypeOK ==
    /\ outbox \in [Windows -> OutboxRow \cup {None}]
    /\ receipts \in [Windows -> ReceiptRow \cup {None}]
    /\ score \in Nat
    /\ trigger \in BOOLEAN
    /\ job \in JobRow \cup {None}

LedgerInit ==
    /\ outbox = [w \in Windows |-> None]
    /\ receipts = [w \in Windows |-> None]
    /\ score = 0
    /\ trigger = FALSE
    /\ job = None

Queued == {w \in Windows : outbox[w] # None}
Received == {w \in Windows : receipts[w] # None}
ScoreIn(rows, S) == MapThenSumSet(LAMBDA w : rows[w].score, S)
TotalScore(S) == ScoreIn(receipts, S)

----------------------------------------------------------------------------
(* Outbox *)

\* enqueue: a window that already has a receipt or an outbox row is left alone.
\* A new row starts at semantic attempt 0 and is due at once.
Enqueue(w) ==
    /\ outbox' = IF outbox[w] = None /\ receipts[w] = None
                 THEN [outbox EXCEPT ![w] =
                        [sem |-> 0, terminal |-> FALSE, due |-> TRUE,
                         at |-> Max({outbox[v].at : v \in Queued} \cup {0}) + 1]]
                 ELSE outbox
    /\ UNCHANGED <<receipts, score, trigger, job>>

\* nextWindow: the oldest row that is not terminal, if any.
Deliverable == {w \in Queued : ~outbox[w].terminal}
IsNextWindow(w) ==
    /\ w \in Deliverable
    /\ \A v \in Deliverable : outbox[w].at <= outbox[v].at

\* A row whose receipt is durable is ready whatever its next attempt time.
IsReady(w) == outbox[w].due \/ receipts[w] # None

\* A retried row is no longer due until its backoff has elapsed.
CanDefer(w) == w \in Deliverable
DeferWindow(w) ==
    /\ outbox' = [outbox EXCEPT ![w].due = FALSE]
    /\ UNCHANGED <<receipts, score, trigger, job>>

\* Mutant: the last attempt is not recognised as the last.
AdvanceSemanticAttempt_OneTooMany(w) ==
    /\ outbox' = IF outbox[w].sem + 1 > MaxSemanticAttempts
                 THEN [outbox EXCEPT ![w].terminal = TRUE]
                 ELSE [outbox EXCEPT ![w].sem = @ + 1, ![w].due = FALSE]
    /\ UNCHANGED <<receipts, score, trigger, job>>

\* advanceSemanticAttempt: a new request id, until the last attempt is spent.
CanAdvance(w, k) == w \in Deliverable /\ outbox[w].sem = k
AdvanceSemanticAttempt(w) ==
    /\ outbox' = IF outbox[w].sem + 1 >= MaxSemanticAttempts
                 THEN [outbox EXCEPT ![w].terminal = TRUE]
                 ELSE [outbox EXCEPT ![w].sem = @ + 1, ![w].due = FALSE]
    /\ UNCHANGED <<receipts, score, trigger, job>>

MarkTerminal(w) ==
    /\ outbox' = [outbox EXCEPT ![w].terminal = TRUE]
    /\ UNCHANGED <<receipts, score, trigger, job>>

BackoffElapses(w) ==
    /\ w \in Queued /\ ~outbox[w].due
    /\ outbox' = [outbox EXCEPT ![w].due = TRUE]
    /\ UNCHANGED <<receipts, score, trigger, job>>

----------------------------------------------------------------------------
(* Agent jobs *)

\* The receipts a new job takes: the n oldest ones. A job only exists while
\* receipts are assigned to it, so with no job none is assigned.
Oldest(rows, n) ==
    LET all == {w \in Windows : rows[w] # None}
    IN {w \in all : Cardinality({v \in all : rows[v].at < rows[w].at}) < n}

\* Mutant: receipts that arrive while a job exists are added to that job.
Materialize_TopsUp(rows, total, existing) ==
    LET all == {w \in Windows : rows[w] # None}
        grown == [existing EXCEPT !.windows = all, !.consumed = total]
    IN IF existing # None
       THEN trigger' = TRUE /\ job' = grown
       ELSE IF total < ScoreThreshold
       THEN trigger' = FALSE /\ job' = None
       ELSE /\ trigger' = TRUE
            /\ job' = [status |-> "pending", run |-> NoRun, windows |-> all,
                       consumed |-> total, attempt |-> 0, req |-> 1,
                       terminal |-> FALSE, due |-> TRUE]

\* materializeActivityAnalysisJob, from the values the enclosing transaction
\* has already given to the receipts, the score and the job row. At most
\* MaxJobResults receipts are taken, fewer when the prompt budget is full.
Materialize(rows, total, existing) ==
    IF existing # None
    THEN trigger' = TRUE /\ job' = existing
    ELSE IF total < ScoreThreshold
    THEN trigger' = FALSE /\ job' = None
    ELSE \E n \in 1..MaxJobResults :
           LET chosen == Oldest(rows, n)
           IN /\ trigger' = TRUE
              /\ job' = [status |-> "pending", run |-> NoRun, windows |-> chosen,
                         consumed |-> ScoreIn(rows, chosen),
                         attempt |-> 0, req |-> 1, terminal |-> FALSE, due |-> TRUE]

\* apply, retaining the outbox row until the source is acknowledged.
CanApply(w, k) ==
    /\ w \in Queued /\ outbox[w].sem = k
    /\ receipts[w] # None => receipts[w].sem = k
Apply(w, s) ==
    IF receipts[w] # None
    THEN UNCHANGED ledger
    ELSE LET row == [sem |-> outbox[w].sem, score |-> s,
                     at |-> Max({receipts[v].at : v \in Received} \cup {0}) + 1]
             rows == [receipts EXCEPT ![w] = row]
         IN /\ receipts' = rows
            /\ score' = score + s
            /\ Materialize(rows, score + s, job)
            /\ UNCHANGED outbox

\* acknowledgeAppliedWindow and acknowledgeConsumedWindow.
CanAcknowledgeApplied(w, k) ==
    /\ receipts[w] # None /\ receipts[w].sem = k
    /\ outbox[w] # None => outbox[w].sem = k
CanAcknowledgeConsumed(w, k) ==
    outbox[w] # None => outbox[w].sem = k /\ receipts[w] = None
DeleteOutbox(w) ==
    /\ outbox' = [outbox EXCEPT ![w] = None]
    /\ UNCHANGED <<receipts, score, trigger, job>>

\* recoverActivityAnalysisJobs
RecoverJobs ==
    /\ Materialize(receipts, score, job)
    /\ UNCHANGED <<outbox, receipts, score>>

\* nextActivityAnalysisJob: nothing is dispatched while a window whose receipt
\* is durable still waits for its source acknowledgement.
HasPendingSourceAcknowledgement ==
    \E w \in Queued : receipts[w] # None /\ receipts[w].sem = outbox[w].sem
ActiveJob == job # None /\ ~job.terminal

\* Mutant: a job is dispatched without waiting for source acknowledgements.
NextJobKind_NoAckGate ==
    IF ~ActiveJob THEN "none"
    ELSE CASE job.status = "running" -> "running"
           [] job.status = "retry_wait" /\ ~job.due -> "not_due"
           [] OTHER -> "ready"

NextJobKind ==
    IF HasPendingSourceAcknowledgement \/ ~ActiveJob THEN "none"
    ELSE CASE job.status = "running" -> "running"
           [] job.status = "retry_wait" /\ ~job.due -> "not_due"
           [] OTHER -> "ready"

\* The request id an attempt is made under, as activityAnalysisJobFromRow reads it.
RequestOf(j) == IF j.req = 0 THEN j.attempt + 1 ELSE j.req

ClaimJob(r) ==
    /\ job' = [job EXCEPT !.status = "running", !.run = r, !.req = RequestOf(job)]
    /\ UNCHANGED <<outbox, receipts, score, trigger>>

\* A job row is completed, deferred or failed only by the run that holds it.
Holds(r) == job # None /\ job.status = "running" /\ job.run = r

CanComplete(r) == Holds(r) /\ score >= job.consumed

\* Mutant: the threshold is subtracted in place of the score the job consumed.
CompleteJob_SubtractsThreshold ==
    LET rows == [w \in Windows |->
                   IF w \in job.windows THEN None ELSE receipts[w]]
        rest == score - ScoreThreshold
    IN /\ receipts' = rows
       /\ score' = rest
       /\ Materialize(rows, rest, None)
       /\ UNCHANGED outbox

\* Mutant: every receipt is deleted, also one that arrived after the job was made.
CompleteJob_TakesAll ==
    /\ receipts' = [w \in Windows |-> None]
    /\ score' = 0
    /\ Materialize(receipts', 0, None)
    /\ UNCHANGED outbox

\* completeActivityAnalysisJob: phase two of a completed run. Its receipts are
\* deleted and exactly its score is subtracted.
CompleteJob ==
    LET rows == [w \in Windows |->
                   IF w \in job.windows THEN None ELSE receipts[w]]
        rest == score - job.consumed
    IN /\ receipts' = rows
       /\ score' = rest
       /\ Materialize(rows, rest, None)
       /\ UNCHANGED outbox

\* deferActivityAnalysisJob: a semantic retry gets a new request id, a transport
\* retry keeps the one it had.
DeferJob(semantic) ==
    /\ job' = [job EXCEPT !.status = "retry_wait", !.run = NoRun, !.due = FALSE,
                          !.attempt = IF semantic THEN @ + 1 ELSE @,
                          !.req = IF semantic THEN 0 ELSE @]
    /\ UNCHANGED <<outbox, receipts, score, trigger>>

\* Mutant: a job that is given up takes its receipts and their score with it.
FailJobTerminally_Discards ==
    /\ receipts' = [w \in Windows |-> IF w \in job.windows THEN None ELSE receipts[w]]
    /\ score' = score - job.consumed
    /\ job' = None /\ trigger' = FALSE
    /\ UNCHANGED outbox

\* markActivityAnalysisJobTerminalFailure
FailJobTerminally ==
    /\ job' = [job EXCEPT !.status = "retry_wait", !.terminal = TRUE]
    /\ UNCHANGED <<outbox, receipts, score, trigger>>

JobBackoffElapses ==
    /\ job # None /\ job.status = "retry_wait" /\ ~job.due
    /\ job' = [job EXCEPT !.due = TRUE]
    /\ UNCHANGED <<outbox, receipts, score, trigger>>
=============================================================================
