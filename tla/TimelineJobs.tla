---------------------------- MODULE TimelineJobs ----------------------------
(***************************************************************************)
(* What becomes of a sealed Timeline window: a durable job that one runner *)
(* claims, processes and commits, and the AgentInput the result puts into  *)
(* an outbox, which a local agent host leases and acknowledges.            *)
(*                                                                         *)
(*   processor.ts           TimelineV2JobRunner.runNext                    *)
(*   sqlite-repository.ts   claim, abandon, complete, finalize, failure,   *)
(*                          release, query, commit, retention cleanup      *)
(*   service.ts             trackJobPump, beginShutdown                    *)
(*   agent-input-adapter.ts query, commit, replay                          *)
(*                                                                         *)
(* Leases, retry delays, the 24 hours after the first attempt and the      *)
(* retention pass at any moment: each is a flag that time may set.         *)
(***************************************************************************)
EXTENDS Integers

CONSTANTS
    Windows,        \* sealed windows
    Consumers,      \* callers of the AgentInput adapter
    MaxRetries,     \* bound: retryable failures of one job
    MaxLeases,      \* bound: leases of one AgentInput
    MaxFaults       \* bound: crashes and failed transactions

None == 0

ASSUME JobsAssumption == {MaxRetries, MaxLeases, MaxFaults} \subseteq Nat

(* A claim ends in a failure, in a fault or in the result.                 *)
MaxAttempts == MaxRetries + MaxFaults + 2

VARIABLES
    job,      \* timeline_jobs: window -> [state, attempt, first, due, lapsed]
    result,   \* timeline_summaries: the attempt whose result is stored
    out,      \* agent_input_outbox: window -> [state, token, lapsed, acked]
    old,      \* windows past the derived retention
    run,      \* the runner: [pc, w, cause]
    aborted,  \* the shutdown signal
    held,     \* consumer -> the leases it was given: {<<window, token>>, ...}
    failed,   \* ghost: failures recorded for a job
    lost,     \* ghost: claims of a job that nobody gave back
    faults    \* crashes and failed transactions so far

vars == <<job, result, out, old, run, aborted, held, failed, lost, faults>>

NoJob == [state |-> "NONE", attempt |-> 0, first |-> "none", due |-> FALSE,
          lapsed |-> FALSE]
NoOut == [state |-> "NONE", token |-> None, lapsed |-> FALSE, acked |-> None]
Idle == [pc |-> "idle", w |-> None, cause |-> "none"]

Persisted == {"RESULT_PERSISTED", "COMMITTING", "COMMITTED"}

Init ==
    /\ job = [w \in Windows |-> NoJob]
    /\ result = [w \in Windows |-> None]
    /\ out = [w \in Windows |-> NoOut]
    /\ old = {}
    /\ run = Idle /\ aborted = FALSE
    /\ held = [c \in Consumers |-> {}]
    /\ failed = [w \in Windows |-> 0] /\ lost = [w \in Windows |-> 0]
    /\ faults = 0

outbox == <<out, held>>
ghosts == <<failed, lost>>

-----------------------------------------------------------------------------
(* sealWindow writes the job of a new window (newTimelineJob).             *)
SealWindow(w) ==
    /\ job[w].state = "NONE" /\ w \notin old
    /\ job' = [job EXCEPT ![w] = [NoJob EXCEPT !.state = "READY", !.due = TRUE]]
    /\ UNCHANGED <<result, outbox, old, run, aborted, ghosts, faults>>

(* Time: a retry delay, a job lease, 24 hours since the first attempt, an  *)
(* AgentInput lease, the retention of the window's rows.                   *)
RetryDue(w) ==
    /\ job[w].state = "RETRY_WAIT" /\ ~job[w].due
    /\ job' = [job EXCEPT ![w].due = TRUE]
    /\ UNCHANGED <<result, outbox, old, run, aborted, ghosts, faults>>

LeaseLapses(w) ==
    /\ job[w].state = "RUNNING" /\ ~job[w].lapsed
    /\ job' = [job EXCEPT ![w].lapsed = TRUE]
    /\ UNCHANGED <<result, outbox, old, run, aborted, ghosts, faults>>

Ages(w) ==
    /\ job[w].first = "recent"
    /\ job' = [job EXCEPT ![w].first = "aged"]
    /\ UNCHANGED <<result, outbox, old, run, aborted, ghosts, faults>>

InputLeaseLapses(w) ==
    /\ out[w].state = "LEASED" /\ ~out[w].lapsed
    /\ out' = [out EXCEPT ![w].lapsed = TRUE]
    /\ UNCHANGED <<job, result, old, run, aborted, held, ghosts, faults>>

(* cleanupExpiredIndexRowsIfDue: every row of the window goes at once.     *)
Cleanup(w) ==
    /\ job[w].state # "NONE"
    /\ job' = [job EXCEPT ![w] = NoJob]
    /\ result' = [result EXCEPT ![w] = None]
    /\ out' = [out EXCEPT ![w] = NoOut]
    /\ old' = old \cup {w}
    /\ UNCHANGED <<run, aborted, held, ghosts, faults>>

-----------------------------------------------------------------------------
(* The runner.  One pump runs at a time (jobPumpTail).                     *)

(* What claimNextWindow selects.                                           *)
Runnable(w) ==
    \/ job[w].state \in {"READY", "RETRY_WAIT"} /\ job[w].due
    \/ job[w].state = "RUNNING" /\ job[w].lapsed
    \/ job[w].state \in {"RESULT_PERSISTED", "COMMITTING"}

(* claimNextWindow: a stored result is only finalised.                     *)
Claimed(j) ==
    IF j.state \in Persisted THEN j
    ELSE [j EXCEPT !.state = "RUNNING", !.attempt = @ + 1, !.due = FALSE,
                   !.lapsed = FALSE, !.first = IF @ = "none" THEN "recent" ELSE @]

Claim ==
    /\ run.pc = "idle" /\ ~aborted
    /\ \E w \in Windows :
         /\ Runnable(w)
         /\ job' = [job EXCEPT ![w] = Claimed(@)]
         /\ run' = [pc |-> IF job'[w].state = "RUNNING" THEN "reading" ELSE "commit",
                    w |-> w, cause |-> "none"]
         /\ lost' = [lost EXCEPT ![w] = @ + (IF job[w].state = "RUNNING" THEN 1 ELSE 0)]
    /\ UNCHANGED <<result, outbox, old, aborted, failed, faults>>

(* abandonWindowClaim: the claim is given back with its budget.            *)
Abandoned(j) ==
    [j EXCEPT !.state = "READY", !.due = TRUE, !.lapsed = FALSE,
              !.attempt = @ - 1, !.first = IF j.attempt = 1 THEN "none" ELSE @]

(* The signal is seen between two awaits.                                  *)
SeesAbort ==
    /\ aborted /\ run.pc \in {"reading", "processing"}
    /\ job' = IF job[run.w].state = "RUNNING"
              THEN [job EXCEPT ![run.w] = Abandoned(@)] ELSE job
    /\ run' = Idle
    /\ UNCHANGED <<result, outbox, old, aborted, ghosts, faults>>

(* getWindow finds the window, or its row is gone.                         *)
GetWindow ==
    /\ run.pc = "reading" /\ ~aborted
    /\ IF job[run.w].state = "NONE"
       THEN run' = Idle     \* recordWindowFailure finds no job and throws
       ELSE run' = [run EXCEPT !.pc = "processing"]
    /\ UNCHANGED <<job, result, outbox, old, aborted, ghosts, faults>>

(* The window cannot be opened: runNext throws with the claim in place.    *)
GetWindowFails ==
    /\ run.pc = "reading" /\ faults < MaxFaults
    /\ faults' = faults + 1
    /\ run' = Idle
    /\ UNCHANGED <<job, result, outbox, old, aborted, ghosts>>

(* processor.process and the sealing of its result.                        *)
Processed ==
    /\ run.pc = "processing" /\ ~aborted
    /\ run' = [run EXCEPT !.pc = "persist"]
    /\ UNCHANGED <<job, result, outbox, old, aborted, ghosts, faults>>

(* A step of the attempt throws; whether a retry may help is the error's   *)
(* to say.                                                                 *)
ProcessFails ==
    /\ run.pc \in {"processing", "persist"}
    /\ \E cause \in {"retryable", "final"} :
         /\ cause = "retryable" => failed[run.w] < MaxRetries
         /\ run' = [run EXCEPT !.pc = "caught", !.cause = cause]
    /\ UNCHANGED <<job, result, outbox, old, aborted, ghosts, faults>>

(* A transaction of the commit fails.                                      *)
CommitFails ==
    /\ run.pc \in {"commit", "finish"} /\ faults < MaxFaults
    /\ faults' = faults + 1
    /\ run' = [run EXCEPT !.pc = "caught", !.cause = "retryable"]
    /\ UNCHANGED <<job, result, outbox, old, aborted, ghosts>>

(* The AgentInput is held back until it is released.                       *)
Stored(w) == out' = [out EXCEPT ![w] = [NoOut EXCEPT !.state = "HELD_LOCAL"]]

(* completeWindow's transaction: facts, episodes, summary, AgentInput and  *)
(* the job's state.                                                        *)
Persist ==
    /\ run.pc = "persist"
    /\ IF job[run.w].state = "RUNNING"
       THEN /\ result' = [result EXCEPT ![run.w] = job[run.w].attempt]
            /\ Stored(run.w)
            /\ job' = [job EXCEPT ![run.w].state = "RESULT_PERSISTED",
                                  ![run.w].due = FALSE, ![run.w].lapsed = FALSE]
            /\ run' = [run EXCEPT !.pc = "commit"]
       ELSE /\ run' = [run EXCEPT !.pc = "caught", !.cause = "retryable"]
            /\ UNCHANGED <<job, result, out>>
    /\ UNCHANGED <<held, old, aborted, ghosts, faults>>

(* finalizeWindowCommit: two transactions.                                 *)
BeginCommit ==
    /\ run.pc = "commit"
    /\ IF job[run.w].state \in {"RESULT_PERSISTED", "COMMITTING"}
       THEN /\ job' = [job EXCEPT ![run.w].state = "COMMITTING"]
            /\ run' = [run EXCEPT !.pc = "finish"]
       ELSE /\ run' = Idle
            /\ UNCHANGED job
    /\ UNCHANGED <<result, outbox, old, aborted, ghosts, faults>>

FinishCommit ==
    /\ run.pc = "finish"
    /\ job' = IF job[run.w].state = "COMMITTING"
              THEN [job EXCEPT ![run.w].state = "COMMITTED"] ELSE job
    /\ run' = Idle
    /\ UNCHANGED <<result, outbox, old, aborted, ghosts, faults>>

(* Mutant: a failure of the commit is recorded like one of the inference.  *)
PointOfNoReturn_Never(j) == FALSE

PointOfNoReturn(j) == j.state \in Persisted \cup {"NONE"}

Terminal(j, cause) == cause = "final" \/ j.first = "aged"

(* The catch block: what is stored is left alone, a shutdown gives the     *)
(* claim back, anything else is recorded (recordWindowFailure).            *)
Caught ==
    /\ run.pc = "caught"
    /\ LET w == run.w
           j == job[w]
       IN IF PointOfNoReturn(j)
          THEN UNCHANGED <<job, failed>>
          ELSE IF aborted
          THEN /\ job' = [job EXCEPT ![w] = Abandoned(j)]
               /\ UNCHANGED failed
          ELSE /\ job' = [job EXCEPT ![w].state = IF Terminal(j, run.cause)
                                                  THEN "TERMINAL_FAILED" ELSE "RETRY_WAIT",
                                     ![w].due = FALSE, ![w].lapsed = FALSE]
               /\ failed' = [failed EXCEPT ![w] = @ + 1]
    /\ run' = Idle
    /\ UNCHANGED <<result, outbox, old, aborted, lost, faults>>

(* beginShutdown.                                                          *)
Abort ==
    /\ ~aborted
    /\ aborted' = TRUE
    /\ UNCHANGED <<job, result, outbox, old, run, ghosts, faults>>

(* The application starts again after a shutdown that settled.             *)
Restart ==
    /\ aborted /\ run.pc = "idle"
    /\ aborted' = FALSE
    /\ UNCHANGED <<job, result, outbox, old, run, ghosts, faults>>

Crash ==
    /\ faults < MaxFaults
    /\ faults' = faults + 1
    /\ run' = Idle /\ aborted' = FALSE
    /\ held' = [c \in Consumers |-> {}]
    /\ UNCHANGED <<job, result, out, old, ghosts>>

-----------------------------------------------------------------------------
(* The AgentInput outbox.                                                  *)

(* replay (releaseAgentInputs of explicit identifiers).                    *)
Release(w) ==
    /\ out[w].state = "HELD_LOCAL" /\ ~aborted
    /\ out' = [out EXCEPT ![w].state = "READY"]
    /\ UNCHANGED <<job, result, old, run, aborted, held, ghosts, faults>>

(* queryAgentInputs: a lease that ran out is given to whoever asks.        *)
Lease(c, w) ==
    /\ ~aborted
    /\ \/ out[w].state = "READY"
       \/ out[w].state = "LEASED" /\ out[w].lapsed
    /\ out[w].token < MaxLeases
    /\ out' = [out EXCEPT ![w].state = "LEASED", ![w].token = @ + 1, ![w].lapsed = FALSE]
    /\ held' = [held EXCEPT ![c] = @ \cup {<<w, out[w].token + 1>>}]
    /\ UNCHANGED <<job, result, old, run, aborted, ghosts, faults>>

(* The lease is the current one and has not run out.                       *)
MayAck(o, t) == o.state = "LEASED" /\ o.token = t /\ ~o.lapsed

(* commitAgentInput; repeating an acknowledgement with its token changes   *)
(* nothing, any other one is refused.                                      *)
Ack(c) ==
    /\ ~aborted
    /\ \E x \in held[c] :
         /\ MayAck(out[x[1]], x[2])
         /\ out' = [out EXCEPT ![x[1]].state = "ACKED", ![x[1]].acked = x[2]]
    /\ UNCHANGED <<job, result, old, run, aborted, held, ghosts, faults>>

-----------------------------------------------------------------------------
Runner ==
    \/ Claim \/ SeesAbort \/ GetWindow \/ Processed \/ ProcessFails \/ Persist
    \/ BeginCommit \/ FinishCommit \/ Caught

Time(w) == RetryDue(w) \/ LeaseLapses(w) \/ Ages(w)

Next ==
    \/ \E w \in Windows : \/ SealWindow(w) \/ Time(w) \/ InputLeaseLapses(w)
                          \/ Cleanup(w) \/ Release(w)
    \/ Runner \/ GetWindowFails \/ CommitFails \/ Abort \/ Restart \/ Crash
    \/ \E c \in Consumers : Ack(c) \/ \E w \in Windows : Lease(c, w)

Spec == Init /\ [][Next]_vars

(* Delays and leases run out, the pump is run again and again, and an      *)
(* application that was shut down is started again.                        *)
Fairness ==
    /\ WF_vars(Runner) /\ WF_vars(Restart)
    /\ \A w \in Windows : /\ WF_vars(RetryDue(w)) /\ WF_vars(LeaseLapses(w))
                          /\ WF_vars(Ages(w))

(* For the progress check the application is not quit over and over.       *)
LiveNext == Next /\ aborted' = FALSE

FairSpec == Init /\ [][LiveNext]_vars /\ Fairness

-----------------------------------------------------------------------------
(* Properties.                                                             *)

(* The rows are in states of the schema, and a job has a first attempt     *)
(* exactly when it has attempts.                                           *)
JobsTypeOK ==
    /\ \A w \in Windows :
         /\ job[w].state \in {"NONE", "READY", "RUNNING", "RETRY_WAIT", "TERMINAL_FAILED"}
                               \cup Persisted
         /\ job[w].attempt \in 0..MaxAttempts
         /\ job[w].first \in {"none", "recent", "aged"}
         /\ (job[w].attempt = 0) = (job[w].first = "none")
         /\ result[w] \in 0..MaxAttempts
         /\ out[w].state \in {"NONE", "HELD_LOCAL", "READY", "LEASED", "ACKED"}
         /\ out[w].token \in 0..MaxLeases
    /\ run.pc \in {"idle", "reading", "processing", "persist", "commit", "finish", "caught"}

(* A job is past its inference exactly when its result and its AgentInput  *)
(* are stored, in every state a crash may leave ("inconsistent" of         *)
(* readCursorAuthority never occurs).                                      *)
ResultWithJob ==
    \A w \in Windows :
       /\ (job[w].state \in Persisted) = (result[w] # None)
       /\ (result[w] # None) = (out[w].state # "NONE")

(* "Result persistence is the point of no return.  Never overwrite it with *)
(* RETRY_WAIT or rerun inference" (processor.ts:349): a stored result      *)
(* stays the same and its job only moves on, until retention removes both. *)
NoReturnStep ==
    \A w \in Windows :
         result[w] # None =>
           \/ result'[w] = result[w] /\ job'[w].state \in Persisted
           \/ job'[w].state = "NONE"
NoReturn == [][NoReturnStep]_vars

(* "Shutdown abort restores an aged retry claim without consuming its      *)
(* failure budget": the attempts of a job are its recorded failures, the   *)
(* claims that were lost, and the one that runs or succeeded.              *)
BudgetIsFailures ==
    \A w \in Windows :
       job[w].state # "NONE" =>
         job[w].attempt = failed[w] + lost[w]
           + (IF job[w].state \in {"RUNNING"} \cup Persisted THEN 1 ELSE 0)

(* An AgentInput is acknowledged by its last lease only, and stays so.     *)
AckedOnceStep ==
    \A w \in Windows :
         /\ out'[w].state = "ACKED" => out'[w].acked = out'[w].token
         /\ out[w].state = "ACKED" => out'[w].state \in {"ACKED", "NONE"}
AckedOnce == [][AckedOnceStep]_vars

(* A sealed window is committed, given up or removed by retention in the   *)
(* end: an attempt that fails for 24 hours is given up.                    *)
EveryJobEnds ==
    \A w \in Windows :
       (job[w].state # "NONE") ~> (job[w].state \in {"COMMITTED", "TERMINAL_FAILED", "NONE"})

(* A retryable failure within the first 24 hours never ends a job.         *)
GivenUpLateStep ==
    \A w \in Windows :
         (job[w].state # "TERMINAL_FAILED" /\ job'[w].state = "TERMINAL_FAILED")
           => job[w].first = "aged" \/ run.cause = "final"
GivenUpLate == [][GivenUpLateStep]_vars

(* A result, its input and its job are stored together and stay; attempts  *)
(* are counted right, and an input is acknowledged once.                   *)
JobsInOrder == JobsTypeOK /\ ResultWithJob /\ BudgetIsFailures
TimelineJobsSafe ==
    [][JobsInOrder /\ JobsInOrder' /\ NoReturnStep /\ AckedOnceStep]_vars
=============================================================================
