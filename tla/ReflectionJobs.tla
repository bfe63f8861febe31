---------------------------- MODULE ReflectionJobs ----------------------------
(***************************************************************************)
(* ReflectionJobRunner (src/agent/reflection/job-runner.ts) over the       *)
(* SQLite repository, with the sink that turns a reflection into a         *)
(* reminder (src/bun/reflection-feedback.ts).                              *)
(*                                                                         *)
(* Every repository operation is one transaction.  The process may end     *)
(* between any two of them; a shutdown aborts the runner, which gives its  *)
(* claim back.  The reminder is claimed before it is presented, and the    *)
(* job is marked committed after that.  A reflection is abstracted to the  *)
(* key of its reminder, or to "silent".                                    *)
(***************************************************************************)
EXTENDS Integers, FiniteSets, Sequences

CONSTANTS
    Windows, Keys,          \* sealed windows, numbers; keys of reminders
    LEASE, TERMINAL_AFTER,  \* of a claim; of continued failure
    DEDUPLICATION,          \* between two reminders of one key
    DRAINING,               \* open jobs that silence the reminders
    Faults,                 \* what may fail: "retry", "fatal" (explicitly not retryable)
    MaxTime, MaxFaults, MaxCrashes, MaxStops, MaxReplays    \* bounds

(* A number or a fault is of its kind, and no key is the mark of a job      *)
(* that has no result yet.                                                 *)
ASSUME JobsAssumption ==
    /\ Windows \subseteq Nat /\ "none" \notin Keys
    /\ {LEASE, TERMINAL_AFTER, DEDUPLICATION, DRAINING} \subseteq Nat \ {0}
    /\ {MaxTime, MaxFaults, MaxCrashes, MaxStops, MaxReplays} \subseteq Nat
    /\ Faults \subseteq {"retry", "fatal"}

VARIABLES
    jobs,       \* table reflection_jobs
    journal,    \* table reflection_journal: window -> reflection
    notes,      \* table reflection_notifications: set of [w, key, at]
    runner,     \* the runner: [pc, w, signal]
    shown,      \* reminders presented, in order (observed)
    spent,      \* attempts of a job that failed or died with the process (observed)
    now, used

vars == <<jobs, journal, notes, runner, shown, spent, now, used>>

Results == Keys \cup {"silent"}
States == {"READY", "RUNNING", "RESULT_PERSISTED", "COMMITTING", "COMMITTED",
           "RETRY_WAIT", "TERMINAL_FAILED"}
None == -1
At(t) == IF t > MaxTime THEN MaxTime ELSE t

TypeOK ==
    /\ DOMAIN jobs \subseteq Windows /\ DOMAIN spent = DOMAIN jobs
    /\ \A w \in DOMAIN jobs :
         /\ jobs[w].state \in States /\ jobs[w].attempt \in Nat
         /\ {jobs[w].first, jobs[w].next, jobs[w].lease} \subseteq None..MaxTime
         /\ jobs[w].result \in Results \cup {"none"}
         /\ (jobs[w].lease # None) <=> jobs[w].state \in {"RUNNING", "COMMITTING"}
    /\ DOMAIN journal \subseteq DOMAIN jobs
    /\ runner.pc \in {"off", "idle", "infer", "persisted", "commit", "present", "mark"}
    /\ now \in 0..MaxTime

Stopped == [pc |-> "off", w |-> None, signal |-> FALSE]

Init ==
    /\ jobs = << >> /\ journal = << >> /\ notes = {} /\ shown = <<>> /\ spent = << >>
    /\ runner = Stopped /\ now = 0
    /\ used = [faults |-> 0, crashes |-> 0, stops |-> 0, replays |-> 0]

Set(w, j) == jobs' = [jobs EXCEPT ![w] = j]
Spend(w) == spent' = [spent EXCEPT ![w] = @ + 1]
With(f, w, v) == [x \in DOMAIN f \cup {w} |-> IF x = w THEN v ELSE f[x]]

-----------------------------------------------------------------------------
(* The repository.                                                         *)

(* sealWindow: the job comes with the window, whose end it dates from.      *)
Seal(w) ==
    /\ w \notin DOMAIN jobs /\ runner.pc # "off"
    /\ \E ended \in 0..now :
         jobs' = With(jobs, w,
            [state |-> "READY", attempt |-> 0, created |-> ended, first |-> None,
             next |-> ended, lease |-> None, result |-> "none"])
    /\ spent' = With(spent, w, 0)
    /\ UNCHANGED <<journal, notes, runner, shown, now, used>>

(* Mutant: any claim that is not settled may be taken, leased or not.      *)
Runnable_IgnoresLease(w) ==
    \/ jobs[w].state \in {"READY", "RETRY_WAIT"} /\ jobs[w].next <= now
    \/ jobs[w].state \in {"RUNNING", "COMMITTING", "RESULT_PERSISTED"}

(* The WHERE of claimNextRunnable; READY always has a next attempt.        *)
Runnable(w) ==
    \/ jobs[w].state \in {"READY", "RETRY_WAIT"} /\ jobs[w].next <= now
    \/ jobs[w].state \in {"RUNNING", "COMMITTING"} /\ jobs[w].lease <= now
    \/ jobs[w].state = "RESULT_PERSISTED"

(* Its ORDER BY.                                                           *)
Rank(w) == <<IF jobs[w].next = None THEN jobs[w].created ELSE jobs[w].next,
             jobs[w].created, w>>
Earlier(r, s) == \/ r[1] < s[1]
                 \/ r[1] = s[1] /\ (r[2] < s[2] \/ (r[2] = s[2] /\ r[3] < s[3]))
Candidates == {w \in DOMAIN jobs : Runnable(w)}
Oldest(w) == w \in Candidates /\ \A v \in Candidates \ {w} : Earlier(Rank(w), Rank(v))

Claimed(j) ==
    [j EXCEPT !.state = IF j.result = "none" THEN "RUNNING" ELSE "COMMITTING",
              !.attempt = @ + 1, !.next = None,
              !.first = IF @ = None THEN now ELSE @, !.lease = At(now + LEASE)]

Persisted(j, r) ==
    [j EXCEPT !.state = "RESULT_PERSISTED", !.result = r, !.lease = None]

Begun(j) == [j EXCEPT !.state = "COMMITTING", !.lease = At(now + LEASE)]

Abandoned(j) ==
    LET prior == IF j.attempt = 0 THEN 0 ELSE j.attempt - 1
    IN [j EXCEPT !.state = IF j.result = "none" THEN "READY" ELSE "RESULT_PERSISTED",
                 !.attempt = prior, !.first = IF prior = 0 THEN None ELSE @,
                 !.next = IF j.result = "none" THEN now ELSE None, !.lease = None]

Failed(j, terminal, next) ==
    [j EXCEPT !.state = IF terminal THEN "TERMINAL_FAILED" ELSE "RETRY_WAIT",
              !.next = IF terminal THEN None ELSE next, !.lease = None]

Committed(j) == [j EXCEPT !.state = "COMMITTED", !.next = None, !.lease = None]

Replayed(j) == [j EXCEPT !.state = "READY", !.attempt = 0, !.created = now,
                         !.first = None, !.next = now, !.lease = None]

-----------------------------------------------------------------------------
(* The runner: one job at a time.                                          *)

J == jobs[runner.w]

(* The service starts and arms its job pump.                               *)
Start ==
    /\ runner.pc = "off"
    /\ runner' = [Stopped EXCEPT !.pc = "idle"]
    /\ UNCHANGED <<jobs, journal, notes, shown, spent, now, used>>

(* runOnce claims a job; one with a result goes straight to the commit.    *)
Claim(w) ==
    /\ runner.pc = "idle" /\ ~runner.signal /\ Oldest(w)
    /\ Set(w, Claimed(jobs[w]))
    /\ runner' = [runner EXCEPT !.w = w,
                                !.pc = IF jobs[w].result = "none" THEN "infer"
                                       ELSE "commit"]
    /\ UNCHANGED <<journal, notes, shown, spent, now, used>>

(* abandonClaim, when the signal was aborted.                              *)
GiveUp ==
    /\ Set(runner.w, Abandoned(J))
    /\ runner' = [runner EXCEPT !.pc = "idle", !.w = None]
    /\ UNCHANGED spent

(* RETRY_DELAYS: longer after every attempt, up to the last.               *)
Delay(attempt) == IF attempt <= 1 THEN 1 ELSE 2

Terminal(j, fault) ==
    \/ fault = "fatal"
    \/ now - (IF j.first = None THEN now ELSE j.first) >= TERMINAL_AFTER

(* handleFailure.                                                          *)
Fail(fault) ==
    /\ used.faults < MaxFaults /\ used' = [used EXCEPT !.faults = @ + 1]
    /\ IF runner.signal THEN GiveUp
       ELSE /\ Set(runner.w, Failed(J, Terminal(J, fault), At(now + Delay(J.attempt))))
            /\ Spend(runner.w)
            /\ runner' = [runner EXCEPT !.pc = "idle", !.w = None]
    /\ UNCHANGED <<journal, notes, shown, now>>

(* The inference ends; a shutdown makes it throw.                          *)
InferFails == runner.pc = "infer" /\ \E fault \in Faults : Fail(fault)

InferAborted ==
    /\ runner.pc = "infer" /\ runner.signal /\ GiveUp
    /\ UNCHANGED <<journal, notes, shown, now, used>>

(* persistResult: journal and job in one transaction.                      *)
PersistResult ==
    /\ runner.pc = "infer" /\ ~runner.signal
    /\ \E r \in Results :
         /\ Set(runner.w, Persisted(J, r))
         /\ journal' = IF runner.w \in DOMAIN journal THEN journal
                       ELSE With(journal, runner.w, r)
    /\ runner' = [runner EXCEPT !.pc = "persisted"]
    /\ UNCHANGED <<notes, shown, spent, now, used>>

BeginCommit ==
    /\ runner.pc = "persisted" /\ ~runner.signal
    /\ Set(runner.w, Begun(J))
    /\ runner' = [runner EXCEPT !.pc = "commit"]
    /\ UNCHANGED <<journal, notes, shown, spent, now, used>>

(* The checks of the signal before the commit.                             *)
CommitAborted ==
    /\ runner.pc \in {"persisted", "commit"} /\ runner.signal /\ GiveUp
    /\ UNCHANGED <<journal, notes, shown, now, used>>

-----------------------------------------------------------------------------
(* ReflectionFeedbackSink.emit.                                            *)

Open == {w \in DOMAIN jobs : jobs[w].state \notin {"COMMITTED", "TERMINAL_FAILED"}}

Silent == J.result = "silent" \/ Cardinality(Open) >= DRAINING

(* Mutant: only the key is looked up, and only as long as it is recent.    *)
Notified_KeyOnly(w, key) ==
    \E n \in notes : n.key = key /\ now - n.at < DEDUPLICATION

(* claimReminder finds a reminder of the window or a recent one of the key.*)
Notified(w, key) ==
    \E n \in notes : n.w = w \/ (n.key = key /\ now - n.at < DEDUPLICATION)

(* Nothing to present; canPresent may also say no.                         *)
EmitNothing ==
    /\ runner.pc = "commit" /\ ~runner.signal
    /\ runner' = [runner EXCEPT !.pc = "mark"]
    /\ UNCHANGED <<jobs, journal, notes, shown, spent, now, used>>

ClaimReminder ==
    /\ runner.pc = "commit" /\ ~runner.signal /\ ~Silent /\ ~Notified(runner.w, J.result)
    /\ notes' = notes \cup {[w |-> runner.w, key |-> J.result, at |-> now]}
    /\ runner' = [runner EXCEPT !.pc = "present"]
    /\ UNCHANGED <<jobs, journal, shown, spent, now, used>>

Present ==
    /\ runner.pc = "present"
    /\ shown' = Append(shown, [w |-> runner.w, key |-> J.result])
    /\ runner' = [runner EXCEPT !.pc = "mark"]
    /\ UNCHANGED <<jobs, journal, notes, spent, now, used>>

CommitFails == runner.pc \in {"commit", "present", "mark"} /\ \E fault \in Faults : Fail(fault)

MarkCommitted ==
    /\ runner.pc = "mark"
    /\ Set(runner.w, Committed(J))
    /\ runner' = [runner EXCEPT !.pc = "idle", !.w = None]
    /\ UNCHANGED <<journal, notes, shown, spent, now, used>>

-----------------------------------------------------------------------------
(* Around the runner.                                                      *)

(* beginShutdown aborts the signal; stop waits for the pump.               *)
BeginShutdown ==
    /\ runner.pc # "off" /\ ~runner.signal /\ used.stops < MaxStops
    /\ runner' = [runner EXCEPT !.signal = TRUE]
    /\ used' = [used EXCEPT !.stops = @ + 1]
    /\ UNCHANGED <<jobs, journal, notes, shown, spent, now>>

StopEnds ==
    /\ runner.pc = "idle" /\ runner.signal /\ runner' = Stopped
    /\ UNCHANGED <<jobs, journal, notes, shown, spent, now, used>>

(* The process ends; a job it had claimed keeps its lease and its attempt. *)
Crash ==
    /\ runner.pc # "off" /\ used.crashes < MaxCrashes
    /\ runner' = Stopped
    /\ used' = [used EXCEPT !.crashes = @ + 1]
    /\ IF runner.w = None THEN UNCHANGED spent ELSE Spend(runner.w)
    /\ UNCHANGED <<jobs, journal, notes, shown, now>>

ReplayTerminal(w) ==
    /\ w \in DOMAIN jobs /\ jobs[w].state = "TERMINAL_FAILED" /\ runner.pc # "off"
    /\ used.replays < MaxReplays /\ used' = [used EXCEPT !.replays = @ + 1]
    /\ Set(w, Replayed(jobs[w]))
    /\ spent' = [spent EXCEPT ![w] = 0]
    /\ UNCHANGED <<journal, notes, runner, shown, now>>

Tick == /\ now < MaxTime /\ now' = now + 1
        /\ UNCHANGED <<jobs, journal, notes, runner, shown, spent, used>>

RunnerSteps ==
    \/ Start \/ (\E w \in DOMAIN jobs : Claim(w))
    \/ InferAborted \/ PersistResult \/ BeginCommit \/ CommitAborted
    \/ EmitNothing \/ ClaimReminder \/ Present \/ MarkCommitted \/ StopEnds

Next ==
    \/ RunnerSteps \/ InferFails \/ CommitFails
    \/ \E w \in Windows : Seal(w) \/ ReplayTerminal(w)
    \/ BeginShutdown \/ Crash \/ Tick

Spec == Init /\ [][Next]_vars

(* The pump fires again and again, awaited work goes on, time passes.      *)
FairSpec == Spec /\ WF_vars(RunnerSteps) /\ WF_vars(Tick)

-----------------------------------------------------------------------------
(* Properties.                                                             *)

(* A reminder is presented at most once per window, whatever is retried,   *)
(* replayed or repeated after a crash ("favors a missed reminder over a    *)
(* duplicate").                                                            *)
ReminderOnce ==
    \A i, j \in DOMAIN shown : i # j => shown[i].w # shown[j].w

(* Two reminders of one key are claimed DEDUPLICATION apart.               *)
RemindersApart ==
    \A m, n \in notes : m # n /\ m.key = n.key =>
        m.at - n.at \notin (1 - DEDUPLICATION)..(DEDUPLICATION - 1)

(* "Commit retries reuse the persisted result": once a window has one, no  *)
(* inference is under way for it, and the job carries what was journalled. *)
ResultIsKept ==
    /\ \A w \in DOMAIN journal : jobs[w].result = journal[w]
    /\ runner.pc = "infer" => runner.w \notin DOMAIN journal

(* A shutdown does not use up the failure budget: the attempts of a job    *)
(* are those that failed or died with the process, and the current or the  *)
(* successful one.                                                         *)
AttemptsAreSpent ==
    \A w \in DOMAIN jobs :
        jobs[w].attempt = spent[w]
            + (IF runner.w = w \/ jobs[w].state = "COMMITTED" THEN 1 ELSE 0)

(* A retryable failure ends a job only after TERMINAL_AFTER of failing.    *)
GivesUpLateStep ==
    \A w \in DOMAIN jobs :
         jobs'[w].state = "TERMINAL_FAILED" /\ jobs[w].state # "TERMINAL_FAILED"
             /\ "fatal" \notin Faults
           => now - jobs[w].first >= TERMINAL_AFTER
GivesUpLate == [][GivesUpLateStep]_vars

(* Every job is committed or given up in the end.                          *)
EverySettled ==
    \A w \in Windows : w \in DOMAIN jobs ~>
        w \in DOMAIN jobs /\ jobs[w].state \in {"COMMITTED", "TERMINAL_FAILED"}

(* Reminders are not repeated, results are kept and attempts are counted   *)
(* right.                                                                  *)
ReflectionJobsSafe ==
    /\ TypeOK /\ ReminderOnce /\ RemindersApart
    /\ ResultIsKept /\ AttemptsAreSpent

(* The jobs are used the way the reference repository allows: the oldest   *)
(* runnable one is claimed, and no operation meets a job in a state it     *)
(* refuses.                                                                *)
Q == INSTANCE ReflectionJobQueue

IsAQueue == Q!Queue

=============================================================================
