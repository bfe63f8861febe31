------------------------- MODULE ReflectionJobs_proofs -------------------------
(***************************************************************************)
(* Proofs about ReflectionJobs, for any windows, keys, lease and bounds:   *)
(* a reminder is presented once and two of a key stay apart, a result is   *)
(* kept, attempts are counted right, a retryable failure ends a job only   *)
(* late, and the jobs implement ReflectionJobQueue.                        *)
(*                                                                         *)
(* The inductive invariant says which job the runner holds, in which       *)
(* state, at each of its points, and that a reminder is claimed before it  *)
(* is presented and never claimed again.                                   *)
(***************************************************************************)
EXTENDS ReflectionJobs, SequenceTheorems, TLAPS

-----------------------------------------------------------------------------
(* The inductive invariant.                                                *)

Points == {"off", "idle", "infer", "persisted", "commit", "present", "mark"}

Job == [state : States, attempt : Nat, created : 0..MaxTime, first : None..MaxTime,
        next : None..MaxTime, lease : None..MaxTime, result : Results \cup {"none"}]

\* The tables and the runner are of their kinds.
Laid ==
    /\ DOMAIN jobs \subseteq Windows /\ jobs \in [DOMAIN jobs -> Job]
    /\ spent \in [DOMAIN jobs -> Nat]
    /\ runner \in [pc : Points, w : Windows \cup {None}, signal : BOOLEAN]
    /\ now \in 0..MaxTime

\* A claim has a lease, and what waits has a next attempt.
Leased ==
    \A w \in DOMAIN jobs :
        /\ jobs[w].lease # None <=> jobs[w].state \in {"RUNNING", "COMMITTING"}
        /\ jobs[w].state \in {"READY", "RETRY_WAIT"} => jobs[w].next # None

\* The job the runner holds is in the state of the runner's point.
Held ==
    /\ runner.w = None <=> runner.pc \in {"off", "idle"}
    /\ runner.w # None =>
         /\ runner.w \in DOMAIN jobs
         /\ runner.pc = "infer" =>
              jobs[runner.w].state = "RUNNING" /\ jobs[runner.w].result = "none"
         /\ runner.pc = "persisted" =>
              jobs[runner.w].state = "RESULT_PERSISTED" /\ jobs[runner.w].result # "none"
         /\ runner.pc \in {"commit", "present", "mark"} =>
              jobs[runner.w].state = "COMMITTING" /\ jobs[runner.w].result # "none"

\* The journal has the results of the jobs.
Journalled ==
    /\ \A w \in DOMAIN jobs : w \in DOMAIN journal <=> jobs[w].result # "none"
    /\ \A w \in DOMAIN journal : w \in DOMAIN jobs /\ jobs[w].result = journal[w]

\* What was presented had been claimed, and what is to be presented was not yet.
Claims == {n.w : n \in notes}
Reminded ==
    /\ \A n \in notes : n.at \in 0..MaxTime
    /\ shown \in Seq([w : Windows, key : Results \cup {"none"}])
    /\ \A i \in DOMAIN shown : shown[i].w \in Claims
    /\ runner.pc = "present" =>
         runner.w \in Claims /\ \A i \in DOMAIN shown : shown[i].w # runner.w

JobsInv ==
    /\ Laid /\ Leased /\ Held /\ Journalled /\ AttemptsAreSpent
    /\ Reminded /\ ReminderOnce /\ RemindersApart

-----------------------------------------------------------------------------
(* The numbers, and what an operation of the repository makes of a job.    *)

(* The clock and the durations are natural numbers, and None is no time.   *)
LEMMA Numbers ==
    /\ MaxTime \in Nat /\ TERMINAL_AFTER \in Nat \ {0}
    /\ LEASE \in Nat \ {0} /\ DEDUPLICATION \in Nat \ {0}
    /\ None \notin Nat /\ None \notin Windows
  BY JobsAssumption DEF JobsAssumption, None

(* A time in the future is bounded by MaxTime, and not earlier than now.   *)
LEMMA AtLater ==
    ASSUME Laid, NEW d \in Nat
    PROVE  At(now + d) \in now..MaxTime /\ At(now + d) \in 0..MaxTime
  BY Numbers DEF At, Laid

(* None is a time a record may have.                                       *)
LEMMA Times == \A t : t \in 0..MaxTime => t \in None..MaxTime /\ t # None
  BY Numbers DEF None

LEMMA NoneTime == None \in None..MaxTime
  BY Numbers DEF None

(* The fields of a job.                                                    *)
LEMMA Fields ==
    ASSUME NEW j \in Job
    PROVE  /\ j.state \in States /\ j.attempt \in Nat /\ j.created \in 0..MaxTime
           /\ j.first \in None..MaxTime /\ j.next \in None..MaxTime
           /\ j.lease \in None..MaxTime /\ j.result \in Results \cup {"none"}
           /\ j = [state |-> j.state, attempt |-> j.attempt, created |-> j.created,
                   first |-> j.first, next |-> j.next, lease |-> j.lease,
                   result |-> j.result]
  BY DEF Job

(* claimNextRunnable: one more attempt and a lease.                        *)
LEMMA ClaimedJob ==
    ASSUME Laid, NEW j \in Job
    PROVE  /\ Claimed(j) \in Job
           /\ Claimed(j).state = IF j.result = "none" THEN "RUNNING" ELSE "COMMITTING"
           /\ Claimed(j).attempt = j.attempt + 1 /\ Claimed(j).lease # None
           /\ Claimed(j).result = j.result
  <1> DEFINE t == At(now + LEASE)
             f == IF j.first = None THEN now ELSE j.first
             s == IF j.result = "none" THEN "RUNNING" ELSE "COMMITTING"
  <1>1. t \in None..MaxTime /\ t # None
    BY AtLater, Numbers, Times
  <1>2. f \in None..MaxTime /\ s \in States /\ j.attempt + 1 \in Nat
    BY Fields, Times DEF Laid, States
  <1>3. Claimed(j) = [j EXCEPT !.state = s, !.attempt = j.attempt + 1, !.next = None,
                               !.first = f, !.lease = t]
    BY Fields DEF Claimed, Job
  <1> HIDE DEF t, f, s
  <1>4. Claimed(j) = [state |-> s, attempt |-> j.attempt + 1, created |-> j.created,
                      first |-> f, next |-> None, lease |-> t, result |-> j.result]
    BY <1>3 DEF Job
  <1>5. Claimed(j) \in Job
    BY <1>1, <1>2, <1>4, Fields, NoneTime DEF Job
  <1> QED  BY <1>1, <1>4, <1>5 DEF s

(* persistResult: the result is kept and the lease given back.             *)
LEMMA PersistedJob ==
    ASSUME NEW j \in Job, NEW r \in Results
    PROVE  /\ Persisted(j, r) \in Job /\ Persisted(j, r).state = "RESULT_PERSISTED"
           /\ Persisted(j, r).attempt = j.attempt /\ Persisted(j, r).lease = None
           /\ Persisted(j, r).result = r
  <1>1. Persisted(j, r) = [j EXCEPT !.state = "RESULT_PERSISTED", !.result = r,
                                    !.lease = None]
    BY DEF Persisted
  <1>2. Persisted(j, r) = [state |-> "RESULT_PERSISTED", attempt |-> j.attempt,
            created |-> j.created, first |-> j.first, next |-> j.next,
            lease |-> None, result |-> r]
    BY <1>1 DEF Job
  <1>3. Persisted(j, r) \in Job
    BY <1>2, Fields, NoneTime DEF Job, States
  <1> QED  BY <1>2, <1>3

(* beginCommit: a lease for the commit.                                    *)
LEMMA BegunJob ==
    ASSUME Laid, NEW j \in Job
    PROVE  /\ Begun(j) \in Job /\ Begun(j).state = "COMMITTING"
           /\ Begun(j).attempt = j.attempt /\ Begun(j).lease # None
           /\ Begun(j).result = j.result
  <1> DEFINE t == At(now + LEASE)
  <1>1. t \in None..MaxTime /\ t # None
    BY AtLater, Numbers, Times
  <1> HIDE DEF t
  <1>2. Begun(j) = [j EXCEPT !.state = "COMMITTING", !.lease = t]
    BY DEF Begun, t
  <1>3. Begun(j) = [state |-> "COMMITTING", attempt |-> j.attempt,
            created |-> j.created, first |-> j.first, next |-> j.next,
            lease |-> t, result |-> j.result]
    BY <1>2 DEF Job
  <1>4. Begun(j) \in Job
    BY <1>1, <1>3, Fields DEF Job, States
  <1> QED  BY <1>1, <1>3, <1>4

(* abandonClaim: the attempt of the claim does not count.                  *)
LEMMA AbandonedJob ==
    ASSUME Laid, NEW j \in Job, j.attempt # 0
    PROVE  /\ Abandoned(j) \in Job
           /\ Abandoned(j).state = IF j.result = "none" THEN "READY" ELSE "RESULT_PERSISTED"
           /\ Abandoned(j).attempt = j.attempt - 1 /\ Abandoned(j).lease = None
           /\ j.result = "none" => Abandoned(j).next # None
           /\ Abandoned(j).result = j.result
  <1> DEFINE p == j.attempt - 1
             f == IF p = 0 THEN None ELSE j.first
             s == IF j.result = "none" THEN "READY" ELSE "RESULT_PERSISTED"
             n == IF j.result = "none" THEN now ELSE None
  <1>1. p \in Nat
    BY Fields
  <1>2. f \in None..MaxTime
    BY Fields, NoneTime
  <1>3. s \in States
    BY DEF States
  <1>4. n \in None..MaxTime /\ (j.result = "none" => n # None)
    BY Times, NoneTime DEF Laid
  <1>5. Abandoned(j) = [j EXCEPT !.state = s, !.attempt = p, !.first = f, !.next = n,
                                 !.lease = None]
    BY DEF Abandoned, Job
  <1> HIDE DEF p, f, s, n
  <1>6. Abandoned(j) = [state |-> s, attempt |-> p, created |-> j.created,
                        first |-> f, next |-> n, lease |-> None, result |-> j.result]
    BY <1>5 DEF Job
  <1>7. Abandoned(j) \in Job
    BY <1>1, <1>2, <1>3, <1>4, <1>6, Fields, NoneTime DEF Job
  <1> QED  BY <1>4, <1>6, <1>7 DEF s, p

(* recordFailure: a later attempt, or none.                                *)
LEMMA FailedJob ==
    ASSUME NEW j \in Job, NEW terminal \in BOOLEAN, NEW t \in 0..MaxTime
    PROVE  /\ Failed(j, terminal, t) \in Job
           /\ Failed(j, terminal, t).state =
                 IF terminal THEN "TERMINAL_FAILED" ELSE "RETRY_WAIT"
           /\ Failed(j, terminal, t).attempt = j.attempt
           /\ Failed(j, terminal, t).lease = None
           /\ ~terminal => Failed(j, terminal, t).next # None
           /\ Failed(j, terminal, t).result = j.result
  <1> DEFINE s == IF terminal THEN "TERMINAL_FAILED" ELSE "RETRY_WAIT"
             n == IF terminal THEN None ELSE t
  <1>1. s \in States
    BY DEF States
  <1>2. n \in None..MaxTime /\ (~terminal => n # None)
    BY Times, NoneTime
  <1>3. Failed(j, terminal, t) = [j EXCEPT !.state = s, !.next = n, !.lease = None]
    BY DEF Failed, Job
  <1> HIDE DEF s, n
  <1>4. Failed(j, terminal, t) = [state |-> s, attempt |-> j.attempt,
            created |-> j.created, first |-> j.first, next |-> n, lease |-> None,
            result |-> j.result]
    BY <1>3 DEF Job
  <1>5. Failed(j, terminal, t) \in Job
    BY <1>1, <1>2, <1>4, Fields, NoneTime DEF Job
  <1> QED  BY <1>2, <1>4, <1>5 DEF s

(* markCommitted.                                                          *)
LEMMA CommittedJob ==
    ASSUME NEW j \in Job
    PROVE  /\ Committed(j) \in Job /\ Committed(j).state = "COMMITTED"
           /\ Committed(j).attempt = j.attempt /\ Committed(j).lease = None
           /\ Committed(j).result = j.result
  <1>1. Committed(j) = [j EXCEPT !.state = "COMMITTED", !.next = None, !.lease = None]
    BY DEF Committed
  <1>2. Committed(j) = [state |-> "COMMITTED", attempt |-> j.attempt,
            created |-> j.created, first |-> j.first, next |-> None, lease |-> None,
            result |-> j.result]
    BY <1>1 DEF Job
  <1>3. Committed(j) \in Job
    BY <1>2, Fields, NoneTime DEF Job, States
  <1> QED  BY <1>2, <1>3

(* replayTerminal: the job starts again with what it has.                  *)
LEMMA ReplayedJob ==
    ASSUME Laid, NEW j \in Job
    PROVE  /\ Replayed(j) \in Job /\ Replayed(j).state = "READY"
           /\ Replayed(j).attempt = 0 /\ Replayed(j).lease = None
           /\ Replayed(j).next # None /\ Replayed(j).result = j.result
  <1>0. Replayed(j) = [j EXCEPT !.state = "READY", !.attempt = 0, !.created = now,
                                !.first = None, !.next = now, !.lease = None]
    BY DEF Replayed
  <1>1. Replayed(j) = [state |-> "READY", attempt |-> 0, created |-> now,
            first |-> None, next |-> now, lease |-> None, result |-> j.result]
    BY <1>0 DEF Job
  <1>2. now \in 0..MaxTime /\ now \in None..MaxTime /\ now # None
    BY Times DEF Laid
  <1>3. Replayed(j) \in Job
    BY <1>1, <1>2, Fields, NoneTime DEF Job, States
  <1> QED  BY <1>1, <1>2, <1>3

(* A job is written.                                                       *)
LEMMA Written ==
    ASSUME Laid, NEW w \in DOMAIN jobs, NEW j \in Job, Set(w, j)
    PROVE  /\ DOMAIN jobs' = DOMAIN jobs /\ jobs' \in [DOMAIN jobs' -> Job]
           /\ jobs'[w] = j
           /\ \A v \in DOMAIN jobs : v # w => jobs'[v] = jobs[v]
  BY DEF Laid, Set

-----------------------------------------------------------------------------
(* Steps that write one job.                                               *)

Runner == [pc : Points, w : Windows \cup {None}, signal : BOOLEAN]

(* The runner goes on to another point, with a job or without.             *)
LEMMA Moved ==
    ASSUME Laid, NEW p \in Points, NEW x \in Windows \cup {None},
           runner' = [runner EXCEPT !.pc = p, !.w = x]
    PROVE  /\ runner' \in Runner /\ runner'.pc = p /\ runner'.w = x
           /\ runner'.signal = runner.signal
  BY DEF Laid, Runner

LEMMA MovedOn ==
    ASSUME Laid, NEW p \in Points, runner' = [runner EXCEPT !.pc = p]
    PROVE  /\ runner' \in Runner /\ runner'.pc = p /\ runner'.w = runner.w
           /\ runner'.signal = runner.signal
  BY DEF Laid, Runner

(* The job the runner holds has an attempt to give back.                   *)
LEMMA HeldJob ==
    ASSUME JobsInv, runner.pc \notin {"off", "idle"}
    PROVE  /\ runner.w # None /\ runner.w \in DOMAIN jobs /\ J \in Job
           /\ J.attempt = spent[runner.w] + 1 /\ J.attempt # 0
  <1>1. runner.w # None /\ runner.w \in DOMAIN jobs
    BY DEF JobsInv, Held
  <1>2. J \in Job /\ spent[runner.w] \in Nat
    BY <1>1 DEF JobsInv, Laid, J
  <1>3. J.attempt = spent[runner.w] + 1
    BY <1>1 DEF JobsInv, AttemptsAreSpent, J
  <1> QED  BY <1>1, <1>2, <1>3

(* The tables keep their kinds, claims have leases, and a result is kept.  *)
LEMMA JobWritten ==
    ASSUME JobsInv, NEW w \in DOMAIN jobs, NEW j \in Job, Set(w, j),
           j.lease # None <=> j.state \in {"RUNNING", "COMMITTING"},
           j.state \in {"READY", "RETRY_WAIT"} => j.next # None,
           runner' \in Runner, spent' \in [DOMAIN jobs -> Nat], now' = now
    PROVE  Laid' /\ Leased'
  <1> USE DEF JobsInv
  <1>1. /\ DOMAIN jobs' = DOMAIN jobs /\ jobs' \in [DOMAIN jobs' -> Job]
        /\ jobs'[w] = j
        /\ \A v \in DOMAIN jobs : v # w => jobs'[v] = jobs[v]
    BY Written
  <1>2. Laid'
    BY <1>1 DEF Laid, Runner
  <1>3. Leased'
    BY <1>1 DEF Leased
  <1> QED  BY <1>2, <1>3

LEMMA ResultKept ==
    ASSUME JobsInv, NEW w \in DOMAIN jobs, NEW j \in Job, Set(w, j),
           j.result = jobs[w].result, UNCHANGED journal
    PROVE  Journalled'
  <1>1. /\ DOMAIN jobs' = DOMAIN jobs /\ jobs'[w] = j
        /\ \A v \in DOMAIN jobs : v # w => jobs'[v] = jobs[v]
    BY Written DEF JobsInv
  <1>2. \A v \in DOMAIN jobs : jobs'[v].result = jobs[v].result
    BY <1>1
  <1> QED  BY <1>1, <1>2 DEF JobsInv, Journalled

(* Without a claim or a presentation the reminders stay as they are.       *)
LEMMA RemindersKept ==
    ASSUME JobsInv, UNCHANGED <<notes, shown>>, runner'.pc # "present"
    PROVE  Reminded' /\ ReminderOnce' /\ RemindersApart'
  BY DEF JobsInv, Reminded, ReminderOnce, RemindersApart, Claims

(* The runner lets go of its job: what it was is settled in the job.       *)
LEMMA LetGo ==
    ASSUME JobsInv, runner.w # None, NEW j \in Job, Set(runner.w, j),
           runner' = [runner EXCEPT !.pc = "idle", !.w = None],
           j.lease = None, j.state \notin {"RUNNING", "COMMITTING"},
           j.state \in {"READY", "RETRY_WAIT"} => j.next # None,
           j.result = J.result,
           spent' \in [DOMAIN jobs -> Nat],
           \A v \in DOMAIN jobs : v # runner.w => spent'[v] = spent[v],
           j.attempt = spent'[runner.w] + (IF j.state = "COMMITTED" THEN 1 ELSE 0),
           UNCHANGED <<journal, notes, shown, now>>
    PROVE  JobsInv'
  <1>1. runner.w \in DOMAIN jobs
    BY DEF JobsInv, Held
  <1>2. runner' \in Runner /\ runner'.pc = "idle" /\ runner'.w = None
    BY Moved DEF JobsInv, Points
  <1>3. Laid' /\ Leased'
    BY <1>1, <1>2, JobWritten
  <1>4. Journalled'
    BY <1>1, ResultKept DEF J
  <1>5. Reminded' /\ ReminderOnce' /\ RemindersApart'
    BY <1>2, RemindersKept
  <1>6. Held'
    BY <1>2 DEF Held
  <1>7. AttemptsAreSpent'
    <2>1. /\ DOMAIN jobs' = DOMAIN jobs /\ jobs'[runner.w] = j
          /\ \A v \in DOMAIN jobs : v # runner.w => jobs'[v] = jobs[v]
      BY <1>1, Written DEF JobsInv
    <2>2. \A v \in DOMAIN jobs : v # None
      BY Numbers DEF JobsInv, Laid
    <2>3. ASSUME NEW v \in DOMAIN jobs
          PROVE  jobs'[v].attempt = spent'[v]
                   + (IF runner'.w = v \/ jobs'[v].state = "COMMITTED" THEN 1 ELSE 0)
      <3>1. CASE v = runner.w
        BY <1>2, <2>1, <2>2, <3>1
      <3>2. CASE v # runner.w
        <4>1. jobs[v].attempt = spent[v]
                + (IF runner.w = v \/ jobs[v].state = "COMMITTED" THEN 1 ELSE 0)
          BY DEF JobsInv, AttemptsAreSpent
        <4> QED  BY <1>2, <2>1, <2>2, <3>2, <4>1
      <3> QED  BY <3>1, <3>2
    <2> QED  BY <2>1, <2>3 DEF AttemptsAreSpent
  <1> QED  BY <1>3, <1>4, <1>5, <1>6, <1>7 DEF JobsInv

(* The runner writes the job it holds and goes on with it.                 *)
LEMMA GoesOn ==
    ASSUME JobsInv, runner.w # None, NEW j \in Job, Set(runner.w, j),
           NEW p \in Points \ {"off", "idle", "present"},
           runner' = [runner EXCEPT !.pc = p],
           j.lease # None <=> j.state \in {"RUNNING", "COMMITTING"},
           j.state \in {"RESULT_PERSISTED", "COMMITTING"}, j.result # "none",
           p = "persisted" => j.state = "RESULT_PERSISTED",
           p \in {"commit", "mark"} => j.state = "COMMITTING",
           p # "infer",
           j.attempt = J.attempt,
           UNCHANGED <<spent, notes, shown, now>>
    PROVE  /\ Laid' /\ Leased' /\ Held' /\ AttemptsAreSpent'
           /\ Reminded' /\ ReminderOnce' /\ RemindersApart'
  <1>1. runner.w \in DOMAIN jobs
    BY DEF JobsInv, Held
  <1>2. runner' \in Runner /\ runner'.pc = p /\ runner'.w = runner.w
    BY MovedOn DEF JobsInv
  <1>3. spent' \in [DOMAIN jobs -> Nat]
    BY DEF JobsInv, Laid
  <1>4. Laid' /\ Leased'
    BY <1>1, <1>2, <1>3, JobWritten
  <1>5. Reminded' /\ ReminderOnce' /\ RemindersApart'
    BY <1>2, RemindersKept
  <1>6. /\ DOMAIN jobs' = DOMAIN jobs /\ jobs'[runner.w] = j
        /\ \A v \in DOMAIN jobs : v # runner.w => jobs'[v] = jobs[v]
    BY <1>1, Written DEF JobsInv
  <1>7. Held'
    BY <1>1, <1>2, <1>6 DEF Held
  <1>8. AttemptsAreSpent'
    <2>1. ASSUME NEW v \in DOMAIN jobs
          PROVE  jobs'[v].attempt = spent'[v]
                   + (IF runner'.w = v \/ jobs'[v].state = "COMMITTED" THEN 1 ELSE 0)
      <3>1. jobs[v].attempt = spent[v]
              + (IF runner.w = v \/ jobs[v].state = "COMMITTED" THEN 1 ELSE 0)
        BY DEF JobsInv, AttemptsAreSpent
      <3> QED  BY <1>2, <1>6, <3>1 DEF J
    <2> QED  BY <1>6, <2>1 DEF AttemptsAreSpent
  <1> QED  BY <1>4, <1>5, <1>7, <1>8

(* A step of the runner that writes no table but those of the reminders.   *)
LEMMA NothingWritten ==
    ASSUME JobsInv, NEW p \in Points \ {"off", "idle", "infer", "persisted"},
           runner.pc \in {"commit", "present", "mark"},
           runner' = [runner EXCEPT !.pc = p],
           UNCHANGED <<jobs, journal, spent, now>>
    PROVE  /\ Laid' /\ Leased' /\ Held' /\ Journalled' /\ AttemptsAreSpent'
           /\ runner'.pc = p /\ runner'.w = runner.w
  <1>1. runner' \in Runner /\ runner'.pc = p /\ runner'.w = runner.w
    BY MovedOn DEF JobsInv
  <1>2. Laid'
    BY <1>1 DEF JobsInv, Laid, Runner
  <1>3. Leased' /\ Journalled' /\ AttemptsAreSpent'
    BY <1>1 DEF JobsInv, Leased, Journalled, AttemptsAreSpent
  <1>4. Held'
    BY <1>1 DEF JobsInv, Held
  <1> QED  BY <1>1, <1>2, <1>3, <1>4

-----------------------------------------------------------------------------
(* Each action preserves the invariant.                                    *)

LEMMA InitInv == Init => JobsInv
  <1> SUFFICES ASSUME Init PROVE JobsInv
    OBVIOUS
  <1> USE DEF Init, Stopped
  <1>1. DOMAIN jobs = {} /\ DOMAIN spent = {} /\ DOMAIN journal = {} /\ DOMAIN shown = {}
    OBVIOUS
  <1>2. jobs \in [DOMAIN jobs -> Job] /\ spent \in [DOMAIN jobs -> Nat]
    BY <1>1
  <1>3. Laid
    BY <1>1, <1>2, Numbers DEF Laid, Points
  <1>4. Leased /\ Held /\ Journalled /\ AttemptsAreSpent
    BY <1>1 DEF Leased, Held, Journalled, AttemptsAreSpent
  <1>5. Reminded /\ ReminderOnce /\ RemindersApart
    BY <1>1 DEF Reminded, ReminderOnce, RemindersApart
  <1> QED  BY <1>3, <1>4, <1>5 DEF JobsInv

LEMMA SealInv ==
    ASSUME JobsInv, NEW w \in Windows, Seal(w)
    PROVE  JobsInv'
  <1> PICK ended \in 0..now :
         jobs' = With(jobs, w,
            [state |-> "READY", attempt |-> 0, created |-> ended, first |-> None,
             next |-> ended, lease |-> None, result |-> "none"])
    BY DEF Seal
  <1> DEFINE j == [state |-> "READY", attempt |-> 0, created |-> ended, first |-> None,
                   next |-> ended, lease |-> None, result |-> "none"]
  <1>1. w \notin DOMAIN jobs /\ spent' = With(spent, w, 0)
    BY DEF Seal
  <1>2. UNCHANGED <<journal, notes, runner, shown, now>>
    BY DEF Seal
  <1>3. ended \in 0..MaxTime /\ ended \in None..MaxTime /\ ended # None
    BY Numbers, Times DEF JobsInv, Laid
  <1>4. j \in Job
    BY <1>3, NoneTime DEF Job, States
  <1>5. /\ j.state = "READY" /\ j.attempt = 0 /\ j.lease = None /\ j.next # None
        /\ j.result = "none"
    BY <1>3
  <1>6. jobs' = With(jobs, w, j)
    OBVIOUS
  <1> HIDE DEF j
  <1>7. /\ DOMAIN jobs' = DOMAIN jobs \cup {w} /\ jobs'[w] = j
        /\ \A v \in DOMAIN jobs : jobs'[v] = jobs[v]
        /\ jobs' \in [DOMAIN jobs' -> Job]
    BY <1>1, <1>4, <1>6 DEF With, JobsInv, Laid
  <1>8. /\ DOMAIN spent = DOMAIN jobs
        /\ spent'[w] = 0 /\ \A v \in DOMAIN jobs : spent'[v] = spent[v]
        /\ spent' \in [DOMAIN jobs' -> Nat]
    BY <1>1, <1>7 DEF With, JobsInv, Laid
  <1>9. Laid'
    BY <1>2, <1>7, <1>8 DEF JobsInv, Laid
  <1>10. Leased'
    BY <1>5, <1>7 DEF JobsInv, Leased
  <1>11. Held'
    BY <1>2, <1>7 DEF JobsInv, Held
  <1>12. Journalled'
    BY <1>1, <1>2, <1>5, <1>7 DEF JobsInv, Journalled
  <1>13. runner'.w # w
    BY <1>1, <1>2, Numbers DEF JobsInv, Held
  <1>14. AttemptsAreSpent'
    <2>1. ASSUME NEW v \in DOMAIN jobs'
          PROVE  jobs'[v].attempt = spent'[v]
                   + (IF runner'.w = v \/ jobs'[v].state = "COMMITTED" THEN 1 ELSE 0)
      <3>1. CASE v = w
        BY <1>5, <1>7, <1>8, <1>13, <3>1
      <3>2. CASE v # w
        BY <1>2, <1>7, <1>8, <2>1, <3>2 DEF JobsInv, AttemptsAreSpent
      <3> QED  BY <3>1, <3>2
    <2> QED  BY <2>1 DEF AttemptsAreSpent
  <1>15. Reminded' /\ ReminderOnce' /\ RemindersApart'
    BY <1>2 DEF JobsInv, Reminded, ReminderOnce, RemindersApart, Claims
  <1> QED  BY <1>9, <1>10, <1>11, <1>12, <1>14, <1>15 DEF JobsInv

LEMMA StartInv ==
    ASSUME JobsInv, Start
    PROVE  JobsInv'
  <1>1. runner.pc = "off" /\ runner' = [Stopped EXCEPT !.pc = "idle"]
        /\ UNCHANGED <<jobs, journal, notes, shown, spent, now>>
    BY DEF Start
  <1>2. runner' \in Runner /\ runner'.pc = "idle" /\ runner'.w = None /\ runner.w = None
    BY <1>1 DEF Stopped, Runner, Points, JobsInv, Held
  <1>3. Laid' /\ Leased' /\ Held' /\ Journalled' /\ AttemptsAreSpent'
    BY <1>1, <1>2
       DEF JobsInv, Laid, Runner, Leased, Held, Journalled, AttemptsAreSpent
  <1>4. Reminded' /\ ReminderOnce' /\ RemindersApart'
    BY <1>1, <1>2, RemindersKept
  <1> QED  BY <1>3, <1>4 DEF JobsInv

LEMMA ClaimInv ==
    ASSUME JobsInv, NEW w \in DOMAIN jobs, Claim(w)
    PROVE  JobsInv'
  <1> DEFINE j == Claimed(jobs[w])
             p == IF jobs[w].result = "none" THEN "infer" ELSE "commit"
  <1>1. runner.pc = "idle" /\ Set(w, j) /\ runner' = [runner EXCEPT !.w = w, !.pc = p]
        /\ UNCHANGED <<journal, notes, shown, spent, now>>
    BY DEF Claim
  <1>2. Runnable(w)
    BY DEF Claim, Oldest, Candidates
  <1>3. jobs[w] \in Job /\ w \in Windows /\ p \in Points
    BY DEF JobsInv, Laid, Points
  <1>4. /\ j \in Job
        /\ j.state = IF jobs[w].result = "none" THEN "RUNNING" ELSE "COMMITTING"
        /\ j.attempt = jobs[w].attempt + 1 /\ j.lease # None
        /\ j.result = jobs[w].result
    BY <1>3, ClaimedJob DEF JobsInv
  <1>5. p \in {"infer", "commit"} /\ (p = "infer" <=> jobs[w].result = "none")
    OBVIOUS
  <1> HIDE DEF j, p
  <1>6. runner' \in Runner /\ runner'.pc = p /\ runner'.w = w
    BY <1>1, <1>3 DEF JobsInv, Laid, Runner
  <1>7. spent' \in [DOMAIN jobs -> Nat]
    BY <1>1 DEF JobsInv, Laid
  <1>8. Laid' /\ Leased'
    BY <1>1, <1>4, <1>6, <1>7, JobWritten
  <1>9. /\ DOMAIN jobs' = DOMAIN jobs /\ jobs'[w] = j
        /\ \A v \in DOMAIN jobs : v # w => jobs'[v] = jobs[v]
    BY <1>1, <1>4, Written DEF JobsInv
  <1>10. Held'
    BY <1>3, <1>4, <1>5, <1>6, <1>9, Numbers DEF Held
  <1>11. Journalled'
    BY <1>1, <1>4, ResultKept
  <1>12. runner.w = None /\ w # None /\ jobs[w].state # "COMMITTED"
    BY <1>1, <1>2, <1>3, Numbers DEF JobsInv, Held, Runnable
  <1>13. AttemptsAreSpent'
    <2>1. ASSUME NEW v \in DOMAIN jobs
          PROVE  jobs'[v].attempt = spent'[v]
                   + (IF runner'.w = v \/ jobs'[v].state = "COMMITTED" THEN 1 ELSE 0)
      <3>1. jobs[v].attempt = spent[v]
              + (IF runner.w = v \/ jobs[v].state = "COMMITTED" THEN 1 ELSE 0)
        BY DEF JobsInv, AttemptsAreSpent
      <3>2. spent[v] \in Nat /\ v # None
        BY Numbers DEF JobsInv, Laid
      <3>3. CASE v = w
        <4>1. jobs[v].attempt = spent[v]
          BY <1>12, <3>1, <3>2, <3>3
        <4> QED  BY <1>1, <1>4, <1>6, <1>9, <3>3, <4>1
      <3>4. CASE v # w
        BY <1>1, <1>6, <1>9, <1>12, <3>1, <3>2, <3>4
      <3> QED  BY <3>3, <3>4
    <2> QED  BY <1>9, <2>1 DEF AttemptsAreSpent
  <1>14. Reminded' /\ ReminderOnce' /\ RemindersApart'
    BY <1>1, <1>5, <1>6, RemindersKept
  <1> QED  BY <1>8, <1>10, <1>11, <1>13, <1>14 DEF JobsInv

(* A claim given up by the aborted signal.                                 *)
LEMMA GiveUpInv ==
    ASSUME JobsInv, runner.pc \notin {"off", "idle"}, GiveUp,
           UNCHANGED <<journal, notes, shown, now>>
    PROVE  JobsInv'
  <1>1. /\ runner.w # None /\ runner.w \in DOMAIN jobs /\ J \in Job
        /\ J.attempt = spent[runner.w] + 1 /\ J.attempt # 0
    BY HeldJob
  <1>2. Set(runner.w, Abandoned(J)) /\ UNCHANGED spent
        /\ runner' = [runner EXCEPT !.pc = "idle", !.w = None]
    BY DEF GiveUp
  <1>3. /\ Abandoned(J) \in Job
        /\ Abandoned(J).state = IF J.result = "none" THEN "READY" ELSE "RESULT_PERSISTED"
        /\ Abandoned(J).attempt = J.attempt - 1 /\ Abandoned(J).lease = None
        /\ J.result = "none" => Abandoned(J).next # None
        /\ Abandoned(J).result = J.result
    BY <1>1, AbandonedJob DEF JobsInv
  <1>4. spent[runner.w] \in Nat /\ spent' \in [DOMAIN jobs -> Nat]
    BY <1>1, <1>2 DEF JobsInv, Laid
  <1>5. Abandoned(J).attempt = spent'[runner.w]
    BY <1>1, <1>2, <1>3, <1>4
  <1>6. Abandoned(J).state \in {"READY", "RESULT_PERSISTED"}
    BY <1>3
  <1> DEFINE j == Abandoned(J)
  <1>7. j.attempt = spent'[runner.w] + (IF j.state = "COMMITTED" THEN 1 ELSE 0)
    BY <1>2, <1>4, <1>5, <1>6
  <1>8. j.state \in {"READY", "RETRY_WAIT"} => j.next # None
    BY <1>3
  <1> HIDE DEF j
  <1>9. j \in Job /\ j.lease = None /\ j.state \notin {"RUNNING", "COMMITTING"}
        /\ j.result = J.result /\ Set(runner.w, j)
        /\ \A v \in DOMAIN jobs : v # runner.w => spent'[v] = spent[v]
    BY <1>2, <1>3, <1>6 DEF j
  <1> QED  BY <1>1, <1>2, <1>4, <1>7, <1>8, <1>9, LetGo

(* A failure, of the inference or of the commit.                           *)
LEMMA FailInv ==
    ASSUME JobsInv, runner.pc \notin {"off", "idle"}, NEW fault \in Faults, Fail(fault)
    PROVE  JobsInv'
  <1>0. UNCHANGED <<journal, notes, shown, now>>
    BY DEF Fail
  <1>1. CASE runner.signal
    <2>1. GiveUp
      BY <1>1 DEF Fail
    <2> QED  BY <1>0, <2>1, GiveUpInv
  <1>2. CASE ~runner.signal
    <2> DEFINE terminal == Terminal(J, fault)
               t == At(now + Delay(J.attempt))
               j == Failed(J, terminal, t)
    <2>1. Set(runner.w, j) /\ Spend(runner.w)
          /\ runner' = [runner EXCEPT !.pc = "idle", !.w = None]
      BY <1>2 DEF Fail
    <2>2. /\ runner.w # None /\ runner.w \in DOMAIN jobs /\ J \in Job
          /\ J.attempt = spent[runner.w] + 1
      BY HeldJob
    <2>3. terminal \in BOOLEAN
      BY DEF Terminal
    <2>4. t \in 0..MaxTime
      BY AtLater DEF Delay, JobsInv
    <2> HIDE DEF terminal, t
    <2>5. /\ j \in Job
          /\ j.state = IF terminal THEN "TERMINAL_FAILED" ELSE "RETRY_WAIT"
          /\ j.attempt = J.attempt /\ j.lease = None
          /\ ~terminal => j.next # None
          /\ j.result = J.result
      BY <2>2, <2>3, <2>4, FailedJob
    <2> HIDE DEF j
    <2>6. /\ spent' \in [DOMAIN jobs -> Nat] /\ spent'[runner.w] = spent[runner.w] + 1
          /\ \A v \in DOMAIN jobs : v # runner.w => spent'[v] = spent[v]
      BY <2>1, <2>2 DEF Spend, JobsInv, Laid
    <2>7. j.state \in {"TERMINAL_FAILED", "RETRY_WAIT"}
          /\ (j.state \in {"READY", "RETRY_WAIT"} => j.next # None)
      BY <2>5
    <2>8. j.attempt = spent'[runner.w] + (IF j.state = "COMMITTED" THEN 1 ELSE 0)
      BY <2>2, <2>5, <2>6, <2>7 DEF JobsInv, Laid
    <2>9. j.lease = None /\ j.state \notin {"RUNNING", "COMMITTING"} /\ j.result = J.result
      BY <2>5, <2>7
    <2> QED  BY <1>0, <2>1, <2>2, <2>5, <2>6, <2>7, <2>8, <2>9, LetGo
  <1> QED  BY <1>1, <1>2

(* The inference ends.                                                     *)
LEMMA PersistResultInv ==
    ASSUME JobsInv, PersistResult
    PROVE  JobsInv'
  <1>1. PICK r \in Results :
          /\ Set(runner.w, Persisted(J, r))
          /\ journal' = IF runner.w \in DOMAIN journal THEN journal
                        ELSE With(journal, runner.w, r)
    BY DEF PersistResult
  <1>2. runner.pc = "infer" /\ runner' = [runner EXCEPT !.pc = "persisted"]
        /\ UNCHANGED <<notes, shown, spent, now>>
    BY DEF PersistResult
  <1>3. /\ runner.w # None /\ runner.w \in DOMAIN jobs /\ J \in Job
        /\ J.state = "RUNNING" /\ J.result = "none"
    BY <1>2, HeldJob DEF JobsInv, Held, J
  <1> DEFINE j == Persisted(J, r)
  <1>4. /\ j \in Job /\ j.state = "RESULT_PERSISTED" /\ j.attempt = J.attempt
        /\ j.lease = None /\ j.result = r
    BY <1>3, PersistedJob
  <1>5. Set(runner.w, j)
    BY <1>1
  <1> HIDE DEF j
  <1>6. r # "none"
    BY JobsAssumption DEF JobsAssumption, Results
  <1>7. "persisted" \in Points \ {"off", "idle", "present"}
    BY DEF Points
  <1>8. /\ Laid' /\ Leased' /\ Held' /\ AttemptsAreSpent'
        /\ Reminded' /\ ReminderOnce' /\ RemindersApart'
    BY <1>2, <1>3, <1>4, <1>5, <1>6, <1>7, GoesOn
  <1>9. /\ DOMAIN jobs' = DOMAIN jobs /\ jobs'[runner.w] = j
        /\ \A v \in DOMAIN jobs : v # runner.w => jobs'[v] = jobs[v]
    BY <1>3, <1>4, <1>5, Written DEF JobsInv
  <1>10. Journalled'
    <2>1. runner.w \notin DOMAIN journal
      BY <1>3 DEF JobsInv, Journalled, J
    <2>2. journal' = With(journal, runner.w, r)
      BY <1>1, <2>1
    <2>3. /\ DOMAIN journal' = DOMAIN journal \cup {runner.w} /\ journal'[runner.w] = r
          /\ \A v \in DOMAIN journal : journal'[v] = journal[v]
      BY <2>1, <2>2 DEF With
    <2>4. /\ \A v \in DOMAIN jobs : v \in DOMAIN journal <=> jobs[v].result # "none"
          /\ \A v \in DOMAIN journal : v \in DOMAIN jobs /\ jobs[v].result = journal[v]
      BY DEF JobsInv, Journalled
    <2>5. ASSUME NEW v \in DOMAIN jobs'
          PROVE  v \in DOMAIN journal' <=> jobs'[v].result # "none"
      BY <1>4, <1>6, <1>9, <2>3, <2>4, <2>5
    <2>6. ASSUME NEW v \in DOMAIN journal'
          PROVE  v \in DOMAIN jobs' /\ jobs'[v].result = journal'[v]
      BY <1>3, <1>4, <1>9, <2>1, <2>3, <2>4, <2>6
    <2> QED  BY <2>5, <2>6 DEF Journalled
  <1> QED  BY <1>8, <1>10 DEF JobsInv

LEMMA BeginCommitInv ==
    ASSUME JobsInv, BeginCommit
    PROVE  JobsInv'
  <1>1. runner.pc = "persisted" /\ Set(runner.w, Begun(J))
        /\ runner' = [runner EXCEPT !.pc = "commit"]
        /\ UNCHANGED <<journal, notes, shown, spent, now>>
    BY DEF BeginCommit
  <1>2. runner.w # None /\ runner.w \in DOMAIN jobs /\ J \in Job /\ J.result # "none"
    BY <1>1, HeldJob DEF JobsInv, Held, J
  <1> DEFINE j == Begun(J)
  <1>3. /\ j \in Job /\ j.state = "COMMITTING" /\ j.attempt = J.attempt
        /\ j.lease # None /\ j.result = J.result
    BY <1>2, BegunJob DEF JobsInv
  <1>4. Set(runner.w, j)
    BY <1>1
  <1> HIDE DEF j
  <1>5. "commit" \in Points \ {"off", "idle", "present"}
    BY DEF Points
  <1>6. /\ Laid' /\ Leased' /\ Held' /\ AttemptsAreSpent'
        /\ Reminded' /\ ReminderOnce' /\ RemindersApart'
    BY <1>1, <1>2, <1>3, <1>4, <1>5, GoesOn
  <1>7. Journalled'
    BY <1>1, <1>2, <1>3, <1>4, ResultKept DEF J
  <1> QED  BY <1>6, <1>7 DEF JobsInv

LEMMA EmitNothingInv ==
    ASSUME JobsInv, EmitNothing
    PROVE  JobsInv'
  <1>1. runner.pc = "commit" /\ runner' = [runner EXCEPT !.pc = "mark"]
        /\ UNCHANGED <<jobs, journal, notes, shown, spent, now>>
    BY DEF EmitNothing
  <1>2. "mark" \in Points \ {"off", "idle", "infer", "persisted"}
    BY DEF Points
  <1>3. /\ Laid' /\ Leased' /\ Held' /\ Journalled' /\ AttemptsAreSpent'
        /\ runner'.pc = "mark"
    BY <1>1, <1>2, NothingWritten
  <1>4. Reminded' /\ ReminderOnce' /\ RemindersApart'
    BY <1>1, <1>3, RemindersKept
  <1> QED  BY <1>3, <1>4 DEF JobsInv

(* The reminder is claimed: none of the window, no recent one of the key.  *)
LEMMA ClaimReminderInv ==
    ASSUME JobsInv, ClaimReminder
    PROVE  JobsInv'
  <1> DEFINE n == [w |-> runner.w, key |-> J.result, at |-> now]
  <1>1. /\ runner.pc = "commit" /\ ~Notified(runner.w, J.result)
        /\ notes' = notes \cup {n}
        /\ runner' = [runner EXCEPT !.pc = "present"]
        /\ UNCHANGED <<jobs, journal, shown, spent, now>>
    BY DEF ClaimReminder
  <1>2. n.w = runner.w /\ n.key = J.result /\ n.at = now
    OBVIOUS
  <1> HIDE DEF n
  <1>3. "present" \in Points \ {"off", "idle", "infer", "persisted"}
    BY DEF Points
  <1>4. /\ Laid' /\ Leased' /\ Held' /\ Journalled' /\ AttemptsAreSpent'
        /\ runner'.pc = "present" /\ runner'.w = runner.w
    BY <1>1, <1>3, NothingWritten
  <1>5. \A m \in notes : m.w # runner.w
    BY <1>1 DEF Notified
  <1>6. \A m \in notes : m.key = J.result => ~(now - m.at < DEDUPLICATION)
    BY <1>1 DEF Notified
  <1>7. \A m \in notes : m.at \in 0..MaxTime
    BY DEF JobsInv, Reminded
  <1>8. now \in 0..MaxTime
    BY DEF JobsInv, Laid
  <1>9. Claims' = Claims \cup {runner.w}
    BY <1>1, <1>2 DEF Claims
  <1>10. \A i \in DOMAIN shown : shown[i].w \in Claims
    BY DEF JobsInv, Reminded
  <1>11. \A i \in DOMAIN shown : shown[i].w # runner.w
    BY <1>5, <1>10 DEF Claims
  <1>12. Reminded'
    <2>1. \A m \in notes' : m.at \in 0..MaxTime
      BY <1>1, <1>2, <1>7, <1>8
    <2>2. shown' = shown /\ shown \in Seq([w : Windows, key : Results \cup {"none"}])
      BY <1>1 DEF JobsInv, Reminded
    <2> QED  BY <1>4, <1>9, <1>10, <1>11, <2>1, <2>2 DEF Reminded
  <1>13. ReminderOnce'
    BY <1>1 DEF JobsInv, ReminderOnce
  <1>14. RemindersApart'
    <2>1. \A m \in notes : m.key = n.key =>
            /\ m.at - n.at \notin (1 - DEDUPLICATION)..(DEDUPLICATION - 1)
            /\ n.at - m.at \notin (1 - DEDUPLICATION)..(DEDUPLICATION - 1)
      BY <1>2, <1>6, <1>7, <1>8, Numbers
    <2>2. \A m, k \in notes : m # k /\ m.key = k.key =>
            m.at - k.at \notin (1 - DEDUPLICATION)..(DEDUPLICATION - 1)
      BY DEF JobsInv, RemindersApart
    <2>3. ASSUME NEW m \in notes', NEW k \in notes', m # k, m.key = k.key
          PROVE  m.at - k.at \notin (1 - DEDUPLICATION)..(DEDUPLICATION - 1)
      <3>1. CASE m = n
        <4>1. k \in notes
          BY <1>1, <2>3, <3>1
        <4> QED  BY <2>1, <2>3, <3>1, <4>1
      <3>2. CASE k = n
        <4>1. m \in notes
          BY <1>1, <2>3, <3>2
        <4> QED  BY <2>1, <2>3, <3>2, <4>1
      <3>3. CASE m # n /\ k # n
        <4>1. m \in notes /\ k \in notes
          BY <1>1, <3>3
        <4> QED  BY <2>2, <2>3, <4>1
      <3> QED  BY <3>1, <3>2, <3>3
    <2> QED  BY <2>3 DEF RemindersApart
  <1> QED  BY <1>4, <1>12, <1>13, <1>14 DEF JobsInv

(* It is presented: it was not before.                                     *)
LEMMA PresentInv ==
    ASSUME JobsInv, Present
    PROVE  JobsInv'
  <1> DEFINE e == [w |-> runner.w, key |-> J.result]
             E == [w : Windows, key : Results \cup {"none"}]
  <1>1. /\ runner.pc = "present" /\ shown' = Append(shown, e)
        /\ runner' = [runner EXCEPT !.pc = "mark"]
        /\ UNCHANGED <<jobs, journal, notes, spent, now>>
    BY DEF Present
  <1>2. "mark" \in Points \ {"off", "idle", "infer", "persisted"}
    BY DEF Points
  <1>3. /\ Laid' /\ Leased' /\ Held' /\ Journalled' /\ AttemptsAreSpent'
        /\ runner'.pc = "mark"
    BY <1>1, <1>2, NothingWritten
  <1>4. runner.w \in Windows /\ J.result \in Results \cup {"none"}
    BY <1>1, HeldJob, Fields DEF JobsInv, Laid
  <1>5. e \in E /\ e.w = runner.w
    BY <1>4
  <1> HIDE DEF e, E
  <1>6. shown \in Seq(E)
    BY DEF JobsInv, Reminded, E
  <1>7. /\ shown' \in Seq(E) /\ Len(shown') = Len(shown) + 1
        /\ shown'[Len(shown) + 1] = e
        /\ \A i \in DOMAIN shown : i \in 1..Len(shown) /\ shown'[i] = shown[i]
        /\ DOMAIN shown' = 1..(Len(shown) + 1) /\ DOMAIN shown = 1..Len(shown)
        /\ Len(shown) \in Nat
    BY <1>1, <1>5, <1>6
  <1>8. /\ \A i \in DOMAIN shown : shown[i].w \in Claims
        /\ runner.w \in Claims /\ \A i \in DOMAIN shown : shown[i].w # runner.w
        /\ \A n \in notes : n.at \in 0..MaxTime
    BY <1>1 DEF JobsInv, Reminded
  <1>9. \A i \in DOMAIN shown' : i \in DOMAIN shown \/ i = Len(shown) + 1
    BY <1>7
  <1>10. \A i \in DOMAIN shown' : shown'[i].w \in Claims
    BY <1>5, <1>7, <1>8, <1>9
  <1>11. Reminded'
    BY <1>1, <1>3, <1>7, <1>8, <1>10 DEF Reminded, Claims, E
  <1>12. ReminderOnce'
    <2>1. ASSUME NEW i \in DOMAIN shown', NEW k \in DOMAIN shown', i # k
          PROVE  shown'[i].w # shown'[k].w
      <3>1. CASE i \in DOMAIN shown /\ k \in DOMAIN shown
        BY <1>7, <2>1, <3>1 DEF JobsInv, ReminderOnce
      <3>2. CASE i = Len(shown) + 1
        BY <1>5, <1>7, <1>8, <1>9, <2>1, <3>2
      <3>3. CASE k = Len(shown) + 1
        BY <1>5, <1>7, <1>8, <1>9, <2>1, <3>3
      <3> QED  BY <1>9, <3>1, <3>2, <3>3
    <2> QED  BY <2>1 DEF ReminderOnce
  <1>13. RemindersApart'
    BY <1>1 DEF JobsInv, RemindersApart
  <1> QED  BY <1>3, <1>11, <1>12, <1>13 DEF JobsInv

LEMMA MarkCommittedInv ==
    ASSUME JobsInv, MarkCommitted
    PROVE  JobsInv'
  <1> DEFINE j == Committed(J)
  <1>1. runner.pc = "mark" /\ Set(runner.w, j)
        /\ runner' = [runner EXCEPT !.pc = "idle", !.w = None]
        /\ UNCHANGED <<journal, notes, shown, spent, now>>
    BY DEF MarkCommitted
  <1>2. /\ runner.w # None /\ runner.w \in DOMAIN jobs /\ J \in Job
        /\ J.attempt = spent[runner.w] + 1
    BY <1>1, HeldJob
  <1>3. /\ j \in Job /\ j.state = "COMMITTED" /\ j.attempt = J.attempt
        /\ j.lease = None /\ j.result = J.result
    BY <1>2, CommittedJob
  <1> HIDE DEF j
  <1>4. spent' \in [DOMAIN jobs -> Nat]
        /\ \A v \in DOMAIN jobs : v # runner.w => spent'[v] = spent[v]
    BY <1>1 DEF JobsInv, Laid
  <1>5. j.attempt = spent'[runner.w] + (IF j.state = "COMMITTED" THEN 1 ELSE 0)
    BY <1>1, <1>2, <1>3
  <1> QED  BY <1>1, <1>2, <1>3, <1>4, <1>5, LetGo

(* The process ends: the attempt of the job it held is spent.              *)
LEMMA CrashInv ==
    ASSUME JobsInv, Crash
    PROVE  JobsInv'
  <1>1. /\ runner' = Stopped
        /\ IF runner.w = None THEN UNCHANGED spent ELSE Spend(runner.w)
        /\ UNCHANGED <<jobs, journal, notes, shown, now>>
    BY DEF Crash
  <1>2. runner' \in Runner /\ runner'.pc = "off" /\ runner'.w = None
    BY <1>1 DEF Stopped, Runner, Points
  <1>3. /\ spent' \in [DOMAIN jobs -> Nat]
        /\ \A v \in DOMAIN jobs : spent'[v] = spent[v] + (IF runner.w = v THEN 1 ELSE 0)
    <2>1. spent \in [DOMAIN jobs -> Nat] /\ \A v \in DOMAIN jobs : v # None
      BY Numbers DEF JobsInv, Laid
    <2>2. CASE runner.w = None
      BY <1>1, <2>1, <2>2
    <2>3. CASE runner.w # None
      <3>1. runner.w \in DOMAIN jobs
        BY <2>3 DEF JobsInv, Held
      <3>2. spent' = [spent EXCEPT ![runner.w] = @ + 1]
        BY <1>1, <2>3 DEF Spend
      <3> QED  BY <2>1, <3>1, <3>2
    <2> QED  BY <2>2, <2>3
  <1>4. Laid'
    BY <1>1, <1>2, <1>3 DEF JobsInv, Laid, Runner
  <1>5. Leased' /\ Journalled'
    BY <1>1 DEF JobsInv, Leased, Journalled
  <1>6. Held'
    BY <1>2 DEF Held
  <1>7. AttemptsAreSpent'
    <2>1. ASSUME NEW v \in DOMAIN jobs
          PROVE  jobs[v].attempt = spent'[v]
                   + (IF runner'.w = v \/ jobs[v].state = "COMMITTED" THEN 1 ELSE 0)
      <3>1. jobs[v].attempt = spent[v]
              + (IF runner.w = v \/ jobs[v].state = "COMMITTED" THEN 1 ELSE 0)
        BY DEF JobsInv, AttemptsAreSpent
      <3>2. spent[v] \in Nat /\ v # None
        BY Numbers DEF JobsInv, Laid
      <3>3. runner.w = v => jobs[v].state # "COMMITTED"
        BY <3>2 DEF JobsInv, Held, Laid, Points
      <3> QED  BY <1>2, <1>3, <3>1, <3>2, <3>3
    <2> QED  BY <1>1, <2>1 DEF AttemptsAreSpent
  <1>8. Reminded' /\ ReminderOnce' /\ RemindersApart'
    BY <1>1, <1>2, RemindersKept
  <1> QED  BY <1>4, <1>5, <1>6, <1>7, <1>8 DEF JobsInv

(* A replay starts a job again that the runner does not hold.              *)
LEMMA ReplayInv ==
    ASSUME JobsInv, NEW w \in Windows, ReplayTerminal(w)
    PROVE  JobsInv'
  <1> DEFINE j == Replayed(jobs[w])
  <1>1. /\ w \in DOMAIN jobs /\ jobs[w].state = "TERMINAL_FAILED" /\ Set(w, j)
        /\ spent' = [spent EXCEPT ![w] = 0]
        /\ UNCHANGED <<journal, notes, runner, shown, now>>
    BY DEF ReplayTerminal
  <1>2. jobs[w] \in Job
    BY <1>1 DEF JobsInv, Laid
  <1>3. /\ j \in Job /\ j.state = "READY" /\ j.attempt = 0 /\ j.lease = None
        /\ j.next # None /\ j.result = jobs[w].result
    BY <1>2, ReplayedJob DEF JobsInv
  <1> HIDE DEF j
  <1>4. /\ spent' \in [DOMAIN jobs -> Nat] /\ spent'[w] = 0
        /\ \A v \in DOMAIN jobs : v # w => spent'[v] = spent[v]
    BY <1>1 DEF JobsInv, Laid
  <1>5. runner' \in Runner
    BY <1>1 DEF JobsInv, Laid, Runner
  <1>6. Laid' /\ Leased'
    BY <1>1, <1>3, <1>4, <1>5, JobWritten DEF JobsInv, Laid
  <1>7. /\ DOMAIN jobs' = DOMAIN jobs /\ jobs'[w] = j
        /\ \A v \in DOMAIN jobs : v # w => jobs'[v] = jobs[v]
    BY <1>1, <1>3, Written DEF JobsInv
  <1>8. runner.w # w
    BY <1>1, Numbers DEF JobsInv, Held, Laid, Points
  <1>9. Held'
    BY <1>1, <1>7, <1>8 DEF JobsInv, Held
  <1>10. Journalled'
    BY <1>1, <1>3, ResultKept
  <1>11. AttemptsAreSpent'
    <2>1. ASSUME NEW v \in DOMAIN jobs
          PROVE  jobs'[v].attempt = spent'[v]
                   + (IF runner'.w = v \/ jobs'[v].state = "COMMITTED" THEN 1 ELSE 0)
      <3>1. CASE v = w
        BY <1>1, <1>3, <1>4, <1>7, <1>8, <3>1
      <3>2. CASE v # w
        BY <1>1, <1>4, <1>7, <3>2 DEF JobsInv, AttemptsAreSpent
      <3> QED  BY <3>1, <3>2
    <2> QED  BY <1>7, <2>1 DEF AttemptsAreSpent
  <1>12. Reminded' /\ ReminderOnce' /\ RemindersApart'
    BY <1>1 DEF JobsInv, Reminded, ReminderOnce, RemindersApart, Claims
  <1> QED  BY <1>6, <1>9, <1>10, <1>11, <1>12 DEF JobsInv

LEMMA TickInv ==
    ASSUME JobsInv, Tick
    PROVE  JobsInv'
  <1>1. now < MaxTime /\ now' = now + 1
        /\ UNCHANGED <<jobs, journal, notes, runner, shown, spent>>
    BY DEF Tick
  <1>2. Laid'
    BY <1>1, Numbers DEF JobsInv, Laid
  <1>3. Leased' /\ Held' /\ Journalled' /\ AttemptsAreSpent'
    BY <1>1 DEF JobsInv, Leased, Held, Journalled, AttemptsAreSpent
  <1>4. Reminded' /\ ReminderOnce' /\ RemindersApart'
    BY <1>1 DEF JobsInv, Reminded, ReminderOnce, RemindersApart, Claims
  <1> QED  BY <1>2, <1>3, <1>4 DEF JobsInv

(* The signal is aborted, or the stopped runner is gone.                   *)
LEMMA StopInv ==
    ASSUME JobsInv, BeginShutdown \/ StopEnds
    PROVE  JobsInv'
  <1>1. UNCHANGED <<jobs, journal, notes, shown, spent, now>>
    BY DEF BeginShutdown, StopEnds
  <1>2. /\ runner' \in Runner /\ runner'.w = runner.w
        /\ runner'.pc = runner.pc \/ (runner.pc = "idle" /\ runner'.pc = "off")
    <2>1. CASE BeginShutdown
      BY <2>1 DEF BeginShutdown, JobsInv, Laid, Runner
    <2>2. CASE StopEnds
      BY <2>2 DEF StopEnds, Stopped, JobsInv, Held, Runner, Points
    <2> QED  BY <2>1, <2>2
  <1>3. Laid' /\ Leased' /\ Journalled' /\ AttemptsAreSpent'
    BY <1>1, <1>2
       DEF JobsInv, Laid, Runner, Leased, Journalled, AttemptsAreSpent
  <1>4. Held'
    BY <1>1, <1>2 DEF JobsInv, Held
  <1>5. Reminded' /\ ReminderOnce' /\ RemindersApart'
    BY <1>1, <1>2 DEF JobsInv, Reminded, ReminderOnce, RemindersApart, Claims
  <1> QED  BY <1>3, <1>4, <1>5 DEF JobsInv

(* Every step preserves the invariant.                                     *)
LEMMA NextInv == JobsInv /\ [Next]_vars => JobsInv'
  <1> SUFFICES ASSUME JobsInv, [Next]_vars PROVE JobsInv'
    OBVIOUS
  <1>1. CASE UNCHANGED vars
    BY <1>1 DEF vars, JobsInv, Laid, Leased, Held, Journalled, AttemptsAreSpent,
                Reminded, ReminderOnce, RemindersApart, Claims
  <1>2. ASSUME NEW w \in Windows, Seal(w) PROVE JobsInv'
    BY <1>2, SealInv
  <1>3. ASSUME NEW w \in Windows, ReplayTerminal(w) PROVE JobsInv'
    BY <1>3, ReplayInv
  <1>4. CASE InferFails \/ CommitFails
    <2>1. PICK fault \in Faults : Fail(fault)
      BY <1>4 DEF InferFails, CommitFails
    <2>2. runner.pc \notin {"off", "idle"}
      BY <1>4 DEF InferFails, CommitFails
    <2> QED  BY <2>1, <2>2, FailInv
  <1>5. CASE InferAborted \/ CommitAborted
    <2>1. /\ runner.pc \notin {"off", "idle"} /\ GiveUp
          /\ UNCHANGED <<journal, notes, shown, now>>
      BY <1>5 DEF InferAborted, CommitAborted
    <2> QED  BY <2>1, GiveUpInv
  <1>6. ASSUME NEW w \in DOMAIN jobs, Claim(w) PROVE JobsInv'
    BY <1>6, ClaimInv
  <1>7. CASE Start \/ PersistResult \/ BeginCommit \/ EmitNothing
    BY <1>7, StartInv, PersistResultInv, BeginCommitInv, EmitNothingInv
  <1>8. CASE ClaimReminder \/ Present \/ MarkCommitted
    BY <1>8, ClaimReminderInv, PresentInv, MarkCommittedInv
  <1>9. CASE StopEnds \/ BeginShutdown \/ Crash \/ Tick
    BY <1>9, StopInv, CrashInv, TickInv
  <1> QED
    BY <1>1, <1>2, <1>3, <1>4, <1>5, <1>6, <1>7, <1>8, <1>9 DEF Next, RunnerSteps

(* What the invariant says of the properties that are checked.             *)
LEMMA InvSafe == JobsInv => ReflectionJobsSafe
  <1> SUFFICES ASSUME JobsInv PROVE ReflectionJobsSafe
    OBVIOUS
  <1>1. DOMAIN journal \subseteq DOMAIN jobs
    BY DEF JobsInv, Journalled
  <1>2. \A w \in DOMAIN jobs :
           /\ jobs[w].state \in States /\ jobs[w].attempt \in Nat
           /\ jobs[w].first \in None..MaxTime /\ jobs[w].next \in None..MaxTime
           /\ jobs[w].lease \in None..MaxTime
           /\ jobs[w].result \in Results \cup {"none"}
    BY Fields DEF JobsInv, Laid
  <1>3. TypeOK
    BY <1>1, <1>2 DEF TypeOK, JobsInv, Laid, Leased, Points
  <1>4. ResultIsKept
    <2>1. runner.pc = "infer" => runner.w \notin DOMAIN journal
      BY DEF JobsInv, Held, Journalled
    <2> QED  BY <2>1 DEF ResultIsKept, JobsInv, Journalled
  <1> QED  BY <1>3, <1>4 DEF ReflectionJobsSafe, JobsInv

(* The invariant holds throughout.                                         *)
THEOREM JobsInvariant == Spec => []JobsInv
  <1>1. Init => JobsInv
    BY InitInv
  <1>2. JobsInv /\ [Next]_vars => JobsInv'
    BY NextInv
  <1> QED  BY <1>1, <1>2, PTL DEF Spec

(* A reminder is presented at most once per window, two of a key are       *)
(* DEDUPLICATION apart, a result once journalled is kept and not inferred  *)
(* again, and attempts are those that failed or died, however claims,      *)
(* failures, shutdowns, ends of the process and replays follow one another.*)
THEOREM ReflectionJobsSafeHolds == Spec => []ReflectionJobsSafe
  <1>1. Spec => []JobsInv
    BY JobsInvariant
  <1>2. JobsInv => ReflectionJobsSafe
    BY InvSafe
  <1> QED  BY <1>1, <1>2, PTL

-----------------------------------------------------------------------------
(* A retryable failure ends a job late.                                    *)

(* A step that writes a job which is not given up ends none.               *)
LEMMA NotEnded ==
    ASSUME JobsInv, NEW w \in DOMAIN jobs, NEW j \in Job, Set(w, j),
           j.state # "TERMINAL_FAILED"
    PROVE  GivesUpLateStep
  <1>1. jobs'[w] = j /\ \A v \in DOMAIN jobs : v # w => jobs'[v] = jobs[v]
    BY Written DEF JobsInv
  <1> QED  BY <1>1 DEF GivesUpLateStep

(* A failure that is not fatal: the first attempt was TERMINAL_AFTER ago.  *)
LEMMA FailsLate ==
    ASSUME JobsInv, runner.pc \notin {"off", "idle"}, NEW fault \in Faults, Fail(fault)
    PROVE  GivesUpLateStep
  <1>1. runner.w \in DOMAIN jobs /\ J \in Job /\ J.attempt # 0
    BY HeldJob
  <1>2. CASE runner.signal
    <2>1. Set(runner.w, Abandoned(J))
      BY <1>2 DEF Fail, GiveUp
    <2>2. Abandoned(J) \in Job /\ Abandoned(J).state # "TERMINAL_FAILED"
      BY <1>1, AbandonedJob DEF JobsInv
    <2> QED  BY <1>1, <2>1, <2>2, NotEnded
  <1>3. CASE ~runner.signal
    <2> DEFINE t == At(now + Delay(J.attempt))
    <2>1. Set(runner.w, Failed(J, Terminal(J, fault), t))
      BY <1>3 DEF Fail
    <2>2. t \in 0..MaxTime
      BY AtLater DEF Delay, JobsInv
    <2> HIDE DEF t
    <2>3. CASE ~Terminal(J, fault)
      <3>1. Set(runner.w, Failed(J, FALSE, t))
        BY <2>1, <2>3 DEF Failed
      <3>2. Failed(J, FALSE, t) \in Job
            /\ Failed(J, FALSE, t).state # "TERMINAL_FAILED"
        BY <1>1, <2>2, FailedJob
      <3> QED  BY <1>1, <3>1, <3>2, NotEnded
    <2>4. CASE Terminal(J, fault)
      <3>1. Terminal(J, fault) \in BOOLEAN
        BY DEF Terminal
      <3>2. Failed(J, Terminal(J, fault), t) \in Job
        BY <1>1, <2>2, <3>1, FailedJob
      <3>3. \A v \in DOMAIN jobs : v # runner.w => jobs'[v] = jobs[v]
        BY <1>1, <2>1, <3>2, Written DEF JobsInv
      <3>4. fault = "fatal" \/ now - jobs[runner.w].first >= TERMINAL_AFTER
        BY <2>4, <1>1, Numbers, Fields DEF Terminal, J, JobsInv, Laid
      <3> QED  BY <3>3, <3>4 DEF GivesUpLateStep
    <2> QED  BY <2>3, <2>4
  <1> QED  BY <1>2, <1>3

LEMMA StepIsLate == JobsInv /\ [Next]_vars => [GivesUpLateStep]_vars
  <1> SUFFICES ASSUME JobsInv, [Next]_vars, jobs' # jobs PROVE GivesUpLateStep
    BY DEF GivesUpLateStep
  <1>1. ASSUME NEW w \in Windows, Seal(w) PROVE GivesUpLateStep
    <2>1. \A v \in DOMAIN jobs : jobs'[v] = jobs[v]
      BY <1>1 DEF Seal, With
    <2> QED  BY <2>1 DEF GivesUpLateStep
  <1>2. ASSUME NEW w \in Windows, ReplayTerminal(w) PROVE GivesUpLateStep
    <2>1. w \in DOMAIN jobs /\ jobs[w] \in Job /\ Set(w, Replayed(jobs[w]))
      BY <1>2 DEF ReplayTerminal, JobsInv, Laid
    <2>2. Replayed(jobs[w]) \in Job /\ Replayed(jobs[w]).state # "TERMINAL_FAILED"
      BY <2>1, ReplayedJob DEF JobsInv
    <2> QED  BY <2>1, <2>2, NotEnded
  <1>3. ASSUME NEW w \in DOMAIN jobs, Claim(w) PROVE GivesUpLateStep
    <2>1. jobs[w] \in Job /\ Set(w, Claimed(jobs[w]))
      BY <1>3 DEF Claim, JobsInv, Laid
    <2>2. Claimed(jobs[w]) \in Job /\ Claimed(jobs[w]).state # "TERMINAL_FAILED"
      BY <2>1, ClaimedJob DEF JobsInv
    <2> QED  BY <2>1, <2>2, NotEnded
  <1>4. CASE InferFails \/ CommitFails
    <2>1. PICK fault \in Faults : Fail(fault)
      BY <1>4 DEF InferFails, CommitFails
    <2>2. runner.pc \notin {"off", "idle"}
      BY <1>4 DEF InferFails, CommitFails
    <2> QED  BY <2>1, <2>2, FailsLate
  <1>5. CASE InferAborted \/ CommitAborted
    <2>1. runner.pc \notin {"off", "idle"} /\ Set(runner.w, Abandoned(J))
      BY <1>5 DEF InferAborted, CommitAborted, GiveUp
    <2>2. runner.w \in DOMAIN jobs /\ J \in Job /\ J.attempt # 0
      BY <2>1, HeldJob
    <2>3. Abandoned(J) \in Job /\ Abandoned(J).state # "TERMINAL_FAILED"
      BY <2>2, AbandonedJob DEF JobsInv
    <2> QED  BY <2>1, <2>2, <2>3, NotEnded
  <1>6. CASE PersistResult
    <2>1. PICK r \in Results : Set(runner.w, Persisted(J, r))
      BY <1>6 DEF PersistResult
    <2>2. runner.w \in DOMAIN jobs /\ J \in Job
      BY <1>6, HeldJob DEF PersistResult
    <2>3. Persisted(J, r) \in Job /\ Persisted(J, r).state # "TERMINAL_FAILED"
      BY <2>2, PersistedJob
    <2> QED  BY <2>1, <2>2, <2>3, NotEnded
  <1>7. CASE BeginCommit
    <2>1. Set(runner.w, Begun(J))
      BY <1>7 DEF BeginCommit
    <2>2. runner.w \in DOMAIN jobs /\ J \in Job
      BY <1>7, HeldJob DEF BeginCommit
    <2>3. Begun(J) \in Job /\ Begun(J).state # "TERMINAL_FAILED"
      BY <2>2, BegunJob DEF JobsInv
    <2> QED  BY <2>1, <2>2, <2>3, NotEnded
  <1>8. CASE MarkCommitted
    <2>1. Set(runner.w, Committed(J))
      BY <1>8 DEF MarkCommitted
    <2>2. runner.w \in DOMAIN jobs /\ J \in Job
      BY <1>8, HeldJob DEF MarkCommitted
    <2>3. Committed(J) \in Job /\ Committed(J).state # "TERMINAL_FAILED"
      BY <2>2, CommittedJob
    <2> QED  BY <2>1, <2>2, <2>3, NotEnded
  <1>9. CASE \/ Start \/ EmitNothing \/ ClaimReminder \/ Present \/ StopEnds
             \/ BeginShutdown \/ Crash \/ Tick \/ UNCHANGED vars
    BY <1>9 DEF Start, EmitNothing, ClaimReminder, Present, StopEnds, BeginShutdown,
                Crash, Tick, vars
  <1> QED
    BY <1>1, <1>2, <1>3, <1>4, <1>5, <1>6, <1>7, <1>8, <1>9 DEF Next, RunnerSteps

(* When no failure is explicitly not retryable, a job is given up only     *)
(* after TERMINAL_AFTER of failing since its first attempt.                *)
THEOREM GivesUpLateHolds == Spec => GivesUpLate
  <1>1. Spec => []JobsInv
    BY JobsInvariant
  <1>2. JobsInv /\ [Next]_vars => [GivesUpLateStep]_vars
    BY StepIsLate
  <1> QED  BY <1>1, <1>2, PTL DEF Spec, GivesUpLate

-----------------------------------------------------------------------------
(* The jobs implement ReflectionJobQueue.                                  *)

(* What may be claimed, and in which order, is the same in both.           *)
LEMMA SameRunnable ==
    ASSUME JobsInv, NEW v \in DOMAIN jobs
    PROVE  Runnable(v) <=> Q!IsRunnable(jobs[v])
  <1> DEFINE j == jobs[v]
  <1>1. j \in Job
    BY DEF JobsInv, Laid
  <1>2. /\ j.lease # None <=> j.state \in {"RUNNING", "COMMITTING"}
        /\ j.state \in {"READY", "RETRY_WAIT"} => j.next # None
    BY DEF JobsInv, Leased
  <1>3. Runnable(v) <=> \/ j.state \in {"READY", "RETRY_WAIT"} /\ j.next <= now
                        \/ j.state \in {"RUNNING", "COMMITTING"} /\ j.lease <= now
                        \/ j.state = "RESULT_PERSISTED"
    BY DEF Runnable
  <1>4. j.state \in States
    BY <1>1, Fields
  <1> SUFFICES Runnable(v) <=> Q!IsRunnable(j)
    OBVIOUS
  <1> HIDE DEF j
  <1>5. CASE j.state = "READY"
    <2>1. Q!IsRunnable(j) <=> (IF j.next = Q!None THEN j.created ELSE j.next) <= now
      BY <1>5, Zenon DEF Q!IsRunnable
    <2> QED  BY <1>2, <1>3, <1>5, <2>1 DEF None, Q!None
  <1>6. CASE j.state = "RETRY_WAIT"
    <2>1. Q!IsRunnable(j) <=> j.next # Q!None /\ j.next <= now
      BY <1>6, Zenon DEF Q!IsRunnable
    <2> QED  BY <1>2, <1>3, <1>6, <2>1 DEF None, Q!None
  <1>7. CASE j.state \in {"RUNNING", "COMMITTING"}
    <2>1. j.state # "READY" /\ j.state # "RETRY_WAIT"
      BY <1>7
    <2>2. Q!IsRunnable(j) <=> j.lease # Q!None /\ j.lease <= now
      BY <1>7, <2>1, Zenon DEF Q!IsRunnable
    <2> QED  BY <1>2, <1>3, <1>7, <2>2 DEF None, Q!None
  <1>8. CASE j.state = "RESULT_PERSISTED"
    <2>1. Q!IsRunnable(j)
      BY <1>8, Zenon DEF Q!IsRunnable
    <2> QED  BY <1>3, <1>8, <2>1
  <1>9. CASE j.state \in {"COMMITTED", "TERMINAL_FAILED"}
    <2>1. /\ j.state # "READY" /\ j.state # "RETRY_WAIT" /\ j.state # "RESULT_PERSISTED"
          /\ j.state \notin {"RUNNING", "COMMITTING"}
      BY <1>9
    <2>2. ~Q!IsRunnable(j)
      BY <2>1, Zenon DEF Q!IsRunnable
    <2> QED  BY <1>3, <2>1, <2>2
  <1> QED
    <2>1. \/ j.state = "READY" \/ j.state = "RETRY_WAIT"
          \/ j.state \in {"RUNNING", "COMMITTING"} \/ j.state = "RESULT_PERSISTED"
          \/ j.state \in {"COMMITTED", "TERMINAL_FAILED"}
      BY <1>4 DEF States
    <2> QED  BY <1>5, <1>6, <1>7, <1>8, <1>9, <2>1, Zenon

LEMMA SameOrder ==
    ASSUME NEW v, NEW w
    PROVE  Earlier(Rank(w), Rank(v)) <=> Q!Before(w, v)
  BY DEF Earlier, Rank, Q!Before, Q!Due, None, Q!None

(* A claim takes the oldest runnable job.                                  *)
LEMMA ClaimIsClaim ==
    ASSUME JobsInv, NEW w \in DOMAIN jobs, Claim(w)
    PROVE  Q!claimNextRunnable /\ now' = now
  <1>1. w \in Q!Runnable
    BY SameRunnable DEF Claim, Oldest, Candidates, Q!Runnable
  <1>2. \A v \in Q!Runnable \ {w} : Q!Before(w, v)
    <2>1. \A v \in Q!Runnable : v \in Candidates
      BY SameRunnable DEF Candidates, Q!Runnable
    <2>2. \A v \in Candidates \ {w} : Earlier(Rank(w), Rank(v))
      BY DEF Claim, Oldest
    <2> QED  BY <2>1, <2>2, SameOrder
  <1>3. Q!Set(w, [jobs[w] EXCEPT
                !.state = IF jobs[w].result = "none" THEN "RUNNING"
                          ELSE "COMMITTING",
                !.attempt = @ + 1,
                !.first = IF @ = Q!None THEN now ELSE @,
                !.next = Q!None,
                !.lease = Q!At(now + LEASE)])
    <2> DEFINE t == At(now + LEASE)
               f == IF jobs[w].first = None THEN now ELSE jobs[w].first
               s == IF jobs[w].result = "none" THEN "RUNNING" ELSE "COMMITTING"
               a == jobs[w].attempt + 1
               q == [jobs[w] EXCEPT
                        !.state = IF jobs[w].result = "none" THEN "RUNNING"
                                  ELSE "COMMITTING",
                        !.attempt = @ + 1,
                        !.first = IF @ = Q!None THEN now ELSE @,
                        !.next = Q!None,
                        !.lease = Q!At(now + LEASE)]
               c == Claimed(jobs[w])
    <2>1. jobs[w] \in Job
      BY DEF JobsInv, Laid
    <2>2. c = [jobs[w] EXCEPT !.state = s, !.attempt = a, !.next = None, !.first = f,
                              !.lease = t]
      BY <2>1 DEF Claimed, Job
    <2>3. q = [jobs[w] EXCEPT !.state = s, !.attempt = a, !.first = f, !.next = None,
                              !.lease = t]
      BY <2>1 DEF None, Q!None, At, Q!At, Job
    <2> HIDE DEF t, f, s, a, q, c
    <2>4. c = [state |-> s, attempt |-> a, created |-> jobs[w].created, first |-> f,
               next |-> None, lease |-> t, result |-> jobs[w].result]
      BY <2>1, <2>2 DEF Job
    <2>5. q = [state |-> s, attempt |-> a, created |-> jobs[w].created, first |-> f,
               next |-> None, lease |-> t, result |-> jobs[w].result]
      BY <2>1, <2>3 DEF Job
    <2>6. Set(w, c)
      BY DEF Claim, c
    <2>7. Q!Set(w, q)
      BY <2>4, <2>5, <2>6 DEF Set, Q!Set
    <2> QED  BY <2>7 DEF q
  <1> QED  BY <1>1, <1>2, <1>3 DEF Q!claimNextRunnable, Claim

(* A job given back.                                                       *)
LEMMA GiveUpIsAbandon ==
    ASSUME JobsInv, runner.pc \notin {"off", "idle"}, Set(runner.w, Abandoned(J))
    PROVE  Q!abandonClaim(runner.w)
  <1>1. runner.w \in DOMAIN jobs
    BY HeldJob
  <1>2. jobs[runner.w].state \in {"RUNNING", "RESULT_PERSISTED", "COMMITTING"}
    BY <1>1, HeldJob DEF JobsInv, Held, Laid, Points
  <1>3. CASE J.result = "none"
    BY <1>2, <1>3 DEF Q!abandonClaim, Set, Q!Set, Abandoned, J, None, Q!None
  <1>4. CASE J.result # "none"
    BY <1>2, <1>4 DEF Q!abandonClaim, Set, Q!Set, Abandoned, J, None, Q!None
  <1> QED  BY <1>3, <1>4

(* A failure, or a job given back instead.                                 *)
LEMMA FailIsFailure ==
    ASSUME JobsInv, runner.pc \in {"infer", "commit", "present", "mark"},
           NEW fault \in Faults, Fail(fault)
    PROVE  Q!recordFailure(runner.w) \/ Q!abandonClaim(runner.w)
  <1>1. runner.pc \notin {"off", "idle"}
    OBVIOUS
  <1>2. CASE runner.signal
    <2>1. Set(runner.w, Abandoned(J))
      BY <1>2 DEF Fail, GiveUp
    <2> QED  BY <1>1, <2>1, GiveUpIsAbandon
  <1>3. CASE ~runner.signal
    <2> DEFINE t == At(now + Delay(J.attempt))
    <2>1. Set(runner.w, Failed(J, Terminal(J, fault), t))
      BY <1>3 DEF Fail
    <2>2. t \in now..MaxTime
      BY AtLater DEF Delay, JobsInv
    <2>3. jobs[runner.w].state \in {"RUNNING", "COMMITTING"}
      BY HeldJob, <1>1 DEF JobsInv, Held
    <2> HIDE DEF t
    <2>4. CASE Terminal(J, fault)
      <3>1. Q!Set(runner.w, [jobs[runner.w] EXCEPT !.state = "TERMINAL_FAILED",
                                 !.next = Q!None, !.lease = Q!None])
        BY <2>1, <2>4 DEF Set, Q!Set, Failed, J, None, Q!None
      <3> QED  BY <2>3, <3>1 DEF Q!recordFailure
    <2>5. CASE ~Terminal(J, fault)
      <3>1. Q!Set(runner.w, [jobs[runner.w] EXCEPT !.state = "RETRY_WAIT",
                                 !.next = t, !.lease = Q!None])
        BY <2>1, <2>5 DEF Set, Q!Set, Failed, J, None, Q!None
      <3> QED  BY <2>2, <2>3, <3>1 DEF Q!recordFailure
    <2> QED  BY <2>4, <2>5
  <1> QED  BY <1>2, <1>3

(* The initial states and every step are those of the reference.           *)
LEMMA InitIsQueue == Init => Q!QInit
  BY DEF Init, Q!QInit

LEMMA StepIsQueue == JobsInv /\ [Next]_vars => [Q!QNext]_<<jobs, now>>
  <1> SUFFICES ASSUME JobsInv, [Next]_vars, ~UNCHANGED <<jobs, now>> PROVE Q!QNext
    BY DEF Q!QNext
  <1>1. ASSUME NEW w \in Windows, Seal(w) PROVE Q!QNext
    <2>1. w \in Windows \ DOMAIN jobs /\ now' = now
      BY <1>1 DEF Seal
    <2>2. Q!Add(w)
      BY <1>1 DEF Seal, With, Q!Add, Q!NewJob, None, Q!None
    <2> QED  BY <2>1, <2>2 DEF Q!QNext
  <1>2. ASSUME NEW w \in Windows, ReplayTerminal(w) PROVE Q!QNext
    <2>1. w \in DOMAIN jobs /\ now' = now
      BY <1>2 DEF ReplayTerminal
    <2>2. Q!replayTerminal(w)
      BY <1>2 DEF ReplayTerminal, Set, Replayed, Q!replayTerminal, Q!Set, None, Q!None
    <2> QED  BY <2>1, <2>2 DEF Q!QNext
  <1>3. ASSUME NEW w \in DOMAIN jobs, Claim(w) PROVE Q!QNext
    BY <1>3, ClaimIsClaim DEF Q!QNext
  <1>4. CASE InferFails \/ CommitFails
    <2>1. PICK fault \in Faults : Fail(fault)
      BY <1>4 DEF InferFails, CommitFails
    <2>2. runner.pc \in {"infer", "commit", "present", "mark"}
      BY <1>4 DEF InferFails, CommitFails
    <2>3. Q!recordFailure(runner.w) \/ Q!abandonClaim(runner.w)
      BY <2>1, <2>2, FailIsFailure
    <2>4. runner.w \in DOMAIN jobs /\ now' = now
      BY <2>1, <2>2, HeldJob DEF Fail
    <2> QED  BY <2>3, <2>4 DEF Q!QNext
  <1>5. CASE InferAborted \/ CommitAborted
    <2>1. runner.pc \notin {"off", "idle"} /\ Set(runner.w, Abandoned(J)) /\ now' = now
      BY <1>5 DEF InferAborted, CommitAborted, GiveUp
    <2>2. runner.w \in DOMAIN jobs
      BY <2>1, HeldJob
    <2>3. Q!abandonClaim(runner.w)
      BY <2>1, GiveUpIsAbandon
    <2> QED  BY <2>1, <2>2, <2>3 DEF Q!QNext
  <1>6. CASE PersistResult
    <2>1. PICK r \in Results : Set(runner.w, Persisted(J, r))
      BY <1>6 DEF PersistResult
    <2>2. runner.pc = "infer" /\ now' = now
      BY <1>6 DEF PersistResult
    <2>3. /\ runner.w \in DOMAIN jobs /\ jobs[runner.w].state = "RUNNING"
          /\ jobs[runner.w].result = "none"
      BY <2>2, HeldJob DEF JobsInv, Held
    <2>4. Q!Set(runner.w, [jobs[runner.w] EXCEPT !.state = "RESULT_PERSISTED",
                               !.result = r, !.lease = Q!None])
      BY <2>1 DEF Set, Q!Set, Persisted, J, None, Q!None
    <2>5. Q!persistResult(runner.w)
      BY <2>3, <2>4 DEF Q!persistResult
    <2> QED  BY <2>2, <2>3, <2>5 DEF Q!QNext
  <1>7. CASE BeginCommit
    <2>1. runner.pc = "persisted" /\ now' = now /\ Set(runner.w, Begun(J))
      BY <1>7 DEF BeginCommit
    <2>2. runner.w \in DOMAIN jobs /\ jobs[runner.w].state = "RESULT_PERSISTED"
      BY <2>1, HeldJob DEF JobsInv, Held
    <2>3. Q!Set(runner.w, [jobs[runner.w] EXCEPT !.state = "COMMITTING",
                               !.lease = Q!At(now + LEASE)])
      BY <2>1 DEF Set, Q!Set, Begun, J, At, Q!At
    <2>4. Q!beginCommit(runner.w)
      BY <2>2, <2>3 DEF Q!beginCommit
    <2> QED  BY <2>1, <2>2, <2>4 DEF Q!QNext
  <1>8. CASE MarkCommitted
    <2>1. runner.pc = "mark" /\ now' = now /\ Set(runner.w, Committed(J))
      BY <1>8 DEF MarkCommitted
    <2>2. runner.w \in DOMAIN jobs /\ jobs[runner.w].state = "COMMITTING"
      BY <2>1, HeldJob DEF JobsInv, Held
    <2>3. Q!Set(runner.w, [jobs[runner.w] EXCEPT !.state = "COMMITTED",
                               !.next = Q!None, !.lease = Q!None])
      BY <2>1 DEF Set, Q!Set, Committed, J, None, Q!None
    <2>4. Q!markCommitted(runner.w)
      BY <2>2, <2>3 DEF Q!markCommitted
    <2> QED  BY <2>1, <2>2, <2>4 DEF Q!QNext
  <1>9. CASE Tick
    BY <1>9 DEF Tick, Q!QNext, Q!Tick
  <1>10. CASE \/ Start \/ EmitNothing \/ ClaimReminder \/ Present \/ StopEnds
              \/ BeginShutdown \/ Crash \/ UNCHANGED vars
    BY <1>10 DEF Start, EmitNothing, ClaimReminder, Present, StopEnds, BeginShutdown,
                 Crash, vars
  <1> QED
    BY <1>1, <1>2, <1>3, <1>4, <1>5, <1>6, <1>7, <1>8, <1>9, <1>10
       DEF Next, RunnerSteps

(* The runner and the sink use the jobs as the reference repository allows *)
(* it: every step of the detailed system is an operation of the repository *)
(* in a state that accepts it, or changes no job.                          *)
THEOREM JobsAreAQueue == Spec => IsAQueue
  <1>1. Spec => []JobsInv
    BY JobsInvariant
  <1>2. Init => Q!QInit
    BY InitIsQueue
  <1>3. JobsInv /\ [Next]_vars => [Q!QNext]_<<jobs, now>>
    BY StepIsQueue
  <1> QED  BY <1>1, <1>2, <1>3, PTL DEF Spec, IsAQueue, Q!Queue

=============================================================================
