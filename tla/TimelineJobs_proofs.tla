------------------------- MODULE TimelineJobs_proofs -------------------------
(***************************************************************************)
(* Proofs about the jobs of Timeline windows, for any number of windows,   *)
(* consumers, failures, leases and faults: a stored result, its AgentInput *)
(* and the state of its job go together, a stored result is the point of   *)
(* no return, an aborted claim costs no attempt, and an AgentInput is      *)
(* acknowledged once (TimelineJobsSafe).                                   *)
(*                                                                         *)
(* The argument follows the one claim that is under way: while the runner  *)
(* holds it, its job is running, past its result, or removed by retention; *)
(* a window that retention removed is never sealed again, so the claim     *)
(* cannot be taken for one of a later job.                                 *)
(***************************************************************************)
EXTENDS TimelineJobs, TLAPS

----------------------------------------------------------------------------
(* The inductive invariant *)

States == {"NONE", "READY", "RUNNING", "RETRY_WAIT", "TERMINAL_FAILED"} \cup Persisted
Jobs == [state : States, attempt : Nat, first : {"none", "recent", "aged"},
         due : BOOLEAN, lapsed : BOOLEAN]
Inputs == [state : {"NONE", "HELD_LOCAL", "READY", "LEASED", "ACKED"}, token : 0..MaxLeases,
           lapsed : BOOLEAN, acked : Nat]
Steps == {"idle", "reading", "processing", "persist", "commit", "finish", "caught"}

Shape ==
    /\ job \in [Windows -> Jobs] /\ result \in [Windows -> Nat]
    /\ out \in [Windows -> Inputs]
    /\ held \in [Consumers -> SUBSET (Windows \X Nat)]
    /\ failed \in [Windows -> Nat] /\ lost \in [Windows -> Nat]
    /\ faults \in Nat /\ faults <= MaxFaults
    /\ {"pc", "w", "cause"} = DOMAIN run
    /\ run = [pc |-> run.pc, w |-> run.w, cause |-> run.cause]
    /\ run.pc \in Steps
    /\ run.pc # "idle" => run.w \in Windows

\* The claim of w is in the hands of the runner.
InHand(w) == run.pc # "idle" /\ run.w = w

\* What the runner may find the job of its claim to be; only retention takes it
\* away, and then for good.
ClaimInv ==
    run.pc # "idle" =>
        /\ run.pc \in {"reading", "processing", "persist"} =>
             job[run.w].state \in {"RUNNING", "NONE"}
        /\ run.pc \in {"commit", "finish"} => job[run.w].state \in Persisted \cup {"NONE"}
        /\ run.pc = "caught" => job[run.w].state \in Persisted \cup {"RUNNING", "NONE"}
        /\ job[run.w].state = "NONE" => run.w \in old

\* A job has a first attempt exactly when it has attempts.
FirstAttempt == \A w \in Windows : (job[w].attempt = 0) = (job[w].first = "none")

\* Nothing is counted for a window that has not been sealed.
Unsealed ==
    \A w \in Windows : job[w].state = "NONE" =>
        /\ job[w] = NoJob
        /\ w \notin old => failed[w] = 0 /\ lost[w] = 0

\* A failure that may be retried leaves room for the next one; the last one ends
\* the job.
FailuresBounded ==
    \A w \in Windows :
        /\ failed[w] <= MaxRetries + 1
        /\ job[w].state \notin {"TERMINAL_FAILED", "NONE"} => failed[w] <= MaxRetries
        /\ InHand(w) /\ run.pc = "caught" /\ run.cause # "final"
             /\ job[w].state = "RUNNING" => failed[w] < MaxRetries

\* A claim that nobody gives back was lost by a fault.
LostByFault ==
    \A w \in Windows :
        lost[w] + (IF job[w].state = "RUNNING" /\ ~InHand(w) THEN 1 ELSE 0) <= faults

\* The stored result is that of an attempt that was made.
ResultOfAttempt == \A w \in Windows : result[w] <= MaxAttempts

\* An acknowledged input was acknowledged under its last lease.
AckedLast == \A w \in Windows : out[w].state = "ACKED" => out[w].acked = out[w].token

JobsInv ==
    /\ Shape /\ ClaimInv /\ FirstAttempt /\ Unsealed
    /\ FailuresBounded /\ LostByFault /\ ResultOfAttempt /\ AckedLast
    /\ ResultWithJob /\ BudgetIsFailures

----------------------------------------------------------------------------
(* Each action preserves the invariant *)

\* The bounds are numbers.
LEMMA Bounds == MaxRetries \in Nat /\ MaxFaults \in Nat /\ MaxLeases \in Nat
BY JobsAssumption

\* So is the bound of the attempts.
LEMMA MaxNat == MaxAttempts \in Nat
BY Bounds DEF MaxAttempts

\* What completeWindow puts into the outbox.
LEMMA HeldIsInput == [NoOut EXCEPT !.state = "HELD_LOCAL"] \in Inputs
<1>1. 0 \in 0..MaxLeases BY Bounds
<1>2. NoOut \in Inputs BY <1>1 DEF NoOut, None, Inputs
<1>3. \A o \in Inputs : [o EXCEPT !.state = "HELD_LOCAL"] \in Inputs BY DEF Inputs
<1> QED BY <1>2, <1>3

\* Nothing is sealed, claimed or stored at first.
LEMMA JobsInvInit == Init => JobsInv
<1> SUFFICES ASSUME Init PROVE JobsInv OBVIOUS
<1> USE Bounds DEF MaxAttempts, InHand, Jobs, Inputs, States, Steps, Persisted, NoJob, NoOut,
        Idle, None
<1>a. run.pc = "idle" BY DEF Init
<1>b. \A w \in Windows :
        /\ job[w] = NoJob /\ out[w] = NoOut
        /\ job[w].state = "NONE" /\ job[w].attempt = 0 /\ job[w].first = "none"
        /\ out[w].state = "NONE" /\ result[w] = 0 /\ failed[w] = 0 /\ lost[w] = 0
  BY DEF Init
<1>1. Shape BY <1>a, <1>b DEF Shape, Init
<1>2. ClaimInv BY <1>1, <1>a, <1>b DEF ClaimInv, Shape, Init
<1>3. FirstAttempt BY <1>1, <1>a, <1>b DEF FirstAttempt, Shape
<1>4. Unsealed BY <1>1, <1>a, <1>b DEF Unsealed, Shape
<1>5. FailuresBounded
  <2> SUFFICES ASSUME NEW w \in Windows PROVE FailuresBounded!(w) BY DEF FailuresBounded
  <2>1. failed[w] = 0 BY <1>b
  <2> QED BY <1>a, <2>1
<1>6. LostByFault
  <2> SUFFICES ASSUME NEW w \in Windows PROVE LostByFault!(w) BY DEF LostByFault
  <2>1. lost[w] = 0 /\ faults = 0 /\ job[w].state = "NONE" BY <1>b DEF Init
  <2> QED BY <1>a, <2>1
<1>7. ResultOfAttempt
  <2> SUFFICES ASSUME NEW w \in Windows PROVE ResultOfAttempt!(w) BY DEF ResultOfAttempt
  <2>1. result[w] = 0 BY <1>b
  <2> QED BY <1>a, <2>1
<1>8. AckedLast BY <1>1, <1>a, <1>b DEF AckedLast, Shape
<1>9. ResultWithJob
  <2> SUFFICES ASSUME NEW w \in Windows PROVE ResultWithJob!(w) BY DEF ResultWithJob
  <2>1. result[w] = None /\ job[w].state = "NONE" /\ out[w].state = "NONE" BY <1>b
  <2> QED BY <1>a, <2>1
<1>10. BudgetIsFailures BY <1>1, <1>a, <1>b DEF BudgetIsFailures, Shape
<1> QED BY <1>1, <1>2, <1>3, <1>4, <1>5, <1>6, <1>7, <1>8, <1>9, <1>10 DEF JobsInv

\* What was never sealed is counted for nothing as long as no job disappears.
LEMMA UnsealedKept ==
  ASSUME Unsealed, UNCHANGED <<failed, lost, old>>,
         \A w \in Windows : job'[w].state = "NONE" => job'[w] = job[w]
  PROVE  Unsealed'
BY DEF Unsealed

\* sealWindow starts the job of a window that never had one.
LEMMA SealKeeps ==
  ASSUME JobsInv, NEW x \in Windows, SealWindow(x)
  PROVE  JobsInv'
<1> USE Bounds DEF JobsInv, Shape, Idle, InHand, Inputs, Jobs, NoJob, NoOut, None,
        Persisted, SealWindow, States, Steps, Unsealed, ghosts, outbox
<1>1. Shape' OBVIOUS
<1>2. ClaimInv' BY DEF ClaimInv
<1>3. FirstAttempt' BY DEF FirstAttempt
<1>4. Unsealed' OBVIOUS
<1>5. FailuresBounded' BY DEF FailuresBounded
<1>6. LostByFault' BY DEF LostByFault
<1>7. ResultOfAttempt' BY DEF ResultOfAttempt
<1>8. AckedLast' BY DEF AckedLast
<1>9. ResultWithJob' BY DEF ResultWithJob
<1>10. BudgetIsFailures' BY DEF BudgetIsFailures
<1> QED BY <1>1, <1>2, <1>3, <1>4, <1>5, <1>6, <1>7, <1>8, <1>9, <1>10

\* A retry delay that has passed.
LEMMA RetryDueKeeps ==
  ASSUME JobsInv, NEW x \in Windows, RetryDue(x)
  PROVE  JobsInv'
<1> USE Bounds DEF JobsInv, Shape, Idle, InHand, Inputs, Jobs, NoJob, NoOut, None,
        Persisted, RetryDue, States, Steps, ghosts, outbox
<1>a. x \in Windows /\ job[x] \in Jobs OBVIOUS
<1>b. [job[x] EXCEPT !.due = TRUE] \in Jobs
  BY <1>a
<1>c. job' = [job EXCEPT ![x] = [job[x] EXCEPT !.due = TRUE]] BY <1>a
<1>d. /\ job'[x] = [job[x] EXCEPT !.due = TRUE]
      /\ \A w \in Windows \ {x} : job'[w] = job[w]
  BY <1>a, <1>c
<1>e. job' \in [Windows -> Jobs] BY <1>b, <1>c
<1>f. job'[x].state = job[x].state /\ job[x].state # "NONE"
  BY <1>a, <1>d
<1>1. Shape' BY <1>a, <1>d, <1>e, <1>f
<1>2. ClaimInv' BY DEF ClaimInv
<1>3. FirstAttempt' BY DEF FirstAttempt
<1>4. Unsealed'
  <2>1. \A w \in Windows : job'[w].state = "NONE" => job'[w] = job[w] BY <1>d, <1>f
  <2>2. UNCHANGED <<failed, lost, old>> OBVIOUS
  <2>3. Unsealed BY DEF JobsInv
  <2> QED BY <2>1, <2>2, <2>3, UnsealedKept
<1>5. FailuresBounded' BY DEF FailuresBounded
<1>6. LostByFault' BY DEF LostByFault
<1>7. ResultOfAttempt' BY DEF ResultOfAttempt
<1>8. AckedLast' BY DEF AckedLast
<1>9. ResultWithJob' BY DEF ResultWithJob
<1>10. BudgetIsFailures' BY DEF BudgetIsFailures
<1> QED BY <1>1, <1>2, <1>3, <1>4, <1>5, <1>6, <1>7, <1>8, <1>9, <1>10

\* A lease of a job that runs out.
LEMMA LeaseLapsesKeeps ==
  ASSUME JobsInv, NEW x \in Windows, LeaseLapses(x)
  PROVE  JobsInv'
<1> USE Bounds DEF JobsInv, Shape, Idle, InHand, Inputs, Jobs, LeaseLapses, NoJob,
        NoOut, None, Persisted, States, Steps, ghosts, outbox
<1>a. x \in Windows /\ job[x] \in Jobs OBVIOUS
<1>b. [job[x] EXCEPT !.lapsed = TRUE] \in Jobs
  BY <1>a
<1>c. job' = [job EXCEPT ![x] = [job[x] EXCEPT !.lapsed = TRUE]] BY <1>a
<1>d. /\ job'[x] = [job[x] EXCEPT !.lapsed = TRUE]
      /\ \A w \in Windows \ {x} : job'[w] = job[w]
  BY <1>a, <1>c
<1>e. job' \in [Windows -> Jobs] BY <1>b, <1>c
<1>f. job'[x].state = job[x].state /\ job[x].state # "NONE"
  BY <1>a, <1>d
<1>1. Shape' BY <1>a, <1>d, <1>e, <1>f
<1>2. ClaimInv' BY DEF ClaimInv
<1>3. FirstAttempt' BY DEF FirstAttempt
<1>4. Unsealed'
  <2>1. \A w \in Windows : job'[w].state = "NONE" => job'[w] = job[w] BY <1>d, <1>f
  <2>2. UNCHANGED <<failed, lost, old>> OBVIOUS
  <2>3. Unsealed BY DEF JobsInv
  <2> QED BY <2>1, <2>2, <2>3, UnsealedKept
<1>5. FailuresBounded' BY DEF FailuresBounded
<1>6. LostByFault' BY DEF LostByFault
<1>7. ResultOfAttempt' BY DEF ResultOfAttempt
<1>8. AckedLast' BY DEF AckedLast
<1>9. ResultWithJob' BY DEF ResultWithJob
<1>10. BudgetIsFailures' BY DEF BudgetIsFailures
<1> QED BY <1>1, <1>2, <1>3, <1>4, <1>5, <1>6, <1>7, <1>8, <1>9, <1>10

\* 24 hours since the first attempt of a job; a job that never was has none.
LEMMA AgesKeeps ==
  ASSUME JobsInv, NEW x \in Windows, Ages(x)
  PROVE  JobsInv'
<1> USE Bounds DEF JobsInv, Shape, Ages, Idle, InHand, Inputs, Jobs, NoJob, NoOut,
        None, Persisted, States, Steps, ghosts, outbox
<1>a. x \in Windows /\ job[x] \in Jobs OBVIOUS
<1>b. [job[x] EXCEPT !.first = "aged"] \in Jobs
  BY <1>a
<1>c. job' = [job EXCEPT ![x] = [job[x] EXCEPT !.first = "aged"]] BY <1>a
<1>d. /\ job'[x] = [job[x] EXCEPT !.first = "aged"]
      /\ \A w \in Windows \ {x} : job'[w] = job[w]
  BY <1>a, <1>c
<1>e. job' \in [Windows -> Jobs] BY <1>b, <1>c
<1>f. job'[x].state = job[x].state /\ job[x].state # "NONE"
  BY <1>a, <1>d DEF FirstAttempt, Unsealed
<1>1. Shape' BY <1>a, <1>d, <1>e, <1>f
<1>2. ClaimInv' BY DEF ClaimInv
<1>3. FirstAttempt' BY DEF FirstAttempt
<1>4. Unsealed'
  <2>1. \A w \in Windows : job'[w].state = "NONE" => job'[w] = job[w] BY <1>d, <1>f
  <2>2. UNCHANGED <<failed, lost, old>> OBVIOUS
  <2>3. Unsealed BY DEF JobsInv
  <2> QED BY <2>1, <2>2, <2>3, UnsealedKept
<1>5. FailuresBounded' BY DEF FailuresBounded
<1>6. LostByFault' BY DEF LostByFault
<1>7. ResultOfAttempt' BY DEF ResultOfAttempt
<1>8. AckedLast' BY DEF AckedLast
<1>9. ResultWithJob' BY DEF ResultWithJob
<1>10. BudgetIsFailures' BY DEF BudgetIsFailures
<1> QED BY <1>1, <1>2, <1>3, <1>4, <1>5, <1>6, <1>7, <1>8, <1>9, <1>10

\* A lease of an AgentInput that runs out.
LEMMA InputLapseKeeps ==
  ASSUME JobsInv, NEW x \in Windows, InputLeaseLapses(x)
  PROVE  JobsInv'
<1> USE Bounds DEF JobsInv, Shape, Idle, InHand, InputLeaseLapses, Inputs, Jobs,
        NoJob, NoOut, None, Persisted, States, Steps, ghosts, outbox
<1>1. Shape'
  <2>5. \A o \in Inputs : [o EXCEPT !.lapsed = TRUE] \in Inputs BY DEF Inputs
  <2>1. [out[x] EXCEPT !.lapsed = TRUE] \in Inputs BY <2>5
  <2>2. out' = [out EXCEPT ![x] = [out[x] EXCEPT !.lapsed = TRUE]] OBVIOUS
  <2>3. out' \in [Windows -> Inputs] BY <2>1, <2>2
  <2>4. UNCHANGED <<job, result, held, failed, lost, faults, run>> OBVIOUS
  <2> QED BY <2>3, <2>4
<1>2. ClaimInv' BY DEF ClaimInv
<1>3. FirstAttempt' BY DEF FirstAttempt
<1>4. Unsealed' BY DEF Unsealed
<1>5. FailuresBounded' BY DEF FailuresBounded
<1>6. LostByFault' BY DEF LostByFault
<1>7. ResultOfAttempt' BY DEF ResultOfAttempt
<1>8. AckedLast' BY DEF AckedLast
<1>9. ResultWithJob' BY DEF ResultWithJob
<1>10. BudgetIsFailures' BY DEF BudgetIsFailures
<1> QED BY <1>1, <1>2, <1>3, <1>4, <1>5, <1>6, <1>7, <1>8, <1>9, <1>10

\* Retention removes every row of a window, also under a claim.
LEMMA CleanupKeeps ==
  ASSUME JobsInv, NEW x \in Windows, Cleanup(x)
  PROVE  JobsInv'
<1> USE Bounds DEF JobsInv, Shape, Cleanup, Idle, InHand, Inputs, Jobs, MaxAttempts,
        NoJob, NoOut, None, Persisted, States, Steps, ghosts, outbox
<1>1. Shape' OBVIOUS
<1>2. ClaimInv' BY DEF ClaimInv
<1>3. FirstAttempt' BY DEF FirstAttempt
<1>4. Unsealed' BY DEF Unsealed
<1>5. FailuresBounded' BY DEF FailuresBounded
<1>6. LostByFault' BY DEF LostByFault
<1>7. ResultOfAttempt' BY DEF ResultOfAttempt
<1>8. AckedLast' BY DEF AckedLast
<1>9. ResultWithJob' BY DEF ResultWithJob
<1>10. BudgetIsFailures' BY DEF BudgetIsFailures
<1> QED BY <1>1, <1>2, <1>3, <1>4, <1>5, <1>6, <1>7, <1>8, <1>9, <1>10

\* The window of the claim is looked up.
LEMMA GetWindowKeeps ==
  ASSUME JobsInv, GetWindow
  PROVE  JobsInv'
<1> USE Bounds DEF JobsInv, Shape, GetWindow, Idle, InHand, Inputs, Jobs, NoJob,
        NoOut, None, Persisted, States, Steps, ghosts, outbox
<1>1. Shape' OBVIOUS
<1>2. ClaimInv' BY DEF ClaimInv
<1>3. FirstAttempt' BY DEF FirstAttempt
<1>4. Unsealed' BY DEF Unsealed
<1>5. FailuresBounded' BY DEF FailuresBounded
<1>6. LostByFault' BY DEF LostByFault
<1>7. ResultOfAttempt' BY DEF ResultOfAttempt
<1>8. AckedLast' BY DEF AckedLast
<1>9. ResultWithJob' BY DEF ResultWithJob
<1>10. BudgetIsFailures' BY DEF BudgetIsFailures
<1> QED BY <1>1, <1>2, <1>3, <1>4, <1>5, <1>6, <1>7, <1>8, <1>9, <1>10

\* The window cannot be opened: a fault that loses the claim.
LEMMA GetWindowFailsKeeps ==
  ASSUME JobsInv, GetWindowFails
  PROVE  JobsInv'
<1> USE Bounds DEF JobsInv, Shape, GetWindowFails, Idle, InHand, Inputs, Jobs, NoJob,
        NoOut, None, Persisted, States, Steps, ghosts, outbox
<1>1. Shape' OBVIOUS
<1>2. ClaimInv' BY DEF ClaimInv
<1>3. FirstAttempt' BY DEF FirstAttempt
<1>4. Unsealed' BY DEF Unsealed
<1>5. FailuresBounded' BY DEF FailuresBounded
<1>6. LostByFault' BY DEF LostByFault
<1>7. ResultOfAttempt' BY DEF ResultOfAttempt
<1>8. AckedLast' BY DEF AckedLast
<1>9. ResultWithJob' BY DEF ResultWithJob
<1>10. BudgetIsFailures' BY DEF BudgetIsFailures
<1> QED BY <1>1, <1>2, <1>3, <1>4, <1>5, <1>6, <1>7, <1>8, <1>9, <1>10

\* The result is ready to be stored.
LEMMA ProcessedKeeps ==
  ASSUME JobsInv, Processed
  PROVE  JobsInv'
<1> USE Bounds DEF JobsInv, Shape, Idle, InHand, Inputs, Jobs, NoJob, NoOut, None,
        Persisted, Processed, States, Steps, ghosts, outbox
<1>1. Shape' OBVIOUS
<1>2. ClaimInv' BY DEF ClaimInv
<1>3. FirstAttempt' BY DEF FirstAttempt
<1>4. Unsealed' BY DEF Unsealed
<1>5. FailuresBounded' BY DEF FailuresBounded
<1>6. LostByFault' BY DEF LostByFault
<1>7. ResultOfAttempt' BY DEF ResultOfAttempt
<1>8. AckedLast' BY DEF AckedLast
<1>9. ResultWithJob' BY DEF ResultWithJob
<1>10. BudgetIsFailures' BY DEF BudgetIsFailures
<1> QED BY <1>1, <1>2, <1>3, <1>4, <1>5, <1>6, <1>7, <1>8, <1>9, <1>10

\* A step of the attempt throws.
LEMMA ProcessFailsKeeps ==
  ASSUME JobsInv, ProcessFails
  PROVE  JobsInv'
<1> USE Bounds DEF JobsInv, Shape, Idle, InHand, Inputs, Jobs, NoJob, NoOut, None,
        Persisted, ProcessFails, States, Steps, ghosts, outbox
<1>1. Shape' OBVIOUS
<1>2. ClaimInv' BY DEF ClaimInv
<1>3. FirstAttempt' BY DEF FirstAttempt
<1>4. Unsealed' BY DEF Unsealed
<1>5. FailuresBounded' BY DEF FailuresBounded
<1>6. LostByFault' BY DEF LostByFault
<1>7. ResultOfAttempt' BY DEF ResultOfAttempt
<1>8. AckedLast' BY DEF AckedLast
<1>9. ResultWithJob' BY DEF ResultWithJob
<1>10. BudgetIsFailures' BY DEF BudgetIsFailures
<1> QED BY <1>1, <1>2, <1>3, <1>4, <1>5, <1>6, <1>7, <1>8, <1>9, <1>10

\* A transaction of the commit fails.
LEMMA CommitFailsKeeps ==
  ASSUME JobsInv, CommitFails
  PROVE  JobsInv'
<1> USE Bounds DEF JobsInv, Shape, ClaimInv, CommitFails, Idle, InHand, Inputs, Jobs,
        NoJob, NoOut, None, Persisted, States, Steps, ghosts, outbox
<1>1. Shape' 
  <2>1. faults' \in Nat /\ faults' <= MaxFaults OBVIOUS
  <2>2. run' = [pc |-> "caught", w |-> run.w, cause |-> "retryable"] OBVIOUS
  <2> QED BY <2>1, <2>2
<1>2. ClaimInv' OBVIOUS
<1>3. FirstAttempt' BY DEF FirstAttempt
<1>4. Unsealed' BY DEF Unsealed
<1>5. FailuresBounded' BY DEF FailuresBounded
<1>6. LostByFault' BY DEF LostByFault
<1>7. ResultOfAttempt' BY DEF ResultOfAttempt
<1>8. AckedLast' BY DEF AckedLast
<1>9. ResultWithJob' BY DEF ResultWithJob
<1>10. BudgetIsFailures' BY DEF BudgetIsFailures
<1> QED BY <1>1, <1>2, <1>3, <1>4, <1>5, <1>6, <1>7, <1>8, <1>9, <1>10

\* The shutdown signal is set and reset.
LEMMA AbortKeeps ==
  ASSUME JobsInv, Abort \/ Restart
  PROVE  JobsInv'
<1> USE Bounds DEF JobsInv, Shape, Abort, Idle, InHand, Inputs, Jobs, NoJob, NoOut,
        None, Persisted, Restart, States, Steps, ghosts, outbox
<1>1. Shape' OBVIOUS
<1>2. ClaimInv' BY DEF ClaimInv
<1>3. FirstAttempt' BY DEF FirstAttempt
<1>4. Unsealed' BY DEF Unsealed
<1>5. FailuresBounded' BY DEF FailuresBounded
<1>6. LostByFault' BY DEF LostByFault
<1>7. ResultOfAttempt' BY DEF ResultOfAttempt
<1>8. AckedLast' BY DEF AckedLast
<1>9. ResultWithJob' BY DEF ResultWithJob
<1>10. BudgetIsFailures' BY DEF BudgetIsFailures
<1> QED BY <1>1, <1>2, <1>3, <1>4, <1>5, <1>6, <1>7, <1>8, <1>9, <1>10

\* A crash: a fault that may lose one claim.
LEMMA CrashKeeps ==
  ASSUME JobsInv, Crash
  PROVE  JobsInv'
<1> USE Bounds DEF JobsInv, Shape, Crash, Idle, InHand, Inputs, Jobs, NoJob, NoOut,
        None, Persisted, States, Steps, ghosts, outbox
<1>1. Shape' OBVIOUS
<1>2. ClaimInv' BY DEF ClaimInv
<1>3. FirstAttempt' BY DEF FirstAttempt
<1>4. Unsealed' BY DEF Unsealed
<1>5. FailuresBounded' BY DEF FailuresBounded
<1>6. LostByFault' BY DEF LostByFault
<1>7. ResultOfAttempt' BY DEF ResultOfAttempt
<1>8. AckedLast' BY DEF AckedLast
<1>9. ResultWithJob' BY DEF ResultWithJob
<1>10. BudgetIsFailures' BY DEF BudgetIsFailures
<1> QED BY <1>1, <1>2, <1>3, <1>4, <1>5, <1>6, <1>7, <1>8, <1>9, <1>10

\* An input is released to the hosts.
LEMMA ReleaseKeeps ==
  ASSUME JobsInv, NEW x \in Windows, Release(x)
  PROVE  JobsInv'
<1> USE Bounds DEF JobsInv, Shape, Idle, InHand, Inputs, Jobs, NoJob, NoOut, None,
        Persisted, Release, States, Steps, ghosts, outbox
<1>1. Shape'
  <2>5. \A o \in Inputs : [o EXCEPT !.state = "READY"] \in Inputs BY DEF Inputs
  <2>1. [out[x] EXCEPT !.state = "READY"] \in Inputs BY <2>5
  <2>2. out' = [out EXCEPT ![x] = [out[x] EXCEPT !.state = "READY"]] OBVIOUS
  <2>3. out' \in [Windows -> Inputs] BY <2>1, <2>2
  <2>4. UNCHANGED <<job, result, held, failed, lost, faults, run>> OBVIOUS
  <2> QED BY <2>3, <2>4
<1>2. ClaimInv' BY DEF ClaimInv
<1>3. FirstAttempt' BY DEF FirstAttempt
<1>4. Unsealed' BY DEF Unsealed
<1>5. FailuresBounded' BY DEF FailuresBounded
<1>6. LostByFault' BY DEF LostByFault
<1>7. ResultOfAttempt' BY DEF ResultOfAttempt
<1>8. AckedLast' BY DEF AckedLast
<1>9. ResultWithJob' BY DEF ResultWithJob
<1>10. BudgetIsFailures' BY DEF BudgetIsFailures
<1> QED BY <1>1, <1>2, <1>3, <1>4, <1>5, <1>6, <1>7, <1>8, <1>9, <1>10

\* An input is leased.
LEMMA LeaseKeeps ==
  ASSUME JobsInv, NEW c \in Consumers, NEW x \in Windows, Lease(c, x)
  PROVE  JobsInv'
<1> USE Bounds DEF JobsInv, Shape, Idle, InHand, Inputs, Jobs, Lease, NoJob, NoOut,
        None, Persisted, States, Steps, ghosts, outbox
<1>1. Shape' OBVIOUS
<1>2. ClaimInv' BY DEF ClaimInv
<1>3. FirstAttempt' BY DEF FirstAttempt
<1>4. Unsealed' BY DEF Unsealed
<1>5. FailuresBounded' BY DEF FailuresBounded
<1>6. LostByFault' BY DEF LostByFault
<1>7. ResultOfAttempt' BY DEF ResultOfAttempt
<1>8. AckedLast' BY DEF AckedLast
<1>9. ResultWithJob' BY DEF ResultWithJob
<1>10. BudgetIsFailures' BY DEF BudgetIsFailures
<1> QED BY <1>1, <1>2, <1>3, <1>4, <1>5, <1>6, <1>7, <1>8, <1>9, <1>10

\* The signal is seen while the claim runs: it is given back.
LEMMA SeesAbortKeeps ==
  ASSUME JobsInv, SeesAbort, job[run.w].state = "RUNNING"
  PROVE  JobsInv'
<1> USE Bounds DEF JobsInv, Shape, Abandoned, Idle, InHand, Inputs, Jobs, NoJob,
        NoOut, None, Persisted, SeesAbort, States, Steps, ghosts, outbox
<1>a. run.w \in Windows /\ job[run.w] \in Jobs OBVIOUS
<1>h. job[run.w].attempt - 1 \in Nat /\ job[run.w].first # "none"
  BY <1>a DEF BudgetIsFailures, FirstAttempt
<1>g. job[run.w].attempt \in Nat \ {0} BY <1>a DEF BudgetIsFailures
<1>b. Abandoned(job[run.w]) \in Jobs
  BY <1>a, <1>g, <1>h
<1>c. job' = [job EXCEPT ![run.w] = Abandoned(job[run.w])] BY <1>a, <1>g
<1>d. /\ job'[run.w] = Abandoned(job[run.w])
      /\ \A w \in Windows \ {run.w} : job'[w] = job[w]
  BY <1>a, <1>c
<1>e. job' \in [Windows -> Jobs] BY <1>b, <1>c
<1>f. /\ job'[run.w].state = "READY"
      /\ job'[run.w].attempt = job[run.w].attempt - 1
      /\ job'[run.w].first = IF job[run.w].attempt = 1 THEN "none" ELSE job[run.w].first
      /\ \A w \in Windows \ {run.w} : job'[w] = job[w]
  BY <1>a, <1>d, <1>g
<1>1. Shape' BY <1>a, <1>e, <1>f
<1>2. ClaimInv' BY <1>a, <1>e, <1>f DEF ClaimInv
<1>3. FirstAttempt' 
  <2>1. CASE job[run.w].attempt = 1 BY <1>a, <1>e, <1>f, <2>1 DEF FirstAttempt
  <2>2. CASE job[run.w].attempt # 1 BY <1>a, <1>e, <1>f, <1>g, <1>h, <2>2 DEF FirstAttempt
  <2> QED BY <2>1, <2>2
<1>4. Unsealed'
  <2>1. \A w \in Windows : job'[w].state = "NONE" => job'[w] = job[w] BY <1>a, <1>f
  <2>2. UNCHANGED <<failed, lost, old>> OBVIOUS
  <2>3. Unsealed BY DEF JobsInv
  <2> QED BY <2>1, <2>2, <2>3, UnsealedKept
<1>5. FailuresBounded' BY <1>a, <1>e, <1>f DEF FailuresBounded
<1>6. LostByFault' BY <1>a, <1>e, <1>f DEF LostByFault
<1>7. ResultOfAttempt' BY <1>a, <1>e, <1>f DEF ResultOfAttempt
<1>8. AckedLast' BY <1>a, <1>e, <1>f DEF AckedLast
<1>9. ResultWithJob' BY <1>a, <1>e, <1>f DEF ResultWithJob
<1>10. BudgetIsFailures' BY <1>a, <1>e, <1>f DEF BudgetIsFailures
<1> QED BY <1>1, <1>2, <1>3, <1>4, <1>5, <1>6, <1>7, <1>8, <1>9, <1>10

\* completeWindow: the result, its input and the state of the job are stored together.
LEMMA PersistKeeps ==
  ASSUME JobsInv, Persist, job[run.w].state = "RUNNING"
  PROVE  JobsInv'
<1> USE Bounds DEF JobsInv, Shape, Idle, InHand, Inputs, Jobs, NoJob, NoOut, None,
        Persist, Persisted, States, Steps, Stored, ghosts, outbox
<1> DEFINE stored == [job[run.w] EXCEPT !.state = "RESULT_PERSISTED", !.due = FALSE,
                                        !.lapsed = FALSE]
<1>a. run.w \in Windows /\ job[run.w] \in Jobs OBVIOUS
<1>g. job[run.w].state = "RUNNING" OBVIOUS
<1>b. stored \in Jobs
  BY <1>a, <1>g
<1>c. job' = [job EXCEPT ![run.w] = stored] BY <1>a, <1>g
<1>d. /\ job'[run.w] = stored
      /\ \A w \in Windows \ {run.w} : job'[w] = job[w]
  BY <1>a, <1>c
<1>e. job' \in [Windows -> Jobs] BY <1>b, <1>c
<1>f. /\ job'[run.w].state = "RESULT_PERSISTED"
      /\ job'[run.w].attempt = job[run.w].attempt /\ job'[run.w].first = job[run.w].first
      /\ \A w \in Windows \ {run.w} : job'[w] = job[w]
  BY <1>a, <1>d, <1>g
<1>r. result' = [result EXCEPT ![run.w] = job[run.w].attempt] OBVIOUS
<1>o. out' = [out EXCEPT ![run.w] = [NoOut EXCEPT !.state = "HELD_LOCAL"]] OBVIOUS
<1>s. /\ UNCHANGED <<held, old, aborted, failed, lost, faults>>
      /\ run' = [pc |-> "commit", w |-> run.w, cause |-> run.cause]
  OBVIOUS
<1>g1. job[run.w].attempt \in Nat \ {0} /\ job[run.w].attempt <= MaxAttempts
  BY <1>a DEF BudgetIsFailures, FailuresBounded, LostByFault, MaxAttempts
<1> HIDE DEF Persist, Stored
<1>1. Shape' 
  <2>1. [NoOut EXCEPT !.state = "HELD_LOCAL"] \in Inputs BY HeldIsInput
  <2>2. out' \in [Windows -> Inputs] BY <1>o, <2>1
  <2>3. result' \in [Windows -> Nat] BY <1>r, <1>g1
  <2> QED BY <1>a, <1>e, <1>s, <2>2, <2>3
<1>2. ClaimInv' BY <1>a, <1>e, <1>f, <1>s DEF ClaimInv
<1>3. FirstAttempt' BY <1>a, <1>e, <1>f, <1>s DEF FirstAttempt
<1>4. Unsealed' BY <1>a, <1>e, <1>f, <1>s DEF Unsealed
<1>5. FailuresBounded' BY <1>a, <1>e, <1>f, <1>s DEF FailuresBounded
<1>6. LostByFault' BY <1>a, <1>e, <1>f, <1>s DEF LostByFault
<1>7. ResultOfAttempt' 
  BY <1>a, <1>r, <1>g1, MaxNat DEF ResultOfAttempt
<1>8. AckedLast' BY <1>a, <1>o DEF AckedLast
<1>9. ResultWithJob' 
  <2>1. result'[run.w] # None /\ out'[run.w].state = "HELD_LOCAL" BY <1>a, <1>r, <1>o, <1>g1
  <2>2. \A w \in Windows \ {run.w} : result'[w] = result[w] /\ out'[w] = out[w]
    BY <1>a, <1>r, <1>o
  <2> QED BY <1>a, <1>e, <1>f, <1>s, <2>1, <2>2 DEF ResultWithJob
<1>10. BudgetIsFailures' BY <1>a, <1>e, <1>f, <1>s DEF BudgetIsFailures
<1> QED BY <1>1, <1>2, <1>3, <1>4, <1>5, <1>6, <1>7, <1>8, <1>9, <1>10

\* The first transaction of finalizeWindowCommit.
LEMMA BeginCommitKeeps ==
  ASSUME JobsInv, BeginCommit, job[run.w].state \in {"RESULT_PERSISTED", "COMMITTING"}
  PROVE  JobsInv'
<1> USE Bounds DEF JobsInv, Shape, BeginCommit, Idle, InHand, Inputs, Jobs, NoJob,
        NoOut, None, Persisted, States, Steps, ghosts, outbox
<1>a. run.w \in Windows /\ job[run.w] \in Jobs OBVIOUS
<1>g. job[run.w].state \in {"RESULT_PERSISTED", "COMMITTING"} OBVIOUS
<1>b. [job[run.w] EXCEPT !.state = "COMMITTING"] \in Jobs
  BY <1>a, <1>g
<1>c. job' = [job EXCEPT ![run.w] = [job[run.w] EXCEPT !.state = "COMMITTING"]] BY <1>a, <1>g
<1>d. /\ job'[run.w] = [job[run.w] EXCEPT !.state = "COMMITTING"]
      /\ \A w \in Windows \ {run.w} : job'[w] = job[w]
  BY <1>a, <1>c
<1>e. job' \in [Windows -> Jobs] BY <1>b, <1>c
<1>f. /\ job'[run.w].state = "COMMITTING"
      /\ job'[run.w].attempt = job[run.w].attempt /\ job'[run.w].first = job[run.w].first
      /\ \A w \in Windows \ {run.w} : job'[w] = job[w]
  BY <1>a, <1>d, <1>g
<1>s. UNCHANGED <<result, out, held, old, aborted, failed, lost, faults>>
  OBVIOUS
<1>1. Shape' BY <1>a, <1>e, <1>f, <1>s
<1>2. ClaimInv' BY <1>a, <1>e, <1>f, <1>s DEF ClaimInv
<1>3. FirstAttempt' BY <1>a, <1>e, <1>f, <1>s DEF FirstAttempt
<1>4. Unsealed'
  <2>1. \A w \in Windows : job'[w].state = "NONE" => job'[w] = job[w] BY <1>a, <1>f
  <2>2. UNCHANGED <<failed, lost, old>> BY <1>s
  <2>3. Unsealed BY DEF JobsInv
  <2> QED BY <2>1, <2>2, <2>3, UnsealedKept
<1>5. FailuresBounded' BY <1>a, <1>e, <1>f, <1>s DEF FailuresBounded
<1>6. LostByFault' BY <1>a, <1>e, <1>f, <1>s DEF LostByFault
<1>7. ResultOfAttempt' BY <1>a, <1>e, <1>f, <1>s DEF ResultOfAttempt
<1>8. AckedLast' BY <1>a, <1>e, <1>f, <1>s DEF AckedLast
<1>9. ResultWithJob' BY <1>e, <1>f, <1>g, <1>s DEF ResultWithJob
<1>10. BudgetIsFailures'
  <2>1. \A w \in Windows :
           /\ job'[w].attempt = job[w].attempt /\ (job'[w].state # "NONE" => job[w].state # "NONE")
           /\ job'[w].state \in {"RUNNING"} \cup Persisted <=> job[w].state \in {"RUNNING"} \cup Persisted
    BY <1>a, <1>f, <1>g
  <2>2. BudgetIsFailures BY DEF JobsInv
  <2> QED BY <1>s, <2>1, <2>2 DEF BudgetIsFailures
<1> QED BY <1>1, <1>2, <1>3, <1>4, <1>5, <1>6, <1>7, <1>8, <1>9, <1>10

\* The second one.
LEMMA FinishCommitKeeps ==
  ASSUME JobsInv, FinishCommit, job[run.w].state = "COMMITTING"
  PROVE  JobsInv'
<1> USE Bounds DEF JobsInv, Shape, FinishCommit, Idle, InHand, Inputs, Jobs, NoJob,
        NoOut, None, Persisted, States, Steps, ghosts, outbox
<1>a. run.w \in Windows /\ job[run.w] \in Jobs OBVIOUS
<1>g. job[run.w].state = "COMMITTING" OBVIOUS
<1>b. [job[run.w] EXCEPT !.state = "COMMITTED"] \in Jobs
  BY <1>a, <1>g
<1>c. job' = [job EXCEPT ![run.w] = [job[run.w] EXCEPT !.state = "COMMITTED"]] BY <1>a, <1>g
<1>d. /\ job'[run.w] = [job[run.w] EXCEPT !.state = "COMMITTED"]
      /\ \A w \in Windows \ {run.w} : job'[w] = job[w]
  BY <1>a, <1>c
<1>e. job' \in [Windows -> Jobs] BY <1>b, <1>c
<1>f. /\ job'[run.w].state = "COMMITTED"
      /\ job'[run.w].attempt = job[run.w].attempt /\ job'[run.w].first = job[run.w].first
      /\ \A w \in Windows \ {run.w} : job'[w] = job[w]
  BY <1>a, <1>d, <1>g
<1>1. Shape' BY <1>a, <1>e, <1>f
<1>2. ClaimInv' BY <1>a, <1>e, <1>f DEF ClaimInv
<1>3. FirstAttempt' BY <1>a, <1>e, <1>f DEF FirstAttempt
<1>4. Unsealed'
  <2>1. \A w \in Windows : job'[w].state = "NONE" => job'[w] = job[w] BY <1>a, <1>f
  <2>2. UNCHANGED <<failed, lost, old>> OBVIOUS
  <2>3. Unsealed BY DEF JobsInv
  <2> QED BY <2>1, <2>2, <2>3, UnsealedKept
<1>5. FailuresBounded' BY <1>a, <1>e, <1>f DEF FailuresBounded
<1>6. LostByFault' BY <1>a, <1>e, <1>f DEF LostByFault
<1>7. ResultOfAttempt' BY <1>a, <1>e, <1>f DEF ResultOfAttempt
<1>8. AckedLast' BY <1>a, <1>e, <1>f DEF AckedLast
<1>9. ResultWithJob' BY <1>a, <1>e, <1>f DEF ResultWithJob
<1>10. BudgetIsFailures' BY <1>a, <1>e, <1>f DEF BudgetIsFailures
<1> QED BY <1>1, <1>2, <1>3, <1>4, <1>5, <1>6, <1>7, <1>8, <1>9, <1>10

\* An attempt that was stopped by the signal is given back.
LEMMA CaughtAbortedKeeps ==
  ASSUME JobsInv, Caught, job[run.w].state = "RUNNING", aborted
  PROVE  JobsInv'
<1> USE Bounds DEF JobsInv, Shape, Abandoned, Caught, Idle, InHand, Inputs, Jobs,
        NoJob, NoOut, None, Persisted, PointOfNoReturn, States, Steps, ghosts, outbox
<1>a. run.w \in Windows /\ job[run.w] \in Jobs OBVIOUS
<1>h. job[run.w].attempt - 1 \in Nat /\ job[run.w].first # "none"
  BY <1>a DEF BudgetIsFailures, FirstAttempt
<1>g. job[run.w].attempt \in Nat \ {0} BY <1>a DEF BudgetIsFailures
<1>b. Abandoned(job[run.w]) \in Jobs
  BY <1>a, <1>g, <1>h
<1>c. job' = [job EXCEPT ![run.w] = Abandoned(job[run.w])] BY <1>a, <1>g
<1>d. /\ job'[run.w] = Abandoned(job[run.w])
      /\ \A w \in Windows \ {run.w} : job'[w] = job[w]
  BY <1>a, <1>c
<1>e. job' \in [Windows -> Jobs] BY <1>b, <1>c
<1>f. /\ job'[run.w].state = "READY"
      /\ job'[run.w].attempt = job[run.w].attempt - 1
      /\ job'[run.w].first = IF job[run.w].attempt = 1 THEN "none" ELSE job[run.w].first
      /\ \A w \in Windows \ {run.w} : job'[w] = job[w]
  BY <1>a, <1>d, <1>g
<1>s. /\ UNCHANGED <<result, out, held, old, aborted, failed, lost, faults>>
      /\ run' = Idle /\ run.pc = "caught"
  BY <1>a
<1> HIDE DEF Caught, PointOfNoReturn, Abandoned
<1>1. Shape' BY <1>a, <1>e, <1>f, <1>s
<1>2. ClaimInv' BY <1>a, <1>e, <1>f, <1>s DEF ClaimInv
<1>3. FirstAttempt' 
  <2> SUFFICES ASSUME NEW w \in Windows
               PROVE  (job'[w].attempt = 0) = (job'[w].first = "none")
    BY DEF FirstAttempt
  <2>1. CASE w # run.w BY <1>f, <2>1 DEF FirstAttempt
  <2>2. CASE w = run.w /\ job[run.w].attempt = 1 BY <1>f, <2>2
  <2>3. CASE w = run.w /\ job[run.w].attempt # 1 BY <1>a, <1>f, <1>g, <1>h, <2>3
  <2> QED BY <2>1, <2>2, <2>3
<1>4. Unsealed' BY <1>a, <1>e, <1>f, <1>s DEF Unsealed
<1>5. FailuresBounded' BY <1>a, <1>e, <1>f, <1>s DEF FailuresBounded
<1>6. LostByFault' BY <1>a, <1>e, <1>f, <1>s DEF LostByFault
<1>7. ResultOfAttempt' BY <1>a, <1>e, <1>f, <1>s DEF ResultOfAttempt
<1>8. AckedLast' BY <1>a, <1>e, <1>f, <1>s DEF AckedLast
<1>9. ResultWithJob' BY <1>a, <1>e, <1>f, <1>s DEF ResultWithJob
<1>10. BudgetIsFailures' 
  <2> SUFFICES ASSUME NEW w \in Windows, job'[w].state # "NONE"
               PROVE  job'[w].attempt = failed'[w] + lost'[w]
                 + (IF job'[w].state \in {"RUNNING"} \cup Persisted THEN 1 ELSE 0)
    BY DEF BudgetIsFailures
  <2>1. CASE w = run.w
    <3>1. job[w].attempt = failed[w] + lost[w] + 1 BY <1>a, <2>1 DEF BudgetIsFailures
    <3> QED BY <1>a, <1>f, <1>g, <1>s, <2>1, <3>1
  <2>2. CASE w # run.w
    <3>1. failed'[w] = failed[w] /\ lost'[w] = lost[w] /\ job'[w] = job[w]
      BY <1>a, <1>f, <1>s, <2>2
    <3> QED BY <1>f, <2>2, <3>1 DEF BudgetIsFailures
  <2> QED BY <2>1, <2>2
<1> QED BY <1>1, <1>2, <1>3, <1>4, <1>5, <1>6, <1>7, <1>8, <1>9, <1>10

\* A failure that is recorded.
LEMMA CaughtFailedKeeps ==
  ASSUME JobsInv, Caught, job[run.w].state = "RUNNING", ~aborted
  PROVE  JobsInv'
<1> USE Bounds DEF JobsInv, Shape, Caught, Idle, InHand, Inputs, Jobs, NoJob, NoOut,
        None, Persisted, PointOfNoReturn, States, Steps, ghosts, outbox
<1> DEFINE given == [job[run.w] EXCEPT !.state = IF Terminal(job[run.w], run.cause)
                                                THEN "TERMINAL_FAILED" ELSE "RETRY_WAIT",
                                       !.due = FALSE, !.lapsed = FALSE]
<1>a. run.w \in Windows /\ job[run.w] \in Jobs OBVIOUS
<1>g. job[run.w].state = "RUNNING" OBVIOUS
<1>b. given \in Jobs
  BY <1>a, <1>g
<1>c. job' = [job EXCEPT ![run.w] = given] BY <1>a, <1>g
<1>d. /\ job'[run.w] = given
      /\ \A w \in Windows \ {run.w} : job'[w] = job[w]
  BY <1>a, <1>c
<1>e. job' \in [Windows -> Jobs] BY <1>b, <1>c
<1>f. /\ job'[run.w].state \in {"TERMINAL_FAILED", "RETRY_WAIT"}
      /\ job'[run.w].state = "RETRY_WAIT" => run.cause # "final"
      /\ job'[run.w].attempt = job[run.w].attempt /\ job'[run.w].first = job[run.w].first
      /\ \A w \in Windows \ {run.w} : job'[w] = job[w]
  BY <1>a, <1>d, <1>g DEF Terminal
<1>s. /\ UNCHANGED <<result, out, held, old, aborted, lost, faults>>
      /\ failed' = [failed EXCEPT ![run.w] = @ + 1]
      /\ run' = Idle /\ run.pc = "caught"
  BY <1>a, <1>g
<1> HIDE DEF Caught, PointOfNoReturn
<1>1. Shape' 
  <2>1. failed' \in [Windows -> Nat] BY <1>a, <1>s
  <2> QED BY <1>a, <1>e, <1>s, <2>1
<1>2. ClaimInv' BY <1>a, <1>e, <1>f, <1>s DEF ClaimInv
<1>3. FirstAttempt'
  <2>1. \A w \in Windows : job'[w].attempt = job[w].attempt /\ job'[w].first = job[w].first
    BY <1>a, <1>f
  <2> QED BY <2>1 DEF FirstAttempt
<1>4. Unsealed' BY <1>a, <1>e, <1>f, <1>s DEF Unsealed
<1>5. FailuresBounded' BY <1>a, <1>e, <1>f, <1>s DEF FailuresBounded
<1>6. LostByFault' BY <1>a, <1>e, <1>f, <1>s DEF LostByFault
<1>7. ResultOfAttempt' BY <1>a, <1>e, <1>f, <1>s DEF ResultOfAttempt
<1>8. AckedLast' BY <1>a, <1>e, <1>f, <1>s DEF AckedLast
<1>9. ResultWithJob'
  <2>1. \A w \in Windows : job'[w].state \in Persisted <=> job[w].state \in Persisted
    BY <1>a, <1>f, <1>g
  <2> QED BY <1>s, <2>1 DEF ResultWithJob
<1>10. BudgetIsFailures' 
  <2> SUFFICES ASSUME NEW w \in Windows, job'[w].state # "NONE"
               PROVE  job'[w].attempt = failed'[w] + lost'[w]
                 + (IF job'[w].state \in {"RUNNING"} \cup Persisted THEN 1 ELSE 0)
    BY DEF BudgetIsFailures
  <2>1. CASE w = run.w
    <3>1. job[w].attempt = failed[w] + lost[w] + 1 BY <1>a, <2>1 DEF BudgetIsFailures
    <3> QED BY <1>a, <1>e, <1>f, <1>s, <2>1, <3>1
  <2>2. CASE w # run.w
    <3>1. failed'[w] = failed[w] /\ lost'[w] = lost[w] /\ job'[w] = job[w]
      BY <1>a, <1>f, <1>s, <2>2
    <3> QED BY <1>f, <2>2, <3>1 DEF BudgetIsFailures
  <2> QED BY <2>1, <2>2
<1> QED BY <1>1, <1>2, <1>3, <1>4, <1>5, <1>6, <1>7, <1>8, <1>9, <1>10

\* The runner lets go of a claim whose job is not, or no longer, running.
LEMMA IdleAgainKeeps ==
  ASSUME JobsInv, UNCHANGED <<job, result, out, old, held, failed, lost, faults>>,
         run' = Idle, job[run.w].state # "RUNNING" \/ run.pc = "idle"
  PROVE  JobsInv'
<1> USE Bounds DEF JobsInv, Shape, Idle, InHand, Inputs, Jobs, NoJob, NoOut, None,
        Persisted, States, Steps
<1>1. Shape' OBVIOUS
<1>2. ClaimInv' BY DEF ClaimInv
<1>3. FirstAttempt' BY DEF FirstAttempt
<1>4. Unsealed' BY DEF Unsealed
<1>5. FailuresBounded' BY DEF FailuresBounded
<1>6. LostByFault' BY DEF LostByFault
<1>7. ResultOfAttempt' BY DEF ResultOfAttempt
<1>8. AckedLast' BY DEF AckedLast
<1>9. ResultWithJob' BY DEF ResultWithJob
<1>10. BudgetIsFailures' BY DEF BudgetIsFailures
<1> QED BY <1>1, <1>2, <1>3, <1>4, <1>5, <1>6, <1>7, <1>8, <1>9, <1>10

\* completeWindow finds no claim any more.
LEMMA RefusedKeeps ==
  ASSUME JobsInv, Persist, job[run.w].state # "RUNNING"
  PROVE  JobsInv'
<1> USE Bounds DEF JobsInv, Shape, ClaimInv, Idle, InHand, Inputs, Jobs, NoJob, NoOut,
        None, Persist, Persisted, States, Steps, Stored, ghosts, outbox
<1>1. Shape' OBVIOUS
<1>2. ClaimInv' OBVIOUS
<1>3. FirstAttempt' BY DEF FirstAttempt
<1>4. Unsealed' BY DEF Unsealed
<1>5. FailuresBounded' BY DEF FailuresBounded
<1>6. LostByFault' BY DEF LostByFault
<1>7. ResultOfAttempt' BY DEF ResultOfAttempt
<1>8. AckedLast' BY DEF AckedLast
<1>9. ResultWithJob' BY DEF ResultWithJob
<1>10. BudgetIsFailures' BY DEF BudgetIsFailures
<1> QED BY <1>1, <1>2, <1>3, <1>4, <1>5, <1>6, <1>7, <1>8, <1>9, <1>10

\* A job whose result is stored is claimed for its commit.
LEMMA ClaimStoredKeeps ==
  ASSUME JobsInv, run.pc = "idle", NEW x \in Windows, job[x].state \in Persisted,
         UNCHANGED <<job, result, out, old, held, failed, lost, faults>>,
         run' = [pc |-> "commit", w |-> x, cause |-> "none"]
  PROVE  JobsInv'
<1> USE Bounds DEF JobsInv, Shape, Idle, InHand, Inputs, Jobs, NoJob, NoOut, None,
        Persisted, States, Steps
<1>1. Shape' OBVIOUS
<1>2. ClaimInv' BY DEF ClaimInv
<1>3. FirstAttempt' BY DEF FirstAttempt
<1>4. Unsealed' BY DEF Unsealed
<1>5. FailuresBounded' BY DEF FailuresBounded
<1>6. LostByFault' BY DEF LostByFault
<1>7. ResultOfAttempt' BY DEF ResultOfAttempt
<1>8. AckedLast' BY DEF AckedLast
<1>9. ResultWithJob' BY DEF ResultWithJob
<1>10. BudgetIsFailures' BY DEF BudgetIsFailures
<1> QED BY <1>1, <1>2, <1>3, <1>4, <1>5, <1>6, <1>7, <1>8, <1>9, <1>10

\* A job is claimed for an attempt; a claim that nobody gave back is lost.
LEMMA ClaimRunsKeeps ==
  ASSUME JobsInv, run.pc = "idle", NEW x \in Windows, Runnable(x), job[x].state \notin Persisted,
         job' = [job EXCEPT ![x] = Claimed(job[x])],
         run' = [pc |-> "reading", w |-> x, cause |-> "none"],
         lost' = [lost EXCEPT ![x] = @ + (IF job[x].state = "RUNNING" THEN 1 ELSE 0)],
         UNCHANGED <<result, out, old, held, failed, faults>>
  PROVE  JobsInv'
<1> USE Bounds DEF JobsInv, Shape, Claimed, Idle, InHand, Inputs, Jobs, NoJob, NoOut,
        None, Persisted, States, Steps
<1>a. job[x] \in Jobs /\ job[x].attempt \in Nat OBVIOUS
<1>b. Claimed(job[x]) \in Jobs
  <2>1. \A j \in Jobs : \A n \in Nat : \A f \in {"none", "recent", "aged"} :
           [j EXCEPT !.state = "RUNNING", !.attempt = n, !.due = FALSE,
                     !.lapsed = FALSE, !.first = f] \in Jobs
    BY DEF Jobs, States
  <2>2. PICK f \in {"none", "recent", "aged"} :
           f = IF job[x].first = "none" THEN "recent" ELSE job[x].first
    BY <1>a
  <2>3. PICK n \in Nat : n = job[x].attempt + 1 BY <1>a
  <2>4. Claimed(job[x]) = [job[x] EXCEPT !.state = "RUNNING", !.attempt = n, !.due = FALSE,
                                         !.lapsed = FALSE, !.first = f]
    BY <2>2, <2>3 DEF Claimed, Persisted
  <2> HIDE DEF Claimed, Jobs, States
  <2>5. [job[x] EXCEPT !.state = "RUNNING", !.attempt = n, !.due = FALSE,
                       !.lapsed = FALSE, !.first = f] \in Jobs
    BY <1>a, <2>1, <2>2, <2>3
  <2> QED BY <2>4, <2>5
<1>c. job' \in [Windows -> Jobs] BY <1>b
<1>d. /\ job'[x].state = "RUNNING" /\ job'[x].attempt = job[x].attempt + 1
      /\ job'[x].first # "none"
      /\ \A w \in Windows \ {x} : job'[w] = job[w]
  BY <1>a
<1>e. lost' \in [Windows -> Nat] OBVIOUS
<1>f. job[x].state \in {"READY", "RETRY_WAIT", "RUNNING"} BY DEF Runnable
<1> HIDE DEF Claimed
<1>1. Shape' BY <1>c, <1>e
<1>2. ClaimInv' BY <1>d DEF ClaimInv
<1>3. FirstAttempt' BY <1>a, <1>d DEF FirstAttempt
<1>4. Unsealed' BY <1>d DEF Unsealed
<1>5. FailuresBounded' BY <1>d, <1>f DEF FailuresBounded
<1>6. LostByFault' 
  <2> SUFFICES ASSUME NEW w \in Windows
               PROVE  (lost[w] + (IF job[w].state = "RUNNING" /\ ~InHand(w)
                                  THEN 1 ELSE 0) <= faults)'
    BY DEF LostByFault
  <2>1. CASE w = x BY <1>d, <2>1 DEF LostByFault
  <2>2. CASE w # x BY <1>d, <2>2 DEF LostByFault
  <2> QED BY <2>1, <2>2
<1>7. ResultOfAttempt' BY DEF ResultOfAttempt
<1>8. AckedLast' BY DEF AckedLast
<1>9. ResultWithJob' BY <1>d, <1>f DEF ResultWithJob
<1>10. BudgetIsFailures' 
  <2> SUFFICES ASSUME NEW w \in Windows, job'[w].state # "NONE"
               PROVE  job'[w].attempt = failed'[w] + lost'[w]
                 + (IF job'[w].state \in {"RUNNING"} \cup Persisted THEN 1 ELSE 0)
    BY DEF BudgetIsFailures
  <2>1. CASE w = x BY <1>a, <1>d, <1>f, <2>1 DEF BudgetIsFailures
  <2>2. CASE w # x
    <3>1. lost'[w] = lost[w] /\ job'[w] = job[w] BY <1>d, <2>2
    <3> QED BY <3>1 DEF BudgetIsFailures
  <2> QED BY <2>1, <2>2
<1> QED BY <1>1, <1>2, <1>3, <1>4, <1>5, <1>6, <1>7, <1>8, <1>9, <1>10

\* An input is acknowledged under the lease it has.
LEMMA AckKeeps ==
  ASSUME JobsInv, NEW x \in Windows, NEW n, MayAck(out[x], n),
         out' = [out EXCEPT ![x].state = "ACKED", ![x].acked = n],
         UNCHANGED <<job, result, old, run, held, failed, lost, faults>>
  PROVE  JobsInv'
<1> USE Bounds DEF JobsInv, Shape, Idle, InHand, Inputs, Jobs, NoJob, NoOut, None,
        Persisted, States, Steps
<1>a. out[x] \in Inputs /\ n \in Nat /\ out[x].token = n BY DEF MayAck
<1>b. \A o \in Inputs : [o EXCEPT !.state = "ACKED", !.acked = n] \in Inputs BY <1>a
<1>c. out' \in [Windows -> Inputs]
  <2>1. [out[x] EXCEPT !.state = "ACKED", !.acked = n] \in Inputs BY <1>a, <1>b
  <2>2. out' = [out EXCEPT ![x] = [out[x] EXCEPT !.state = "ACKED", !.acked = n]] OBVIOUS
  <2>3. out \in [Windows -> Inputs] OBVIOUS
  <2> HIDE DEF Inputs
  <2> QED BY <2>1, <2>2, <2>3
<1>d. /\ out'[x].state = "ACKED" /\ out'[x].acked = n /\ out'[x].token = n
      /\ \A w \in Windows \ {x} : out'[w] = out[w]
  BY <1>a
<1>1. Shape' BY <1>c
<1>2. ClaimInv' BY DEF ClaimInv
<1>3. FirstAttempt' BY DEF FirstAttempt
<1>4. Unsealed' BY DEF Unsealed
<1>5. FailuresBounded' BY DEF FailuresBounded
<1>6. LostByFault' BY DEF LostByFault
<1>7. ResultOfAttempt' BY DEF ResultOfAttempt
<1>8. AckedLast' BY <1>d DEF AckedLast
<1>9. ResultWithJob' BY <1>a, <1>d DEF ResultWithJob, MayAck
<1>10. BudgetIsFailures' BY DEF BudgetIsFailures
<1> QED BY <1>1, <1>2, <1>3, <1>4, <1>5, <1>6, <1>7, <1>8, <1>9, <1>10

----------------------------------------------------------------------------
(* The theorem *)

\* Every action of the specification preserves the invariant.
LEMMA JobsInvStep ==
  ASSUME JobsInv, Next
  PROVE  JobsInv'
<1>1. ASSUME NEW x \in Windows,
             SealWindow(x) \/ Time(x) \/ InputLeaseLapses(x) \/ Cleanup(x) \/ Release(x)
      PROVE  JobsInv'
  BY <1>1, SealKeeps, RetryDueKeeps, LeaseLapsesKeeps, AgesKeeps, InputLapseKeeps,
     CleanupKeeps, ReleaseKeeps DEF Time
<1>2. CASE Claim
  <2>1. PICK x \in Windows :
          /\ Runnable(x)
          /\ job' = [job EXCEPT ![x] = Claimed(job[x])]
          /\ run' = [pc |-> IF job'[x].state = "RUNNING" THEN "reading" ELSE "commit",
                     w |-> x, cause |-> "none"]
          /\ lost' = [lost EXCEPT ![x] = @ + (IF job[x].state = "RUNNING" THEN 1 ELSE 0)]
    BY <1>2 DEF Claim
  <2>2. /\ run.pc = "idle" /\ UNCHANGED <<result, out, held, old, failed, faults>>
        /\ job[x] \in Jobs /\ job'[x] = Claimed(job[x])
        /\ job \in [Windows -> Jobs] /\ lost \in [Windows -> Nat]
    BY <1>2, <2>1 DEF Claim, outbox, JobsInv, Shape
  <2>3. CASE job[x].state \in Persisted
    <3>1. Claimed(job[x]) = job[x] BY <2>3 DEF Claimed
    <3>2. job' = job BY <2>1, <2>2, <3>1
    <3>3. lost' = lost BY <2>1, <2>2, <2>3 DEF Persisted
    <3>4. run' = [pc |-> "commit", w |-> x, cause |-> "none"]
      BY <2>1, <2>3, <3>2 DEF Persisted
    <3> QED BY <2>2, <2>3, <3>2, <3>3, <3>4, ClaimStoredKeeps
  <2>4. CASE job[x].state \notin Persisted
    <3>1. job'[x].state = "RUNNING" BY <2>2, <2>4 DEF Claimed, Jobs
    <3> QED BY <2>1, <2>2, <2>4, <3>1, ClaimRunsKeeps
  <2> QED BY <2>3, <2>4
<1>3. CASE SeesAbort
  <2>1. CASE job[run.w].state = "RUNNING" BY <1>3, <2>1, SeesAbortKeeps
  <2>2. CASE job[run.w].state # "RUNNING"
    BY <1>3, <2>2, IdleAgainKeeps DEF SeesAbort, outbox, ghosts
  <2> QED BY <2>1, <2>2
<1>4. CASE Persist
  BY <1>4, PersistKeeps, RefusedKeeps
<1>5. CASE BeginCommit
  <2>1. CASE job[run.w].state \in {"RESULT_PERSISTED", "COMMITTING"}
    BY <1>5, <2>1, BeginCommitKeeps
  <2>2. CASE job[run.w].state \notin {"RESULT_PERSISTED", "COMMITTING"}
    <3>1. job[run.w].state # "RUNNING"
      BY <1>5 DEF BeginCommit, JobsInv, ClaimInv, Persisted
    <3> QED BY <1>5, <2>2, <3>1, IdleAgainKeeps DEF BeginCommit, outbox, ghosts
  <2> QED BY <2>1, <2>2
<1>6. CASE FinishCommit
  <2>1. CASE job[run.w].state = "COMMITTING" BY <1>6, <2>1, FinishCommitKeeps
  <2>2. CASE job[run.w].state # "COMMITTING"
    <3>1. job[run.w].state # "RUNNING"
      BY <1>6 DEF FinishCommit, JobsInv, ClaimInv, Persisted
    <3> QED BY <1>6, <2>2, <3>1, IdleAgainKeeps DEF FinishCommit, outbox, ghosts
  <2> QED BY <2>1, <2>2
<1>7. CASE Caught
  <2>1. CASE job[run.w].state = "RUNNING"
    BY <1>7, <2>1, CaughtAbortedKeeps, CaughtFailedKeeps
  <2>2. CASE job[run.w].state # "RUNNING"
    <3>1. PointOfNoReturn(job[run.w])
      BY <1>7, <2>2 DEF Caught, PointOfNoReturn, JobsInv, ClaimInv
    <3>2. /\ UNCHANGED <<job, result, out, held, old, failed, lost, faults>>
          /\ run' = Idle
      BY <1>7, <3>1 DEF Caught, outbox
    <3> QED BY <2>2, <3>2, IdleAgainKeeps
  <2> QED BY <2>1, <2>2
<1>8. ASSUME NEW c \in Consumers, Ack(c)
      PROVE  JobsInv'
  <2>1. PICK y \in held[c] : /\ MayAck(out[y[1]], y[2])
                            /\ out' = [out EXCEPT ![y[1]].state = "ACKED",
                                                  ![y[1]].acked = y[2]]
    BY <1>8 DEF Ack
  <2>2. y[1] \in Windows BY DEF JobsInv, Shape
  <2> QED BY <1>8, <2>1, <2>2, AckKeeps DEF Ack, ghosts
<1>9. ASSUME NEW c \in Consumers, NEW x \in Windows, Lease(c, x)
      PROVE  JobsInv'
  BY <1>9, LeaseKeeps
<1> QED
  BY <1>1, <1>2, <1>3, <1>4, <1>5, <1>6, <1>7, <1>8, <1>9, GetWindowKeeps,
     GetWindowFailsKeeps, ProcessedKeeps, ProcessFailsKeeps, CommitFailsKeeps, AbortKeeps,
     CrashKeeps DEF Next, Runner

\* The invariant says what the run checks of every state.
LEMMA JobsInvInOrder == JobsInv => JobsInOrder
<1> SUFFICES ASSUME JobsInv PROVE JobsInOrder OBVIOUS
<1> USE Bounds DEF JobsInv, Shape
<1>1. ASSUME NEW w \in Windows
      PROVE  JobsTypeOK!1!(w)
  <2>1. job[w] \in Jobs /\ out[w] \in Inputs /\ result[w] \in Nat OBVIOUS
  <2>2. job[w].attempt \in 0..MaxAttempts
    <3>1. CASE job[w].state = "NONE" BY <2>1, <3>1, MaxNat DEF Unsealed, NoJob
    <3>2. CASE job[w].state # "NONE"
      <4>1. /\ job[w].attempt \in Nat /\ failed[w] \in Nat /\ lost[w] \in Nat
            /\ faults \in Nat
        BY <2>1 DEF Jobs
      <4>2. failed[w] <= MaxRetries + 1 /\ lost[w] <= faults
        BY <4>1 DEF FailuresBounded, LostByFault
      <4>3. CASE job[w].state \in {"RUNNING"} \cup Persisted
        <5>1. failed[w] <= MaxRetries BY <4>3 DEF FailuresBounded, Persisted
        <5>2. job[w].attempt = failed[w] + lost[w] + 1 BY <3>2, <4>3 DEF BudgetIsFailures
        <5> QED BY <4>1, <4>2, <5>1, <5>2 DEF MaxAttempts
      <4>4. CASE job[w].state \notin {"RUNNING"} \cup Persisted
        <5>1. job[w].attempt = failed[w] + lost[w] + 0 BY <3>2, <4>4 DEF BudgetIsFailures
        <5> QED BY <4>1, <4>2, <5>1 DEF MaxAttempts
      <4> QED BY <4>3, <4>4
    <3> QED BY <3>1, <3>2
  <2>3. result[w] \in 0..MaxAttempts BY <2>1, MaxNat DEF ResultOfAttempt
  <2> QED BY <2>1, <2>2, <2>3 DEF FirstAttempt, Jobs, Inputs, States
<1>2. run.pc \in {"idle", "reading", "processing", "persist", "commit", "finish", "caught"}
  BY DEF Steps
<1> QED BY <1>1, <1>2 DEF JobsInOrder, JobsTypeOK

\* A step that changes nothing does not disturb the invariant.
LEMMA JobsInvStutters ==
  ASSUME JobsInv, UNCHANGED vars
  PROVE  JobsInv'
BY DEF vars, JobsInv, Shape, ClaimInv, FirstAttempt, Unsealed, FailuresBounded, InHand,
       LostByFault, ResultOfAttempt, AckedLast, ResultWithJob, BudgetIsFailures

\* Only six kinds of steps touch a stored result or the outbox.
LEMMA TouchingSteps ==
  ASSUME Next
  PROVE  \/ UNCHANGED <<result, out>>
         \/ \E x \in Windows : \/ Cleanup(x) \/ InputLeaseLapses(x) \/ Release(x)
                               \/ \E c \in Consumers : Lease(c, x)
         \/ \E c \in Consumers : Ack(c)
         \/ Persist
BY DEF Next, Runner, Time, SealWindow, RetryDue, LeaseLapses, Ages, Claim, SeesAbort, GetWindow,
       GetWindowFails, Processed, ProcessFails, CommitFails, BeginCommit, FinishCommit, Caught,
       Abort, Restart, Crash, outbox

\* A stored result is the point of no return: only retention removes it.  An input
\* that was acknowledged is not given out, and not acknowledged, again.
LEMMA JobsStepsHold ==
  ASSUME JobsInv, JobsInv', [Next]_vars
  PROVE  NoReturnStep /\ AckedOnceStep
<1> USE DEF outbox
<1>s. /\ job \in [Windows -> Jobs] /\ result \in [Windows -> Nat]
      /\ out \in [Windows -> Inputs] /\ held \in [Consumers -> SUBSET (Windows \X Nat)]
  BY DEF JobsInv, Shape
<1> DEFINE Kept(w) ==
      /\ result[w] # None => result'[w] = result[w] \/ job'[w].state = "NONE"
      /\ out[w].state = "ACKED" => out'[w].state \in {"ACKED", "NONE"}
<1>1. ASSUME UNCHANGED <<result, out>>, NEW w \in Windows
      PROVE  Kept(w)
  BY <1>1
<1>2. ASSUME NEW x \in Windows, Cleanup(x), NEW w \in Windows
      PROVE  Kept(w)
  <2>1. CASE w = x BY <1>s, <1>2, <2>1 DEF Cleanup, NoJob, NoOut
  <2>2. CASE w # x BY <1>s, <1>2, <2>2 DEF Cleanup
  <2> QED BY <2>1, <2>2
<1>3. ASSUME NEW x \in Windows, InputLeaseLapses(x), NEW w \in Windows
      PROVE  Kept(w)
  BY <1>s, <1>3 DEF InputLeaseLapses, Inputs
<1>4. ASSUME NEW x \in Windows, Release(x), NEW w \in Windows
      PROVE  Kept(w)
  BY <1>s, <1>4 DEF Release, Inputs
<1>5. ASSUME NEW c \in Consumers, NEW x \in Windows, Lease(c, x), NEW w \in Windows
      PROVE  Kept(w)
  BY <1>s, <1>5 DEF Lease, Inputs
<1>6. ASSUME NEW c \in Consumers, Ack(c), NEW w \in Windows
      PROVE  Kept(w)
  <2>1. PICK x \in held[c] :
          out' = [out EXCEPT ![x[1]].state = "ACKED", ![x[1]].acked = x[2]]
    BY <1>6 DEF Ack
  <2>2. result' = result BY <1>6 DEF Ack
  <2> QED BY <1>s, <2>1, <2>2 DEF Inputs
<1>7. ASSUME Persist, NEW w \in Windows
      PROVE  Kept(w)
  <2>1. CASE job[run.w].state # "RUNNING" BY <1>7, <2>1 DEF Persist
  <2>2. CASE job[run.w].state = "RUNNING"
    <3>1. /\ result' = [result EXCEPT ![run.w] = job[run.w].attempt]
          /\ out' = [out EXCEPT ![run.w] = [NoOut EXCEPT !.state = "HELD_LOCAL"]]
      BY <1>7, <2>2 DEF Persist, Stored
    <3>2. run.w \in Windows BY <1>7 DEF Persist, JobsInv, Shape
    <3>3. result[run.w] = None /\ out[run.w].state = "NONE"
      BY <2>2, <3>2 DEF JobsInv, ResultWithJob, Persisted
    <3>4. CASE w = run.w BY <3>3, <3>4
    <3>5. CASE w # run.w BY <1>s, <3>1, <3>5
    <3> QED BY <3>4, <3>5
  <2> QED BY <2>1, <2>2
<1>8. ASSUME NEW w \in Windows
      PROVE  Kept(w)
  <2>1. CASE UNCHANGED vars BY <1>1, <2>1 DEF vars
  <2>2. CASE Next BY <1>1, <1>2, <1>3, <1>4, <1>5, <1>6, <1>7, <2>2, TouchingSteps
  <2> QED BY <2>1, <2>2
<1>9. NoReturnStep
  <2> SUFFICES ASSUME NEW w \in Windows, result[w] # None
               PROVE  \/ result'[w] = result[w] /\ job'[w].state \in Persisted
                      \/ job'[w].state = "NONE"
    BY DEF NoReturnStep
  <2>1. (job'[w].state \in Persisted) = (result'[w] # None)
    BY DEF JobsInv, ResultWithJob
  <2> QED BY <1>8, <2>1
<1>10. AckedOnceStep
  <2>1. \A w \in Windows : out'[w].state = "ACKED" => out'[w].acked = out'[w].token
    BY DEF JobsInv, AckedLast
  <2> QED BY <1>8, <2>1 DEF AckedOnceStep
<1> QED BY <1>9, <1>10

\* In every behaviour a stored result goes together with its AgentInput and its job's
\* state, is never replaced or inferred again, attempts are the recorded failures and
\* the lost claims, and an input is acknowledged once, under its last lease.
THEOREM TimelineJobsSafeHolds == Spec => TimelineJobsSafe
<1>1. JobsInv /\ [Next]_vars => JobsInv' BY JobsInvStep, JobsInvStutters
<1>2. JobsInv /\ [Next]_vars /\ JobsInv'
        => [JobsInOrder /\ JobsInOrder' /\ NoReturnStep /\ AckedOnceStep]_vars
  <2>1. JobsInv' => JobsInOrder' BY JobsInvInOrder, PTL
  <2> QED BY <2>1, JobsInvInOrder, JobsStepsHold
<1> QED BY <1>1, <1>2, JobsInvInit, PTL DEF Spec, TimelineJobsSafe
=============================================================================
