-------------------------- MODULE ReflectionJobQueue --------------------------
(***************************************************************************)
(* What a repository of reflection jobs promises its callers: the          *)
(* reference implementation of src/agent/reflection/repository.ts          *)
(* ("production must provide the same operations").  One job per sealed    *)
(* window; any caller may call any operation at any time.  An operation    *)
(* that the state of the job forbids throws and changes nothing.           *)
(***************************************************************************)
EXTENDS Integers, FiniteSets

CONSTANTS
    Windows,        \* identifiers of sealed windows, numbers in their order
    Results,        \* reflections an inference may return
    LEASE,          \* how long a claim lasts
    MaxTime         \* bound of the clock; later times count as this one

VARIABLES jobs, now

None == -1
At(t) == IF t > MaxTime THEN MaxTime ELSE t

(* sealWindow inserts the job with the window, whose end it dates from.    *)
NewJob(ended) == [state |-> "READY", attempt |-> 0, created |-> ended, first |-> None,
                  next |-> ended, lease |-> None, result |-> "none"]

Add(w) == \E ended \in 0..now :
    jobs' = [x \in DOMAIN jobs \cup {w} |-> IF x = w THEN NewJob(ended) ELSE jobs[x]]
Set(w, j) == jobs' = [jobs EXCEPT ![w] = j]

IsRunnable(j) ==
    CASE j.state = "READY" -> (IF j.next = None THEN j.created ELSE j.next) <= now
      [] j.state = "RETRY_WAIT" -> j.next # None /\ j.next <= now
      [] j.state \in {"RUNNING", "COMMITTING"} -> j.lease # None /\ j.lease <= now
      [] j.state = "RESULT_PERSISTED" -> TRUE
      [] OTHER -> FALSE

Due(j) == IF j.next = None THEN j.created ELSE j.next
Before(v, w) ==
    LET a == jobs[v] b == jobs[w]
    IN \/ Due(a) < Due(b)
       \/ Due(a) = Due(b) /\ a.created < b.created
       \/ Due(a) = Due(b) /\ a.created = b.created /\ v < w

Runnable == {w \in DOMAIN jobs : IsRunnable(jobs[w])}

(* The oldest runnable job is claimed.                                     *)
claimNextRunnable ==
    \E w \in Runnable :
        /\ \A v \in Runnable \ {w} : Before(w, v)
        /\ Set(w, [jobs[w] EXCEPT
                !.state = IF jobs[w].result = "none" THEN "RUNNING"
                          ELSE "COMMITTING",
                !.attempt = @ + 1,
                !.first = IF @ = None THEN now ELSE @,
                !.next = None,
                !.lease = At(now + LEASE)])

persistResult(w) ==
    /\ jobs[w].state = "RUNNING" /\ jobs[w].result = "none"
    /\ \E r \in Results :
         Set(w, [jobs[w] EXCEPT !.state = "RESULT_PERSISTED", !.result = r,
                                !.lease = None])

beginCommit(w) ==
    /\ jobs[w].state = "RESULT_PERSISTED"
    /\ Set(w, [jobs[w] EXCEPT !.state = "COMMITTING", !.lease = At(now + LEASE)])

(* A claim given up gives its attempt back.                                *)
abandonClaim(w) ==
    /\ jobs[w].state \in {"RUNNING", "RESULT_PERSISTED", "COMMITTING"}
    /\ LET prior == IF jobs[w].attempt = 0 THEN 0 ELSE jobs[w].attempt - 1
           has == jobs[w].result # "none"
       IN Set(w, [jobs[w] EXCEPT
                    !.state = IF has THEN "RESULT_PERSISTED" ELSE "READY",
                    !.attempt = prior,
                    !.first = IF prior = 0 THEN None ELSE @,
                    !.next = IF has THEN None ELSE now,
                    !.lease = None])

recordFailure(w) ==
    /\ jobs[w].state \in {"RUNNING", "COMMITTING"}
    /\ \/ Set(w, [jobs[w] EXCEPT !.state = "TERMINAL_FAILED", !.next = None,
                                 !.lease = None])
       \/ \E t \in now..MaxTime :
            Set(w, [jobs[w] EXCEPT !.state = "RETRY_WAIT", !.next = t,
                                   !.lease = None])

markCommitted(w) ==
    /\ jobs[w].state = "COMMITTING"
    /\ Set(w, [jobs[w] EXCEPT !.state = "COMMITTED", !.next = None, !.lease = None])

replayTerminal(w) ==
    /\ jobs[w].state = "TERMINAL_FAILED"
    /\ Set(w, [jobs[w] EXCEPT !.state = "READY", !.attempt = 0, !.created = now,
                              !.first = None, !.next = now, !.lease = None])

Tick == now < MaxTime /\ now' = now + 1 /\ UNCHANGED jobs

QInit == jobs = << >> /\ now = 0

QNext ==
    \/ Tick
    \/ /\ \/ \E w \in Windows \ DOMAIN jobs : Add(w)
          \/ claimNextRunnable
          \/ \E w \in DOMAIN jobs :
               \/ persistResult(w) \/ beginCommit(w) \/ abandonClaim(w)
               \/ recordFailure(w) \/ markCommitted(w) \/ replayTerminal(w)
       /\ UNCHANGED now

Queue == QInit /\ [][QNext]_<<jobs, now>>

=============================================================================
