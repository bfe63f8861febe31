--------------------------- MODULE ProcessShutdown ---------------------------
(* The end of the desktop process: the synchronous latch, the flights that drain *)
(* or close each owner and wait for the owners in front of them, the sequence of *)
(* steps that starts them under deadlines, and the lifecycle that exits only     *)
(* when every critical step is settled and tries once more by itself when the    *)
(* owners were merely late.                                                      *)
EXTENDS Naturals, Sequences, FiniteSets, SequencesExt

CONSTANTS
    Flights,       \* the owners of this instance, a subset of AllFlights
    Failing,       \* owners whose own closing may throw
    MaxRequests,   \* renderer requests in progress when the quit arrives
    MaxFaults,     \* closings that throw
    LateAttempts   \* attempts in which deadlines pass: FALSE an asked one, TRUE the automatic one

VARIABLES
    latched,       \* onQuitRequested ran: no request, run or start is accepted
    reqs,          \* renderer requests in progress
    runs,          \* agent runs in progress
    orphan,        \* the runs are of a session that is being cleared, whose transition
                   \* cancels them: no account is signed in when the quit arrives
    revoke,        \* the best-effort revoke a sign-out leaves to the auth session
    startup,       \* the startup: running, waiting for its next try, done
    rpc,           \* Reflection waits for an answer of the native process
    fl,            \* [Flights -> idle, deps: waits for owners, own: closes, done]
    broken,        \* owners whose close keeps the promise of its failure
    natStop,       \* the native stop has begun
    pc,            \* the step of the shutdown sequence, 0: none runs
    waits,         \* steps whose run still waits for its flight
    completed,     \* completedShutdownSteps
    failed,        \* criticalFailures of this attempt
    auto,          \* this attempt is the automatic one
    pend,          \* the flights the automatic attempt waits for
    life,          \* up, quitting, waiting, vetoed, exited
    faults         \* closings that threw

vars == <<latched, reqs, runs, orphan, revoke, startup, rpc, fl, broken, natStop, pc, waits,
          completed, failed, auto, pend, life, faults>>
work == <<reqs, runs, orphan, revoke, startup, rpc>>
seq == <<pc, waits, completed, failed>>

AllFlights == {"client", "feedback", "runs", "data", "update", "export", "audit", "delivery",
               "relays", "sidecar", "native", "timeline", "reflection", "auth", "repository"}

\* An instance may leave owners out, but for the repository, the requests and the runs.
ASSUME ShutdownAssumption ==
    /\ Flights \subseteq AllFlights /\ {"repository", "client", "runs"} \subseteq Flights
    /\ Failing \subseteq Flights
    /\ MaxRequests \in Nat /\ MaxFaults \in Nat /\ LateAttempts \subseteq BOOLEAN

\* Mutant: the repository joins only the owners in front of its own step.
Deps_Shallow(f) ==
    Flights \cap CASE f = "runs" -> {"client"}
      [] f = "sidecar" -> {"runs", "delivery", "relays"}
      [] f = "timeline" -> {"client", "audit", "export"}
      [] f = "reflection" -> {"client", "feedback", "delivery", "timeline"}
      [] f = "native" -> {"client", "data", "audit", "export"}
      [] f = "repository" -> {"reflection", "native", "timeline"}
      [] OTHER -> {}

\* The flights each flight joins before it touches its own owner.
Deps(f) ==
    Flights \cap CASE f = "runs" -> {"client"}
      [] f = "sidecar" -> {"runs", "delivery", "relays"}
      [] f = "timeline" -> {"client", "audit", "export"}
      [] f = "reflection" -> {"client", "feedback", "delivery", "timeline"}
      [] f = "native" -> {"client", "runs", "data", "audit", "export"}
      [] f = "repository" -> AllFlights \ {"repository", "auth"}
      [] OTHER -> {}

\* The steps in order: a flight, or one of the three that have none.
AllSteps == <<"startup-retry", "relays", "client", "update", "auth", "delivery", "feedback",
              "runs", "pet", "sidecar", "native", "audit", "export", "data", "startup",
              "timeline", "reflection", "repository">>
Steps == Flights \cup {"startup-retry", "pet", "startup"}
Positions == {i \in DOMAIN AllSteps : AllSteps[i] \in Steps}
Past == Len(AllSteps) + 1
IsFlight(s) == s \in Flights

\* The position of the step after the one at i, or Past when there is none.
After(i) == CHOOSE k \in Positions \cup {Past} :
                k > i /\ \A m \in Positions : m > i => k <= m

\* isCriticalFailureRecovered: the step completed after all, or the repository's
\* barrier joined its owner again.
Recovered(s) ==
    \/ s \in completed
    \/ "repository" \in completed /\ s \notin {"startup-retry", "pet", "repository"}

Init ==
    /\ latched = FALSE /\ reqs \in 0..MaxRequests /\ revoke = FALSE
    /\ runs \in BOOLEAN /\ orphan \in {FALSE, runs}
    /\ startup \in {"running", "waiting", "done"} /\ rpc \in BOOLEAN
    /\ fl = [f \in Flights |-> "idle"] /\ broken = {} /\ natStop = FALSE
    /\ pc = 0 /\ waits = {} /\ completed = {} /\ failed = {} /\ auto = FALSE /\ pend = {}
    /\ life = "up" /\ faults = 0

----------------------------------------------------------------------------
(* Work accepted before the latch *)

\* A request ends; it may have started a run of the account, or have been the
\* sign-out that leaves a revoke behind.
RequestEnds ==
    /\ reqs > 0 /\ reqs' = reqs - 1
    /\ \/ UNCHANGED <<runs, revoke>>
       \/ ~orphan /\ runs' = TRUE /\ UNCHANGED revoke
       \/ revoke' = TRUE /\ UNCHANGED runs
    /\ UNCHANGED <<latched, orphan, startup, rpc, fl, broken, natStop, seq, auto, pend,
                   life, faults>>

RunEnds ==
    /\ runs /\ runs' = FALSE
    /\ UNCHANGED <<latched, reqs, orphan, revoke, startup, rpc, fl, broken, natStop, seq, auto, pend,
                   life, faults>>

RevokeEnds ==
    /\ revoke /\ revoke' = FALSE
    /\ UNCHANGED <<latched, reqs, runs, orphan, startup, rpc, fl, broken, natStop, seq, auto, pend,
                   life, faults>>

\* The startup ends, or waits for its next try unless the application is ending.
StartupEnds ==
    /\ startup = "running"
    /\ startup' \in IF latched THEN {"done"} ELSE {"done", "waiting"}
    /\ UNCHANGED <<latched, reqs, runs, orphan, revoke, rpc, fl, broken, natStop, seq, auto, pend,
                   life, faults>>

----------------------------------------------------------------------------
(* Flights *)

Running(f) == fl[f] \in {"deps", "own"}

\* A flight starts those it joins, and they theirs; the native one starts
\* Reflection's only when its producers are drained.
Joined(f) ==
    LET one(S) == S \cup UNION {Deps(g) : g \in S}
    IN one(one(one({f})))

\* runShutdownFlight: a flight that runs, or has succeeded, is shared; one that
\* has failed is made again.
Started(f, g) ==
    [x \in Flights |-> IF x \in Joined(f) /\ g[x] = "idle" THEN "deps" ELSE g[x]]

\* stopNativeAgentWithReflection: the stop, which rejects pending calls, begins first.
StopsNative(f) == f = "native"

\* The owners in front have settled: the owner itself is drained or closed.
Joins(f) ==
    /\ fl[f] = "deps" /\ \A d \in Deps(f) : fl[d] = "done"
    /\ (f \in {"reflection", "repository"} => startup = "done")
    /\ natStop' = (natStop \/ StopsNative(f))
    /\ fl' = IF f = "native" /\ "reflection" \in Flights
             THEN Started("reflection", [fl EXCEPT ![f] = "own"])
             ELSE [fl EXCEPT ![f] = "own"]
    /\ UNCHANGED <<latched, work, broken, seq, auto, pend, life, faults>>

\* What the owner's own drain or close waits for. The runs are cancelled for the
\* captured account, and none are when there is none; the drain of the session,
\* which the repository repeats, waits for the transition that cancels those.
OwnDone(f) ==
    CASE f = "client" -> reqs = 0
      [] f = "runs" -> orphan \/ ~runs
      [] f \in {"auth", "repository"} -> ~revoke /\ (orphan => ~runs)
      [] f = "timeline" -> startup = "done"
      [] f = "reflection" -> ~rpc \/ natStop
      [] f = "native" -> "reflection" \notin Flights \/ fl["reflection"] = "done"
      [] OTHER -> TRUE

Closes(f) ==
    /\ fl[f] = "own" /\ OwnDone(f) /\ f \notin broken
    /\ fl' = [fl EXCEPT ![f] = "done"]
    /\ completed' = completed \cup (waits \cap {f}) /\ waits' = waits \ {f}
    /\ pend' = pend \ {f}
    /\ rpc' = (rpc /\ f # "reflection")
    /\ UNCHANGED <<latched, reqs, runs, orphan, revoke, startup, broken, natStop, pc, failed, auto, life,
                   faults>>

\* The flights that fail with f: those that wait for it, and those that wait for them.
FailsWith(f) ==
    LET behind(S) == S \cup {g \in Flights :
                        \/ fl[g] = "deps" /\ Deps(g) \cap S # {}
                        \/ fl[g] = "own" /\ g = "native" /\ "reflection" \in S}
    IN behind(behind(behind(behind({f}))))

Breaks(f, gone) ==
    /\ fl' = [g \in Flights |-> IF g \in gone THEN "idle" ELSE fl[g]]
    /\ pend' = pend \ gone
    /\ failed' = failed \cup (IF pc \in Positions /\ AllSteps[pc] \in gone
                             THEN {AllSteps[pc]} ELSE {})
    /\ pc' = IF pc \in Positions /\ AllSteps[pc] \in gone THEN After(pc) ELSE pc
    /\ waits' = waits \ gone

\* The owner's close throws. Reflection and Timeline keep the promise of their
\* close and return it again.
Throws(f) ==
    /\ fl[f] = "own" /\ f \in Failing /\ f \notin broken /\ faults < MaxFaults /\ faults' = faults + 1
    /\ broken' = IF f \in {"timeline", "reflection"} THEN broken \cup {f} ELSE broken
    /\ Breaks(f, FailsWith(f))
    /\ UNCHANGED <<latched, work, natStop, completed, auto, life>>

\* The same failure is observed by the next attempt.
ThrowsAgain(f) ==
    /\ fl[f] = "own" /\ f \in broken /\ Breaks(f, FailsWith(f))
    /\ UNCHANGED <<latched, work, broken, natStop, completed, auto, life, faults>>

----------------------------------------------------------------------------
(* The sequence of steps *)

InStep(s) == life = "quitting" /\ pc \in Positions /\ AllSteps[pc] = s

\* A step that completed in an earlier attempt is left out.
Skip ==
    /\ \E s \in completed : InStep(s)
    /\ pc' = After(pc)
    /\ UNCHANGED <<latched, work, fl, broken, natStop, waits, completed, failed, auto, pend, life, faults>>

\* cancelStartupRetryWait: a startup that sleeps goes on, and sees the latch.
CancelStartupRetry ==
    /\ InStep("startup-retry") /\ "startup-retry" \notin completed
    /\ startup' = IF startup = "waiting" THEN "running" ELSE startup
    /\ completed' = completed \cup {"startup-retry"} /\ pc' = After(pc)
    /\ UNCHANGED <<latched, reqs, runs, orphan, revoke, rpc, fl, broken, natStop, waits, failed, auto,
                   pend, life, faults>>

\* The renderer proof and the delivery of feedback to the pet stop at once.
StopPet ==
    /\ InStep("pet") /\ "pet" \notin completed
    /\ completed' = completed \cup {"pet"} /\ pc' = After(pc)
    /\ UNCHANGED <<latched, work, fl, broken, natStop, waits, failed, auto, pend, life, faults>>

StepBegins(s) ==
    /\ InStep(s) /\ IsFlight(s) /\ s \notin completed /\ s \notin waits
    /\ fl' = Started(s, fl) /\ waits' = waits \cup {s}
    /\ UNCHANGED <<latched, work, broken, natStop, pc, completed, failed, auto, pend, life, faults>>

StepEnds(s) ==
    /\ InStep(s) /\ IsFlight(s) /\ s \in waits /\ fl[s] = "done"
    /\ completed' = completed \cup {s} /\ waits' = waits \ {s} /\ pc' = After(pc)
    /\ UNCHANGED <<latched, work, fl, broken, natStop, failed, auto, pend, life, faults>>

AwaitStartup ==
    /\ InStep("startup") /\ "startup" \notin completed /\ startup = "done"
    /\ completed' = completed \cup {"startup"} /\ pc' = After(pc)
    /\ UNCHANGED <<latched, work, fl, broken, natStop, waits, failed, auto, pend, life, faults>>

\* The deadline of a step: its run goes on, and completes it later.
StepTimesOut(s) ==
    /\ InStep(s) /\ auto \in LateAttempts
    /\ s \in waits \/ (s = "startup" /\ startup # "done")
    /\ failed' = failed \cup {s} /\ pc' = After(pc)
    /\ UNCHANGED <<latched, work, fl, broken, natStop, waits, completed, auto, pend, life, faults>>

\* The overall deadline: no further step is begun.
DeadlinePasses ==
    /\ life = "quitting" /\ pc \in Positions /\ auto \in LateAttempts
    /\ failed' = failed \cup ({AllSteps[i] : i \in {k \in Positions : k >= pc}} \ completed)
    /\ pc' = Past
    /\ UNCHANGED <<latched, work, fl, broken, natStop, waits, completed, auto, pend, life, faults>>

----------------------------------------------------------------------------
(* The lifecycle *)

\* The flights that are pending when an attempt fails.
Pending == {f \in Flights : Running(f)}

Attempt(isAuto) ==
    /\ latched' = TRUE /\ life' = "quitting" /\ pc' = After(0) /\ failed' = {} /\ auto' = isAuto /\ pend' = {}

\* quit, from the menu, a signal or the last window: one attempt at a time; while
\* the automatic one is pending a new intent replaces it.
Quit(from) ==
    /\ life \in from /\ Attempt(FALSE)
    /\ UNCHANGED <<work, fl, broken, natStop, waits, completed, faults>>

\* scheduleAutomaticRetry: once, when everything that was pending has settled.
AutomaticRetry ==
    /\ life = "waiting" /\ pend = {} /\ Attempt(TRUE)
    /\ UNCHANGED <<work, fl, broken, natStop, waits, completed, faults>>

\* The sequence has run: the process exits, or the quit is vetoed.
Settles ==
    /\ life = "quitting" /\ pc = Past /\ pc' = 0
    /\ LET lost == {s \in failed : ~Recovered(s)} IN
       /\ life' = IF lost = {} THEN "exited"
                  ELSE IF ~auto /\ Pending # {} THEN "waiting" ELSE "vetoed"
       /\ pend' = IF lost # {} /\ ~auto THEN Pending ELSE {}
    /\ UNCHANGED <<latched, work, fl, broken, natStop, waits, completed, failed, auto, faults>>

Exited == life = "exited" /\ UNCHANGED vars

Work == RequestEnds \/ RunEnds \/ RevokeEnds \/ StartupEnds
Owner(f) == Joins(f) \/ Closes(f) \/ Throws(f) \/ ThrowsAgain(f)
Sequence ==
    \/ Skip \/ CancelStartupRetry \/ StopPet \/ AwaitStartup \/ Settles
    \/ \E s \in Flights : StepBegins(s) \/ StepEnds(s)
Deadlines == DeadlinePasses \/ \E s \in Flights \cup {"startup"} : StepTimesOut(s)

Step ==
    life # "exited" /\ (Work \/ (\E f \in Flights : Owner(f)) \/ Sequence \/ Deadlines
                       \/ Quit({"up", "vetoed"}) \/ AutomaticRetry)

Next == Step \/ Quit({"waiting"}) \/ Exited

Spec == Init /\ [][Next]_vars

\* Accepted work ends, owners close, the sequence goes on, and the user leaves the
\* automatic attempt alone.
Goes ==
    /\ WF_vars(life # "exited" /\ Work) /\ WF_vars(life # "exited" /\ Sequence)
    /\ WF_vars(life # "exited" /\ AutomaticRetry)
    /\ \A f \in AllFlights : WF_vars(life # "exited" /\ f \in Flights /\ Owner(f))
FairSpec == Init /\ [][Step \/ Exited]_vars /\ Goes

\* And a user who is told that the application still runs asks again.
PersistentSpec == Init /\ [][Step \/ Exited]_vars /\ Goes /\ WF_vars(Quit({"vetoed"}))

----------------------------------------------------------------------------
(* Properties *)

ShutdownTypeOK ==
    /\ reqs \in 0..MaxRequests /\ startup \in {"running", "waiting", "done"}
    /\ fl \in [Flights -> {"idle", "deps", "own", "done"}]
    /\ pc \in Positions \cup {0, Past} /\ waits \subseteq Flights
    /\ completed \subseteq Range(AllSteps) /\ failed \subseteq Range(AllSteps)
    /\ pend \subseteq Flights /\ life \in {"up", "quitting", "waiting", "vetoed", "exited"}

\* The encrypted database is closed in front of nothing that was accepted before
\* the latch, whatever deadlines passed and attempts failed (index.ts 2098).
RepositoryClosesLast ==
    fl["repository"] \in {"done"} =>
        reqs = 0 /\ ~runs /\ startup = "done" /\ \A f \in Deps("repository") : fl[f] = "done"

\* The sidecar is stopped only when no run and no request that could start one
\* is left (2031), but for the runs of a session that was already being cleared,
\* which only the drain in front of the repository waits for.
SidecarOutlivesRuns ==
    "sidecar" \in Flights /\ fl["sidecar"] \in {"own", "done"} => reqs = 0 /\ (runs => orphan)

\* The process exits only when every owner is closed, also after an attempt that
\* timed out and was tried again (app-lifecycle.ts 155).
ExitMeansClosed == life = "exited" => \A f \in Flights \ {"auth"} : fl[f] = "done"

\* One quit is enough when owners are merely late: the process exits although
\* deadlines passed. Only a quit whose time was over before an owner was asked,
\* so that none is pending, is left to the user (app-lifecycle.ts 202).
QuitEnds == (life = "quitting") ~> (life = "exited" \/ (life = "vetoed" /\ ~auto /\ Pending = {}))

\* Stopping the native process and closing Reflection never wait for each other.
NoCycle == (fl["native"] = "own") ~> (fl["native"] # "own")

\* A settled failure of an owner can be tried again: a user who keeps asking
\* ends the process (index.ts 857).
FailureIsRetryable == (life = "vetoed") ~> (life = "exited")

\* The owners close in the order in which they need each other, and all of them
\* before the exit.
ShutdownSafe ==
    ShutdownTypeOK /\ RepositoryClosesLast /\ SidecarOutlivesRuns /\ ExitMeansClosed
=============================================================================
