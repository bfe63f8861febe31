------------------------------ MODULE MastraHost ------------------------------
(* The runtime inside the sidecar process (AgentHostRuntime): runs of three      *)
(* kinds that are created by a request and executed later, the requests that     *)
(* cancel them, answer a planning question or shut the host down meanwhile, the  *)
(* event frames they write, and the planning session the main process keeps for  *)
(* them (LocalAgentHostServices), from which a run is taken up again when the    *)
(* process was replaced.                                                         *)
EXTENDS Naturals, Sequences, FiniteSets, TLC

CONSTANTS
    Runs,          \* run identifiers; each is used once
    Planner,       \* the run that plans; the others converse or analyse
    MaxRounds,     \* maxClarificationRounds
    MaxRetained,   \* maxRetainedRuns
    MaxCrashes,    \* processes that end on their own
    MaxFaults,     \* awaited operations that fail
    MaxDeltas      \* text deltas of one run

MastraHostAssumption ==
    /\ Planner \in Runs /\ MaxRounds \in Nat /\ MaxRetained \in Nat \ {0}
    /\ MaxCrashes \in Nat /\ MaxFaults \in Nat /\ MaxDeltas \in Nat

VARIABLES
    up,            \* initialised, shutting down, shut down
    rec,           \* [Runs -> the record of the run, or NoRec]
    born,          \* runs in the order of their creation
    valid,         \* every event frame so far was of the protocol's shape
    ends,          \* [Runs -> terminal events written]
    plan,          \* the stored planning session
    snap,          \* the stored snapshot of its workflow
    asked,         \* the version of the question the user sees, 0: none
    used           \* bounds

vars == <<up, rec, born, valid, ends, plan, snap, asked, used>>
stored == <<plan, snap, asked>>

Terminal == {"completed", "failed", "cancelled"}
NoRec == [status |-> "none"]
NoPlan == [ver |-> 0, rounds |-> 0, on |-> FALSE]

Exists(r) == rec[r] # NoRec
IsTerminal(r) == rec[r].status \in Terminal
Live(r) == Exists(r) /\ ~IsTerminal(r)
At(r, step) == Exists(r) /\ rec[r].todo # <<>> /\ Head(rec[r].todo) = step

Init ==
    /\ up = "new" /\ rec = [r \in Runs |-> NoRec] /\ born = <<>>
    /\ valid = TRUE /\ ends = [r \in Runs |-> 0]
    /\ plan = NoPlan /\ snap = NoPlan /\ asked = 0
    /\ used = [crashes |-> 0, faults |-> 0]

----------------------------------------------------------------------------
(* Frames *)

TerminalFor(kind) ==
    CASE kind = "run.completed" -> "completed" [] kind = "run.failed" -> "failed"
      [] kind = "run.cancelled" -> "cancelled" [] OTHER -> "none"

\* isAgentRunEventFrame: the terminal state follows from the kind of the event.
ValidFrame(kind, term) == term = TerminalFor(kind)

\* emit: the frame carries the terminal state the record has at this moment.
Emit(r, o, kind) ==
    /\ rec' = [rec EXCEPT ![r] = o]
    /\ valid' = (valid /\ ValidFrame(kind, IF o.status \in Terminal THEN o.status ELSE "none"))
    /\ ends' = IF TerminalFor(kind) = "none" THEN ends ELSE [ends EXCEPT ![r] = @ + 1]

Silent(r, o) == rec' = [rec EXCEPT ![r] = o] /\ UNCHANGED <<valid, ends>>

Then(r) == [rec[r] EXCEPT !.todo = Tail(@)]
Stopped(r) == [rec[r] EXCEPT !.todo = <<>>]

\* if (this.isTerminal(record)) return
Unless(r, A) == IF IsTerminal(r) THEN Silent(r, Stopped(r)) ELSE A

\* Mutant: a run that has ended is completed as well.
Complete_Unguarded(r) ==
    Emit(r, [Stopped(r) EXCEPT !.status = "completed"], "run.completed")

Complete(r) == Unless(r, Emit(r, [Stopped(r) EXCEPT !.status = "completed"], "run.completed"))

FailUnlessTerminal(r) == Unless(r, Emit(r, [Stopped(r) EXCEPT !.status = "failed"], "run.failed"))

----------------------------------------------------------------------------
(* Requests *)

EnsureReady == up = "ready"

Initialize ==
    /\ up = "new" /\ up' = "ready"
    /\ UNCHANGED <<rec, born, valid, ends, stored, used>>

\* pruneRuns: ended runs are forgotten, oldest first, until there is room.
Pruned ==
    LET over == {i \in 1..Len(born) : IsTerminal(born[i])}
        keep(i) == Len(born) - Cardinality({k \in over : k < i}) < MaxRetained
    IN {born[i] : i \in {k \in over : ~keep(k)}}

\* What schedule runs with setImmediate once the request was answered.
Steps(r) ==
    IF r = Planner THEN <<"run.started", "workflow/start", "model">>
    ELSE <<"run.started", "stream">>

Record(r, todo, ver, rounds) ==
    [status |-> "running", todo |-> todo, ver |-> ver, rounds |-> rounds, deltas |-> 0]

NewRecord(r, todo) ==
    LET gone == Pruned IN
    /\ rec' = [x \in Runs |-> IF x = r THEN Record(r, todo, 0, 0)
                              ELSE IF x \in gone THEN NoRec ELSE rec[x]]
    /\ born' = Append(SelectSeq(born, LAMBDA x : x \notin gone), r)

\* startConversation, startPlanning, startActivityAnalysis
Start(r) ==
    /\ EnsureReady /\ ~Exists(r) /\ ends[r] = 0
    /\ r = Planner => ~plan.on
    /\ NewRecord(r, Steps(r))
    /\ UNCHANGED <<up, valid, ends, stored, used>>

\* answerPlanning: a run this process does not know is taken up from what is stored.
AnswerPlanning ==
    LET r == Planner IN
    /\ EnsureReady /\ asked # 0
    /\ asked' = 0
    /\ IF ~Exists(r)
       THEN NewRecord(r, <<"rehydrate", "run.resumed", "planning/load", "model">>)
       ELSE /\ rec[r].status = "suspended" /\ rec[r].ver = asked
            /\ rec' = [rec EXCEPT ![r].status = "running",
                                  ![r].todo = <<"run.resumed", "planning/load", "model">>]
            /\ UNCHANGED born
    /\ UNCHANGED <<up, valid, ends, plan, snap, used>>

CancelRecord(r) == Emit(r, [rec[r] EXCEPT !.status = "cancelled"], "run.cancelled")

\* cancelRun; what the run awaits is aborted, and goes on as far as its next check.
Cancel(r) ==
    /\ EnsureReady /\ Live(r)
    /\ CancelRecord(r)
    /\ asked' = IF r = Planner THEN 0 ELSE asked
    /\ UNCHANGED <<up, born, plan, snap, used>>

\* shutdown: requests are refused from here on, and the runs are cancelled one
\* after the other, each when the event of the one before is written.
Shutdown ==
    /\ up = "ready" /\ up' = "stopping"
    /\ UNCHANGED <<rec, born, valid, ends, stored, used>>

ShutdownStep ==
    /\ up = "stopping"
    /\ \/ \E r \in Runs : Live(r) /\ CancelRecord(r) /\ UNCHANGED up
       \/ /\ \A r \in Runs : ~Live(r)
          /\ up' = "stopped" /\ UNCHANGED <<rec, valid, ends>>
    /\ asked' = 0
    /\ UNCHANGED <<born, plan, snap, used>>

----------------------------------------------------------------------------
(* Execution *)

\* The first event of an execution is written without a look at the record.
First(r) ==
    /\ \E kind \in {"run.started", "run.resumed"} : At(r, kind) /\ Emit(r, Then(r), kind)
    /\ UNCHANGED <<up, born, stored, used>>

\* ensureReady in the middle of an execution, an aborted model call, a host call
\* that is refused, an output that is not what was asked for.
StepFails(r) ==
    /\ Exists(r) /\ rec[r].todo # <<>> /\ ~At(r, "run.started") /\ ~At(r, "run.resumed")
    /\ \/ up # "ready" /\ UNCHANGED used
       \/ IsTerminal(r) /\ UNCHANGED used
       \/ used.faults < MaxFaults /\ used' = [used EXCEPT !.faults = @ + 1]
    /\ FailUnlessTerminal(r)
    /\ asked' = IF r = Planner THEN 0 ELSE asked
    /\ UNCHANGED <<up, born, plan, snap>>

\* executeConversation, executeActivityAnalysis: deltas, each after a check.
Stream(r) ==
    /\ At(r, "stream")
    /\ Unless(r, \/ /\ rec[r].deltas < MaxDeltas
                    /\ Emit(r, [rec[r] EXCEPT !.deltas = @ + 1], "text.delta")
                 \/ Silent(r, [rec[r] EXCEPT !.todo = <<"text", "rest", "complete">>]))
    /\ UNCHANGED <<up, born, stored, used>>

\* What the guard has held back is written when the stream has ended; there is no
\* check between the two writes.
FinalText(r) ==
    /\ \/ /\ At(r, "text")
          /\ Unless(r, Emit(r, Then(r), "text.delta") \/ Silent(r, Then(r)))
       \/ At(r, "rest") /\ (Emit(r, Then(r), "text.delta") \/ Silent(r, Then(r)))
    /\ UNCHANGED <<up, born, stored, used>>

Finish(r) ==
    /\ At(r, "complete") /\ Complete(r)
    /\ UNCHANGED <<up, born, stored, used>>

----------------------------------------------------------------------------
(* The planning workflow *)

\* workflow/start: the session is created, or the one there is used.
StartWorkflow ==
    LET r == Planner IN
    /\ At(r, "workflow/start")
    /\ plan' = [plan EXCEPT !.on = TRUE]
    /\ Silent(r, IF IsTerminal(r) THEN Stopped(r) ELSE Then(r))
    /\ UNCHANGED <<up, born, snap, asked, used>>

Rehydrated == [ver |-> plan.ver, rounds |-> plan.rounds]

\* rehydratePlanningRun: session and snapshot must be those of one question.
Rehydrate ==
    LET r == Planner IN
    /\ At(r, "rehydrate")
    /\ IF snap.on /\ snap.ver = plan.ver /\ snap.rounds = plan.rounds
       THEN Unless(r, Silent(r, [Then(r) EXCEPT !.ver = Rehydrated.ver,
                                                !.rounds = Rehydrated.rounds]))
       ELSE FailUnlessTerminal(r)
    /\ UNCHANGED <<up, born, stored, used>>

\* executePlanningAnswer: what is stored is what the run was suspended with.
LoadPlanning ==
    LET r == Planner IN
    /\ At(r, "planning/load")
    /\ Unless(r, IF plan.ver = rec[r].ver THEN Silent(r, Then(r)) ELSE FailUnlessTerminal(r))
    /\ UNCHANGED <<up, born, stored, used>>

MayAsk(r) == rec[r].rounds < MaxRounds

\* savePlanning inside the step, whose suspension is persisted next
Asking == <<"planning/save", "persist", "suspend">>

\* executePlanningModel: a question, if there is a round left, or a draft that is
\* validated, repaired once, and kept as a draft or as a conflict.
Model ==
    LET r == Planner IN
    /\ At(r, "model")
    /\ \/ Unless(r, IF MayAsk(r)
                    THEN Silent(r, [rec[r] EXCEPT !.rounds = @ + 1,
                                       !.todo = Asking])
                    ELSE FailUnlessTerminal(r))
       \/ Unless(r, Silent(r, [rec[r] EXCEPT !.todo = <<"planning/validate", "planning/save", "complete">>]))
    /\ UNCHANGED <<up, born, stored, used>>

Validate ==
    LET r == Planner IN
    /\ At(r, "planning/validate")
    /\ \/ Silent(r, Then(r))
       \/ Silent(r, [rec[r] EXCEPT !.todo = <<"repair">> \o Tail(@)])
    /\ UNCHANGED <<up, born, stored, used>>

\* The second draft is validated, and saved either way; a cancelled run fails here.
Repair ==
    LET r == Planner IN
    /\ At(r, "repair")
    /\ Unless(r, Silent(r, Then(r)))
    /\ UNCHANGED <<up, born, stored, used>>

\* planning/save: only over the version that was read.
SavePlanning ==
    LET r == Planner IN
    /\ At(r, "planning/save")
    /\ IF plan.ver = rec[r].ver
       THEN /\ plan' = [plan EXCEPT !.ver = @ + 1, !.rounds = rec[r].rounds]
            /\ Silent(r, [Then(r) EXCEPT !.ver = @ + 1])
       ELSE UNCHANGED plan /\ FailUnlessTerminal(r)
    /\ UNCHANGED <<up, born, snap, asked, used>>

\* workflow/snapshot.persist, for the step that suspends
PersistSnapshot ==
    LET r == Planner IN
    /\ At(r, "persist")
    /\ snap' = [ver |-> rec[r].ver, rounds |-> rec[r].rounds, on |-> TRUE]
    /\ Silent(r, IF IsTerminal(r) THEN Stopped(r) ELSE Then(r))
    /\ UNCHANGED <<up, born, plan, asked, used>>

\* suspend; the main process shows the question.
Suspend ==
    LET r == Planner IN
    /\ At(r, "suspend")
    /\ IF IsTerminal(r) THEN Silent(r, Stopped(r)) /\ UNCHANGED asked
       ELSE Emit(r, [Stopped(r) EXCEPT !.status = "suspended"], "run.suspended") /\ asked' = rec[r].ver
    /\ UNCHANGED <<up, born, plan, snap, used>>

\* The process ends and is replaced; the main process keeps a run that waits for
\* an answer and gives up the others.
Crash ==
    /\ up # "new" /\ used.crashes < MaxCrashes
    /\ used' = [used EXCEPT !.crashes = @ + 1]
    /\ up' = "new" /\ rec' = [r \in Runs |-> NoRec] /\ born' = <<>>
    /\ UNCHANGED <<valid, ends, stored>>

Execute(r) ==
    \/ First(r) \/ Stream(r) \/ FinalText(r) \/ Finish(r)
    \/ r = Planner /\ (\/ StartWorkflow \/ Rehydrate \/ LoadPlanning \/ Model \/ Validate
                       \/ Repair \/ SavePlanning \/ PersistSnapshot \/ Suspend)

Next ==
    \/ Initialize \/ Shutdown \/ ShutdownStep \/ AnswerPlanning \/ Crash
    \/ \E r \in Runs : Start(r) \/ Cancel(r) \/ StepFails(r) \/ Execute(r)

Spec == Init /\ [][Next]_vars

\* Model and host calls settle. The event queue of the process goes on.
Fairness ==
    /\ \A r \in Runs : WF_vars(Execute(r) \/ StepFails(r))
    /\ WF_vars(ShutdownStep)

LiveSpec == Spec /\ Fairness

\* The runs that do not plan are interchangeable.
Others == Permutations(Runs \ {Planner})

----------------------------------------------------------------------------
(* Properties *)

HostTypeOK ==
    /\ up \in {"new", "ready", "stopping", "stopped"}
    /\ \A r \in Runs : Exists(r) =>
           rec[r].status \in Terminal \cup {"running", "suspended"}
    /\ \A i \in 1..Len(born) : Exists(born[i])
    /\ valid \in BOOLEAN /\ ends \in [Runs -> Nat]
    /\ plan.ver \in Nat /\ snap.ver <= plan.ver

\* A run ends once: of a cancellation, a failure, a completion and the shutdown that
\* meet, one writes its event (complete, cancelRecord, failUnlessTerminal).
EndsOnce == \A r \in Runs : ends[r] <= 1

\* Every event frame has the shape the receiver asks for, which takes the terminal
\* state to follow from the event's kind and closes the process over any other frame
\* (emit, isAgentRunEventFrame).
EventFramesValid == valid

\* A user is asked at most so many times about one session, however often the run
\* was taken up again by another process (executePlanningModel, rehydratePlanningRun).
RoundsBounded == plan.rounds <= MaxRounds /\ snap.rounds <= MaxRounds

\* A question that is shown can be answered: session, snapshot and the record, if
\* the process still has it, are at its version (savePlanning, suspend, rehydratePlanningRun).
QuestionIsCurrent ==
    asked # 0 => /\ plan.ver = asked /\ snap.on /\ snap.ver = asked /\ snap.rounds = plan.rounds
                 /\ Exists(Planner) => rec[Planner].ver = asked

\* Room is only made at the cost of runs that have ended (pruneRuns).
LiveRunKeptStep ==
    \A r \in Runs : Live(r) /\ up' # "new" => rec'[r] # NoRec
LiveRunKept == [][LiveRunKeptStep]_vars

\* When the shutdown is over no run is under way, and none comes after it (shutdown,
\* ensureReady).
ShutdownIsFinalStep ==
    (up = "stopping" \/ up = "stopped") =>
           \A r \in Runs : ~Exists(r) => rec'[r] = NoRec
ShutdownIsFinal == [][ShutdownIsFinalStep]_vars

\* A run that was accepted ends or waits for the user, unless the process ends first
\* (schedule, failUnlessTerminal).
RunsSettle ==
    \A r \in Runs : (Exists(r) /\ rec[r].status = "running") ~>
        (~Exists(r) \/ rec[r].status # "running")

================================================================================
