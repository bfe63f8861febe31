---------------------------- MODULE AgentRuns_proofs ----------------------------
(***************************************************************************)
(* Proofs about the runs of the coordinator and their tool approvals, for  *)
(* any number of calls, user commands, exits, sign outs, crashes and       *)
(* faults: a decision is final but for an approval that lapses unused      *)
(* (DecisionIsFinal), and a write takes effect at most once, and only when *)
(* it was approved (RunsSafe).                                             *)
(*                                                                         *)
(* The argument follows the right to execute a call. It comes into being   *)
(* when an approval leaves "pending", which it does once; it is held by    *)
(* the decision under way, by approvedToolCalls, or by the execution under *)
(* way, never by two of them, and it ends when the write takes effect or   *)
(* the approval lapses, which for that reason cannot both happen.          *)
(* What keeps the two ways of executing apart, by the sidecar or without   *)
(* it, is that a run cannot be marked recoverable while a decision is      *)
(* under way: its critical operation.                                      *)
(***************************************************************************)
EXTENDS AgentRuns, SequenceTheorems, TLAPS

----------------------------------------------------------------------------
(* The inductive invariant *)

Ops == {"decide", "cancel", "answer"}
StepNames ==
    {"messages", "activate", "emit", "request", "message", "putComplete", "finish", "complete",
     "assert", "failed", "cancelled", "interrupted", "settle", "putApproval", "proposed",
     "reply", "begin", "check", "land", "endCritical", "consume", "decided", "resolve",
     "reactivate", "track", "cancelRequest", "cancelAnswer", "answered", "answerRequest",
     "drainStarts", "drainChain", "drainHost", "drainCritical", "cancelRun", "orphan"} \cup Ops
EventNames == {"running", "suspended", "question", "completed", "cancelled", "failed", "gap"}
Sides == {"none", "starting", "running", "asking", "suspended", "approving", "declining",
          "approved", "calling", "cancelling", "done"}
Statuses == Unfinished \cup Terminal \cup {None}

Objects == [status : Statuses, rev : Nat, pend : Pend, rec : BOOLEAN, crit : BOOLEAN,
            sess : Sessions \cup {0}]
TaskRecords == [todo : Seq(StepNames), i : Insts \cup {0}, c : Calls \cup {None},
                yes : BOOLEAN, s : Sessions \cup {0}, snap : Snap]
Approvals == [st : {None, "pending", "approved", "denied", "expired"}, rev : Nat]

Counts == [cmds : Nat, exits : Nat, outs : Nat, crashes : Nat, faults : Nat]

\* The type of all but the objects, the tasks, the approvals and what was done.
Others ==
    /\ kind \in {None, "conversation-turn", "task-planning"}
    /\ db \in Snap /\ old \subseteq Calls /\ active \in Insts \cup {0}
    /\ sess \in Sessions \cup {0} /\ side \in Sides /\ tracked \in BOOLEAN
    /\ events \in Seq(EventNames)
    /\ used \in Counts /\ used.outs <= MaxOuts /\ used.crashes <= MaxCrashes
Shape ==
    /\ Others
    /\ obj \in [Insts -> Objects] /\ task \in [Tasks -> TaskRecords]
    /\ appr \in [Calls -> Approvals] /\ done \in [Calls -> Nat] /\ tokens \subseteq Calls

\* What a task is about to do that has no object yet, or needs none.
Waiting ==
    {<<>>, <<"messages", "activate", "emit", "request">>, <<"activate", "emit", "request">>,
     <<"activate", "request">>, <<"drainStarts">>, <<"orphan">>}
    \cup {<<"reactivate", "track", op>> : op \in Ops}
Activates(todo) == Has(todo, "activate") \/ Has(todo, "reactivate")
Placed ==
    \A t \in Tasks :
        task[t].i = 0 \/ Activates(task[t].todo) => task[t].todo \in Waiting

Asking == {<<"decide">>, <<"track", "decide">>, <<"reactivate", "track", "decide">>}
Consuming == <<"consume", "decided", "resolve", "endCritical">>
Deciding == <<"decided", "resolve", "endCritical">>
Resolving == <<"resolve", "endCritical">>
Running ==
    {<<"begin", "reply">>, <<"check", "land", "endCritical", "reply">>,
     <<"land", "endCritical", "reply">>}
Recovering ==
    {<<"emit", "check", "land", "endCritical">>, <<"check", "land", "endCritical">>,
     <<"land", "endCritical">>}
Once(todo) ==
    \A j, k \in 1..Len(todo) : todo[j] = "endCritical" /\ todo[k] = "endCritical" => j = k

\* Where a todo has a step that touches an approval, the rest of it is known.
Laid(t, todo) ==
    /\ Has(todo, "putApproval") => t = "host" /\ todo = <<"putApproval", "proposed", "reply">>
    /\ Has(todo, "begin") \/ Has(todo, "check") \/ Has(todo, "land") =>
         \/ t = "host" /\ todo \in Running
         \/ t \in Users /\ todo \in Recovering
    /\ Has(todo, "decide") => t \in Users /\ todo \in Asking
    /\ Has(todo, "consume") => t \in Users /\ todo = Consuming
    /\ Has(todo, "decided") => t \in Users /\ todo \in {Consuming, Deciding}
    /\ Has(todo, "resolve") => t \in Users /\ todo \in {Consuming, Deciding, Resolving}
    /\ Once(todo)
LaidMarks == {"putApproval", "begin", "check", "land", "decide", "consume", "decided", "resolve"}
TodosLaid ==
    \A t \in Tasks :
        /\ Laid(t, task[t].todo)
        /\ \A m \in LaidMarks : Has(task[t].todo, m) => task[t].c \in Calls

\* An approval that is being proposed is not there yet.
ProposedOnce == Has(task["host"].todo, "putApproval") => appr[task["host"].c].st = None

\* A task that is going to end a critical operation is in it, alone.
InCritical(t) == Has(task[t].todo, "endCritical")
CriticalHeld ==
    \A t \in Tasks : InCritical(t) =>
        /\ task[t].i \in Insts /\ obj[task[t].i].crit
        /\ \A x \in Tasks \ {t} : InCritical(x) => task[x].i # task[t].i

\* The right to execute c.
Executes(todo) == Has(todo, "check") \/ Has(todo, "land") \/ Has(todo, "begin")
Decides(r) ==
    /\ r.yes /\ ~Has(r.todo, "consume")
    /\ Has(r.todo, "decided") \/ (Has(r.todo, "resolve") /\ obj[r.i].rec)
MayWrite(t, c) == task[t].c = c /\ (Executes(task[t].todo) \/ Decides(task[t]))

\* It is held once, for an approved call that has not been executed.
OneRight ==
    \A c \in Calls :
        /\ done[c] <= 1
        /\ done[c] > 0 => appr[c].st = "approved"
        /\ c \in tokens => appr[c].st = "approved" /\ done[c] = 0
        /\ \A t \in Tasks : MayWrite(t, c) =>
             /\ appr[c].st = "approved" /\ done[c] = 0 /\ c \notin tokens
             /\ \A x \in Tasks \ {t} : ~MayWrite(x, c)

RunsInv == Shape /\ Placed /\ TodosLaid /\ ProposedOnce /\ CriticalHeld /\ OneRight

----------------------------------------------------------------------------
(* What a task is about to do *)

\* Handlers are not slots of the user.
LEMMA Apart ==
  "host" \in Tasks /\ "host" \notin Users /\ Users \subseteq Tasks /\ Handlers \subseteq Tasks
BY RunUsers DEF Tasks, Handlers

\* The first step and the rest.
LEMMA HasTail ==
  ASSUME NEW s \in Seq(StepNames), s # <<>>
  PROVE  /\ Head(s) \in StepNames /\ Tail(s) \in Seq(StepNames)
         /\ \A x : Has(Tail(s), x) => Has(s, x)
         /\ Has(s, Head(s))
<1>1. /\ Len(s) \in Nat /\ Len(s) > 0 /\ Head(s) = s[1] /\ s[1] \in StepNames
      /\ Tail(s) \in Seq(StepNames) /\ Len(Tail(s)) = Len(s) - 1
      /\ \A k \in 1..Len(s) - 1 : Tail(s)[k] = s[k + 1]
  OBVIOUS
<1>2. ASSUME NEW x, Has(Tail(s), x) PROVE Has(s, x)
  <2>1. PICK k \in 1..Len(Tail(s)) : Tail(s)[k] = x BY <1>2 DEF Has
  <2>2. k + 1 \in 1..Len(s) /\ s[k + 1] = x BY <1>1, <2>1
  <2> QED BY <2>2 DEF Has
<1>3. Has(s, Head(s))
  <2>1. 1 \in 1..Len(s) BY <1>1
  <2> QED BY <1>1, <2>1 DEF Has
<1> QED BY <1>1, <1>2, <1>3

\* One todo after another.
LEMMA HasConcat ==
  ASSUME NEW a \in Seq(StepNames), NEW b \in Seq(StepNames)
  PROVE  /\ a \o b \in Seq(StepNames)
         /\ \A x : Has(a \o b, x) <=> Has(a, x) \/ Has(b, x)
<1>1. /\ a \o b \in Seq(StepNames) /\ Len(a \o b) = Len(a) + Len(b)
      /\ Len(a) \in Nat /\ Len(b) \in Nat
      /\ \A k \in 1..Len(a) : (a \o b)[k] = a[k]
      /\ \A k \in 1..Len(b) : (a \o b)[Len(a) + k] = b[k]
  OBVIOUS
<1>2. ASSUME NEW x, Has(a \o b, x) PROVE Has(a, x) \/ Has(b, x)
  <2>1. PICK k \in 1..Len(a \o b) : (a \o b)[k] = x BY <1>2 DEF Has
  <2>2. CASE k \in 1..Len(a) BY <1>1, <2>1, <2>2 DEF Has
  <2>3. CASE k \notin 1..Len(a)
    <3>1. k - Len(a) \in 1..Len(b) /\ k = Len(a) + (k - Len(a)) BY <1>1, <2>1, <2>3
    <3>2. b[k - Len(a)] = x BY <1>1, <2>1, <3>1
    <3> QED BY <3>1, <3>2 DEF Has
  <2> QED BY <2>2, <2>3
<1>3. ASSUME NEW x, Has(a, x) PROVE Has(a \o b, x)
  <2>1. PICK k \in 1..Len(a) : a[k] = x BY <1>3 DEF Has
  <2>2. k \in 1..Len(a \o b) /\ (a \o b)[k] = x BY <1>1, <2>1
  <2> QED BY <2>2 DEF Has
<1>4. ASSUME NEW x, Has(b, x) PROVE Has(a \o b, x)
  <2>1. PICK k \in 1..Len(b) : b[k] = x BY <1>4 DEF Has
  <2>2. Len(a) + k \in 1..Len(a \o b) /\ (a \o b)[Len(a) + k] = x BY <1>1, <2>1
  <2> QED BY <2>2 DEF Has
<1> QED BY <1>1, <1>2, <1>3, <1>4

\* A critical operation ends once.
LEMMA OnceTail ==
  ASSUME NEW s \in Seq(StepNames), s # <<>>, Once(s)
  PROVE  Once(Tail(s)) /\ (Head(s) = "endCritical" => ~Has(Tail(s), "endCritical"))
<1>1. /\ Len(s) \in Nat /\ Len(s) > 0 /\ Head(s) = s[1]
      /\ Len(Tail(s)) = Len(s) - 1
      /\ \A k \in 1..Len(s) - 1 : Tail(s)[k] = s[k + 1]
  OBVIOUS
<1>2. ASSUME NEW j \in 1..Len(Tail(s)), NEW k \in 1..Len(Tail(s)),
             Tail(s)[j] = "endCritical", Tail(s)[k] = "endCritical"
      PROVE  j = k
  <2>1. j + 1 \in 1..Len(s) /\ k + 1 \in 1..Len(s) BY <1>1
  <2>2. s[j + 1] = "endCritical" /\ s[k + 1] = "endCritical" BY <1>1, <1>2
  <2>3. j + 1 = k + 1 BY <2>1, <2>2 DEF Once
  <2> QED BY <2>3
<1>3. ASSUME Head(s) = "endCritical", Has(Tail(s), "endCritical") PROVE FALSE
  <2>1. PICK k \in 1..Len(Tail(s)) : Tail(s)[k] = "endCritical" BY <1>3 DEF Has
  <2>2. 1 \in 1..Len(s) /\ k + 1 \in 1..Len(s) /\ s[k + 1] = "endCritical" BY <1>1, <2>1
  <2>3. 1 = k + 1 BY <1>1, <1>3, <2>2 DEF Once
  <2> QED BY <2>3
<1> QED BY <1>2, <1>3 DEF Once

\* Without a critical operation of its own, what comes first does not matter.
LEMMA OnceConcat ==
  ASSUME NEW a \in Seq(StepNames), NEW b \in Seq(StepNames), ~Has(a, "endCritical"), Once(b)
  PROVE  Once(a \o b)
<1>1. /\ Len(a \o b) = Len(a) + Len(b) /\ Len(a) \in Nat /\ Len(b) \in Nat
      /\ \A k \in 1..Len(a) : (a \o b)[k] = a[k]
      /\ \A k \in 1..Len(b) : (a \o b)[Len(a) + k] = b[k]
  OBVIOUS
<1>2. ASSUME NEW k \in 1..Len(a \o b), (a \o b)[k] = "endCritical"
      PROVE  k - Len(a) \in 1..Len(b) /\ b[k - Len(a)] = "endCritical"
  <2>1. k \notin 1..Len(a) BY <1>1, <1>2 DEF Has
  <2>2. k - Len(a) \in 1..Len(b) /\ k = Len(a) + (k - Len(a)) BY <1>1, <2>1
  <2>3. (a \o b)[Len(a) + (k - Len(a))] = b[k - Len(a)] BY <1>1, <2>2
  <2> QED BY <1>2, <2>2, <2>3
<1>3. ASSUME NEW j \in 1..Len(a \o b), NEW k \in 1..Len(a \o b),
             (a \o b)[j] = "endCritical", (a \o b)[k] = "endCritical"
      PROVE  j = k
  <2>1. j - Len(a) \in 1..Len(b) /\ b[j - Len(a)] = "endCritical" BY <1>2, <1>3
  <2>2. k - Len(a) \in 1..Len(b) /\ b[k - Len(a)] = "endCritical" BY <1>2, <1>3
  <2>3. j - Len(a) = k - Len(a) BY <2>1, <2>2 DEF Once
  <2>4. j \in Int /\ k \in Int BY <1>1
  <2> QED BY <1>1, <2>3, <2>4
<1> QED BY <1>3 DEF Once

\* The empty todo and those of one step.
LEMMA HasFew ==
  /\ <<>> \in Seq(StepNames) /\ Once(<<>>) /\ \A x : ~Has(<<>>, x)
  /\ \A e \in StepNames : <<e>> \in Seq(StepNames) /\ Once(<<e>>) /\ \A x : Has(<<e>>, x) <=> x = e
<1>1. /\ <<>> \in Seq(StepNames) /\ Once(<<>>) /\ \A x : ~Has(<<>>, x) BY DEF Once, Has
<1>2. ASSUME NEW e \in StepNames
      PROVE  <<e>> \in Seq(StepNames) /\ Once(<<e>>) /\ \A x : Has(<<e>>, x) <=> x = e
  <2>1. Len(<<e>>) = 1 /\ <<e>>[1] = e /\ <<e>> \in Seq(StepNames) OBVIOUS
  <2> QED BY <2>1 DEF Once, Has
<1> QED BY <1>1, <1>2

\* Todos of two, three and four steps.
LEMMA HasTwo ==
  ASSUME NEW e \in StepNames, NEW f \in StepNames
  PROVE  <<e, f>> \in Seq(StepNames) /\ \A x : Has(<<e, f>>, x) <=> x \in {e, f}
<1>1. <<e, f>> \in Seq(StepNames) /\ Len(<<e, f>>) = 2 /\ <<e, f>>[1] = e /\ <<e, f>>[2] = f
  OBVIOUS
<1>2. 1..2 = {1, 2} OBVIOUS
<1> QED BY <1>1, <1>2 DEF Has

\* See above.
LEMMA HasThree ==
  ASSUME NEW e \in StepNames, NEW f \in StepNames, NEW g \in StepNames
  PROVE  <<e, f, g>> \in Seq(StepNames) /\ \A x : Has(<<e, f, g>>, x) <=> x \in {e, f, g}
<1>1. /\ <<e, f, g>> \in Seq(StepNames) /\ Len(<<e, f, g>>) = 3
      /\ <<e, f, g>>[1] = e /\ <<e, f, g>>[2] = f /\ <<e, f, g>>[3] = g
  OBVIOUS
<1>2. 1..3 = {1, 2, 3} OBVIOUS
<1> QED BY <1>1, <1>2 DEF Has

\* See above.
LEMMA HasFour ==
  ASSUME NEW e \in StepNames, NEW f \in StepNames, NEW g \in StepNames, NEW h \in StepNames
  PROVE  /\ <<e, f, g, h>> \in Seq(StepNames)
         /\ \A x : Has(<<e, f, g, h>>, x) <=> x \in {e, f, g, h}
<1>1. /\ <<e, f, g, h>> \in Seq(StepNames) /\ Len(<<e, f, g, h>>) = 4
      /\ <<e, f, g, h>>[1] = e /\ <<e, f, g, h>>[2] = f
      /\ <<e, f, g, h>>[3] = g /\ <<e, f, g, h>>[4] = h
  OBVIOUS
<1>2. 1..4 = {1, 2, 3, 4} OBVIOUS
<1> QED BY <1>1, <1>2 DEF Has

\* What is left of a todo when a step throws.
LEMMA UnwoundSteps ==
  ASSUME NEW s \in Seq(StepNames)
  PROVE  /\ Unwound(s) \in Seq(StepNames) /\ Once(Unwound(s))
         /\ \A x : Has(Unwound(s), x) => x \in {"endCritical", "reply"} /\ Has(s, x)
         /\ ~Has(s, "endCritical") /\ ~Has(s, "reply") => Unwound(s) = <<>>
<1> DEFINE a == IF Has(s, "endCritical") THEN <<"endCritical">> ELSE <<>>
           b == IF Has(s, "reply") THEN <<"reply">> ELSE <<>>
<1>1. /\ a \in Seq(StepNames) /\ Once(a)
      /\ \A x : Has(a, x) => x = "endCritical" /\ Has(s, x)
  <2>1. "endCritical" \in StepNames BY DEF StepNames
  <2> QED BY <2>1, HasFew
<1>2. /\ b \in Seq(StepNames) /\ Once(b)
      /\ \A x : Has(b, x) => x = "reply" /\ Has(s, x)
  <2>1. "reply" \in StepNames BY DEF StepNames
  <2> QED BY <2>1, HasFew
<1>3. Unwound(s) = a \o b BY DEF Unwound
<1>4. ~Has(s, "endCritical") /\ ~Has(s, "reply") => a = <<>> /\ b = <<>> OBVIOUS
<1>5. Once(a \o b)
  <2>1. CASE ~Has(s, "endCritical")
    <3>1. ~Has(a, "endCritical") BY <1>1, <2>1
    <3> HIDE DEF a, b
    <3> QED BY <1>1, <1>2, <3>1, OnceConcat
  <2>2. CASE Has(s, "endCritical")
    <3>1. a = <<"endCritical">> /\ b \in {<<>>, <<"reply">>} BY <2>2
    <3>2. CASE b = <<>>
      <4>1. a \o b = a BY <1>1, <3>2, ConcatEmptySeq
      <4> QED BY <1>1, <4>1
    <3>3. CASE b = <<"reply">>
      <4>1. Len(<<"endCritical">>) = 1 /\ Len(<<"reply">>) = 1 OBVIOUS
      <4>2. /\ Len(<<"endCritical">> \o <<"reply">>) = 2
            /\ (<<"endCritical">> \o <<"reply">>)[2] = "reply"
        BY <4>1
      <4> QED BY <3>1, <3>3, <4>2 DEF Once
    <3> QED BY <3>1, <3>2, <3>3
  <2> QED BY <2>1, <2>2
<1>6. <<>> \o <<>> = <<>> OBVIOUS
<1> HIDE DEF a, b
<1> QED BY <1>1, <1>2, <1>3, <1>4, <1>5, <1>6, HasConcat

Marks == (LaidMarks \ {"decide"}) \cup {"endCritical"}

\* The known todos, step by step.
LEMMA KnownTails ==
  /\ Tail(<<"putApproval", "proposed", "reply">>) = <<"proposed", "reply">>
  /\ Tail(Consuming) = Deciding /\ Tail(Deciding) = Resolving
  /\ Tail(Resolving) = <<"endCritical">>
  /\ Tail(<<"begin", "reply">>) = <<"reply">>
  /\ Tail(<<"check", "land", "endCritical", "reply">>) = <<"land", "endCritical", "reply">>
  /\ Tail(<<"land", "endCritical", "reply">>) = <<"endCritical", "reply">>
  /\ Tail(<<"emit", "check", "land", "endCritical">>) = <<"check", "land", "endCritical">>
  /\ Tail(<<"check", "land", "endCritical">>) = <<"land", "endCritical">>
  /\ Tail(<<"land", "endCritical">>) = <<"endCritical">>
  /\ Tail(<<"reactivate", "track", "decide">>) = <<"track", "decide">>
  /\ Tail(<<"track", "decide">>) = <<"decide">>
  /\ Tail(<<"decide">>) = <<>>
BY DEF Consuming, Deciding, Resolving

\* Their steps.
LEMMA KnownSteps ==
  /\ \A x : Has(<<"proposed", "reply">>, x) <=> x \in {"proposed", "reply"}
  /\ \A x : Has(Consuming, x) <=> x \in {"consume", "decided", "resolve", "endCritical"}
  /\ \A x : Has(Deciding, x) <=> x \in {"decided", "resolve", "endCritical"}
  /\ \A x : Has(Resolving, x) <=> x \in {"resolve", "endCritical"}
  /\ \A x : Has(<<"endCritical">>, x) <=> x = "endCritical"
  /\ \A x : Has(<<"reply">>, x) <=> x = "reply"
  /\ \A x : Has(<<"endCritical", "reply">>, x) <=> x \in {"endCritical", "reply"}
  /\ \A s \in Running \cup Recovering :
        \A x \in LaidMarks : Has(s, x) => x \in {"begin", "check", "land"}
  /\ \A s \in Running \cup Recovering : Has(s, "endCritical") \/ s = <<"begin", "reply">>
  /\ \A s \in Asking : \A x \in LaidMarks \cup Marks : Has(s, x) => x = "decide"
<1>1. {"proposed", "reply", "consume", "decided", "resolve", "endCritical", "begin", "check",
       "land", "emit", "track", "decide", "reactivate"} \subseteq StepNames
  BY DEF StepNames, Ops
<1>2. /\ \A x : Has(<<"proposed", "reply">>, x) <=> x \in {"proposed", "reply"}
      /\ \A x : Has(<<"endCritical">>, x) <=> x = "endCritical"
      /\ \A x : Has(<<"reply">>, x) <=> x = "reply"
      /\ \A x : Has(<<"endCritical", "reply">>, x) <=> x \in {"endCritical", "reply"}
  BY <1>1, HasFew, HasTwo, HasThree, HasFour
<1>3. /\ \A x : Has(Consuming, x) <=> x \in {"consume", "decided", "resolve", "endCritical"}
      /\ \A x : Has(Deciding, x) <=> x \in {"decided", "resolve", "endCritical"}
      /\ \A x : Has(Resolving, x) <=> x \in {"resolve", "endCritical"}
  BY <1>1, HasTwo, HasThree, HasFour DEF Consuming, Deciding, Resolving
<1>4. /\ \A x : Has(<<"begin", "reply">>, x) <=> x \in {"begin", "reply"}
      /\ \A x : Has(<<"check", "land", "endCritical", "reply">>, x)
                  <=> x \in {"check", "land", "endCritical", "reply"}
      /\ \A x : Has(<<"land", "endCritical", "reply">>, x)
                  <=> x \in {"land", "endCritical", "reply"}
  BY <1>1, HasFew, HasTwo, HasThree, HasFour
<1>5. /\ \A x : Has(<<"emit", "check", "land", "endCritical">>, x)
                  <=> x \in {"emit", "check", "land", "endCritical"}
      /\ \A x : Has(<<"check", "land", "endCritical">>, x)
                  <=> x \in {"check", "land", "endCritical"}
      /\ \A x : Has(<<"land", "endCritical">>, x) <=> x \in {"land", "endCritical"}
  BY <1>1, HasFew, HasTwo, HasThree, HasFour
<1>6. /\ \A x : Has(<<"decide">>, x) <=> x = "decide"
      /\ \A x : Has(<<"track", "decide">>, x) <=> x \in {"track", "decide"}
      /\ \A x : Has(<<"reactivate", "track", "decide">>, x)
                  <=> x \in {"reactivate", "track", "decide"}
  BY <1>1, HasFew, HasTwo, HasThree, HasFour
<1>7. \A s \in Running \cup Recovering :
        /\ \A x \in LaidMarks : Has(s, x) => x \in {"begin", "check", "land"}
        /\ Has(s, "endCritical") \/ s = <<"begin", "reply">>
  BY <1>4, <1>5 DEF Running, Recovering, LaidMarks
<1>8. \A s \in Asking : \A x \in LaidMarks \cup Marks : Has(s, x) => x = "decide"
  BY <1>6 DEF Asking, LaidMarks, Marks
<1> QED BY <1>2, <1>3, <1>7, <1>8

\* A todo without steps of an approval.
LEMMA LaidFree ==
  ASSUME NEW t, NEW s, Once(s), \A x \in LaidMarks : ~Has(s, x)
  PROVE  Laid(t, s)
BY DEF Laid, LaidMarks

\* The rest of a todo is laid as well.
LEMMA LaidTail ==
  ASSUME NEW t, NEW s \in Seq(StepNames), s # <<>>, Laid(t, s)
  PROVE  Laid(t, Tail(s))
<1>1. \A x : Has(Tail(s), x) => Has(s, x) BY HasTail
<1>2. Once(Tail(s)) BY OnceTail DEF Laid
<1>3. ~Has(Tail(s), "putApproval")
  <2> SUFFICES ASSUME Has(Tail(s), "putApproval") PROVE FALSE OBVIOUS
  <2>1. s = <<"putApproval", "proposed", "reply">> BY <1>1 DEF Laid
  <2> QED BY <2>1, KnownTails, KnownSteps
<1>4. ASSUME Has(Tail(s), "begin") \/ Has(Tail(s), "check") \/ Has(Tail(s), "land")
      PROVE  \/ t = "host" /\ Tail(s) \in Running
             \/ t \in Users /\ Tail(s) \in Recovering
  <2>1. \/ t = "host" /\ s \in Running
        \/ t \in Users /\ s \in Recovering
    BY <1>1, <1>4 DEF Laid
  <2>2. /\ ~Has(<<"reply">>, "begin") /\ ~Has(<<"reply">>, "check") /\ ~Has(<<"reply">>, "land")
        /\ \A e \in {"begin", "check", "land"} :
             ~Has(<<"endCritical", "reply">>, e) /\ ~Has(<<"endCritical">>, e)
    BY KnownSteps
  <2>3. CASE t = "host" /\ s \in Running
    <3>1. Tail(s) \in {<<"reply">>, <<"land", "endCritical", "reply">>, <<"endCritical", "reply">>}
      BY <2>3, KnownTails DEF Running
    <3> QED BY <1>4, <2>2, <2>3, <3>1 DEF Running
  <2>4. CASE t \in Users /\ s \in Recovering
    <3>1. Tail(s) \in {<<"check", "land", "endCritical">>, <<"land", "endCritical">>,
                       <<"endCritical">>}
      BY <2>4, KnownTails DEF Recovering
    <3> QED BY <1>4, <2>2, <2>4, <3>1 DEF Recovering
  <2> QED BY <2>1, <2>3, <2>4
<1>5. ASSUME Has(Tail(s), "decide") PROVE t \in Users /\ Tail(s) \in Asking
  <2>1. t \in Users /\ s \in Asking BY <1>1, <1>5 DEF Laid
  <2>2. Tail(s) \in Asking \cup {<<>>} BY <2>1, KnownTails DEF Asking
  <2> QED BY <1>5, <2>1, <2>2, HasFew
<1>6. ~Has(Tail(s), "consume")
  <2> SUFFICES ASSUME Has(Tail(s), "consume") PROVE FALSE OBVIOUS
  <2>1. s = Consuming BY <1>1 DEF Laid
  <2> QED BY <2>1, KnownTails, KnownSteps
<1>7. ASSUME Has(Tail(s), "decided") PROVE t \in Users /\ Tail(s) \in {Consuming, Deciding}
  <2>1. t \in Users /\ s \in {Consuming, Deciding} BY <1>1, <1>7 DEF Laid
  <2>2. Tail(s) \in {Deciding, Resolving} BY <2>1, KnownTails
  <2>3. ~Has(Resolving, "decided") BY KnownSteps
  <2> QED BY <1>7, <2>1, <2>2, <2>3
<1>8. ASSUME Has(Tail(s), "resolve")
      PROVE  t \in Users /\ Tail(s) \in {Consuming, Deciding, Resolving}
  <2>1. t \in Users /\ s \in {Consuming, Deciding, Resolving} BY <1>1, <1>8 DEF Laid
  <2>2. Tail(s) \in {Deciding, Resolving, <<"endCritical">>} BY <2>1, KnownTails
  <2>3. ~Has(<<"endCritical">>, "resolve") BY KnownSteps
  <2> QED BY <1>8, <2>1, <2>2, <2>3
<1> QED BY <1>2, <1>3, <1>4, <1>5, <1>6, <1>7, <1>8 DEF Laid

\* A step that touches an approval is the first one of its todo only where the todo
\* is known; what follows any other step has no mark but the end of the operation.
LEMMA TailMarks ==
  ASSUME NEW t, NEW s \in Seq(StepNames), s # <<>>, Laid(t, s), NEW x \in LaidMarks,
         Has(Tail(s), x)
  PROVE  Head(s) \in {"consume", "decided", "check", "emit", "track", "reactivate"}
<1>1. Has(s, x) /\ Has(s, Head(s)) BY HasTail
<1>2. CASE x = "putApproval"
  <2>1. Tail(s) = <<"proposed", "reply">> BY <1>1, <1>2, KnownTails DEF Laid
  <2>2. \A y : Has(<<"proposed", "reply">>, y) <=> y \in {"proposed", "reply"} BY KnownSteps
  <2>3. x \in {"proposed", "reply"} BY <2>1, <2>2
  <2> QED BY <1>2, <2>3
<1>3. CASE x \in {"begin", "check", "land"}
  <2>1. s \in Running \cup Recovering BY <1>1, <1>3 DEF Laid
  <2>2. Tail(s) \notin {<<"reply">>, <<"endCritical", "reply">>, <<"endCritical">>}
    <3>1. ~Has(<<"reply">>, x) /\ ~Has(<<"endCritical", "reply">>, x) /\ ~Has(<<"endCritical">>, x)
      BY <1>3, KnownSteps
    <3> QED BY <3>1
  <2>3. s \in {<<"check", "land", "endCritical", "reply">>,
               <<"emit", "check", "land", "endCritical">>, <<"check", "land", "endCritical">>}
    BY <2>1, <2>2, KnownTails DEF Running, Recovering
  <2> QED BY <2>3
<1>4. CASE x = "decide"
  <2>1. s \in Asking BY <1>1, <1>4 DEF Laid
  <2>2. s # <<"decide">>
    <3>1. Tail(<<"decide">>) = <<>> BY KnownTails
    <3>2. ~Has(<<>>, x) BY HasFew
    <3> QED BY <3>1, <3>2
  <2>3. s \in {<<"track", "decide">>, <<"reactivate", "track", "decide">>} BY <2>1, <2>2 DEF Asking
  <2> QED BY <2>3
<1>5. CASE x \in {"consume", "decided", "resolve"}
  <2>1. s \in {Consuming, Deciding, Resolving} BY <1>1, <1>5 DEF Laid
  <2>2. s # Resolving
    <3>1. ~Has(<<"endCritical">>, x) BY <1>5, KnownSteps
    <3> QED BY <3>1, KnownTails
  <2> QED BY <2>1, <2>2 DEF Consuming, Deciding
<1> QED BY <1>2, <1>3, <1>4, <1>5 DEF LaidMarks

\* The todos of tasks without an object.
LEMMA WaitingTodos ==
  ASSUME NEW s \in Waiting
  PROVE  /\ s \in Seq(StepNames) /\ \A x \in Marks \cup {"reply"} : ~Has(s, x)
         /\ s # <<>> => Head(s) \in {"messages", "activate", "drainStarts", "orphan", "reactivate"}
         /\ s # <<>> /\ Head(s) \in {"messages", "drainStarts", "orphan"} => Tail(s) \in Waiting
         /\ s # <<>> /\ Activates(Tail(s)) => Tail(s) \in Waiting
<1>1. {"messages", "activate", "emit", "request", "drainStarts", "orphan", "reactivate", "track"}
        \cup Ops \subseteq StepNames
  BY DEF StepNames
<1>2. ({"messages", "activate", "emit", "request", "drainStarts", "orphan", "reactivate", "track"}
        \cup Ops) \cap (Marks \cup {"reply"}) = {}
  BY DEF Marks, LaidMarks, Ops
<1>3. CASE s = <<"messages", "activate", "emit", "request">>
  <2>1. /\ s \in Seq(StepNames)
        /\ \A x : Has(s, x) => x \in {"messages", "activate", "emit", "request"}
    BY <1>1, <1>3, HasFour
  <2>2. Head(s) = "messages" /\ Tail(s) = <<"activate", "emit", "request">> BY <1>3
  <2> QED BY <1>2, <2>1, <2>2 DEF Waiting
<1>4. CASE s = <<"activate", "emit", "request">>
  <2>1. s \in Seq(StepNames) /\ \A x : Has(s, x) => x \in {"activate", "emit", "request"}
    BY <1>1, <1>4, HasThree
  <2>2. Head(s) = "activate" /\ Tail(s) = <<"emit", "request">> BY <1>4
  <2>3. ~Activates(<<"emit", "request">>) BY <1>1, HasTwo DEF Activates
  <2> QED BY <1>2, <2>1, <2>2, <2>3
<1>5. CASE s = <<"activate", "request">>
  <2>1. s \in Seq(StepNames) /\ \A x : Has(s, x) => x \in {"activate", "request"}
    BY <1>1, <1>5, HasTwo
  <2>2. Head(s) = "activate" /\ Tail(s) = <<"request">> BY <1>5
  <2>3. ~Activates(<<"request">>) BY <1>1, HasFew DEF Activates
  <2> QED BY <1>2, <2>1, <2>2, <2>3
<1>6. ASSUME NEW e \in {"drainStarts", "orphan"}, s = <<e>>
      PROVE  /\ s \in Seq(StepNames) /\ \A x \in Marks \cup {"reply"} : ~Has(s, x)
             /\ Head(s) = e /\ Tail(s) = <<>>
  <2>1. s \in Seq(StepNames) /\ \A x : Has(s, x) => x = e BY <1>1, <1>6, HasFew
  <2>2. Head(s) = e /\ Tail(s) = <<>> BY <1>6
  <2> QED BY <1>2, <2>1, <2>2
<1>7. CASE s = <<>> BY <1>7, HasFew
<1>8. ASSUME NEW op \in Ops, s = <<"reactivate", "track", op>>
      PROVE  /\ s \in Seq(StepNames) /\ \A x \in Marks \cup {"reply"} : ~Has(s, x)
             /\ Head(s) = "reactivate" /\ ~Activates(Tail(s))
  <2>1. s \in Seq(StepNames) /\ \A x : Has(s, x) => x \in {"reactivate", "track", op}
    BY <1>1, <1>8, HasThree
  <2>2. Head(s) = "reactivate" /\ Tail(s) = <<"track", op>> BY <1>8
  <2>3. ~Activates(<<"track", op>>) BY <1>1, HasTwo DEF Activates, Ops
  <2> QED BY <1>2, <2>1, <2>2, <2>3
<1>9. <<>> \in Waiting BY DEF Waiting
<1>10. \/ s \in {<<>>, <<"messages", "activate", "emit", "request">>,
                 <<"activate", "emit", "request">>, <<"activate", "request">>}
       \/ \E e \in {"drainStarts", "orphan"} : s = <<e>>
       \/ \E op \in Ops : s = <<"reactivate", "track", op>>
  BY DEF Waiting
<1> QED BY <1>3, <1>4, <1>5, <1>6, <1>7, <1>8, <1>9, <1>10
----------------------------------------------------------------------------
(* Steps that give nobody a right *)

\* A task is left with something the invariant knows.
Sound(x) ==
    /\ task'[x] \in TaskRecords
    /\ task'[x].i = 0 \/ Activates(task'[x].todo) => task'[x].todo \in Waiting
    /\ Laid(x, task'[x].todo)
    /\ \A m \in LaidMarks : Has(task'[x].todo, m) => task'[x].c \in Calls

\* It goes on with less, or begins something that has no mark.
Plain(x) ==
    /\ Sound(x)
    /\ \/ \A m \in Marks : ~Has(task'[x].todo, m)
       \/ /\ task'[x].i = task[x].i /\ task'[x].c = task[x].c /\ task'[x].yes = task[x].yes
          /\ \A m \in Marks : Has(task'[x].todo, m) => Has(task[x].todo, m)
          /\ Has(task[x].todo, "consume") /\ Has(task'[x].todo, "resolve")
               => Has(task'[x].todo, "consume")

\* The object of a critical operation stays in it, and is not marked recoverable.
Kept(x) ==
    Has(task'[x].todo, "endCritical") =>
        /\ obj'[task'[x].i].crit
        /\ obj'[task'[x].i].rec => obj[task'[x].i].rec

\* A task that does nothing.
LEMMA PlainSame ==
  ASSUME RunsInv, NEW x \in Tasks, task'[x] = task[x]
  PROVE  Plain(x)
<1>1. task[x] \in TaskRecords BY DEF RunsInv, Shape
<1>2. task[x].i = 0 \/ Activates(task[x].todo) => task[x].todo \in Waiting
  BY DEF RunsInv, Placed
<1>3. /\ Laid(x, task[x].todo)
      /\ \A m \in LaidMarks : Has(task[x].todo, m) => task[x].c \in Calls
  BY DEF RunsInv, TodosLaid
<1> QED BY <1>1, <1>2, <1>3 DEF Plain, Sound

\* A task that begins something without a mark.
LEMMA PlainLaunched ==
  ASSUME NEW x \in Tasks, NEW r \in TaskRecords, task'[x] = r,
         Laid(x, r.todo), \A m \in Marks : ~Has(r.todo, m),
         Has(r.todo, "decide") => r.c \in Calls,
         r.i = 0 \/ Activates(r.todo) => r.todo \in Waiting
  PROVE  Plain(x)
<1>1. \A m \in LaidMarks : m # "decide" => ~Has(r.todo, m) BY DEF Marks
<1> QED BY <1>1 DEF Plain, Sound

\* A task that does what it was about to do, or less.
LEMMA PlainTodo ==
  ASSUME RunsInv, NEW x \in Tasks, NEW s \in Seq(StepNames),
         task'[x] = IF s = <<>> THEN Idle ELSE [task[x] EXCEPT !.todo = s],
         Laid(x, s), \A m \in Marks \cup {"decide"} : Has(s, m) => Has(task[x].todo, m),
         Has(task[x].todo, "consume") /\ Has(s, "resolve") => Has(s, "consume"),
         task[x].i = 0 \/ Activates(s) => s \in Waiting
  PROVE  Plain(x)
<1>1. task[x] \in TaskRecords BY DEF RunsInv, Shape
<1>2. \A m \in LaidMarks : Has(task[x].todo, m) => task[x].c \in Calls
  BY DEF RunsInv, TodosLaid
<1>3. CASE s = <<>>
  <2>1. task'[x] = Idle BY <1>3
  <2>2. Idle \in TaskRecords /\ Idle.todo = <<>> /\ <<>> \in Waiting
    BY DEF Idle, TaskRecords, Blank, Snap, Waiting, Pend
  <2>3. Laid(x, <<>>)
    <3>1. \A m \in LaidMarks : ~Has(<<>>, m) BY HasFew
    <3> QED BY <3>1, HasFew, LaidFree
  <2>4. \A m : ~Has(task'[x].todo, m)
    <3>1. task'[x].todo = <<>> BY <2>1, <2>2
    <3> QED BY <3>1, HasFew
  <2>5. task'[x] \in TaskRecords /\ task'[x].todo \in Waiting /\ Laid(x, task'[x].todo)
    BY <2>1, <2>2, <2>3
  <2> QED BY <2>4, <2>5 DEF Plain, Sound
<1>4. CASE s # <<>>
  <2>1. task'[x] = [task[x] EXCEPT !.todo = s] BY <1>4
  <2>2. task'[x] \in TaskRecords
    <3>1. \A r \in TaskRecords : [r EXCEPT !.todo = s] \in TaskRecords BY DEF TaskRecords
    <3> QED BY <1>1, <2>1, <3>1
  <2>3. /\ task'[x].todo = s /\ task'[x].i = task[x].i /\ task'[x].c = task[x].c
        /\ task'[x].yes = task[x].yes
    BY <1>1, <2>1 DEF TaskRecords
  <2>4. LaidMarks \subseteq Marks \cup {"decide"} BY DEF Marks
  <2>5. \A m \in LaidMarks : Has(task'[x].todo, m) => task'[x].c \in Calls
    BY <1>2, <2>3, <2>4
  <2>6. task'[x].i = 0 \/ Activates(task'[x].todo) => task'[x].todo \in Waiting BY <2>3
  <2>7. Laid(x, task'[x].todo) BY <2>3
  <2>8. /\ \A m \in Marks : Has(task'[x].todo, m) => Has(task[x].todo, m)
        /\ Has(task[x].todo, "consume") /\ Has(task'[x].todo, "resolve")
             => Has(task'[x].todo, "consume")
    BY <2>3
  <2>9. task'[x].i = task[x].i /\ task'[x].c = task[x].c /\ task'[x].yes = task[x].yes BY <2>3
  <2> QED BY <2>2, <2>5, <2>6, <2>7, <2>8, <2>9 DEF Plain, Sound
<1> QED BY <1>3, <1>4

\* A plain step of a task leaves it no right it did not have.
LEMMA PlainRight ==
  ASSUME RunsInv, NEW x \in Tasks, Plain(x), Kept(x), NEW c, MayWrite(x, c)'
  PROVE  MayWrite(x, c)
<1> DEFINE s == task[x].todo
           n == task'[x].todo
<1>1. /\ {"check", "land", "begin", "decided", "resolve", "endCritical", "consume"} \subseteq Marks
  BY DEF Marks, LaidMarks
<1>2. PICK m \in Marks : Has(n, m) BY <1>1 DEF MayWrite, Executes, Decides
<1>3. /\ task'[x].i = task[x].i /\ task'[x].c = task[x].c /\ task'[x].yes = task[x].yes
      /\ \A k \in Marks : Has(n, k) => Has(s, k)
      /\ Has(s, "consume") /\ Has(n, "resolve") => Has(n, "consume")
  BY <1>2 DEF Plain, Sound
<1>4. CASE Executes(n)
  <2>1. Executes(s) BY <1>1, <1>3, <1>4 DEF Executes
  <2> QED BY <1>3, <2>1 DEF MayWrite
<1>5. CASE Decides(task[x])'
  <2>1. /\ task'[x].yes /\ ~Has(n, "consume")
        /\ Has(n, "decided") \/ (Has(n, "resolve") /\ obj'[task'[x].i].rec)
    BY <1>5 DEF Decides
  <2>2. Has(n, "resolve") /\ Has(n, "endCritical")
    <3>1. n \in {Consuming, Deciding, Resolving} BY <2>1 DEF Plain, Sound, Laid
    <3> QED BY <3>1, KnownSteps
  <2>3. ~Has(s, "consume") BY <1>3, <2>1, <2>2
  <2>4. Has(n, "decided") => Has(s, "decided") BY <1>1, <1>3
  <2>5. Has(s, "resolve") BY <1>1, <1>3, <2>2
  <2>6. obj'[task'[x].i].rec => obj[task[x].i].rec BY <1>3, <2>2 DEF Kept
  <2> HIDE DEF s, n
  <2>7. Has(s, "decided") \/ (Has(s, "resolve") /\ obj[task[x].i].rec)
    BY <2>1, <2>4, <2>5, <2>6
  <2> QED BY <1>3, <2>1, <2>3, <2>7 DEF MayWrite, Decides, s
<1>6. task'[x].c = c /\ (Executes(n) \/ Decides(task[x])') BY DEF MayWrite
<1> QED BY <1>4, <1>5, <1>6

\* What plain steps of all tasks leave as it was.
LEMMA PlainTasks ==
  ASSUME RunsInv, \A x \in Tasks : Plain(x) /\ Kept(x)
  PROVE  Placed' /\ TodosLaid' /\ CriticalHeld'
<1>1. Placed' BY DEF Plain, Sound, Placed
<1>2. TodosLaid' BY DEF Plain, Sound, TodosLaid
<1>3. ASSUME NEW x \in Tasks, InCritical(x)'
      PROVE  InCritical(x) /\ task'[x].i = task[x].i /\ obj'[task'[x].i].crit
  <2>1. "endCritical" \in Marks BY DEF Marks
  <2> QED BY <1>3, <2>1 DEF Plain, Kept, InCritical
<1>4. CriticalHeld'
  <2> SUFFICES ASSUME NEW t \in Tasks, InCritical(t)'
               PROVE  /\ task'[t].i \in Insts /\ obj'[task'[t].i].crit
                      /\ \A x \in Tasks \ {t} : InCritical(x)' => task'[x].i # task'[t].i
    BY DEF CriticalHeld
  <2>1. /\ task[t].i \in Insts
        /\ \A x \in Tasks \ {t} : InCritical(x) => task[x].i # task[t].i
    BY <1>3 DEF RunsInv, CriticalHeld
  <2> QED BY <1>3, <2>1
<1> QED BY <1>1, <1>2, <1>4

\* A plain step preserves the invariant.
LEMMA PlainStep ==
  ASSUME RunsInv, Shape', \A x \in Tasks : Plain(x) /\ Kept(x),
         UNCHANGED <<appr, done>>, tokens' \subseteq tokens
  PROVE  RunsInv'
<1>1. Placed' /\ TodosLaid' /\ CriticalHeld' BY PlainTasks
<1>2. ProposedOnce'
  <2>1. "putApproval" \in Marks /\ "host" \in Tasks BY Apart DEF Marks, LaidMarks
  <2>2. Plain("host") BY <2>1
  <2>3. Has(task'["host"].todo, "putApproval") =>
          Has(task["host"].todo, "putApproval") /\ task'["host"].c = task["host"].c
    BY <2>1, <2>2 DEF Plain, Sound
  <2> QED BY <2>3 DEF RunsInv, ProposedOnce
<1>3. \A x \in Tasks : \A c : MayWrite(x, c)' => MayWrite(x, c) BY PlainRight
<1>4. OneRight'
  <2> SUFFICES ASSUME NEW c \in Calls
               PROVE  /\ done'[c] <= 1
                      /\ done'[c] > 0 => appr'[c].st = "approved"
                      /\ c \in tokens' => appr'[c].st = "approved" /\ done'[c] = 0
                      /\ \A t \in Tasks : MayWrite(t, c)' =>
                           /\ appr'[c].st = "approved" /\ done'[c] = 0 /\ c \notin tokens'
                           /\ \A x \in Tasks \ {t} : ~MayWrite(x, c)'
    BY DEF OneRight
  <2> QED BY <1>3 DEF RunsInv, OneRight
<1> QED BY <1>1, <1>2, <1>4 DEF RunsInv

\* An object that changes neither its critical operation nor its mark.
LEMMA KeptAlike ==
  ASSUME RunsInv, NEW x \in Tasks, Plain(x),
         \A j \in Insts : obj'[j].crit = obj[j].crit /\ obj'[j].rec = obj[j].rec
  PROVE  Kept(x)
<1> SUFFICES ASSUME Has(task'[x].todo, "endCritical")
             PROVE  obj'[task'[x].i].crit /\ (obj'[task'[x].i].rec => obj[task'[x].i].rec)
  BY DEF Kept
<1>1. "endCritical" \in Marks BY DEF Marks
<1>2. InCritical(x) /\ task'[x].i = task[x].i BY <1>1 DEF Plain, InCritical
<1> QED BY <1>2 DEF RunsInv, CriticalHeld

\* Set, and the todos it is used with.
LEMMA SetPlain ==
  ASSUME RunsInv, NEW t \in Tasks, NEW s \in Seq(StepNames), Set(t, s),
         Laid(t, s), \A m \in Marks \cup {"decide"} : Has(s, m) => Has(task[t].todo, m),
         Has(task[t].todo, "consume") /\ Has(s, "resolve") => Has(s, "consume"),
         task[t].i = 0 \/ Activates(s) => s \in Waiting
  PROVE  task' \in [Tasks -> TaskRecords] /\ \A x \in Tasks : Plain(x)
<1>1. task \in [Tasks -> TaskRecords] BY DEF RunsInv, Shape
<1>2. /\ task'[t] = IF s = <<>> THEN Idle ELSE [task[t] EXCEPT !.todo = s]
      /\ \A x \in Tasks \ {t} : task'[x] = task[x]
      /\ task' = [x \in Tasks |-> task'[x]]
  BY <1>1 DEF Set
<1>3. Plain(t) BY <1>2, PlainTodo
<1>4. \A x \in Tasks : Plain(x) BY <1>2, <1>3, PlainSame
<1>5. \A x \in Tasks : task'[x] \in TaskRecords BY <1>4 DEF Plain, Sound
<1> QED BY <1>2, <1>4, <1>5

\* The next step.
LEMMA AdvancePlain ==
  ASSUME RunsInv, NEW t \in Tasks, task[t].todo # <<>>, Head(task[t].todo) # "consume",
         Advance(t), task[t].i = 0 => Tail(task[t].todo) \in Waiting
  PROVE  task' \in [Tasks -> TaskRecords] /\ \A x \in Tasks : Plain(x)
<1> DEFINE s == task[t].todo
<1>1. s \in Seq(StepNames) BY DEF RunsInv, Shape, TaskRecords
<1>2. Tail(s) \in Seq(StepNames) /\ \A x : Has(Tail(s), x) => Has(s, x) BY <1>1, HasTail
<1>3. Laid(t, s) BY DEF RunsInv, TodosLaid
<1>4. Laid(t, Tail(s)) BY <1>1, <1>3, LaidTail
<1>5. ~Has(s, "consume") BY <1>3 DEF Laid, Consuming
<1>6. Set(t, Tail(s)) BY DEF Advance
<1>7. Activates(Tail(s)) => Tail(s) \in Waiting
  <2> SUFFICES ASSUME Activates(Tail(s)) PROVE Tail(s) \in Waiting OBVIOUS
  <2>1. Activates(s) BY <1>2 DEF Activates
  <2>2. s \in Waiting /\ s # <<>> BY <2>1 DEF RunsInv, Placed
  <2> HIDE DEF s
  <2> QED BY <2>2, WaitingTodos
<1> HIDE DEF s
<1> QED BY <1>2, <1>4, <1>5, <1>6, <1>7, SetPlain DEF s

\* The step throws.
LEMMA ThrowPlain ==
  ASSUME RunsInv, NEW t \in Tasks, task[t].todo # <<>>, Throw(t)
  PROVE  task' \in [Tasks -> TaskRecords] /\ \A x \in Tasks : Plain(x)
<1> DEFINE s == task[t].todo
           n == Unwound(Tail(s))
<1>1. s \in Seq(StepNames) BY DEF RunsInv, Shape, TaskRecords
<1>2. Tail(s) \in Seq(StepNames) /\ \A x : Has(Tail(s), x) => Has(s, x) BY <1>1, HasTail
<1>3. /\ n \in Seq(StepNames) /\ Once(n)
      /\ \A x : Has(n, x) => x \in {"endCritical", "reply"} /\ Has(s, x)
      /\ ~Has(Tail(s), "endCritical") /\ ~Has(Tail(s), "reply") => n = <<>>
  BY <1>2, UnwoundSteps
<1>4. \A m \in LaidMarks : ~Has(n, m) BY <1>3 DEF LaidMarks
<1>5. Laid(t, n) BY <1>3, <1>4, LaidFree
<1>6. ~Has(n, "resolve") BY <1>4 DEF LaidMarks
<1>7. task[t].i = 0 \/ Activates(n) => n \in Waiting
  <2>1. ~Activates(n) BY <1>3 DEF Activates
  <2>2. ASSUME task[t].i = 0 PROVE n \in Waiting
    <3>1. s \in Waiting BY <2>2 DEF RunsInv, Placed
    <3>2. ~Has(s, "endCritical") /\ ~Has(s, "reply") BY <3>1, WaitingTodos DEF Marks
    <3>3. n = <<>> BY <1>2, <1>3, <3>2
    <3> QED BY <3>3 DEF Waiting
  <2> QED BY <2>1, <2>2
<1>8. Set(t, n) BY DEF Throw
<1>9. \A m \in Marks \cup {"decide"} : Has(n, m) => Has(s, m) BY <1>3
<1> HIDE DEF s, n
<1> QED BY <1>3, <1>5, <1>6, <1>7, <1>8, <1>9, SetPlain DEF s


----------------------------------------------------------------------------
(* What the steps have in common *)

\* A task that does something else than these has an object.
LEMMA OnObject ==
  ASSUME RunsInv, NEW t \in Tasks, task[t].todo # <<>>,
         Head(task[t].todo) \notin {"messages", "activate", "drainStarts", "orphan", "reactivate"}
  PROVE  task[t].i \in Insts /\ task[t].i # 0 /\ obj[task[t].i] \in Objects
<1>1. task[t].todo \notin Waiting BY WaitingTodos
<1>2. task[t].i # 0 BY <1>1 DEF RunsInv, Placed
<1>3. task[t].i \in Insts \cup {0} BY DEF RunsInv, Shape, TaskRecords
<1> QED BY <1>2, <1>3 DEF RunsInv, Shape

\* The next step, or none.
LEMMA StepPlain ==
  ASSUME RunsInv, NEW t \in Tasks, task[t].todo # <<>>, task[t].i # 0,
         Head(task[t].todo) # "consume", Advance(t) \/ Throw(t)
  PROVE  task' \in [Tasks -> TaskRecords] /\ \A x \in Tasks : Plain(x)
<1>1. CASE Advance(t) BY <1>1, AdvancePlain
<1>2. CASE Throw(t) BY <1>2, ThrowPlain
<1> QED BY <1>1, <1>2

\* Something else, without a step that touches an approval.
LEMMA SetFree ==
  ASSUME RunsInv, NEW t \in Tasks, task[t].i # 0, NEW s \in Seq(StepNames), Set(t, s), Once(s),
         \A m \in LaidMarks : ~Has(s, m), ~Activates(s),
         Has(s, "endCritical") => Has(task[t].todo, "endCritical")
  PROVE  task' \in [Tasks -> TaskRecords] /\ \A x \in Tasks : Plain(x)
<1>1. Laid(t, s) BY LaidFree
<1>2. \A m \in Marks \cup {"decide"} : Has(s, m) => Has(task[t].todo, m)
  BY DEF Marks, LaidMarks
<1>3. ~Has(s, "resolve") BY DEF LaidMarks
<1> QED BY <1>1, <1>2, <1>3, SetPlain

\* A task begins.
LEMMA LaunchedPlain ==
  ASSUME RunsInv, NEW t \in Tasks, NEW r \in TaskRecords, task' = [task EXCEPT ![t] = r],
         Laid(t, r.todo), \A m \in Marks : ~Has(r.todo, m),
         Has(r.todo, "decide") => r.c \in Calls,
         r.i = 0 \/ Activates(r.todo) => r.todo \in Waiting
  PROVE  task' \in [Tasks -> TaskRecords] /\ \A x \in Tasks : Plain(x)
<1>1. task \in [Tasks -> TaskRecords] BY DEF RunsInv, Shape
<1>2. task' \in [Tasks -> TaskRecords] /\ task'[t] = r /\ \A x \in Tasks \ {t} : task'[x] = task[x]
  BY <1>1
<1>3. Plain(t) BY <1>2, PlainLaunched
<1> QED BY <1>2, <1>3, PlainSame

\* A todo that ends no critical operation.
LEMMA OnceFree ==
  ASSUME NEW s \in Seq(StepNames), ~Has(s, "endCritical")
  PROVE  Once(s)
BY DEF Once, Has

\* A todo of a few plain steps.
LEMMA FreeTodo ==
  ASSUME NEW s \in Seq(StepNames), NEW S, \A x : Has(s, x) => x \in S,
         S \cap (LaidMarks \cup {"endCritical", "activate", "reactivate"}) = {}
  PROVE  /\ Once(s) /\ ~Activates(s) /\ ~Has(s, "endCritical")
         /\ \A m \in LaidMarks : ~Has(s, m)
         /\ \A m \in Marks : ~Has(s, m)
         /\ \A t : Laid(t, s)
<1>1. /\ ~Activates(s) /\ ~Has(s, "endCritical") /\ \A m \in LaidMarks : ~Has(s, m)
      /\ \A m \in Marks : ~Has(s, m)
  BY DEF Activates, Marks
<1>2. Once(s) BY <1>1, OnceFree
<1> QED BY <1>1, <1>2, LaidFree

\* How runs end.
LEMMA Endings ==
  /\ Ending \in Seq(StepNames) /\ \A x : Has(Ending, x) => x \in {"message", "emit", "finish"}
  /\ Completing \in Seq(StepNames)
  /\ \A x : Has(Completing, x) => x \in {"putComplete", "emit", "complete", "finish"}
<1> DEFINE a == IF kind = "conversation-turn" THEN <<"message">> ELSE <<>>
           b == IF kind = "conversation-turn" THEN <<"putComplete">> ELSE <<>>
<1>1. {"message", "emit", "finish", "putComplete", "complete"} \subseteq StepNames BY DEF StepNames
<1>2. a \in Seq(StepNames) /\ \A x : Has(a, x) => x = "message" BY <1>1, HasFew
<1>3. b \in Seq(StepNames) /\ \A x : Has(b, x) => x = "putComplete" BY <1>1, HasFew
<1>4. /\ <<"emit", "finish">> \in Seq(StepNames)
      /\ \A x : Has(<<"emit", "finish">>, x) <=> x \in {"emit", "finish"}
  BY <1>1, HasTwo
<1>5. /\ <<"emit", "complete", "finish">> \in Seq(StepNames)
      /\ \A x : Has(<<"emit", "complete", "finish">>, x) <=> x \in {"emit", "complete", "finish"}
  BY <1>1, HasThree
<1>6. Ending = a \o <<"emit", "finish">> BY DEF Ending
<1>7. Completing = b \o <<"emit", "complete", "finish">> BY DEF Completing
<1> HIDE DEF a, b
<1>8. Ending \in Seq(StepNames) /\ \A x : Has(Ending, x) => x \in {"message", "emit", "finish"}
  BY <1>2, <1>4, <1>6, HasConcat
<1>9. /\ Completing \in Seq(StepNames)
      /\ \A x : Has(Completing, x) => x \in {"putComplete", "emit", "complete", "finish"}
  BY <1>3, <1>5, <1>7, HasConcat
<1> QED BY <1>8, <1>9

\* A run that is resolved without a sidecar.
LEMMA Resolved ==
  ASSUME NEW a \in Seq(StepNames), NEW S, \A x : Has(a, x) => x \in S, "endCritical" \notin S
  PROVE  /\ a \o <<"endCritical">> \in Seq(StepNames) /\ Once(a \o <<"endCritical">>)
         /\ \A x : Has(a \o <<"endCritical">>, x) => x \in S \cup {"endCritical"}
<1>1. /\ <<"endCritical">> \in Seq(StepNames) /\ Once(<<"endCritical">>)
      /\ \A x : Has(<<"endCritical">>, x) <=> x = "endCritical"
  <2>1. "endCritical" \in StepNames BY DEF StepNames
  <2> QED BY <2>1, HasFew
<1>2. ~Has(a, "endCritical") OBVIOUS
<1> QED BY <1>1, <1>2, HasConcat, OnceConcat

\* It is read back, and completed.
LEMMA Asserting ==
  /\ <<"assert">> \o Completing \in Seq(StepNames)
  /\ \A x : Has(<<"assert">> \o Completing, x)
              => x \in {"assert", "putComplete", "emit", "complete", "finish"}
<1>1. <<"assert">> \in Seq(StepNames) /\ \A x : Has(<<"assert">>, x) <=> x = "assert"
  <2>1. "assert" \in StepNames BY DEF StepNames
  <2> QED BY <2>1, HasFew
<1> QED BY <1>1, Endings, HasConcat

\* The outcome of an execution is emitted first.
LEMMA AfterEmits ==
  ASSUME NEW t, NEW ok \in BOOLEAN
  PROVE  AfterTool(t, ok) # <<>>
<1> DEFINE b == IF t = "host" THEN <<"endCritical", "reply">>
                ELSE (IF ok THEN <<"assert">> \o Completing ELSE <<"failed">>)
                       \o <<"endCritical">>
<1>1. \A q \in Seq(StepNames) : <<"emit">> \o q # <<>> OBVIOUS
<1>2. b \in Seq(StepNames)
  <2>1. {"emit", "failed", "endCritical", "reply", "assert", "putComplete", "complete", "finish"}
           \subseteq StepNames
    BY DEF StepNames
  <2>2. Completing \in Seq(StepNames) BY <2>1 DEF Completing
  <2>3. /\ <<"endCritical", "reply">> \in Seq(StepNames) /\ <<"failed">> \in Seq(StepNames)
        /\ <<"assert">> \in Seq(StepNames) /\ <<"endCritical">> \in Seq(StepNames)
    BY <2>1
  <2> HIDE DEF Completing
  <2>4. <<"assert">> \o Completing \in Seq(StepNames) BY <2>2, <2>3
  <2> QED BY <2>3, <2>4
<1>3. AfterTool(t, ok) = <<"emit">> \o b BY DEF AfterTool
<1> HIDE DEF b
<1> QED BY <1>1, <1>2, <1>3

\* What follows the execution of a call.
LEMMA AfterSteps ==
  ASSUME NEW t, NEW ok \in BOOLEAN
  PROVE  /\ AfterTool(t, ok) \in Seq(StepNames) /\ Once(AfterTool(t, ok))
         /\ \A x : Has(AfterTool(t, ok), x) =>
              x \in {"emit", "endCritical", "reply", "assert", "failed", "putComplete",
                     "complete", "finish"}
<1> DEFINE a == IF ok THEN <<"assert">> \o Completing ELSE <<"failed">>
           b == IF t = "host" THEN <<"endCritical", "reply">> ELSE a \o <<"endCritical">>
           S == {"assert", "putComplete", "emit", "complete", "finish", "failed"}
<1>1. {"emit", "failed", "endCritical", "reply"} \subseteq StepNames BY DEF StepNames
<1>2. a \in Seq(StepNames) /\ \A x : Has(a, x) => x \in S
  <2>1. <<"failed">> \in Seq(StepNames) /\ \A x : Has(<<"failed">>, x) <=> x = "failed"
    BY <1>1, HasFew
  <2> QED BY <2>1, Asserting
<1>3. /\ b \in Seq(StepNames) /\ Once(b)
      /\ \A x : Has(b, x) => x \in S \cup {"endCritical", "reply"}
  <2>1. CASE t = "host"
    <3>1. /\ <<"endCritical", "reply">> \in Seq(StepNames)
          /\ \A x : Has(<<"endCritical", "reply">>, x) <=> x \in {"endCritical", "reply"}
      BY <1>1, HasTwo
    <3>2. Once(<<"endCritical", "reply">>)
      <4>1. /\ Len(<<"endCritical", "reply">>) = 2 /\ <<"endCritical", "reply">>[2] = "reply"
        OBVIOUS
      <4> QED BY <4>1 DEF Once
    <3> QED BY <2>1, <3>1, <3>2
  <2>2. CASE t # "host"
    <3>1. "endCritical" \notin S OBVIOUS
    <3>2. b = a \o <<"endCritical">> BY <2>2
    <3> HIDE DEF a, S, b
    <3> QED BY <1>2, <3>1, <3>2, Resolved
  <2> QED BY <2>1, <2>2
<1>4. /\ <<"emit">> \in Seq(StepNames) /\ \A x : Has(<<"emit">>, x) <=> x = "emit"
  BY <1>1, HasFew
<1>5. AfterTool(t, ok) = <<"emit">> \o b BY DEF AfterTool
<1>6. ~Has(<<"emit">>, "endCritical") BY <1>4
<1> HIDE DEF a, b
<1>7. /\ <<"emit">> \o b \in Seq(StepNames) /\ Once(<<"emit">> \o b)
      /\ \A x : Has(<<"emit">> \o b, x) => x = "emit" \/ Has(b, x)
  BY <1>3, <1>4, <1>6, HasConcat, OnceConcat
<1> QED BY <1>3, <1>5, <1>7

\* The todos that are put together around a critical operation.
LEMMA Joined ==
  /\ Executing \o <<"endCritical", "reply">> = <<"check", "land", "endCritical", "reply">>
  /\ (<<"emit">> \o Executing) \o <<"endCritical">> = <<"emit", "check", "land", "endCritical">>
  /\ <<"consume", "decided", "resolve">> \o <<"endCritical">> = Consuming
  /\ <<>> \o <<"endCritical">> = <<"endCritical">>
<1>1. {"emit", "check", "land", "endCritical", "reply", "consume", "decided", "resolve"}
        \subseteq StepNames
  BY DEF StepNames
<1>2. /\ <<"emit">> \in Seq(StepNames) /\ <<"endCritical">> \in Seq(StepNames)
      /\ <<"check", "land">> \in Seq(StepNames) /\ <<"endCritical", "reply">> \in Seq(StepNames)
      /\ <<"consume", "decided", "resolve">> \in Seq(StepNames)
      /\ <<"emit", "check", "land">> \in Seq(StepNames)
      /\ <<"check", "land", "endCritical", "reply">> \in Seq(StepNames)
      /\ <<"emit", "check", "land", "endCritical">> \in Seq(StepNames)
      /\ Consuming \in Seq(StepNames)
  BY <1>1, HasFew, HasTwo, HasThree, HasFour DEF Consuming
<1>3. ASSUME NEW a \in Seq(StepNames), NEW b \in Seq(StepNames), NEW s \in Seq(StepNames),
             Len(s) = Len(a) + Len(b), \A k \in 1..Len(a) : s[k] = a[k],
             \A k \in 1..Len(b) : s[Len(a) + k] = b[k]
      PROVE  a \o b = s
  <2>1. /\ a \o b \in Seq(StepNames) /\ Len(a \o b) = Len(a) + Len(b)
        /\ Len(a) \in Nat /\ Len(b) \in Nat
        /\ \A k \in 1..Len(a) : (a \o b)[k] = a[k]
        /\ \A k \in 1..Len(b) : (a \o b)[Len(a) + k] = b[k]
    OBVIOUS
  <2>2. ASSUME NEW k \in 1..Len(a \o b) PROVE (a \o b)[k] = s[k]
    <3>1. CASE k \in 1..Len(a) BY <1>3, <2>1, <3>1
    <3>2. CASE k \notin 1..Len(a)
      <4>1. k - Len(a) \in 1..Len(b) /\ k = Len(a) + (k - Len(a)) BY <2>1, <3>2
      <4>2. (a \o b)[Len(a) + (k - Len(a))] = s[Len(a) + (k - Len(a))] BY <1>3, <2>1, <4>1
      <4> QED BY <4>1, <4>2
    <3> QED BY <3>1, <3>2
  <2> QED BY <1>3, <2>1, <2>2, SeqEqual
<1>4. /\ 1..1 = {1} /\ 1..2 = {1, 2} /\ 1..3 = {1, 2, 3} OBVIOUS
<1>5. <<"check", "land">> \o <<"endCritical", "reply">>
        = <<"check", "land", "endCritical", "reply">>
  <2> DEFINE a == <<"check", "land">>
             b == <<"endCritical", "reply">>
             s == <<"check", "land", "endCritical", "reply">>
  <2>1. a \in Seq(StepNames) /\ b \in Seq(StepNames) /\ s \in Seq(StepNames) BY <1>2
  <2>2. /\ Len(s) = Len(a) + Len(b) /\ \A k \in 1..Len(a) : s[k] = a[k]
        /\ \A k \in 1..Len(b) : s[Len(a) + k] = b[k]
    BY <1>4
  <2> HIDE DEF a, b, s
  <2>3. a \o b = s BY <1>3, <2>1, <2>2
  <2> QED BY <2>3 DEF a, b, s
<1>6. <<"emit">> \o <<"check", "land">> = <<"emit", "check", "land">>
  <2> DEFINE a == <<"emit">>
             b == <<"check", "land">>
             s == <<"emit", "check", "land">>
  <2>1. a \in Seq(StepNames) /\ b \in Seq(StepNames) /\ s \in Seq(StepNames) BY <1>2
  <2>2. /\ Len(s) = Len(a) + Len(b) /\ \A k \in 1..Len(a) : s[k] = a[k]
        /\ \A k \in 1..Len(b) : s[Len(a) + k] = b[k]
    BY <1>4
  <2> HIDE DEF a, b, s
  <2>3. a \o b = s BY <1>3, <2>1, <2>2
  <2> QED BY <2>3 DEF a, b, s
<1>7. <<"emit", "check", "land">> \o <<"endCritical">> = <<"emit", "check", "land", "endCritical">>
  <2> DEFINE a == <<"emit", "check", "land">>
             b == <<"endCritical">>
             s == <<"emit", "check", "land", "endCritical">>
  <2>1. a \in Seq(StepNames) /\ b \in Seq(StepNames) /\ s \in Seq(StepNames) BY <1>2
  <2>2. /\ Len(s) = Len(a) + Len(b) /\ \A k \in 1..Len(a) : s[k] = a[k]
        /\ \A k \in 1..Len(b) : s[Len(a) + k] = b[k]
    BY <1>4
  <2> HIDE DEF a, b, s
  <2>3. a \o b = s BY <1>3, <2>1, <2>2
  <2> QED BY <2>3 DEF a, b, s
<1>8. <<"consume", "decided", "resolve">> \o <<"endCritical">> = Consuming
  <2>1. /\ Len(Consuming) = Len(<<"consume", "decided", "resolve">>) + Len(<<"endCritical">>)
        /\ \A k \in 1..Len(<<"consume", "decided", "resolve">>) :
             Consuming[k] = <<"consume", "decided", "resolve">>[k]
        /\ \A k \in 1..Len(<<"endCritical">>) :
             Consuming[Len(<<"consume", "decided", "resolve">>) + k] = <<"endCritical">>[k]
    BY <1>4 DEF Consuming
  <2> QED BY <1>2, <1>3, <2>1
<1>9. <<>> \o <<"endCritical">> = <<"endCritical">> BY <1>2, ConcatEmptySeq
<1> QED BY <1>5, <1>6, <1>7, <1>8, <1>9 DEF Executing

----------------------------------------------------------------------------
(* Objects and records *)

\* The record is a picture of the object.
LEMMA Shots ==
  ASSUME NEW o \in Objects
  PROVE  Shot(o) \in Snap
BY DEF Shot, Objects, Snap, Statuses

\* A task without a run.
LEMMA Nothing == Idle \in TaskRecords /\ Idle.todo = <<>> /\ NoRun \in Objects /\ Blank \in Snap
BY DEF Idle, TaskRecords, Blank, Snap, NoRun, Objects, Statuses, Pend

\* An object changes, but neither its critical operation nor its mark.
LEMMA ObjectAlike ==
  ASSUME RunsInv, NEW i \in Insts, NEW o \in Objects, o.crit = obj[i].crit, o.rec = obj[i].rec,
         obj' = [obj EXCEPT ![i] = o]
  PROVE  /\ obj' \in [Insts -> Objects]
         /\ \A j \in Insts : obj'[j].crit = obj[j].crit /\ obj'[j].rec = obj[j].rec
<1>1. obj \in [Insts -> Objects] BY DEF RunsInv, Shape
<1> QED BY <1>1

\* A step of plain tasks, for which only the types are left to show.
LEMMA Quiet ==
  ASSUME RunsInv, task' \in [Tasks -> TaskRecords], \A x \in Tasks : Plain(x),
         obj' \in [Insts -> Objects],
         \A j \in Insts : obj'[j].crit = obj[j].crit /\ obj'[j].rec = obj[j].rec,
         Others', UNCHANGED <<appr, done>>, tokens' \subseteq tokens
  PROVE  RunsInv'
<1>1. \A x \in Tasks : Kept(x) BY KeptAlike
<1>2. Shape' BY DEF RunsInv, Shape
<1> QED BY <1>1, <1>2, PlainStep

\* The same, of a step that leaves the objects alone.
LEMMA QuietTasks ==
  ASSUME RunsInv, task' \in [Tasks -> TaskRecords], \A x \in Tasks : Plain(x),
         Others', UNCHANGED <<appr, done, obj>>, tokens' \subseteq tokens
  PROVE  RunsInv'
<1>1. /\ obj' \in [Insts -> Objects]
      /\ \A j \in Insts : obj'[j].crit = obj[j].crit /\ obj'[j].rec = obj[j].rec
  BY DEF RunsInv, Shape
<1> QED BY <1>1, Quiet

\* The same, of a step that leaves the tasks alone.
LEMMA QuietObjects ==
  ASSUME RunsInv, obj' \in [Insts -> Objects],
         \A j \in Insts : obj'[j].crit = obj[j].crit /\ obj'[j].rec = obj[j].rec,
         Others', UNCHANGED <<appr, done, task>>, tokens' \subseteq tokens
  PROVE  RunsInv'
<1>1. task' \in [Tasks -> TaskRecords] BY DEF RunsInv, Shape
<1>2. \A x \in Tasks : Plain(x) BY PlainSame
<1> QED BY <1>1, <1>2, Quiet

\* The same, of emit and persistRun: the object and its record change together.
LEMMA EmitStep ==
  ASSUME RunsInv, NEW t \in Tasks, task[t].i \in Insts, NEW o \in Objects,
         o.crit = obj[task[t].i].crit, o.rec = obj[task[t].i].rec,
         task' \in [Tasks -> TaskRecords], \A x \in Tasks : Plain(x),
         \/ obj' = [obj EXCEPT ![task[t].i] = o] /\ db' = Shot(o)
         \/ obj' = obj /\ db' = db,
         UNCHANGED <<kind, appr, active, sess, side, tracked, events, old, done, used>>,
         tokens' \subseteq tokens
  PROVE  RunsInv'
<1>1. /\ obj' \in [Insts -> Objects]
      /\ \A j \in Insts : obj'[j].crit = obj[j].crit /\ obj'[j].rec = obj[j].rec
  <2>1. CASE obj' = obj BY <2>1 DEF RunsInv, Shape
  <2>2. CASE obj' = [obj EXCEPT ![task[t].i] = o] BY <2>2, ObjectAlike
  <2> QED BY <2>1, <2>2
<1>2. db' \in Snap BY Shots DEF RunsInv, Shape, Others
<1>3. Others' BY <1>2 DEF RunsInv, Shape, Others
<1> QED BY <1>1, <1>3, Quiet

----------------------------------------------------------------------------
(* The steps of any task *)

\* emit
LEMMA EmitKeeps ==
  ASSUME RunsInv, NEW t \in Tasks, Emit(t)
  PROVE  RunsInv'
<1>1. /\ task[t].todo # <<>> /\ Head(task[t].todo) = "emit" BY DEF Emit, At
<1>2. task[t].i \in Insts /\ task[t].i # 0 /\ obj[task[t].i] \in Objects BY <1>1, OnObject
<1>3. Advance(t) \/ Throw(t) BY DEF Emit, EmitAs, Advance
<1>4. task' \in [Tasks -> TaskRecords] /\ \A x \in Tasks : Plain(x) BY <1>1, <1>2, <1>3, StepPlain
<1>5. \/ obj' = [obj EXCEPT ![task[t].i] = obj[task[t].i]] /\ db' = Shot(obj[task[t].i])
      \/ obj' = obj /\ db' = db
  BY DEF Emit, EmitAs, Obj
<1>6. UNCHANGED <<kind, appr, active, tokens, sess, side, tracked, events, old, done, used>>
  BY DEF Emit, Memory, Rest
<1> HIDE DEF Emit
<1> QED BY <1>2, <1>4, <1>5, <1>6, EmitStep

\* putMessage
LEMMA PutMessageKeeps ==
  ASSUME RunsInv, NEW t \in Tasks, PutMessage(t)
  PROVE  RunsInv'
<1>1. /\ task[t].todo # <<>> /\ Head(task[t].todo) \in {"messages", "message", "putComplete"}
      /\ Advance(t)
  BY DEF PutMessage, At
<1>2. UNCHANGED <<kind, db, appr, obj, active, tokens, sess, side,
                  tracked, events, old, done, used>>
  BY DEF PutMessage, persisted, Memory, Rest
<1>3. task[t].i = 0 => Tail(task[t].todo) \in Waiting
  <2> SUFFICES ASSUME task[t].i = 0 PROVE Tail(task[t].todo) \in Waiting OBVIOUS
  <2>1. task[t].todo \in Waiting BY DEF RunsInv, Placed
  <2> QED BY <1>1, <2>1, WaitingTodos
<1>4. task' \in [Tasks -> TaskRecords] /\ \A x \in Tasks : Plain(x) BY <1>1, <1>3, AdvancePlain
<1>5. Others' BY <1>2 DEF RunsInv, Shape, Others
<1> QED BY <1>2, <1>4, <1>5, QuietTasks

\* A task that still ends a critical operation did so before, on the same object.
LEMMA StillCritical ==
  ASSUME RunsInv, NEW x \in Tasks, Plain(x), Has(task'[x].todo, "endCritical")
  PROVE  /\ InCritical(x) /\ task'[x].i = task[x].i /\ task[x].i \in Insts
         /\ obj[task[x].i].crit
<1>1. "endCritical" \in Marks BY DEF Marks
<1>2. InCritical(x) /\ task'[x].i = task[x].i BY <1>1 DEF Plain, Sound, InCritical
<1> QED BY <1>2 DEF RunsInv, CriticalHeld

\* finishRun
LEMMA FinishRunKeeps ==
  ASSUME RunsInv, NEW t \in Tasks, FinishRun(t)
  PROVE  RunsInv'
<1>1. /\ task[t].todo # <<>> /\ Head(task[t].todo) = "finish" BY DEF FinishRun, At
<1>2. task[t].i \in Insts /\ task[t].i # 0 /\ obj[task[t].i] \in Objects BY <1>1, OnObject
<1>3. Advance(t) \/ Throw(t) BY DEF FinishRun, DropRun
<1>4. task' \in [Tasks -> TaskRecords] /\ \A x \in Tasks : Plain(x) BY <1>1, <1>2, <1>3, StepPlain
<1>5. CASE DropRun(t)
  <2>1. /\ db' = Shot(obj[task[t].i]) /\ active' = 0 /\ tokens' = {} /\ tracked' = FALSE
        /\ events' = <<>> /\ obj' = Without(obj[task[t].i], task[t].i, t)
        /\ Advance(t) /\ UNCHANGED <<kind, appr, sess, side, old, done, used>>
    BY <1>5 DEF DropRun, Obj, Rest
  <2>2. Others'
    <3>1. db' \in Snap BY <1>2, <2>1, Shots
    <3>2. <<>> \in Seq(EventNames) OBVIOUS
    <3> QED BY <2>1, <3>1, <3>2 DEF RunsInv, Shape, Others
  <2>3. \/ obj' = [obj EXCEPT ![task[t].i] = obj[task[t].i]]
        \/ /\ obj' = [obj EXCEPT ![task[t].i] = NoRun]
           /\ Tail(task[t].todo) = <<>> /\ \A x \in Tasks \ {t} : task[x].i # task[t].i
    BY <2>1 DEF Without
  <2>4. CASE obj' = [obj EXCEPT ![task[t].i] = obj[task[t].i]]
    <3>1. /\ obj' \in [Insts -> Objects]
          /\ \A j \in Insts : obj'[j].crit = obj[j].crit /\ obj'[j].rec = obj[j].rec
      BY <1>2, <2>4, ObjectAlike
    <3> QED BY <1>4, <2>1, <2>2, <3>1, Quiet
  <2>5. CASE /\ obj' = [obj EXCEPT ![task[t].i] = NoRun]
             /\ Tail(task[t].todo) = <<>> /\ \A x \in Tasks \ {t} : task[x].i # task[t].i
    <3>1. obj' \in [Insts -> Objects] BY <1>2, <2>5, Nothing DEF RunsInv, Shape
    <3>2. ASSUME NEW x \in Tasks PROVE Kept(x)
      <4> SUFFICES ASSUME Has(task'[x].todo, "endCritical")
                   PROVE  obj'[task'[x].i].crit /\ (obj'[task'[x].i].rec => obj[task'[x].i].rec)
        BY DEF Kept
      <4>1. x # t
        <5>1. task \in [Tasks -> TaskRecords] BY DEF RunsInv, Shape
        <5>2. task'[t] = Idle BY <2>1, <2>5, <5>1 DEF Advance, Set
        <5>3. ~Has(task'[t].todo, "endCritical")
          <6>1. task'[t].todo = <<>> BY <5>2, Nothing
          <6> QED BY <6>1, HasFew
        <5> QED BY <5>3
      <4>2. /\ task'[x].i = task[x].i /\ task[x].i \in Insts /\ obj[task[x].i].crit
        BY <1>4, StillCritical
      <4>3. obj'[task[x].i] = obj[task[x].i] BY <2>5, <4>1, <4>2 DEF RunsInv, Shape
      <4> QED BY <4>2, <4>3
    <3>3. Shape' BY <1>4, <2>1, <2>2, <3>1 DEF RunsInv, Shape
    <3> QED BY <1>4, <2>1, <3>2, <3>3, PlainStep
  <2> QED BY <2>3, <2>4, <2>5
<1>6. CASE Throw(t) /\ UNCHANGED <<persisted, obj>> /\ Memory /\ Rest
  <2>1. UNCHANGED <<kind, db, appr, obj, active, tokens, sess, side,
                    tracked, events, old, done, used>>
    BY <1>6 DEF persisted, Memory, Rest
  <2>2. Others' BY <2>1 DEF RunsInv, Shape, Others
  <2> QED BY <1>4, <2>1, <2>2, QuietTasks
<1>7. DropRun(t) \/ (Throw(t) /\ UNCHANGED <<persisted, obj>> /\ Memory /\ Rest)
  BY DEF FinishRun
<1> QED BY <1>5, <1>6, <1>7

\* A status is not part of a critical operation.
LEMMA Restated ==
  ASSUME NEW o \in Objects, NEW status \in Statuses, NEW rev \in Nat, NEW pend \in Pend
  PROVE  /\ [o EXCEPT !.status = status] \in Objects
         /\ [o EXCEPT !.status = status].crit = o.crit /\ [o EXCEPT !.status = status].rec = o.rec
         /\ [o EXCEPT !.pend = pend] \in Objects
         /\ [o EXCEPT !.pend = pend].crit = o.crit /\ [o EXCEPT !.pend = pend].rec = o.rec
         /\ [o EXCEPT !.rev = rev] \in Objects
         /\ [o EXCEPT !.rev = rev].crit = o.crit /\ [o EXCEPT !.rev = rev].rec = o.rec
         /\ [o EXCEPT !.status = status, !.rev = rev] \in Objects
         /\ [o EXCEPT !.status = status, !.rev = rev].crit = o.crit
         /\ [o EXCEPT !.status = status, !.rev = rev].rec = o.rec
         /\ [o EXCEPT !.rev = rev, !.status = status] \in Objects
         /\ [o EXCEPT !.rev = rev, !.status = status].crit = o.crit
         /\ [o EXCEPT !.rev = rev, !.status = status].rec = o.rec
         /\ [o EXCEPT !.rev = rev, !.status = status, !.pend = pend] \in Objects
         /\ [o EXCEPT !.rev = rev, !.status = status, !.pend = pend].crit = o.crit
         /\ [o EXCEPT !.rev = rev, !.status = status, !.pend = pend].rec = o.rec
         /\ [o EXCEPT !.status = status, !.pend = pend, !.rev = rev] \in Objects
         /\ [o EXCEPT !.status = status, !.pend = pend, !.rev = rev].crit = o.crit
         /\ [o EXCEPT !.status = status, !.pend = pend, !.rev = rev].rec = o.rec
         /\ o.rev \in Nat /\ o.rev + 1 \in Nat
<1>1. /\ [o EXCEPT !.status = status] \in Objects
      /\ [o EXCEPT !.status = status].crit = o.crit
      /\ [o EXCEPT !.status = status].rec = o.rec
  BY DEF Objects
<1>2. /\ [o EXCEPT !.pend = pend] \in Objects
      /\ [o EXCEPT !.pend = pend].crit = o.crit
      /\ [o EXCEPT !.pend = pend].rec = o.rec
  BY DEF Objects
<1>3. /\ [o EXCEPT !.rev = rev] \in Objects
      /\ [o EXCEPT !.rev = rev].crit = o.crit
      /\ [o EXCEPT !.rev = rev].rec = o.rec
  BY DEF Objects
<1>4. /\ [o EXCEPT !.status = status, !.rev = rev] \in Objects
      /\ [o EXCEPT !.status = status, !.rev = rev].crit = o.crit
      /\ [o EXCEPT !.status = status, !.rev = rev].rec = o.rec
  BY DEF Objects
<1>5. /\ [o EXCEPT !.rev = rev, !.status = status] \in Objects
      /\ [o EXCEPT !.rev = rev, !.status = status].crit = o.crit
      /\ [o EXCEPT !.rev = rev, !.status = status].rec = o.rec
  BY DEF Objects
<1>6. /\ [o EXCEPT !.rev = rev, !.status = status, !.pend = pend] \in Objects
      /\ [o EXCEPT !.rev = rev, !.status = status, !.pend = pend].crit = o.crit
      /\ [o EXCEPT !.rev = rev, !.status = status, !.pend = pend].rec = o.rec
  BY DEF Objects
<1>7. /\ [o EXCEPT !.status = status, !.pend = pend, !.rev = rev] \in Objects
      /\ [o EXCEPT !.status = status, !.pend = pend, !.rev = rev].crit = o.crit
      /\ [o EXCEPT !.status = status, !.pend = pend, !.rev = rev].rec = o.rec
  BY DEF Objects
<1>8. o.rev \in Nat /\ o.rev + 1 \in Nat BY DEF Objects
<1> QED BY <1>1, <1>2, <1>3, <1>4, <1>5, <1>6, <1>7, <1>8

\* handleCompleted
LEMMA SetCompletedKeeps ==
  ASSUME RunsInv, NEW t \in Tasks, SetCompleted(t)
  PROVE  RunsInv'
<1> DEFINE o == [obj[task[t].i] EXCEPT !.status = "completed"]
<1>1. /\ task[t].todo # <<>> /\ Head(task[t].todo) = "complete" BY DEF SetCompleted, At
<1>2. task[t].i \in Insts /\ task[t].i # 0 /\ obj[task[t].i] \in Objects BY <1>1, OnObject
<1>3. Advance(t) \/ Throw(t) BY DEF SetCompleted, EmitAs, Advance
<1>4. task' \in [Tasks -> TaskRecords] /\ \A x \in Tasks : Plain(x) BY <1>1, <1>2, <1>3, StepPlain
<1>5. o \in Objects /\ o.crit = obj[task[t].i].crit /\ o.rec = obj[task[t].i].rec
  <2>1. "completed" \in Statuses /\ 0 \in Nat /\ None \in Pend BY DEF Statuses, Terminal, Pend
  <2> QED BY <1>2, <2>1, Restated
<1>6. \/ obj' = [obj EXCEPT ![task[t].i] = o] /\ db' = Shot(o)
      \/ obj' = obj /\ db' = db
  BY DEF SetCompleted, EmitAs, Obj
<1>7. UNCHANGED <<kind, appr, active, tokens, sess, side, tracked, events, old, done, used>>
  BY DEF SetCompleted, Memory, Rest
<1> HIDE DEF o, SetCompleted
<1> QED BY <1>2, <1>4, <1>5, <1>6, <1>7, EmitStep

\* endCriticalOperation
LEMMA EndCriticalKeeps ==
  ASSUME RunsInv, NEW t \in Tasks, EndCritical(t)
  PROVE  RunsInv'
<1>1. /\ task[t].todo # <<>> /\ Head(task[t].todo) = "endCritical" /\ Advance(t)
      /\ obj' = [obj EXCEPT ![task[t].i].crit = FALSE]
  BY DEF EndCritical, At
<1>2. task[t].i \in Insts /\ task[t].i # 0 /\ obj[task[t].i] \in Objects BY <1>1, OnObject
<1>3. task' \in [Tasks -> TaskRecords] /\ \A x \in Tasks : Plain(x) BY <1>1, <1>2, StepPlain
<1>4. UNCHANGED <<kind, db, appr, active, tokens, sess, side, tracked, events, old, done, used>>
  BY DEF EndCritical, persisted, Memory, Rest
<1>5. Others' BY <1>4 DEF RunsInv, Shape, Others
<1>6. obj' \in [Insts -> Objects]
  <2>1. \A o \in Objects : [o EXCEPT !.crit = FALSE] \in Objects BY DEF Objects
  <2>2. obj' = [obj EXCEPT ![task[t].i] = [obj[task[t].i] EXCEPT !.crit = FALSE]] BY <1>1
  <2>3. [obj[task[t].i] EXCEPT !.crit = FALSE] \in Objects BY <1>2, <2>1
  <2> HIDE DEF Objects
  <2> QED BY <1>2, <2>2, <2>3 DEF RunsInv, Shape
<1>7. Has(task[t].todo, "endCritical") /\ ~Has(Tail(task[t].todo), "endCritical")
  <2>1. task[t].todo \in Seq(StepNames) BY DEF RunsInv, Shape, TaskRecords
  <2>2. Once(task[t].todo) BY DEF RunsInv, TodosLaid, Laid
  <2> QED BY <1>1, <2>1, <2>2, HasTail, OnceTail
<1>8. ASSUME NEW x \in Tasks PROVE Kept(x)
  <2> SUFFICES ASSUME Has(task'[x].todo, "endCritical")
               PROVE  obj'[task'[x].i].crit /\ (obj'[task'[x].i].rec => obj[task'[x].i].rec)
    BY DEF Kept
  <2>1. /\ InCritical(x) /\ task'[x].i = task[x].i /\ task[x].i \in Insts
        /\ obj[task[x].i].crit
    BY <1>3, StillCritical
  <2>2. x # t
    <3> SUFFICES ~Has(task'[t].todo, "endCritical") OBVIOUS
    <3>1. task \in [Tasks -> TaskRecords] BY DEF RunsInv, Shape
    <3>2. task'[t] = IF Tail(task[t].todo) = <<>> THEN Idle
                     ELSE [task[t] EXCEPT !.todo = Tail(task[t].todo)]
      BY <1>1, <3>1 DEF Advance, Set
    <3>3. task'[t].todo = Tail(task[t].todo) \/ task'[t].todo = <<>>
      <4>1. CASE Tail(task[t].todo) = <<>> BY <3>2, <4>1, Nothing
      <4>2. CASE Tail(task[t].todo) # <<>> BY <3>1, <3>2, <4>2 DEF TaskRecords
      <4> QED BY <4>1, <4>2
    <3> QED BY <1>7, <3>3, HasFew
  <2>3. task[x].i # task[t].i BY <1>7, <2>1, <2>2 DEF RunsInv, CriticalHeld, InCritical
  <2>4. obj'[task[x].i] = obj[task[x].i] BY <1>1, <2>1, <2>3 DEF RunsInv, Shape
  <2> QED BY <2>1, <2>4
<1>9. Shape' BY <1>3, <1>4, <1>5, <1>6 DEF RunsInv, Shape
<1> QED BY <1>3, <1>4, <1>8, <1>9, PlainStep

\* failRun, finishCancelled and interruptRun: their own steps come first.
LEMMA EndTodo ==
  ASSUME RunsInv, NEW t \in Tasks, task[t].todo # <<>>,
         Head(task[t].todo) \in {"failed", "cancelled", "interrupted"}
  PROVE  LET s == Ending \o Tail(task[t].todo)
         IN  /\ s \in Seq(StepNames) /\ Once(s) /\ ~Activates(s)
             /\ \A m \in LaidMarks : ~Has(s, m)
             /\ Has(s, "endCritical") => Has(task[t].todo, "endCritical")
<1> DEFINE s == task[t].todo
           n == Tail(s)
<1>1. s \in Seq(StepNames) BY DEF RunsInv, Shape, TaskRecords
<1>2. /\ n \in Seq(StepNames) /\ \A x : Has(n, x) => Has(s, x) BY <1>1, HasTail
<1>3. Laid(t, s) BY DEF RunsInv, TodosLaid
<1>4. \A m \in LaidMarks : ~Has(n, m) BY <1>1, <1>3, TailMarks
<1>5. Once(n)
  <2>1. Once(s) BY <1>3 DEF Laid
  <2> QED BY <1>1, <2>1, OnceTail
<1>6. ~Activates(n)
  <2>1. s \notin Waiting BY WaitingTodos
  <2>2. ~Activates(s) BY <2>1 DEF RunsInv, Placed
  <2> QED BY <1>2, <2>2 DEF Activates
<1>7. /\ Ending \in Seq(StepNames) /\ \A x : Has(Ending, x) => x \in {"message", "emit", "finish"}
  BY Endings
<1>8. ~Has(Ending, "endCritical") BY <1>7
<1>9. Ending \o n \in Seq(StepNames) /\ \A x : Has(Ending \o n, x) <=> Has(Ending, x) \/ Has(n, x)
  BY <1>2, <1>7, HasConcat
<1>10. Once(Ending \o n) BY <1>2, <1>5, <1>7, <1>8, OnceConcat
<1>11. ~Activates(Ending \o n) BY <1>6, <1>7, <1>9 DEF Activates
<1>12. \A m \in LaidMarks : ~Has(Ending \o n, m) BY <1>4, <1>7, <1>9 DEF LaidMarks
<1>13. Has(Ending \o n, "endCritical") => Has(s, "endCritical") BY <1>2, <1>8, <1>9
<1> QED BY <1>9, <1>10, <1>11, <1>12, <1>13

\* failRun, finishCancelled, interruptRun
LEMMA EnterEndKeeps ==
  ASSUME RunsInv, NEW t \in Tasks, NEW e \in {"failed", "cancelled", "interrupted"},
         EnterEnd(t, e)
  PROVE  RunsInv'
<1> DEFINE b == obj[task[t].i]
           o == [b EXCEPT !.status = e, !.rev = IF e = "interrupted" THEN b.rev + 1 ELSE b.rev]
<1>1. task[t].todo # <<>> /\ Head(task[t].todo) = e BY DEF EnterEnd, At
<1>2. task[t].i \in Insts /\ task[t].i # 0 /\ b \in Objects BY <1>1, OnObject
<1>3. o \in Objects /\ o.crit = b.crit /\ o.rec = b.rec
  <2>1. e \in Statuses /\ None \in Pend /\ 0 \in Nat BY DEF Statuses, Terminal, Pend
  <2>2. b.rev \in Nat /\ b.rev + 1 \in Nat BY <1>2, <2>1, Restated
  <2> DEFINE r == IF e = "interrupted" THEN b.rev + 1 ELSE b.rev
  <2>3. r \in Nat BY <2>2
  <2> HIDE DEF b, r
  <2>4. /\ [b EXCEPT !.status = e, !.rev = r] \in Objects
        /\ [b EXCEPT !.status = e, !.rev = r].crit = b.crit
        /\ [b EXCEPT !.status = e, !.rev = r].rec = b.rec
    BY <1>2, <2>1, <2>3 DEF Objects
  <2> QED BY <2>4 DEF r
<1>4. obj' = obj \/ obj' = [obj EXCEPT ![task[t].i] = o] BY DEF EnterEnd, Obj
<1>5. Throw(t) \/ Set(t, Ending \o Tail(task[t].todo)) BY DEF EnterEnd
<1>6. UNCHANGED <<kind, db, appr, active, tokens, sess, side, tracked, events, old, done, used>>
  BY DEF EnterEnd, persisted, Memory, Rest
<1> HIDE DEF EnterEnd, o
<1>7. task' \in [Tasks -> TaskRecords] /\ \A x \in Tasks : Plain(x)
  <2>1. CASE Throw(t) BY <1>1, <2>1, ThrowPlain
  <2>2. CASE Set(t, Ending \o Tail(task[t].todo)) BY <1>1, <1>2, <2>2, EndTodo, SetFree
  <2> QED BY <1>5, <2>1, <2>2
<1>8. /\ obj' \in [Insts -> Objects]
      /\ \A j \in Insts : obj'[j].crit = obj[j].crit /\ obj'[j].rec = obj[j].rec
  <2>1. CASE obj' = obj BY <2>1 DEF RunsInv, Shape
  <2>2. CASE obj' = [obj EXCEPT ![task[t].i] = o] BY <1>2, <1>3, <2>2, ObjectAlike
  <2> QED BY <1>4, <2>1, <2>2
<1>9. Others' BY <1>6 DEF RunsInv, Shape, Others
<1> QED BY <1>6, <1>7, <1>8, <1>9, Quiet

\* The refusal of an execution: what follows it touches no approval.
LEMMA RefusedPlain ==
  ASSUME RunsInv, NEW t \in Tasks, At(t, "check"), Set(t, AfterTool(t, FALSE))
  PROVE  /\ task' \in [Tasks -> TaskRecords] /\ \A x \in Tasks : Plain(x)
         /\ task'[t].c = task[t].c /\ \A c : ~MayWrite(t, c)'
<1>1. task[t].todo # <<>> /\ Head(task[t].todo) = "check" BY DEF At
<1>2. task[t].i # 0 BY <1>1, OnObject
<1>3. Has(task[t].todo, "endCritical")
  <2>1. task[t].todo \in Seq(StepNames) BY DEF RunsInv, Shape, TaskRecords
  <2>2. Has(task[t].todo, "check") BY <1>1, <2>1, HasTail
  <2>3. task[t].todo \in Running \cup Recovering BY <2>2 DEF RunsInv, TodosLaid, Laid
  <2>4. task[t].todo # <<"begin", "reply">> BY <1>1
  <2> QED BY <2>3, <2>4, KnownSteps
<1> DEFINE s == AfterTool(t, FALSE)
<1>4. /\ s \in Seq(StepNames) /\ Once(s)
      /\ \A x : Has(s, x) => x \in {"emit", "endCritical", "reply", "assert", "failed",
                                    "putComplete", "complete", "finish"}
  BY AfterSteps
<1>5. Set(t, s) OBVIOUS
<1> HIDE DEF s
<1>6. ~Activates(s) /\ \A m \in LaidMarks : ~Has(s, m)
  <2>1. ~Activates(s) BY <1>4 DEF Activates
  <2>2. ASSUME NEW m \in LaidMarks PROVE ~Has(s, m) BY <1>4 DEF LaidMarks
  <2> QED BY <2>1, <2>2
<1>7. task' \in [Tasks -> TaskRecords] /\ \A x \in Tasks : Plain(x)
  BY <1>2, <1>3, <1>4, <1>5, <1>6, SetFree
<1>8. s # <<>>
  <2>1. AfterTool(t, FALSE) # <<>> BY AfterEmits
  <2> QED BY <2>1 DEF s
<1>9. task'[t].todo = s /\ task'[t].c = task[t].c
  <2>1. task \in [Tasks -> TaskRecords] BY DEF RunsInv, Shape
  <2>2. task' = [task EXCEPT ![t].todo = s] BY <1>5, <1>8 DEF Set
  <2>3. task'[t] = [task[t] EXCEPT !.todo = s] BY <2>1, <2>2
  <2> QED BY <2>1, <2>3 DEF TaskRecords
<1>10. \A c : ~MayWrite(t, c)'
  BY <1>6, <1>9 DEF MayWrite, Executes, Decides, LaidMarks
<1> QED BY <1>7, <1>9, <1>10

\* An approval that lapses was the only right to execute its call.
LEMMA LapseKeeps ==
  ASSUME RunsInv, NEW t \in Tasks, At(t, "check"), Set(t, AfterTool(t, FALSE)),
         appr[task[t].c].st = "approved",
         appr' = [appr EXCEPT ![task[t].c].st = "expired"],
         UNCHANGED <<kind, db, obj, active, tokens, sess, side, tracked, events, old, done, used>>
  PROVE  RunsInv'
<1> DEFINE k == task[t].c
<1>1. task[t].todo # <<>> /\ Head(task[t].todo) = "check" BY DEF At
<1>2. task[t].todo \in Seq(StepNames) BY DEF RunsInv, Shape, TaskRecords
<1>3. Has(task[t].todo, "check") BY <1>1, <1>2, HasTail
<1>4. k \in Calls BY <1>3 DEF RunsInv, TodosLaid, LaidMarks
<1>5. MayWrite(t, k) BY <1>3 DEF MayWrite, Executes
<1>6. /\ done[k] = 0 /\ k \notin tokens /\ \A x \in Tasks \ {t} : ~MayWrite(x, k)
  BY <1>4, <1>5 DEF RunsInv, OneRight
<1>7. /\ task' \in [Tasks -> TaskRecords] /\ \A x \in Tasks : Plain(x)
      /\ \A c : ~MayWrite(t, c)'
  BY RefusedPlain
<1>8. \A x \in Tasks : Kept(x)
  <2>1. \A j \in Insts : obj'[j].crit = obj[j].crit /\ obj'[j].rec = obj[j].rec OBVIOUS
  <2> QED BY <1>7, <2>1, KeptAlike
<1>9. Placed' /\ TodosLaid' /\ CriticalHeld' BY <1>7, <1>8, PlainTasks
<1>10. /\ appr' \in [Calls -> Approvals] /\ \A c \in Calls \ {k} : appr'[c] = appr[c]
  <2>1. appr \in [Calls -> Approvals] BY DEF RunsInv, Shape
  <2> DEFINE a == [appr[k] EXCEPT !.st = "expired"]
  <2>2. \A r \in Approvals : [r EXCEPT !.st = "expired"] \in Approvals BY DEF Approvals
  <2>3. a \in Approvals BY <1>4, <2>1, <2>2
  <2>4. appr' = [appr EXCEPT ![k] = a] OBVIOUS
  <2> HIDE DEF a, k
  <2> QED BY <1>4, <2>1, <2>3, <2>4
<1>11. Shape'
  <2>1. Others' BY DEF RunsInv, Shape, Others
  <2> QED BY <1>7, <1>10, <2>1 DEF RunsInv, Shape
<1>12. ProposedOnce'
  <2>1. "putApproval" \in Marks /\ "host" \in Tasks BY Apart DEF Marks, LaidMarks
  <2>2. ASSUME Has(task'["host"].todo, "putApproval")
        PROVE  appr'[task'["host"].c].st = None
    <3>1. /\ Has(task["host"].todo, "putApproval")
          /\ task'["host"].c = task["host"].c
      BY <1>7, <2>1, <2>2 DEF Plain, Sound
    <3>2. task["host"].c \in Calls /\ appr[task["host"].c].st = None
      BY <2>1, <3>1 DEF RunsInv, TodosLaid, ProposedOnce, LaidMarks
    <3>3. task["host"].c # k BY <3>2 DEF None
    <3> QED BY <1>10, <3>1, <3>2, <3>3
  <2> QED BY <2>2 DEF ProposedOnce
<1>13. \A x \in Tasks : \A c : MayWrite(x, c)' => MayWrite(x, c) BY <1>7, <1>8, PlainRight
<1>14. ASSUME NEW c \in Calls, c = k, NEW x \in Tasks PROVE ~MayWrite(x, c)'
  <2>1. CASE x = t BY <1>7, <2>1
  <2>2. CASE x # t
    <3>1. ~MayWrite(x, c) BY <1>6, <1>14, <2>2
    <3> QED BY <1>13, <3>1
  <2> QED BY <2>1, <2>2
<1> HIDE DEF k
<1>15. OneRight'
  <2> SUFFICES ASSUME NEW c \in Calls
               PROVE  /\ done'[c] <= 1
                      /\ done'[c] > 0 => appr'[c].st = "approved"
                      /\ c \in tokens' => appr'[c].st = "approved" /\ done'[c] = 0
                      /\ \A y \in Tasks : MayWrite(y, c)' =>
                           /\ appr'[c].st = "approved" /\ done'[c] = 0 /\ c \notin tokens'
                           /\ \A x \in Tasks \ {y} : ~MayWrite(x, c)'
    BY DEF OneRight
  <2>1. CASE c = k BY <1>6, <1>14, <2>1
  <2>2. CASE c # k BY <1>10, <1>13, <2>2 DEF RunsInv, OneRight
  <2> QED BY <2>1, <2>2
<1> QED BY <1>9, <1>11, <1>12, <1>15 DEF RunsInv

\* assertApprovedForExecution
LEMMA CheckApprovalKeeps ==
  ASSUME RunsInv, NEW t \in Tasks, CheckApproval(t)
  PROVE  RunsInv'
<1>1. At(t, "check") /\ task[t].todo # <<>> /\ Head(task[t].todo) = "check"
  BY DEF CheckApproval, At
<1>2. task[t].i # 0 BY <1>1, OnObject
<1>3. UNCHANGED <<kind, db, obj, active, tokens, sess, side, tracked, events, old, done, used>>
  BY DEF CheckApproval, Memory, Rest
<1>4. \/ UNCHANGED appr /\ (Throw(t) \/ Advance(t) \/ Set(t, AfterTool(t, FALSE)))
      \/ /\ appr[task[t].c].st = "approved" /\ Set(t, AfterTool(t, FALSE))
         /\ appr' = [appr EXCEPT ![task[t].c].st = "expired"]
  BY DEF CheckApproval, Lapsed, CompareAndSet
<1> HIDE DEF CheckApproval
<1>5. Others' BY <1>3 DEF RunsInv, Shape, Others
<1>6. CASE UNCHANGED appr /\ (Throw(t) \/ Advance(t))
  <2>1. task' \in [Tasks -> TaskRecords] /\ \A x \in Tasks : Plain(x)
    BY <1>1, <1>2, <1>6, StepPlain
  <2> QED BY <1>3, <1>5, <1>6, <2>1, QuietTasks
<1>7. CASE UNCHANGED appr /\ Set(t, AfterTool(t, FALSE))
  <2>1. task' \in [Tasks -> TaskRecords] /\ \A x \in Tasks : Plain(x)
    BY <1>1, <1>7, RefusedPlain
  <2> QED BY <1>3, <1>5, <1>7, <2>1, QuietTasks
<1> QED BY <1>1, <1>3, <1>4, <1>6, <1>7, LapseKeeps

\* assertRunSession
LEMMA AssertSessionKeeps ==
  ASSUME RunsInv, NEW t \in Tasks, AssertSession(t)
  PROVE  RunsInv'
<1>1. task[t].todo # <<>> /\ Head(task[t].todo) = "assert" BY DEF AssertSession, At
<1>2. task[t].i # 0 BY <1>1, OnObject
<1>3. Throw(t) \/ Advance(t) BY DEF AssertSession
<1>4. UNCHANGED <<kind, db, appr, obj, active, tokens, sess, side,
                  tracked, events, old, done, used>>
  BY DEF AssertSession, persisted, Memory, Rest
<1> HIDE DEF AssertSession
<1>5. task' \in [Tasks -> TaskRecords] /\ \A x \in Tasks : Plain(x) BY <1>1, <1>2, <1>3, StepPlain
<1>6. Others' BY <1>4 DEF RunsInv, Shape, Others
<1> QED BY <1>4, <1>5, <1>6, QuietTasks

----------------------------------------------------------------------------
(* Commands of the user *)

\* ensureActiveRun
LEMMA TrackRunKeeps ==
  ASSUME RunsInv, NEW u \in Tasks, TrackRun(u)
  PROVE  RunsInv'
<1>1. task[u].todo # <<>> /\ Head(task[u].todo) = "track" BY DEF TrackRun, At
<1>2. task[u].i # 0 BY <1>1, OnObject
<1>3. Throw(u) \/ Advance(u) BY DEF TrackRun
<1>4. /\ UNCHANGED <<kind, db, appr, obj, active, tokens, sess, side, events, old, done, used>>
      /\ tracked' \in {TRUE, tracked}
  BY DEF TrackRun, persisted, Rest
<1> HIDE DEF TrackRun
<1>5. task' \in [Tasks -> TaskRecords] /\ \A x \in Tasks : Plain(x) BY <1>1, <1>2, <1>3, StepPlain
<1>6. Others' BY <1>4 DEF RunsInv, Shape, Others
<1> QED BY <1>4, <1>5, <1>6, QuietTasks

\* A todo of one or two plain steps takes the place of what was left.
LEMMA SetFew ==
  ASSUME RunsInv, NEW t \in Tasks, task[t].i # 0, NEW s, Set(t, s),
         s \in {<<>>, <<"cancelRequest">>, <<"cancelled">>, <<"cancelAnswer">>, <<"failed">>,
                <<"interrupted">>, <<"drainHost">>, <<"drainCritical">>, <<"finish">>,
                <<"cancelRun">>, <<"message", "finish">>, <<"answered", "answerRequest">>}
  PROVE  task' \in [Tasks -> TaskRecords] /\ \A x \in Tasks : Plain(x)
<1> DEFINE S == {"cancelRequest", "cancelled", "cancelAnswer", "failed", "interrupted",
                 "drainHost", "drainCritical", "finish", "cancelRun", "message", "answered",
                 "answerRequest"}
<1>1. S \subseteq StepNames BY DEF StepNames
<1>2. S \cap (LaidMarks \cup {"endCritical", "activate", "reactivate"}) = {} BY DEF LaidMarks
<1>3. \/ s = <<>>
      \/ \E e \in S : s = <<e>>
      \/ \E e \in S : \E f \in S : s = <<e, f>>
  OBVIOUS
<1> HIDE DEF S
<1>4. s \in Seq(StepNames) /\ \A x : Has(s, x) => x \in S
  <2>1. CASE s = <<>> BY <2>1, HasFew
  <2>2. ASSUME NEW e \in S, s = <<e>> PROVE s \in Seq(StepNames) /\ \A x : Has(s, x) => x \in S
    BY <1>1, <2>2, HasFew
  <2>3. ASSUME NEW e \in S, NEW f \in S, s = <<e, f>>
        PROVE  s \in Seq(StepNames) /\ \A x : Has(s, x) => x \in S
    <3>1. e \in StepNames /\ f \in StepNames BY <1>1
    <3>2. <<e, f>> \in Seq(StepNames) /\ \A x : Has(<<e, f>>, x) <=> x \in {e, f} BY <3>1, HasTwo
    <3> QED BY <2>3, <3>2
  <2> QED BY <1>3, <2>1, <2>2, <2>3
<1>5. /\ Once(s) /\ ~Activates(s) /\ ~Has(s, "endCritical") /\ \A m \in LaidMarks : ~Has(s, m)
  BY <1>2, <1>4, FreeTodo
<1> QED BY <1>4, <1>5, SetFree

\* cancelAgentRun
LEMMA CancelAgentRunKeeps ==
  ASSUME RunsInv, NEW u \in Tasks, CancelAgentRun(u)
  PROVE  RunsInv'
<1> DEFINE b == obj[task[u].i]
           o == [b EXCEPT !.rev = b.rev + 1, !.status = "cancelling"]
<1>1. task[u].todo # <<>> /\ Head(task[u].todo) = "cancel" BY DEF CancelAgentRun, At
<1>2. task[u].i \in Insts /\ task[u].i # 0 /\ b \in Objects BY <1>1, OnObject
<1>3. o \in Objects /\ o.crit = b.crit /\ o.rec = b.rec
  <2>1. "cancelling" \in Statuses BY DEF Statuses, Unfinished
  <2>2. b.rev + 1 \in Nat BY <1>2 DEF Objects
  <2> QED BY <1>2, <2>1, <2>2 DEF Objects
<1>4. \/ obj' = [obj EXCEPT ![task[u].i] = o] /\ db' = Shot(o)
      \/ obj' = obj /\ db' = db
  BY DEF CancelAgentRun, EmitAs, Obj
<1>5. Throw(u) \/ Set(u, <<"cancelRequest">>) BY DEF CancelAgentRun, EmitAs
<1>6. UNCHANGED <<kind, appr, active, tokens, sess, side, tracked, events, old, done, used>>
  BY DEF CancelAgentRun, Memory
<1> HIDE DEF CancelAgentRun, o
<1>7. task' \in [Tasks -> TaskRecords] /\ \A x \in Tasks : Plain(x)
  BY <1>1, <1>2, <1>5, ThrowPlain, SetFew
<1> QED BY <1>2, <1>3, <1>4, <1>6, <1>7, EmitStep

\* sidecar.cancel
LEMMA RequestCancelKeeps ==
  ASSUME RunsInv, NEW u \in Tasks, RequestCancel(u)
  PROVE  RunsInv'
<1>1. task[u].todo # <<>> /\ Head(task[u].todo) = "cancelRequest" BY DEF RequestCancel, At
<1>2. task[u].i # 0 BY <1>1, OnObject
<1>3. Throw(u) \/ Set(u, <<"cancelled">>) \/ Set(u, <<"cancelAnswer">>) BY DEF RequestCancel
<1>4. /\ UNCHANGED <<kind, db, appr, obj, active, tokens, sess, tracked, events, old, done, used>>
      /\ side' \in {side, "cancelling"}
  BY DEF RequestCancel, persisted, Rest
<1> HIDE DEF RequestCancel
<1>5. task' \in [Tasks -> TaskRecords] /\ \A x \in Tasks : Plain(x)
  BY <1>1, <1>2, <1>3, ThrowPlain, SetFew
<1>6. Others' BY <1>4 DEF RunsInv, Shape, Others, Sides
<1> QED BY <1>4, <1>5, <1>6, QuietTasks

\* A fault is counted.
LEMMA Counted ==
  ASSUME Others, \/ UNCHANGED used
                 \/ used' = [used EXCEPT !.faults = @ + 1]
                 \/ used' = [used EXCEPT !.exits = @ + 1]
                 \/ used' = [used EXCEPT !.cmds = @ + 1]
                 \/ used.outs < MaxOuts /\ used' = [used EXCEPT !.outs = @ + 1]
                 \/ used.crashes < MaxCrashes /\ used' = [used EXCEPT !.crashes = @ + 1]
  PROVE  used' \in Counts /\ used'.outs <= MaxOuts /\ used'.crashes <= MaxCrashes
<1>1. used \in Counts /\ used.outs <= MaxOuts /\ used.crashes <= MaxCrashes BY DEF Others
<1>2. MaxOuts \in Nat /\ MaxCrashes \in Nat BY RunBounds
<1>3. CASE UNCHANGED used BY <1>1, <1>3
<1>4. CASE used' = [used EXCEPT !.faults = @ + 1] BY <1>1, <1>4 DEF Counts
<1>5. CASE used' = [used EXCEPT !.exits = @ + 1] BY <1>1, <1>5 DEF Counts
<1>6. CASE used' = [used EXCEPT !.cmds = @ + 1] BY <1>1, <1>6 DEF Counts
<1>7. CASE used.outs < MaxOuts /\ used' = [used EXCEPT !.outs = @ + 1]
  BY <1>1, <1>2, <1>7 DEF Counts
<1>8. CASE used.crashes < MaxCrashes /\ used' = [used EXCEPT !.crashes = @ + 1]
  BY <1>1, <1>2, <1>8 DEF Counts
<1> QED BY <1>3, <1>4, <1>5, <1>6, <1>7, <1>8

\* The answer to a cancel
LEMMA CancelAnsweredKeeps ==
  ASSUME RunsInv, NEW u \in Tasks, CancelAnswered(u)
  PROVE  RunsInv'
<1>1. task[u].todo # <<>> /\ Head(task[u].todo) = "cancelAnswer" BY DEF CancelAnswered, At
<1>2. task[u].i # 0 BY <1>1, OnObject
<1>3. Advance(u) \/ Set(u, <<"cancelled">>) BY DEF CancelAnswered
<1>4. /\ UNCHANGED <<kind, db, appr, obj, active, tokens, sess, side, tracked, events, old, done>>
      /\ UNCHANGED used \/ used' = [used EXCEPT !.faults = @ + 1]
  BY DEF CancelAnswered, persisted, Memory
<1> HIDE DEF CancelAnswered
<1>5. task' \in [Tasks -> TaskRecords] /\ \A x \in Tasks : Plain(x)
  BY <1>1, <1>2, <1>3, StepPlain, SetFew
<1>6. Others' 
  <2>1. Others BY DEF RunsInv, Shape
  <2>2. used' \in Counts /\ used'.outs <= MaxOuts /\ used'.crashes <= MaxCrashes
    BY <1>4, <2>1, Counted
  <2> QED BY <1>4, <2>1, <2>2 DEF Others
<1> QED BY <1>4, <1>5, <1>6, QuietTasks

\* submitPlanningClarification
LEMMA CheckAnswerKeeps ==
  ASSUME RunsInv, NEW u \in Tasks, CheckAnswer(u)
  PROVE  RunsInv'
<1>1. task[u].todo # <<>> /\ Head(task[u].todo) = "answer" BY DEF CheckAnswer, At
<1>2. task[u].i # 0 BY <1>1, OnObject
<1>3. Throw(u) \/ Set(u, <<"answered", "answerRequest">>) BY DEF CheckAnswer
<1>4. UNCHANGED <<kind, db, appr, obj, active, tokens, sess, side,
                  tracked, events, old, done, used>>
  BY DEF CheckAnswer, persisted, Memory, Rest
<1> HIDE DEF CheckAnswer
<1>5. task' \in [Tasks -> TaskRecords] /\ \A x \in Tasks : Plain(x)
  BY <1>1, <1>2, <1>3, ThrowPlain, SetFew
<1>6. Others' BY <1>4 DEF RunsInv, Shape, Others
<1> QED BY <1>4, <1>5, <1>6, QuietTasks

\* The answer is accepted.
LEMMA AnsweredKeeps ==
  ASSUME RunsInv, NEW u \in Tasks, Answered(u)
  PROVE  RunsInv'
<1> DEFINE b == obj[task[u].i]
           o == [b EXCEPT !.rev = b.rev + 1, !.status = "running"]
<1>1. task[u].todo # <<>> /\ Head(task[u].todo) = "answered" BY DEF Answered, At
<1>2. task[u].i \in Insts /\ task[u].i # 0 /\ b \in Objects BY <1>1, OnObject
<1>3. o \in Objects /\ o.crit = b.crit /\ o.rec = b.rec
  <2>1. "running" \in Statuses BY DEF Statuses, Unfinished
  <2>2. b.rev + 1 \in Nat BY <1>2 DEF Objects
  <2> QED BY <1>2, <2>1, <2>2 DEF Objects
<1>4. \/ obj' = [obj EXCEPT ![task[u].i] = o] /\ db' = Shot(o)
      \/ obj' = obj /\ db' = db
  BY DEF Answered, EmitAs, Obj
<1>5. Throw(u) \/ Advance(u) BY DEF Answered, EmitAs, Advance
<1>6. UNCHANGED <<kind, appr, active, tokens, sess, side, tracked, events, old, done, used>>
  BY DEF Answered, Memory
<1> HIDE DEF Answered, o
<1>7. task' \in [Tasks -> TaskRecords] /\ \A x \in Tasks : Plain(x) BY <1>1, <1>2, <1>5, StepPlain
<1> QED BY <1>2, <1>3, <1>4, <1>6, <1>7, EmitStep

\* sidecar.submitClarification
LEMMA RequestAnswerKeeps ==
  ASSUME RunsInv, NEW u \in Tasks, RequestAnswer(u)
  PROVE  RunsInv'
<1>1. task[u].todo # <<>> /\ Head(task[u].todo) = "answerRequest" BY DEF RequestAnswer, At
<1>2. task[u].i # 0 BY <1>1, OnObject
<1>3. Throw(u) \/ Advance(u) \/ Set(u, <<"failed">>) BY DEF RequestAnswer
<1>4. /\ UNCHANGED <<kind, db, appr, obj, active, tokens, sess, events, old, done, used>>
      /\ side' \in {side, "starting"} /\ tracked' \in {tracked, TRUE}
  BY DEF RequestAnswer, persisted, Rest
<1> HIDE DEF RequestAnswer
<1>5. task' \in [Tasks -> TaskRecords] /\ \A x \in Tasks : Plain(x)
  BY <1>1, <1>2, <1>3, StepPlain, SetFew
<1>6. Others' BY <1>4 DEF RunsInv, Shape, Others, Sides
<1> QED BY <1>4, <1>5, <1>6, QuietTasks

----------------------------------------------------------------------------
(* New objects and new tasks *)

\* A fresh object is nobody's.
LEMMA Freshness ==
  ASSUME \E i \in Insts : IsFresh(i)
  PROVE  /\ FreshObject \in Insts /\ FreshObject # 0
         /\ \A t \in Tasks : task[t].i # FreshObject
<1>1. FreshObject \in Insts /\ IsFresh(FreshObject) BY DEF FreshObject
<1>2. MaxObjects \in Nat BY RunBounds
<1> QED BY <1>1, <1>2 DEF IsFresh, Insts

\* activate
LEMMA ActivateKeeps ==
  ASSUME RunsInv, NEW t \in Tasks, task[t].todo # <<>>,
         Head(task[t].todo) \in {"activate", "reactivate"},
         NEW status \in Statuses, NEW rev \in Nat, NEW pend \in Pend, NEW rec \in BOOLEAN,
         \E i \in Insts : IsFresh(i), Activate(FreshObject, status, rev, pend, rec),
         task' = [task EXCEPT ![t].todo = Tail(@), ![t].i = FreshObject], db' \in Snap,
         UNCHANGED <<kind, appr, tokens, sess, side, tracked, old, done, used>>
  PROVE  RunsInv'
<1> DEFINE f == FreshObject
           s == task[t].todo
           o == [status |-> status, rev |-> rev, pend |-> pend, rec |-> rec, crit |-> FALSE,
                 sess |-> sess]
<1>1. f \in Insts /\ f # 0 /\ \A x \in Tasks : task[x].i # f BY Freshness
<1>2. task \in [Tasks -> TaskRecords] /\ task[t] \in TaskRecords BY DEF RunsInv, Shape
<1>3. s \in Seq(StepNames) /\ s # <<>> BY <1>2 DEF TaskRecords
<1>4. Tail(s) \in Seq(StepNames) /\ (\A x : Has(Tail(s), x) => Has(s, x)) /\ Has(s, Head(s))
  BY <1>3, HasTail
<1>5. s \in Waiting
  <2>1. Activates(s) BY <1>4 DEF Activates
  <2> QED BY <2>1 DEF RunsInv, Placed
<1>6. /\ task' = [x \in Tasks |-> task'[x]]
      /\ task'[t] \in TaskRecords /\ task'[t].todo = Tail(s) /\ task'[t].i = f
      /\ task'[t].c = task[t].c
      /\ \A x \in Tasks \ {t} : task'[x] = task[x]
  <2>2. task' = [task EXCEPT ![t] = [task[t] EXCEPT !.todo = Tail(s), !.i = f]] OBVIOUS
  <2> DEFINE n == Tail(s)
             r == task[t]
  <2> HIDE DEF f, n, r
  <2>1. /\ [r EXCEPT !.todo = n, !.i = f] \in TaskRecords
        /\ [r EXCEPT !.todo = n, !.i = f].todo = n /\ [r EXCEPT !.todo = n, !.i = f].i = f
        /\ [r EXCEPT !.todo = n, !.i = f].c = r.c
    <3>1. r \in TaskRecords /\ n \in Seq(StepNames) /\ f \in Insts BY <1>1, <1>2, <1>4 DEF r, n
    <3> QED BY <3>1 DEF TaskRecords
  <2> USE DEF n, r
  <2> HIDE DEF s
  <2>3. task'[t] = [task[t] EXCEPT !.todo = Tail(s), !.i = f] BY <1>2, <2>2
  <2>4. task' = [x \in Tasks |-> task'[x]] /\ \A x \in Tasks \ {t} : task'[x] = task[x]
    BY <1>2, <2>2
  <2> QED BY <2>1, <2>3, <2>4
<1> HIDE DEF s, f
<1>7. Plain(t)
  <2>1. Laid(t, s) /\ \A m \in LaidMarks : Has(s, m) => task[t].c \in Calls
    BY DEF RunsInv, TodosLaid, s
  <2>2. Laid(t, Tail(s)) BY <1>3, <2>1, LaidTail
  <2>3. Activates(Tail(s)) => Tail(s) \in Waiting BY <1>3, <1>5, WaitingTodos
  <2>4. \A m \in Marks : ~Has(Tail(s), m) BY <1>4, <1>5, WaitingTodos
  <2>5. \A m \in Marks : ~Has(task'[t].todo, m) BY <1>6, <2>4
  <2>6. task'[t].i = 0 \/ Activates(task'[t].todo) => task'[t].todo \in Waiting
    BY <1>1, <1>6, <2>3
  <2>7. \A m \in LaidMarks : Has(task'[t].todo, m) => task'[t].c \in Calls
    BY <1>4, <1>6, <2>1
  <2>8. Laid(t, task'[t].todo) /\ task'[t] \in TaskRecords BY <1>6, <2>2
  <2>9. Sound(t) BY <2>6, <2>7, <2>8 DEF Sound
  <2> QED BY <2>5, <2>9 DEF Plain
<1>8. \A x \in Tasks : Plain(x) BY <1>6, <1>7, PlainSame
<1>9. task' \in [Tasks -> TaskRecords] BY <1>2, <1>6
<1>10. obj' = [obj EXCEPT ![f] = o] /\ active' = f /\ events' = <<>> BY DEF Activate, f
<1>11. obj' \in [Insts -> Objects] /\ \A j \in Insts : j # f => obj'[j] = obj[j]
  <2>1. o \in Objects BY DEF Objects, RunsInv, Shape, Others
  <2> HIDE DEF o
  <2> QED BY <1>1, <1>10, <2>1 DEF RunsInv, Shape
<1>12. ASSUME NEW x \in Tasks PROVE Kept(x)
  <2> SUFFICES ASSUME Has(task'[x].todo, "endCritical")
               PROVE  obj'[task'[x].i].crit /\ (obj'[task'[x].i].rec => obj[task'[x].i].rec)
    BY DEF Kept
  <2>1. /\ task'[x].i = task[x].i /\ task[x].i \in Insts /\ obj[task[x].i].crit
    BY <1>8, StillCritical
  <2>2. task[x].i # f BY <1>1
  <2> QED BY <1>11, <2>1, <2>2
<1>13. Others'
  <2>1. <<>> \in Seq(EventNames) OBVIOUS
  <2> QED BY <1>1, <1>10, <2>1 DEF RunsInv, Shape, Others
<1>14. Shape' BY <1>9, <1>11, <1>13 DEF RunsInv, Shape
<1> QED BY <1>8, <1>12, <1>14, PlainStep

\* reactivateSuspendedRun
LEMMA ReactivateKeeps ==
  ASSUME RunsInv, NEW u \in Tasks, Reactivate(u)
  PROVE  RunsInv'
<1> DEFINE r == task[u].snap
<1>1. task[u].todo # <<>> /\ Head(task[u].todo) = "reactivate" BY DEF Reactivate, At
<1>2. CASE sess # task[u].s
  <2>1. Throw(u) /\ UNCHANGED <<obj, active, events>> BY <1>2 DEF Reactivate
  <2>2. UNCHANGED <<kind, db, appr, tokens, sess, side, tracked, old, done, used>>
    BY DEF Reactivate, persisted, Rest
  <2>3. task' \in [Tasks -> TaskRecords] /\ \A x \in Tasks : Plain(x) BY <1>1, <2>1, ThrowPlain
  <2>4. Others' BY <2>1, <2>2 DEF RunsInv, Shape, Others
  <2> QED BY <2>1, <2>2, <2>3, <2>4, QuietTasks
<1>3. CASE sess = task[u].s
  <2>1. /\ \E i \in Insts : IsFresh(i)
        /\ Activate(FreshObject, r.status, r.rev, r.pend, TRUE)
        /\ task' = [task EXCEPT ![u].todo = Tail(@), ![u].i = FreshObject]
    BY <1>3 DEF Reactivate
  <2>2. UNCHANGED <<kind, db, appr, tokens, sess, side, tracked, old, done, used>>
    BY DEF Reactivate, persisted, Rest
  <2>3. r.status \in Statuses /\ r.rev \in Nat /\ r.pend \in Pend
    <3>1. r \in Snap BY DEF RunsInv, Shape, TaskRecords
    <3> HIDE DEF r
    <3> QED BY <3>1 DEF Snap, Statuses
  <2>4. db' \in Snap BY <2>2 DEF RunsInv, Shape, Others
  <2> HIDE DEF r, Reactivate
  <2> QED BY <1>1, <2>1, <2>2, <2>3, <2>4, ActivateKeeps
<1> QED BY <1>2, <1>3

\* The start of a run, after its messages
LEMMA ActivateRunKeeps ==
  ASSUME RunsInv, ActivateRun
  PROVE  RunsInv'
<1>1. task["start"].todo # <<>> /\ Head(task["start"].todo) = "activate" BY DEF ActivateRun, At
<1>2. "start" \in Tasks BY DEF Tasks, Handlers
<1>3. UNCHANGED <<kind, appr, tokens, sess, side, tracked, old, done, used>>
  BY DEF ActivateRun, Rest
<1>4. CASE sess # task["start"].s
  <2>1. Throw("start") /\ UNCHANGED <<db, obj, active, events>> BY <1>4 DEF ActivateRun
  <2>2. task' \in [Tasks -> TaskRecords] /\ \A x \in Tasks : Plain(x)
    BY <1>1, <1>2, <2>1, ThrowPlain
  <2>3. Others' BY <1>3, <2>1 DEF RunsInv, Shape, Others
  <2> QED BY <1>3, <2>1, <2>2, <2>3, QuietTasks
<1>5. CASE sess = task["start"].s
  <2>1. /\ \E i \in Insts : IsFresh(i)
        /\ Activate(FreshObject, "starting", 1, None, FALSE)
        /\ db' = [status |-> "starting", rev |-> 1, pend |-> None]
        /\ task' = [task EXCEPT !["start"].todo = Tail(@), !["start"].i = FreshObject]
    BY <1>5 DEF ActivateRun
  <2>2. "starting" \in Statuses /\ 1 \in Nat /\ None \in Pend /\ FALSE \in BOOLEAN
    BY DEF Statuses, Unfinished, Pend
  <2>3. db' \in Snap BY <2>1 DEF Snap, Unfinished, Pend
  <2> HIDE DEF ActivateRun
  <2> QED BY <1>1, <1>2, <1>3, <2>1, <2>2, <2>3, ActivateKeeps
<1> QED BY <1>4, <1>5

\* sidecar.startRun
LEMMA RequestStartKeeps ==
  ASSUME RunsInv, RequestStart
  PROVE  RunsInv'
<1>1. task["start"].todo # <<>> /\ Head(task["start"].todo) = "request" BY DEF RequestStart, At
<1>2. "start" \in Tasks BY DEF Tasks, Handlers
<1>3. task["start"].i # 0 BY <1>1, <1>2, OnObject
<1>4. Throw("start") \/ Advance("start") BY DEF RequestStart
<1>5. /\ UNCHANGED <<kind, db, appr, obj, active, tokens, sess, events, old, done, used>>
      /\ side' \in {side, "starting"} /\ tracked' \in {tracked, TRUE}
  BY DEF RequestStart, persisted, Rest
<1> HIDE DEF RequestStart
<1>6. task' \in [Tasks -> TaskRecords] /\ \A x \in Tasks : Plain(x)
  BY <1>1, <1>2, <1>3, <1>4, StepPlain
<1>7. Others' BY <1>5 DEF RunsInv, Shape, Others, Sides
<1> QED BY <1>5, <1>6, <1>7, QuietTasks

\* A task begins with one of the todos that need no object.
LEMMA LaunchedWaiting ==
  ASSUME RunsInv, NEW t \in Tasks, NEW s \in Waiting, NEW r \in TaskRecords, r.todo = s,
         Has(s, "decide") => t \in Users /\ r.c \in Calls,
         task' = [task EXCEPT ![t] = r]
  PROVE  task' \in [Tasks -> TaskRecords] /\ \A x \in Tasks : Plain(x)
<1>1. s \in Seq(StepNames) /\ \A m \in Marks : ~Has(s, m) BY WaitingTodos
<1>2. \A m \in LaidMarks : Has(s, m) => m = "decide" BY <1>1 DEF Marks
<1>3. ~Has(s, "endCritical") BY <1>1 DEF Marks
<1>4. Once(s) BY <1>1, <1>3, OnceFree
<1>5. Has(s, "decide") => s \in Asking
  <2> SUFFICES ASSUME Has(s, "decide") PROVE s \in Asking OBVIOUS
  <2>1. {"messages", "activate", "emit", "request", "drainStarts", "orphan", "reactivate", "track"}
          \cup Ops \subseteq StepNames
    BY DEF StepNames
  <2>2. /\ ~Has(<<>>, "decide") /\ ~Has(<<"messages", "activate", "emit", "request">>, "decide")
        /\ ~Has(<<"activate", "emit", "request">>, "decide")
        /\ ~Has(<<"activate", "request">>, "decide")
        /\ ~Has(<<"drainStarts">>, "decide") /\ ~Has(<<"orphan">>, "decide")
    <3>1. ~Has(<<"messages", "activate", "emit", "request">>, "decide") BY <2>1, HasFour
    <3>2. ~Has(<<"activate", "emit", "request">>, "decide") BY <2>1, HasThree
    <3>3. ~Has(<<"activate", "request">>, "decide") BY <2>1, HasTwo
    <3>4. /\ ~Has(<<"drainStarts">>, "decide") /\ ~Has(<<"orphan">>, "decide")
          /\ ~Has(<<>>, "decide")
      BY <2>1, HasFew
    <3> QED BY <3>1, <3>2, <3>3, <3>4
  <2>3. PICK op \in Ops : s = <<"reactivate", "track", op>> BY <2>2 DEF Waiting
  <2>4. op = "decide"
    <3>1. \A x : Has(s, x) <=> x \in {"reactivate", "track", op} BY <2>1, <2>3, HasThree
    <3> QED BY <3>1
  <2> QED BY <2>3, <2>4 DEF Asking
<1>6. Laid(t, r.todo) BY <1>2, <1>4, <1>5 DEF Laid, LaidMarks
<1> QED BY <1>1, <1>6, LaunchedPlain

\* startConversationTurn, startTaskPlanningRun
LEMMA StartRunKeeps ==
  ASSUME RunsInv, NEW k \in Kinds, StartRun(k)
  PROVE  RunsInv'
<1> DEFINE s == IF k = "conversation-turn"
                THEN <<"messages", "activate", "emit", "request">> ELSE <<"activate", "request">>
           r == [Idle EXCEPT !.s = sess, !.todo = s]
<1>1. "start" \in Tasks /\ "start" \notin Users BY RunUsers DEF Tasks, Handlers
<1>2. s \in Waiting /\ s \in Seq(StepNames)
  <2>1. s \in Waiting BY DEF Waiting
  <2> QED BY <2>1, WaitingTodos
<1>3. r \in TaskRecords /\ r.todo = s
  <2>1. sess \in Sessions \cup {0} BY DEF RunsInv, Shape, Others
  <2>2. Blank \in Snap BY Nothing
  <2>3. Idle = [todo |-> <<>>, i |-> 0, c |-> None, yes |-> FALSE, s |-> 0, snap |-> Blank]
    BY DEF Idle
  <2> HIDE DEF s
  <2> QED BY <1>2, <2>1, <2>2, <2>3 DEF TaskRecords
<1>4. task' = [task EXCEPT !["start"] = r] BY DEF StartRun
<1>5. ~Has(s, "decide")
  <2>1. {"messages", "activate", "emit", "request"} \subseteq StepNames BY DEF StepNames
  <2> QED BY <2>1, HasTwo, HasFour
<1>6. /\ kind' = k /\ UNCHANGED <<db, appr, obj, active, tokens, sess, side,
                                  tracked, events, old, done, used>>
  BY DEF StartRun, Memory, Rest
<1> HIDE DEF s, r, StartRun
<1>7. task' \in [Tasks -> TaskRecords] /\ \A x \in Tasks : Plain(x)
  BY <1>1, <1>2, <1>3, <1>4, <1>5, LaunchedWaiting
<1>8. Others' BY <1>6, RunKinds DEF RunsInv, Shape, Others
<1> QED BY <1>6, <1>7, <1>8, QuietTasks

----------------------------------------------------------------------------
(* The sidecar *)

\* A step that leaves the tasks and the objects alone.
LEMMA QuietRest ==
  ASSUME RunsInv, Others', UNCHANGED <<appr, done, obj, task>>, tokens' \subseteq tokens
  PROVE  RunsInv'
<1>1. task' \in [Tasks -> TaskRecords] BY DEF RunsInv, Shape
<1>2. \A x \in Tasks : Plain(x) BY PlainSame
<1> QED BY <1>1, <1>2, QuietTasks

\* What the sidecar says is kept until it is applied.
LEMMA SidecarKeeps ==
  ASSUME RunsInv, NEW e \in EventNames, Accept(e), side' \in Sides, tracked' \in BOOLEAN,
         UNCHANGED <<kind, db, appr, obj, active, tokens, sess, task, old, done>>,
         UNCHANGED used \/ used' = [used EXCEPT !.faults = @ + 1]
  PROVE  RunsInv'
<1>1. Others BY DEF RunsInv, Shape
<1>2. used' \in Counts /\ used'.outs <= MaxOuts /\ used'.crashes <= MaxCrashes BY <1>1, Counted
<1>3. events' \in Seq(EventNames) BY <1>1 DEF Accept, Others
<1>4. Others' BY <1>1, <1>2, <1>3 DEF Others
<1> QED BY <1>4, QuietRest

\* The events of the sidecar
LEMMA SidecarEventsKeep ==
  ASSUME RunsInv,
         \/ SidecarAccepts \/ SidecarAsks \/ SidecarCancels \/ SidecarSkips
         \/ \E e \in {"completed", "failed"} : SidecarEnds(e)
  PROVE  RunsInv'
<1>0. side \in Sides /\ tracked \in BOOLEAN BY DEF RunsInv, Shape, Others
<1>1. CASE SidecarAccepts
  <2>1. /\ Accept("running") /\ side' \in {"approved", "running"} /\ tracked' = tracked
        /\ UNCHANGED <<kind, db, appr, obj, active, tokens, sess, task, old, done, used>>
    BY <1>1 DEF SidecarAccepts, Sidecar, persisted, Rest
  <2>2. "running" \in EventNames /\ side' \in Sides /\ tracked' \in BOOLEAN
    BY <1>0, <2>1 DEF EventNames, Sides
  <2> HIDE DEF SidecarAccepts
  <2> QED BY <2>1, <2>2, SidecarKeeps
<1>2. CASE SidecarAsks
  <2>1. /\ Accept("question") /\ side' = "suspended" /\ tracked' = tracked
        /\ UNCHANGED <<kind, db, appr, obj, active, tokens, sess, task, old, done, used>>
    BY <1>2 DEF SidecarAsks, Sidecar, persisted, Rest
  <2>2. "question" \in EventNames /\ side' \in Sides /\ tracked' \in BOOLEAN
    BY <1>0, <2>1 DEF EventNames, Sides
  <2> QED BY <2>1, <2>2, SidecarKeeps
<1>3. CASE SidecarCancels
  <2>1. /\ Accept("cancelled") /\ side' = "done" /\ tracked' = FALSE
        /\ UNCHANGED <<kind, db, appr, obj, active, tokens, sess, task, old, done, used>>
    BY <1>3 DEF SidecarCancels, Sidecar, persisted, Rest
  <2>2. "cancelled" \in EventNames /\ side' \in Sides /\ tracked' \in BOOLEAN
    BY <2>1 DEF EventNames, Sides
  <2> QED BY <2>1, <2>2, SidecarKeeps
<1>4. CASE SidecarSkips
  <2>1. /\ Accept("gap") /\ UNCHANGED <<side, tracked>>
        /\ UNCHANGED <<kind, db, appr, obj, active, tokens, sess, task, old, done>>
        /\ used' = [used EXCEPT !.faults = @ + 1]
    BY <1>4 DEF SidecarSkips, persisted
  <2>2. "gap" \in EventNames /\ side' \in Sides /\ tracked' \in BOOLEAN
    BY <1>0, <2>1 DEF EventNames
  <2> QED BY <2>1, <2>2, SidecarKeeps
<1>5. ASSUME NEW e \in {"completed", "failed"}, SidecarEnds(e) PROVE RunsInv'
  <2>1. /\ Accept(e) /\ side' = "done" /\ tracked' = FALSE
        /\ UNCHANGED <<kind, db, appr, obj, active, tokens, sess, task, old, done, used>>
    BY <1>5 DEF SidecarEnds, Sidecar, persisted, Rest
  <2>2. e \in EventNames /\ side' \in Sides /\ tracked' \in BOOLEAN
    BY <2>1 DEF EventNames, Sides
  <2> QED BY <2>1, <2>2, SidecarKeeps
<1> QED BY <1>1, <1>2, <1>3, <1>4, <1>5

\* A task begins on an object.
LEMMA LaunchedRecord ==
  ASSUME NEW i \in Insts, NEW s \in Seq(StepNames)
  PROVE  LET r == [Idle EXCEPT !.i = i, !.todo = s]
         IN  r \in TaskRecords /\ r.todo = s /\ r.i = i
<1>1. Idle = [todo |-> <<>>, i |-> 0, c |-> None, yes |-> FALSE, s |-> 0, snap |-> Blank]
  BY DEF Idle
<1>2. Blank \in Snap BY Nothing
<1> QED BY <1>1, <1>2 DEF TaskRecords

\* It has steps that touch no approval.
LEMMA LaunchedOn ==
  ASSUME RunsInv, NEW t \in Tasks, NEW i \in Insts, NEW s \in Seq(StepNames),
         task' = [task EXCEPT ![t] = [Idle EXCEPT !.i = i, !.todo = s]],
         ~Activates(s), \A m \in Marks : ~Has(s, m), Laid(t, s), ~Has(s, "decide")
  PROVE  task' \in [Tasks -> TaskRecords] /\ \A x \in Tasks : Plain(x)
<1> DEFINE r == [Idle EXCEPT !.i = i, !.todo = s]
<1>1. r \in TaskRecords /\ r.todo = s /\ r.i = i BY LaunchedRecord
<1>2. i # 0
  <2>1. MaxObjects \in Nat BY RunBounds
  <2> QED BY <2>1 DEF Insts
<1>3. task' = [task EXCEPT ![t] = r] OBVIOUS
<1> HIDE DEF r
<1> QED BY <1>1, <1>2, <1>3, LaunchedPlain

\* Todos of one step, and those that end a run.
LEMMA PlainTodos ==
  ASSUME NEW s \in {<<"failed">>, <<"cancelled">>, <<"interrupted">>, <<"settle">>,
                    <<"drainChain">>, Ending, Completing}
  PROVE  /\ s \in Seq(StepNames) /\ ~Activates(s) /\ ~Has(s, "decide")
         /\ \A m \in Marks : ~Has(s, m)
         /\ \A t : Laid(t, s)
<1> DEFINE S == {"failed", "cancelled", "interrupted", "settle", "drainChain", "message", "emit",
                 "finish", "putComplete", "complete"}
<1>1. s \in Seq(StepNames) /\ \A x : Has(s, x) => x \in S
  <2>1. S \subseteq StepNames BY DEF StepNames
  <2>2. ASSUME NEW e \in S, s = <<e>> PROVE s \in Seq(StepNames) /\ \A x : Has(s, x) => x \in S
    BY <2>1, <2>2, HasFew
  <2>3. CASE s = Ending BY <2>3, Endings
  <2>4. CASE s = Completing BY <2>4, Endings
  <2>5. (\E e \in S : s = <<e>>) \/ s = Ending \/ s = Completing OBVIOUS
  <2> HIDE DEF S
  <2> QED BY <2>2, <2>3, <2>4, <2>5
<1>2. S \cap (LaidMarks \cup {"endCritical", "activate", "reactivate"}) = {} BY DEF LaidMarks
<1> HIDE DEF S
<1> QED BY <1>1, <1>2, FreeTodo DEF LaidMarks

\* applySidecarEvent
LEMMA TakeEventKeeps ==
  ASSUME RunsInv, TakeEvent
  PROVE  RunsInv'
<1> DEFINE e == Head(events)
           i == active
           o == Apply(obj[i], e)
           s == CASE e = "gap" -> <<"interrupted">>
                  [] e = "completed" -> Completing
                  [] OTHER -> <<e>>
<1>1. /\ events # <<>> /\ events' = Tail(events)
      /\ UNCHANGED <<kind, appr, active, tokens, sess, side, tracked, old, done, used>>
  BY DEF TakeEvent, Rest
<1>2. e \in EventNames /\ events' \in Seq(EventNames)
  <2>1. events \in Seq(EventNames) BY DEF RunsInv, Shape, Others
  <2> QED BY <1>1, <2>1
<1>3. i \in Insts \cup {0} BY DEF RunsInv, Shape, Others
<1>4. \/ UNCHANGED <<task, obj, db>>
      \/ /\ i # 0 /\ e \in {"running", "suspended", "question"}
         /\ obj' = [obj EXCEPT ![i] = o] /\ db' = Shot(o) /\ UNCHANGED task
      \/ /\ i # 0 /\ e \notin {"running", "suspended", "question"}
         /\ task' = [task EXCEPT !["chain"] = [Idle EXCEPT !.i = i, !.todo = s]]
         /\ UNCHANGED <<obj, db>>
  BY DEF TakeEvent
<1> HIDE DEF TakeEvent, e, i, o, s
<1>5. CASE UNCHANGED <<task, obj, db>>
  <2>1. Others' BY <1>1, <1>2, <1>5 DEF RunsInv, Shape, Others
  <2> QED BY <1>1, <1>5, <2>1, QuietRest
<1>6. CASE /\ i # 0 /\ e \in {"running", "suspended", "question"}
           /\ obj' = [obj EXCEPT ![i] = o] /\ db' = Shot(o) /\ UNCHANGED task
  <2>1. i \in Insts /\ obj[i] \in Objects BY <1>3, <1>6 DEF RunsInv, Shape
  <2>2. o \in Objects /\ o.crit = obj[i].crit /\ o.rec = obj[i].rec
    <3> DEFINE b == obj[i]
    <3>1. {"running", "suspended"} \subseteq Statuses /\ "question" \in Pend
      BY DEF Statuses, Unfinished, Pend
    <3>2. b \in Objects BY <2>1
    <3>3. o = Apply(b, e) BY DEF o
    <3> HIDE DEF b
    <3>4. CASE e = "running"
      <4>1. o = [b EXCEPT !.status = "running"] BY <3>3, <3>4 DEF Apply
      <4> QED BY <3>1, <3>2, <4>1 DEF Objects, b
    <3>5. CASE e = "suspended"
      <4>1. o = [b EXCEPT !.status = "suspended"] BY <3>3, <3>5 DEF Apply
      <4> QED BY <3>1, <3>2, <4>1 DEF Objects, b
    <3>6. CASE e = "question"
      <4>1. o = [b EXCEPT !.status = "suspended", !.pend = "question", !.rev = b.rev + 1]
        BY <3>3, <3>6 DEF Apply
      <4>2. b.rev + 1 \in Nat BY <3>2 DEF Objects
      <4> QED BY <3>1, <3>2, <4>1, <4>2 DEF Objects, b
    <3> QED BY <1>6, <3>4, <3>5, <3>6
  <2>3. /\ obj' \in [Insts -> Objects]
        /\ \A j \in Insts : obj'[j].crit = obj[j].crit /\ obj'[j].rec = obj[j].rec
    BY <1>6, <2>1, <2>2, ObjectAlike
  <2>4. db' \in Snap BY <1>6, <2>2, Shots
  <2>5. Others' BY <1>1, <1>2, <2>4 DEF RunsInv, Shape, Others
  <2> QED BY <1>1, <1>6, <2>3, <2>5, QuietObjects
<1>7. CASE /\ i # 0 /\ e \notin {"running", "suspended", "question"}
           /\ task' = [task EXCEPT !["chain"] = [Idle EXCEPT !.i = i, !.todo = s]]
           /\ UNCHANGED <<obj, db>>
  <2>1. i \in Insts BY <1>3, <1>7
  <2>2. s \in {<<"interrupted">>, Completing, <<"cancelled">>, <<"failed">>}
    BY <1>2, <1>7 DEF s, EventNames
  <2>3. /\ s \in Seq(StepNames) /\ ~Activates(s) /\ ~Has(s, "decide")
        /\ \A m \in Marks : ~Has(s, m)
        /\ Laid("chain", s)
    BY <2>2, PlainTodos
  <2>4. "chain" \in Tasks BY DEF Tasks, Handlers
  <2>5. task' \in [Tasks -> TaskRecords] /\ \A x \in Tasks : Plain(x)
    BY <1>7, <2>1, <2>3, <2>4, LaunchedOn
  <2>6. Others' BY <1>1, <1>2, <1>7 DEF RunsInv, Shape, Others
  <2> QED BY <1>1, <1>7, <2>5, <2>6, QuietTasks
<1> QED BY <1>4, <1>5, <1>6, <1>7

\* A request that is not answered
LEMMA RequestFailsKeeps ==
  ASSUME RunsInv, RequestFails
  PROVE  RunsInv'
<1> DEFINE b == obj[active]
           o == [b EXCEPT !.status = "failed"]
<1>1. /\ active # 0 /\ obj' = [obj EXCEPT ![active] = o]
      /\ task' = [task EXCEPT !["tail"] = [Idle EXCEPT !.i = active, !.todo = Ending]]
      /\ used' = [used EXCEPT !.faults = @ + 1]
      /\ UNCHANGED <<kind, db, appr, active, tokens, sess, side, tracked, events, old, done>>
  BY DEF RequestFails, persisted, Memory
<1>2. active \in Insts /\ b \in Objects BY <1>1 DEF RunsInv, Shape, Others
<1>3. o \in Objects /\ o.crit = b.crit /\ o.rec = b.rec
  <2>1. "failed" \in Statuses BY DEF Statuses, Terminal
  <2> QED BY <1>2, <2>1 DEF Objects
<1> HIDE DEF o
<1>4. /\ obj' \in [Insts -> Objects]
      /\ \A j \in Insts : obj'[j].crit = obj[j].crit /\ obj'[j].rec = obj[j].rec
  BY <1>1, <1>2, <1>3, ObjectAlike
<1>5. "tail" \in Tasks BY DEF Tasks, Handlers
<1>6. /\ Ending \in Seq(StepNames) /\ ~Activates(Ending) /\ ~Has(Ending, "decide")
      /\ (\A m \in Marks : ~Has(Ending, m)) /\ Laid("tail", Ending)
  BY PlainTodos
<1>7. task' \in [Tasks -> TaskRecords] /\ \A x \in Tasks : Plain(x)
  BY <1>1, <1>2, <1>5, <1>6, LaunchedOn
<1>8. Others'
  <2>1. Others BY DEF RunsInv, Shape
  <2>2. used' \in Counts /\ used'.outs <= MaxOuts /\ used'.crashes <= MaxCrashes
    BY <1>1, <2>1, Counted
  <2> QED BY <1>1, <2>1, <2>2 DEF Others
<1> QED BY <1>1, <1>4, <1>7, <1>8, Quiet

\* The end of the process
LEMMA SidecarExitsKeeps ==
  ASSUME RunsInv, SidecarExits
  PROVE  RunsInv'
<1> DEFINE ri == [Idle EXCEPT !.i = active, !.todo = <<"settle">>]
           rt == [Idle EXCEPT !.i = active, !.todo = <<"failed">>]
           failing == side \in {"starting", "approving", "declining"} /\ active # 0 /\ Free("tail")
<1>1. /\ side' = "none" /\ tracked' = FALSE /\ used' = [used EXCEPT !.exits = @ + 1]
      /\ UNCHANGED <<kind, db, appr, obj, active, tokens, sess, events, old, done>>
      /\ task' = [task EXCEPT
             !["interrupt"] = IF tracked /\ active # 0 THEN ri ELSE @,
             !["tail"] = IF failing THEN rt ELSE @]
  BY DEF SidecarExits, persisted
<1>2. active # 0 => active \in Insts BY DEF RunsInv, Shape, Others
<1>3. {"interrupt", "tail"} \subseteq Tasks BY DEF Tasks, Handlers
<1>4. task \in [Tasks -> TaskRecords] BY DEF RunsInv, Shape
<1> HIDE DEF ri, rt, failing, SidecarExits
<1>5. /\ task' = [x \in Tasks |-> task'[x]]
      /\ task'["interrupt"] = IF tracked /\ active # 0 THEN ri ELSE task["interrupt"]
      /\ task'["tail"] = IF failing THEN rt ELSE task["tail"]
      /\ \A x \in Tasks \ {"interrupt", "tail"} : task'[x] = task[x]
  BY <1>1, <1>3, <1>4
<1>6. active # 0 => /\ ri \in TaskRecords /\ ri.todo = <<"settle">> /\ ri.i = active
                    /\ rt \in TaskRecords /\ rt.todo = <<"failed">> /\ rt.i = active
  <2>1. <<"settle">> \in Seq(StepNames) /\ <<"failed">> \in Seq(StepNames) BY PlainTodos
  <2> QED BY <1>2, <2>1, LaunchedRecord DEF ri, rt
<1>7. Plain("interrupt")
  <2>1. CASE tracked /\ active # 0
    <3>1. task'["interrupt"] = ri BY <1>5, <2>1
    <3> QED BY <1>3, <1>6, <2>1, <3>1, PlainTodos, PlainLaunched
  <2>2. CASE ~(tracked /\ active # 0)
    <3>1. task'["interrupt"] = task["interrupt"] BY <1>5, <2>2
    <3> QED BY <1>3, <3>1, PlainSame
  <2> QED BY <2>1, <2>2
<1>8. Plain("tail")
  <2>1. CASE failing
    <3>1. task'["tail"] = rt /\ active # 0 BY <1>5, <2>1 DEF failing
    <3> QED BY <1>3, <1>6, <3>1, PlainTodos, PlainLaunched
  <2>2. CASE ~failing
    <3>1. task'["tail"] = task["tail"] BY <1>5, <2>2
    <3> QED BY <1>3, <3>1, PlainSame
  <2> QED BY <2>1, <2>2
<1>9. \A x \in Tasks : Plain(x) BY <1>5, <1>7, <1>8, PlainSame
<1>10. task' \in [Tasks -> TaskRecords]
  <2>1. \A x \in Tasks : task'[x] \in TaskRecords BY <1>9 DEF Plain, Sound
  <2> QED BY <1>5, <2>1
<1>11. Others'
  <2>1. Others BY DEF RunsInv, Shape
  <2>2. used' \in Counts /\ used'.outs <= MaxOuts /\ used'.crashes <= MaxCrashes
    BY <1>1, <2>1, Counted
  <2> QED BY <1>1, <2>1, <2>2 DEF Others, Sides
<1> QED BY <1>1, <1>9, <1>10, <1>11, QuietTasks

\* interruptRuns: a run in a critical operation is not marked recoverable.
LEMMA InterruptRunKeeps ==
  ASSUME RunsInv, InterruptRun
  PROVE  RunsInv'
<1> DEFINE t == "interrupt"
           i == task["interrupt"].i
           o == [obj[i] EXCEPT !.rec = TRUE]
<1>1. /\ t \in Tasks /\ task[t].todo # <<>> /\ Head(task[t].todo) = "settle" /\ ~obj[i].crit
  <2>1. t \in Tasks BY DEF Tasks, Handlers
  <2> QED BY <2>1 DEF InterruptRun, At, CriticalSettled
<1>2. i \in Insts /\ i # 0 /\ obj[i] \in Objects BY <1>1, OnObject
<1>3. UNCHANGED <<kind, appr, active, tokens, sess, side, tracked, events, old, done, used>>
  BY DEF InterruptRun, Memory, Rest
<1>4. \/ Throw(t) \/ Set(t, <<"interrupted">>) \/ Set(t, <<>>)
  BY DEF InterruptRun, EmitAs
<1>5. /\ obj' = obj \/ obj' = [obj EXCEPT ![i] = o]
      /\ db' = db \/ db' = Shot(o)
  BY DEF InterruptRun, EmitAs
<1>6. o \in Objects
  <2>1. \A b \in Objects : [b EXCEPT !.rec = TRUE] \in Objects BY DEF Objects
  <2> HIDE DEF i, Objects
  <2> QED BY <1>2, <2>1
<1> HIDE DEF i, o, InterruptRun
<1>7. task' \in [Tasks -> TaskRecords] /\ \A x \in Tasks : Plain(x)
  <2>1. CASE Throw(t) BY <1>1, <2>1, ThrowPlain
  <2>2. CASE Set(t, <<"interrupted">>) BY <1>1, <1>2, <2>2, SetFew DEF i
  <2>3. CASE Set(t, <<>>) BY <1>1, <1>2, <2>3, SetFew DEF i
  <2> QED BY <1>4, <2>1, <2>2, <2>3
<1>8. obj' \in [Insts -> Objects] /\ \A j \in Insts : j # i => obj'[j] = obj[j]
  BY <1>2, <1>5, <1>6 DEF RunsInv, Shape
<1>9. ASSUME NEW x \in Tasks PROVE Kept(x)
  <2> SUFFICES ASSUME Has(task'[x].todo, "endCritical")
               PROVE  obj'[task'[x].i].crit /\ (obj'[task'[x].i].rec => obj[task'[x].i].rec)
    BY DEF Kept
  <2>1. task'[x].i = task[x].i /\ task[x].i \in Insts /\ obj[task[x].i].crit
    BY <1>7, StillCritical
  <2>2. task[x].i # i BY <1>1, <2>1
  <2> QED BY <1>8, <2>1, <2>2
<1>10. db' \in Snap BY <1>5, <1>6, Shots DEF RunsInv, Shape, Others
<1>11. Others' BY <1>3, <1>10 DEF RunsInv, Shape, Others
<1>12. Shape' BY <1>3, <1>7, <1>8, <1>11 DEF RunsInv, Shape
<1> QED BY <1>3, <1>7, <1>9, <1>12, PlainStep

----------------------------------------------------------------------------
(* Sign out, sign in, crash *)

\* The session is withdrawn.
LEMMA LogoutKeeps ==
  ASSUME RunsInv, Logout
  PROVE  RunsInv'
<1> DEFINE r == [Idle EXCEPT !.todo = <<"drainStarts">>]
<1>1. /\ sess' = 0 /\ task' = [task EXCEPT !["logout"] = r]
      /\ used.outs < MaxOuts /\ used' = [used EXCEPT !.outs = @ + 1]
      /\ UNCHANGED <<kind, db, appr, obj, active, tokens, side, tracked, events, old, done>>
  BY DEF Logout, persisted
<1>2. "logout" \in Tasks BY DEF Tasks, Handlers
<1>3. <<"drainStarts">> \in Waiting BY DEF Waiting
<1>4. <<"drainStarts">> \in Seq(StepNames) BY <1>3, WaitingTodos
<1>5. r \in TaskRecords /\ r.todo = <<"drainStarts">>
  <2>1. Idle = [todo |-> <<>>, i |-> 0, c |-> None, yes |-> FALSE, s |-> 0, snap |-> Blank]
    BY DEF Idle
  <2> QED BY <1>4, <2>1, Nothing DEF TaskRecords
<1>6. ~Has(<<"drainStarts">>, "decide")
  <2>1. "drainStarts" \in StepNames BY DEF StepNames
  <2> QED BY <2>1, HasFew
<1> HIDE DEF r
<1>7. task' \in [Tasks -> TaskRecords] /\ \A x \in Tasks : Plain(x)
  BY <1>1, <1>2, <1>3, <1>5, <1>6, LaunchedWaiting
<1>8. Others'
  <2>1. Others BY DEF RunsInv, Shape
  <2>2. used' \in Counts /\ used'.outs <= MaxOuts /\ used'.crashes <= MaxCrashes
    BY <1>1, <2>1, Counted
  <2> QED BY <1>1, <2>1, <2>2 DEF Others
<1> QED BY <1>1, <1>7, <1>8, QuietTasks

\* Then the starts are waited for.
LEMMA DrainStartsKeeps ==
  ASSUME RunsInv, DrainStarts
  PROVE  RunsInv'
<1>1. /\ task' = [task EXCEPT !["logout"] = IF active = 0 THEN Idle
                    ELSE [Idle EXCEPT !.i = active, !.todo = <<"drainChain">>]]
      /\ UNCHANGED <<kind, db, appr, obj, active, tokens, sess, side,
                     tracked, events, old, done, used>>
  BY DEF DrainStarts, persisted, Memory, Rest
<1>2. "logout" \in Tasks BY DEF Tasks, Handlers
<1>3. task' \in [Tasks -> TaskRecords] /\ \A x \in Tasks : Plain(x)
  <2>1. CASE active = 0
    <3>1. task' = [task EXCEPT !["logout"] = Idle] BY <1>1, <2>1
    <3>2. <<>> \in Waiting /\ ~Has(<<>>, "decide") BY HasFew DEF Waiting
    <3> QED BY <1>2, <3>1, <3>2, Nothing, LaunchedWaiting
  <2>2. CASE active # 0
    <3>1. active \in Insts BY <2>2 DEF RunsInv, Shape, Others
    <3>2. task' = [task EXCEPT !["logout"] = [Idle EXCEPT !.i = active, !.todo = <<"drainChain">>]]
      BY <1>1, <2>2
    <3> QED BY <1>2, <3>1, <3>2, PlainTodos, LaunchedOn
  <2> QED BY <2>1, <2>2
<1>4. Others' BY <1>1 DEF RunsInv, Shape, Others
<1> QED BY <1>1, <1>3, <1>4, QuietTasks

\* The events, the host calls and the critical operation
LEMMA DrainsKeep ==
  ASSUME RunsInv, DrainChain \/ DrainHost \/ DrainCritical
  PROVE  RunsInv'
<1>1. /\ task["logout"].todo # <<>>
      /\ Head(task["logout"].todo) \in {"drainChain", "drainHost", "drainCritical"}
      /\ UNCHANGED <<kind, db, appr, obj, active, tokens, sess, side,
                     tracked, events, old, done, used>>
  BY DEF DrainChain, DrainHost, DrainCritical, At, persisted, Memory, Rest
<1>2. "logout" \in Tasks BY DEF Tasks, Handlers
<1>3. task["logout"].i # 0 BY <1>1, <1>2, OnObject
<1>4. \/ Set("logout", <<"drainHost">>) \/ Set("logout", <<>>) \/ Set("logout", <<"drainCritical">>)
      \/ Set("logout", <<"finish">>) \/ Set("logout", <<"cancelRun">>)
  <2>1. CASE DrainChain BY <2>1 DEF DrainChain
  <2>2. CASE DrainHost BY <2>2 DEF DrainHost
  <2>3. CASE DrainCritical BY <2>3 DEF DrainCritical
  <2> QED BY <2>1, <2>2, <2>3
<1>5. task' \in [Tasks -> TaskRecords] /\ \A x \in Tasks : Plain(x)
  <2>1. CASE Set("logout", <<"drainHost">>) BY <1>2, <1>3, <2>1, SetFew
  <2>2. CASE Set("logout", <<>>) BY <1>2, <1>3, <2>2, SetFew
  <2>3. CASE Set("logout", <<"drainCritical">>) BY <1>2, <1>3, <2>3, SetFew
  <2>4. CASE Set("logout", <<"finish">>) BY <1>2, <1>3, <2>4, SetFew
  <2>5. CASE Set("logout", <<"cancelRun">>) BY <1>2, <1>3, <2>5, SetFew
  <2> QED BY <1>4, <2>1, <2>2, <2>3, <2>4, <2>5
<1>6. Others' BY <1>1 DEF RunsInv, Shape, Others
<1> QED BY <1>1, <1>5, <1>6, QuietTasks

\* finishCancelledForLogout
LEMMA CancelForLogoutKeeps ==
  ASSUME RunsInv, CancelForLogout
  PROVE  RunsInv'
<1> DEFINE t == "logout"
           b == obj[task[t].i]
           o == [b EXCEPT !.status = "cancelled"]
           s == IF kind = "conversation-turn" THEN <<"message", "finish">> ELSE <<"finish">>
<1>1. t \in Tasks /\ task[t].todo # <<>> /\ Head(task[t].todo) = "cancelRun"
  BY DEF CancelForLogout, At, Tasks, Handlers
<1>2. task[t].i \in Insts /\ task[t].i # 0 /\ b \in Objects BY <1>1, OnObject
<1>3. o \in Objects /\ o.crit = b.crit /\ o.rec = b.rec
  <2>1. "cancelled" \in Statuses BY DEF Statuses, Terminal
  <2> QED BY <1>2, <2>1 DEF Objects
<1>4. /\ side' \in {side, "done"}
      /\ UNCHANGED <<kind, db, appr, active, tokens, sess, tracked, events, old, done, used>>
  BY DEF CancelForLogout, persisted, Rest
<1>5. obj' = obj \/ obj' = [obj EXCEPT ![task[t].i] = o] BY DEF CancelForLogout, Obj
<1>6. Throw(t) \/ task' = [task EXCEPT ![t].todo = s] BY DEF CancelForLogout
<1> HIDE DEF o, CancelForLogout
<1>7. Throw(t) \/ Set(t, s)
  <2>1. s # <<>> OBVIOUS
  <2> HIDE DEF s
  <2> QED BY <1>6, <2>1 DEF Set
<1>8. s \in {<<"message", "finish">>, <<"finish">>} OBVIOUS
<1> HIDE DEF s
<1>9. task' \in [Tasks -> TaskRecords] /\ \A x \in Tasks : Plain(x)
  <2>1. CASE Throw(t) BY <1>1, <2>1, ThrowPlain
  <2>2. CASE Set(t, s) BY <1>1, <1>2, <1>8, <2>2, SetFew
  <2> QED BY <1>7, <2>1, <2>2
<1>10. /\ obj' \in [Insts -> Objects]
       /\ \A j \in Insts : obj'[j].crit = obj[j].crit /\ obj'[j].rec = obj[j].rec
  <2>1. CASE obj' = obj BY <2>1 DEF RunsInv, Shape
  <2>2. CASE obj' = [obj EXCEPT ![task[t].i] = o] BY <1>2, <1>3, <2>2, ObjectAlike
  <2> QED BY <1>5, <2>1, <2>2
<1>11. Others' BY <1>4 DEF RunsInv, Shape, Others, Sides
<1> QED BY <1>4, <1>9, <1>10, <1>11, Quiet

\* A new session
LEMMA LoginKeeps ==
  ASSUME RunsInv, Login
  PROVE  RunsInv'
<1>1. /\ sess' = used.outs + used.crashes + 1
      /\ UNCHANGED <<kind, db, appr, obj, active, tokens, side,
                     tracked, events, task, old, done, used>>
  BY DEF Login, persisted, Rest
<1>2. sess' \in Sessions
  <2>1. /\ used.outs \in Nat /\ used.crashes \in Nat
        /\ used.outs <= MaxOuts /\ used.crashes <= MaxCrashes
    BY DEF RunsInv, Shape, Others, Counts
  <2>2. MaxOuts \in Nat /\ MaxCrashes \in Nat BY RunBounds
  <2> QED BY <1>1, <2>1, <2>2 DEF Sessions
<1>3. Others' BY <1>1, <1>2 DEF RunsInv, Shape, Others
<1> QED BY <1>1, <1>3, QuietRest

\* listRestorableAgentRuns
LEMMA SweepKeeps ==
  ASSUME RunsInv, Sweep
  PROVE  RunsInv'
<1> DEFINE w == [db EXCEPT !.status = "interrupted", !.rev = @ + 1]
           r == [Idle EXCEPT !.s = sess, !.todo = <<"orphan">>, !.snap = w]
<1>1. /\ task' = [task EXCEPT !["sweep"] = r]
      /\ UNCHANGED <<kind, db, appr, obj, active, tokens, sess, side,
                     tracked, events, old, done, used>>
  BY DEF Sweep, persisted, Memory, Rest
<1>2. "sweep" \in Tasks BY DEF Tasks, Handlers
<1>3. <<"orphan">> \in Waiting BY DEF Waiting
<1>4. <<"orphan">> \in Seq(StepNames) BY <1>3, WaitingTodos
<1>5. w \in Snap
  <2>1. db \in Snap BY DEF RunsInv, Shape, Others
  <2>2. \A d \in Snap : d.rev + 1 \in Nat BY DEF Snap
  <2>3. \A d \in Snap : \A k \in Nat : [d EXCEPT !.status = "interrupted", !.rev = k] \in Snap
    BY DEF Snap, Terminal
  <2>4. w = [db EXCEPT !.status = "interrupted", !.rev = db.rev + 1] OBVIOUS
  <2> HIDE DEF w, Snap
  <2> QED BY <2>1, <2>2, <2>3, <2>4
<1>6. sess \in Sessions \cup {0} BY DEF RunsInv, Shape, Others
<1> HIDE DEF w
<1>7. r \in TaskRecords /\ r.todo = <<"orphan">>
  <2>1. Idle = [todo |-> <<>>, i |-> 0, c |-> None, yes |-> FALSE, s |-> 0, snap |-> Blank]
    BY DEF Idle
  <2> QED BY <1>4, <1>5, <1>6, <2>1 DEF TaskRecords
<1>8. ~Has(<<"orphan">>, "decide")
  <2>1. "orphan" \in StepNames BY DEF StepNames
  <2> QED BY <2>1, HasFew
<1> HIDE DEF r
<1>9. task' \in [Tasks -> TaskRecords] /\ \A x \in Tasks : Plain(x)
  BY <1>1, <1>2, <1>3, <1>7, <1>8, LaunchedWaiting
<1>10. Others' BY <1>1 DEF RunsInv, Shape, Others
<1> QED BY <1>1, <1>9, <1>10, QuietTasks

\* The record of a run nobody works on
LEMMA SweepWriteKeeps ==
  ASSUME RunsInv, SweepWrite
  PROVE  RunsInv'
<1>1. /\ task["sweep"].todo # <<>> /\ Head(task["sweep"].todo) = "orphan" /\ Advance("sweep")
      /\ db' = task["sweep"].snap \/ db' = db
      /\ UNCHANGED <<kind, appr, obj, active, tokens, sess, side, tracked, events, old, done, used>>
  BY DEF SweepWrite, At, Memory, Rest
<1>2. "sweep" \in Tasks BY DEF Tasks, Handlers
<1>3. task["sweep"].i = 0 => Tail(task["sweep"].todo) \in Waiting
  <2> SUFFICES ASSUME task["sweep"].i = 0 PROVE Tail(task["sweep"].todo) \in Waiting OBVIOUS
  <2>1. task["sweep"].todo \in Waiting BY <1>2 DEF RunsInv, Placed
  <2> QED BY <1>1, <2>1, WaitingTodos
<1>4. task' \in [Tasks -> TaskRecords] /\ \A x \in Tasks : Plain(x)
  BY <1>1, <1>2, <1>3, AdvancePlain
<1>5. task["sweep"].snap \in Snap BY <1>2 DEF RunsInv, Shape, TaskRecords
<1>6. Others' BY <1>1, <1>5 DEF RunsInv, Shape, Others
<1> QED BY <1>1, <1>4, <1>6, QuietTasks

\* The application ends.
LEMMA CrashKeeps ==
  ASSUME RunsInv, Crash
  PROVE  RunsInv'
<1>1. /\ obj' = [i \in Insts |-> NoRun] /\ active' = 0 /\ tokens' = {} /\ sess' = 0
      /\ side' = "none" /\ tracked' = FALSE /\ events' = <<>>
      /\ task' = [t \in Tasks |-> Idle]
      /\ used.crashes < MaxCrashes /\ used' = [used EXCEPT !.crashes = @ + 1]
      /\ UNCHANGED <<kind, db, appr, old, done>>
  BY DEF Crash, persisted
<1>2. \A x \in Tasks : task'[x].todo = <<>> /\ task'[x] \in TaskRecords BY <1>1, Nothing
<1>3. \A x \in Tasks : \A e : ~Has(task'[x].todo, e) BY <1>2, HasFew
<1>4. ASSUME NEW x \in Tasks PROVE Plain(x) /\ Kept(x)
  <2>1. task'[x].todo \in Waiting BY <1>2 DEF Waiting
  <2>2. Laid(x, task'[x].todo)
    <3>1. Once(task'[x].todo) BY <1>2, HasFew
    <3> QED BY <1>3, <3>1, LaidFree
  <2> QED BY <1>2, <1>3, <2>1, <2>2 DEF Plain, Sound, Kept
<1>5. Others'
  <2>1. Others BY DEF RunsInv, Shape
  <2>2. used' \in Counts /\ used'.outs <= MaxOuts /\ used'.crashes <= MaxCrashes
    BY <1>1, <2>1, Counted
  <2>3. <<>> \in Seq(EventNames) OBVIOUS
  <2> QED BY <1>1, <2>1, <2>2, <2>3 DEF Others, Sides
<1>6. Shape'
  <2>1. task' \in [Tasks -> TaskRecords] /\ obj' \in [Insts -> Objects] BY <1>1, Nothing
  <2> QED BY <1>1, <1>5, <2>1 DEF RunsInv, Shape
<1> QED BY <1>1, <1>4, <1>6, PlainStep

\* Ten minutes pass.
LEMMA ExpireKeeps ==
  ASSUME RunsInv, NEW c \in Calls, Expire(c)
  PROVE  RunsInv'
<1>1. /\ old' = old \cup {c}
      /\ UNCHANGED <<kind, db, appr, obj, active, tokens, sess, side,
                     tracked, events, task, done, used>>
  BY DEF Expire, persisted, Memory
<1>2. Others' BY <1>1 DEF RunsInv, Shape, Others
<1> QED BY <1>1, <1>2, QuietRest

----------------------------------------------------------------------------
(* Steps that begin, pass on or spend a right *)

\* One task does something special; the others do what they did, or less.
LEMMA OneActs ==
  ASSUME RunsInv, Shape', NEW t \in Tasks, Sound(t),
         \A x \in Tasks \ {t} : Plain(x) /\ Kept(x), ProposedOnce',
         Has(task'[t].todo, "endCritical") =>
             /\ task'[t].i \in Insts /\ obj'[task'[t].i].crit
             /\ \A x \in Tasks \ {t} : InCritical(x) => task[x].i # task'[t].i,
         \A c \in Calls :
             /\ done'[c] <= 1
             /\ done'[c] > 0 => appr'[c].st = "approved"
             /\ c \in tokens' => appr'[c].st = "approved" /\ done'[c] = 0
             /\ MayWrite(t, c)' =>
                  /\ appr'[c].st = "approved" /\ done'[c] = 0 /\ c \notin tokens'
                  /\ \A x \in Tasks \ {t} : ~MayWrite(x, c)
             /\ \A x \in Tasks \ {t} : MayWrite(x, c) =>
                  appr'[c].st = "approved" /\ done'[c] = 0 /\ c \notin tokens'
  PROVE  RunsInv'
<1>1. \A x \in Tasks : Sound(x) BY DEF Plain
<1>2. Placed' /\ TodosLaid' BY <1>1 DEF Sound, Placed, TodosLaid
<1>3. ASSUME NEW x \in Tasks \ {t}, InCritical(x)'
      PROVE  InCritical(x) /\ task'[x].i = task[x].i /\ task[x].i \in Insts
             /\ obj'[task'[x].i].crit
  <2>1. InCritical(x) /\ task'[x].i = task[x].i /\ task[x].i \in Insts
    BY <1>3, StillCritical DEF InCritical
  <2> QED BY <1>3, <2>1 DEF Kept, InCritical
<1>4. CriticalHeld'
  <2> SUFFICES ASSUME NEW y \in Tasks, InCritical(y)'
               PROVE  /\ task'[y].i \in Insts /\ obj'[task'[y].i].crit
                      /\ \A x \in Tasks \ {y} : InCritical(x)' => task'[x].i # task'[y].i
    BY DEF CriticalHeld
  <2>1. CASE y = t
    <3>1. /\ task'[t].i \in Insts /\ obj'[task'[t].i].crit
          /\ \A x \in Tasks \ {t} : InCritical(x) => task[x].i # task'[t].i
      BY <2>1 DEF InCritical
    <3> QED BY <1>3, <2>1, <3>1
  <2>2. CASE y # t
    <3>1. InCritical(y) /\ task'[y].i = task[y].i /\ task[y].i \in Insts /\ obj'[task'[y].i].crit
      BY <1>3, <2>2
    <3>2. ASSUME NEW x \in Tasks \ {y}, InCritical(x)' PROVE task'[x].i # task'[y].i
      <4>1. CASE x = t BY <3>1, <3>2, <4>1, <2>2 DEF InCritical
      <4>2. CASE x # t
        <5>1. InCritical(x) /\ task'[x].i = task[x].i BY <1>3, <3>2, <4>2
        <5> QED BY <3>1, <5>1 DEF RunsInv, CriticalHeld
      <4> QED BY <4>1, <4>2
    <3> QED BY <3>1, <3>2
  <2> QED BY <2>1, <2>2
<1>5. \A x \in Tasks \ {t} : \A c : MayWrite(x, c)' => MayWrite(x, c) BY PlainRight
<1>6. OneRight'
  <2> SUFFICES ASSUME NEW c \in Calls
               PROVE  \A y \in Tasks : MayWrite(y, c)' =>
                           /\ appr'[c].st = "approved" /\ done'[c] = 0 /\ c \notin tokens'
                           /\ \A x \in Tasks \ {y} : ~MayWrite(x, c)'
    BY DEF OneRight
  <2> SUFFICES ASSUME NEW y \in Tasks, MayWrite(y, c)'
               PROVE  /\ appr'[c].st = "approved" /\ done'[c] = 0 /\ c \notin tokens'
                      /\ \A x \in Tasks \ {y} : ~MayWrite(x, c)'
    OBVIOUS
  <2>1. CASE y = t BY <1>5, <2>1
  <2>2. CASE y # t
    <3>1. MayWrite(y, c) BY <1>5, <2>2
    <3>2. \A x \in Tasks \ {y} : ~MayWrite(x, c) BY <3>1 DEF RunsInv, OneRight
    <3>3. ~MayWrite(t, c)' BY <2>2, <3>1
    <3> QED BY <1>5, <2>2, <3>1, <3>2, <3>3
  <2> QED BY <2>1, <2>2
<1> QED BY <1>2, <1>4, <1>6 DEF RunsInv

\* The same, of a step that gives the task no right it did not have.
LEMMA OneGoesOn ==
  ASSUME RunsInv, Shape', NEW t \in Tasks, Sound(t),
         \A x \in Tasks \ {t} : Plain(x) /\ Kept(x), ProposedOnce',
         Has(task'[t].todo, "endCritical") =>
             /\ task'[t].i \in Insts /\ obj'[task'[t].i].crit
             /\ \A x \in Tasks \ {t} : InCritical(x) => task[x].i # task'[t].i,
         UNCHANGED <<appr, done, tokens>>,
         \A c \in Calls : MayWrite(t, c)' => MayWrite(t, c)
  PROVE  RunsInv'
<1>1. ASSUME NEW c \in Calls
      PROVE  /\ done'[c] <= 1
             /\ done'[c] > 0 => appr'[c].st = "approved"
             /\ c \in tokens' => appr'[c].st = "approved" /\ done'[c] = 0
             /\ MayWrite(t, c)' =>
                  /\ appr'[c].st = "approved" /\ done'[c] = 0 /\ c \notin tokens'
                  /\ \A x \in Tasks \ {t} : ~MayWrite(x, c)
             /\ \A x \in Tasks \ {t} : MayWrite(x, c) =>
                  appr'[c].st = "approved" /\ done'[c] = 0 /\ c \notin tokens'
  BY DEF RunsInv, OneRight
<1> QED BY <1>1, OneActs

\* A task that is set to something, and the others.
LEMMA SetOthers ==
  ASSUME RunsInv, NEW t \in Tasks, NEW s, s # <<>>, Set(t, s)
  PROVE  /\ task' = [x \in Tasks |-> task'[x]] /\ task'[t] = [task[t] EXCEPT !.todo = s]
         /\ task'[t].todo = s /\ task'[t].i = task[t].i /\ task'[t].c = task[t].c
         /\ task'[t].yes = task[t].yes
         /\ s \in Seq(StepNames) => task' \in [Tasks -> TaskRecords]
         /\ \A x \in Tasks \ {t} : task'[x] = task[x] /\ Plain(x)
<1>1. task \in [Tasks -> TaskRecords] BY DEF RunsInv, Shape
<1>2. /\ task'[t] = [task[t] EXCEPT !.todo = s]
      /\ \A x \in Tasks \ {t} : task'[x] = task[x]
      /\ task' = [x \in Tasks |-> task'[x]]
  BY <1>1 DEF Set
<1>3. /\ task'[t].todo = s /\ task'[t].i = task[t].i /\ task'[t].c = task[t].c
      /\ task'[t].yes = task[t].yes
  BY <1>1, <1>2 DEF TaskRecords
<1>4. s \in Seq(StepNames) => task' \in [Tasks -> TaskRecords]
  <2> SUFFICES ASSUME s \in Seq(StepNames) PROVE task' \in [Tasks -> TaskRecords] OBVIOUS
  <2>1. \A r \in TaskRecords : [r EXCEPT !.todo = s] \in TaskRecords BY DEF TaskRecords
  <2>2. task'[t] \in TaskRecords BY <1>1, <1>2, <2>1
  <2> QED BY <1>1, <1>2, <2>2
<1>5. \A x \in Tasks \ {t} : Plain(x) BY <1>2, PlainSame
<1> QED BY <1>2, <1>3, <1>4, <1>5

----------------------------------------------------------------------------
(* Host calls *)

\* The host is no user.
LEMMA HostTask ==
  /\ "host" \in Tasks /\ "host" \notin Users
BY RunUsers DEF Tasks, Handlers

\* The revision an approval is bound to
LEMMA Proposal ==
  ASSUME NEW o \in Objects
  PROVE  LET n == [o EXCEPT !.rev = o.rev + 1]
         IN  n \in Objects /\ n.crit = o.crit /\ n.rec = o.rec
<1>1. o.rev + 1 \in Nat BY DEF Objects
<1> QED BY <1>1 DEF Objects

\* propose
LEMMA ProposeKeeps ==
  ASSUME RunsInv, NEW c \in Calls, Propose(c)
  PROVE  RunsInv'
<1> DEFINE b == obj[active]
           o == [b EXCEPT !.rev = b.rev + 1]
           s == <<"putApproval", "proposed", "reply">>
           r == [Idle EXCEPT !.i = active, !.c = c, !.snap = Shot(o), !.todo = s]
<1>1. /\ appr[c].st = None /\ active # 0 /\ side' = "asking"
      /\ obj' = [obj EXCEPT ![active] = o]
      /\ task' = [task EXCEPT !["host"] = r]
      /\ UNCHANGED <<kind, db, appr, active, tokens, sess, tracked, events, old, done, used>>
  BY DEF Propose, persisted, Rest
<1>2. active \in Insts /\ b \in Objects BY <1>1 DEF RunsInv, Shape, Others
<1>3. o \in Objects /\ o.crit = b.crit /\ o.rec = b.rec BY <1>2, Proposal
<1> HIDE DEF o
<1>4. /\ obj' \in [Insts -> Objects]
      /\ \A j \in Insts : obj'[j].crit = obj[j].crit /\ obj'[j].rec = obj[j].rec
  BY <1>1, <1>2, <1>3, ObjectAlike
<1>5. /\ s \in Seq(StepNames)
      /\ \A x : Has(s, x) <=> x \in {"putApproval", "proposed", "reply"}
  <2>1. {"putApproval", "proposed", "reply"} \subseteq StepNames BY DEF StepNames
  <2> QED BY <2>1, HasThree
<1>6. r \in TaskRecords /\ r.todo = s /\ r.i = active /\ r.c = c
  <2>1. Idle = [todo |-> <<>>, i |-> 0, c |-> None, yes |-> FALSE, s |-> 0, snap |-> Blank]
    BY DEF Idle
  <2>2. Shot(o) \in Snap BY <1>3, Shots
  <2> HIDE DEF s
  <2> QED BY <1>2, <1>5, <2>1, <2>2 DEF TaskRecords
<1> HIDE DEF r
<1>7. /\ task' \in [Tasks -> TaskRecords] /\ task'["host"] = r
      /\ \A x \in Tasks \ {"host"} : task'[x] = task[x]
  BY <1>1, <1>6, HostTask DEF RunsInv, Shape
<1>8. task'["host"].todo = s /\ task'["host"].c = c /\ task'["host"].i = active BY <1>6, <1>7
<1> HIDE DEF s
<1>9. Sound("host")
  <2>1. active # 0 /\ ~Activates(s) BY <1>1, <1>5 DEF Activates
  <2>2. ~Has(s, "endCritical") BY <1>5
  <2>3. Once(s) BY <1>5, <2>2, OnceFree
  <2>4. Laid("host", s) BY <1>5, <2>3 DEF Laid, s
  <2> QED BY <1>6, <1>7, <1>8, <2>1, <2>4 DEF Sound
<1>10. ASSUME NEW x \in Tasks \ {"host"} PROVE Plain(x) /\ Kept(x)
  BY <1>4, <1>7, PlainSame, KeptAlike
<1>11. ProposedOnce' BY <1>1, <1>8 DEF ProposedOnce
<1>12. ~Has(task'["host"].todo, "endCritical") BY <1>5, <1>8
<1>13. \A k \in Calls : ~MayWrite("host", k)'
  <2>1. ~Executes(task'["host"].todo) BY <1>5, <1>8 DEF Executes
  <2>2. ~Has(task'["host"].todo, "decided") /\ ~Has(task'["host"].todo, "resolve")
    BY <1>5, <1>8
  <2> QED BY <2>1, <2>2 DEF MayWrite, Decides
<1>14. Others' BY <1>1 DEF RunsInv, Shape, Others, Sides
<1>15. Shape' BY <1>1, <1>4, <1>7, <1>14 DEF RunsInv, Shape
<1> QED BY <1>1, <1>9, <1>10, <1>11, <1>12, <1>13, <1>15, HostTask, OneGoesOn

\* A todo whose first step is known is one of those the invariant knows.
LEMMA KnownTodo ==
  ASSUME RunsInv, NEW t \in Tasks, task[t].todo # <<>>
  PROVE  LET s == task[t].todo
         IN  /\ s \in Seq(StepNames) /\ Has(s, Head(s))
             /\ Head(s) \in LaidMarks => task[t].c \in Calls
             /\ Head(s) = "putApproval" => t = "host" /\ s = <<"putApproval", "proposed", "reply">>
             /\ Head(s) = "begin" => t = "host" /\ s = <<"begin", "reply">>
             /\ Head(s) = "land" =>
                  \/ t = "host" /\ s = <<"land", "endCritical", "reply">>
                  \/ t \in Users /\ s = <<"land", "endCritical">>
             /\ Head(s) = "decide" => t \in Users /\ s = <<"decide">>
             /\ Head(s) = "consume" => t \in Users /\ s = Consuming
             /\ Head(s) = "decided" => t \in Users /\ s = Deciding
             /\ Head(s) = "resolve" => t \in Users /\ s = Resolving
<1> DEFINE s == task[t].todo
<1>1. s \in Seq(StepNames) BY DEF RunsInv, Shape, TaskRecords
<1>2. Has(s, Head(s)) BY <1>1, HasTail
<1>3. Laid(t, s) /\ \A m \in LaidMarks : Has(s, m) => task[t].c \in Calls
  BY DEF RunsInv, TodosLaid
<1> HIDE DEF s
<1>4. Head(s) = "putApproval" => t = "host" /\ s = <<"putApproval", "proposed", "reply">>
  BY <1>2, <1>3 DEF Laid
<1>5. Head(s) \in {"begin", "land"} =>
        \/ t = "host" /\ s \in Running
        \/ t \in Users /\ s \in Recovering
  BY <1>2, <1>3 DEF Laid
<1>6. /\ Head(<<"begin", "reply">>) = "begin"
      /\ Head(<<"check", "land", "endCritical", "reply">>) = "check"
      /\ Head(<<"land", "endCritical", "reply">>) = "land"
      /\ Head(<<"emit", "check", "land", "endCritical">>) = "emit"
      /\ Head(<<"check", "land", "endCritical">>) = "check"
      /\ Head(<<"land", "endCritical">>) = "land"
      /\ Head(Consuming) = "consume" /\ Head(Deciding) = "decided" /\ Head(Resolving) = "resolve"
      /\ Head(<<"decide">>) = "decide" /\ Head(<<"track", "decide">>) = "track"
      /\ Head(<<"reactivate", "track", "decide">>) = "reactivate"
  BY DEF Consuming, Deciding, Resolving
<1>7. Head(s) = "begin" => t = "host" /\ s = <<"begin", "reply">>
  BY <1>5, <1>6 DEF Running, Recovering
<1>8. Head(s) = "land" =>
        \/ t = "host" /\ s = <<"land", "endCritical", "reply">>
        \/ t \in Users /\ s = <<"land", "endCritical">>
  BY <1>5, <1>6 DEF Running, Recovering
<1>9. Head(s) = "decide" => t \in Users /\ s = <<"decide">>
  BY <1>2, <1>3, <1>6 DEF Laid, Asking
<1>10. Head(s) = "consume" => t \in Users /\ s = Consuming BY <1>2, <1>3 DEF Laid
<1>11. Head(s) = "decided" => t \in Users /\ s = Deciding
  <2>1. Head(s) = "decided" => t \in Users /\ s \in {Consuming, Deciding} BY <1>2, <1>3 DEF Laid
  <2> QED BY <1>6, <2>1
<1>12. Head(s) = "resolve" => t \in Users /\ s = Resolving
  <2>1. Head(s) = "resolve" => t \in Users /\ s \in {Consuming, Deciding, Resolving}
    BY <1>2, <1>3 DEF Laid
  <2> QED BY <1>6, <2>1
<1> QED BY <1>1, <1>2, <1>3, <1>4, <1>7, <1>8, <1>9, <1>10, <1>11, <1>12 DEF s

\* The approval is pending on the run.
LEMMA ProposedKeeps ==
  ASSUME RunsInv, Proposed
  PROVE  RunsInv'
<1> DEFINE t == "host"
           b == obj[task[t].i]
           o == [b EXCEPT !.pend = task[t].c]
<1>1. task[t].todo # <<>> /\ Head(task[t].todo) = "proposed" BY DEF Proposed, At
<1>2. task[t].i \in Insts /\ task[t].i # 0 /\ b \in Objects BY <1>1, HostTask, OnObject
<1>3. o \in Objects /\ o.crit = b.crit /\ o.rec = b.rec
  <2>1. task[t].c \in Calls \cup {None} BY HostTask DEF RunsInv, Shape, TaskRecords
  <2>2. task[t].c \in Pend BY <2>1 DEF Pend
  <2> HIDE DEF b
  <2>3. \A c \in Pend : /\ [b EXCEPT !.pend = c] \in Objects
                        /\ [b EXCEPT !.pend = c].crit = b.crit
                        /\ [b EXCEPT !.pend = c].rec = b.rec
    BY <1>2 DEF Objects
  <2> QED BY <2>2, <2>3
<1>4. /\ Throw(t) \/ Set(t, Tail(task[t].todo))
      /\ \/ obj' = [obj EXCEPT ![task[t].i] = o] /\ db' = Shot(o)
         \/ obj' = obj /\ db' = db
  BY DEF Proposed, EmitAs, Obj
<1>5. UNCHANGED <<kind, appr, active, tokens, sess, side, tracked, events, old, done, used>>
  BY DEF Proposed, Memory, Rest
<1>6. task' \in [Tasks -> TaskRecords] /\ \A x \in Tasks : Plain(x)
  BY <1>1, <1>2, <1>4, HostTask, StepPlain DEF Advance
<1> HIDE DEF o
<1> QED BY <1>2, <1>3, <1>4, <1>5, <1>6, HostTask, EmitStep

\* The answer of a host call
LEMMA ReplyKeeps ==
  ASSUME RunsInv, Reply
  PROVE  RunsInv'
<1>1. task["host"].todo # <<>> /\ Head(task["host"].todo) = "reply" /\ Advance("host")
  BY DEF Reply, At
<1>2. task["host"].i # 0 BY <1>1, HostTask, OnObject
<1>3. task' \in [Tasks -> TaskRecords] /\ \A x \in Tasks : Plain(x)
  BY <1>1, <1>2, HostTask, StepPlain
<1>4. /\ UNCHANGED <<kind, db, appr, obj, active, tokens, sess, tracked, old, done, used>>
      /\ side' \in {"suspended", "running", side}
      /\ events' \in {events, Append(events, "suspended")}
  BY DEF Reply, persisted, Rest
<1>5. events' \in Seq(EventNames)
  <2>1. events \in Seq(EventNames) /\ "suspended" \in EventNames
    BY DEF RunsInv, Shape, Others, EventNames
  <2>2. Append(events, "suspended") \in Seq(EventNames) BY <2>1
  <2> QED BY <1>4, <2>1, <2>2
<1>6. Others' BY <1>4, <1>5 DEF RunsInv, Shape, Others, Sides
<1> QED BY <1>3, <1>4, <1>6, QuietTasks

\* requireMutableRun
LEMMA CommandKeeps ==
  ASSUME RunsInv, NEW u \in Users, NEW op \in Ops, NEW c \in Calls \cup {None},
         op = "decide" => c \in Calls, NEW yes \in BOOLEAN, Command(u, op, c, yes)
  PROVE  RunsInv'
<1> DEFINE direct == active # 0 /\ obj[active].sess = sess
           s == IF direct THEN <<op>> ELSE <<"reactivate", "track", op>>
           i == IF direct THEN active ELSE 0
           r == [Idle EXCEPT !.i = i, !.c = c, !.yes = yes, !.s = sess, !.snap = db, !.todo = s]
<1>1. u \in Tasks /\ op \in StepNames /\ {"reactivate", "track"} \subseteq StepNames
  BY Apart DEF StepNames
<1>2. task' = [task EXCEPT ![u] = r] /\ used' = [used EXCEPT !.cmds = @ + 1] BY DEF Command
<1>3. UNCHANGED <<kind, db, appr, obj, active, tokens, sess, side, tracked, events, old, done>>
  BY DEF Command, persisted, Memory
<1>4. /\ s \in Seq(StepNames) /\ i \in Insts \cup {0}
      /\ \A x : Has(s, x) => x \in {"reactivate", "track", op}
  <2>1. CASE direct
    <3>1. s = <<op>> /\ i = active BY <2>1
    <3> QED BY <1>1, <3>1, HasFew DEF RunsInv, Shape, Others
  <2>2. CASE ~direct
    <3>1. s = <<"reactivate", "track", op>> /\ i = 0 BY <2>2
    <3> QED BY <1>1, <3>1, HasThree
  <2> QED BY <2>1, <2>2
<1>5. i # 0 => ~Activates(s)
  <2> SUFFICES ASSUME i # 0 PROVE ~Activates(s) OBVIOUS
  <2>1. direct BY DEF i
  <2>2. s = <<op>> BY <2>1
  <2>3. \A x : Has(s, x) <=> x = op BY <1>1, <2>2, HasFew
  <2> HIDE DEF s, i
  <2> QED BY <2>3 DEF Activates, Ops
<1>6. i = 0 => s \in Waiting
  <2> SUFFICES ASSUME i = 0 PROVE s \in Waiting OBVIOUS
  <2>1. ~direct BY DEF i
  <2>2. s = <<"reactivate", "track", op>> BY <2>1
  <2> HIDE DEF s, i
  <2> QED BY <2>2 DEF Waiting
<1>7. Has(s, "decide") => s \in Asking /\ c \in Calls
  <2> SUFFICES ASSUME Has(s, "decide") PROVE s \in Asking /\ c \in Calls OBVIOUS
  <2>1. op = "decide" BY <1>4
  <2> QED BY <2>1 DEF Asking
<1>8. \A m \in Marks : ~Has(s, m) BY <1>4 DEF Marks, LaidMarks, Ops
<1>9. Laid(u, s)
  <2>1. \A m \in LaidMarks : Has(s, m) => m = "decide" BY <1>8 DEF Marks
  <2>2. ~Has(s, "endCritical") BY <1>8 DEF Marks
  <2>3. Once(s) BY <1>4, <2>2, OnceFree
  <2> HIDE DEF s
  <2> QED BY <1>7, <2>1, <2>3 DEF Laid, LaidMarks
<1>10. r \in TaskRecords /\ r.todo = s /\ r.i = i /\ r.c = c
  <2>1. Idle = [todo |-> <<>>, i |-> 0, c |-> None, yes |-> FALSE, s |-> 0, snap |-> Blank]
    BY DEF Idle
  <2>2. sess \in Sessions \cup {0} /\ db \in Snap BY DEF RunsInv, Shape, Others
  <2> HIDE DEF s, i
  <2> QED BY <1>4, <2>1, <2>2 DEF TaskRecords
<1> HIDE DEF s, i, r, direct, Command
<1>11. r.i = 0 \/ Activates(r.todo) => r.todo \in Waiting BY <1>5, <1>6, <1>10
<1>12. task' \in [Tasks -> TaskRecords] /\ \A x \in Tasks : Plain(x)
  BY <1>1, <1>2, <1>7, <1>8, <1>9, <1>10, <1>11, LaunchedPlain
<1>13. used' \in Counts /\ used'.outs <= MaxOuts /\ used'.crashes <= MaxCrashes
  BY <1>2, Counted DEF RunsInv, Shape, Others
<1>14. Others' BY <1>3, <1>13 DEF RunsInv, Shape, Others
<1> QED BY <1>3, <1>12, <1>14, QuietTasks

\* The commands of the user
LEMMA CommandsKeep ==
  ASSUME RunsInv, NEW u \in Users, Commands(u)
  PROVE  RunsInv'
<1>1. ASSUME NEW c \in Calls, NEW yes \in BOOLEAN, Command(u, "decide", c, yes) PROVE RunsInv'
  <2>1. "decide" \in Ops /\ c \in Calls \cup {None} BY DEF Ops
  <2> QED BY <1>1, <2>1, CommandKeeps
<1>2. ASSUME NEW op \in {"cancel", "answer"}, Command(u, op, None, FALSE) PROVE RunsInv'
  <2>1. op \in Ops /\ op # "decide" /\ None \in Calls \cup {None} /\ FALSE \in BOOLEAN BY DEF Ops
  <2> QED BY <1>2, <2>1, CommandKeeps
<1> QED BY <1>1, <1>2 DEF Commands

\* The approval is stored.
LEMMA PutApprovalKeeps ==
  ASSUME RunsInv, PutApproval
  PROVE  RunsInv'
<1> DEFINE k == task["host"].c
           s == <<"proposed", "reply">>
<1>1. task["host"].todo # <<>> /\ Head(task["host"].todo) = "putApproval"
  BY DEF PutApproval, At
<1>2. /\ appr' = [appr EXCEPT ![k] = [st |-> "pending", rev |-> task["host"].snap.rev]]
      /\ Advance("host")
      /\ UNCHANGED <<kind, db, obj, active, tokens, sess, side, tracked, events, old, done, used>>
  BY DEF PutApproval, Memory, Rest
<1>3. /\ task["host"].todo = <<"putApproval", "proposed", "reply">> /\ k \in Calls
      /\ Has(task["host"].todo, "putApproval")
  BY <1>1, HostTask, KnownTodo DEF LaidMarks
<1>4. appr[k].st = None BY <1>3 DEF RunsInv, ProposedOnce
<1>5. Set("host", s) BY <1>2, <1>3, KnownTails DEF Advance
<1>6. task' \in [Tasks -> TaskRecords] /\ \A x \in Tasks : Plain(x)
  <2>1. task["host"].i # 0 BY <1>1, HostTask, OnObject
  <2> QED BY <1>1, <1>2, <2>1, HostTask, StepPlain
<1>7. /\ obj' \in [Insts -> Objects]
      /\ \A j \in Insts : obj'[j].crit = obj[j].crit /\ obj'[j].rec = obj[j].rec
  BY <1>2 DEF RunsInv, Shape
<1>8. \A x \in Tasks : Kept(x) BY <1>6, <1>7, KeptAlike
<1>9. \A x : Has(task'["host"].todo, x) <=> x \in {"proposed", "reply"}
  <2>1. s # <<>> OBVIOUS
  <2>2. task'["host"].todo = s BY <1>5, <2>1, HostTask, SetOthers
  <2> QED BY <2>2, KnownSteps
<1>10. /\ appr' \in [Calls -> Approvals] /\ \A c \in Calls \ {k} : appr'[c] = appr[c]
  <2>1. task["host"].snap.rev \in Nat
    <3>1. task["host"].snap \in Snap BY HostTask DEF RunsInv, Shape, TaskRecords
    <3> QED BY <3>1 DEF Snap
  <2> HIDE DEF k
  <2> QED BY <1>2, <1>3, <2>1 DEF RunsInv, Shape, Approvals
<1> HIDE DEF k, s
<1>11. Others' BY <1>2 DEF RunsInv, Shape, Others
<1>12. Shape' BY <1>2, <1>6, <1>7, <1>10, <1>11 DEF RunsInv, Shape
<1>13. ProposedOnce' BY <1>9 DEF ProposedOnce
<1>14. \A c \in Calls : ~MayWrite("host", c)'
  BY <1>9 DEF MayWrite, Executes, Decides
<1>15. ASSUME NEW c \in Calls, appr[c].st = "approved" PROVE appr'[c].st = "approved"
  BY <1>4, <1>10, <1>15 DEF None
<1>16. ASSUME NEW c \in Calls
       PROVE  /\ done'[c] <= 1
              /\ done'[c] > 0 => appr'[c].st = "approved"
              /\ c \in tokens' => appr'[c].st = "approved" /\ done'[c] = 0
              /\ MayWrite("host", c)' =>
                   /\ appr'[c].st = "approved" /\ done'[c] = 0 /\ c \notin tokens'
                   /\ \A x \in Tasks \ {"host"} : ~MayWrite(x, c)
              /\ \A x \in Tasks \ {"host"} : MayWrite(x, c) =>
                   appr'[c].st = "approved" /\ done'[c] = 0 /\ c \notin tokens'
  BY <1>2, <1>14, <1>15, HostTask DEF RunsInv, OneRight
<1>17. Sound("host") BY <1>6, HostTask DEF Plain
<1> QED BY <1>6, <1>8, <1>9, <1>12, <1>13, <1>16, <1>17, HostTask, OneActs

\* call
LEMMA CallToolKeeps ==
  ASSUME RunsInv, NEW k \in Calls, CallTool(k)
  PROVE  RunsInv'
<1> DEFINE s == <<"begin", "reply">>
           r == [Idle EXCEPT !.i = active, !.c = k, !.todo = s]
<1>1. UNCHANGED <<kind, appr, obj, active, sess, tracked, events, old, done, used>>
  BY DEF CallTool, Rest
<1>2. CASE side' = "running" /\ UNCHANGED <<task, tokens, db>>
  <2>1. Others' BY <1>1, <1>2 DEF RunsInv, Shape, Others, Sides
  <2> QED BY <1>1, <1>2, <2>1, QuietRest
<1>3. CASE /\ active # 0 /\ k \in tokens /\ side' = "calling" /\ tokens' = tokens \ {k}
           /\ db' = Shot(obj[active]) /\ task' = [task EXCEPT !["host"] = r]
  <2>1. active \in Insts /\ obj[active] \in Objects BY <1>3 DEF RunsInv, Shape, Others
  <2>2. db' \in Snap BY <1>3, <2>1, Shots
  <2>3. s \in Seq(StepNames) /\ \A x : Has(s, x) <=> x \in {"begin", "reply"}
    <3>1. {"begin", "reply"} \subseteq StepNames BY DEF StepNames
    <3> QED BY <3>1, HasTwo
  <2>4. r \in TaskRecords /\ r.todo = s /\ r.i = active /\ r.c = k
    <3>1. Idle = [todo |-> <<>>, i |-> 0, c |-> None, yes |-> FALSE, s |-> 0, snap |-> Blank]
      BY DEF Idle
    <3>2. Blank \in Snap BY Nothing
    <3> HIDE DEF s
    <3> QED BY <2>1, <2>3, <3>1, <3>2 DEF TaskRecords
  <2> HIDE DEF r
  <2>5. /\ task' \in [Tasks -> TaskRecords] /\ task'["host"] = r
        /\ \A x \in Tasks \ {"host"} : task'[x] = task[x]
    BY <1>3, <2>4, HostTask DEF RunsInv, Shape
  <2>6. task'["host"].todo = s /\ task'["host"].c = k /\ task'["host"].i = active
    BY <2>4, <2>5
  <2>7. s \in Running BY DEF Running
  <2> HIDE DEF s
  <2>8. Sound("host")
    <3>1. active # 0 /\ ~Activates(s) BY <1>3, <2>3 DEF Activates
    <3>2. ~Has(s, "endCritical") BY <2>3
    <3>3. Once(s) BY <2>3, <3>2, OnceFree
    <3>4. Laid("host", s) BY <2>3, <2>7, <3>3 DEF Laid
    <3> QED BY <2>4, <2>5, <2>6, <3>1, <3>4 DEF Sound
  <2>9. /\ obj' \in [Insts -> Objects]
        /\ \A j \in Insts : obj'[j].crit = obj[j].crit /\ obj'[j].rec = obj[j].rec
    BY <1>1 DEF RunsInv, Shape
  <2>10. ASSUME NEW x \in Tasks \ {"host"} PROVE Plain(x) /\ Kept(x)
    BY <2>5, <2>9, PlainSame, KeptAlike
  <2>11. ProposedOnce' BY <2>3, <2>6 DEF ProposedOnce
  <2>12. ~Has(task'["host"].todo, "endCritical") BY <2>3, <2>6
  <2>13. Others' BY <1>1, <1>3, <2>2 DEF RunsInv, Shape, Others, Sides
  <2>14. Shape' BY <1>1, <1>3, <2>5, <2>9, <2>13 DEF RunsInv, Shape
  <2>15. \A c \in Calls : MayWrite("host", c)' => c = k BY <2>6 DEF MayWrite
  <2>16. /\ appr[k].st = "approved" /\ done[k] = 0 /\ \A x \in Tasks : ~MayWrite(x, k)
    BY <1>3 DEF RunsInv, OneRight
  <2>17. ASSUME NEW c \in Calls
         PROVE  /\ done'[c] <= 1
                /\ done'[c] > 0 => appr'[c].st = "approved"
                /\ c \in tokens' => appr'[c].st = "approved" /\ done'[c] = 0
                /\ MayWrite("host", c)' =>
                     /\ appr'[c].st = "approved" /\ done'[c] = 0 /\ c \notin tokens'
                     /\ \A x \in Tasks \ {"host"} : ~MayWrite(x, c)
                /\ \A x \in Tasks \ {"host"} : MayWrite(x, c) =>
                     appr'[c].st = "approved" /\ done'[c] = 0 /\ c \notin tokens'
    <3>1. CASE c = k BY <1>1, <1>3, <2>16, <3>1
    <3>2. CASE c # k BY <1>1, <1>3, <2>15, <3>2 DEF RunsInv, OneRight
    <3> QED BY <3>1, <3>2
  <2> QED BY <2>8, <2>10, <2>11, <2>12, <2>14, <2>17, HostTask, OneActs
<1>4. Spent(k) = tokens \ {k} BY DEF Spent
<1> QED BY <1>2, <1>3, <1>4 DEF CallTool

\* A task begins a critical operation.
LEMMA BeganCritical ==
  ASSUME RunsInv, NEW t \in Tasks, task[t].i \in Insts, ~obj[task[t].i].crit,
         obj' = [obj EXCEPT ![task[t].i].crit = TRUE], task'[t].i = task[t].i,
         \A x \in Tasks \ {t} : Plain(x)
  PROVE  /\ obj' \in [Insts -> Objects] /\ obj'[task'[t].i].crit
         /\ \A j \in Insts : obj'[j].rec = obj[j].rec
         /\ \A x \in Tasks \ {t} : Kept(x)
         /\ \A x \in Tasks \ {t} : InCritical(x) => task[x].i # task'[t].i
<1> DEFINE i == task[t].i
<1>1. obj \in [Insts -> Objects] BY DEF RunsInv, Shape
<1>2. /\ [obj[i] EXCEPT !.crit = TRUE] \in Objects /\ [obj[i] EXCEPT !.crit = TRUE].crit
      /\ [obj[i] EXCEPT !.crit = TRUE].rec = obj[i].rec
  <2>1. \A o \in Objects : /\ [o EXCEPT !.crit = TRUE] \in Objects /\ [o EXCEPT !.crit = TRUE].crit
                           /\ [o EXCEPT !.crit = TRUE].rec = o.rec
    BY DEF Objects
  <2> QED BY <1>1, <2>1
<1>3. obj' = [obj EXCEPT ![i] = [obj[i] EXCEPT !.crit = TRUE]] OBVIOUS
<1>4. /\ obj' \in [Insts -> Objects] /\ obj'[i].crit /\ obj'[i].rec = obj[i].rec
      /\ \A j \in Insts \ {i} : obj'[j] = obj[j]
  <2> DEFINE o == [obj[i] EXCEPT !.crit = TRUE]
  <2>1. o \in Objects /\ o.crit /\ o.rec = obj[i].rec BY <1>2
  <2>2. obj' = [obj EXCEPT ![i] = o] BY <1>3
  <2> HIDE DEF o
  <2> QED BY <1>1, <2>1, <2>2
<1>5. \A j \in Insts : obj'[j].rec = obj[j].rec BY <1>4
<1>6. ASSUME NEW x \in Tasks \ {t} PROVE Kept(x)
  <2> SUFFICES ASSUME Has(task'[x].todo, "endCritical")
               PROVE  obj'[task'[x].i].crit /\ (obj'[task'[x].i].rec => obj[task'[x].i].rec)
    BY DEF Kept
  <2>1. task'[x].i = task[x].i /\ task[x].i \in Insts /\ obj[task[x].i].crit BY StillCritical
  <2> QED BY <1>4, <1>5, <2>1
<1>7. ASSUME NEW x \in Tasks \ {t}, InCritical(x) PROVE task[x].i # task'[t].i
  BY <1>7 DEF RunsInv, CriticalHeld
<1> QED BY <1>4, <1>5, <1>6, <1>7

\* beginCriticalOperation, of a host call
LEMMA BeginToolKeeps ==
  ASSUME RunsInv, BeginTool
  PROVE  RunsInv'
<1> DEFINE t == "host"
           s == <<"check", "land", "endCritical", "reply">>
<1>1. task[t].todo # <<>> /\ Head(task[t].todo) = "begin" BY DEF BeginTool, At
<1>2. task[t].i \in Insts /\ task[t].i # 0 BY <1>1, HostTask, OnObject
<1>3. UNCHANGED <<kind, db, appr, active, tokens, sess, side, tracked, events, old, done, used>>
  BY DEF BeginTool, persisted, Memory, Rest
<1>4. Others' BY <1>3 DEF RunsInv, Shape, Others
<1>5. CASE Throw(t) /\ UNCHANGED obj
  <2>1. task' \in [Tasks -> TaskRecords] /\ \A x \in Tasks : Plain(x)
    BY <1>1, <1>5, HostTask, ThrowPlain
  <2> QED BY <1>3, <1>4, <1>5, <2>1, QuietTasks
<1>6. CASE /\ ~obj[task[t].i].crit /\ obj' = [obj EXCEPT ![task[t].i].crit = TRUE]
           /\ Set(t, s)
  <2>1. /\ s \in Seq(StepNames) /\ s # <<>>
        /\ \A x : Has(s, x) <=> x \in {"check", "land", "endCritical", "reply"}
    <3>1. {"check", "land", "endCritical", "reply"} \subseteq StepNames BY DEF StepNames
    <3> QED BY <3>1, HasFour
  <2>2. Once(s)
    <3>1. /\ Len(s) = 4 /\ s[1] = "check" /\ s[2] = "land" /\ s[4] = "reply" OBVIOUS
    <3>2. 1..4 = {1, 2, 3, 4} OBVIOUS
    <3> HIDE DEF s
    <3> QED BY <3>1, <3>2 DEF Once
  <2>3. s \in Running BY DEF Running
  <2> HIDE DEF s
  <2>4. /\ task' \in [Tasks -> TaskRecords] /\ task'[t].todo = s /\ task'[t].i = task[t].i
        /\ task'[t].c = task[t].c /\ \A x \in Tasks \ {t} : Plain(x)
    BY <1>6, <2>1, HostTask, SetOthers
  <2>5. /\ obj' \in [Insts -> Objects] /\ obj'[task'[t].i].crit
        /\ \A x \in Tasks \ {t} : Kept(x)
        /\ \A x \in Tasks \ {t} : InCritical(x) => task[x].i # task'[t].i
    BY <1>2, <1>6, <2>4, HostTask, BeganCritical
  <2>6. Has(task[t].todo, "begin") /\ task[t].c \in Calls
    BY <1>1, HostTask, KnownTodo DEF LaidMarks
  <2>7. Sound(t)
    <3>1. ~Activates(s) BY <2>1 DEF Activates
    <3>2. Laid(t, s) BY <2>1, <2>2, <2>3 DEF Laid
    <3> QED BY <1>2, <2>4, <2>6, <3>1, <3>2, HostTask DEF Sound
  <2>8. ProposedOnce' BY <2>1, <2>4 DEF ProposedOnce
  <2>9. \A c \in Calls : MayWrite(t, c)' => MayWrite(t, c)
    BY <2>4, <2>6 DEF MayWrite, Executes
  <2>10. Shape' BY <1>3, <1>4, <2>4, <2>5 DEF RunsInv, Shape
  <2>11. task'[t].i \in Insts BY <1>2, <2>4
  <2> QED BY <1>3, <2>4, <2>5, <2>7, <2>8, <2>9, <2>10, <2>11, HostTask, OneGoesOn
<1> QED BY <1>5, <1>6, Joined DEF BeginTool, CriticalSettled

\* The executor's write
LEMMA ExecuteToolKeeps ==
  ASSUME RunsInv, NEW t \in Tasks, ExecuteTool(t)
  PROVE  RunsInv'
<1> DEFINE k == task[t].c
<1>1. task[t].todo # <<>> /\ Head(task[t].todo) = "land" BY DEF ExecuteTool, At
<1>2. task[t].i # 0 BY <1>1, OnObject
<1>3. UNCHANGED <<kind, db, appr, obj, active, tokens, sess, side, tracked, events, old>>
  BY DEF ExecuteTool, persisted, Memory
<1>4. k \in Calls /\ Has(task[t].todo, "land") BY <1>1, KnownTodo DEF LaidMarks
<1>5. Has(task[t].todo, "endCritical")
  <2>1. task[t].todo \in Running \cup Recovering BY <1>4 DEF RunsInv, TodosLaid, Laid
  <2>2. task[t].todo # <<"begin", "reply">> BY <1>1
  <2> QED BY <2>1, <2>2, KnownSteps
<1>6. ASSUME NEW ok \in BOOLEAN, Set(t, AfterTool(t, ok))
      PROVE  /\ task' \in [Tasks -> TaskRecords] /\ \A x \in Tasks : Plain(x)
             /\ \A m \in LaidMarks : ~Has(task'[t].todo, m)
  <2> DEFINE s == AfterTool(t, ok)
  <2>1. /\ s \in Seq(StepNames) /\ Once(s)
        /\ \A x : Has(s, x) => x \in {"emit", "endCritical", "reply", "assert", "failed",
                                      "putComplete", "complete", "finish"}
    BY AfterSteps
  <2>2. Set(t, s) BY <1>6
  <2>3. s # <<>>
    <3> DEFINE b == IF t = "host" THEN <<"endCritical", "reply">>
                    ELSE (IF ok THEN <<"assert">> \o Completing ELSE <<"failed">>)
                           \o <<"endCritical">>
    <3>1. s = <<"emit">> \o b BY DEF AfterTool
    <3>2. b \in Seq(StepNames)
      <4>1. {"endCritical", "reply", "failed"} \subseteq StepNames BY DEF StepNames
      <4>2. <<"endCritical", "reply">> \in Seq(StepNames) BY <4>1, HasTwo
      <4>3. <<"failed">> \in Seq(StepNames) /\ <<"endCritical">> \in Seq(StepNames)
        BY <4>1, HasFew
      <4> DEFINE a == IF ok THEN <<"assert">> \o Completing ELSE <<"failed">>
      <4>4. a \in Seq(StepNames) BY <4>3, Asserting
      <4>5. b = IF t = "host" THEN <<"endCritical", "reply">> ELSE a \o <<"endCritical">>
        OBVIOUS
      <4> HIDE DEF a, b
      <4>6. a \o <<"endCritical">> \in Seq(StepNames) BY <4>3, <4>4, HasConcat
      <4> QED BY <4>2, <4>5, <4>6
    <3>3. <<"emit">> \in Seq(StepNames) /\ \A x : Has(<<"emit">>, x) <=> x = "emit"
      <4>1. "emit" \in StepNames BY DEF StepNames
      <4> QED BY <4>1, HasFew
    <3> HIDE DEF s, b
    <3>4. Has(s, "emit") BY <3>1, <3>2, <3>3, HasConcat
    <3> QED BY <3>4, HasFew
  <2> HIDE DEF s
  <2>4. \A m \in LaidMarks : ~Has(s, m) BY <2>1 DEF LaidMarks
  <2>5. ~Activates(s) BY <2>1 DEF Activates
  <2>6. task'[t].todo = s BY <2>2, <2>3, SetOthers
  <2> QED BY <1>2, <1>5, <2>1, <2>2, <2>4, <2>5, <2>6, SetFree
<1>7. CASE /\ used' = [used EXCEPT !.faults = @ + 1] /\ UNCHANGED done
           /\ Set(t, AfterTool(t, FALSE))
  <2>1. Others BY DEF RunsInv, Shape
  <2>2. used' \in Counts /\ used'.outs <= MaxOuts /\ used'.crashes <= MaxCrashes
    BY <1>7, <2>1, Counted
  <2>3. Others' BY <1>3, <2>1, <2>2 DEF Others
  <2>4. task' \in [Tasks -> TaskRecords] /\ \A x \in Tasks : Plain(x) BY <1>6, <1>7
  <2> QED BY <1>3, <1>7, <2>3, <2>4, QuietTasks
<1>8. CASE /\ done' = [done EXCEPT ![k] = done[k] + 1] /\ UNCHANGED used
           /\ Set(t, AfterTool(t, TRUE))
  <2>1. /\ task' \in [Tasks -> TaskRecords] /\ \A x \in Tasks : Plain(x)
        /\ \A m \in LaidMarks : ~Has(task'[t].todo, m)
    BY <1>6, <1>8
  <2>2. /\ obj' \in [Insts -> Objects]
        /\ \A j \in Insts : obj'[j].crit = obj[j].crit /\ obj'[j].rec = obj[j].rec
    BY <1>3 DEF RunsInv, Shape
  <2>3. \A x \in Tasks : Kept(x) BY <2>1, <2>2, KeptAlike
  <2>4. MayWrite(t, k) BY <1>4 DEF MayWrite, Executes
  <2>5. /\ appr[k].st = "approved" /\ done[k] = 0 /\ k \notin tokens
        /\ \A x \in Tasks \ {t} : ~MayWrite(x, k)
    BY <1>4, <2>4 DEF RunsInv, OneRight
  <2> HIDE DEF k
  <2>6. /\ done' \in [Calls -> Nat] /\ done'[k] = 1
        /\ \A c \in Calls \ {k} : done'[c] = done[c]
    BY <1>4, <1>8, <2>5 DEF RunsInv, Shape
  <2>7. \A c \in Calls : ~MayWrite(t, c)'
    BY <2>1 DEF MayWrite, Executes, Decides, LaidMarks
  <2>8. Others' BY <1>3, <1>8 DEF RunsInv, Shape, Others
  <2>9. Shape' BY <1>3, <2>1, <2>2, <2>6, <2>8 DEF RunsInv, Shape
  <2>10. ProposedOnce'
    <3>1. Has(task'["host"].todo, "putApproval") =>
            /\ Has(task["host"].todo, "putApproval") /\ task'["host"].c = task["host"].c
      BY <2>1, HostTask DEF Plain, Marks, LaidMarks
    <3> QED BY <1>3, <3>1 DEF RunsInv, ProposedOnce
  <2>11. ASSUME Has(task'[t].todo, "endCritical")
         PROVE  /\ task'[t].i \in Insts /\ obj'[task'[t].i].crit
                /\ \A x \in Tasks \ {t} : InCritical(x) => task[x].i # task'[t].i
    <3>1. /\ InCritical(t) /\ task'[t].i = task[t].i /\ task[t].i \in Insts
          /\ obj[task[t].i].crit
      BY <2>1, <2>11, StillCritical
    <3> QED BY <2>2, <3>1 DEF RunsInv, CriticalHeld
  <2>12. ASSUME NEW c \in Calls
         PROVE  /\ done'[c] <= 1
                /\ done'[c] > 0 => appr'[c].st = "approved"
                /\ c \in tokens' => appr'[c].st = "approved" /\ done'[c] = 0
                /\ MayWrite(t, c)' =>
                     /\ appr'[c].st = "approved" /\ done'[c] = 0 /\ c \notin tokens'
                     /\ \A x \in Tasks \ {t} : ~MayWrite(x, c)
                /\ \A x \in Tasks \ {t} : MayWrite(x, c) =>
                     appr'[c].st = "approved" /\ done'[c] = 0 /\ c \notin tokens'
    <3>1. CASE c = k BY <1>3, <2>5, <2>6, <2>7, <3>1
    <3>2. CASE c # k BY <1>3, <2>6, <2>7, <3>2 DEF RunsInv, OneRight
    <3> QED BY <3>1, <3>2
  <2>13. Sound(t) BY <2>1 DEF Plain
  <2> QED BY <2>1, <2>3, <2>9, <2>10, <2>11, <2>12, <2>13, OneActs
<1> QED BY <1>7, <1>8 DEF ExecuteTool

\* decideAgentToolApproval up to the compare-and-set
LEMMA BeginDecisionKeeps ==
  ASSUME RunsInv, NEW u \in Users, BeginDecision(u)
  PROVE  RunsInv'
<1> DEFINE a == <<"consume", "decided", "resolve">>
           k == task[u].c
<1>1. u \in Tasks /\ u # "host" BY Apart
<1>2. task[u].todo # <<>> /\ Head(task[u].todo) = "decide" BY DEF BeginDecision, At
<1>3. task[u].i \in Insts /\ task[u].i # 0 BY <1>1, <1>2, OnObject
<1>4. UNCHANGED <<kind, db, appr, active, tokens, sess, side, tracked, events, old, done, used>>
  BY DEF BeginDecision, persisted, Memory, Rest
<1>5. Others' BY <1>4 DEF RunsInv, Shape, Others
<1>6. k \in Calls BY <1>1, <1>2, KnownTodo DEF LaidMarks
<1>7. CASE Throw(u) /\ UNCHANGED obj
  <2>1. task' \in [Tasks -> TaskRecords] /\ \A x \in Tasks : Plain(x)
    BY <1>1, <1>2, <1>7, ThrowPlain
  <2> QED BY <1>4, <1>5, <1>7, <2>1, QuietTasks
<1>8. ASSUME NEW s \in {Consuming, <<"endCritical">>}, Set(u, s), ~obj[task[u].i].crit,
             obj' = [obj EXCEPT ![task[u].i].crit = TRUE]
      PROVE  RunsInv'
  <2>1. /\ s \in Seq(StepNames) /\ s # <<>> /\ Once(s) /\ Has(s, "endCritical")
        /\ \A x : Has(s, x) => x \in {"consume", "decided", "resolve", "endCritical"}
        /\ (s = Consuming /\ Has(s, "consume")) \/ s = <<"endCritical">>
    <3>1. {"consume", "decided", "resolve", "endCritical"} \subseteq StepNames BY DEF StepNames
    <3>2. <<"endCritical">> \in Seq(StepNames) /\ Once(<<"endCritical">>) BY <3>1, HasFew
    <3>3. Consuming \in Seq(StepNames) BY <3>1, HasFour DEF Consuming
    <3>4. Once(Consuming)
      <4>1. /\ Len(Consuming) = 4 /\ Consuming[1] = "consume" /\ Consuming[2] = "decided"
            /\ Consuming[3] = "resolve"
        BY DEF Consuming
      <4>2. 1..4 = {1, 2, 3, 4} OBVIOUS
      <4> QED BY <4>1, <4>2 DEF Once
    <3>5. Has(Consuming, "consume") /\ Has(Consuming, "endCritical") BY KnownSteps
    <3>6. /\ \A x : Has(Consuming, x) => x \in {"consume", "decided", "resolve", "endCritical"}
          /\ \A x : Has(<<"endCritical">>, x) <=> x = "endCritical"
      BY KnownSteps
    <3>7. s # <<>> BY <3>5, <3>6, HasFew
    <3> QED BY <3>2, <3>3, <3>4, <3>5, <3>6, <3>7
  <2>2. /\ task' \in [Tasks -> TaskRecords] /\ task'[u].todo = s /\ task'[u].i = task[u].i
        /\ task'[u].c = task[u].c
        /\ \A x \in Tasks \ {u} : task'[x] = task[x] /\ Plain(x)
    BY <1>1, <1>8, <2>1, SetOthers
  <2>3. /\ obj' \in [Insts -> Objects] /\ obj'[task'[u].i].crit
        /\ \A x \in Tasks \ {u} : Kept(x)
        /\ \A x \in Tasks \ {u} : InCritical(x) => task[x].i # task'[u].i
    BY <1>1, <1>3, <1>8, <2>2, BeganCritical
  <2>4. Sound(u)
    <3>1. ~Activates(s) BY <2>1 DEF Activates
    <3>2. Laid(u, s)
      <4>1. CASE s = Consuming
        <5>1. \A x : Has(s, x) => x \in {"consume", "decided", "resolve", "endCritical"}
          BY <2>1
        <5> QED BY <2>1, <4>1, <5>1 DEF Laid
      <4>2. CASE s = <<"endCritical">>
        <5>1. \A x : Has(s, x) <=> x = "endCritical" BY <4>2, KnownSteps
        <5>2. \A m \in LaidMarks : ~Has(s, m) BY <5>1 DEF LaidMarks
        <5> QED BY <2>1, <5>2, LaidFree
      <4> QED BY <2>1, <4>1, <4>2
    <3> QED BY <1>1, <1>3, <1>6, <2>2, <3>1, <3>2 DEF Sound
  <2>5. ProposedOnce'
    <3>1. task'["host"] = task["host"] BY <1>1, <2>2, HostTask
    <3> QED BY <1>4, <3>1 DEF RunsInv, ProposedOnce
  <2>6. ASSUME NEW c \in Calls PROVE ~MayWrite(u, c)'
    <3>1. ~Executes(s) BY <2>1 DEF Executes
    <3>2. Has(s, "consume") \/ (~Has(s, "decided") /\ ~Has(s, "resolve"))
      <4>1. \A x : Has(<<"endCritical">>, x) <=> x = "endCritical" BY KnownSteps
      <4> QED BY <2>1, <4>1
    <3> QED BY <2>2, <3>1, <3>2 DEF MayWrite, Decides
  <2>7. Shape' BY <1>4, <1>5, <2>2, <2>3 DEF RunsInv, Shape
  <2>8. task'[u].i \in Insts BY <1>3, <2>2
  <2> QED BY <1>1, <1>4, <2>2, <2>3, <2>4, <2>5, <2>6, <2>7, <2>8, OneGoesOn
<1>9. CASE /\ ~obj[task[u].i].crit /\ obj' = [obj EXCEPT ![task[u].i].crit = TRUE]
           /\ Set(u, (IF appr[k].st = "pending" THEN a ELSE <<>>) \o <<"endCritical">>)
  <2>1. CASE appr[k].st = "pending"
    <3>1. Set(u, Consuming) BY <1>9, <2>1, Joined
    <3> QED BY <1>8, <1>9, <3>1
  <2>2. CASE appr[k].st # "pending"
    <3>1. Set(u, <<"endCritical">>) BY <1>9, <2>2, Joined
    <3> QED BY <1>8, <1>9, <3>1
  <2> QED BY <2>1, <2>2
<1> QED BY <1>7, <1>9 DEF BeginDecision, CriticalSettled

\* AgentToolPolicy.decide
LEMMA ConsumeApprovalKeeps ==
  ASSUME RunsInv, NEW u \in Users, ConsumeApproval(u)
  PROVE  RunsInv'
<1> DEFINE k == task[u].c
           next == IF k \in old THEN "expired" ELSE IF task[u].yes THEN "approved" ELSE "denied"
           s == task[u].todo
<1>1. u \in Tasks /\ u # "host" BY Apart
<1>2. s # <<>> /\ Head(s) = "consume" BY DEF ConsumeApproval, At
<1>3. task[u].i \in Insts /\ task[u].i # 0 BY <1>1, <1>2, OnObject
<1>4. k \in Calls /\ s = Consuming BY <1>1, <1>2, KnownTodo DEF LaidMarks
<1>5. UNCHANGED <<kind, db, obj, active, tokens, sess, side, tracked, events, old, done, used>>
  BY DEF ConsumeApproval, Memory, Rest
<1>6. Others' BY <1>5 DEF RunsInv, Shape, Others
<1>7. CASE Throw(u) /\ UNCHANGED appr
  <2>1. task' \in [Tasks -> TaskRecords] /\ \A x \in Tasks : Plain(x)
    BY <1>1, <1>2, <1>7, ThrowPlain
  <2> QED BY <1>5, <1>6, <1>7, <2>1, QuietTasks
<1>8. CASE /\ appr[k].st = "pending" /\ appr' = [appr EXCEPT ![k].st = next]
           /\ \/ k \in old /\ Throw(u)
              \/ k \notin old /\ Advance(u)
  <2>1. /\ appr' \in [Calls -> Approvals] /\ appr'[k].st = next
        /\ \A c \in Calls \ {k} : appr'[c] = appr[c]
    <3>1. next \in {"expired", "approved", "denied"} OBVIOUS
    <3>2. appr \in [Calls -> Approvals] BY DEF RunsInv, Shape
    <3> DEFINE a == [appr[k] EXCEPT !.st = next]
    <3>3. a \in Approvals /\ a.st = next
      <4> HIDE DEF next
      <4>1. \A r \in Approvals :
               [r EXCEPT !.st = next] \in Approvals /\ [r EXCEPT !.st = next].st = next
        BY <3>1 DEF Approvals
      <4>2. appr[k] \in Approvals BY <1>4, <3>2
      <4> QED BY <4>1, <4>2
    <3>4. appr' = [appr EXCEPT ![k] = a] BY <1>8
    <3> HIDE DEF a, k, next
    <3> QED BY <1>4, <3>2, <3>3, <3>4
  <2>2. \A c \in Calls : appr[c].st = "approved" => c # k /\ appr'[c].st = "approved"
    BY <1>8, <2>1
  <2>3. /\ task' = [x \in Tasks |-> task'[x]] /\ Sound(u)
        /\ \A x \in Tasks \ {u} : Plain(x) /\ Kept(x) /\ task'[x] = task[x]
        /\ task' \in [Tasks -> TaskRecords]
        /\ Has(task'[u].todo, "endCritical") => task'[u].i = task[u].i
        /\ \A c \in Calls : MayWrite(u, c)' => c = k /\ k \notin old /\ task[u].yes
    <3>1. ASSUME NEW x \in Tasks \ {u}, task'[x] = task[x] PROVE Plain(x) /\ Kept(x)
      <4>1. Plain(x) BY <3>1, PlainSame
      <4>2. \A j \in Insts : obj'[j].crit = obj[j].crit /\ obj'[j].rec = obj[j].rec BY <1>5
      <4> QED BY <4>1, <4>2, KeptAlike
    <3>2. \A x : Has(s, x) <=> x \in {"consume", "decided", "resolve", "endCritical"}
      BY <1>4, KnownSteps
    <3>3. task \in [Tasks -> TaskRecords] BY DEF RunsInv, Shape
    <3>4. CASE k \in old /\ Throw(u)
      <4>1. task' \in [Tasks -> TaskRecords] /\ \A x \in Tasks : Plain(x)
        BY <1>1, <1>2, <3>4, ThrowPlain
      <4>2. \A x \in Tasks \ {u} : task'[x] = task[x]
        <5>1. \E n : Set(u, n) BY <3>4 DEF Throw
        <5> QED BY <3>3, <5>1 DEF Set
      <4>3. Has(task'[u].todo, "endCritical") => task'[u].i = task[u].i
        BY <1>1, <4>1, StillCritical
      <4>4. \A c \in Calls : ~MayWrite(u, c)'
        <5>1. \A m \in LaidMarks : ~Has(task'[u].todo, m)
          <6> DEFINE n == Unwound(Tail(s))
          <6>1. s \in Seq(StepNames) BY <1>1, <3>3 DEF TaskRecords
          <6>2. Tail(s) \in Seq(StepNames) BY <1>2, <6>1, HasTail
          <6>3. \A x : Has(n, x) => x \in {"endCritical", "reply"} BY <6>2, UnwoundSteps
          <6>4. task'[u] = IF n = <<>> THEN Idle ELSE [task[u] EXCEPT !.todo = n]
            BY <1>1, <3>3, <3>4 DEF Throw, Set
          <6> HIDE DEF n
          <6>5. task'[u].todo = n \/ task'[u].todo = <<>>
            <7>1. CASE n = <<>> BY <6>4, <7>1, Nothing
            <7>2. CASE n # <<>> BY <1>1, <3>3, <6>4, <7>2 DEF TaskRecords
            <7> QED BY <7>1, <7>2
          <6> QED BY <6>3, <6>5, HasFew DEF LaidMarks
        <5> QED BY <5>1 DEF MayWrite, Executes, Decides, LaidMarks
      <4> QED BY <3>1, <4>1, <4>2, <4>3, <4>4, <1>1 DEF Plain
    <3>5. CASE k \notin old /\ Advance(u)
      <4>1. Set(u, Deciding) BY <1>4, <3>5, KnownTails DEF Advance
      <4>2. Deciding # <<>> BY DEF Deciding
      <4>3. Deciding \in Seq(StepNames)
        <5>1. {"decided", "resolve", "endCritical"} \subseteq StepNames BY DEF StepNames
        <5> QED BY <5>1, HasThree DEF Deciding
      <4>4. /\ task' = [x \in Tasks |-> task'[x]] /\ task'[u].todo = Deciding
            /\ task'[u].i = task[u].i /\ task'[u].c = task[u].c /\ task'[u].yes = task[u].yes
            /\ task' \in [Tasks -> TaskRecords]
            /\ \A x \in Tasks \ {u} : task'[x] = task[x]
        BY <1>1, <4>1, <4>2, <4>3, SetOthers
      <4>5. \A x : Has(Deciding, x) <=> x \in {"decided", "resolve", "endCritical"}
        BY KnownSteps
      <4>6. Laid(u, Deciding)
        <5>1. Laid(u, s) BY <1>1 DEF RunsInv, TodosLaid
        <5>2. s \in Seq(StepNames) BY <1>1, <3>3 DEF TaskRecords
        <5>3. Laid(u, Tail(s)) BY <1>2, <5>1, <5>2, LaidTail
        <5> QED BY <1>4, <5>3, KnownTails
      <4>7. ~Activates(Deciding) BY <4>5 DEF Activates
      <4>8. Sound(u) BY <1>1, <1>3, <1>4, <4>4, <4>6, <4>7 DEF Sound
      <4>9. ASSUME NEW c \in Calls, MayWrite(u, c)' PROVE c = k /\ task[u].yes
        <5>1. ~Executes(Deciding) BY <4>5 DEF Executes
        <5> QED BY <4>4, <4>9, <5>1 DEF MayWrite, Decides
      <4> QED BY <3>1, <3>5, <4>4, <4>8, <4>9
    <3> QED BY <1>8, <3>4, <3>5
  <2> HIDE DEF s
  <2>4. Shape' BY <1>5, <1>6, <2>1, <2>3 DEF RunsInv, Shape
  <2>5. ProposedOnce'
    <3>1. task'["host"] = task["host"] BY <1>1, <2>3, HostTask
    <3>2. ASSUME Has(task["host"].todo, "putApproval") PROVE appr'[task["host"].c].st = None
      <4>1. appr[task["host"].c].st = None BY <3>2 DEF RunsInv, ProposedOnce
      <4>2. task["host"].c \in Calls BY <3>2, HostTask DEF RunsInv, TodosLaid, LaidMarks
      <4>3. task["host"].c # k BY <1>8, <4>1 DEF None
      <4> QED BY <2>1, <4>1, <4>2, <4>3
    <3> QED BY <3>1, <3>2 DEF ProposedOnce
  <2>6. /\ task[u].i \in Insts /\ obj[task[u].i].crit
        /\ \A x \in Tasks \ {u} : InCritical(x) => task[x].i # task[u].i
    <3>1. InCritical(u) BY <1>4, KnownSteps DEF InCritical, s
    <3> QED BY <1>1, <3>1 DEF RunsInv, CriticalHeld
  <2>7. Has(task'[u].todo, "endCritical") =>
          /\ task'[u].i \in Insts /\ obj'[task'[u].i].crit
          /\ \A x \in Tasks \ {u} : InCritical(x) => task[x].i # task'[u].i
    BY <1>5, <2>3, <2>6
  <2>8. done[k] <= 1 /\ ~(done[k] > 0) /\ k \notin tokens /\ \A x \in Tasks : ~MayWrite(x, k)
    BY <1>4, <1>8 DEF RunsInv, OneRight
  <2>9. done[k] = 0 BY <1>4, <2>8 DEF RunsInv, Shape
  <2>10. ASSUME NEW c \in Calls
         PROVE  /\ done'[c] <= 1
                /\ done'[c] > 0 => appr'[c].st = "approved"
                /\ c \in tokens' => appr'[c].st = "approved" /\ done'[c] = 0
                /\ MayWrite(u, c)' =>
                     /\ appr'[c].st = "approved" /\ done'[c] = 0 /\ c \notin tokens'
                     /\ \A x \in Tasks \ {u} : ~MayWrite(x, c)
                /\ \A x \in Tasks \ {u} : MayWrite(x, c) =>
                     appr'[c].st = "approved" /\ done'[c] = 0 /\ c \notin tokens'
    <3>1. CASE c = k
      <4>1. MayWrite(u, c)' => appr'[k].st = "approved" BY <2>1, <2>3
      <4> QED BY <1>5, <2>8, <2>9, <3>1, <4>1
    <3>2. CASE c # k BY <1>5, <2>2, <2>3, <3>2 DEF RunsInv, OneRight
    <3> QED BY <3>1, <3>2
  <2> QED BY <1>1, <2>3, <2>4, <2>5, <2>7, <2>10, OneActs
<1> QED BY <1>7, <1>8 DEF ConsumeApproval, CompareAndSet

\* The decision is emitted, and the call may be executed.
LEMMA DecidedKeeps ==
  ASSUME RunsInv, NEW u \in Users, Decided(u)
  PROVE  RunsInv'
<1> DEFINE k == task[u].c
           b == obj[task[u].i]
           o == [b EXCEPT !.rev = b.rev + 1, !.status = "running", !.pend = None]
           s == task[u].todo
<1>1. u \in Tasks /\ u # "host" BY Apart
<1>2. s # <<>> /\ Head(s) = "decided" BY DEF Decided, At
<1>3. task[u].i \in Insts /\ task[u].i # 0 /\ b \in Objects BY <1>1, <1>2, OnObject
<1>4. k \in Calls /\ s = Deciding BY <1>1, <1>2, KnownTodo DEF LaidMarks
<1>5. UNCHANGED <<kind, appr, active, sess, side, tracked, events, old, done, used>>
  BY DEF Decided
<1>6. o \in Objects /\ o.crit = b.crit /\ o.rec = b.rec
  <2>1. "running" \in Statuses /\ None \in Pend BY DEF Statuses, Unfinished, Pend
  <2>2. b.rev \in Nat /\ b.rev + 1 \in Nat BY <1>3 DEF Objects
  <2> DEFINE r == b.rev + 1
  <2>3. r \in Nat BY <2>2
  <2> HIDE DEF b, r
  <2>4. LET n == [b EXCEPT !.rev = r, !.status = "running", !.pend = None]
        IN  n \in Objects /\ n.crit = b.crit /\ n.rec = b.rec
    BY <1>3, <2>1, <2>3 DEF Objects
  <2> QED BY <2>4 DEF r
<1>7. /\ Advance(u) \/ Throw(u)
      /\ \/ obj' = [obj EXCEPT ![task[u].i] = o] /\ db' = Shot(o)
         \/ obj' = obj /\ db' = db
      /\ tokens' = tokens \/ (Advance(u) /\ tokens' = Token(u))
  BY DEF Decided, EmitAs, Obj, Advance
<1> HIDE DEF o, Decided
<1>8. task' \in [Tasks -> TaskRecords] /\ \A x \in Tasks : Plain(x)
  BY <1>1, <1>2, <1>3, <1>7, StepPlain
<1>9. CASE tokens' = tokens
  BY <1>1, <1>3, <1>5, <1>6, <1>7, <1>8, <1>9, EmitStep
<1>10. CASE Advance(u) /\ task[u].yes /\ ~b.rec /\ tokens' = tokens \cup {k}
  <2>1. /\ obj' \in [Insts -> Objects]
        /\ \A j \in Insts : obj'[j].crit = obj[j].crit /\ obj'[j].rec = obj[j].rec
    <3>1. CASE obj' = obj BY <3>1 DEF RunsInv, Shape
    <3>2. CASE obj' = [obj EXCEPT ![task[u].i] = o] BY <1>3, <1>6, <3>2, ObjectAlike
    <3> QED BY <1>7, <3>1, <3>2
  <2>2. \A x \in Tasks : Kept(x) BY <1>8, <2>1, KeptAlike
  <2>3. db' \in Snap BY <1>6, <1>7, Shots DEF RunsInv, Shape, Others
  <2>4. Others' BY <1>5, <2>3 DEF RunsInv, Shape, Others
  <2>5. MayWrite(u, k)
    <3>1. Has(s, "decided") /\ ~Has(s, "consume") BY <1>4, KnownSteps
    <3> QED BY <1>10, <3>1 DEF MayWrite, Decides
  <2>6. /\ appr[k].st = "approved" /\ done[k] = 0
        /\ \A x \in Tasks \ {u} : ~MayWrite(x, k)
    BY <1>1, <1>4, <2>5 DEF RunsInv, OneRight
  <2>7. \A c \in Calls : ~MayWrite(u, c)'
    <3>1. Set(u, Resolving) BY <1>4, <1>10, KnownTails DEF Advance
    <3>2. Resolving # <<>> BY DEF Resolving
    <3>3. task'[u].todo = Resolving /\ task'[u].i = task[u].i BY <1>1, <3>1, <3>2, SetOthers
    <3>4. ~Executes(Resolving) /\ ~Has(Resolving, "decided") BY KnownSteps DEF Executes
    <3>5. ~obj'[task'[u].i].rec BY <1>3, <1>10, <2>1, <3>3
    <3> QED BY <3>3, <3>4, <3>5 DEF MayWrite, Decides
  <2>8. tokens' \subseteq Calls BY <1>4, <1>10 DEF RunsInv, Shape
  <2>9. Shape' BY <1>5, <1>8, <2>1, <2>4, <2>8 DEF RunsInv, Shape
  <2>10. ProposedOnce'
    <3>1. Has(task'["host"].todo, "putApproval") =>
            /\ Has(task["host"].todo, "putApproval") /\ task'["host"].c = task["host"].c
      BY <1>8, HostTask DEF Plain, Marks, LaidMarks
    <3> QED BY <1>5, <3>1 DEF RunsInv, ProposedOnce
  <2>11. ASSUME Has(task'[u].todo, "endCritical")
         PROVE  /\ task'[u].i \in Insts /\ obj'[task'[u].i].crit
                /\ \A x \in Tasks \ {u} : InCritical(x) => task[x].i # task'[u].i
    <3>1. /\ InCritical(u) /\ task'[u].i = task[u].i /\ task[u].i \in Insts
          /\ obj[task[u].i].crit
      BY <1>1, <1>8, <2>11, StillCritical
    <3> QED BY <1>1, <2>1, <3>1 DEF RunsInv, CriticalHeld
  <2>12. ASSUME NEW c \in Calls
         PROVE  /\ done'[c] <= 1
                /\ done'[c] > 0 => appr'[c].st = "approved"
                /\ c \in tokens' => appr'[c].st = "approved" /\ done'[c] = 0
                /\ MayWrite(u, c)' =>
                     /\ appr'[c].st = "approved" /\ done'[c] = 0 /\ c \notin tokens'
                     /\ \A x \in Tasks \ {u} : ~MayWrite(x, c)
                /\ \A x \in Tasks \ {u} : MayWrite(x, c) =>
                     appr'[c].st = "approved" /\ done'[c] = 0 /\ c \notin tokens'
    <3>1. CASE c = k BY <1>5, <2>6, <2>7, <3>1
    <3>2. CASE c # k BY <1>5, <1>10, <2>7, <3>2 DEF RunsInv, OneRight
    <3> QED BY <3>1, <3>2
  <2>13. Sound(u) BY <1>1, <1>8 DEF Plain
  <2> QED BY <1>1, <1>8, <2>2, <2>9, <2>10, <2>11, <2>12, <2>13, OneActs
<1> QED BY <1>7, <1>9, <1>10 DEF Token, Obj

\* A run that is read back is resolved inside its critical operation.
LEMMA RecoveredKeeps ==
  ASSUME RunsInv, NEW u \in Users, task[u].todo = Resolving, task[u].c \in Calls,
         task[u].i \in Insts, task[u].i # 0, task[u].yes, obj[task[u].i].rec, Others',
         Set(u, <<"emit", "check", "land", "endCritical">>),
         UNCHANGED <<appr, obj, tokens, done>>
  PROVE  RunsInv'
<1> DEFINE s == <<"emit", "check", "land", "endCritical">>
<1>1. u \in Tasks /\ u # "host" BY Apart
<1>2. /\ s \in Seq(StepNames) /\ s # <<>>
      /\ \A x : Has(s, x) <=> x \in {"emit", "check", "land", "endCritical"}
  <2>1. {"emit", "check", "land", "endCritical"} \subseteq StepNames BY DEF StepNames
  <2> QED BY <2>1, HasFour
<1>3. Once(s)
  <2>1. /\ Len(s) = 4 /\ s[1] = "emit" /\ s[2] = "check" /\ s[3] = "land" OBVIOUS
  <2>2. 1..4 = {1, 2, 3, 4} OBVIOUS
  <2> HIDE DEF s
  <2> QED BY <2>1, <2>2 DEF Once
<1>4. s \in Recovering BY DEF Recovering
<1> HIDE DEF s
<1>5. /\ task' \in [Tasks -> TaskRecords] /\ task'[u].todo = s /\ task'[u].i = task[u].i
      /\ task'[u].c = task[u].c
      /\ \A x \in Tasks \ {u} : task'[x] = task[x] /\ Plain(x)
  <2>1. Set(u, s) BY DEF s
  <2> QED BY <1>1, <1>2, <2>1, SetOthers
<1>6. \A j \in Insts : obj'[j].crit = obj[j].crit /\ obj'[j].rec = obj[j].rec OBVIOUS
<1>7. \A x \in Tasks \ {u} : Plain(x) /\ Kept(x) BY <1>5, <1>6, KeptAlike
<1>8. Sound(u)
  <2>1. ~Activates(s) BY <1>2 DEF Activates
  <2>2. /\ ~Has(s, "putApproval") /\ ~Has(s, "decide") /\ ~Has(s, "consume")
        /\ ~Has(s, "decided") /\ ~Has(s, "resolve")
    BY <1>2
  <2>3. Laid(u, s) BY <1>3, <1>4, <2>2 DEF Laid
  <2> QED BY <1>1, <1>5, <2>1, <2>3 DEF Sound
<1>9. ProposedOnce'
  <2>1. task'["host"] = task["host"] BY <1>1, <1>5, HostTask
  <2> QED BY <2>1 DEF RunsInv, ProposedOnce
<1>10. /\ task'[u].i \in Insts /\ obj'[task'[u].i].crit
       /\ \A x \in Tasks \ {u} : InCritical(x) => task[x].i # task'[u].i
  <2>1. InCritical(u) BY KnownSteps DEF InCritical
  <2> QED BY <1>1, <1>5, <2>1 DEF RunsInv, CriticalHeld
<1>11. ASSUME NEW c \in Calls, MayWrite(u, c)' PROVE MayWrite(u, c)
  <2>1. task[u].c = c BY <1>5, <1>11 DEF MayWrite
  <2>2. Has(task[u].todo, "resolve") /\ ~Has(task[u].todo, "consume") BY KnownSteps
  <2> QED BY <2>1, <2>2 DEF MayWrite, Decides
<1>12. Shape' BY <1>5 DEF RunsInv, Shape
<1> QED BY <1>1, <1>7, <1>8, <1>9, <1>10, <1>11, <1>12, OneGoesOn

\* resolveRecoveredApproval, or the sidecar is told
LEMMA ResolveKeeps ==
  ASSUME RunsInv, NEW u \in Users, Resolve(u)
  PROVE  RunsInv'
<1> DEFINE a == <<"assert">> \o Completing
           n == <<"endCritical">>
           r == [Idle EXCEPT !.i = task[u].i, !.todo = <<"failed">>]
<1>1. u \in Tasks /\ u # "host" /\ u # "tail" /\ "tail" \in Tasks /\ "tail" \notin Users
  BY Apart, RunUsers DEF Tasks, Handlers
<1>2. task[u].todo # <<>> /\ Head(task[u].todo) = "resolve" BY DEF Resolve, At
<1>3. task[u].i \in Insts /\ task[u].i # 0 BY <1>1, <1>2, OnObject
<1>4. task[u].c \in Calls /\ task[u].todo = Resolving BY <1>1, <1>2, KnownTodo DEF LaidMarks
<1>5. UNCHANGED <<kind, db, appr, obj, active, tokens, sess, events, old, done, used>>
  BY DEF Resolve, persisted, Rest
<1>6. ASSUME side' \in Sides, tracked' \in BOOLEAN PROVE Others'
  BY <1>5, <1>6 DEF RunsInv, Shape, Others
<1>7. side \in Sides /\ tracked \in BOOLEAN BY DEF RunsInv, Shape, Others
<1>8. CASE Throw(u) /\ UNCHANGED <<side, tracked>>
  <2>1. task' \in [Tasks -> TaskRecords] /\ \A x \in Tasks : Plain(x)
    BY <1>1, <1>2, <1>8, ThrowPlain
  <2>2. Others' BY <1>6, <1>7, <1>8
  <2> QED BY <1>5, <2>1, <2>2, QuietTasks
<1>9. CASE /\ obj[task[u].i].rec /\ task[u].yes /\ UNCHANGED <<side, tracked>>
           /\ Set(u, (<<"emit">> \o Executing) \o <<"endCritical">>)
  <2>1. Set(u, <<"emit", "check", "land", "endCritical">>) BY <1>9, Joined
  <2>2. Others' BY <1>6, <1>7, <1>9
  <2> QED BY <1>3, <1>4, <1>5, <1>9, <2>1, <2>2, RecoveredKeeps
<1>10. CASE UNCHANGED <<side, tracked>> /\ Set(u, a \o <<"endCritical">>)
  <2> DEFINE s == a \o <<"endCritical">>
             S == {"assert", "putComplete", "emit", "complete", "finish"}
  <2>1. a \in Seq(StepNames) /\ \A x : Has(a, x) => x \in S BY Asserting
  <2>2. "endCritical" \notin S OBVIOUS
  <2> HIDE DEF a
  <2>3. s \in Seq(StepNames) /\ Once(s) /\ \A x : Has(s, x) => x \in S \cup {"endCritical"}
    BY <2>1, <2>2, Resolved
  <2>4. Set(u, s) BY <1>10
  <2> HIDE DEF s
  <2>5. \A m \in LaidMarks : ~Has(s, m) BY <2>3 DEF LaidMarks
  <2>6. ~Activates(s) BY <2>3 DEF Activates
  <2>7. Has(task[u].todo, "endCritical") BY <1>4, KnownSteps
  <2>8. task' \in [Tasks -> TaskRecords] /\ \A x \in Tasks : Plain(x)
    BY <1>1, <1>3, <2>3, <2>4, <2>5, <2>6, <2>7, SetFree
  <2>9. Others' BY <1>6, <1>7, <1>10
  <2> QED BY <1>5, <2>8, <2>9, QuietTasks
<1>11. CASE tracked' = TRUE /\ side' \in {"approving", "declining"} /\ Advance(u)
  <2>1. task' \in [Tasks -> TaskRecords] /\ \A x \in Tasks : Plain(x)
    BY <1>1, <1>2, <1>3, <1>11, StepPlain
  <2>2. Others' BY <1>6, <1>11 DEF Sides
  <2> QED BY <1>5, <2>1, <2>2, QuietTasks
<1>12. CASE /\ tracked' = TRUE /\ side' = side
            /\ task' = [task EXCEPT ![u].todo = Tail(@), !["tail"] = r]
  <2>1. task \in [Tasks -> TaskRecords] BY DEF RunsInv, Shape
  <2>2. Tail(task[u].todo) = n BY <1>4, KnownTails
  <2>3. /\ task'["tail"] = r /\ task'[u] = [task[u] EXCEPT !.todo = n]
        /\ \A x \in Tasks \ {u, "tail"} : task'[x] = task[x]
        /\ task' = [x \in Tasks |-> task'[x]]
    <3> HIDE DEF r, n
    <3> QED BY <1>1, <1>12, <2>1, <2>2
  <2>4. /\ n \in Seq(StepNames) /\ n # <<>> /\ Once(n) /\ \A x : Has(n, x) <=> x = "endCritical"
    <3>1. "endCritical" \in StepNames BY DEF StepNames
    <3> QED BY <3>1, HasFew
  <2>5. Plain(u)
    <3>1. task'[u] = IF n = <<>> THEN Idle ELSE [task[u] EXCEPT !.todo = n] BY <2>3, <2>4
    <3> HIDE DEF n
    <3>2. \A m \in LaidMarks : ~Has(n, m) BY <2>4 DEF LaidMarks
    <3>3. Laid(u, n) BY <2>4, <3>2, LaidFree
    <3>4. \A m \in Marks \cup {"decide"} : Has(n, m) => Has(task[u].todo, m)
      BY <1>4, <2>4, KnownSteps
    <3>5. ~Activates(n) /\ ~Has(n, "resolve") BY <2>4 DEF Activates
    <3> QED BY <1>1, <1>3, <2>4, <3>1, <3>3, <3>4, <3>5, PlainTodo
  <2>6. Plain("tail")
    <3>1. <<"failed">> \in Seq(StepNames) /\ \A x : Has(<<"failed">>, x) <=> x = "failed"
      <4>1. "failed" \in StepNames BY DEF StepNames
      <4> QED BY <4>1, HasFew
    <3>2. r \in TaskRecords /\ r.todo = <<"failed">> /\ r.i = task[u].i
      <4>1. Idle = [todo |-> <<>>, i |-> 0, c |-> None, yes |-> FALSE, s |-> 0, snap |-> Blank]
        BY DEF Idle
      <4>2. Blank \in Snap BY Nothing
      <4> QED BY <1>3, <3>1, <4>1, <4>2 DEF TaskRecords
    <3> HIDE DEF r
    <3>3. /\ ~Activates(r.todo) /\ \A m \in Marks : ~Has(r.todo, m)
          /\ Laid("tail", r.todo) /\ ~Has(r.todo, "decide")
      <4>1. {"failed"} \cap (LaidMarks \cup {"endCritical", "activate", "reactivate"}) = {}
        BY DEF LaidMarks
      <4>2. \A x : Has(<<"failed">>, x) => x \in {"failed"} BY <3>1
      <4> QED BY <3>1, <3>2, <4>1, <4>2, FreeTodo
    <3> QED BY <1>1, <1>3, <2>3, <3>2, <3>3, PlainLaunched
  <2>7. \A x \in Tasks : Plain(x) BY <2>3, <2>5, <2>6, PlainSame
  <2>8. task' \in [Tasks -> TaskRecords]
    <3>1. \A x \in Tasks : task'[x] \in TaskRecords BY <2>7 DEF Plain, Sound
    <3> QED BY <2>3, <3>1
  <2>9. Others' BY <1>6, <1>7, <1>12
  <2> QED BY <1>5, <2>7, <2>8, <2>9, QuietTasks
<1>13. CASE ~Current(u) BY <1>8, <1>13 DEF Resolve
<1>14. CASE Current(u) /\ obj[task[u].i].rec
  BY <1>9, <1>10, <1>14 DEF Resolve, Obj
<1>15. CASE Current(u) /\ ~obj[task[u].i].rec
  BY <1>11, <1>12, <1>15 DEF Resolve, Obj
<1> QED BY <1>13, <1>14, <1>15

----------------------------------------------------------------------------
(* The invariant, and what follows from it *)

\* Nothing is under way at first.
LEMMA InitInv ==
  ASSUME Init
  PROVE  RunsInv
<1>1. /\ \A t \in Tasks : task[t] = Idle
      /\ Idle.todo = <<>> /\ Idle \in TaskRecords /\ NoRun \in Objects /\ Blank \in Snap
  <2>1. \A t \in Tasks : task[t] = Idle BY DEF Init
  <2> QED BY <2>1, Nothing
<1>2. \A t \in Tasks : task[t].todo = <<>> BY <1>1
<1>3. \A x : ~Has(<<>>, x) BY HasFew
<1>4. Others
  <2>1. <<>> \in Seq(EventNames) OBVIOUS
  <2>2. 1 \in Sessions
    <3>1. MaxOuts \in Nat /\ MaxCrashes \in Nat BY RunBounds
    <3> QED BY <3>1 DEF Sessions
  <2>3. used \in Counts /\ used.outs <= MaxOuts /\ used.crashes <= MaxCrashes
    <3>1. used = [cmds |-> 0, exits |-> 0, outs |-> 0, crashes |-> 0, faults |-> 0] BY DEF Init
    <3>2. MaxOuts \in Nat /\ MaxCrashes \in Nat BY RunBounds
    <3> QED BY <3>1, <3>2 DEF Counts
  <2>4. /\ kind = None /\ db = Blank /\ old = {} /\ active = 0 /\ sess = 1 /\ side = "none"
        /\ tracked = FALSE /\ events = <<>>
    BY DEF Init
  <2> QED BY <1>1, <2>1, <2>2, <2>3, <2>4 DEF Others, Sides
<1>5. Shape
  <2>1. appr \in [Calls -> Approvals]
    <3>1. [st |-> None, rev |-> 0] \in Approvals BY DEF Approvals
    <3>2. appr = [c \in Calls |-> [st |-> None, rev |-> 0]] BY DEF Init
    <3> QED BY <3>1, <3>2
  <2>2. obj \in [Insts -> Objects]
    <3>1. obj = [i \in Insts |-> NoRun] BY DEF Init
    <3> QED BY <1>1, <3>1
  <2>3. task \in [Tasks -> TaskRecords]
    <3>1. task = [t \in Tasks |-> Idle] BY DEF Init
    <3> QED BY <1>1, <3>1
  <2>4. done \in [Calls -> Nat] /\ tokens \subseteq Calls BY DEF Init
  <2> QED BY <1>4, <2>1, <2>2, <2>3, <2>4 DEF Shape
<1>6. Placed
  <2>1. <<>> \in Waiting BY DEF Waiting
  <2> QED BY <1>2, <2>1 DEF Placed
<1>7. TodosLaid
  <2>1. \A t : Laid(t, <<>>)
    <3>1. Once(<<>>) BY HasFew
    <3> QED BY <1>3, <3>1, LaidFree
  <2> QED BY <1>2, <1>3, <2>1 DEF TodosLaid
<1>8. ProposedOnce BY <1>2, <1>3, HostTask DEF ProposedOnce
<1>9. CriticalHeld BY <1>2, <1>3 DEF CriticalHeld, InCritical
<1>10. OneRight
  <2>1. \A t \in Tasks : \A c : ~MayWrite(t, c) BY <1>2, <1>3 DEF MayWrite, Executes, Decides
  <2>2. tokens = {} /\ \A c \in Calls : done[c] = 0 BY DEF Init
  <2> QED BY <2>1, <2>2 DEF OneRight
<1> QED BY <1>5, <1>6, <1>7, <1>8, <1>9, <1>10 DEF RunsInv

\* The segments any task may be at
LEMMA StepKeeps ==
  ASSUME RunsInv, NEW t \in Tasks, Step(t)
  PROVE  RunsInv'
<1>1. ASSUME NEW e \in {"failed", "cancelled", "interrupted"}, EnterEnd(t, e) PROVE RunsInv'
  BY <1>1, EnterEndKeeps
<1>2. CASE Emit(t) BY <1>2, EmitKeeps
<1>3. CASE PutMessage(t) BY <1>3, PutMessageKeeps
<1>4. CASE FinishRun(t) BY <1>4, FinishRunKeeps
<1>5. CASE SetCompleted(t) BY <1>5, SetCompletedKeeps
<1>6. CASE EndCritical(t) BY <1>6, EndCriticalKeeps
<1>7. CASE CheckApproval(t) BY <1>7, CheckApprovalKeeps
<1>8. CASE AssertSession(t) BY <1>8, AssertSessionKeeps
<1>9. CASE ExecuteTool(t) BY <1>9, ExecuteToolKeeps
<1> QED BY <1>1, <1>2, <1>3, <1>4, <1>5, <1>6, <1>7, <1>8, <1>9 DEF Step

\* The segments of the user's commands
LEMMA StepUserKeeps ==
  ASSUME RunsInv, NEW u \in Users, StepUser(u)
  PROVE  RunsInv'
<1>1. u \in Tasks BY Apart
<1>2. CASE Reactivate(u) BY <1>1, <1>2, ReactivateKeeps
<1>3. CASE TrackRun(u) BY <1>1, <1>3, TrackRunKeeps
<1>4. CASE BeginDecision(u) BY <1>4, BeginDecisionKeeps
<1>5. CASE ConsumeApproval(u) BY <1>5, ConsumeApprovalKeeps
<1>6. CASE Decided(u) BY <1>6, DecidedKeeps
<1>7. CASE Resolve(u) BY <1>7, ResolveKeeps
<1>8. CASE CancelAgentRun(u) BY <1>1, <1>8, CancelAgentRunKeeps
<1>9. CASE RequestCancel(u) BY <1>1, <1>9, RequestCancelKeeps
<1>10. CASE CancelAnswered(u) BY <1>1, <1>10, CancelAnsweredKeeps
<1>11. CASE CheckAnswer(u) BY <1>1, <1>11, CheckAnswerKeeps
<1>12. CASE Answered(u) BY <1>1, <1>12, AnsweredKeeps
<1>13. CASE RequestAnswer(u) BY <1>1, <1>13, RequestAnswerKeeps
<1> QED BY <1>2, <1>3, <1>4, <1>5, <1>6, <1>7, <1>8, <1>9, <1>10, <1>11, <1>12, <1>13
        DEF StepUser

\* Every step keeps the invariant.
LEMMA NextKeeps ==
  ASSUME RunsInv, [Next]_vars
  PROVE  RunsInv'
<1>1. CASE UNCHANGED vars
  <2>1. /\ UNCHANGED <<kind, db, appr, old, obj, active, tokens, sess, side, tracked, events>>
        /\ UNCHANGED <<task, done, used>>
    BY <1>1 DEF vars, persisted
  <2>2. Others' BY <2>1 DEF RunsInv, Shape, Others
  <2> QED BY <2>1, <2>2, QuietRest
<1>2. ASSUME NEW k \in Kinds, StartRun(k) PROVE RunsInv' BY <1>2, StartRunKeeps
<1>3. ASSUME NEW t \in Tasks, Step(t) PROVE RunsInv' BY <1>3, StepKeeps
<1>4. ASSUME NEW u \in Users, StepUser(u) \/ Commands(u) PROVE RunsInv'
  BY <1>4, StepUserKeeps, CommandsKeep
<1>5. CASE StepStart BY <1>5, ActivateRunKeeps, RequestStartKeeps DEF StepStart
<1>6. CASE StepHost
  BY <1>6, PutApprovalKeeps, ProposedKeeps, ReplyKeeps, BeginToolKeeps DEF StepHost
<1>7. CASE StepLogout
  BY <1>7, DrainStartsKeeps, DrainsKeep, CancelForLogoutKeeps DEF StepLogout
<1>8. CASE InterruptRun \/ SweepWrite \/ TakeEvent
  BY <1>8, InterruptRunKeeps, SweepWriteKeeps, TakeEventKeeps
<1>9. CASE \/ SidecarAccepts \/ SidecarAsks \/ SidecarCancels \/ SidecarSkips
           \/ \E e \in {"completed", "failed"} : SidecarEnds(e)
  BY <1>9, SidecarEventsKeep
<1>10. CASE SidecarExits \/ RequestFails BY <1>10, SidecarExitsKeeps, RequestFailsKeeps
<1>11. ASSUME NEW c \in Calls, Propose(c) \/ CallTool(c) \/ Expire(c) PROVE RunsInv'
  BY <1>11, ProposeKeeps, CallToolKeeps, ExpireKeeps
<1>12. CASE Logout \/ Login \/ Sweep \/ Crash
  BY <1>12, LogoutKeeps, LoginKeeps, SweepKeeps, CrashKeeps
<1> QED BY <1>1, <1>2, <1>3, <1>4, <1>5, <1>6, <1>7, <1>8, <1>9, <1>10, <1>11, <1>12 DEF Next

\* The properties of the runs are among what the invariant says.
LEMMA InvSafe ==
  ASSUME RunsInv
  PROVE  RunsSafe
<1>1. RunTypeOK
  <2>1. Others /\ obj \in [Insts -> Objects] /\ task \in [Tasks -> TaskRecords]
        /\ appr \in [Calls -> Approvals] /\ done \in [Calls -> Nat] /\ tokens \subseteq Calls
    BY DEF RunsInv, Shape
  <2>2. \A i \in Insts : obj[i].status \in Unfinished \cup Terminal \cup {None}
    BY <2>1 DEF Objects, Statuses
  <2>3. \A t \in Tasks : task[t].snap \in Snap /\ task[t].i \in Insts \cup {0}
    BY <2>1 DEF TaskRecords
  <2>4. appr \in [Calls -> [st : {None, "pending", "approved", "denied", "expired"}, rev : Nat]]
    BY <2>1 DEF Approvals
  <2> QED BY <2>1, <2>2, <2>3, <2>4 DEF Others, RunTypeOK, Sides, EventNames
<1>2. WriteAtMostOnce BY DEF RunsInv, OneRight, WriteAtMostOnce
<1>3. WriteWasApproved BY DEF RunsInv, OneRight, WriteWasApproved
<1> QED BY <1>1, <1>2, <1>3 DEF RunsSafe

\* Approvals are written where they are stored, where they are decided, and where
\* they are to be carried out.
LEMMA ApprovalWrites ==
  ASSUME [Next]_vars
  PROVE  \/ UNCHANGED appr \/ PutApproval \/ \E u \in Users : ConsumeApproval(u)
         \/ \E t \in Tasks : CheckApproval(t)
<1>1. CASE UNCHANGED vars BY <1>1 DEF vars, persisted
<1>2. ASSUME NEW k \in Kinds, StartRun(k) PROVE UNCHANGED appr BY <1>2 DEF StartRun
<1>3. ASSUME NEW t \in Tasks, Step(t), ~CheckApproval(t) PROVE UNCHANGED appr
  BY <1>3 DEF Step, Emit, PutMessage, FinishRun, DropRun, SetCompleted, EndCritical, EnterEnd,
              AssertSession, ExecuteTool, persisted
<1>4. ASSUME NEW u \in Users, StepUser(u), ~ConsumeApproval(u) PROVE UNCHANGED appr
  BY <1>4 DEF StepUser, Reactivate, TrackRun, BeginDecision, Decided, Resolve, CancelAgentRun,
              RequestCancel, CancelAnswered, CheckAnswer, Answered, RequestAnswer, persisted
<1>5. ASSUME NEW u \in Users, Commands(u) PROVE UNCHANGED appr
  BY <1>5 DEF Commands, Command, persisted
<1>6. CASE StepStart BY <1>6 DEF StepStart, ActivateRun, RequestStart, persisted
<1>7. CASE StepHost /\ ~PutApproval
  BY <1>7 DEF StepHost, Proposed, Reply, BeginTool, persisted
<1>8. CASE StepLogout
  BY <1>8 DEF StepLogout, DrainStarts, DrainChain, DrainHost, DrainCritical, CancelForLogout,
              persisted
<1>9. CASE InterruptRun \/ SweepWrite \/ TakeEvent
  BY <1>9 DEF InterruptRun, SweepWrite, TakeEvent
<1>10. CASE \/ SidecarAccepts \/ SidecarAsks \/ SidecarCancels \/ SidecarSkips
            \/ \E e \in {"completed", "failed"} : SidecarEnds(e)
  BY <1>10 DEF SidecarAccepts, SidecarAsks, SidecarCancels, SidecarSkips, SidecarEnds, Sidecar,
               persisted
<1>11. CASE SidecarExits \/ RequestFails BY <1>11 DEF SidecarExits, RequestFails, persisted
<1>12. ASSUME NEW c \in Calls, Propose(c) \/ CallTool(c) \/ Expire(c) PROVE UNCHANGED appr
  BY <1>12 DEF Propose, CallTool, Expire, persisted
<1>13. CASE Logout \/ Login \/ Sweep \/ Crash
  BY <1>13 DEF Logout, Login, Sweep, Crash, persisted
<1> QED BY <1>1, <1>2, <1>3, <1>4, <1>5, <1>6, <1>7, <1>8, <1>9, <1>10, <1>11, <1>12, <1>13
        DEF Next

\* What is stored was not there, what is decided was pending, and what lapses was the
\* right to a write that has not taken effect.
LEMMA DecisionStays ==
  ASSUME RunsInv, [Next]_vars
  PROVE  DecisionIsFinalStep
<1> SUFFICES ASSUME NEW c \in Calls, appr[c].st \in {"approved", "denied", "expired"}
             PROVE  \/ appr'[c] = appr[c]
                    \/ /\ appr[c].st = "approved"
                       /\ appr'[c] = [appr[c] EXCEPT !.st = "expired"]
                       /\ c \in old /\ done[c] = 0 /\ done'[c] = 0
  BY DEF DecisionIsFinalStep
<1>1. appr \in [Calls -> Approvals] BY DEF RunsInv, Shape
<1>2. CASE UNCHANGED appr BY <1>2
<1>3. CASE PutApproval
  <2>1. /\ task["host"].todo # <<>> /\ Head(task["host"].todo) = "putApproval"
        /\ appr' = [appr EXCEPT ![task["host"].c] =
                       [st |-> "pending", rev |-> task["host"].snap.rev]]
    BY <1>3 DEF PutApproval, At
  <2>2. Has(task["host"].todo, "putApproval") BY <2>1, HostTask, KnownTodo
  <2>3. appr[task["host"].c].st = None BY <2>2 DEF RunsInv, ProposedOnce
  <2>4. task["host"].c # c BY <2>3 DEF None
  <2> QED BY <1>1, <2>1, <2>4
<1>4. ASSUME NEW u \in Users, ConsumeApproval(u) PROVE appr'[c] = appr[c]
  <2>1. \/ UNCHANGED appr
        \/ appr[task[u].c].st = "pending" /\ \A d \in Calls \ {task[u].c} : appr'[d] = appr[d]
    BY <1>1, <1>4 DEF ConsumeApproval, CompareAndSet
  <2>2. task[u].c # c \/ UNCHANGED appr BY <2>1
  <2> QED BY <2>1, <2>2
<1>5. ASSUME NEW t \in Tasks, CheckApproval(t), appr'[c] # appr[c]
      PROVE  /\ appr[c].st = "approved" /\ appr'[c] = [appr[c] EXCEPT !.st = "expired"]
             /\ c \in old /\ done[c] = 0 /\ done'[c] = 0
  <2>1. /\ task[t].todo # <<>> /\ Head(task[t].todo) = "check" /\ UNCHANGED done
        /\ \/ UNCHANGED appr
           \/ /\ appr[task[t].c].st = "approved" /\ task[t].c \in old
              /\ appr' = [appr EXCEPT ![task[t].c].st = "expired"]
    BY <1>5 DEF CheckApproval, Lapsed, CompareAndSet, At, Rest
  <2>2. /\ task[t].c = c /\ appr[c].st = "approved" /\ c \in old
        /\ appr'[c] = [appr[c] EXCEPT !.st = "expired"]
    BY <1>1, <1>5, <2>1
  <2>3. Has(task[t].todo, "check") BY <2>1, KnownTodo
  <2>4. MayWrite(t, c) BY <2>2, <2>3 DEF MayWrite, Executes
  <2>5. done[c] = 0 BY <2>4 DEF RunsInv, OneRight
  <2> QED BY <2>1, <2>2, <2>5
<1> QED BY <1>2, <1>3, <1>4, <1>5, ApprovalWrites

\* The inductive invariant holds in every state of a behaviour.
THEOREM RunsInvariant == Spec => []RunsInv
<1>1. Init => RunsInv BY InitInv
<1>2. RunsInv /\ [Next]_vars => RunsInv' BY NextKeeps
<1> QED BY <1>1, <1>2, PTL DEF Spec

\* A write the user approved takes effect at most once, and what was written was
\* approved: two decisions, a reactivation, a late call of the sidecar, or a recovery
\* after a crash do not change that (call, decide, resolveRecoveredApproval).
THEOREM WritesOnceAndApproved == Spec => []RunsSafe
<1>1. RunsInv => RunsSafe BY InvSafe
<1> QED BY <1>1, RunsInvariant, PTL

\* A decision about an approval is final: the other of two decisions under way
\* together does not change it, and the ten minutes take back only an approval that was
\* not carried out, for good (compareAndSetApprovalStatus, assertApprovedForExecution).
THEOREM DecisionsAreFinal == Spec => DecisionIsFinal
<1>1. RunsInv /\ [Next]_vars => [DecisionIsFinalStep]_vars BY DecisionStays
<1> QED BY <1>1, RunsInvariant, PTL DEF Spec, DecisionIsFinal
================================================================================
