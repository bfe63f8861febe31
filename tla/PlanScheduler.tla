----------------------------- MODULE PlanScheduler -----------------------------
(***************************************************************************)
(* buildDeterministicSevenDaySchedule (src/agent/planning/scheduler.ts):   *)
(* the sessions of the pending tasks of a revision are put into the free   *)
(* time of the user's windows, in the order of the dependency graph, one   *)
(* session after the other, within the weekly capacity. One task of the    *)
(* loop is a Begin, a Place for each session and a Finish.                 *)
(*                                                                         *)
(* Instants are integers, a day is DayLength of them, a quarter of an hour *)
(* is Quarter of them; the window has NumDays dates where the code has 7.  *)
(***************************************************************************)
EXTENDS Integers, Sequences, FiniteSets, SequencesExt

CONSTANTS
    NumDays, DayLength, Quarter,
    Nows,       \* the clock when the schedule is built (an instant of day 0)
    Sessions,   \* sessionMinutes
    Capacities, \* weeklyCapacityMinutes
    Estimates   \* estimatedMinutes of a task

InstanceOK ==
    /\ {NumDays, DayLength, Quarter} \subseteq Nat \ {0}
    /\ Nows \subseteq 0..(DayLength - 1)
    /\ Sessions \cup Capacities \cup Estimates \subseteq Nat \ {0}

VARIABLES
    in,    \* the request
    order, \* the pending tasks that are left, in topological order
    cur,   \* the task of the loop
    out    \* what has been scheduled

vars == <<in, order, cur, out>>

Tasks == 1..3
NoTask == 0
Interval(a, b) == [start |-> a, end |-> b]
Overlap(x, y) == x.start < y.end /\ y.start < x.end
Day(x) == x \div DayLength
At(d, t) == d * DayLength + t
Sum(S, len(_)) == MapThenSumSet(len, S)

----------------------------------------------------------------------------
(* The requests: three tasks, the windows of two days, events of others, of  *)
(* this plan, overlapping ones and one that is no multiple of a quarter      *)

WindowChoices ==
    {{[day |-> 0, from |-> 0, to |-> 7, gap |-> FALSE],
      [day |-> 1, from |-> 2, to |-> 8, gap |-> FALSE]},
     {[day |-> 0, from |-> 0, to |-> 4, gap |-> FALSE],
      [day |-> 0, from |-> 3, to |-> 9, gap |-> TRUE],
      [day |-> 1, from |-> 0, to |-> 3, gap |-> FALSE],
      [day |-> 1, from |-> 2, to |-> 9, gap |-> FALSE]}}
Event(a, b, t) == [start |-> a, end |-> b, task |-> t]
EventChoices ==
    {Event(3, 6, NoTask), Event(4, 5, NoTask),
     Event(At(1, 3), At(1, 4), 1), Event(At(1, 3), At(1, 5), 2)}
Execution == [t \in Tasks |-> 2]
Requests ==
    [deps : {d \in [Tasks -> SUBSET Tasks] :
                d[1] = {} /\ d[2] \subseteq {1} /\ d[3] \subseteq {1, 2}},
     purpose : {Execution, [Execution EXCEPT ![3] = 0]},
     status : {s \in [Tasks -> {"pending", "completed", "skipped"}] : s[3] = "pending"},
     estimate : {e \in [Tasks -> Estimates] : e[1] = e[3]},
     windows : WindowChoices, busy : SUBSET EventChoices,
     session : Sessions, capacity : Capacities, now : Nows, automatic : BOOLEAN]

----------------------------------------------------------------------------
(* topologicalTasks *)

Pending(r) == {t \in Tasks : r.status[t] = "pending"}

RECURSIVE Visited(_, _, _)
\* visit: the dependencies of a task come before it.
Visited(r, seq, ts) ==
    IF ts = <<>> THEN seq
    ELSE LET t == Head(ts)
             deps == SetToSortSeq(r.deps[t], <)
         IN Visited(r, IF t \in Range(seq) THEN seq ELSE Append(Visited(r, seq, deps), t), Tail(ts))
\* The tasks are visited by purpose: validation, review, execution.
Topological(r) ==
    Visited(r, <<>>, SetToSortSeq(Tasks, LAMBDA a, b :
                         \/ r.purpose[a] < r.purpose[b]
                         \/ r.purpose[a] = r.purpose[b] /\ a < b))

----------------------------------------------------------------------------
(* findFirstSlot *)

\* laterDate: an automatic adjustment starts tomorrow.
FirstDay(r) == IF r.automatic THEN 1 ELSE 0

\* Windows in the order they are tried; one in a gap or fold of the local time
\* is left out.
SlotWindows(r) ==
    SetToSortSeq({w \in r.windows : w.day >= FirstDay(r) /\ ~w.gap},
                 LAMBDA a, b : At(a.day, a.from) < At(b.day, b.from))

RoundedUp(x) == ((x + Quarter - 1) \div Quarter) * Quarter
NoSlot == Interval(0, 0)

\* One occupied interval after the other: the session fits before it, or the
\* cursor moves behind it.
\* Mutant: an occupied interval that ends earlier moves the cursor back.
Sweep_Backwards(state, busy, duration) ==
    IF state.found THEN state
    ELSE IF state.cursor + duration <= busy.start THEN [state EXCEPT !.found = TRUE]
    ELSE [state EXCEPT !.cursor = busy.end]
Sweep(state, busy, duration) ==
    IF state.found THEN state
    ELSE IF state.cursor + duration <= busy.start THEN [state EXCEPT !.found = TRUE]
    ELSE IF state.cursor < busy.end THEN [state EXCEPT !.cursor = busy.end]
    ELSE state

EndsIn(end, to) == end <= to

SlotIn(r, w, duration, earliest, busy) ==
    LET from == At(w.day, w.from)
        to == At(w.day, w.to)
        ready == IF from < r.now THEN RoundedUp(r.now) ELSE from
        cursor == IF ready < earliest THEN earliest ELSE ready
        relevant == SetToSortSeq({b \in busy : Overlap(b, Interval(cursor, to))},
                                 LAMBDA a, b : a.start < b.start \/ (a.start = b.start /\ a.end < b.end))
        swept == FoldLeft(LAMBDA s, b : Sweep(s, b, duration),
                          [cursor |-> cursor, found |-> FALSE], relevant)
    IN IF swept.found \/ EndsIn(swept.cursor + duration, to)
       THEN Interval(swept.cursor, swept.cursor + duration) ELSE NoSlot

FirstSlot(r, duration, earliest, busy) ==
    LET slots == [i \in DOMAIN SlotWindows(r) |->
                     SlotIn(r, SlotWindows(r)[i], duration, earliest, busy)]
        hits == {i \in DOMAIN slots : slots[i] # NoSlot}
    IN IF hits = {} THEN NoSlot ELSE slots[Min(hits)]

----------------------------------------------------------------------------
(* The loop over the tasks *)

Own(r) == {e \in r.busy : e.task \in Pending(r)}
OwnOf(r, t) == {e \in Own(r) : e.task = t}
Length(x) == x.end - x.start
Allocated(r, t) == Sum(OwnOf(r, t), Length)
NonNegative(x) == IF x < 0 THEN 0 ELSE x
\* No dependency has ended and no event of the task exists (null).
Never == -1
LastEnd(r, t) == IF OwnOf(r, t) = {} THEN Never ELSE Max({e.end : e \in OwnOf(r, t)})

Init ==
    /\ in \in Requests
    /\ order = SelectSeq(Topological(in), LAMBDA t : t \in Pending(in))
    /\ cur = [task |-> NoTask, left |-> 0, earliest |-> Never]
    /\ out = [items |-> {}, unscheduled |-> {}, ends |-> [t \in Tasks |-> Never],
              capacity |-> NonNegative(in.capacity - Sum(Own(in), Length))]

Available(t) ==
    \A d \in in.deps[t] : in.status[d] = "completed" \/ out.ends[d] # Never
\* The dependencies of the next task have ended: it starts behind them and
\* behind what is already in the calendar for it.
Begin ==
    /\ cur.task = NoTask /\ order # <<>>
    /\ LET t == Head(order) IN
       IF Available(t)
       THEN /\ cur' = [task |-> t, left |-> NonNegative(in.estimate[t] - Allocated(in, t)),
                       earliest |-> Max({LastEnd(in, t)} \cup {out.ends[d] : d \in in.deps[t]})]
            /\ UNCHANGED out
       ELSE /\ out' = [out EXCEPT !.unscheduled = @ \cup {t}]
            /\ UNCHANGED cur
    /\ order' = Tail(order)
    /\ UNCHANGED in

SessionLength == Min({in.session, cur.left, out.capacity})
Busy == {Interval(e.start, e.end) : e \in in.busy}
        \cup {Interval(i.start, i.end) : i \in out.items}
\* A session of less than a quarter, or of no whole quarters, is not placed.
Slot ==
    IF SessionLength < Quarter \/ SessionLength % Quarter # 0 THEN NoSlot
    ELSE FirstSlot(in, SessionLength, cur.earliest, Busy)

Place ==
    /\ cur.task # NoTask /\ cur.left > 0 /\ out.capacity > 0 /\ Slot # NoSlot
    /\ out' = [out EXCEPT !.items = @ \cup {Event(Slot.start, Slot.end, cur.task)},
                          !.capacity = @ - SessionLength]
    /\ cur' = [cur EXCEPT !.left = @ - SessionLength, !.earliest = Slot.end]
    /\ UNCHANGED <<in, order>>

Finish ==
    /\ cur.task # NoTask
    /\ cur.left > 0 /\ out.capacity > 0 => Slot = NoSlot
    /\ out' = IF cur.left > 0 THEN [out EXCEPT !.unscheduled = @ \cup {cur.task}]
              ELSE [out EXCEPT !.ends[cur.task] = cur.earliest]
    /\ cur' = [task |-> NoTask, left |-> 0, earliest |-> Never]
    /\ UNCHANGED <<in, order>>

----------------------------------------------------------------------------
(* deriveShortTermEstimate of a plan without observation evidence *)

\* The day of the session that completes the pending work; without one, whole
\* weeks behind the window.
Remaining == Sum(Pending(in), LAMBDA t : in.estimate[t])
DoneAt(i) == Sum({k \in out.items : k.start <= i.start}, Length)
Completing == {i \in out.items : DoneAt(i) >= Remaining}
ShortTermEstimate ==
    IF Completing # {} THEN Day(Min({i.end : i \in Completing}) - 1)
    ELSE LET rest == NonNegative(Remaining - Sum(out.items, Length))
             weeks == Max({1, (rest + in.capacity - 1) \div in.capacity})
         IN NumDays + weeks * NumDays - 1

----------------------------------------------------------------------------

Next == Begin \/ Place \/ Finish
Spec == Init /\ [][Next]_vars
Returned == cur.task = NoTask /\ order = <<>>

----------------------------------------------------------------------------
(* Properties *)

SchedulerTypeOK ==
    /\ order \in Seq(Tasks)
    /\ cur.task \in Tasks \cup {NoTask} /\ cur.left \in Nat
    /\ \A i \in out.items : i.start \in Nat /\ i.end > i.start /\ i.task \in Tasks
    /\ out.unscheduled \subseteq Tasks /\ out.capacity \in Nat

\* No two sessions overlap, and none overlaps an event of the calendar.
NoDoubleBooking ==
    /\ \A i, k \in out.items : i # k => ~Overlap(i, k)
    /\ \A i \in out.items, e \in in.busy : ~Overlap(i, e)

\* The slot of a session is the first one a reader would find by trying every
\* instant: inside a window, not before the clock, the dependencies and the
\* earlier sessions, and free. There is no slot only if there is none.
Fits(s, duration) ==
    \E w \in in.windows :
        /\ ~w.gap /\ w.day >= (IF in.automatic THEN 1 ELSE 0)
        /\ At(w.day, w.from) <= s /\ s + duration <= At(w.day, w.to)
        /\ At(w.day, w.from) < in.now => s >= RoundedUp(in.now)
        /\ s >= cur.earliest
        /\ \A b \in Busy : ~Overlap(b, Interval(s, s + duration))
FirstFit ==
    (cur.task # NoTask /\ cur.left > 0 /\ out.capacity > 0
        /\ SessionLength >= Quarter /\ SessionLength % Quarter = 0) =>
        LET starts == {s \in 0..(NumDays * DayLength) : Fits(s, SessionLength)} IN
        IF starts = {} THEN Slot = NoSlot
        ELSE Slot = Interval(Min(starts), Min(starts) + SessionLength)

\* A session of a task starts after the last session and the last event of
\* every dependency that is still to be done, and these are complete.
DependenciesFirst ==
    \A i \in out.items : \A d \in in.deps[i.task] :
        in.status[d] # "completed" =>
            /\ d \notin out.unscheduled
            /\ \A x \in out.items \cup Own(in) : x.task = d => x.end <= i.start
            /\ Sum({x \in out.items \cup Own(in) : x.task = d}, Length) >= in.estimate[d]

\* The sessions and what is in the calendar for the pending tasks stay within
\* the weekly capacity, unless the calendar alone exceeds it.
WithinCapacity ==
    out.items # {} =>
        Sum(out.items, Length) + Sum(Own(in), Length) <= in.capacity

\* A task is reported as unscheduled or has all its time, never both or neither.
NothingForgotten ==
    Returned =>
        \A t \in Pending(in) :
            t \in out.unscheduled
                <=> (Sum({x \in out.items \cup Own(in) : x.task = t}, Length) < in.estimate[t]
                     \/ ~Available(t))

\* A short-term plan that is scheduled completely, with no event of its own in
\* the calendar before, is estimated to end with its last session.
EstimateIsLastSession ==
    Returned /\ Pending(in) # {} /\ out.unscheduled = {} /\ Own(in) = {} =>
        ShortTermEstimate = Max({Day(i.end - 1) : i \in out.items})

\* Automatic adjustments leave today alone.
TodayIsFrozen == in.automatic => \A i \in out.items : Day(i.start) >= 1
===============================================================================
