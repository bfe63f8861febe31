--------------------------- MODULE ActivityFeedback ---------------------------
(***************************************************************************)
(* What the activity pipeline promises of every sealed window, without     *)
(* databases, sessions or crashes: it is scored at most once, and once the *)
(* scores of the windows not yet used have reached the threshold one Agent *)
(* run turns some of them into feedback, all at once and for good.         *)
(* ActivityPipeline is shown to implement this specification.              *)
(***************************************************************************)
EXTENDS Integers, FiniteSetsExt

CONSTANTS
    Windows,         \* windows that may be sealed
    Scores,          \* scores an analysis may carry
    ScoreThreshold   \* accumulated score that makes a run worthwhile

VARIABLES
    status,   \* of each window
    points    \* the score of each window that waits for its feedback

Init ==
    /\ status = [w \in Windows |-> "unsealed"]
    /\ points = [w \in Windows |-> 0]

Seal(w) ==
    /\ status[w] = "unsealed"
    /\ status' = [status EXCEPT ![w] = "sealed"]
    /\ UNCHANGED points

Score(w, s) ==
    /\ status[w] = "sealed"
    /\ status' = [status EXCEPT ![w] = "scored"]
    /\ points' = [points EXCEPT ![w] = s]

\* One completed run consumes its windows in one step.
Consume(S) ==
    /\ \A w \in S : status[w] = "scored"
    /\ MapThenSumSet(LAMBDA w : points[w], Windows) >= ScoreThreshold
    /\ status' = [w \in Windows |-> IF w \in S THEN "consumed" ELSE status[w]]
    /\ points' = [w \in Windows |-> IF w \in S THEN 0 ELSE points[w]]

Next ==
    \/ \E w \in Windows : Seal(w)
    \/ \E w \in Windows, s \in Scores : Score(w, s)
    \/ \E S \in SUBSET Windows : S # {} /\ Consume(S)

Spec == Init /\ [][Next]_<<status, points>>
=============================================================================
