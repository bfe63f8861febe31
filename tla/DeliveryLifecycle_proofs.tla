----------------------- MODULE DeliveryLifecycle_proofs -----------------------
(***************************************************************************)
(* Proofs about the starts and stops of the delivery bundle, for any       *)
(* number of starts, sessions, stops and faults: no part is ever orphaned, *)
(* a stop is a barrier, a ready bundle is complete and nothing is opened   *)
(* for a session that is gone.                                             *)
(*                                                                         *)
(* The heart of the argument is that at most one attempt is unsettled, the *)
(* one of the start operation, and that a stop makes its epoch old: from   *)
(* then on it can only fail, and it releases what it has opened before the *)
(* stop goes on.                                                           *)
(***************************************************************************)
EXTENDS DeliveryLifecycle, TLAPS

----------------------------------------------------------------------------
(* The inductive invariant *)

\* The attempt of the start operation is the only one that is not settled.
Unsettled(a) == att[a].stage \notin {"free", "settled"}
OneAttempt ==
    /\ \A a \in Attempts : Unsettled(a) <=> lc.start = a
    /\ \A a \in Attempts : att[a].stage = "free" <=> a > used.starts

\* What a stage has published: nothing before the store is opened, the bundle
\* and its parts after that.
StageInv ==
    \A a \in Attempts :
        /\ att[a].stage = "scheduled" => lc.resources = 0
        /\ att[a].stage \in {"cutover", "recover", "activate", "cleanup"} =>
             lc.resources = a
        /\ att[a].stage \in {"recover", "activate"} => open[a] = Parts
        /\ att[a].stage # "free" => att[a].epoch <= lc.epoch

\* A stop made the attempt it joins an old one.
StoppedIsOld ==
    /\ lc.stop # "none" /\ lc.start # 0 => att[lc.start].epoch < lc.epoch
    /\ lc.stop = "release" => lc.start = 0

\* A release is the one of the start operation's cleanup or the one of the stop.
ReleaseInv ==
    /\ rel.of = 0 => /\ ~rel.failed /\ lc.stop # "release"
                     /\ \A a \in Attempts : att[a].stage # "cleanup"
    /\ rel.of # 0 => lc.resources = rel.of
    /\ rel.of # 0 /\ rel.by = "start" =>
         lc.start = rel.of /\ att[rel.of].stage = "cleanup"
    /\ rel.of # 0 /\ rel.by = "stop" => lc.stop = "release"

\* What is left to stop.
Remaining == [analyzer |-> Parts, delivery |-> {"delivery", "dispatcher", "store"},
              dispatcher |-> {"dispatcher", "store"}, store |-> {"store"}, none |-> {}]
ReleaseProgress ==
    rel.of # 0 /\ ~rel.failed => open[rel.of] \subseteq Remaining[rel.part]

\* Nothing is under way while the bundle is ready.
ReadyIsQuiet == lc.ready => rel.of = 0 /\ lc.stop = "none"

LifecycleInv ==
    /\ LifecycleTypeOK /\ OneAttempt /\ StageInv /\ StoppedIsOld
    /\ ReleaseInv /\ ReleaseProgress /\ ReadyIsQuiet
    /\ NoOrphanParts /\ ReadyIsComplete

----------------------------------------------------------------------------
(* Initially *)

\* Nothing has been started.
LEMMA InitInv == Init => LifecycleInv
<1> SUFFICES ASSUME Init PROVE LifecycleInv
  OBVIOUS
<1> USE DeliveryLifecycleAssumption
<1>1. LifecycleTypeOK
  <2>1. lc \in Lifecycle
    BY DEF Init, Lifecycle
  <2>2. att \in [Attempts -> [stage : AttemptStage, key : 0..MaxKeys, epoch : Nat]]
    BY DEF Init, AttemptStage
  <2>3. /\ session \in 0..MaxKeys /\ open \in [Attempts -> SUBSET Parts]
        /\ waiters \subseteq Keys
        /\ used \in [starts : 0..MaxStarts, keys : 0..MaxKeys, stops : 0..MaxStops,
                     faults : 0..MaxFaults]
    BY DEF Init
  <2>4. rel \in [of : 0..MaxStarts, part : Parts \cup {"none"}, failed : BOOLEAN,
                 by : {"start", "stop"}]
    BY DEF Init, NoRelease
  <2> QED
    BY <2>1, <2>2, <2>3, <2>4 DEF LifecycleTypeOK
<1>2. OneAttempt /\ StageInv
  BY DEF Init, OneAttempt, Unsettled, StageInv, Attempts
<1>3. StoppedIsOld /\ ReleaseInv /\ ReleaseProgress /\ ReadyIsQuiet
  BY DEF Init, StoppedIsOld, ReleaseInv, ReleaseProgress, ReadyIsQuiet, NoRelease
<1>4. NoOrphanParts /\ ReadyIsComplete
  BY DEF Init, NoOrphanParts, ReadyIsComplete
<1> QED
  BY <1>1, <1>2, <1>3, <1>4 DEF LifecycleInv

----------------------------------------------------------------------------
(* The steps *)

\* A step that leaves attempts, bundles, lifecycle and release alone.
LEMMA StutterKeeps ==
    ASSUME LifecycleInv, LifecycleTypeOK', UNCHANGED <<lc, att, open, rel>>,
           used'.starts = used.starts
    PROVE  LifecycleInv'
BY DEF LifecycleInv, OneAttempt, Unsettled, StageInv, StoppedIsOld, ReleaseInv,
       ReleaseProgress, ReadyIsQuiet, NoOrphanParts, ReadyIsComplete

\* The session of the account changes: only what it is compared with.
LEMMA SessionKeeps ==
    ASSUME LifecycleInv, SessionChanges
    PROVE  LifecycleInv'
<1>1. LifecycleTypeOK' /\ used'.starts = used.starts
  BY DeliveryLifecycleAssumption DEF LifecycleInv, LifecycleTypeOK, SessionChanges
<1> QED
  BY <1>1, StutterKeeps DEF SessionChanges

\* A new attempt: nothing is under way and there is no bundle.
LEMMA NewAttemptKeeps ==
    ASSUME LifecycleInv, NEW k \in Keys, NewAttempt(k),
           waiters' \subseteq Keys, UNCHANGED <<session, open, rel>>
    PROVE  LifecycleInv'
<1> DEFINE a == used.starts + 1
<1> USE DeliveryLifecycleAssumption
<1>t. LifecycleTypeOK
  BY DEF LifecycleInv
<1>1. /\ a \in Attempts /\ a \in 0..MaxStarts /\ used' = [used EXCEPT !.starts = a]
      /\ lc' = [lc EXCEPT !.token = a, !.start = a]
      /\ att' = [att EXCEPT ![a] = [stage |-> "scheduled", key |-> k, epoch |-> lc.epoch]]
      /\ lc.stop = "none" /\ lc.start = 0 /\ lc.resources = 0
  BY <1>t DEF NewAttempt, CanStart, LifecycleTypeOK, Attempts
<1> HIDE DEF a
<1>2. /\ lc'.epoch = lc.epoch /\ lc'.closed = lc.closed /\ lc'.ready = lc.ready
      /\ lc'.resources = 0 /\ lc'.start = a /\ lc'.stop = "none"
  BY <1>t, <1>1 DEF LifecycleTypeOK, Lifecycle
<1>3. /\ \A b \in Attempts \ {a} : att'[b] = att[b]
      /\ att'[a] = [stage |-> "scheduled", key |-> k, epoch |-> lc.epoch]
      /\ lc.epoch \in Nat
  BY <1>t, <1>1 DEF LifecycleTypeOK, Lifecycle
<1>4. \A b \in Attempts : att[b].stage \in {"free", "settled"}
  BY <1>1 DEF LifecycleInv, OneAttempt, Unsettled, Attempts
<1>5. LifecycleTypeOK'
  <2>1. lc' \in Lifecycle
    BY <1>t, <1>1 DEF LifecycleTypeOK, Lifecycle, Attempts
  <2>2. att' \in [Attempts -> [stage : AttemptStage, key : 0..MaxKeys, epoch : Nat]]
    BY <1>t, <1>1, <1>3 DEF LifecycleTypeOK, Keys, AttemptStage
  <2>3. used' \in [starts : 0..MaxStarts, keys : 0..MaxKeys, stops : 0..MaxStops,
                   faults : 0..MaxFaults]
    BY <1>t, <1>1 DEF LifecycleTypeOK, Attempts
  <2> QED
    BY <1>t, <2>1, <2>2, <2>3 DEF LifecycleTypeOK
<1>6. OneAttempt'
  <2>1. \A b \in Attempts : att[b].stage = "free" <=> b > used.starts
    BY DEF LifecycleInv, OneAttempt
  <2>2. used'.starts = used.starts + 1 /\ used.starts \in Nat
    BY <1>t, <1>1 DEF LifecycleTypeOK, a
  <2> QED
    BY <1>1, <1>2, <1>3, <1>4, <2>1, <2>2 DEF OneAttempt, Unsettled, Attempts, a
<1>7. StageInv'
  BY <1>1, <1>2, <1>3, <1>4 DEF LifecycleInv, StageInv
<1>8. StoppedIsOld' /\ ReleaseInv'
  BY <1>t, <1>1, <1>2, <1>3, <1>4
     DEF LifecycleInv, StoppedIsOld, ReleaseInv, LifecycleTypeOK, Attempts
<1>9. ReleaseProgress' /\ ReadyIsQuiet' /\ NoOrphanParts' /\ ReadyIsComplete'
  BY <1>1, <1>2 DEF LifecycleInv, ReleaseProgress, ReadyIsQuiet, NoOrphanParts,
                    ReadyIsComplete
<1> QED
  BY <1>5, <1>6, <1>7, <1>8, <1>9 DEF LifecycleInv

\* A start makes an attempt or waits for the stop.
LEMMA StartKeeps ==
    ASSUME LifecycleInv, Start
    PROVE  LifecycleInv'
<1> USE DeliveryLifecycleAssumption
<1>1. session \in Keys
  BY DEF LifecycleInv, LifecycleTypeOK, Start, Keys
<1>2. CASE NewAttempt(session) /\ UNCHANGED waiters
  BY <1>1, <1>2, NewAttemptKeeps DEF Start, LifecycleInv, LifecycleTypeOK
<1>3. CASE waiters' = waiters \cup {session} /\ UNCHANGED <<lc, att, used>>
  <2>1. LifecycleTypeOK'
    BY <1>1, <1>3 DEF Start, LifecycleInv, LifecycleTypeOK
  <2> QED
    BY <1>3, <2>1, StutterKeeps DEF Start
<1> QED
  BY <1>2, <1>3 DEF Start

\* A start call that waited goes on with its old key.
LEMMA StartResumesKeeps ==
    ASSUME LifecycleInv, StartResumes
    PROVE  LifecycleInv'
<1> USE DeliveryLifecycleAssumption
<1>1. PICK k \in waiters : /\ waiters' = waiters \ {k}
                           /\ NewAttempt(k) \/ UNCHANGED <<lc, att, used>>
  BY DEF StartResumes
<1>2. k \in Keys /\ waiters' \subseteq Keys
  BY <1>1 DEF LifecycleInv, LifecycleTypeOK
<1>3. CASE NewAttempt(k)
  BY <1>2, <1>3, NewAttemptKeeps DEF StartResumes
<1>4. CASE UNCHANGED <<lc, att, used>>
  <2>1. LifecycleTypeOK'
    BY <1>2, <1>4 DEF StartResumes, LifecycleInv, LifecycleTypeOK
  <2> QED
    BY <1>4, <2>1, StutterKeeps DEF StartResumes
<1> QED
  BY <1>1, <1>3, <1>4

\* An attempt goes on: it is current, so no stop is under way.
LEMMA AdvancesKeeps ==
    ASSUME LifecycleInv, NEW a \in Attempts, AttemptAdvances(a)
    PROVE  LifecycleInv'
<1> USE DeliveryLifecycleAssumption
<1>t. LifecycleTypeOK
  BY DEF LifecycleInv
<1>1. /\ att[a].stage \in {"scheduled", "cutover", "recover", "activate"}
      /\ lc.epoch = att[a].epoch /\ lc.token = a /\ a # 0 /\ a \in 0..MaxStarts
      /\ UNCHANGED <<session, rel, waiters, used>>
  BY DEF AttemptAdvances, AssertAttemptCurrent, IsCurrent, StageAfter, Attempts
<1>2. lc.start = a /\ lc.stop = "none"
  <2>1. lc.start = a
    BY <1>1 DEF LifecycleInv, OneAttempt, Unsettled
  <2>2. lc.epoch \in Nat
    BY <1>t DEF LifecycleTypeOK, Lifecycle
  <2> QED
    BY <1>1, <2>1, <2>2 DEF LifecycleInv, StoppedIsOld
<1>3. rel.of = 0
  BY <1>t, <1>1, <1>2 DEF LifecycleInv, ReleaseInv, LifecycleTypeOK
<1>4. \A b \in Attempts \ {a} : /\ att'[b] = att[b] /\ open'[b] = open[b]
                                /\ att[b].stage \in {"free", "settled"}
  BY <1>t, <1>1, <1>2 DEF AttemptAdvances, LifecycleTypeOK, LifecycleInv, OneAttempt,
                          Unsettled, Attempts
<1>5. /\ att'[a].key = att[a].key /\ att'[a].epoch = att[a].epoch
      /\ att'[a].stage = StageAfter[att[a].stage]
      /\ open'[a] = open[a] \cup PartsAfter[att[a].stage]
  BY <1>t, <1>1 DEF AttemptAdvances, LifecycleTypeOK
<1>6. CASE att[a].stage = "scheduled"
  <2>1. /\ att'[a].stage = "cutover" /\ lc.resources = 0
        /\ lc' = [lc EXCEPT !.resources = a]
    BY <1>5, <1>6 DEF AttemptAdvances, StageAfter, LifecycleInv, StageInv
  <2>2. /\ lc'.epoch = lc.epoch /\ lc'.closed = lc.closed /\ lc'.ready = lc.ready
        /\ lc'.resources = a /\ lc'.start = lc.start /\ lc'.stop = lc.stop
        /\ lc' \in Lifecycle
    BY <1>t, <1>1, <2>1 DEF LifecycleTypeOK, Lifecycle
  <2>3. LifecycleTypeOK'
    <3>1. att' \in [Attempts -> [stage : AttemptStage, key : 0..MaxKeys, epoch : Nat]]
      BY <1>t, <1>1, <1>6, <2>1 DEF AttemptAdvances, LifecycleTypeOK, AttemptStage, StageAfter
    <3>2. open' \in [Attempts -> SUBSET Parts]
      BY <1>t, <1>6 DEF AttemptAdvances, LifecycleTypeOK, PartsAfter, Parts
    <3> QED
      BY <1>t, <1>1, <2>2, <3>1, <3>2 DEF LifecycleTypeOK
  <2>4. OneAttempt' /\ StageInv' /\ StoppedIsOld'
    BY <1>1, <1>2, <1>4, <1>5, <1>6, <2>1, <2>2
       DEF LifecycleInv, OneAttempt, Unsettled, StageInv, StoppedIsOld, Attempts
  <2>5. ReleaseInv' /\ ReleaseProgress'
    BY <1>1, <1>2, <1>3, <1>4, <2>1, <2>2 DEF LifecycleInv, ReleaseInv, ReleaseProgress
  <2>6. ReadyIsQuiet' /\ NoOrphanParts' /\ ReadyIsComplete'
    <3>1. ~lc'.ready
      BY <2>1, <2>2 DEF LifecycleInv, ReadyIsComplete
    <3>2. \A b \in Attempts \ {a} : open'[b] = {}
      BY <1>1, <1>4, <2>1 DEF LifecycleInv, NoOrphanParts, Attempts
    <3> QED
      BY <2>2, <3>1, <3>2 DEF ReadyIsQuiet, NoOrphanParts, ReadyIsComplete
  <2> QED
    BY <2>3, <2>4, <2>5, <2>6 DEF LifecycleInv
<1>7. CASE att[a].stage \in {"cutover", "recover"}
  <2>1. /\ att'[a].stage \in {"recover", "activate"} /\ lc.resources = a /\ lc' = lc
    BY <1>5, <1>7 DEF AttemptAdvances, StageAfter, LifecycleInv, StageInv
  <2>2. open'[a] = Parts
    BY <1>t, <1>5, <1>7 DEF PartsAfter, LifecycleTypeOK
  <2>3. LifecycleTypeOK'
    <3>1. att' \in [Attempts -> [stage : AttemptStage, key : 0..MaxKeys, epoch : Nat]]
      BY <1>t, <1>1, <1>7, <2>1 DEF AttemptAdvances, LifecycleTypeOK, AttemptStage, StageAfter
    <3>2. open' \in [Attempts -> SUBSET Parts]
      BY <1>t, <1>7 DEF AttemptAdvances, LifecycleTypeOK, PartsAfter, Parts
    <3> QED
      BY <1>t, <1>1, <2>1, <3>1, <3>2 DEF LifecycleTypeOK
  <2>4. OneAttempt' /\ StageInv' /\ StoppedIsOld'
    BY <1>1, <1>2, <1>4, <1>5, <1>7, <2>1, <2>2
       DEF LifecycleInv, OneAttempt, Unsettled, StageInv, StoppedIsOld, Attempts
  <2>5. ReleaseInv' /\ ReleaseProgress'
    BY <1>1, <1>2, <1>3, <1>4, <2>1 DEF LifecycleInv, ReleaseInv, ReleaseProgress
  <2>6. ReadyIsQuiet' /\ NoOrphanParts' /\ ReadyIsComplete'
    BY <1>1, <1>4, <2>1, <2>2
       DEF LifecycleInv, ReadyIsQuiet, NoOrphanParts, ReadyIsComplete
  <2> QED
    BY <2>3, <2>4, <2>5, <2>6 DEF LifecycleInv
<1>8. CASE att[a].stage = "activate"
  <2>1. /\ att'[a].stage = "settled" /\ lc.resources = a /\ open[a] = Parts
        /\ lc' = Settled([lc EXCEPT !.ready = TRUE], a)
    BY <1>5, <1>8 DEF AttemptAdvances, StageAfter, LifecycleInv, StageInv
  <2>2. /\ lc'.epoch = lc.epoch /\ lc'.closed = lc.closed /\ lc'.ready = TRUE
        /\ lc'.resources = a /\ lc'.start = 0 /\ lc'.stop = lc.stop
        /\ lc' \in Lifecycle
    <3>1. lc' = [lc EXCEPT !.ready = TRUE, !.start = 0, !.token = a]
      BY <1>t, <1>1, <1>2, <2>1 DEF LifecycleTypeOK, Lifecycle, Settled
    <3>2. 0 \in 0..MaxStarts
      OBVIOUS
    <3> QED
      BY <1>t, <1>1, <2>1, <3>1, <3>2 DEF LifecycleTypeOK, Lifecycle
  <2>3. open'[a] = Parts
    BY <1>5, <1>8, <2>1 DEF PartsAfter
  <2>4. LifecycleTypeOK'
    <3>1. att' \in [Attempts -> [stage : AttemptStage, key : 0..MaxKeys, epoch : Nat]]
      BY <1>t, <1>1, <1>8, <2>1 DEF AttemptAdvances, LifecycleTypeOK, AttemptStage, StageAfter
    <3>2. open' \in [Attempts -> SUBSET Parts]
      BY <1>t, <1>8 DEF AttemptAdvances, LifecycleTypeOK, PartsAfter, Parts
    <3> QED
      BY <1>t, <1>1, <2>2, <3>1, <3>2 DEF LifecycleTypeOK
  <2>5. OneAttempt'
    BY <1>1, <1>4, <1>8, <2>1, <2>2 DEF LifecycleInv, OneAttempt, Unsettled, Attempts
  <2>6. StageInv' /\ StoppedIsOld'
    BY <1>1, <1>2, <1>4, <1>5, <1>8, <2>1, <2>2 DEF LifecycleInv, StageInv, StoppedIsOld
  <2>7. ReleaseInv' /\ ReleaseProgress'
    BY <1>1, <1>2, <1>3, <1>4, <2>1, <2>2 DEF LifecycleInv, ReleaseInv, ReleaseProgress
  <2>8. ReadyIsQuiet' /\ NoOrphanParts' /\ ReadyIsComplete'
    BY ZenonT(30), <1>1, <1>2, <1>3, <1>4, <2>1, <2>2, <2>3
       DEF LifecycleInv, ReadyIsQuiet, NoOrphanParts, ReadyIsComplete
  <2> QED
    BY <2>4, <2>5, <2>6, <2>7, <2>8 DEF LifecycleInv
<1> QED
  BY <1>1, <1>6, <1>7, <1>8

\* An attempt fails: it releases the bundle it owns, or settles.
LEMMA FailsKeeps ==
    ASSUME LifecycleInv, NEW a \in Attempts, AttemptFails(a)
    PROVE  LifecycleInv'
<1> USE DeliveryLifecycleAssumption
<1>t. LifecycleTypeOK
  BY DEF LifecycleInv
<1>1. /\ att[a].stage \in {"scheduled", "cutover", "recover", "activate"} /\ a # 0
      /\ UNCHANGED <<session, open, waiters>>
      /\ a \in 0..MaxStarts
  BY DEF AttemptFails, StageAfter, Attempts
<1>2. /\ lc.start = a /\ lc.stop # "release"
  BY <1>t, <1>1 DEF LifecycleInv, OneAttempt, Unsettled, StoppedIsOld, LifecycleTypeOK,
                    Lifecycle, Attempts
<1>3. rel.of = 0
  BY <1>t, <1>1, <1>2 DEF LifecycleInv, ReleaseInv, LifecycleTypeOK
<1>4. /\ used'.starts = used.starts
      /\ used' \in [starts : 0..MaxStarts, keys : 0..MaxKeys, stops : 0..MaxStops,
                    faults : 0..MaxFaults]
  BY <1>t DEF AttemptFails, Fault, LifecycleTypeOK
<1>5. \A b \in Attempts \ {a} : att'[b] = att[b] /\ att[b].stage \in {"free", "settled"}
  BY SMTT(30), <1>t, <1>1, <1>2 DEF AttemptFails, Fails, LifecycleTypeOK, LifecycleInv, OneAttempt,
                          Unsettled, Attempts
<1>6. CASE lc.resources = a
  <2>1. /\ lc' = [lc EXCEPT !.ready = FALSE, !.token = IF @ = a THEN 0 ELSE @]
        /\ att' = [att EXCEPT ![a].stage = "cleanup"]
        /\ rel' = [of |-> a, part |-> "analyzer", failed |-> FALSE, by |-> "start"]
    BY <1>6 DEF AttemptFails, Fails
  <2>2. /\ lc'.epoch = lc.epoch /\ lc'.closed = lc.closed /\ lc'.ready = FALSE
        /\ lc'.resources = a /\ lc'.start = a /\ lc'.stop = lc.stop
        /\ lc' \in Lifecycle
    <3>1. PICK t \in 0..MaxStarts : lc' = [lc EXCEPT !.ready = FALSE, !.token = t]
      <4>1. lc.token \in 0..MaxStarts /\ 0 \in 0..MaxStarts
        BY <1>t DEF LifecycleTypeOK, Lifecycle
      <4> QED
        BY <2>1, <4>1
    <3> QED
      BY <1>t, <1>2, <1>6, <3>1 DEF LifecycleTypeOK, Lifecycle
  <2>3. /\ att'[a].key = att[a].key /\ att'[a].epoch = att[a].epoch
        /\ att'[a].stage = "cleanup"
    BY <1>t, <2>1 DEF LifecycleTypeOK
  <2>4. LifecycleTypeOK'
    <3>1. att' \in [Attempts -> [stage : AttemptStage, key : 0..MaxKeys, epoch : Nat]]
      BY <1>t, <2>1 DEF LifecycleTypeOK, AttemptStage
    <3>2. rel' \in [of : 0..MaxStarts, part : Parts \cup {"none"}, failed : BOOLEAN,
                    by : {"start", "stop"}]
      BY <1>1, <2>1 DEF Parts
    <3> QED
      BY <1>t, <1>1, <1>4, <2>2, <3>1, <3>2 DEF LifecycleTypeOK
  <2>5. OneAttempt' /\ StageInv' /\ StoppedIsOld'
    BY <1>1, <1>2, <1>4, <1>5, <1>6, <2>2, <2>3
       DEF LifecycleInv, OneAttempt, Unsettled, StageInv, StoppedIsOld, Attempts
  <2>6. ReleaseInv' /\ ReleaseProgress'
    <3>1. open[a] \subseteq Parts
      BY <1>t DEF LifecycleTypeOK
    <3> QED
      BY <1>1, <2>1, <2>2, <2>3, <3>1 DEF ReleaseInv, ReleaseProgress, Remaining
  <2>7. ReadyIsQuiet' /\ NoOrphanParts' /\ ReadyIsComplete'
    BY <1>1, <1>6, <2>2 DEF LifecycleInv, ReadyIsQuiet, NoOrphanParts, ReadyIsComplete
  <2> QED
    BY <2>4, <2>5, <2>6, <2>7 DEF LifecycleInv
<1>7. CASE lc.resources # a
  <2>1. /\ lc' = Settled([lc EXCEPT !.ready = FALSE, !.token = IF @ = a THEN 0 ELSE @], a)
        /\ att' = [att EXCEPT ![a].stage = "settled"] /\ rel' = rel
    BY <1>7 DEF AttemptFails, Fails
  <2>2. att[a].stage = "scheduled" /\ lc.resources = 0
    BY <1>1, <1>7 DEF LifecycleInv, StageInv
  <2>3. /\ lc'.epoch = lc.epoch /\ lc'.closed = lc.closed /\ lc'.ready = FALSE
        /\ lc'.resources = 0 /\ lc'.start = 0 /\ lc'.stop = lc.stop
        /\ lc' \in Lifecycle
    BY <1>t, <1>2, <2>1, <2>2 DEF LifecycleTypeOK, Lifecycle, Settled
  <2>4. /\ att'[a].key = att[a].key /\ att'[a].epoch = att[a].epoch
        /\ att'[a].stage = "settled"
    BY <1>t, <2>1 DEF LifecycleTypeOK
  <2>5. LifecycleTypeOK'
    <3>1. att' \in [Attempts -> [stage : AttemptStage, key : 0..MaxKeys, epoch : Nat]]
      BY <1>t, <2>1 DEF LifecycleTypeOK, AttemptStage
    <3> QED
      BY <1>t, <1>1, <1>4, <2>1, <2>3, <3>1 DEF LifecycleTypeOK
  <2>6. OneAttempt' /\ StageInv' /\ StoppedIsOld'
    BY <1>1, <1>2, <1>4, <1>5, <2>2, <2>3, <2>4
       DEF LifecycleInv, OneAttempt, Unsettled, StageInv, StoppedIsOld, Attempts
  <2>7. ReleaseInv' /\ ReleaseProgress'
    BY <1>1, <1>2, <1>3, <1>5, <2>1, <2>3, <2>4 DEF LifecycleInv, ReleaseInv, ReleaseProgress
  <2>8. ReadyIsQuiet' /\ NoOrphanParts' /\ ReadyIsComplete'
    BY <1>1, <2>2, <2>3 DEF LifecycleInv, ReadyIsQuiet, NoOrphanParts, ReadyIsComplete
  <2> QED
    BY <2>5, <2>6, <2>7, <2>8 DEF LifecycleInv
<1> QED
  BY <1>6, <1>7

\* A stop makes the epoch of an attempt that is under way an old one.
LEMMA StopKeeps ==
    ASSUME LifecycleInv, Stop
    PROVE  LifecycleInv'
<1> USE DeliveryLifecycleAssumption
<1>t. LifecycleTypeOK
  BY DEF LifecycleInv
<1>1. /\ lc' = [lc EXCEPT !.epoch = @ + 1, !.ready = FALSE, !.stop = "join"]
      /\ UNCHANGED <<session, att, open, rel, waiters>> /\ lc.stop = "none"
  BY DEF Stop
<1>2. /\ lc'.epoch = lc.epoch + 1 /\ lc.epoch \in Nat /\ ~lc'.ready
      /\ lc'.resources = lc.resources /\ lc'.start = lc.start /\ lc'.stop = "join"
      /\ lc' \in Lifecycle /\ lc.start \in 0..MaxStarts
  <2>1. lc \in Lifecycle /\ lc.epoch \in Nat /\ lc.epoch + 1 \in Nat
    BY <1>t DEF LifecycleTypeOK, Lifecycle
  <2> QED
    BY <1>1, <2>1 DEF Lifecycle
<1>3. /\ used'.starts = used.starts
      /\ used' \in [starts : 0..MaxStarts, keys : 0..MaxKeys, stops : 0..MaxStops,
                    faults : 0..MaxFaults]
  BY <1>t DEF Stop, LifecycleTypeOK
<1>4. \A b \in Attempts : att[b].epoch \in Nat
  BY <1>t DEF LifecycleTypeOK
<1>5. LifecycleTypeOK'
  BY <1>t, <1>1, <1>2, <1>3 DEF LifecycleTypeOK
<1>6. OneAttempt' /\ StageInv'
  BY <1>1, <1>2, <1>3, <1>4 DEF LifecycleInv, OneAttempt, Unsettled, StageInv
<1>7. StoppedIsOld'
  <2>1. lc.start # 0 => att[lc.start].epoch <= lc.epoch /\ lc.start \in Attempts
    BY <1>2 DEF LifecycleInv, OneAttempt, Unsettled, StageInv, Attempts
  <2> QED
    BY <1>1, <1>2, <1>4, <2>1 DEF StoppedIsOld
<1>8. ReleaseInv' /\ ReleaseProgress' /\ ReadyIsQuiet' /\ NoOrphanParts' /\ ReadyIsComplete'
  BY <1>1, <1>2 DEF LifecycleInv, ReleaseInv, ReleaseProgress, ReadyIsQuiet, NoOrphanParts,
                    ReadyIsComplete
<1> QED
  BY <1>5, <1>6, <1>7, <1>8 DEF LifecycleInv

\* The start operation has settled: the stop releases the bundle, or ends.
LEMMA StopJoinsKeeps ==
    ASSUME LifecycleInv, StopJoins
    PROVE  LifecycleInv'
<1> USE DeliveryLifecycleAssumption
<1>t. LifecycleTypeOK
  BY DEF LifecycleInv
<1>1. /\ lc.stop = "join" /\ lc.start = 0 /\ ~lc.ready
      /\ UNCHANGED <<session, att, open, waiters, used>>
  BY DEF StopJoins, LifecycleInv, ReadyIsQuiet
<1>2. \A b \in Attempts : att[b].stage \in {"free", "settled"}
  BY <1>1 DEF LifecycleInv, OneAttempt, Unsettled, Attempts
<1>3. rel.of = 0
  BY <1>t, <1>1 DEF LifecycleInv, ReleaseInv, LifecycleTypeOK
<1>4. PICK s \in {"none", "release"} : lc' = [lc EXCEPT !.stop = s]
  BY DEF StopJoins
<1>5. /\ lc'.epoch = lc.epoch /\ ~lc'.ready /\ lc'.resources = lc.resources
      /\ lc'.start = 0 /\ lc' \in Lifecycle /\ lc'.stop = s
  BY <1>t, <1>1, <1>4 DEF LifecycleTypeOK, Lifecycle
<1>6. OneAttempt' /\ StageInv' /\ StoppedIsOld'
  BY <1>1, <1>2, <1>5 DEF LifecycleInv, OneAttempt, Unsettled, StageInv, StoppedIsOld
<1>7. ReadyIsQuiet' /\ NoOrphanParts' /\ ReadyIsComplete'
  BY <1>1, <1>5 DEF LifecycleInv, ReadyIsQuiet, NoOrphanParts, ReadyIsComplete
<1>8. CASE lc.resources = 0
  <2>1. rel' = rel /\ lc'.stop = "none"
    BY <1>t, <1>8 DEF StopJoins, LifecycleTypeOK, Lifecycle
  <2>2. LifecycleTypeOK' /\ ReleaseInv' /\ ReleaseProgress'
    BY <1>t, <1>1, <1>3, <1>5, <2>1
       DEF LifecycleInv, LifecycleTypeOK, ReleaseInv, ReleaseProgress
  <2> QED
    BY <1>6, <1>7, <2>2 DEF LifecycleInv
<1>9. CASE lc.resources # 0
  <2>1. /\ rel' = [of |-> lc.resources, part |-> "analyzer", failed |-> FALSE, by |-> "stop"]
        /\ lc'.stop = "release" /\ lc.resources \in 0..MaxStarts /\ lc.resources \in Attempts
    BY <1>t, <1>9 DEF StopJoins, LifecycleTypeOK, Lifecycle, Attempts
  <2>2. LifecycleTypeOK'
    <3>1. rel' \in [of : 0..MaxStarts, part : Parts \cup {"none"}, failed : BOOLEAN,
                    by : {"start", "stop"}]
      BY <2>1 DEF Parts
    <3> QED
      BY <1>t, <1>1, <1>5, <3>1 DEF LifecycleTypeOK
  <2>3. ReleaseInv' /\ ReleaseProgress'
    <3>1. open[lc.resources] \subseteq Parts
      BY <1>t, <2>1 DEF LifecycleTypeOK
    <3> QED
      BY <1>1, <1>2, <1>5, <1>9, <2>1, <3>1 DEF ReleaseInv, ReleaseProgress, Remaining
  <2> QED
    BY <1>6, <1>7, <2>2, <2>3 DEF LifecycleInv
<1> QED
  BY <1>8, <1>9

\* Close makes the epoch an old one, too.
LEMMA CloseKeeps ==
    ASSUME LifecycleInv, Close
    PROVE  LifecycleInv'
<1> USE DeliveryLifecycleAssumption
<1>t. LifecycleTypeOK
  BY DEF LifecycleInv
<1>1. /\ lc' = [lc EXCEPT !.closed = TRUE, !.epoch = @ + 1, !.ready = FALSE]
      /\ UNCHANGED <<session, att, open, rel, waiters, used>>
  BY DEF Close
<1>2. /\ lc'.epoch = lc.epoch + 1 /\ lc.epoch \in Nat /\ ~lc'.ready
      /\ lc'.resources = lc.resources /\ lc'.start = lc.start /\ lc'.stop = lc.stop
      /\ lc' \in Lifecycle /\ lc.start \in 0..MaxStarts
  <2>1. lc \in Lifecycle /\ lc.epoch \in Nat /\ lc.epoch + 1 \in Nat
    BY <1>t DEF LifecycleTypeOK, Lifecycle
  <2> QED
    BY <1>1, <2>1 DEF Lifecycle
<1>3. \A b \in Attempts : att[b].epoch \in Nat
  BY <1>t DEF LifecycleTypeOK
<1>4. LifecycleTypeOK'
  BY <1>t, <1>1, <1>2 DEF LifecycleTypeOK
<1>5. OneAttempt' /\ StageInv'
  BY <1>1, <1>2, <1>3 DEF LifecycleInv, OneAttempt, Unsettled, StageInv
<1>6. StoppedIsOld'
  <2>1. lc.start # 0 => lc.start \in Attempts
    BY <1>2 DEF Attempts
  <2> QED
    BY <1>1, <1>2, <1>3, <2>1 DEF LifecycleInv, StoppedIsOld
<1>7. ReleaseInv' /\ ReleaseProgress' /\ ReadyIsQuiet' /\ NoOrphanParts' /\ ReadyIsComplete'
  BY <1>1, <1>2 DEF LifecycleInv, ReleaseInv, ReleaseProgress, ReadyIsQuiet, NoOrphanParts,
                    ReadyIsComplete
<1> QED
  BY <1>4, <1>5, <1>6, <1>7 DEF LifecycleInv

\* The next part is stopped, or throws: what is left shrinks either way.
LEMMA ReleasePartKeeps ==
    ASSUME LifecycleInv, ReleasePart
    PROVE  LifecycleInv'
<1> USE DeliveryLifecycleAssumption
<1>t. LifecycleTypeOK
  BY DEF LifecycleInv
<1>1. /\ rel.of # 0 /\ rel.part \in Parts /\ rel.of \in Attempts
      /\ UNCHANGED <<session, lc, att, waiters>>
  BY <1>t DEF ReleasePart, LifecycleTypeOK, Attempts
<1>2. /\ lc.resources = rel.of /\ ~lc.ready
      /\ \A b \in Attempts : att[b].stage \notin {"recover", "activate"}
  <2>1. lc.resources = rel.of /\ ~lc.ready
    BY <1>1 DEF LifecycleInv, ReleaseInv, ReadyIsQuiet
  <2>2. CASE rel.by = "start"
    <3>1. lc.start = rel.of /\ att[rel.of].stage = "cleanup"
      BY <1>1, <2>2 DEF LifecycleInv, ReleaseInv
    <3>2. \A b \in Attempts : b # rel.of => att[b].stage \in {"free", "settled"}
      BY <3>1 DEF LifecycleInv, OneAttempt, Unsettled
    <3> QED
      BY <2>1, <3>1, <3>2
  <2>3. CASE rel.by = "stop"
    <3>1. lc.start = 0
      BY <1>1, <2>3 DEF LifecycleInv, ReleaseInv, StoppedIsOld
    <3>2. \A b \in Attempts : att[b].stage \in {"free", "settled"}
      BY <3>1 DEF LifecycleInv, OneAttempt, Unsettled, Attempts
    <3> QED
      BY <2>1, <3>2
  <2> QED
    BY <1>t, <2>1, <2>2, <2>3 DEF LifecycleTypeOK
<1>3. /\ rel'.of = rel.of /\ rel'.by = rel.by /\ rel'.part = PartAfter[rel.part]
      /\ rel' \in [of : 0..MaxStarts, part : Parts \cup {"none"}, failed : BOOLEAN,
                   by : {"start", "stop"}]
  <2>1. PartAfter[rel.part] \in Parts \cup {"none"}
    BY <1>1 DEF PartAfter, Parts
  <2>2. PICK f \in BOOLEAN : rel' = [rel EXCEPT !.part = PartAfter[rel.part], !.failed = f]
    <3>1. CASE rel' = [rel EXCEPT !.part = PartAfter[@]]
      <4>1. rel' = [rel EXCEPT !.part = PartAfter[rel.part], !.failed = rel.failed]
        BY <1>t, <3>1 DEF LifecycleTypeOK
      <4> QED
        BY <1>t, <4>1 DEF LifecycleTypeOK
    <3>2. CASE rel' = [rel EXCEPT !.part = PartAfter[@], !.failed = TRUE]
      BY <3>2
    <3> QED
      BY <3>1, <3>2 DEF ReleasePart
  <2> QED
    BY <1>t, <2>1, <2>2 DEF LifecycleTypeOK
<1>4. /\ used'.starts = used.starts
      /\ used' \in [starts : 0..MaxStarts, keys : 0..MaxKeys, stops : 0..MaxStops,
                    faults : 0..MaxFaults]
  BY <1>t DEF ReleasePart, Fault, LifecycleTypeOK
<1>5. /\ \A b \in Attempts : open'[b] \subseteq open[b]
      /\ open' \in [Attempts -> SUBSET Parts]
      /\ ~rel'.failed => open'[rel.of] = open[rel.of] \ {rel.part} /\ ~rel.failed
  <2>1. CASE /\ open' = [open EXCEPT ![rel.of] = @ \ {rel.part}]
             /\ rel' = [rel EXCEPT !.part = PartAfter[@]]
    BY <1>t, <1>1, <2>1 DEF LifecycleTypeOK
  <2>2. CASE /\ rel' = [rel EXCEPT !.part = PartAfter[@], !.failed = TRUE]
             /\ open' = open
    BY <1>t, <1>1, <2>2 DEF LifecycleTypeOK
  <2> QED
    BY <2>1, <2>2 DEF ReleasePart
<1>6. LifecycleTypeOK'
  BY <1>t, <1>1, <1>3, <1>4, <1>5 DEF LifecycleTypeOK
<1>7. OneAttempt' /\ StageInv' /\ StoppedIsOld'
  BY <1>1, <1>2, <1>4 DEF LifecycleInv, OneAttempt, Unsettled, StageInv, StoppedIsOld
<1>8. ReleaseInv'
  BY <1>1, <1>3 DEF LifecycleInv, ReleaseInv
<1>9. ReleaseProgress'
  <2>1. Remaining[rel.part] \ {rel.part} = Remaining[PartAfter[rel.part]]
    BY <1>1 DEF Remaining, PartAfter, Parts
  <2> QED
    BY <1>1, <1>3, <1>5, <2>1 DEF LifecycleInv, ReleaseProgress
<1>10. ReadyIsQuiet' /\ NoOrphanParts' /\ ReadyIsComplete'
  <2>1. \A b \in Attempts : open[b] = {} => open'[b] = {}
    BY <1>5
  <2> QED
    BY <1>1, <1>2, <2>1 DEF LifecycleInv, ReadyIsQuiet, NoOrphanParts, ReadyIsComplete
<1> QED
  BY <1>6, <1>7, <1>8, <1>9, <1>10 DEF LifecycleInv

\* A release ends: the bundle is forgotten, or a failed one stays.
LEMMA ReleaseEndsKeeps ==
    ASSUME LifecycleInv, ReleaseEnds
    PROVE  LifecycleInv'
<1> USE DeliveryLifecycleAssumption
<1>t. LifecycleTypeOK
  BY DEF LifecycleInv
<1>1. /\ rel.of # 0 /\ rel.part = "none" /\ rel.of \in Attempts /\ rel' = NoRelease
      /\ UNCHANGED <<session, open, used>> /\ lc.resources = rel.of /\ ~lc.ready
  BY <1>t DEF ReleaseEnds, LifecycleInv, ReleaseInv, ReadyIsQuiet, LifecycleTypeOK, Attempts
<1>2. ~rel.failed => \A b \in Attempts : open[b] = {}
  <2>1. ~rel.failed => open[rel.of] = {}
    BY <1>1 DEF LifecycleInv, ReleaseProgress, Remaining
  <2> QED
    BY <1>1, <2>1 DEF LifecycleInv, NoOrphanParts
<1>3. NoRelease \in [of : 0..MaxStarts, part : Parts \cup {"none"}, failed : BOOLEAN,
                     by : {"start", "stop"}]
  BY DEF NoRelease
<1>4. PICK r \in {0, rel.of}, t \in 0..MaxStarts :
        /\ Released(lc) = [lc EXCEPT !.resources = r, !.token = t, !.ready = FALSE]
        /\ r = 0 => ~rel.failed
  <2>1. CASE rel.failed
    <3>1. Released(lc) = [lc EXCEPT !.resources = rel.of, !.token = lc.token, !.ready = FALSE]
      BY <1>t, <1>1, <2>1 DEF Released, LifecycleTypeOK, Lifecycle
    <3> QED
      BY <1>t, <1>1, <3>1 DEF LifecycleTypeOK, Lifecycle
  <2>2. CASE ~rel.failed
    <3>1. Released(lc) = [lc EXCEPT !.resources = 0, !.token = 0, !.ready = FALSE]
      BY <1>1, <2>2 DEF Released
    <3>2. 0 \in 0..MaxStarts
      OBVIOUS
    <3> QED
      BY <2>2, <3>1, <3>2
  <2> QED
    BY <2>1, <2>2
<1>5. CASE rel.by = "stop"
  <2>1. /\ lc' = [lc EXCEPT !.resources = r, !.token = t, !.ready = FALSE, !.stop = "none"]
        /\ att' = att /\ waiters' \in {{}, waiters}
    BY <1>t, <1>4, <1>5 DEF ReleaseEnds, LifecycleTypeOK, Lifecycle
  <2>2. lc.start = 0
    BY <1>1, <1>5 DEF LifecycleInv, ReleaseInv, StoppedIsOld
  <2>3. /\ lc'.epoch = lc.epoch /\ ~lc'.ready /\ lc'.resources = r
        /\ lc'.start = 0 /\ lc' \in Lifecycle /\ lc'.stop = "none"
    <3>1. r \in 0..MaxStarts
      BY <1>1 DEF Attempts
    <3> QED
      BY <1>t, <2>1, <2>2, <3>1 DEF LifecycleTypeOK, Lifecycle
  <2>4. \A b \in Attempts : att[b].stage \in {"free", "settled"}
    BY <2>2 DEF LifecycleInv, OneAttempt, Unsettled, Attempts
  <2>5. LifecycleTypeOK'
    BY <1>t, <1>1, <1>3, <2>1, <2>3 DEF LifecycleTypeOK
  <2>6. OneAttempt' /\ StageInv' /\ StoppedIsOld'
    BY <1>1, <2>1, <2>2, <2>3, <2>4
       DEF LifecycleInv, OneAttempt, Unsettled, StageInv, StoppedIsOld
  <2>7. ReleaseInv' /\ ReleaseProgress'
    BY <1>1, <2>1, <2>3, <2>4 DEF ReleaseInv, ReleaseProgress, NoRelease
  <2>8. ReadyIsQuiet' /\ NoOrphanParts' /\ ReadyIsComplete'
    BY <1>1, <1>2, <1>4, <2>3
       DEF LifecycleInv, ReadyIsQuiet, NoOrphanParts, ReadyIsComplete
  <2> QED
    BY <2>5, <2>6, <2>7, <2>8 DEF LifecycleInv
<1>6. CASE rel.by # "stop"
  <2>1. rel.by = "start"
    BY <1>t, <1>6 DEF LifecycleTypeOK
  <2>2. /\ lc' = Settled(Released(lc), rel.of) /\ waiters' = waiters
        /\ att' = [att EXCEPT ![rel.of].stage = "settled"]
        /\ lc.start = rel.of /\ att[rel.of].stage = "cleanup" /\ lc.stop # "release"
    BY <1>1, <1>6, <2>1 DEF ReleaseEnds, LifecycleInv, ReleaseInv, StoppedIsOld
  <2>3. PICK u \in 0..MaxStarts :
          lc' = [lc EXCEPT !.resources = r, !.token = u, !.ready = FALSE, !.start = 0]
    <3>1. Released(lc).start = rel.of /\ Released(lc).token = t
      BY <1>t, <1>4, <2>2 DEF LifecycleTypeOK, Lifecycle
    <3>2. PICK u \in {0, t} : lc' = [Released(lc) EXCEPT !.start = 0, !.token = u]
      BY <2>2, <3>1 DEF Settled
    <3>3. lc' = [lc EXCEPT !.resources = r, !.token = u, !.ready = FALSE, !.start = 0]
      BY <1>t, <1>4, <3>2 DEF LifecycleTypeOK, Lifecycle
    <3>4. u \in 0..MaxStarts
      OBVIOUS
    <3> QED
      BY <3>3, <3>4
  <2>4. /\ lc'.epoch = lc.epoch /\ ~lc'.ready /\ lc'.resources = r
        /\ lc'.start = 0 /\ lc' \in Lifecycle /\ lc'.stop = lc.stop
    <3>1. r \in 0..MaxStarts /\ 0 \in 0..MaxStarts
      BY <1>1 DEF Attempts
    <3>2. lc \in Lifecycle
      BY <1>t DEF LifecycleTypeOK
    <3>3. /\ lc'.epoch = lc.epoch /\ ~lc'.ready /\ lc'.resources = r
          /\ lc'.start = 0 /\ lc'.stop = lc.stop
      BY <2>3, <3>2 DEF Lifecycle
    <3>4. lc' \in Lifecycle
      BY <2>3, <3>1, <3>2 DEF Lifecycle
    <3> QED
      BY <3>3, <3>4
  <2>5. /\ \A b \in Attempts \ {rel.of} : /\ att'[b] = att[b]
                                          /\ att[b].stage \in {"free", "settled"}
        /\ att'[rel.of].key = att[rel.of].key /\ att'[rel.of].epoch = att[rel.of].epoch
        /\ att'[rel.of].stage = "settled"
    BY <1>t, <1>1, <2>2 DEF LifecycleTypeOK, LifecycleInv, OneAttempt, Unsettled
  <2>6. LifecycleTypeOK'
    <3>1. att' \in [Attempts -> [stage : AttemptStage, key : 0..MaxKeys, epoch : Nat]]
      BY ZenonT(30), <1>t, <2>2 DEF LifecycleTypeOK, AttemptStage
    <3> QED
      BY <1>t, <1>1, <1>3, <2>2, <2>4, <3>1 DEF LifecycleTypeOK
  <2>7. OneAttempt' /\ StageInv' /\ StoppedIsOld'
    BY <1>1, <2>2, <2>4, <2>5
       DEF LifecycleInv, OneAttempt, Unsettled, StageInv, StoppedIsOld, Attempts
  <2>8. ReleaseInv' /\ ReleaseProgress'
    BY <1>1, <2>2, <2>4, <2>5 DEF ReleaseInv, ReleaseProgress, NoRelease
  <2>9. ReadyIsQuiet' /\ NoOrphanParts' /\ ReadyIsComplete'
    BY <1>1, <1>2, <1>4, <2>4
       DEF LifecycleInv, ReadyIsQuiet, NoOrphanParts, ReadyIsComplete
  <2> QED
    BY <2>6, <2>7, <2>8, <2>9 DEF LifecycleInv
<1> QED
  BY <1>5, <1>6

\* Every step keeps the invariant.
LEMMA NextKeeps == LifecycleInv /\ [Next]_vars => LifecycleInv'
<1> SUFFICES ASSUME LifecycleInv, [Next]_vars PROVE LifecycleInv'
  OBVIOUS
<1>1. CASE Next
  BY <1>1, SessionKeeps, StartKeeps, StartResumesKeeps, AdvancesKeeps, FailsKeeps, StopKeeps,
     StopJoinsKeeps, CloseKeeps, ReleasePartKeeps, ReleaseEndsKeeps DEF Next, AttemptSteps
<1>2. CASE UNCHANGED vars
  BY <1>2, StutterKeeps DEF vars, LifecycleInv, LifecycleTypeOK
<1> QED
  BY <1>1, <1>2

\* The invariant holds in every state of a behaviour.
LEMMA LifecycleInvHolds == Spec => []LifecycleInv
<1> QED
  BY InitInv, NextKeeps, PTL DEF Spec

----------------------------------------------------------------------------
(* The theorems *)

\* No part of a bundle is ever open that the lifecycle object does not own, so
\* that the next stop can release it, and a bundle that is ready has all its
\* parts (start, run and releaseExact of ActivityWindowDeliveryLifecycle).
THEOREM LifecycleSafeHolds == Spec => []LifecycleSafe
<1>1. LifecycleInv => LifecycleSafe
  BY DEF LifecycleInv, LifecycleSafe
<1> QED
  BY <1>1, LifecycleInvHolds, PTL

\* The end of a stop: nothing is open and no start is under way.
LEMMA StopBarrier == LifecycleInv /\ [Next]_vars => StopIsBarrierStep
<1> SUFFICES ASSUME LifecycleInv, [Next]_vars,
                    lc.stop # "none", lc'.stop = "none", ~rel.failed
             PROVE  (\A a \in Attempts : open'[a] = {}) /\ lc'.start = 0
  BY DEF StopIsBarrierStep
<1> USE DeliveryLifecycleAssumption
<1>t. LifecycleTypeOK
  BY DEF LifecycleInv
<1>1. lc' # lc
  OBVIOUS
<1>2. CASE StopJoins
  <2>1. lc.resources = 0 /\ lc.start = 0 /\ UNCHANGED open
        /\ lc' = [lc EXCEPT !.stop = "none"]
    BY <1>t, <1>2 DEF StopJoins, LifecycleTypeOK, Lifecycle
  <2>2. lc'.start = 0
    BY <1>t, <2>1 DEF LifecycleTypeOK, Lifecycle
  <2> QED
    BY <2>1, <2>2 DEF LifecycleInv, NoOrphanParts, Attempts
<1>3. CASE ReleaseEnds
  <2>1. /\ rel.of # 0 /\ rel.part = "none" /\ UNCHANGED open /\ rel.of \in Attempts
        /\ lc.resources = rel.of
    BY <1>t, <1>3 DEF ReleaseEnds, LifecycleInv, ReleaseInv, LifecycleTypeOK, Attempts
  <2>2. \A a \in Attempts : open[a] = {}
    BY <2>1 DEF LifecycleInv, ReleaseProgress, Remaining, NoOrphanParts
  <2>3. LifecycleInv'
    BY NextKeeps
  <2>4. lc'.start = 0
    <3>1. CASE rel.by = "stop"
      <4>1. lc.start = 0
        BY <2>1, <3>1 DEF LifecycleInv, ReleaseInv, StoppedIsOld
      <4>2. lc' = [lc EXCEPT !.resources = 0, !.token = 0, !.ready = FALSE, !.stop = "none"]
        BY <1>t, <1>3, <2>1, <3>1 DEF ReleaseEnds, Released, LifecycleTypeOK, Lifecycle
      <4> QED
        BY <1>t, <4>1, <4>2 DEF LifecycleTypeOK, Lifecycle
    <3>2. CASE rel.by # "stop"
      <4>1. /\ att' = [att EXCEPT ![rel.of].stage = "settled"]
            /\ \A b \in Attempts : Unsettled(b) => b = rel.of
        <5>1. rel.by = "start"
          BY <1>t, <3>2 DEF LifecycleTypeOK
        <5>2. lc.start = rel.of
          BY <2>1, <5>1 DEF LifecycleInv, ReleaseInv
        <5> QED
          BY <1>3, <3>2, <5>2 DEF ReleaseEnds, LifecycleInv, OneAttempt
      <4>2. \A b \in Attempts : att'[b].stage \in {"free", "settled"}
        BY <1>t, <2>1, <4>1 DEF LifecycleTypeOK, Unsettled
      <4>3. lc'.start \in 0..MaxStarts
        BY <2>3 DEF LifecycleInv, LifecycleTypeOK, Lifecycle
      <4>4. \A b \in Attempts : lc'.start # b
        BY <2>3, <4>2 DEF LifecycleInv, OneAttempt, Unsettled
      <4> QED
        BY <4>3, <4>4 DEF Attempts
    <3> QED
      BY <3>1, <3>2
  <2> QED
    BY <2>1, <2>2, <2>4
<1>4. CASE Start \/ StartResumes
  <2>1. lc' = lc \/ CanStart
    BY <1>4 DEF Start, StartResumes, NewAttempt
  <2> QED
    BY <1>1, <2>1 DEF CanStart
<1>5. CASE SessionChanges \/ ReleasePart \/ UNCHANGED vars
  BY <1>1, <1>5 DEF SessionChanges, ReleasePart, vars
<1>6. CASE Stop
  BY <1>6 DEF Stop
<1>7. CASE Close
  BY <1>t, <1>7 DEF Close, LifecycleTypeOK, Lifecycle
<1>8. ASSUME NEW a \in Attempts, AttemptAdvances(a) \/ AttemptFails(a) PROVE FALSE
  <2>1. lc'.stop = lc.stop
    BY ZenonT(30), <1>t, <1>8 DEF AttemptAdvances, AttemptFails, Fails, Settled, LifecycleTypeOK, Lifecycle
  <2> QED
    BY <2>1
<1> QED
  BY <1>2, <1>3, <1>4, <1>5, <1>6, <1>7, <1>8 DEF Next, AttemptSteps

\* Only an attempt that is current opens something.
LEMMA OpensOnlyCurrent == LifecycleInv /\ [Next]_vars => OpensOnlyForSessionStep
<1> SUFFICES ASSUME LifecycleInv, [Next]_vars, NEW a \in Attempts,
                    ~(open'[a] \subseteq open[a])
             PROVE  session = att[a].key /\ ~lc.closed /\ lc.stop = "none"
  BY DEF OpensOnlyForSessionStep
<1> USE DeliveryLifecycleAssumption
<1>t. LifecycleTypeOK
  BY DEF LifecycleInv
<1>1. ASSUME NEW b \in Attempts, AttemptAdvances(b)
      PROVE  session = att[a].key /\ ~lc.closed /\ lc.stop = "none"
  <2>1. a = b /\ session = att[b].key /\ ~lc.closed /\ lc.epoch = att[b].epoch
    BY <1>t, <1>1 DEF AttemptAdvances, AssertAttemptCurrent, IsCurrent, LifecycleTypeOK
  <2>2. lc.start = b /\ b # 0
    BY <1>1 DEF AttemptAdvances, StageAfter, LifecycleInv, OneAttempt, Unsettled, Attempts
  <2>3. lc.epoch \in Nat
    BY <1>t DEF LifecycleTypeOK, Lifecycle
  <2> QED
    BY <2>1, <2>2, <2>3 DEF LifecycleInv, StoppedIsOld
<1>2. CASE ReleasePart
  <2>1. rel.of \in Attempts
    BY <1>t, <1>2 DEF ReleasePart, LifecycleTypeOK, Attempts
  <2> QED
    BY <1>t, <1>2, <2>1 DEF ReleasePart, LifecycleTypeOK
<1>3. CASE open' = open
  BY <1>3
<1> QED
  BY <1>1, <1>2, <1>3 DEF Next, AttemptSteps, SessionChanges, Start, StartResumes, AttemptFails,
     Stop, StopJoins, Close, ReleaseEnds, vars

\* When a stop ends without a failure nothing is open and no start is under way,
\* and nothing is ever opened for a session that is gone, during a stop or after
\* close (stop, close and assertAttemptCurrent).
THEOREM LifecycleStepsHold == Spec => LifecycleSteps
<1>1. LifecycleInv /\ [Next]_vars => [StopIsBarrierStep]_vars
  BY StopBarrier
<1>2. LifecycleInv /\ [Next]_vars => [OpensOnlyForSessionStep]_vars
  BY OpensOnlyCurrent
<1> QED
  BY <1>1, <1>2, LifecycleInvHolds, PTL
     DEF Spec, LifecycleSteps, StopIsBarrier, OpensOnlyForSession
=============================================================================
