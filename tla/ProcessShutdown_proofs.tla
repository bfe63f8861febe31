------------------------ MODULE ProcessShutdown_proofs ------------------------
(* Proofs about ProcessShutdown, for any owners of an instance, requests, faults *)
(* and deadlines: the repository closes last, the sidecar outlives the runs, and *)
(* the process exits only when every owner is closed.                            *)
(*                                                                               *)
(* The inductive invariant says that an owner which is being closed has its      *)
(* owners in front of it closed, that a closed owner stays closed, and that the  *)
(* sequence has completed or failed every step it has passed.                    *)
EXTENDS ProcessShutdown, WellFoundedInduction, TLAPS

----------------------------------------------------------------------------
(* The inductive invariant *)

\* An owner is only touched when those in front of it are closed.
InOrder ==
    \A f \in Flights : fl[f] \in {"own", "done"} => \A d \in Deps(f) : fl[d] = "done"

\* What the closing of an owner waits for has ended for good.
Drained ==
    /\ fl["client"] = "done" => reqs = 0
    /\ fl["runs"] = "done" => orphan \/ ~runs
    /\ fl["repository"] = "done" => ~runs
    /\ fl["repository"] \in {"own", "done"} => startup = "done"

\* A step that completed has its owner closed, and each step that was passed
\* completed or failed.
Settled ==
    /\ \A f \in completed \cap Flights : fl[f] = "done"
    /\ life = "quitting" =>
         \A i \in Positions : i < pc => AllSteps[i] \in completed \cup failed
    /\ life = "exited" => fl["repository"] = "done"

ShutdownInv ==
    /\ ShutdownTypeOK /\ runs \in BOOLEAN
    /\ InOrder /\ Drained /\ Settled

----------------------------------------------------------------------------
(* The positions of the steps *)

LEMMA Length ==
    /\ DOMAIN AllSteps = 1..18 /\ Len(AllSteps) = 18 /\ Past = 19
    /\ AllSteps[18] = "repository"
  BY DEF AllSteps, Past

LEMMA PositionFacts ==
    /\ Positions \subseteq 1..18 /\ Past \notin Positions /\ 0 \notin Positions
    /\ \A i \in Positions : AllSteps[i] \in Range(AllSteps)
    /\ 18 \in Positions
  <1>1. Positions \subseteq 1..18 /\ Past \notin Positions /\ 0 \notin Positions
    BY Length DEF Positions
  <1>2. \A i \in Positions : AllSteps[i] \in Range(AllSteps)
    BY DEF Positions, Range
  <1>3. AllSteps[18] \in Steps /\ 18 \in DOMAIN AllSteps
    BY Length, ShutdownAssumption DEF Steps, ShutdownAssumption
  <1>4. 18 \in Positions
    BY <1>3 DEF Positions
  <1> QED  BY <1>1, <1>2, <1>4

LEMMA PositionRange == \A x \in Positions : x \in 0..18
  <1>1. \A x \in 1..18 : x \in 0..18
    OBVIOUS
  <1> QED  BY <1>1, PositionFacts, Zenon

(* A set of numbers that is not empty has a least one. *)
LEMMA Least ==
    ASSUME NEW S, S \subseteq Nat, S # {}
    PROVE  \E k \in S : \A m \in S : k <= m
  <1> DEFINE R == OpToRel(<, Nat)
  <1>1. IsWellFoundedOn(R, Nat)
    BY NatLessThanWellFounded
  <1> HIDE DEF R
  <1>2. PICK k \in S : \A m \in S : ~(<<m, k>> \in R)
    BY <1>1, WFMin
  <1>3. \A m \in S : m < k => <<m, k>> \in R
    BY DEF R, OpToRel
  <1>4. k \in Nat
    OBVIOUS
  <1>5. ASSUME NEW m \in S PROVE k <= m
    <2>1. m \in Nat /\ ~(m < k)
      BY <1>2, <1>3
    <2> QED  BY <1>4, <2>1
  <1> QED  BY <1>5

(* The next step comes after this one, and no step is between them. *)
LEMMA AfterIsNext ==
    ASSUME NEW i \in 0..18
    PROVE  /\ After(i) \in Positions \cup {Past} /\ After(i) > i
           /\ \A m \in Positions : m > i => After(i) <= m
  <1> DEFINE S == {k \in Positions \cup {Past} : k > i}
  <1>0. \A x \in Positions : x \in 1..18
    BY PositionFacts
  <1>1. S \subseteq Nat /\ Past \in S
    <2>1. \A x \in S : x \in Nat
      BY <1>0, Length
    <2> QED  BY <2>1, Length
  <1>2. PICK k \in S : \A m \in S : k <= m
    BY <1>1, Least
  <1>3. /\ k \in Positions \cup {Past} /\ k > i
        /\ \A m \in Positions : m > i => k <= m
    BY <1>2
  <1>4. \E x \in Positions \cup {Past} :
           x > i /\ \A m \in Positions : m > i => x <= m
    BY <1>3
  <1> QED  BY <1>4 DEF After

(* What is passed when the sequence goes on: the steps before, and this one. *)
LEMMA Passed ==
    ASSUME NEW i \in Positions, NEW m \in Positions, m < After(i)
    PROVE  m < i \/ m = i
  <1>0. \A x \in Positions : x \in 1..18
    BY PositionFacts
  <1>1. i \in 1..18 /\ m \in 1..18
    BY <1>0
  <1>2. After(i) \in Nat /\ (m > i => After(i) <= m)
    <2>1. i \in 0..18
      BY <1>1
    <2>2. After(i) \in Positions \cup {Past}
      BY <2>1, AfterIsNext
    <2>3. After(i) \in 1..18 \/ After(i) = 19
      BY <1>0, <2>2, Length
    <2>4. m > i => After(i) <= m
      BY <2>1, AfterIsNext
    <2> QED  BY <2>3, <2>4
  <1> QED  BY <1>1, <1>2

----------------------------------------------------------------------------
(* The owners *)

LEMMA Owners ==
    /\ "client" \in Flights /\ "runs" \in Flights /\ "repository" \in Flights
    /\ "client" \in Deps("runs")
    /\ "sidecar" \in Flights => "runs" \in Deps("sidecar")
    /\ Flights \ {"repository", "auth"} \subseteq Deps("repository")
    /\ \A f \in Flights : Deps(f) \subseteq Flights
  <1>1. /\ "client" \in Flights /\ "runs" \in Flights /\ "repository" \in Flights
        /\ Flights \subseteq AllFlights
    BY ShutdownAssumption DEF ShutdownAssumption
  <1>2. Deps("runs") = Flights \cap {"client"}
    BY Zenon DEF Deps
  <1>3. Deps("sidecar") = Flights \cap {"runs", "delivery", "relays"}
    BY Zenon DEF Deps
  <1>4. Deps("repository") = Flights \cap (AllFlights \ {"repository", "auth"})
    BY Zenon DEF Deps
  <1>5. \A f \in Flights : Deps(f) \subseteq Flights
    BY Zenon DEF Deps
  <1> QED  BY <1>1, <1>2, <1>3, <1>4, <1>5

LEMMA OwnWork ==
    /\ OwnDone("client") <=> reqs = 0
    /\ OwnDone("runs") <=> (orphan \/ ~runs)
    /\ OwnDone("repository") => (orphan => ~runs)
  <1>1. OwnDone("client") <=> reqs = 0
    BY Zenon DEF OwnDone
  <1>2. OwnDone("runs") <=> (orphan \/ ~runs)
    BY Zenon DEF OwnDone
  <1>3. OwnDone("repository") => (orphan => ~runs)
    BY Zenon DEF OwnDone
  <1> QED  BY <1>1, <1>2, <1>3, Zenon

(* Starting an owner touches none that is already started. *)
LEMMA StartedKeeps ==
    ASSUME NEW f, NEW g \in [Flights -> {"idle", "deps", "own", "done"}]
    PROVE  /\ Started(f, g) \in [Flights -> {"idle", "deps", "own", "done"}]
           /\ \A x \in Flights : g[x] \in {"own", "done"} <=>
                                 Started(f, g)[x] \in {"own", "done"}
           /\ \A x \in Flights : g[x] = "done" <=> Started(f, g)[x] = "done"
  <1> DEFINE J == Joined(f)
  <1> HIDE DEF J
  <1>1. Started(f, g) = [x \in Flights |-> IF x \in J /\ g[x] = "idle" THEN "deps"
                                           ELSE g[x]]
    BY DEF Started, J
  <1> QED  BY <1>1

(* A failure takes no closed owner with it. *)
LEMMA FailsWithLive ==
    ASSUME NEW f \in Flights, fl[f] = "own", NEW g \in FailsWith(f)
    PROVE  g \in Flights /\ fl[g] \in {"deps", "own"}
  <1> DEFINE Live == {x \in Flights : fl[x] \in {"deps", "own"}}
             behind(S) == S \cup {x \in Flights :
                             \/ fl[x] = "deps" /\ Deps(x) \cap S # {}
                             \/ fl[x] = "own" /\ x = "native" /\ "reflection" \in S}
  <1>1. \A S : S \subseteq Live => behind(S) \subseteq Live
    OBVIOUS
  <1>2. {f} \subseteq Live
    OBVIOUS
  <1>3. FailsWith(f) = behind(behind(behind(behind({f}))))
    BY DEF FailsWith
  <1>4. g \in behind(behind(behind(behind({f}))))
    BY <1>3
  <1> HIDE DEF behind
  <1>5. behind({f}) \subseteq Live
    BY <1>1, <1>2
  <1>6. behind(behind({f})) \subseteq Live
    BY <1>1, <1>5
  <1>7. behind(behind(behind({f}))) \subseteq Live
    BY <1>1, <1>6
  <1>8. behind(behind(behind(behind({f})))) \subseteq Live
    BY <1>1, <1>7
  <1> QED  BY <1>4, <1>8

(* Each owner has a step. *)
LEMMA FlightsAreSteps == Flights \subseteq Range(AllSteps)
  <1>1. AllFlights \subseteq Range(AllSteps)
    <2>1. \A i \in 1..18 : AllSteps[i] \in Range(AllSteps)
      BY Length DEF Range
    <2>2. /\ AllSteps[2] = "relays" /\ AllSteps[3] = "client" /\ AllSteps[4] = "update"
          /\ AllSteps[5] = "auth" /\ AllSteps[6] = "delivery"
          /\ AllSteps[7] = "feedback" /\ AllSteps[8] = "runs"
          /\ AllSteps[10] = "sidecar" /\ AllSteps[11] = "native"
          /\ AllSteps[12] = "audit" /\ AllSteps[13] = "export"
          /\ AllSteps[14] = "data" /\ AllSteps[16] = "timeline"
          /\ AllSteps[17] = "reflection" /\ AllSteps[18] = "repository"
      BY DEF AllSteps
    <2>3. /\ 2 \in 1..18 /\ 3 \in 1..18 /\ 4 \in 1..18 /\ 5 \in 1..18 /\ 6 \in 1..18
          /\ 7 \in 1..18 /\ 8 \in 1..18 /\ 10 \in 1..18 /\ 11 \in 1..18
          /\ 12 \in 1..18 /\ 13 \in 1..18 /\ 14 \in 1..18 /\ 16 \in 1..18
          /\ 17 \in 1..18 /\ 18 \in 1..18
      OBVIOUS
    <2> QED  BY <2>1, <2>2, <2>3 DEF AllFlights
  <1> QED  BY <1>1, ShutdownAssumption DEF ShutdownAssumption

----------------------------------------------------------------------------
(* Each action preserves the invariant *)

Phases == {"idle", "deps", "own", "done"}

LEMMA InitInv == Init => ShutdownInv
  <1> SUFFICES ASSUME Init PROVE ShutdownInv
    OBVIOUS
  <1> USE DEF Init
  <1>1. \A f \in Flights : fl[f] = "idle"
    OBVIOUS
  <1>2. fl["client"] = "idle" /\ fl["runs"] = "idle" /\ fl["repository"] = "idle"
    BY <1>1, Owners
  <1>3. ShutdownTypeOK /\ runs \in BOOLEAN
    BY ShutdownAssumption DEF ShutdownTypeOK, ShutdownAssumption
  <1>4. InOrder
    BY <1>1 DEF InOrder
  <1>5. Drained /\ Settled
    BY <1>2 DEF Drained, Settled
  <1> QED  BY <1>3, <1>4, <1>5 DEF ShutdownInv

(* Accepted work ends; once the requests are drained no run is started.    *)
LEMMA WorkInv ==
    ASSUME ShutdownInv, Work
    PROVE  ShutdownInv'
  <1>1. UNCHANGED <<fl, pc, waits, completed, failed, pend, life>>
    BY DEF Work, RequestEnds, RunEnds, RevokeEnds, StartupEnds, seq
  <1>2. /\ reqs' \in 0..MaxRequests /\ reqs' <= reqs
        /\ startup' \in {"running", "waiting", "done"}
        /\ startup = "done" => startup' = "done"
        /\ runs' \in BOOLEAN
        /\ runs' => runs \/ reqs > 0
    <2>0. /\ reqs \in Nat /\ reqs \in 0..MaxRequests /\ MaxRequests \in Nat
          /\ startup \in {"running", "waiting", "done"}
      BY ShutdownAssumption DEF ShutdownInv, ShutdownTypeOK, ShutdownAssumption
    <2>r. runs \in BOOLEAN
      BY DEF ShutdownInv
    <2>1. CASE RequestEnds
      <3>1. reqs > 0 /\ reqs' = reqs - 1 /\ startup' = startup
        BY <2>1 DEF RequestEnds
      <3>2. runs' = runs \/ runs' = TRUE
        BY <2>1, Zenon DEF RequestEnds
      <3>3. reqs' \in 0..MaxRequests /\ reqs' <= reqs
        BY <2>0, <3>1
      <3>4. runs' \in BOOLEAN
        BY <2>r, <3>2, Zenon
      <3> QED  BY <2>0, <3>1, <3>3, <3>4, Zenon
    <2>2. CASE RunEnds
      <3>1. runs' = FALSE /\ reqs' = reqs /\ startup' = startup
        BY <2>2 DEF RunEnds
      <3>2. reqs' \in 0..MaxRequests /\ reqs' <= reqs
        BY <2>0, <3>1
      <3> QED  BY <2>0, <3>1, <3>2, Zenon
    <2>3. CASE RevokeEnds
      BY <2>0, <2>r, <2>3 DEF RevokeEnds
    <2>4. CASE StartupEnds
      BY <2>0, <2>r, <2>4 DEF StartupEnds
    <2> QED  BY <2>1, <2>2, <2>3, <2>4 DEF Work
  <1>3. ShutdownTypeOK' /\ InOrder' /\ Settled'
    BY <1>1, <1>2 DEF ShutdownInv, ShutdownTypeOK, InOrder, Settled
  <1>4. reqs \in Nat /\ reqs' \in Nat
    BY <1>2, ShutdownAssumption DEF ShutdownInv, ShutdownTypeOK, ShutdownAssumption
  <1>5. fl["runs"] = "done" \/ fl["repository"] = "done" => reqs = 0
    BY Owners DEF ShutdownInv, InOrder, Drained
  <1>o. orphan' = orphan
    BY DEF Work, RequestEnds, RunEnds, RevokeEnds, StartupEnds
  <1>6. Drained'
    <2>1. /\ fl["client"] = "done" => reqs' = 0
          /\ fl["repository"] \in {"own", "done"} => startup' = "done"
      BY <1>2, <1>4 DEF ShutdownInv, Drained
    <2>2. fl["runs"] = "done" \/ fl["repository"] = "done" => (runs' => runs)
      BY <1>2, <1>4, <1>5
    <2>3. /\ fl["runs"] = "done" => orphan \/ ~runs
          /\ fl["repository"] = "done" => ~runs
      BY DEF ShutdownInv, Drained
    <2>4. /\ fl["runs"] = "done" => orphan' \/ ~runs'
          /\ fl["repository"] = "done" => ~runs'
      BY <1>o, <2>2, <2>3, Zenon
    <2> QED  BY <1>1, <2>1, <2>4 DEF Drained
  <1> QED  BY <1>2, <1>3, <1>6 DEF ShutdownInv

(* A step of the owners keeps what is done, and touches an owner in order. *)
LEMMA OwnersMove ==
    ASSUME ShutdownInv, fl' \in [Flights -> Phases],
           \A x \in Flights : fl[x] = "done" => fl'[x] = "done",
           \A x \in Flights : fl'[x] \in {"own", "done"} =>
               \/ fl[x] \in {"own", "done"}
               \/ \A d \in Deps(x) : fl[d] = "done"
    PROVE  InOrder'
  <1> SUFFICES ASSUME NEW x \in Flights, fl'[x] \in {"own", "done"},
                      NEW d \in Deps(x)
               PROVE  fl'[d] = "done"
    BY DEF InOrder
  <1>1. fl[d] = "done"
    BY DEF ShutdownInv, InOrder
  <1>2. d \in Flights
    BY Owners
  <1> QED  BY <1>1, <1>2

LEMMA FlKind ==
    ASSUME ShutdownInv
    PROVE  fl \in [Flights -> Phases]
  BY DEF ShutdownInv, ShutdownTypeOK, Phases

LEMMA JoinsInv ==
    ASSUME ShutdownInv, NEW f \in Flights, Joins(f)
    PROVE  ShutdownInv'
  <1> DEFINE g == [fl EXCEPT ![f] = "own"]
  <1>1. /\ fl[f] = "deps" /\ \A d \in Deps(f) : fl[d] = "done"
        /\ f = "repository" => startup = "done"
        /\ fl' = IF f = "native" /\ "reflection" \in Flights
                 THEN Started("reflection", g) ELSE g
        /\ UNCHANGED <<work, pc, waits, completed, failed, pend, life>>
    BY DEF Joins, seq
  <1>2. /\ g \in [Flights -> Phases] /\ g[f] = "own"
        /\ \A x \in Flights : x # f => g[x] = fl[x]
    BY FlKind DEF Phases
  <1> HIDE DEF g
  <1>3. /\ fl' \in [Flights -> Phases]
        /\ \A x \in Flights : g[x] \in {"own", "done"} <=> fl'[x] \in {"own", "done"}
        /\ \A x \in Flights : g[x] = "done" <=> fl'[x] = "done"
    <2>1. CASE f = "native" /\ "reflection" \in Flights
      <3>1. fl' = Started("reflection", g)
        BY <1>1, <2>1
      <3> QED  BY <1>2, <3>1, StartedKeeps DEF Phases
    <2>2. CASE ~(f = "native" /\ "reflection" \in Flights)
      <3>1. fl' = g
        BY <1>1, <2>2
      <3> QED  BY <1>2, <3>1
    <2> QED  BY <2>1, <2>2
  <1>4. \A x \in Flights : fl'[x] = "done" <=> fl[x] = "done"
    BY <1>1, <1>2, <1>3
  <1>5. InOrder'
    <2>1. \A x \in Flights : fl'[x] \in {"own", "done"} =>
             \/ fl[x] \in {"own", "done"}
             \/ \A d \in Deps(x) : fl[d] = "done"
      BY <1>1, <1>2, <1>3
    <2> QED  BY <1>3, <1>4, <2>1, OwnersMove
  <1>6. ShutdownTypeOK' /\ runs' \in BOOLEAN
    BY <1>1, <1>3 DEF ShutdownInv, ShutdownTypeOK, work, Phases
  <1>7. Drained'
    <2>1. fl'["repository"] \in {"own", "done"} => startup = "done"
      <3>1. CASE f = "repository"
        BY <1>1, <3>1
      <3>2. CASE f # "repository"
        BY <1>2, <1>3, <3>2, Owners DEF ShutdownInv, Drained
      <3> QED  BY <3>1, <3>2
    <2> QED  BY <1>1, <1>4, <2>1, Owners DEF ShutdownInv, Drained, work
  <1>8. Settled'
    BY <1>1, <1>4, Owners DEF ShutdownInv, Settled
  <1> QED  BY <1>5, <1>6, <1>7, <1>8 DEF ShutdownInv

LEMMA ClosesInv ==
    ASSUME ShutdownInv, NEW f \in Flights, Closes(f)
    PROVE  ShutdownInv'
  <1>1. /\ fl[f] = "own" /\ OwnDone(f) /\ fl' = [fl EXCEPT ![f] = "done"]
        /\ completed' = completed \cup (waits \cap {f}) /\ waits' = waits \ {f}
        /\ pend' = pend \ {f}
        /\ UNCHANGED <<reqs, runs, orphan, startup, pc, failed, life>>
    BY DEF Closes
  <1>2. /\ fl' \in [Flights -> Phases] /\ fl'[f] = "done"
        /\ \A x \in Flights : x # f => fl'[x] = fl[x]
    BY <1>1, FlKind DEF Phases
  <1>3. InOrder'
    BY <1>1, <1>2, OwnersMove
  <1>4. completed \subseteq Range(AllSteps) /\ waits \subseteq Flights
    BY DEF ShutdownInv, ShutdownTypeOK
  <1>5. waits \cap {f} \subseteq Range(AllSteps)
    BY <1>4, FlightsAreSteps
  <1>6. ShutdownTypeOK' /\ runs' \in BOOLEAN
    BY <1>1, <1>2, <1>5 DEF ShutdownInv, ShutdownTypeOK, Phases
  <1>7. Drained'
    <2>1. f = "client" => reqs = 0
      BY <1>1, OwnWork
    <2>2. f = "runs" => orphan \/ ~runs
      BY <1>1, OwnWork, Zenon
    <2>4. f = "repository" => ~runs
      <3>1. f = "repository" => (orphan => ~runs)
        BY <1>1, OwnWork, Zenon
      <3>2. f = "repository" => fl["runs"] = "done"
        BY <1>1, Owners DEF ShutdownInv, InOrder
      <3>3. fl["runs"] = "done" => orphan \/ ~runs
        BY DEF ShutdownInv, Drained
      <3> QED  BY <3>1, <3>2, <3>3, Zenon
    <2>3. fl'["repository"] \in {"own", "done"} => fl["repository"] \in {"own", "done"}
      BY <1>1, <1>2, Owners
    <2>5. /\ fl'["client"] = "done" => reqs' = 0
          /\ fl'["repository"] \in {"own", "done"} => startup' = "done"
      BY <1>1, <1>2, <2>1, <2>3, Owners DEF ShutdownInv, Drained
    <2>6. fl'["runs"] = "done" => orphan \/ ~runs
      <3>1. fl'["runs"] = "done" => f = "runs" \/ fl["runs"] = "done"
        BY <1>2, Owners
      <3>2. fl["runs"] = "done" => orphan \/ ~runs
        BY DEF ShutdownInv, Drained
      <3> QED  BY <2>2, <3>1, <3>2, Zenon
    <2>7. fl'["repository"] = "done" => ~runs
      <3>1. fl'["repository"] = "done" => f = "repository" \/ fl["repository"] = "done"
        BY <1>2, Owners
      <3>2. fl["repository"] = "done" => ~runs
        BY DEF ShutdownInv, Drained
      <3> QED  BY <2>4, <3>1, <3>2, Zenon
    <2> QED  BY <1>1, <2>5, <2>6, <2>7, Zenon DEF Drained
  <1>8. Settled'
    <2>1. \A x \in completed' \cap Flights : fl'[x] = "done"
      BY <1>1, <1>2 DEF ShutdownInv, Settled
    <2> QED  BY <1>1, <1>2, <2>1, Owners DEF ShutdownInv, Settled
  <1> QED  BY <1>3, <1>6, <1>7, <1>8 DEF ShutdownInv

(* A failure puts the owners that wait for it back; the step counts as failed. *)
LEMMA BreaksInv ==
    ASSUME ShutdownInv, life # "exited", NEW f \in Flights, fl[f] = "own",
           Breaks(f, FailsWith(f)), UNCHANGED <<work, completed, life>>
    PROVE  ShutdownInv'
  <1> DEFINE gone == FailsWith(f)
             hit == pc \in Positions /\ AllSteps[pc] \in gone
  <1>1. \A g \in gone : g \in Flights /\ fl[g] \in {"deps", "own"}
    BY FailsWithLive
  <1>2. /\ fl' = [g \in Flights |-> IF g \in gone THEN "idle" ELSE fl[g]]
        /\ pend' = pend \ gone /\ waits' = waits \ gone
        /\ failed' = failed \cup (IF hit THEN {AllSteps[pc]} ELSE {})
        /\ pc' = IF hit THEN After(pc) ELSE pc
    BY DEF Breaks
  <1>3. hit => pc \in Positions
    OBVIOUS
  <1> HIDE DEF gone, hit
  <1>4. /\ fl' \in [Flights -> Phases]
        /\ \A x \in Flights : fl[x] = "done" => fl'[x] = "done"
        /\ \A x \in Flights : fl'[x] # "idle" => fl'[x] = fl[x]
    BY <1>1, <1>2, FlKind DEF Phases
  <1>5. InOrder'
    BY <1>4, OwnersMove
  <1>6. /\ pc' \in Positions \cup {0, Past} /\ failed' \subseteq Range(AllSteps)
        /\ failed \subseteq failed'
        /\ \A i \in Positions : i < pc' => i < pc \/ AllSteps[i] \in failed'
    <2>1. CASE hit
      <3>0. \A x \in Positions : x \in 0..18
        BY PositionRange, Zenon
      <3>1. pc \in Positions /\ pc \in 0..18 /\ pc' = After(pc)
            /\ failed' = failed \cup {AllSteps[pc]}
        BY <1>2, <1>3, <2>1, <3>0
      <3>2. After(pc) \in Positions \cup {Past}
        BY <3>1, AfterIsNext
      <3>3. \A i \in Positions : i < pc' => i < pc \/ i = pc
        BY <3>1, Passed
      <3> QED  BY <3>1, <3>2, <3>3, PositionFacts DEF ShutdownInv, ShutdownTypeOK
    <2>2. CASE ~hit
      BY <1>2, <2>2 DEF ShutdownInv, ShutdownTypeOK
    <2> QED  BY <2>1, <2>2
  <1>7. ShutdownTypeOK' /\ runs' \in BOOLEAN
    BY <1>2, <1>4, <1>6 DEF ShutdownInv, ShutdownTypeOK, work, Phases
  <1>8. Drained'
    BY <1>4, Owners DEF ShutdownInv, Drained, work
  <1>9. Settled'
    BY <1>4, <1>6, Owners DEF ShutdownInv, Settled
  <1> QED  BY <1>5, <1>7, <1>8, <1>9 DEF ShutdownInv

(* The sequence passes the step it is at, which completed or failed.       *)
LEMMA GoesOnInv ==
    ASSUME ShutdownInv, pc \in Positions, life = "quitting",
           pc' = After(pc), UNCHANGED <<fl, reqs, runs, orphan, pend, life>>,
           startup' \in {"running", "waiting", "done"},
           startup = "done" => startup' = "done",
           waits' \subseteq waits,
           completed \subseteq completed', failed \subseteq failed',
           completed' \subseteq Range(AllSteps), failed' \subseteq Range(AllSteps),
           \A f \in completed' \cap Flights : f \in completed \/ fl[f] = "done",
           AllSteps[pc] \in completed' \cup failed'
    PROVE  ShutdownInv'
  <1>0. \A x \in Positions : x \in 0..18
    BY PositionRange, Zenon
  <1>1. pc' \in Positions \cup {Past}
    BY <1>0, AfterIsNext
  <1>2. \A i \in Positions : i < pc' => i < pc \/ i = pc
    BY Passed
  <1>3. ShutdownTypeOK' /\ runs' \in BOOLEAN
    BY <1>1 DEF ShutdownInv, ShutdownTypeOK
  <1>4. InOrder' /\ Drained'
    BY DEF ShutdownInv, InOrder, Drained
  <1>5. Settled'
    BY <1>2 DEF ShutdownInv, Settled
  <1> QED  BY <1>3, <1>4, <1>5 DEF ShutdownInv

LEMMA StepInv ==
    ASSUME ShutdownInv, NEW s, InStep(s),
           s \in Flights \cup {"startup-retry", "pet", "startup"},
           \/ s \in Flights /\ (StepBegins(s) \/ StepEnds(s))
           \/ s \in completed /\ Skip
           \/ s = "startup-retry" /\ CancelStartupRetry
           \/ s = "pet" /\ StopPet
           \/ s = "startup" /\ AwaitStartup
           \/ StepTimesOut(s)
    PROVE  ShutdownInv'
  <1>1. pc \in Positions /\ life = "quitting" /\ AllSteps[pc] = s
    BY DEF InStep
  <1>2. s \in Range(AllSteps)
    BY <1>1, PositionFacts
  <1>3. /\ completed \subseteq Range(AllSteps) /\ failed \subseteq Range(AllSteps)
        /\ startup \in {"running", "waiting", "done"}
    BY DEF ShutdownInv, ShutdownTypeOK
  <1>4. {"startup", "pet", "startup-retry"} \cap Flights = {}
    BY ShutdownAssumption DEF ShutdownAssumption, AllFlights
  <1>5. CASE s \in Flights /\ StepBegins(s)
    <2>1. /\ fl' = Started(s, fl) /\ waits' = waits \cup {s}
          /\ UNCHANGED <<work, pc, completed, failed, pend, life>>
      BY <1>5 DEF StepBegins
    <2>2. /\ fl' \in [Flights -> Phases]
          /\ \A x \in Flights : fl[x] \in {"own", "done"} <=> fl'[x] \in {"own", "done"}
          /\ \A x \in Flights : fl[x] = "done" <=> fl'[x] = "done"
      BY <2>1, FlKind, StartedKeeps DEF Phases
    <2>3. InOrder'
      BY <2>2, OwnersMove
    <2>4. ShutdownTypeOK' /\ runs' \in BOOLEAN
      BY <1>5, <2>1, <2>2 DEF ShutdownInv, ShutdownTypeOK, work, Phases
    <2>5. Drained'
      BY <2>1, <2>2, Owners DEF ShutdownInv, Drained, work
    <2>6. Settled'
      BY <2>1, <2>2, Owners DEF ShutdownInv, Settled
    <2> QED  BY <2>3, <2>4, <2>5, <2>6 DEF ShutdownInv
  <1>6. CASE s \in Flights /\ StepEnds(s)
    <2>1. /\ fl[s] = "done" /\ completed' = completed \cup {s} /\ waits' = waits \ {s}
          /\ pc' = After(pc) /\ UNCHANGED <<work, fl, failed, pend, life>>
      BY <1>6 DEF StepEnds
    <2> QED  BY <1>1, <1>2, <1>3, <2>1, GoesOnInv DEF work
  <1>7. CASE s \in completed /\ Skip
    <2>1. pc' = After(pc)
          /\ UNCHANGED <<work, fl, waits, completed, failed, pend, life>>
      BY <1>7 DEF Skip
    <2> QED  BY <1>1, <1>3, <1>7, <2>1, GoesOnInv DEF work
  <1>8. CASE s = "startup-retry" /\ CancelStartupRetry
    <2>1. /\ startup' = IF startup = "waiting" THEN "running" ELSE startup
          /\ completed' = completed \cup {s} /\ pc' = After(pc)
          /\ UNCHANGED <<reqs, runs, orphan, fl, waits, failed, pend, life>>
      BY <1>8 DEF CancelStartupRetry
    <2>2. /\ startup' \in {"running", "waiting", "done"}
          /\ startup = "done" => startup' = "done"
      BY <1>3, <2>1
    <2> QED  BY <1>1, <1>2, <1>3, <1>4, <1>8, <2>1, <2>2, GoesOnInv
  <1>9. CASE s = "startup" /\ AwaitStartup
    <2>1. /\ completed' = completed \cup {s} /\ pc' = After(pc)
          /\ UNCHANGED <<work, fl, waits, failed, pend, life>>
      BY <1>9 DEF AwaitStartup
    <2> QED  BY <1>1, <1>2, <1>3, <1>4, <1>9, <2>1, GoesOnInv DEF work
  <1>p. CASE s = "pet" /\ StopPet
    <2>1. /\ completed' = completed \cup {s} /\ pc' = After(pc)
          /\ UNCHANGED <<work, fl, waits, failed, pend, life>>
      BY <1>p DEF StopPet
    <2> QED  BY <1>1, <1>2, <1>3, <1>4, <1>p, <2>1, GoesOnInv DEF work
  <1>10. CASE StepTimesOut(s)
    <2>1. /\ failed' = failed \cup {s} /\ pc' = After(pc)
          /\ UNCHANGED <<work, fl, waits, completed, pend, life>>
      BY <1>10 DEF StepTimesOut
    <2> QED  BY <1>1, <1>2, <1>3, <2>1, GoesOnInv DEF work
  <1> QED  BY <1>5, <1>6, <1>7, <1>8, <1>9, <1>p, <1>10

(* The overall deadline: what is left and has not completed has failed.    *)
LEMMA DeadlineInv ==
    ASSUME ShutdownInv, DeadlinePasses
    PROVE  ShutdownInv'
  <1>1. /\ life = "quitting" /\ pc \in Positions
        /\ failed' = failed \cup ({AllSteps[i] : i \in {k \in Positions : k >= pc}}
                                    \ completed)
        /\ pc' = Past /\ UNCHANGED <<work, fl, waits, completed, pend, life>>
    BY DEF DeadlinePasses
  <1>2. failed' \subseteq Range(AllSteps) /\ failed \subseteq failed'
    BY <1>1, PositionFacts DEF ShutdownInv, ShutdownTypeOK
  <1>3. \A i \in Positions : i >= pc => AllSteps[i] \in completed \cup failed'
    BY <1>1
  <1>4. \A i \in Positions : i \in 1..18
    BY PositionFacts
  <1>5. \A i \in Positions : i < pc \/ i >= pc
    BY <1>1, <1>4
  <1>6. ShutdownTypeOK' /\ runs' \in BOOLEAN /\ InOrder' /\ Drained'
    BY <1>1, <1>2 DEF ShutdownInv, ShutdownTypeOK, InOrder, Drained, work
  <1>7. Settled'
    BY <1>1, <1>2, <1>3, <1>5 DEF ShutdownInv, Settled
  <1> QED  BY <1>6, <1>7 DEF ShutdownInv

(* An attempt begins in front of the first step.                           *)
LEMMA AttemptInv ==
    ASSUME ShutdownInv, life \in {"up", "vetoed", "waiting"},
           NEW isAuto \in BOOLEAN, Attempt(isAuto),
           UNCHANGED <<work, fl, broken, natStop, waits, completed, faults>>
    PROVE  ShutdownInv'
  <1>1. life' = "quitting" /\ pc' = After(0) /\ failed' = {} /\ pend' = {}
    BY DEF Attempt
  <1>2. /\ After(0) \in Positions \cup {Past}
        /\ \A m \in Positions : m > 0 => After(0) <= m
    BY AfterIsNext
  <1>3. \A m \in Positions : m \in 1..18
    BY PositionFacts
  <1>4. After(0) \in 1..19
    BY <1>2, <1>3, Length
  <1>5. \A m \in Positions : ~(m < pc')
    BY <1>1, <1>2, <1>3, <1>4
  <1>6. ShutdownTypeOK' /\ runs' \in BOOLEAN /\ InOrder' /\ Drained'
    BY <1>1, <1>2 DEF ShutdownInv, ShutdownTypeOK, InOrder, Drained, work
  <1>7. Settled'
    BY <1>1, <1>5 DEF ShutdownInv, Settled
  <1> QED  BY <1>6, <1>7 DEF ShutdownInv

(* The process exits when no failure is left, that of the repository least. *)
LEMMA SettlesInv ==
    ASSUME ShutdownInv, Settles
    PROVE  ShutdownInv'
  <1> DEFINE lost == {s \in failed : ~Recovered(s)}
  <1>1. /\ life = "quitting" /\ pc = Past /\ pc' = 0
        /\ life' = IF lost = {} THEN "exited"
                   ELSE IF ~auto /\ Pending # {} THEN "waiting" ELSE "vetoed"
        /\ pend' = IF lost # {} /\ ~auto THEN Pending ELSE {}
        /\ UNCHANGED <<work, fl, waits, completed, failed>>
    BY DEF Settles
  <1>2. lost = {} => fl["repository"] = "done"
    <2>1. "repository" \in completed \cup failed
      BY <1>1, PositionFacts, Length DEF ShutdownInv, Settled
    <2>2. lost = {} /\ "repository" \in failed => "repository" \in completed
      BY DEF Recovered
    <2> QED  BY <2>1, <2>2, Owners DEF ShutdownInv, Settled
  <1>3. Pending \subseteq Flights
    BY DEF Pending
  <1> HIDE DEF lost
  <1>4. life' # "quitting" /\ (life' = "exited" => lost = {})
        /\ life' \in {"exited", "waiting", "vetoed"}
    BY <1>1
  <1>5. ShutdownTypeOK' /\ runs' \in BOOLEAN /\ InOrder' /\ Drained'
    BY <1>1, <1>3, <1>4 DEF ShutdownInv, ShutdownTypeOK, InOrder, Drained, work
  <1>6. Settled'
    BY <1>1, <1>2, <1>4 DEF ShutdownInv, Settled
  <1> QED  BY <1>5, <1>6 DEF ShutdownInv

LEMMA NextInv == ShutdownInv /\ [Next]_vars => ShutdownInv'
  <1> SUFFICES ASSUME ShutdownInv, [Next]_vars PROVE ShutdownInv'
    OBVIOUS
  <1>1. CASE Exited \/ UNCHANGED vars
    BY <1>1 DEF Exited, vars, ShutdownInv, ShutdownTypeOK, InOrder, Drained, Settled
  <1>2. CASE Quit({"waiting"})
    BY <1>2, AttemptInv DEF Quit
  <1>3. CASE Step
    <2>0. life # "exited"
      BY <1>3 DEF Step
    <2>1. CASE Work
      BY <2>1, WorkInv
    <2>2. ASSUME NEW f \in Flights, Owner(f) PROVE ShutdownInv'
      <3>1. CASE Joins(f)
        BY <3>1, JoinsInv
      <3>2. CASE Closes(f)
        BY <3>2, ClosesInv
      <3>3. CASE Throws(f) \/ ThrowsAgain(f)
        <4>1. /\ fl[f] = "own" /\ Breaks(f, FailsWith(f))
              /\ UNCHANGED <<work, completed, life>>
          BY <3>3 DEF Throws, ThrowsAgain
        <4> QED  BY <2>0, <4>1, BreaksInv
      <3> QED  BY <2>2, <3>1, <3>2, <3>3 DEF Owner
    <2>3. CASE Sequence
      <3>1. CASE Skip
        <4>1. PICK s \in completed : InStep(s)
          BY <3>1 DEF Skip
        <4>2. s \in Flights \cup {"startup-retry", "pet", "startup"}
          BY <4>1 DEF InStep, Positions, Steps
        <4> QED  BY <3>1, <4>1, <4>2, StepInv
      <3>2. CASE CancelStartupRetry
        <4>1. InStep("startup-retry")
          BY <3>2 DEF CancelStartupRetry
        <4> QED  BY <3>2, <4>1, StepInv
      <3>6. CASE StopPet
        <4>1. InStep("pet")
          BY <3>6 DEF StopPet
        <4> QED  BY <3>6, <4>1, StepInv
      <3>3. CASE AwaitStartup
        <4>1. InStep("startup")
          BY <3>3 DEF AwaitStartup
        <4> QED  BY <3>3, <4>1, StepInv
      <3>4. CASE Settles
        BY <3>4, SettlesInv
      <3>5. ASSUME NEW s \in Flights, StepBegins(s) \/ StepEnds(s) PROVE ShutdownInv'
        <4>1. InStep(s)
          BY <3>5 DEF StepBegins, StepEnds
        <4> QED  BY <3>5, <4>1, StepInv
      <3> QED  BY <2>3, <3>1, <3>2, <3>3, <3>4, <3>5, <3>6 DEF Sequence
    <2>4. CASE Deadlines
      <3>1. CASE DeadlinePasses
        BY <3>1, DeadlineInv
      <3>2. ASSUME NEW s \in Flights \cup {"startup"}, StepTimesOut(s)
            PROVE  ShutdownInv'
        <4>1. InStep(s)
          BY <3>2 DEF StepTimesOut
        <4> QED  BY <3>2, <4>1, StepInv
      <3> QED  BY <2>4, <3>1, <3>2 DEF Deadlines
    <2>5. CASE Quit({"up", "vetoed"}) \/ AutomaticRetry
      <3>1. PICK isAuto \in BOOLEAN :
              /\ life \in {"up", "vetoed", "waiting"} /\ Attempt(isAuto)
              /\ UNCHANGED <<work, fl, broken, natStop, waits, completed, faults>>
        BY <2>5 DEF Quit, AutomaticRetry
      <3> QED  BY <3>1, AttemptInv
    <2> QED  BY <1>3, <2>1, <2>2, <2>3, <2>4, <2>5 DEF Step
  <1> QED  BY <1>1, <1>2, <1>3 DEF Next

----------------------------------------------------------------------------
(* The theorems *)

(* What the invariant says of the properties that are checked.             *)
LEMMA InvSafe == ShutdownInv => ShutdownSafe
  <1> SUFFICES ASSUME ShutdownInv PROVE ShutdownSafe
    OBVIOUS
  <1>1. fl["runs"] = "done" => reqs = 0 /\ (orphan \/ ~runs)
    BY Owners DEF ShutdownInv, InOrder, Drained
  <1>2. fl["repository"] = "done" =>
          \A f \in Flights \ {"repository", "auth"} : fl[f] = "done"
    BY Owners DEF ShutdownInv, InOrder
  <1>3. RepositoryClosesLast
    <2>1. fl["repository"] = "done" => fl["runs"] = "done" /\ ~runs /\ startup = "done"
      BY <1>2, Owners DEF ShutdownInv, Drained
    <2>2. fl["repository"] = "done" => \A f \in Deps("repository") : fl[f] = "done"
      BY Owners DEF ShutdownInv, InOrder
    <2> QED  BY <1>1, <2>1, <2>2 DEF RepositoryClosesLast
  <1>4. SidecarOutlivesRuns
    BY <1>1, Owners DEF SidecarOutlivesRuns, ShutdownInv, InOrder
  <1>5. ExitMeansClosed
    BY <1>2 DEF ExitMeansClosed, ShutdownInv, Settled
  <1> QED  BY <1>3, <1>4, <1>5 DEF ShutdownSafe, ShutdownInv

(* The invariant holds throughout.                                         *)
THEOREM ShutdownInvariant == Spec => []ShutdownInv
  <1>1. Init => ShutdownInv
    BY InitInv
  <1>2. ShutdownInv /\ [Next]_vars => ShutdownInv'
    BY NextInv
  <1> QED  BY <1>1, <1>2, PTL DEF Spec

(* The encrypted database is closed after everything accepted before the   *)
(* latch, the sidecar after every run, and the process exits only with     *)
(* every owner closed, whatever deadlines pass, owners throw and attempts  *)
(* are made again.                                                         *)
THEOREM ShutdownSafeHolds == Spec => []ShutdownSafe
  <1>1. Spec => []ShutdownInv
    BY ShutdownInvariant
  <1>2. ShutdownInv => ShutdownSafe
    BY InvSafe
  <1> QED  BY <1>1, <1>2, PTL

===============================================================================
