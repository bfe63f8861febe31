------------------------- MODULE DataCenterSync_proofs -------------------------
(***************************************************************************)
(* Proofs about the synchronisation with the DataCenter, for any accounts, *)
(* events, levels of consent, sessions, crashes and lost or late requests: *)
(* no event is uploaded for two accounts (UploadedToOne), the consumer     *)
(* passes nothing silently (NothingSkippedSilently), and a body that is    *)
(* sent belongs to the owner of the consumer (BodyWithinOwnership) and is  *)
(* consented (SentUnderConsent).  The server knows one installation of an  *)
(* account (OneAgentPerAccount), and no session runs before the cutover    *)
(* (NoServiceBeforeCutover).                                               *)
(*                                                                         *)
(* The heart of the argument is the floor, the tail of the journal when    *)
(* the owner took the consumer over.  A request that was ever made, be it  *)
(* applied, given up, in a row or in hand, lies in the journal; a body of  *)
(* an account that is not the owner ends at the floor, the owner's bodies  *)
(* in its row or in hand begin behind it.  A change of owner is therefore  *)
(* followed step by step: the tail it has read covers every body of the    *)
(* others, the rows of both accounts are gone before the owner changes,    *)
(* and what the consumer passes is acknowledged or audited.                *)
(***************************************************************************)
EXTENDS DataCenterSync, FiniteSetTheorems, WellFoundedInduction, TLAPS

----------------------------------------------------------------------------
(* The inductive invariant *)

\* The rest of an operation's steps, by what it does: it prepares the account, finds
\* out where the consumer stands, moves the consumer to its account, or does the
\* account's own work.
Prepares == {<<"creds">>, <<"register">>, <<"consent">>,
             <<"tail", "cursor", "audit", "rebase">>}
Looks == {<<"cursor", "audit", "rebase">>, <<"audit", "rebase">>, <<"rebase">>}
Moves == {<<"drop", "put", "send", "commit", "own", "delete">>,
          <<"put", "send", "commit", "own", "delete">>,
          <<"send", "commit", "own", "delete">>, <<"commit", "own", "delete">>,
          <<"own", "delete">>}
Closes == {<<"drop", "own">>, <<"own">>}
Sends == {<<"put", "send", "commit", "delete">>, <<"replace", "send", "commit", "delete">>,
          <<"send", "commit", "delete">>, <<"commit", "delete">>, <<"delete">>}
Works == {<<"pending">>, <<"page">>, <<"cursor">>, <<"context">>}
Todos == Prepares \cup Looks \cup Moves \cup Closes \cup Sends \cup Works

Doing(S) == op # None /\ op.todo \in S
\* The operation has a request in hand.
HasRequest == Doing(Moves \cup Sends) \/ (Doing({<<"cursor">>}) /\ op.rec # None)
\* The requests there are.
Made ==
    accepted \cup late
    \cup (({batch[a] : a \in Accounts} \cup {advance[a] : a \in Accounts}) \ {None})
    \cup (IF HasRequest THEN {op.rec} ELSE {})

Booting == mode \in {"boot", "boot-delete", "boot-complete"}

\* The kinds of the state.
Laid ==
    /\ SyncTypeOK /\ tail <= MaxEvents /\ config \in Levels /\ gen \in Nat
    /\ DOMAIN creds = Accounts /\ DOMAIN agents = Accounts
    /\ \A a \in Accounts : DOMAIN creds[a] = {"st", "inst", "consent"}
    /\ op # None => /\ DOMAIN op = {"id", "todo", "tries", "end", "remote", "rec"}
                    /\ op.todo \in Todos /\ Me \in Accounts

\* Before the cutover is complete nothing has happened, and no operation runs while
\* the service is off.
Cutover ==
    /\ mode = "boot-delete" => cut = "prepared"
    /\ mode = "boot-complete" => cut = "prepared" /\ ~legacy
    /\ cut # "none" => ~oldRows
    /\ cut = "complete" => ~legacy
    /\ cut # "complete" =>
         /\ Booting
         /\ lcur = 0 /\ floor = 0 /\ accepted = {} /\ late = {} /\ owner = None
         /\ batch = [a \in Accounts |-> None] /\ advance = [a \in Accounts |-> None]
         /\ agents = [a \in Accounts |-> {}]
    /\ Booting \/ mode = "off" => op = None

\* An account registers under one installation.
Registered ==
    /\ \A a \in Accounts :
         agents[a] \subseteq (IF creds[a].st = "none" THEN {} ELSE {creds[a].inst})
    /\ Doing({<<"register">>}) => creds[Me].st # "none" /\ creds[Me].inst = op.end

\* Every request lies within the journal; a body of an account that does not own the
\* consumer ends before the owner took over; bodies of two accounts are disjoint.
Ranged == \A r \in Made : r \in Requests /\ r.first <= r.last /\ r.last <= tail
Bounded == \A r \in Made : r.t = "batch" /\ r.acct # owner => r.last <= floor
Disjoint ==
    \A q, r \in Made : q.t = "batch" /\ r.t = "batch" /\ q.acct # r.acct =>
        q.last < r.first \/ r.last < q.first
\* The rows of pending requests.
Rows ==
    /\ \A a \in Accounts : batch[a] # None => batch[a].acct = a /\ batch[a].t = "batch"
    /\ \A a \in Accounts :
         advance[a] # None => advance[a].acct = a /\ advance[a].t = "advance"
    /\ \A a \in Accounts : a = owner /\ batch[a] # None => batch[a].first > floor
    /\ floor \in 0..lcur

\* A change of owner covers every body of the others, and skips what it has audited.
Taking ==
    /\ Doing(Looks \cup Moves \cup Closes) =>
         /\ op.end \in 0..tail
         /\ \A r \in Made : r.t = "batch" /\ r.acct # Me => r.last <= op.end
    /\ Doing({<<"audit", "rebase">>, <<"rebase">>}) =>
         op.remote \in 0..op.end /\ op.remote <= Ack(Me)
    /\ Doing({<<"rebase">>}) => (op.remote + 1)..op.end \subseteq audited
    /\ Doing(Moves \cup Closes) => op.end <= lcur
    /\ Doing(Moves) => op.rec.t = "advance"
    /\ Doing({<<"put", "send", "commit", "own", "delete">>, <<"send", "commit", "own", "delete">>,
              <<"commit", "own", "delete">>, <<"own", "delete">>, <<"own">>}) => batch[Me] = None
\* The owner's work: what is in hand is its own and was recorded since it took over.
Working ==
    /\ Doing(Sends \cup Works) => owner = Me
    /\ HasRequest => op.rec.acct = Me /\ (op.rec.t = "batch" => op.rec.first > floor)
    /\ Doing({<<"replace", "send", "commit", "delete">>}) => op.rec.t = "advance"
    /\ Doing({<<"creds">>, <<"register">>, <<"consent">>, <<"pending">>, <<"page">>}) =>
         op.rec = None
    /\ Doing({<<"context">>}) \/ (Doing({<<"cursor">>}) /\ op.rec = None) =>
         op.end \in (lcur + 1)..tail
    /\ Step("commit") => op.rec.last <= Ack(Me)
\* What may be sent is what the configuration consents to.
Consents(r) ==
    r.t = "batch" =>
        /\ r.why = "content" => config = "content"
        /\ config = "off" => \A e \in r.first..r.last : kind[e] = "system"
Consented ==
    Doing({<<"put", "send", "commit", "delete">>, <<"send", "commit", "delete">>}) =>
        Consents(op.rec)

\* What the server has acknowledged it has, and what the consumer passed is covered.
Contiguous == \A a \in Accounts : 1..Ack(a) \subseteq Covered(a)

\* All of it.
SyncInv ==
    /\ Laid /\ Cutover /\ Registered /\ Ranged /\ Bounded /\ Disjoint /\ Rows
    /\ Taking /\ Working /\ Consented /\ Contiguous /\ NothingSkippedSilently

----------------------------------------------------------------------------
(* Numbers, and what the server has acknowledged *)

\* A set of numbers that is not empty has a least one.
LEMMA LeastOf ==
    ASSUME NEW S, S \subseteq Nat, S # {}
    PROVE  \E k \in S : \A m \in S : k <= m
<1> DEFINE R == OpToRel(<, Nat)
<1>1. IsWellFoundedOn(R, Nat)
  BY NatLessThanWellFounded
<1> HIDE DEF R
<1>2. PICK k \in S : \A m \in S : ~(<<m, k>> \in R)
  BY <1>1, WFMin
<1>3. \A m \in S : m < k => <<m, k>> \in R
  BY DEF R, OpToRel
<1>4. \A m \in S : m \in Nat /\ k \in Nat /\ ~(m < k)
  BY <1>2, <1>3
<1> QED
  BY <1>4

\* A set of numbers that is not empty and has a bound has a greatest one.
LEMMA GreatestOf ==
    ASSUME NEW S, S \subseteq Nat, S # {}, NEW bound \in Nat, \A m \in S : m <= bound
    PROVE  Max(S) \in S /\ \A m \in S : m <= Max(S)
<1> DEFINE U == {n \in Nat : \A m \in S : m <= n}
<1>1. PICK k \in U : \A n \in U : k <= n
  <2>1. U \subseteq Nat /\ bound \in U
    OBVIOUS
  <2> QED
    BY <2>1, LeastOf
<1>2. k \in S
  <2> SUFFICES ASSUME k \notin S PROVE FALSE
    OBVIOUS
  <2>1. PICK x \in S : TRUE
    OBVIOUS
  <2>2. \A m \in S : m \in Nat /\ m <= k /\ m # k
    BY <1>1
  <2>3. k - 1 \in Nat /\ \A m \in S : m <= k - 1
    BY <1>1, <2>1, <2>2
  <2>4. k - 1 \in U
    BY <2>3
  <2> QED
    BY <1>1, <2>4
<1>3. \A m \in S : k >= m
  BY <1>1
<1>4. Max(S) \in S /\ \A m \in S : Max(S) >= m
  BY <1>2, <1>3 DEF Max
<1> QED
  BY <1>4

\* The server's cursor of an account is the end of its last request.
LEMMA AckFacts ==
    ASSUME SyncAssumption, accepted \subseteq Requests, NEW a
    PROVE  /\ Ack(a) \in Nat
           /\ \A q \in accepted : q.acct = a => q.last <= Ack(a)
           /\ Ack(a) = 0 \/ \E q \in accepted : q.acct = a /\ q.last = Ack(a)
<1> DEFINE S == {0} \cup {r.last : r \in {q \in accepted : q.acct = a}}
<1>1. MaxEvents \in Nat
  BY DEF SyncAssumption
<1>2. \A q \in accepted : q.last \in 1..MaxEvents
  BY DEF Requests
<1>3. S \subseteq Nat /\ S # {} /\ \A m \in S : m <= MaxEvents
  BY <1>1, <1>2
<1>4. Max(S) \in S /\ \A m \in S : m <= Max(S)
  BY <1>1, <1>3, GreatestOf
<1>5. Ack(a) = Max(S)
  BY DEF Ack
<1> HIDE DEF S
<1>6. Ack(a) \in S /\ \A m \in S : m <= Ack(a)
  BY <1>4, <1>5
<1> QED
  BY <1>3, <1>6 DEF S

\* The same after a step.
LEMMA NextAck ==
    ASSUME SyncAssumption, accepted' \subseteq Requests, NEW a
    PROVE  /\ Ack(a)' \in Nat
           /\ \A q \in accepted' : q.acct = a => q.last <= Ack(a)'
           /\ Ack(a)' = 0 \/ \E q \in accepted' : q.acct = a /\ q.last = Ack(a)'
<1> DEFINE S == {0} \cup {q.last : q \in {p \in accepted' : p.acct = a}}
<1>1. MaxEvents \in Nat
  BY DEF SyncAssumption
<1>2. \A q \in accepted' : q.last \in 1..MaxEvents
  BY DEF Requests
<1>3. S \subseteq Nat /\ S # {} /\ \A m \in S : m <= MaxEvents
  BY <1>1, <1>2
<1>4. Max(S) \in S /\ \A m \in S : m <= Max(S)
  BY <1>1, <1>3, GreatestOf
<1>5. Ack(a)' = Max(S)
  BY DEF Ack
<1> HIDE DEF S
<1>6. Ack(a)' \in S /\ \A m \in S : m <= Ack(a)'
  BY <1>4, <1>5
<1> QED
  BY <1>3, <1>6 DEF S

\* A request the server applies leaves no gap.
LEMMA CoverGrows ==
    ASSUME SyncAssumption, accepted \subseteq Requests, NEW r \in Requests, r.first <= r.last,
           Serves(r), accepted' = accepted \cup {r}, Contiguous
    PROVE  /\ Contiguous' /\ r.last <= Ack(r.acct)'
           /\ \A a : Ack(a) <= Ack(a)' /\ Covered(a) \subseteq Covered(a)'
<1>1. accepted' \subseteq Requests
  OBVIOUS
<1>2. \A a : /\ Ack(a)' \in Nat
             /\ \A q \in accepted' : q.acct = a => q.last <= Ack(a)'
             /\ Ack(a)' = 0 \/ \E q \in accepted' : q.acct = a /\ q.last = Ack(a)'
  BY <1>1, NextAck
<1>3. \A a : Covered(a) \subseteq Covered(a)'
  BY DEF Covered
<1>4. \A a : Ack(a) <= Ack(a)'
  <2> TAKE a
  <2>1. Ack(a) \in Nat /\ (Ack(a) = 0 \/ \E q \in accepted : q.acct = a /\ q.last = Ack(a))
    BY AckFacts
  <2> QED
    BY <1>2, <2>1
<1>5. ASSUME NEW a \in Accounts
      PROVE  1..Ack(a)' \subseteq Covered(a)'
  <2>1. /\ Ack(a) \in Nat /\ Ack(a)' \in Nat
        /\ \A q \in accepted : q.acct = a => q.last <= Ack(a)
    BY <1>2, AckFacts
  <2>2. 1..Ack(a) \subseteq Covered(a)'
    BY <1>3 DEF Contiguous
  <2>3. CASE Ack(a)' <= Ack(a)
    BY <2>1, <2>2, <2>3
  <2>4. CASE Ack(a)' > Ack(a)
    <3>1. PICK q \in accepted' : q.acct = a /\ q.last = Ack(a)'
      BY <1>2, <2>1, <2>4
    <3>2. q = r /\ r \notin accepted
      BY <2>1, <2>4, <3>1
    <3>3. r.first = Ack(a) + 1
      BY <2>4, <2>1, <3>1, <3>2 DEF Serves
    <3>4. r.first..r.last \subseteq Covered(a)'
      BY <3>1, <3>2 DEF Covered
    <3>5. 1..Ack(a)' \subseteq 1..Ack(a) \cup r.first..r.last
      BY <2>1, <3>1, <3>2, <3>3
    <3> QED
      BY <2>2, <3>4, <3>5
  <2> QED
    BY <2>1, <2>3, <2>4
<1>6. Contiguous'
  BY <1>5 DEF Contiguous
<1>7. r.last <= Ack(r.acct)'
  BY <1>2
<1> QED
  BY <1>3, <1>4, <1>6, <1>7

----------------------------------------------------------------------------
(* The steps an operation has before it *)

\* A todo list with the step at its head.
LEMMA Places ==
    \A t \in Todos :
        /\ t # <<>>
        /\ Head(t) = "creds" => t = <<"creds">>
        /\ Head(t) = "register" => t = <<"register">>
        /\ Head(t) = "consent" => t = <<"consent">>
        /\ Head(t) = "tail" => t = <<"tail", "cursor", "audit", "rebase">>
        /\ Head(t) = "cursor" => t \in {<<"cursor", "audit", "rebase">>, <<"cursor">>}
        /\ Head(t) = "audit" => t = <<"audit", "rebase">>
        /\ Head(t) = "rebase" => t = <<"rebase">>
        /\ Head(t) = "drop" =>
             t \in {<<"drop", "put", "send", "commit", "own", "delete">>, <<"drop", "own">>}
        /\ Head(t) = "put" => t \in {<<"put", "send", "commit", "own", "delete">>,
                                     <<"put", "send", "commit", "delete">>}
        /\ Head(t) = "send" =>
             t \in {<<"send", "commit", "own", "delete">>, <<"send", "commit", "delete">>}
        /\ Head(t) = "commit" => t \in {<<"commit", "own", "delete">>, <<"commit", "delete">>}
        /\ Head(t) = "own" => t \in {<<"own", "delete">>, <<"own">>}
        /\ Head(t) = "delete" => t = <<"delete">>
        /\ Head(t) = "replace" => t = <<"replace", "send", "commit", "delete">>
        /\ Head(t) = "pending" => t = <<"pending">>
        /\ Head(t) = "page" => t = <<"page">>
        /\ Head(t) = "context" => t = <<"context">>
BY DEF Todos, Prepares, Looks, Moves, Closes, Sends, Works

\* What is left when the first step of a list is done.
LEMMA Rests ==
    /\ Tail(<<"tail", "cursor", "audit", "rebase">>) = <<"cursor", "audit", "rebase">>
    /\ Tail(<<"cursor", "audit", "rebase">>) = <<"audit", "rebase">>
    /\ Tail(<<"audit", "rebase">>) = <<"rebase">>
    /\ Tail(<<"drop", "put", "send", "commit", "own", "delete">>) =
         <<"put", "send", "commit", "own", "delete">>
    /\ Tail(<<"put", "send", "commit", "own", "delete">>) = <<"send", "commit", "own", "delete">>
    /\ Tail(<<"send", "commit", "own", "delete">>) = <<"commit", "own", "delete">>
    /\ Tail(<<"commit", "own", "delete">>) = <<"own", "delete">>
    /\ Tail(<<"own", "delete">>) = <<"delete">>
    /\ Tail(<<"drop", "own">>) = <<"own">>
    /\ Tail(<<"own">>) = <<>>
    /\ Tail(<<"put", "send", "commit", "delete">>) = <<"send", "commit", "delete">>
    /\ Tail(<<"replace", "send", "commit", "delete">>) = <<"send", "commit", "delete">>
    /\ Tail(<<"send", "commit", "delete">>) = <<"commit", "delete">>
    /\ Tail(<<"commit", "delete">>) = <<"delete">>
OBVIOUS

----------------------------------------------------------------------------
(* What steps have in common *)

Fields == {"id", "todo", "tries", "end", "remote", "rec"}
\* The operation goes on with these steps, end, remote cursor and request.
Goes(s, end, remote, rec) ==
    /\ DOMAIN op' = Fields /\ op'.id = op.id /\ op'.todo = s
    /\ op'.end = end /\ op'.remote = remote /\ op'.rec = rec

\* Requests that are new lie in the journal, and bodies after the floor of their owner.
LEMMA BodiesGo ==
    ASSUME Ranged, Bounded, Disjoint, tail \in Nat, tail' \in Nat, tail <= tail', floor \in Nat,
           owner' = owner, floor' = floor, NEW R, Made' \subseteq Made \cup R,
           \A r \in R : /\ r \in Requests /\ r.first <= r.last /\ r.last <= tail
                        /\ r.t = "batch" => r.acct = owner /\ r.first > floor
    PROVE  Ranged' /\ Bounded' /\ Disjoint'
<1>1. \A r \in Made : r.first \in Nat /\ r.last \in Nat
  BY DEF Ranged, Requests
<1>2. \A r \in R : r.first \in Nat /\ r.last \in Nat
  BY DEF Requests
<1>3. Ranged'
  <2>1. \A r \in Made' : r \in Requests /\ r.first <= r.last /\ r.last <= tail
    BY DEF Ranged
  <2>2. Requests' = Requests
    BY DEF Requests
  <2>3. \A r \in Made' : r.last \in Nat
    BY <1>1, <1>2
  <2> QED
    BY <2>1, <2>2, <2>3 DEF Ranged
<1>4. Bounded'
  BY DEF Bounded
<1>5. ASSUME NEW q \in Made', NEW r \in Made', q.t = "batch", r.t = "batch", q.acct # r.acct
      PROVE  q.last < r.first \/ r.last < q.first
  <2>1. CASE q \in Made /\ r \in Made
    BY <1>5, <2>1 DEF Disjoint
  <2>2. CASE q \in R /\ r \in R
    BY <1>5, <2>2
  <2>3. CASE q \in Made /\ r \in R
    <3>1. q.last <= floor /\ r.first > floor
      BY <1>5, <2>3 DEF Bounded
    <3> QED
      BY <1>1, <1>2, <2>3, <3>1
  <2>4. CASE q \in R /\ r \in Made
    <3>1. r.last <= floor /\ q.first > floor
      BY <1>5, <2>4 DEF Bounded
    <3> QED
      BY <1>1, <1>2, <2>4, <3>1
  <2> QED
    BY <2>1, <2>2, <2>3, <2>4
<1> QED
  BY <1>3, <1>4, <1>5 DEF Disjoint

\* What the parts of the invariant say of the numbers.
LEMMA Numbers ==
    ASSUME SyncInv
    PROVE  /\ tail \in Nat /\ lcur \in 0..tail /\ floor \in 0..lcur /\ aged \in 0..tail
           /\ kind \in Seq(Kinds) /\ accepted \subseteq Requests
BY DEF SyncInv, Laid, SyncTypeOK, Rows, tail

\* A step of the operation that changes nothing but the operation.
LEMMA OpFrame ==
    ASSUME SyncInv, op # None,
           UNCHANGED <<kind, aged, durable, server, config, session, gen, mode, floor>>,
           op' # None => /\ DOMAIN op' = Fields /\ op'.id = op.id /\ op'.todo \in Todos
                         /\ op'.todo = <<"register">> => op.todo = op'.todo /\ op.end = op'.end,
           NEW R,
           \A r \in R : /\ r \in Requests /\ r.first <= r.last /\ r.last <= tail
                        /\ r.t = "batch" => r.acct = owner /\ r.first > floor,
           HasRequest' => op'.rec \in R \/ (HasRequest /\ op'.rec = op.rec)
    PROVE  /\ Laid' /\ Cutover' /\ Registered' /\ Ranged' /\ Bounded' /\ Disjoint' /\ Rows'
           /\ Contiguous' /\ NothingSkippedSilently'
           /\ Made' \subseteq Made \cup R /\ \A a : Ack(a)' = Ack(a)
<1>1. Laid'
  BY DEF SyncInv, Laid, SyncTypeOK, durable, server, tail, Requests, Fields, Me
<1>2. Cutover'
  BY DEF SyncInv, Cutover, durable, server, Booting
<1>3. Registered'
  BY DEF SyncInv, Registered, durable, server, Doing, Me
<1>4. Made' \subseteq Made \cup R
  BY DEF Made, durable, server
<1>5. tail' = tail /\ tail \in Nat /\ floor \in Nat
  BY Numbers DEF tail
<1>6. Ranged' /\ Bounded' /\ Disjoint'
  BY <1>4, <1>5, BodiesGo DEF SyncInv, durable
<1>7. Rows'
  BY DEF SyncInv, Rows, durable
<1>8. \A a : Ack(a)' = Ack(a) /\ Covered(a)' = Covered(a)
  BY DEF Ack, Covered, server
<1>9. Contiguous'
  BY <1>8 DEF SyncInv, Contiguous
<1>10. NothingSkippedSilently'
  BY <1>8 DEF SyncInv, NothingSkippedSilently, durable
<1> QED
  BY <1>1, <1>2, <1>3, <1>4, <1>6, <1>7, <1>8, <1>9, <1>10

\* The end of the operation.
LEMMA NoOp ==
    ASSUME op' = None
    PROVE  Taking' /\ Working' /\ Consented' /\ ~HasRequest'
BY DEF Taking, Working, Consented, HasRequest, Doing, Step

\* An operation that has not come to the consumer has no request in hand.
LEMMA Preparing ==
    ASSUME op'.todo \in Prepares, op'.rec = None
    PROVE  Taking' /\ Working' /\ Consented' /\ ~HasRequest'
<1>1. op'.todo \notin Looks \cup Moves \cup Closes \cup Sends \cup Works
  BY DEF Prepares, Looks, Moves, Closes, Sends, Works
<1>2. ~HasRequest'
  BY <1>1 DEF HasRequest, Doing, Works
<1>3. Taking'
  BY <1>1 DEF Taking, Doing, Looks, Moves, Closes
<1>4. Working'
  <2>1. ~Step("commit")'
    BY DEF Step, Prepares
  <2> QED
    BY <1>1, <1>2, <2>1 DEF Working, Doing, Sends, Works
<1>5. Consented'
  BY <1>1 DEF Consented, Doing, Sends
<1> QED
  BY <1>2, <1>3, <1>4, <1>5

----------------------------------------------------------------------------
(* The next request of a page *)

\* Content is uploaded under the consent to content, other kinds than system events
\* under some consent.
LEMMA ProjectionFacts ==
    ASSUME NEW e, NEW c
    PROVE  /\ Projection(e, c) \in Reasons \cup {"metadata", "content"}
           /\ Projection(e, c) = "content" => c = "content"
           /\ Uploads(e, c) /\ c = "off" => kind[e] = "system"
BY DEF Projection, Uploads, Reasons

\* The request of a page starts at its first event, ends in the page, and is consented.
LEMMA PageFacts ==
    ASSUME SyncAssumption, tail <= MaxEvents, tail \in Nat, NEW a \in Accounts,
           NEW first \in 1..tail, NEW end \in first..tail
    PROVE  LET r == PageRequest(a, first, end)
           IN  /\ r \in Requests /\ r.acct = a /\ r.first = first /\ r.last \in first..end
               /\ Consents(r)
<1> DEFINE S == {l \in first..end : Together(first, l, config)}
<1>1. first \in S
  <2>1. first \in first..end /\ first..first = {first} /\ first - first < BatchMax
    BY DEF SyncAssumption
  <2> QED
    BY <2>1 DEF Together
<1>2. S \subseteq Nat /\ end \in Nat /\ \A m \in S : m <= end
  OBVIOUS
<1>3. PICK last \in S : last = Max(S)
  BY <1>1, <1>2, GreatestOf
<1>4. first \in 1..MaxEvents /\ last \in 1..MaxEvents /\ last \in first..end
  BY DEF SyncAssumption
<1>5. CASE Uploads(first, config)
  <2>1. PICK why : why = IF \E e \in first..last : Projection(e, config) = "content"
                         THEN "content" ELSE "metadata"
    OBVIOUS
  <2>2. PageRequest(a, first, end) = Request("batch", a, first, last, why)
    BY <1>3, <1>5, <2>1 DEF PageRequest
  <2>3. \A e \in first..last : Uploads(e, config)
    BY <1>5 DEF Together
  <2>4. why \in {"content", "metadata"} /\ (why = "content" => config = "content")
    BY <2>1, ProjectionFacts
  <2>5. config = "off" => \A e \in first..last : kind[e] = "system"
    BY <2>3, ProjectionFacts
  <2> QED
    BY <1>4, <2>2, <2>4, <2>5 DEF Request, Requests, Consents
<1>6. CASE ~Uploads(first, config)
  <2>1. PageRequest(a, first, end) = Request("advance", a, first, last, Projection(first, config))
    BY <1>3, <1>6 DEF PageRequest
  <2>2. Projection(first, config) \in Reasons \cup {"metadata", "content"}
    BY ProjectionFacts
  <2> QED
    BY <1>4, <2>1, <2>2 DEF Request, Requests, Consents
<1> QED
  BY <1>5, <1>6

----------------------------------------------------------------------------
(* Steps of the operation that change nothing else *)

LocalOnly == UNCHANGED <<kind, aged, durable, server, config, session, gen, mode, floor>>
\* The parts of the invariant that are about the operation.
Operating == Taking /\ Working /\ Consented

\* An operation under way.
LEMMA OpFacts ==
    ASSUME SyncInv, op # None
    PROVE  /\ DOMAIN op = Fields /\ op.todo \in Todos /\ op.todo # <<>> /\ Me \in Accounts
           /\ tail \in Nat /\ lcur \in 0..tail /\ floor \in 0..lcur /\ tail <= MaxEvents
           /\ accepted \subseteq Requests
           /\ Taking /\ Working /\ Consented
BY Places, Numbers DEF SyncInv, Laid, Fields

\* A request the operation has in hand is one of those made.
LEMMA InHand ==
    ASSUME SyncInv, HasRequest
    PROVE  /\ op.rec \in Made /\ op.rec \in Requests /\ op.rec.first <= op.rec.last
           /\ op.rec.last <= tail /\ op.rec.acct = Me
           /\ op.rec.t = "batch" => op.rec.first > floor
BY DEF SyncInv, Made, Ranged, Working

\* Such a step keeps the invariant when it keeps what is about the operation.
LEMMA LocalKeeps ==
    ASSUME SyncInv, op # None, LocalOnly,
           op' # None => DOMAIN op' = Fields /\ op'.id = op.id /\ op'.todo \in Todos \ {<<"register">>},
           NEW R,
           \A r \in R : /\ r \in Requests /\ r.first <= r.last /\ r.last <= tail
                        /\ r.t = "batch" => r.acct = owner /\ r.first > floor,
           HasRequest' => op'.rec \in R \/ (HasRequest /\ op'.rec = op.rec),
           Operating'
    PROVE  SyncInv'
<1>1. /\ Laid' /\ Cutover' /\ Registered' /\ Ranged' /\ Bounded' /\ Disjoint' /\ Rows'
      /\ Contiguous' /\ NothingSkippedSilently'
  BY OpFrame DEF LocalOnly
<1> QED
  BY <1>1 DEF SyncInv, Operating

\* ... and no new request.
LEMMA LocalShrinks ==
    ASSUME SyncInv, op # None, LocalOnly,
           op' # None => DOMAIN op' = Fields /\ op'.id = op.id /\ op'.todo \in Todos \ {<<"register">>},
           HasRequest' => HasRequest /\ op'.rec = op.rec,
           Operating'
    PROVE  SyncInv'
<1>1. PICK R : R = {}
  OBVIOUS
<1>2. \A r \in R : /\ r \in Requests /\ r.first <= r.last /\ r.last <= tail
                   /\ r.t = "batch" => r.acct = owner /\ r.first > floor
  BY <1>1
<1> QED
  BY <1>2, LocalKeeps

\* An operation that ends here.
LEMMA EndKeeps ==
    ASSUME SyncInv, op # None, LocalOnly, op' = None
    PROVE  SyncInv'
BY NoOp, LocalShrinks DEF Operating

\* The tail of the journal covers every body.
LEMMA TailCursorKeeps == ASSUME SyncInv, TailCursor PROVE SyncInv'
<1>1. op # None /\ Head(op.todo) = "tail" /\ LocalOnly
  BY DEF TailCursor, Step, LocalOnly
<1>2. op.todo = <<"tail", "cursor", "audit", "rebase">>
  BY <1>1, OpFacts, Places
<1>3. op' = None \/ Goes(<<"cursor", "audit", "rebase">>, tail, op.remote, op.rec)
  <2>1. op' = None \/ op' = [Then(<<"cursor", "audit", "rebase">>) EXCEPT !.end = tail]
    BY <1>2, Rests DEF TailCursor, IfCurrent, Next1
  <2> QED
    BY <1>1, <2>1, OpFacts DEF Then, Goes, Fields
<1>4. CASE op' # None /\ Goes(<<"cursor", "audit", "rebase">>, tail, op.remote, op.rec)
  <2>1. ~HasRequest'
    BY <1>4 DEF Goes, HasRequest, Doing, Moves, Sends
  <2>2. Made' \subseteq Made /\ tail' = tail
    BY <2>1, <1>1 DEF Made, LocalOnly, durable, server, tail
  <2>3. \A r \in Made' : r.last <= tail
    BY <2>2 DEF SyncInv, Ranged
  <2>4. Taking'
    BY <1>4, <2>2, <2>3, OpFacts, <1>1 DEF Taking, Goes, Doing, Looks, Moves, Closes
  <2>5. Working'
    BY <1>4, <2>1 DEF Working, Goes, Doing, Sends, Works, Step
  <2>6. Consented'
    BY <1>4 DEF Consented, Goes, Doing
  <2>7. op'.todo \in Todos \ {<<"register">>}
    BY <1>4 DEF Goes, Todos, Looks
  <2> QED
    BY <1>1, <1>4, <2>1, <2>4, <2>5, <2>6, <2>7, LocalShrinks DEF Goes, Operating
<1> QED
  BY <1>1, <1>3, <1>4, EndKeeps

\* The rows of pending requests.
LEMMA RowFacts ==
    ASSUME SyncInv, NEW a \in Accounts
    PROVE  /\ batch[a] # None =>
                /\ batch[a] \in Requests /\ batch[a].first <= batch[a].last /\ batch[a].last <= tail
                /\ batch[a].acct = a /\ batch[a].t = "batch" /\ batch[a] \in Made
                /\ a = owner => batch[a].first > floor
           /\ advance[a] # None =>
                /\ advance[a] \in Requests /\ advance[a].first <= advance[a].last
                /\ advance[a].last <= tail
                /\ advance[a].acct = a /\ advance[a].t = "advance" /\ advance[a] \in Made
<1>1. /\ batch[a] # None => batch[a] \in Made
      /\ advance[a] # None => advance[a] \in Made
  BY DEF Made
<1> QED
  BY <1>1 DEF SyncInv, Ranged, Rows

\* The owner's operation goes on at one of its own places.
LEMMA WorkKeeps ==
    ASSUME SyncInv, op # None, op' # None, LocalOnly, owner = Me, NEW s \in Sends \cup Works,
           NEW end, NEW rec, Goes(s, end, op.remote, rec),
           s \in {<<"pending">>, <<"page">>} => rec = None,
           s = <<"context">> \/ (s = <<"cursor">> /\ rec = None) => end \in (lcur + 1)..tail,
           s \in Sends \/ (s = <<"cursor">> /\ rec # None) =>
             /\ rec \in Requests /\ rec.first <= rec.last /\ rec.last <= tail /\ rec.acct = Me
             /\ rec.t = "batch" => rec.first > floor,
           s = <<"replace", "send", "commit", "delete">> => rec.t = "advance",
           s = <<"commit", "delete">> => rec.last <= Ack(Me),
           s \in {<<"put", "send", "commit", "delete">>, <<"send", "commit", "delete">>} =>
             Consents(rec)
    PROVE  SyncInv'
<1>1. Me' = Me /\ owner' = owner /\ lcur' = lcur /\ floor' = floor /\ Ack(Me)' = Ack(Me)
      /\ tail' = tail
  BY DEF Goes, Me, LocalOnly, durable, server, Ack, tail
<1>2. HasRequest' <=> s \in Sends \/ (s = <<"cursor">> /\ rec # None)
  BY DEF HasRequest, Goes, Doing, Moves, Sends, Works
<1>3. Taking'
  <2>1. s \notin Looks \cup Moves \cup Closes
    BY DEF Looks, Moves, Closes, Sends, Works
  <2>2. ~Doing(Looks \cup Moves \cup Closes)'
    BY <2>1 DEF Doing, Goes
  <2>3. /\ {<<"audit", "rebase">>, <<"rebase">>} \subseteq Looks
        /\ {<<"put", "send", "commit", "own", "delete">>, <<"send", "commit", "own", "delete">>,
            <<"commit", "own", "delete">>, <<"own", "delete">>, <<"own">>} \subseteq Moves \cup Closes
    BY DEF Looks, Moves, Closes
  <2> QED
    BY <2>2, <2>3 DEF Taking, Doing
<1>4. Working'
  <2>1. (Doing(Sends \cup Works) => owner = Me)'
    BY <1>1
  <2>2. (HasRequest => op.rec.acct = Me /\ (op.rec.t = "batch" => op.rec.first > floor))'
    BY <1>1, <1>2 DEF Goes
  <2>3. (Doing({<<"replace", "send", "commit", "delete">>}) => op.rec.t = "advance")'
    BY DEF Goes, Doing
  <2>4. (Doing({<<"creds">>, <<"register">>, <<"consent">>, <<"pending">>, <<"page">>}) =>
          op.rec = None)'
    BY DEF Goes, Doing, Sends, Works
  <2>5. (Doing({<<"context">>}) \/ (Doing({<<"cursor">>}) /\ op.rec = None) =>
          op.end \in (lcur + 1)..tail)'
    BY <1>1 DEF Goes, Doing
  <2>6. (Step("commit") => op.rec.last <= Ack(Me))'
    <3>1. Step("commit")' => s = <<"commit", "delete">>
      BY DEF Step, Goes, Sends, Works
    <3>2. Step("commit")' => rec.last <= Ack(Me)
      BY <3>1
    <3>3. op'.rec = rec /\ Ack(Me)' = Ack(Me)
      BY <1>1 DEF Goes
    <3> QED
      BY <3>2, <3>3
  <2> QED
    BY <2>1, <2>2, <2>3, <2>4, <2>5, <2>6 DEF Working
<1>5. Consented'
  <2>1. Doing({<<"put", "send", "commit", "delete">>, <<"send", "commit", "delete">>})' => Consents(rec)
    BY DEF Goes, Doing
  <2>2. Consents(rec) => Consents(op.rec)'
    BY DEF Consents, LocalOnly, Goes
  <2> QED
    BY <2>1, <2>2 DEF Consented
<1>6. PICK R : R = {r \in {rec} : HasRequest'}
  OBVIOUS
<1>7. \A r \in R : /\ r \in Requests /\ r.first <= r.last /\ r.last <= tail
                   /\ r.t = "batch" => r.acct = owner /\ r.first > floor
  BY <1>2, <1>6
<1>8. HasRequest' => op'.rec \in R
  BY <1>6 DEF Goes
<1>9. op'.todo \in Todos \ {<<"register">>}
  BY DEF Goes, Todos, Sends, Works
<1> QED
  BY <1>3, <1>4, <1>5, <1>7, <1>8, <1>9, LocalKeeps DEF Operating, Goes

\* What is pending is recovered before a new page is taken.
LEMMA PendingOperationKeeps == ASSUME SyncInv, PendingOperation PROVE SyncInv'
<1>1. op # None /\ Head(op.todo) = "pending" /\ LocalOnly
  BY DEF PendingOperation, Step, LocalOnly
<1>2. op.todo = <<"pending">> /\ owner = Me /\ op.rec = None /\ Me \in Accounts
  <2>1. op.todo = <<"pending">>
    BY <1>1, OpFacts, Places
  <2> QED
    BY <1>1, <2>1, OpFacts DEF Working, Doing, Works
<1>3. \/ op' = None
      \/ op' # None /\ batch[Me] # None /\ Goes(<<"cursor">>, op.end, op.remote, batch[Me])
      \/ /\ op' # None /\ advance[Me] # None
         /\ Goes(<<"send", "commit", "delete">>, op.end, op.remote, advance[Me])
      \/ op' # None /\ Goes(<<"page">>, op.end, op.remote, op.rec)
  BY <1>1, OpFacts DEF PendingOperation, IfCurrent, Then, Goes, Fields
<1>4. CASE op' # None /\ batch[Me] # None /\ Goes(<<"cursor">>, op.end, op.remote, batch[Me])
  BY <1>1, <1>2, <1>4, RowFacts, WorkKeeps DEF Sends, Works
<1>5. CASE /\ op' # None /\ advance[Me] # None
           /\ Goes(<<"send", "commit", "delete">>, op.end, op.remote, advance[Me])
  <2>1. Consents(advance[Me])
    BY <1>2, <1>5, RowFacts DEF Consents
  <2> QED
    BY <1>1, <1>2, <1>5, <2>1, RowFacts, WorkKeeps DEF Sends, Works
<1>6. CASE op' # None /\ Goes(<<"page">>, op.end, op.remote, op.rec)
  BY <1>1, <1>2, <1>6, WorkKeeps DEF Sends, Works
<1> QED
  BY <1>1, <1>3, <1>4, <1>5, <1>6, EndKeeps

\* A page starts at the committed cursor.
LEMMA QueryPageKeeps == ASSUME SyncInv, QueryPage PROVE SyncInv'
<1>1. op # None /\ Head(op.todo) = "page" /\ LocalOnly
  BY DEF QueryPage, Step, LocalOnly
<1>2. op.todo = <<"page">> /\ owner = Me /\ op.rec = None
  <2>1. op.todo = <<"page">>
    BY <1>1, OpFacts, Places
  <2> QED
    BY <1>1, <2>1, OpFacts DEF Working, Doing, Works
<1>3. op' = None \/ (op' # None /\ lcur < tail /\ Goes(<<"cursor">>, tail, op.remote, op.rec))
  BY <1>1, OpFacts DEF QueryPage, Then, Goes, Fields
<1>4. CASE op' # None /\ lcur < tail /\ Goes(<<"cursor">>, tail, op.remote, op.rec)
  <2>1. tail \in (lcur + 1)..tail
    BY <1>1, <1>4, OpFacts
  <2> QED
    BY <1>1, <1>2, <1>4, <2>1, WorkKeeps DEF Sends, Works
<1> QED
  BY <1>1, <1>3, <1>4, EndKeeps

\* A page in hand becomes a request that follows the cursor and is consented.
LEMMA PutPageKeeps ==
    ASSUME SyncAssumption, SyncInv, op # None, op' # None, LocalOnly, owner = Me,
           op.end \in (lcur + 1)..tail,
           Goes(<<"put", "send", "commit", "delete">>, op.end, op.remote,
                PageRequest(Me, lcur + 1, op.end))
    PROVE  SyncInv'
<1>1. PICK r : r = PageRequest(Me, lcur + 1, op.end)
  OBVIOUS
<1>2. lcur + 1 \in 1..tail /\ op.end \in (lcur + 1)..tail /\ lcur \in Nat /\ floor \in 0..lcur
      /\ tail \in Nat
  BY OpFacts
<1>3. /\ r \in Requests /\ r.acct = Me /\ r.first = lcur + 1 /\ r.last \in (lcur + 1)..op.end
      /\ Consents(r)
  BY <1>1, <1>2, OpFacts, PageFacts
<1>4. r.first <= r.last /\ r.last <= tail /\ r.first > floor
  BY <1>2, <1>3
<1>5. Goes(<<"put", "send", "commit", "delete">>, op.end, op.remote, r)
  BY <1>1
<1> QED
  BY <1>3, <1>4, <1>5, WorkKeeps DEF Sends, Works

\* The encryption context is there.
LEMMA EncryptionContextKeeps ==
    ASSUME SyncAssumption, SyncInv, EncryptionContext PROVE SyncInv'
<1>1. op # None /\ Head(op.todo) = "context" /\ LocalOnly
  BY DEF EncryptionContext, Step, LocalOnly
<1>2. op.todo = <<"context">> /\ owner = Me /\ op.end \in (lcur + 1)..tail
  <2>1. op.todo = <<"context">>
    BY <1>1, OpFacts, Places
  <2> QED
    BY <1>1, <2>1, OpFacts DEF Working, Doing, Works
<1>3. Goes(<<"put", "send", "commit", "delete">>, op.end, op.remote,
           PageRequest(Me, lcur + 1, op.end))
  BY <1>1, OpFacts DEF EncryptionContext, Then, Goes, Fields
<1> QED
  BY <1>1, <1>2, <1>3, EndKeeps, PutPageKeeps

\* A batch that is recovered is committed, replaced, or sent if it is still consented.
LEMMA RecoveredConsents ==
    ASSUME NEW r, ReplacementReason(r) = None, None \notin Reasons
    PROVE  Consents(r)
<1>1. "consent-revoked" # None /\ "content-not-consented" # None
  BY DEF Reasons
<1> QED
  BY <1>1 DEF ReplacementReason, Consents

\* The remote cursor, for a change of owner, a recovered batch or a page.
LEMMA GetRemoteCursorKeeps ==
    ASSUME SyncAssumption, SyncInv, GetRemoteCursor
    PROVE  SyncInv'
<1>1. op # None /\ Head(op.todo) = "cursor" /\ LocalOnly
  BY DEF GetRemoteCursor, Step, LocalOnly
<1>2. op.todo \in {<<"cursor", "audit", "rebase">>, <<"cursor">>}
  BY <1>1, OpFacts, Places
<1>3. CASE op.todo = <<"cursor", "audit", "rebase">>
  <2>1. Rebasing
    BY <1>3 DEF Rebasing, ToSet
  <2>2. op' = IF Ack(Me) > op.end THEN None ELSE [Then(<<"audit", "rebase">>) EXCEPT !.remote = Ack(Me)]
    BY <1>3, <2>1, Rests DEF GetRemoteCursor, CursorForRebase, Next1
  <2>3. op' = None \/ (op' # None /\ Ack(Me) <= op.end /\ Goes(<<"audit", "rebase">>, op.end, Ack(Me), op.rec))
    <3>1. Ack(Me) \in Nat /\ op.end \in 0..tail /\ tail \in Nat
      BY <1>1, <1>3, OpFacts, AckFacts DEF Taking, Doing, Looks
    <3> QED
      BY <1>1, <2>2, <3>1, OpFacts DEF Then, Goes, Fields
  <2>4. CASE op' # None /\ Ack(Me) <= op.end /\ Goes(<<"audit", "rebase">>, op.end, Ack(Me), op.rec)
    <3>1. ~HasRequest'
      BY <2>4 DEF Goes, HasRequest, Doing, Moves, Sends
    <3>2. /\ Made' \subseteq Made /\ tail' = tail /\ Me' = Me /\ Ack(Me)' = Ack(Me)
          /\ Ack(Me) \in Nat
      <4>1. Made' \subseteq Made
        BY <3>1, <1>1 DEF Made, LocalOnly, durable, server
      <4>2. tail' = tail /\ Me' = Me
        BY <1>1, <2>4 DEF LocalOnly, tail, Me, Goes
      <4>3. Ack(Me)' = Ack(Me)
        BY <1>1, <4>2 DEF LocalOnly, server, Ack
      <4>4. Ack(Me) \in Nat
        BY <1>1, OpFacts, AckFacts
      <4> QED
        BY <4>1, <4>2, <4>3, <4>4
    <3>3. op.end \in 0..tail /\ \A r \in Made : r.t = "batch" /\ r.acct # Me => r.last <= op.end
      BY <1>1, <1>3, OpFacts DEF Taking, Doing, Looks
    <3>4. Ack(Me) \in 0..op.end
      BY <2>4, <3>2, <3>3
    <3>5. Taking'
      BY <2>4, <3>2, <3>3, <3>4 DEF Taking, Goes, Doing, Looks, Moves, Closes
    <3>6. Working'
      BY <2>4, <3>1 DEF Working, Goes, Doing, Sends, Works, Step
    <3>7. Consented'
      BY <2>4 DEF Consented, Goes, Doing
    <3>8. op'.todo \in Todos \ {<<"register">>}
      BY <2>4 DEF Goes, Todos, Looks
    <3> QED
      BY <1>1, <2>4, <3>1, <3>5, <3>6, <3>7, <3>8, LocalShrinks DEF Goes, Operating
  <2> QED
    BY <1>1, <2>3, <2>4, EndKeeps
<1>4. CASE op.todo = <<"cursor">>
  <2>1. ~Rebasing /\ owner = Me
    BY <1>1, <1>4, OpFacts DEF Rebasing, ToSet, Working, Doing, Works
  <2>2. CASE op.rec # None
    <3>1. HasRequest
      BY <1>1, <1>4, <2>2 DEF HasRequest, Doing
    <3>2. PICK r : r = op.rec
      OBVIOUS
    <3>3. /\ r \in Requests /\ r.first <= r.last /\ r.last <= tail /\ r.acct = Me
          /\ r.t = "batch" => r.first > floor
      BY <3>1, <3>2, InHand
    <3>4. PICK why : why = ReplacementReason(r)
      OBVIOUS
    <3>5. \/ op' = None
          \/ /\ op' # None /\ Ack(Me) = r.last
             /\ Goes(<<"commit", "delete">>, op.end, op.remote, r)
          \/ /\ op' # None /\ why # None
             /\ Goes(<<"replace", "send", "commit", "delete">>, op.end, op.remote,
                     Request("advance", Me, r.first, r.last, why))
          \/ /\ op' # None /\ why = None
             /\ Goes(<<"send", "commit", "delete">>, op.end, op.remote, r)
      BY <1>1, <2>1, <2>2, <3>2, <3>4, OpFacts
         DEF GetRemoteCursor, CursorForBatch, Then, Goes, Fields
    <3>6. CASE /\ op' # None /\ Ack(Me) = r.last
               /\ Goes(<<"commit", "delete">>, op.end, op.remote, r)
      <4>1. r.last <= Ack(Me)
        BY <3>3, <3>6 DEF Requests
      <4> QED
        BY <1>1, <2>1, <3>3, <3>6, <4>1, WorkKeeps DEF Sends, Works
    <3>7. CASE /\ op' # None /\ why # None
               /\ Goes(<<"replace", "send", "commit", "delete">>, op.end, op.remote,
                       Request("advance", Me, r.first, r.last, why))
      <4>1. PICK q : q = Request("advance", Me, r.first, r.last, why)
        OBVIOUS
      <4>2. why \in Reasons
        BY <3>4, <3>7 DEF ReplacementReason, Reasons
      <4>3. q \in Requests /\ q.first <= q.last /\ q.last <= tail /\ q.acct = Me /\ q.t = "advance"
        BY <1>1, <3>3, <4>1, <4>2, OpFacts DEF Request, Requests
      <4> QED
        BY <1>1, <2>1, <3>7, <4>1, <4>3, WorkKeeps DEF Sends, Works
    <3>8. CASE /\ op' # None /\ why = None
               /\ Goes(<<"send", "commit", "delete">>, op.end, op.remote, r)
      <4>1. Consents(r)
        BY <3>4, <3>8, RecoveredConsents DEF SyncAssumption
      <4> QED
        BY <1>1, <2>1, <3>3, <3>8, <4>1, WorkKeeps DEF Sends, Works
    <3> QED
      BY <1>1, <3>5, <3>6, <3>7, <3>8, EndKeeps
  <2>3. CASE op.rec = None
    <3>1. op.end \in (lcur + 1)..tail
      BY <1>1, <1>4, <2>3, OpFacts DEF Working, Doing
    <3>2. \/ op' = None
          \/ op' # None /\ Goes(<<"context">>, op.end, op.remote, op.rec)
          \/ op' # None /\ Goes(<<"put", "send", "commit", "delete">>, op.end, op.remote,
                                PageRequest(Me, lcur + 1, op.end))
      BY <1>1, <2>1, <2>3, OpFacts DEF GetRemoteCursor, CursorForPage, Then, Goes, Fields
    <3>3. CASE op' # None /\ Goes(<<"context">>, op.end, op.remote, op.rec)
      BY <1>1, <2>1, <3>1, <3>3, WorkKeeps DEF Sends, Works
    <3>4. CASE op' # None /\ Goes(<<"put", "send", "commit", "delete">>, op.end, op.remote,
                                  PageRequest(Me, lcur + 1, op.end))
      BY <1>1, <2>1, <3>1, <3>4, PutPageKeeps
    <3> QED
      BY <1>1, <3>2, <3>3, <3>4, EndKeeps
  <2> QED
    BY <2>2, <2>3
<1> QED
  BY <1>2, <1>3, <1>4

\* An operation begins.
LEMMA BeginKeeps == ASSUME SyncInv, Begin PROVE SyncInv'
<1>1. /\ op = None /\ mode = "run" /\ session # None /\ op' = Op(session, <<"creds">>)
      /\ LocalOnly
  BY DEF Begin, LocalOnly
<1>2. session \in Accounts \X (1..gen)
  BY <1>1 DEF SyncInv, Laid, SyncTypeOK
<1>3. /\ DOMAIN op' = Fields /\ op'.todo = <<"creds">> /\ op'.id[1] \in Accounts
     /\ op'.rec = None
  BY <1>1, <1>2 DEF Op, Fields
<1>4. Operating' /\ ~HasRequest'
  BY <1>3, Preparing DEF Operating, Prepares
<1>5. Laid'
  <2>1. op'.todo \in Todos
    BY <1>3 DEF Todos, Prepares
  <2> QED
    BY <1>1, <1>3, <2>1 DEF SyncInv, Laid, SyncTypeOK, LocalOnly, durable, server, tail, Requests, Fields, Me
<1>6. Cutover'
  BY <1>1 DEF SyncInv, Cutover, LocalOnly, durable, server, Booting
<1>7. Registered'
  BY <1>1, <1>3 DEF SyncInv, Registered, LocalOnly, durable, server, Doing
<1>8. Made' \subseteq Made
  BY <1>1, <1>4 DEF Made, LocalOnly, durable, server
<1>9. Ranged' /\ Bounded' /\ Disjoint' /\ Rows'
  BY <1>1, <1>8 DEF SyncInv, Ranged, Bounded, Disjoint, Rows, LocalOnly, durable, Requests, tail
<1>10. Contiguous' /\ NothingSkippedSilently'
  BY <1>1 DEF SyncInv, Contiguous, NothingSkippedSilently, Ack, Covered, LocalOnly, durable, server
<1> QED
  BY <1>4, <1>5, <1>6, <1>7, <1>9, <1>10 DEF SyncInv, Operating

----------------------------------------------------------------------------
(* Registration and consents *)

\* An operation runs only after the cutover.
LEMMA InService ==
    ASSUME SyncInv, op # None
    PROVE  cut = "complete" /\ ~legacy /\ ~oldRows /\ ~Booting /\ mode # "off"
BY DEF SyncInv, Cutover, Laid, SyncTypeOK

\* A step of the preparation changes the credentials and what the server knows of the
\* installation, and goes on before the owner's work or a change of owner.
LEMMA PrepareKeeps ==
    ASSUME SyncInv, op # None,
           UNCHANGED <<kind, aged, lcur, batch, advance, owner, audited, cut, legacy, oldRows,
                       accepted, late, config, session, gen, mode, floor>>,
           op.rec = None, NEW s, NEW end,
           op' = None \/ (op' # None /\ Goes(s, end, op.remote, op.rec)),
           op' # None => s \in Prepares \/ (s = <<"pending">> /\ owner = Me),
           DOMAIN creds' = Accounts, DOMAIN agents' = Accounts,
           \A a \in Accounts : DOMAIN creds'[a] = {"st", "inst", "consent"},
           Registered'
    PROVE  SyncInv'
<1>1. cut = "complete" /\ ~legacy /\ ~oldRows /\ ~Booting /\ mode # "off"
  BY InService
<1>2. ~HasRequest' /\ Taking' /\ Working' /\ Consented'
  <2>1. CASE op' = None
    BY <2>1, NoOp
  <2>2. CASE op' # None /\ s \in Prepares
    BY <2>2, Preparing DEF Goes
  <2>3. CASE op' # None /\ s = <<"pending">> /\ owner = Me
    <3>1. op'.todo = <<"pending">> /\ op'.rec = None /\ owner' = Me'
      BY <2>3 DEF Goes, Me
    <3> QED
      BY <3>1 DEF HasRequest, Taking, Working, Consented, Doing, Step, Prepares, Looks, Moves,
                  Closes, Sends, Works
  <2> QED
    BY <2>1, <2>2, <2>3
<1>3. Made' \subseteq Made
  BY <1>2 DEF Made
<1>4. Laid'
  <2>1. op' # None => /\ DOMAIN op' = Fields /\ op'.todo \in Todos /\ Me' = Me
    BY DEF Goes, Todos, Works, Me
  <2>2. Me \in Accounts
    BY OpFacts
  <2> QED
    BY <2>1, <2>2 DEF SyncInv, Laid, SyncTypeOK, tail, Requests, Fields
<1>5. Cutover'
  BY <1>1 DEF SyncInv, Cutover, Booting
<1>6. Ranged' /\ Bounded' /\ Disjoint' /\ Rows'
  BY <1>3 DEF SyncInv, Ranged, Bounded, Disjoint, Rows, Requests, tail
<1>7. Contiguous' /\ NothingSkippedSilently'
  BY DEF SyncInv, Contiguous, NothingSkippedSilently, Ack, Covered
<1> QED
  BY <1>2, <1>4, <1>5, <1>6, <1>7 DEF SyncInv

\* What the consents are followed by.
LEMMA AfterFacts ==
    ASSUME NEW c
    PROVE  /\ Owned(c) \in Prepares \/ (Owned(c) = <<"pending">> /\ owner = Me)
           /\ AfterConsent(c) \in Prepares \/ (AfterConsent(c) = <<"pending">> /\ owner = Me)
           /\ Owned(c) # <<>> /\ AfterConsent(c) # <<>>
           /\ Owned(c) # <<"register">> /\ AfterConsent(c) # <<"register">>
BY DEF Owned, AfterConsent, Prepares

\* The pending credentials are stored before the registration is asked for.
LEMMA CredentialsKeeps == ASSUME SyncInv, Credentials PROVE SyncInv'
<1>1. op # None /\ Head(op.todo) = "creds"
  BY DEF Credentials, Step
<1>2. op.todo = <<"creds">> /\ op.rec = None /\ Me \in Accounts
  <2>1. op.todo = <<"creds">>
    BY <1>1, OpFacts, Places
  <2> QED
    BY <1>1, <2>1, OpFacts DEF Working, Doing
<1>3. /\ DOMAIN creds = Accounts /\ DOMAIN agents = Accounts
      /\ \A a \in Accounts : DOMAIN creds[a] = {"st", "inst", "consent"}
      /\ \A a \in Accounts : agents[a] \subseteq (IF creds[a].st = "none" THEN {} ELSE {creds[a].inst})
  BY DEF SyncInv, Laid, Registered
<1>4. /\ UNCHANGED <<kind, aged, lcur, batch, advance, owner, audited, cut, legacy, oldRows,
                     accepted, late, config, session, gen, mode, floor>>
      /\ agents' = agents
  BY DEF Credentials, server
<1>5. CASE /\ creds[Me].st = "none"
           /\ creds' = [creds EXCEPT ![Me] = [st |-> "pending", consent |-> None, inst |-> Fresh]]
           /\ op' = [op EXCEPT !.todo = <<"register">>, !.end = Fresh]
  <2>1. PICK end : end = Fresh
    OBVIOUS
  <2>2. op' = None \/ (op' # None /\ Goes(<<"register">>, end, op.remote, op.rec))
    BY <1>1, <1>5, <2>1, OpFacts DEF Goes, Fields
  <2>3. /\ DOMAIN creds' = Accounts /\ \A a \in Accounts : DOMAIN creds'[a] = {"st", "inst", "consent"}
        /\ creds'[Me].st = "pending" /\ creds'[Me].inst = end
        /\ \A a \in Accounts \ {Me} : creds'[a] = creds[a]
    BY <1>2, <1>3, <1>5, <2>1
  <2>4. \A a \in Accounts : agents'[a] \subseteq (IF creds'[a].st = "none" THEN {} ELSE {creds'[a].inst})
    <3> TAKE a \in Accounts
    <3>1. CASE a = Me
      BY <1>3, <1>4, <1>5, <3>1
    <3>2. CASE a # Me
      BY <1>3, <1>4, <2>3, <3>2
    <3> QED
      BY <3>1, <3>2
  <2>5. Registered'
    <3>1. Doing({<<"register">>})' => op'.id = op.id /\ op'.end = end
      BY <2>2 DEF Doing, Goes
    <3> QED
      BY <2>3, <2>4, <3>1 DEF Registered, Me
  <2>6. <<"register">> \in Prepares
    BY DEF Prepares
  <2> QED
    BY <1>1, <1>2, <1>3, <1>4, <2>2, <2>3, <2>5, <2>6, PrepareKeeps
<1>6. CASE /\ creds[Me].st = "pending" /\ creds' = creds
           /\ op' = [op EXCEPT !.todo = <<"register">>, !.end = creds[Me].inst]
  <2>1. op' = None \/ (op' # None /\ Goes(<<"register">>, creds[Me].inst, op.remote, op.rec))
    BY <1>1, <1>6, OpFacts DEF Goes, Fields
  <2>2. Registered'
    <3>1. Doing({<<"register">>})' => op'.id = op.id /\ op'.end = creds[Me].inst
      BY <2>1 DEF Doing, Goes
    <3> QED
      BY <1>3, <1>4, <1>6, <3>1 DEF Registered, Me
  <2>3. <<"register">> \in Prepares
    BY DEF Prepares
  <2> QED
    BY <1>1, <1>2, <1>3, <1>4, <1>6, <2>1, <2>2, <2>3, PrepareKeeps
<1>7. CASE /\ creds[Me].st = "registered" /\ creds' = creds
           /\ op' = Then(AfterConsent(creds[Me]))
  <2>1. PICK s : s = AfterConsent(creds[Me])
    OBVIOUS
  <2>2. s # <<>> /\ s # <<"register">> /\ (s \in Prepares \/ (s = <<"pending">> /\ owner = Me))
    BY <2>1, AfterFacts
  <2>3. op' = None \/ (op' # None /\ Goes(s, op.end, op.remote, op.rec))
    BY <1>1, <1>7, <2>1, <2>2, OpFacts DEF Then, Goes, Fields
  <2>4. Registered'
    <3>1. ~Doing({<<"register">>})'
      BY <2>2, <2>3 DEF Doing, Goes
    <3> QED
      BY <1>3, <1>4, <1>7, <3>1 DEF Registered
  <2> QED
    BY <1>1, <1>2, <1>3, <1>4, <1>7, <2>2, <2>3, <2>4, PrepareKeeps
<1> QED
  BY <1>5, <1>6, <1>7 DEF Credentials, StoreCredentials

\* The server knows the installation that is registered.
LEMMA ServedRegister ==
    ASSUME SyncInv, op # None, op.todo = <<"register">>, Served
    PROVE  /\ accepted' = accepted
           /\ DOMAIN agents' = Accounts
           /\ \A a \in Accounts : a # Me => agents'[a] = agents[a]
           /\ agents'[Me] \subseteq {op.end}
           /\ creds[Me].st # "none" /\ creds[Me].inst = op.end
<1>1. Step("register") /\ ~Step("send") /\ Me \in Accounts
  BY OpFacts DEF Step
<1>2. creds[Me].st # "none" /\ creds[Me].inst = op.end /\ agents[Me] \subseteq {op.end}
      /\ DOMAIN agents = Accounts
  BY <1>1 DEF SyncInv, Laid, Registered, Doing
<1>3. agents' = [agents EXCEPT ![Me] = @ \cup {op.end}] /\ accepted' = accepted
  BY <1>1 DEF Served
<1> QED
  BY <1>1, <1>2, <1>3

\* The registration is answered.
LEMMA RegisterKeeps == ASSUME SyncInv, Register PROVE SyncInv'
<1>1. op # None /\ Head(op.todo) = "register" /\ Served
  BY DEF Register, Step
<1>2. op.todo = <<"register">> /\ op.rec = None /\ Me \in Accounts
  <2>1. op.todo = <<"register">>
    BY <1>1, OpFacts, Places
  <2> QED
    BY <1>1, <2>1, OpFacts DEF Working, Doing
<1>3. /\ DOMAIN creds = Accounts
      /\ \A a \in Accounts : DOMAIN creds[a] = {"st", "inst", "consent"}
      /\ \A a \in Accounts : agents[a] \subseteq (IF creds[a].st = "none" THEN {} ELSE {creds[a].inst})
  BY DEF SyncInv, Laid, Registered
<1>4. /\ accepted' = accepted /\ DOMAIN agents' = Accounts
      /\ \A a \in Accounts : a # Me => agents'[a] = agents[a]
      /\ agents'[Me] \subseteq {op.end}
  BY <1>1, <1>2, ServedRegister
<1>5. /\ creds' = [creds EXCEPT ![Me] = [st |-> "registered", inst |-> op.end, consent |-> None]]
      /\ UNCHANGED <<kind, aged, lcur, batch, advance, owner, audited, cut, legacy, oldRows,
                     late, config, session, gen, mode, floor>>
  BY DEF Register, StoreCredentials
<1>6. PICK c : c = creds'[Me]
  OBVIOUS
<1>7. PICK s : s = AfterConsent(c)
  OBVIOUS
<1>8. s # <<>> /\ s # <<"register">> /\ (s \in Prepares \/ (s = <<"pending">> /\ owner = Me))
  BY <1>7, AfterFacts
<1>9. op' = None \/ (op' # None /\ Goes(s, op.end, op.remote, op.rec))
  <2>1. op' = Then(s)
    BY <1>6, <1>7 DEF Register
  <2> QED
    BY <1>1, <1>8, <2>1, OpFacts DEF Then, Goes, Fields
<1>10. /\ DOMAIN creds' = Accounts /\ \A a \in Accounts : DOMAIN creds'[a] = {"st", "inst", "consent"}
       /\ creds'[Me].st = "registered" /\ creds'[Me].inst = op.end
       /\ \A a \in Accounts \ {Me} : creds'[a] = creds[a]
  BY <1>2, <1>3, <1>5
<1>11. Registered'
  <2>1. \A a \in Accounts : agents'[a] \subseteq (IF creds'[a].st = "none" THEN {} ELSE {creds'[a].inst})
    <3> TAKE a \in Accounts
    <3>1. CASE a = Me
      BY <1>4, <1>10, <3>1
    <3>2. CASE a # Me
      BY <1>3, <1>4, <1>10, <3>2
    <3> QED
      BY <3>1, <3>2
  <2>2. ~Doing({<<"register">>})'
    BY <1>8, <1>9 DEF Doing, Goes
  <2> QED
    BY <2>1, <2>2 DEF Registered
<1> QED
  BY <1>1, <1>2, <1>4, <1>5, <1>8, <1>9, <1>10, <1>11, PrepareKeeps

\* The consents are stored.
LEMMA EnsureConsentsKeeps == ASSUME SyncInv, EnsureConsents PROVE SyncInv'
<1>1. op # None /\ Head(op.todo) = "consent"
  BY DEF EnsureConsents, Step
<1>2. op.todo = <<"consent">> /\ op.rec = None /\ Me \in Accounts
  <2>1. op.todo = <<"consent">>
    BY <1>1, OpFacts, Places
  <2> QED
    BY <1>1, <2>1, OpFacts DEF Working, Doing
<1>3. /\ DOMAIN creds = Accounts /\ DOMAIN agents = Accounts
      /\ \A a \in Accounts : DOMAIN creds[a] = {"st", "inst", "consent"}
      /\ \A a \in Accounts : agents[a] \subseteq (IF creds[a].st = "none" THEN {} ELSE {creds[a].inst})
  BY DEF SyncInv, Laid, Registered
<1>4. /\ creds' = [creds EXCEPT ![Me] = [creds[Me] EXCEPT !.consent = config]]
      /\ UNCHANGED <<kind, aged, lcur, batch, advance, owner, audited, cut, legacy, oldRows,
                     accepted, agents, late, config, session, gen, mode, floor>>
  BY DEF EnsureConsents, StoreCredentials, server
<1>5. PICK s : s = Owned(creds[Me])
  OBVIOUS
<1>6. s # <<>> /\ s # <<"register">> /\ (s \in Prepares \/ (s = <<"pending">> /\ owner = Me))
  BY <1>5, AfterFacts
<1>7. op' = None \/ (op' # None /\ Goes(s, op.end, op.remote, op.rec))
  <2>1. op' = Then(s)
    BY <1>5 DEF EnsureConsents
  <2> QED
    BY <1>1, <1>6, <2>1, OpFacts DEF Then, Goes, Fields
<1>8. /\ DOMAIN creds' = Accounts /\ \A a \in Accounts : DOMAIN creds'[a] = {"st", "inst", "consent"}
      /\ \A a \in Accounts : creds'[a].st = creds[a].st /\ creds'[a].inst = creds[a].inst
  BY <1>2, <1>3, <1>4
<1>9. Registered'
  <2>1. ~Doing({<<"register">>})'
    BY <1>6, <1>7 DEF Doing, Goes
  <2> QED
    BY <1>3, <1>4, <1>8, <2>1 DEF Registered
<1> QED
  BY <1>1, <1>2, <1>3, <1>4, <1>6, <1>7, <1>8, <1>9, PrepareKeeps

----------------------------------------------------------------------------
(* The server *)

\* A request that is applied, or a row of the server's future: what the server changes
\* adds no request, and moves its cursors forward.
LEMMA ServerFrame ==
    ASSUME SyncAssumption, SyncInv, cut = "complete",
           UNCHANGED <<kind, aged, durable, agents, config, session, gen, mode, floor>>,
           accepted' = accepted \/ \E r \in Made : Serves(r) /\ accepted' = accepted \cup {r},
           late' \subseteq Made,
           op' # None => /\ op # None /\ DOMAIN op' = Fields /\ op'.id = op.id /\ op'.todo \in Todos
                         /\ op'.todo = <<"register">> => op.todo = op'.todo /\ op.end = op'.end,
           HasRequest' => op'.rec \in Made
    PROVE  /\ Laid' /\ Cutover' /\ Registered' /\ Ranged' /\ Bounded' /\ Disjoint' /\ Rows'
           /\ Contiguous' /\ NothingSkippedSilently'
           /\ Made' \subseteq Made /\ \A a : Ack(a) \in Nat /\ Ack(a)' \in Nat /\ Ack(a) <= Ack(a)'
<1>1. accepted \subseteq Made /\ accepted' \subseteq Made
  BY DEF Made
<1>2. Made' \subseteq Made
  <2>1. batch' = batch /\ advance' = advance
    BY DEF durable
  <2>2. accepted' \cup late' \subseteq Made
    BY <1>1
  <2>3. ({batch[a] : a \in Accounts} \cup {advance[a] : a \in Accounts}) \ {None} \subseteq Made
    BY DEF Made
  <2>4. Made' = (accepted' \cup late')
                \cup (({batch[a] : a \in Accounts} \cup {advance[a] : a \in Accounts}) \ {None})
                \cup (IF HasRequest' THEN {op'.rec} ELSE {})
    BY <2>1 DEF Made
  <2> QED
    BY <2>2, <2>3, <2>4
<1>3. \A r \in Made : r \in Requests /\ r.first <= r.last /\ r.last <= tail
  BY DEF SyncInv, Ranged
<1>4. Ranged' /\ Bounded' /\ Disjoint' /\ Rows'
  BY <1>2 DEF SyncInv, Ranged, Bounded, Disjoint, Rows, durable, Requests, tail
<1>5. Laid'
  <2>1. accepted' \subseteq Requests /\ late' \subseteq Requests
    BY <1>1, <1>3
  <2>2. op' # None => Me' = Me
    BY DEF Me
  <2> QED
    BY <2>1, <2>2 DEF SyncInv, Laid, SyncTypeOK, durable, tail, Requests, Fields
<1>6. Cutover'
  BY DEF SyncInv, Cutover, durable, Booting
<1>7. Registered'
  BY DEF SyncInv, Registered, durable, Doing, Me
<1>8. accepted \subseteq Requests /\ accepted' \subseteq Requests
  BY <1>1, <1>3
<1>9. /\ Contiguous'
      /\ \A a : Ack(a) \in Nat /\ Ack(a)' \in Nat /\ Ack(a) <= Ack(a)' /\ Covered(a) \subseteq Covered(a)'
  <2>1. CASE accepted' = accepted
    <3>1. \A a : Ack(a)' = Ack(a) /\ Covered(a)' = Covered(a)
      BY <2>1 DEF Ack, Covered
    <3>2. \A a : Ack(a) \in Nat
      BY <1>8, AckFacts
    <3> QED
      BY <3>1, <3>2 DEF SyncInv, Contiguous
  <2>2. CASE \E r \in Made : Serves(r) /\ accepted' = accepted \cup {r}
    <3>1. PICK r \in Made : Serves(r) /\ accepted' = accepted \cup {r}
      BY <2>2
    <3>2. /\ Contiguous'
          /\ \A a : Ack(a) <= Ack(a)' /\ Covered(a) \subseteq Covered(a)'
      BY <1>3, <1>8, <3>1, CoverGrows DEF SyncInv
    <3>3. \A a : Ack(a) \in Nat
      BY <1>8, AckFacts
    <3>4. \A a : Ack(a)' \in Nat
      BY <1>8, NextAck
    <3> QED
      BY <3>2, <3>3, <3>4
  <2> QED
    BY <2>1, <2>2
<1>10. NothingSkippedSilently'
  <2>1. lcur' = lcur /\ audited' = audited
    BY DEF durable
  <2> QED
    BY <1>9, <2>1 DEF SyncInv, NothingSkippedSilently
<1> QED
  BY <1>2, <1>4, <1>5, <1>6, <1>7, <1>9, <1>10

\* The operation ends, or stays where it is.
LEMMA ServerKeeps ==
    ASSUME SyncAssumption, SyncInv, cut = "complete",
           UNCHANGED <<kind, aged, durable, agents, config, session, gen, mode, floor>>,
           accepted' = accepted \/ \E r \in Made : Serves(r) /\ accepted' = accepted \cup {r},
           late' \subseteq Made,
           \/ op' = None
           \/ op' # None /\ op # None /\ Goes(op.todo, op.end, op.remote, op.rec)
    PROVE  SyncInv'
<1>1. CASE op' = None
  <2>1. Taking' /\ Working' /\ Consented' /\ ~HasRequest'
    BY <1>1, NoOp
  <2> QED
    BY <1>1, <2>1, ServerFrame DEF SyncInv
<1>2. CASE op' # None /\ op # None /\ Goes(op.todo, op.end, op.remote, op.rec)
  <2>1. op.todo \in Todos /\ Taking /\ Working /\ Consented /\ accepted \subseteq Requests
    BY <1>2, OpFacts
  <2>2. HasRequest' <=> HasRequest
    BY <1>2 DEF HasRequest, Doing, Goes
  <2>3. HasRequest' => op'.rec \in Made
    BY <1>2, <2>2 DEF Made, Goes
  <2>4. /\ Laid' /\ Cutover' /\ Registered' /\ Ranged' /\ Bounded' /\ Disjoint' /\ Rows'
        /\ Contiguous' /\ NothingSkippedSilently'
        /\ Made' \subseteq Made
        /\ \A a : Ack(a) \in Nat /\ Ack(a)' \in Nat /\ Ack(a) <= Ack(a)'
    BY <1>2, <2>1, <2>3, ServerFrame DEF Goes
  <2>5. /\ op'.todo = op.todo /\ op'.end = op.end /\ op'.remote = op.remote /\ op'.rec = op.rec
        /\ Me' = Me /\ tail' = tail /\ owner' = owner /\ lcur' = lcur /\ floor' = floor
        /\ audited' = audited /\ batch' = batch
    BY <1>2 DEF Goes, Me, tail, durable
  <2>6. \A S : Doing(S)' <=> Doing(S)
    BY <1>2, <2>5 DEF Doing
  <2>7. Taking'
    <3>1. (Doing(Looks \cup Moves \cup Closes) =>
             /\ op.end \in 0..tail
             /\ \A r \in Made : r.t = "batch" /\ r.acct # Me => r.last <= op.end)'
      BY <1>2, <2>1, <2>4, <2>5 DEF Taking, Doing
    <3>2. (Doing({<<"audit", "rebase">>, <<"rebase">>}) =>
             op.remote \in 0..op.end /\ op.remote <= Ack(Me))'
      <4>1. Doing({<<"audit", "rebase">>, <<"rebase">>})' =>
              op.remote \in 0..op.end /\ op.remote <= Ack(Me) /\ op.end \in 0..tail
        BY <1>2, <2>1, <2>5 DEF Taking, Doing, Looks
      <4>2. Ack(Me)' \in Nat /\ Ack(Me) \in Nat /\ Ack(Me) <= Ack(Me)'
        <5>1. PICK a : a = Me
          OBVIOUS
        <5>2. Ack(Me)' = Ack(a)'
          BY <2>5, <5>1 DEF Ack
        <5> QED
          BY <2>4, <5>1, <5>2
      <4>3. tail \in Nat
        BY Numbers
      <4> QED
        BY <2>5, <4>1, <4>2, <4>3
    <3> QED
      BY <1>2, <2>1, <2>5, <3>1, <3>2 DEF Taking, Doing
  <2>8. Working'
    <3>1. (Step("commit") => op.rec.last <= Ack(Me))'
      <4>1. Step("commit")' => Step("commit")
        BY <1>2, <2>5 DEF Step
      <4>2. Ack(Me)' \in Nat /\ Ack(Me) \in Nat /\ Ack(Me) <= Ack(Me)'
        <5>1. PICK a : a = Me
          OBVIOUS
        <5>2. Ack(Me)' = Ack(a)'
          BY <2>5, <5>1 DEF Ack
        <5> QED
          BY <2>4, <5>1, <5>2
      <4>3. Step("commit") => HasRequest
        BY <1>2, <2>1, Places DEF Step, HasRequest, Doing, Moves, Sends
      <4>4. HasRequest => op.rec.last \in Nat
        <5>1. HasRequest => op.rec \in Made
          BY DEF Made
        <5> QED
          BY <5>1 DEF SyncInv, Ranged, Requests
      <4> QED
        BY <2>1, <2>5, <4>1, <4>2, <4>3, <4>4 DEF Working
    <3> QED
      BY <1>2, <2>1, <2>2, <2>5, <3>1 DEF Working, Doing
  <2>9. Consented'
    BY <1>2, <2>1, <2>5 DEF Consented, Doing, Consents
  <2> QED
    BY <2>4, <2>7, <2>8, <2>9 DEF SyncInv
<1> QED
  BY <1>1, <1>2

\* A request given up arrives after all.
LEMMA LateArrivalKeeps ==
    ASSUME SyncAssumption, SyncInv, NEW r \in late, LateArrival(r) PROVE SyncInv'
<1>1. r \in Made /\ late' \subseteq Made
  BY DEF LateArrival, Made
<1>2. cut = "complete"
  BY DEF SyncInv, Cutover
<1>3. accepted' = accepted \/ \E q \in Made : Serves(q) /\ accepted' = accepted \cup {q}
  BY <1>1 DEF LateArrival
<1>4. op' = None \/ (op' # None /\ op # None /\ Goes(op.todo, op.end, op.remote, op.rec))
  <2>1. op' = op
    BY DEF LateArrival, process
  <2> QED
    BY <2>1, OpFacts DEF Goes
<1>5. UNCHANGED <<kind, aged, durable, agents, config, session, gen, mode, floor>>
  BY DEF LateArrival, process
<1> QED
  BY <1>1, <1>2, <1>3, <1>4, <1>5, ServerKeeps

\* What is at the send step.
LEMMA SendFacts ==
    ASSUME SyncInv, Step("send")
    PROVE  /\ op # None /\ HasRequest /\ op.rec \in Made /\ op.rec.acct = Me
           /\ op.rec \in Requests /\ op.rec.first <= op.rec.last
           /\ op.todo \in {<<"send", "commit", "own", "delete">>, <<"send", "commit", "delete">>}
<1>1. op # None /\ Head(op.todo) = "send"
  BY DEF Step
<1>2. op.todo \in {<<"send", "commit", "own", "delete">>, <<"send", "commit", "delete">>}
  BY <1>1, OpFacts, Places
<1>3. HasRequest
  BY <1>1, <1>2 DEF HasRequest, Doing, Moves, Sends
<1> QED
  BY <1>1, <1>2, <1>3, InHand

\* A failed attempt is tried again or ends the operation; its request may be applied
\* at once, later, or never.
LEMMA AttemptFailsKeeps ==
    ASSUME SyncAssumption, SyncInv, AttemptFails PROVE SyncInv'
<1>1. op # None /\ cut = "complete" /\ UNCHANGED <<kind, aged, durable, config, session, gen, mode, floor>>
  BY InService DEF AttemptFails, AtNetwork
<1>2. op' = None \/ (op' # None /\ op # None /\ Goes(op.todo, op.end, op.remote, op.rec))
  BY <1>1, OpFacts DEF AttemptFails, Retry, Goes, Fields
<1>3. late \subseteq Made
  BY DEF Made
<1>4. CASE UNCHANGED server
  BY <1>1, <1>2, <1>3, <1>4, ServerKeeps DEF server
<1>5. CASE Step("send") /\ late' = late \cup {op.rec} /\ UNCHANGED <<accepted, agents>>
  <2>1. late' \subseteq Made
    BY <1>3, <1>5, SendFacts
  <2> QED
    BY <1>1, <1>2, <1>5, <2>1, ServerKeeps
<1>6. CASE Served /\ UNCHANGED late
  <2>1. CASE Step("register")
    <3>1. op.todo = <<"register">>
      BY <1>1, <2>1, OpFacts, Places DEF Step
    <3>2. op.rec = None /\ Me \in Accounts
      BY <1>1, <3>1, OpFacts DEF Working, Doing
    <3>3. /\ accepted' = accepted /\ DOMAIN agents' = Accounts
          /\ \A a \in Accounts : a # Me => agents'[a] = agents[a]
          /\ agents'[Me] \subseteq {op.end}
          /\ creds[Me].st # "none" /\ creds[Me].inst = op.end
      BY <1>1, <1>6, <3>1, ServedRegister
    <3>4. creds' = creds /\ op' # None => (op'.id = op.id /\ op'.end = op.end)
      BY <1>1, <1>2 DEF durable, Goes
    <3>5. Registered'
      <4>1. \A a \in Accounts : agents'[a] \subseteq (IF creds[a].st = "none" THEN {} ELSE {creds[a].inst})
        BY <3>3 DEF SyncInv, Registered
      <4>2. creds' = creds
        BY <1>1 DEF durable
      <4>3. Doing({<<"register">>})' => op'.id = op.id /\ op'.end = op.end
        BY <1>2 DEF Doing, Goes
      <4> QED
        BY <3>3, <4>1, <4>2, <4>3 DEF Registered, Me
    <3>6. DOMAIN creds' = Accounts /\ \A a \in Accounts : DOMAIN creds'[a] = {"st", "inst", "consent"}
      BY <1>1 DEF SyncInv, Laid, durable
    <3>7. UNCHANGED <<kind, aged, lcur, batch, advance, owner, audited, cut, legacy, oldRows,
                      accepted, late, config, session, gen, mode, floor>>
      BY <1>1, <1>6, <3>3 DEF durable
    <3>8. <<"register">> \in Prepares
      BY DEF Prepares
    <3> QED
      BY <1>1, <1>2, <3>1, <3>2, <3>3, <3>5, <3>6, <3>7, <3>8, PrepareKeeps
  <2>2. CASE Step("send") /\ Serves(op.rec) /\ accepted' = accepted \cup {op.rec} /\ UNCHANGED agents
    <3>1. op.rec \in Made
      BY <2>2, SendFacts
    <3> QED
      BY <1>1, <1>2, <1>3, <1>6, <2>2, <3>1, ServerKeeps
  <2>3. CASE UNCHANGED <<accepted, agents>>
    BY <1>1, <1>2, <1>3, <1>6, <2>3, ServerKeeps
  <2> QED
    BY <1>6, <2>1, <2>2, <2>3 DEF Served
<1> QED
  BY <1>4, <1>5, <1>6 DEF AttemptFails

\* A request that is answered is behind the server's cursor: it may be committed.
LEMMA SendKeeps ==
    ASSUME SyncAssumption, SyncInv, Send PROVE SyncInv'
<1>1. /\ op # None /\ cut = "complete"
      /\ UNCHANGED <<kind, aged, durable, late, config, session, gen, mode, floor>>
  BY InService DEF Send, Step
<1>2. /\ HasRequest /\ op.rec \in Made /\ op.rec.acct = Me
      /\ op.rec \in Requests /\ op.rec.first <= op.rec.last
      /\ op.todo \in {<<"send", "commit", "own", "delete">>, <<"send", "commit", "delete">>}
  BY SendFacts DEF Send
<1>3. late' \subseteq Made
  BY <1>1 DEF Made
<1>4. Step("send") /\ ~Step("register")
  BY DEF Send, Step
<1>5. CASE ~Serves(op.rec)
  <2>1. op' = None /\ UNCHANGED <<accepted, agents>>
    BY <1>4, <1>5 DEF Send, Served
  <2> QED
    BY <1>1, <1>3, <2>1, ServerKeeps
<1>6. CASE Serves(op.rec)
  <2>1. accepted' = accepted \cup {op.rec} /\ agents' = agents /\ op' = Next1
    BY <1>4, <1>6 DEF Send, Served
  <2>2. PICK s : s = Tail(op.todo)
    OBVIOUS
  <2>3. s \in {<<"commit", "own", "delete">>, <<"commit", "delete">>}
    BY <1>2, <2>2, Rests
  <2>4. op' = None \/ (op' # None /\ Goes(s, op.end, op.remote, op.rec))
    BY <1>1, <2>1, <2>2, <2>3, OpFacts DEF Next1, Then, Goes, Fields
  <2>5. CASE op' = None
    BY <1>1, <1>2, <1>3, <2>1, <2>5, <1>6, ServerKeeps
  <2>6. CASE op' # None /\ Goes(s, op.end, op.remote, op.rec)
    <3>1. op'.todo \in Todos /\ op'.todo # <<"register">>
      BY <2>3, <2>6 DEF Goes, Todos, Moves, Sends
    <3>2. op'.rec \in Made
      BY <1>2, <2>6 DEF Goes
    <3>3. /\ Laid' /\ Cutover' /\ Registered' /\ Ranged' /\ Bounded' /\ Disjoint' /\ Rows'
          /\ Contiguous' /\ NothingSkippedSilently'
          /\ Made' \subseteq Made
          /\ \A a : Ack(a) \in Nat /\ Ack(a)' \in Nat /\ Ack(a) <= Ack(a)'
      BY <1>1, <1>2, <1>3, <1>6, <2>1, <2>6, <3>1, <3>2, ServerFrame DEF Goes
    <3>4. op.rec.last <= Ack(Me)'
      <4>1. accepted \subseteq Requests /\ Contiguous
        BY Numbers DEF SyncInv
      <4>2. op.rec.last <= Ack(op.rec.acct)'
        <5>1. PICK r : r = op.rec
          OBVIOUS
        <5>2. r.last <= Ack(r.acct)'
          BY <1>2, <1>6, <2>1, <4>1, <5>1, CoverGrows
        <5>3. op' # None => Ack(op.rec.acct)' = Ack(r.acct)'
          BY <1>1, <2>6, <5>1 DEF Goes, Ack
        <5> QED
          BY <2>6, <5>1, <5>2, <5>3 DEF Goes
      <4> QED
        BY <1>2, <2>6, <4>2 DEF Goes, Me, Ack
    <3>5. /\ op'.todo = s /\ op'.end = op.end /\ op'.remote = op.remote /\ op'.rec = op.rec
          /\ Me' = Me /\ tail' = tail /\ owner' = owner /\ lcur' = lcur /\ floor' = floor
          /\ audited' = audited /\ batch' = batch /\ Taking /\ Working
      BY <1>1, <2>6, OpFacts DEF Goes, Me, tail, durable
    <3>6. Taking'
      <4>1. s = <<"commit", "own", "delete">> => op.todo = <<"send", "commit", "own", "delete">>
        BY <1>2, <2>2, Rests
      <4>2. s = <<"commit", "delete">> => s \notin Looks \cup Moves \cup Closes
        BY DEF Looks, Moves, Closes
      <4>3. s \notin {<<"audit", "rebase">>, <<"rebase">>}
        BY <2>3
      <4>4. CASE s = <<"commit", "own", "delete">>
        <5>1. /\ op.end \in 0..tail /\ op.end <= lcur /\ op.rec.t = "advance" /\ batch[Me] = None
              /\ \A r \in Made : r.t = "batch" /\ r.acct # Me => r.last <= op.end
          BY <1>1, <3>5, <4>1, <4>4 DEF Taking, Doing, Moves
        <5> QED
          BY <3>3, <3>5, <4>3, <5>1 DEF Taking, Doing
      <4>5. CASE s = <<"commit", "delete">>
        <5>1. /\ s \notin {<<"audit", "rebase">>, <<"rebase">>}
              /\ s \notin {<<"put", "send", "commit", "own", "delete">>, <<"send", "commit", "own", "delete">>,
                           <<"commit", "own", "delete">>, <<"own", "delete">>, <<"own">>}
          BY <4>5
        <5> QED
          BY <3>5, <4>2, <4>5, <5>1 DEF Taking, Doing
      <4> QED
        BY <2>3, <4>4, <4>5
    <3>7. Working'
      <4>1. op.todo \in Sends => owner = Me
        BY <1>1, <3>5 DEF Working, Doing
      <4>2. s \in Sends => op.todo \in Sends
        <5>1. s = <<"commit", "delete">> => op.todo = <<"send", "commit", "delete">>
          BY <1>2, <2>2, Rests
        <5>2. <<"commit", "own", "delete">> \notin Sends
          BY DEF Sends
        <5> QED
          BY <2>3, <5>1, <5>2 DEF Sends
      <4>3. s \notin Works
        BY <2>3 DEF Works
      <4>4. op.rec.t = "batch" => op.rec.first > floor
        BY <1>2, <3>5 DEF Working
      <4>5. /\ (Doing(Sends \cup Works) => owner = Me)'
            /\ (HasRequest => op.rec.acct = Me /\ (op.rec.t = "batch" => op.rec.first > floor))'
            /\ (Step("commit") => op.rec.last <= Ack(Me))'
        BY <1>2, <3>4, <3>5, <4>1, <4>2, <4>3, <4>4 DEF Doing
      <4>6. op'.todo \notin {<<"replace", "send", "commit", "delete">>} \cup
              {<<"creds">>, <<"register">>, <<"consent">>, <<"pending">>, <<"page">>}
              \cup {<<"context">>} \cup {<<"cursor">>}
        BY <2>3, <3>5
      <4> QED
        BY <4>5, <4>6 DEF Working, Doing
    <3>8. Consented'
      BY <2>3, <3>5 DEF Consented, Doing
    <3> QED
      BY <3>3, <3>6, <3>7, <3>8 DEF SyncInv
  <2> QED
    BY <2>4, <2>5, <2>6
<1> QED
  BY <1>5, <1>6

----------------------------------------------------------------------------
(* The rows of pending requests *)

\* A change of owner goes on at one of its places.
LEMMA MoveOperates ==
    ASSUME op # None, op' # None, NEW s \in Moves \cup Closes, NEW rec,
           Goes(s, op.end, op.remote, rec), UNCHANGED <<tail, owner, floor>>,
           op.end \in 0..tail, op.end <= lcur',
           \A r \in Made' : r.t = "batch" /\ r.acct # Me => r.last <= op.end,
           s \in Moves => rec.t = "advance" /\ rec.acct = Me,
           Head(s) # "drop" => batch'[Me] = None,
           s # <<"commit", "own", "delete">>
    PROVE  Operating'
<1>1. /\ op'.todo = s /\ op'.end = op.end /\ op'.rec = rec /\ Me' = Me
  BY DEF Goes, Me
<1>2. s \notin Looks \cup Sends \cup Works \cup Prepares
  BY DEF Looks, Moves, Closes, Sends, Works, Prepares
<1>3. Taking'
  <2>1. s \notin {<<"audit", "rebase">>, <<"rebase">>}
    BY <1>2 DEF Looks
  <2>2. s \in {<<"put", "send", "commit", "own", "delete">>, <<"send", "commit", "own", "delete">>,
               <<"commit", "own", "delete">>, <<"own", "delete">>, <<"own">>} => Head(s) # "drop"
    OBVIOUS
  <2> QED
    BY <1>1, <2>1, <2>2 DEF Taking, Doing
<1>4. Working'
  <2>1. ~Step("commit")'
    BY <1>1 DEF Step, Moves, Closes
  <2>2. HasRequest' => s \in Moves
    BY <1>1, <1>2 DEF HasRequest, Doing, Works
  <2> QED
    BY <1>1, <1>2, <2>1, <2>2 DEF Working, Doing, Sends, Works, Prepares
<1>5. Consented'
  BY <1>1, <1>2 DEF Consented, Doing, Sends
<1> QED
  BY <1>3, <1>4, <1>5 DEF Operating

\* The owner's request goes on at one of its places.
LEMMA SendOperates ==
    ASSUME op # None, op' # None, NEW s \in Sends, Goes(s, op.end, op.remote, op.rec),
           owner' = Me, op.rec.acct = Me, op.rec.t = "batch" => op.rec.first > floor',
           s # <<"replace", "send", "commit", "delete">>, s # <<"commit", "delete">>,
           s \in {<<"put", "send", "commit", "delete">>, <<"send", "commit", "delete">>} =>
             Consents(op.rec) /\ UNCHANGED <<config, kind>>
    PROVE  Operating'
<1>1. op'.todo = s /\ op'.end = op.end /\ op'.rec = op.rec /\ Me' = Me
  BY DEF Goes, Me
<1>2. s \notin Looks \cup Moves \cup Closes \cup Works \cup Prepares
  BY DEF Looks, Moves, Closes, Sends, Works, Prepares
<1>3. Taking'
  BY <1>1, <1>2 DEF Taking, Doing, Looks, Moves, Closes
<1>4. Working'
  <2>1. ~Step("commit")'
    BY <1>1 DEF Step, Sends
  <2> QED
    BY <1>1, <1>2, <2>1 DEF Working, Doing, Works, Prepares
<1>5. Consented'
  BY <1>1 DEF Consented, Doing, Consents
<1> QED
  BY <1>3, <1>4, <1>5 DEF Operating

\* A step that changes rows of pending requests: it deletes rows, or stores the request in
\* hand as a row of its account.
LEMMA RowsFrame ==
    ASSUME SyncInv, op # None,
           UNCHANGED <<kind, aged, lcur, creds, owner, audited, cut, legacy, oldRows, server,
                       config, session, gen, mode, floor>>,
           DOMAIN batch' = Accounts, DOMAIN advance' = Accounts,
           batch' = [a \in Accounts |-> batch'[a]], advance' = [a \in Accounts |-> advance'[a]],
           \A a \in Accounts :
             \/ batch'[a] \in {None, batch[a]}
             \/ a = Me /\ batch'[a] = op.rec /\ HasRequest /\ op.rec.t = "batch",
           \A a \in Accounts :
             \/ advance'[a] \in {None, advance[a]}
             \/ a = Me /\ advance'[a] = op.rec /\ HasRequest /\ op.rec.t = "advance",
           op' # None => DOMAIN op' = Fields /\ op'.id = op.id /\ op'.todo \in Todos \ {<<"register">>},
           HasRequest' => HasRequest /\ op'.rec = op.rec
    PROVE  /\ Laid' /\ Cutover' /\ Registered' /\ Ranged' /\ Bounded' /\ Disjoint' /\ Rows'
           /\ Contiguous' /\ NothingSkippedSilently'
           /\ Made' \subseteq Made
<1>1. cut = "complete" /\ ~legacy /\ ~oldRows /\ ~Booting /\ mode # "off"
  BY InService
<1>2. /\ HasRequest => /\ op.rec \in Made /\ op.rec \in Requests /\ op.rec.acct = Me
                       /\ op.rec.t = "batch" => op.rec.first > floor
      /\ Me \in Accounts
  BY InHand, OpFacts
<1>3. \A a \in Accounts : /\ batch[a] \in Requests \cup {None} /\ advance[a] \in Requests \cup {None}
                          /\ batch[a] # None => batch[a] \in Made
                          /\ advance[a] # None => advance[a] \in Made
  BY DEF SyncInv, Laid, SyncTypeOK, Made
<1>4. \A a \in Accounts : /\ batch'[a] \in Requests \cup {None} /\ advance'[a] \in Requests \cup {None}
                          /\ batch'[a] # None => batch'[a] \in Made
                          /\ advance'[a] # None => advance'[a] \in Made
  BY <1>2, <1>3
<1>5. Made' \subseteq Made
  <2>1. accepted' \cup late' \subseteq Made
    BY DEF Made, server
  <2>2. ({batch'[a] : a \in Accounts} \cup {advance'[a] : a \in Accounts}) \ {None} \subseteq Made
    BY <1>4
  <2>3. Made' = (accepted' \cup late')
                \cup (({batch'[a] : a \in Accounts} \cup {advance'[a] : a \in Accounts}) \ {None})
                \cup (IF HasRequest' THEN {op'.rec} ELSE {})
    BY DEF Made
  <2>4. HasRequest' => op'.rec \in Made
    BY <1>2
  <2> QED
    BY <2>1, <2>2, <2>3, <2>4
<1>6. Laid'
  <2>1. op' # None => Me' = Me
    BY DEF Me
  <2>2. Requests' = Requests /\ tail' = tail
    BY DEF Requests, tail
  <2>3. batch' \in [Accounts -> Requests \cup {None}] /\ advance' \in [Accounts -> Requests \cup {None}]
    BY <1>4
  <2> QED
    BY <1>2, <2>1, <2>2, <2>3 DEF SyncInv, Laid, SyncTypeOK, server, Fields
<1>7. Cutover'
  BY <1>1 DEF SyncInv, Cutover, Booting
<1>8. Registered'
  BY DEF SyncInv, Registered, Doing, server
<1>9. Ranged' /\ Bounded' /\ Disjoint'
  BY <1>5 DEF SyncInv, Ranged, Bounded, Disjoint, Requests, tail
<1>10. Rows'
  <2>1. \A a \in Accounts : batch'[a] # None =>
          batch'[a].acct = a /\ batch'[a].t = "batch" /\ (a = owner => batch'[a].first > floor)
    BY <1>2 DEF SyncInv, Rows
  <2>2. \A a \in Accounts : advance'[a] # None => advance'[a].acct = a /\ advance'[a].t = "advance"
    BY <1>2 DEF SyncInv, Rows
  <2> QED
    BY <2>1, <2>2 DEF SyncInv, Rows
<1>11. Contiguous' /\ NothingSkippedSilently'
  BY DEF SyncInv, Contiguous, NothingSkippedSilently, Ack, Covered, server
<1> QED
  BY <1>5, <1>6, <1>7, <1>8, <1>9, <1>10, <1>11

\* A row is deleted, and the operation is over.
LEMMA DeletePendingKeeps == ASSUME SyncInv, DeletePending PROVE SyncInv'
<1>1. /\ op # None /\ op' = None
      /\ UNCHANGED <<kind, aged, lcur, creds, owner, audited, cut, legacy, oldRows, server,
                     config, session, gen, mode, floor>>
  BY DEF DeletePending, Step
<1>2. DOMAIN batch = Accounts /\ DOMAIN advance = Accounts /\ Me \in Accounts
  BY <1>1, OpFacts DEF SyncInv, Laid, SyncTypeOK
<1>3. /\ DOMAIN batch' = Accounts /\ DOMAIN advance' = Accounts
      /\ batch' = [a \in Accounts |-> batch'[a]] /\ advance' = [a \in Accounts |-> advance'[a]]
      /\ \A a \in Accounts : batch'[a] \in {None, batch[a]} /\ advance'[a] \in {None, advance[a]}
  BY <1>2 DEF DeletePending
<1>4. Taking' /\ Working' /\ Consented' /\ ~HasRequest'
  BY <1>1, NoOp
<1> QED
  BY <1>1, <1>3, <1>4, RowsFrame DEF SyncInv

\* Rows are changed by an operation that ends here.
LEMMA RowsEnd ==
    ASSUME SyncInv, op # None, op' = None,
           UNCHANGED <<kind, aged, lcur, creds, owner, audited, cut, legacy, oldRows, server,
                       config, session, gen, mode, floor>>,
           DOMAIN batch' = Accounts, DOMAIN advance' = Accounts,
           batch' = [a \in Accounts |-> batch'[a]], advance' = [a \in Accounts |-> advance'[a]],
           \A a \in Accounts :
             \/ batch'[a] \in {None, batch[a]}
             \/ a = Me /\ batch'[a] = op.rec /\ HasRequest /\ op.rec.t = "batch",
           \A a \in Accounts :
             \/ advance'[a] \in {None, advance[a]}
             \/ a = Me /\ advance'[a] = op.rec /\ HasRequest /\ op.rec.t = "advance"
    PROVE  SyncInv'
<1>1. Taking' /\ Working' /\ Consented' /\ ~HasRequest'
  BY NoOp
<1>2. /\ Laid' /\ Cutover' /\ Registered' /\ Ranged' /\ Bounded' /\ Disjoint' /\ Rows'
      /\ Contiguous' /\ NothingSkippedSilently'
  BY <1>1, RowsFrame
<1> QED
  BY <1>1, <1>2 DEF SyncInv

\* The rows of the two accounts are dropped before the advance of the new owner.
LEMMA DropStaleKeeps == ASSUME SyncInv, DropStale PROVE SyncInv'
<1>1. /\ op # None /\ Head(op.todo) = "drop"
      /\ UNCHANGED <<kind, aged, lcur, creds, owner, audited, cut, legacy, oldRows, server,
                     config, session, gen, mode, floor>>
  BY DEF DropStale, Step
<1>2. /\ op.todo \in {<<"drop", "put", "send", "commit", "own", "delete">>, <<"drop", "own">>}
  BY <1>1, OpFacts, Places
<1>3. DOMAIN batch = Accounts /\ DOMAIN advance = Accounts /\ Me \in Accounts
      /\ batch = [a \in Accounts |-> batch[a]] /\ advance = [a \in Accounts |-> advance[a]]
  BY <1>1, OpFacts DEF SyncInv, Laid, SyncTypeOK
<1>4. /\ DOMAIN batch' = Accounts /\ DOMAIN advance' = Accounts
      /\ batch' = [a \in Accounts |-> batch'[a]] /\ advance' = [a \in Accounts |-> advance'[a]]
      /\ \A a \in Accounts : batch'[a] \in {None, batch[a]} /\ advance'[a] \in {None, advance[a]}
  <2>1. CASE Current
    <3>1. /\ batch'   = [a \in Accounts |-> IF a \in {Me, owner} THEN None ELSE batch[a]]
          /\ advance' = [a \in Accounts |-> IF a \in {Me, owner} THEN None ELSE advance[a]]
      BY <2>1 DEF DropStale
    <3> QED
      BY <3>1
  <2>2. CASE ~Current
    BY <1>3, <2>2 DEF DropStale
  <2> QED
    BY <2>1, <2>2
<1>5. PICK s : s = Tail(op.todo)
  OBVIOUS
<1>6. /\ s \in {<<"put", "send", "commit", "own", "delete">>, <<"own">>} /\ s # <<>>
      /\ s \in Moves <=> op.todo \in Moves
  <2>1. CASE op.todo = <<"drop", "put", "send", "commit", "own", "delete">>
    BY <1>5, <2>1, Rests DEF Moves
  <2>2. CASE op.todo = <<"drop", "own">>
    <3>1. s = <<"own">>
      BY <1>5, <2>2, Rests
    <3> QED
      BY <2>2, <3>1 DEF Moves
  <2> QED
    BY <1>2, <2>1, <2>2
<1>7. op' = None \/ (op' # None /\ Current /\ Goes(s, op.end, op.remote, op.rec))
  BY <1>1, <1>5, <1>6, OpFacts DEF DropStale, IfCurrent, Next1, Then, Goes, Fields
<1>8. CASE op' = None
  BY <1>1, <1>4, <1>8, RowsEnd
<1>9. CASE op' # None /\ Current /\ Goes(s, op.end, op.remote, op.rec)
  <2>1. batch'[Me] = None
    BY <1>3, <1>9 DEF DropStale
  <2>3. HasRequest' => HasRequest /\ op'.rec = op.rec
    <3>1. s \notin Sends \cup Works
      BY <1>6 DEF Sends, Works
    <3> QED
      BY <1>1, <1>6, <1>9, <3>1 DEF HasRequest, Doing, Goes, Works
  <2>4. s \in Moves \cup Closes /\ s \in Todos \ {<<"register">>}
    BY <1>6 DEF Moves, Closes, Todos
  <2>5. /\ Laid' /\ Cutover' /\ Registered' /\ Ranged' /\ Bounded' /\ Disjoint' /\ Rows'
        /\ Contiguous' /\ NothingSkippedSilently'
        /\ Made' \subseteq Made
    BY <1>1, <1>4, <1>9, <2>3, <2>4, RowsFrame DEF Goes
  <2>6. op.todo \in Moves \cup Closes
    BY <1>2 DEF Moves, Closes
  <2>7. /\ op.end \in 0..tail /\ op.end <= lcur
        /\ \A r \in Made : r.t = "batch" /\ r.acct # Me => r.last <= op.end
        /\ op.todo \in Moves => op.rec.t = "advance"
    BY <1>1, <2>6, OpFacts DEF Taking, Doing
  <2>8. op.todo \in Moves => op.rec.acct = Me
    BY <1>1, OpFacts DEF Working, HasRequest, Doing
  <2>9. s # <<"commit", "own", "delete">>
    BY <1>6
  <2>10. Operating'
    BY <1>1, <1>6, <1>9, <2>1, <2>4, <2>5, <2>7, <2>8, <2>9, MoveOperates DEF tail
  <2> QED
    BY <2>5, <2>10 DEF SyncInv, Operating
<1> QED
  BY <1>7, <1>8, <1>9

\* A request in hand becomes the row of its account, before it is sent.
LEMMA PutPendingKeeps == ASSUME SyncInv, PutPending PROVE SyncInv'
<1>1. /\ op # None /\ Head(op.todo) = "put"
      /\ UNCHANGED <<kind, aged, lcur, creds, owner, audited, cut, legacy, oldRows, server,
                     config, session, gen, mode, floor>>
  BY DEF PutPending, Step
<1>2. op.todo \in {<<"put", "send", "commit", "own", "delete">>, <<"put", "send", "commit", "delete">>}
  BY <1>1, OpFacts, Places
<1>3. HasRequest
  BY <1>1, <1>2 DEF HasRequest, Doing, Moves, Sends
<1>4. /\ op.rec \in Requests /\ op.rec.acct = Me /\ op.rec.t \in {"batch", "advance"}
      /\ op.rec.t = "batch" => op.rec.first > floor
  BY <1>3, InHand DEF Requests
<1>5. DOMAIN batch = Accounts /\ DOMAIN advance = Accounts /\ Me \in Accounts
      /\ batch = [a \in Accounts |-> batch[a]] /\ advance = [a \in Accounts |-> advance[a]]
  BY <1>1, OpFacts DEF SyncInv, Laid, SyncTypeOK
<1>6. /\ DOMAIN batch' = Accounts /\ DOMAIN advance' = Accounts
      /\ batch' = [a \in Accounts |-> batch'[a]] /\ advance' = [a \in Accounts |-> advance'[a]]
      /\ \A a \in Accounts : batch'[a] = batch[a] \/ (a = Me /\ batch'[a] = op.rec /\ op.rec.t = "batch")
      /\ \A a \in Accounts :
           advance'[a] = advance[a] \/ (a = Me /\ advance'[a] = op.rec /\ op.rec.t = "advance")
  <2>1. CASE op.rec.t = "batch"
    <3>1. advance' = advance /\ (batch' = batch \/ batch' = [batch EXCEPT ![Me] = op.rec])
      BY <2>1 DEF PutPending
    <3> QED
      BY <1>5, <2>1, <3>1
  <2>2. CASE op.rec.t = "advance"
    <3>1. batch' = batch /\ (advance' = advance \/ advance' = [advance EXCEPT ![Me] = op.rec])
      BY <2>2 DEF PutPending
    <3> QED
      BY <1>5, <2>2, <3>1
  <2> QED
    BY <1>4, <2>1, <2>2
<1>7. PICK s : s = Tail(op.todo)
  OBVIOUS
<1>8. /\ s # <<>>
      /\ \/ /\ op.todo = <<"put", "send", "commit", "own", "delete">>
            /\ s = <<"send", "commit", "own", "delete">>
         \/ /\ op.todo = <<"put", "send", "commit", "delete">>
            /\ s = <<"send", "commit", "delete">>
  <2>1. CASE op.todo = <<"put", "send", "commit", "own", "delete">>
    BY <1>7, <2>1, Rests
  <2>2. CASE op.todo = <<"put", "send", "commit", "delete">>
    BY <1>7, <2>2, Rests
  <2> QED
    BY <1>2, <2>1, <2>2
<1>9. op' = None \/ (op' # None /\ Goes(s, op.end, op.remote, op.rec))
  BY <1>1, <1>7, <1>8, OpFacts DEF PutPending, IfCurrent, Next1, Then, Goes, Fields
<1>10. CASE op' = None
  BY <1>1, <1>3, <1>6, <1>10, RowsEnd
<1>11. CASE op' # None /\ Goes(s, op.end, op.remote, op.rec)
  <2>1. HasRequest' => HasRequest /\ op'.rec = op.rec
    BY <1>3, <1>11 DEF Goes
  <2>2. s \in Todos \ {<<"register">>}
    BY <1>8 DEF Moves, Sends, Todos
  <2>3. /\ Laid' /\ Cutover' /\ Registered' /\ Ranged' /\ Bounded' /\ Disjoint' /\ Rows'
        /\ Contiguous' /\ NothingSkippedSilently'
        /\ Made' \subseteq Made
    BY <1>1, <1>3, <1>6, <1>11, <2>1, <2>2, RowsFrame DEF Goes
  <2>4. UNCHANGED <<tail, owner, floor, config, kind>>
    BY <1>1 DEF tail
  <2>5. CASE op.todo = <<"put", "send", "commit", "own", "delete">>
    <3>1. s \in Moves /\ s \in Moves \cup Closes /\ Head(s) # "drop" /\ s # <<"commit", "own", "delete">>
      BY <1>8, <2>5 DEF Moves
    <3>2. op.todo \in Moves
      BY <2>5 DEF Moves
    <3>3. /\ op.end \in 0..tail /\ op.end <= lcur /\ op.rec.t = "advance" /\ batch[Me] = None
          /\ \A r \in Made : r.t = "batch" /\ r.acct # Me => r.last <= op.end
      BY <1>1, <2>5, <3>2, OpFacts DEF Taking, Doing
    <3>4. batch'[Me] = None
      BY <1>5, <1>6, <3>3
    <3>5. Operating'
      BY <1>1, <1>4, <1>11, <2>3, <2>4, <3>1, <3>3, <3>4, MoveOperates
    <3> QED
      BY <2>3, <3>5 DEF SyncInv, Operating
  <2>6. CASE op.todo = <<"put", "send", "commit", "delete">>
    <3>1. s \in Sends /\ s # <<"replace", "send", "commit", "delete">> /\ s # <<"commit", "delete">>
      BY <1>8, <2>6 DEF Sends
    <3>2. op.todo \in Sends
      BY <2>6 DEF Sends
    <3>3. owner = Me /\ Consents(op.rec)
      BY <1>1, <2>6, <3>2, OpFacts DEF Working, Consented, Doing
    <3>4. Operating'
      BY <1>1, <1>4, <1>11, <2>4, <3>1, <3>3, SendOperates
    <3> QED
      BY <2>3, <3>4 DEF SyncInv, Operating
  <2> QED
    BY <1>2, <2>5, <2>6
<1> QED
  BY <1>9, <1>10, <1>11

\* A batch that may not be sent becomes an advance over its events.
LEMMA ReplacePendingKeeps == ASSUME SyncInv, ReplacePending PROVE SyncInv'
<1>1. /\ op # None /\ Head(op.todo) = "replace"
      /\ UNCHANGED <<kind, aged, lcur, creds, owner, audited, cut, legacy, oldRows, server,
                     config, session, gen, mode, floor>>
  BY DEF ReplacePending, Step
<1>2. op.todo = <<"replace", "send", "commit", "delete">>
  BY <1>1, OpFacts, Places
<1>3. HasRequest /\ op.todo \in Sends
  BY <1>1, <1>2 DEF HasRequest, Doing, Sends
<1>4. op.rec.acct = Me /\ op.rec.t = "advance" /\ owner = Me
  BY <1>1, <1>2, <1>3, OpFacts DEF Working, Doing
<1>5. DOMAIN batch = Accounts /\ DOMAIN advance = Accounts /\ Me \in Accounts
  BY <1>1, OpFacts DEF SyncInv, Laid, SyncTypeOK
<1>6. /\ DOMAIN batch' = Accounts /\ DOMAIN advance' = Accounts
      /\ batch' = [a \in Accounts |-> batch'[a]] /\ advance' = [a \in Accounts |-> advance'[a]]
      /\ \A a \in Accounts : batch'[a] \in {None, batch[a]}
      /\ \A a \in Accounts : advance'[a] = advance[a] \/ (a = Me /\ advance'[a] = op.rec)
  BY <1>5 DEF ReplacePending
<1>7. op' = None \/ (op' # None /\ Goes(<<"send", "commit", "delete">>, op.end, op.remote, op.rec))
  <2>1. Tail(op.todo) = <<"send", "commit", "delete">>
    BY <1>2, Rests
  <2> QED
    BY <1>1, <2>1, OpFacts DEF ReplacePending, IfCurrent, Next1, Then, Goes, Fields
<1>8. CASE op' = None
  BY <1>1, <1>3, <1>4, <1>6, <1>8, RowsEnd
<1>9. CASE op' # None /\ Goes(<<"send", "commit", "delete">>, op.end, op.remote, op.rec)
  <2>1. <<"send", "commit", "delete">> \in Sends /\ <<"send", "commit", "delete">> \in Todos \ {<<"register">>}
    BY DEF Sends, Todos
  <2>2. /\ Laid' /\ Cutover' /\ Registered' /\ Ranged' /\ Bounded' /\ Disjoint' /\ Rows'
        /\ Contiguous' /\ NothingSkippedSilently'
        /\ Made' \subseteq Made
    BY <1>1, <1>3, <1>4, <1>6, <1>9, <2>1, RowsFrame DEF Goes
  <2>3. Consents(op.rec)
    BY <1>4 DEF Consents
  <2>4. Operating'
    BY <1>1, <1>4, <1>9, <2>1, <2>3, SendOperates
  <2> QED
    BY <2>2, <2>4 DEF SyncInv, Operating
<1> QED
  BY <1>7, <1>8, <1>9

----------------------------------------------------------------------------
(* The consumer *)

\* A step that moves the cursor of the consumer over events that are covered, or records
\* an audit, and may prepare an advance.
LEMMA CursorFrame ==
    ASSUME SyncInv, op # None,
           UNCHANGED <<kind, aged, batch, advance, creds, owner, cut, legacy, oldRows, server,
                       config, session, gen, mode, floor>>,
           lcur' \in lcur..tail, audited \subseteq audited', audited' \subseteq 1..tail,
           \A e \in 1..lcur' : e \in audited' \/ \E a \in Accounts : e \in Covered(a),
           op' # None => DOMAIN op' = Fields /\ op'.id = op.id /\ op'.todo \in Todos \ {<<"register">>},
           HasRequest' =>
             \/ HasRequest /\ op'.rec = op.rec
             \/ /\ op'.rec \in Requests /\ op'.rec.first <= op'.rec.last /\ op'.rec.last <= tail
                /\ op'.rec.t = "advance"
    PROVE  /\ Laid' /\ Cutover' /\ Registered' /\ Ranged' /\ Bounded' /\ Disjoint' /\ Rows'
           /\ Contiguous' /\ NothingSkippedSilently'
           /\ \A r \in Made' : r.t = "batch" => r \in Made
<1>1. cut = "complete" /\ ~legacy /\ ~oldRows /\ ~Booting /\ mode # "off"
  BY InService
<1>2. tail \in Nat /\ lcur \in 0..tail /\ floor \in 0..lcur /\ tail' = tail /\ Requests' = Requests
  BY Numbers DEF tail, Requests
<1>3. \A r \in Made' : \/ r \in Made
                       \/ /\ r \in Requests /\ r.first <= r.last /\ r.last <= tail
                          /\ r.t = "advance"
  <2>1. Made' = (accepted \cup late)
                \cup (({batch[a] : a \in Accounts} \cup {advance[a] : a \in Accounts}) \ {None})
                \cup (IF HasRequest' THEN {op'.rec} ELSE {})
    BY DEF Made, server
  <2>2. HasRequest => op.rec \in Made
    BY DEF Made
  <2>3. /\ accepted \cup late \subseteq Made
        /\ ({batch[a] : a \in Accounts} \cup {advance[a] : a \in Accounts}) \ {None} \subseteq Made
    BY DEF Made
  <2> QED
    BY <2>1, <2>2, <2>3
<1>4. Ranged' /\ Bounded' /\ Disjoint'
  BY <1>2, <1>3 DEF SyncInv, Ranged, Bounded, Disjoint
<1>5. Laid'
  <2>1. op' # None => Me' = Me
    BY DEF Me
  <2>2. lcur' \in 0..tail
    BY <1>2
  <2> QED
    BY <1>2, <2>1, <2>2 DEF SyncInv, Laid, SyncTypeOK, server, Fields
<1>6. Cutover'
  BY <1>1 DEF SyncInv, Cutover, Booting
<1>7. Registered'
  BY DEF SyncInv, Registered, Doing, server
<1>8. Rows'
  <2>1. floor \in 0..lcur'
    BY <1>2
  <2> QED
    BY <2>1 DEF SyncInv, Rows
<1>9. Contiguous' /\ NothingSkippedSilently'
  BY DEF SyncInv, Contiguous, NothingSkippedSilently, Ack, Covered, server
<1> QED
  BY <1>3, <1>4, <1>5, <1>6, <1>7, <1>8, <1>9

\* An operation that ends at a cursor step.
LEMMA CursorEnd ==
    ASSUME SyncInv, op # None, op' = None,
           UNCHANGED <<kind, aged, batch, advance, creds, owner, cut, legacy, oldRows, server,
                       config, session, gen, mode, floor>>,
           lcur' \in lcur..tail, audited \subseteq audited', audited' \subseteq 1..tail,
           \A e \in 1..lcur' : e \in audited' \/ \E a \in Accounts : e \in Covered(a)
    PROVE  SyncInv'
<1>1. Taking' /\ Working' /\ Consented' /\ ~HasRequest'
  BY NoOp
<1> QED
  BY <1>1, CursorFrame DEF SyncInv

\* The events between the two cursors are in the record before the consumer passes them.
LEMMA AuditKeeps ==
    ASSUME SyncAssumption, SyncInv, Audit PROVE SyncInv'
<1>1. /\ op # None /\ Head(op.todo) = "audit" /\ audited' = audited \cup (op.remote + 1)..op.end
      /\ UNCHANGED <<kind, aged, lcur, batch, advance, creds, owner, cut, legacy, oldRows, server,
                     config, session, gen, mode, floor>>
  BY DEF Audit, Step
<1>2. op.todo = <<"audit", "rebase">>
  BY <1>1, OpFacts, Places
<1>3. /\ op.end \in 0..tail /\ op.remote \in 0..op.end /\ op.remote <= Ack(Me)
      /\ \A r \in Made : r.t = "batch" /\ r.acct # Me => r.last <= op.end
  <2>1. op.todo \in Looks
    BY <1>2 DEF Looks
  <2> QED
    BY <1>1, <1>2, <2>1, OpFacts DEF Taking, Doing
<1>4. tail \in Nat /\ lcur \in 0..tail
  BY Numbers
<1>5. /\ lcur' \in lcur..tail /\ audited \subseteq audited'
      /\ audited' \subseteq 1..tail
      /\ \A e \in 1..lcur' : e \in audited' \/ \E a \in Accounts : e \in Covered(a)
  <2>1. audited \subseteq 1..tail
    BY DEF SyncInv, Laid, SyncTypeOK
  <2>2. (op.remote + 1)..op.end \subseteq 1..tail
    BY <1>3, <1>4
  <2>3. audited' \subseteq 1..tail /\ audited \subseteq audited' /\ lcur' \in lcur..tail
    <3>1. lcur' \in lcur..tail
      BY <1>1, <1>4
    <3>2. PICK passed : passed = (op.remote + 1)..op.end
      OBVIOUS
    <3>3. audited' = audited \cup passed
      BY <1>1, <3>2
    <3> QED
      BY <2>1, <2>2, <3>1, <3>2, <3>3
  <2>4. \A e \in 1..lcur : e \in audited \/ \E a \in Accounts : e \in Covered(a)
    BY DEF SyncInv, NothingSkippedSilently
  <2> QED
    BY <1>1, <2>3, <2>4
<1>6. op' = None \/ (op' # None /\ Goes(<<"rebase">>, op.end, op.remote, op.rec))
  <2>1. Tail(op.todo) = <<"rebase">>
    BY <1>2, Rests
  <2> QED
    BY <1>1, <2>1, OpFacts DEF Audit, IfCurrent, Next1, Then, Goes, Fields
<1>7. CASE op' = None
  BY <1>1, <1>5, <1>7, CursorEnd
<1>8. CASE op' # None /\ Goes(<<"rebase">>, op.end, op.remote, op.rec)
  <2>1. ~HasRequest'
    BY <1>8 DEF HasRequest, Doing, Goes, Moves, Sends
  <2>2. <<"rebase">> \in Todos \ {<<"register">>}
    BY DEF Looks, Todos
  <2>3. /\ Laid' /\ Cutover' /\ Registered' /\ Ranged' /\ Bounded' /\ Disjoint' /\ Rows'
        /\ Contiguous' /\ NothingSkippedSilently'
        /\ \A r \in Made' : r.t = "batch" => r \in Made
    BY <1>1, <1>5, <1>8, <2>1, <2>2, CursorFrame DEF Goes
  <2>4. /\ op'.todo = <<"rebase">> /\ op'.end = op.end /\ op'.remote = op.remote
        /\ Me' = Me /\ tail' = tail /\ Ack(Me)' = Ack(Me)
    BY <1>1, <1>8 DEF Goes, Me, tail, Ack, server
  <2>5. Taking'
    BY <1>1, <1>3, <2>3, <2>4 DEF Taking, Doing, Moves, Closes
  <2>6. Working'
    BY <2>1, <2>4 DEF Working, Doing, Sends, Works, Step
  <2>7. Consented'
    BY <2>4 DEF Consented, Doing
  <2> QED
    BY <2>3, <2>5, <2>6, <2>7 DEF SyncInv
<1> QED
  BY <1>6, <1>7, <1>8

\* The consumer moves to the tail of a change of owner: what it passes is acknowledged for
\* the new owner or audited.
LEMMA RebaseLocallyKeeps ==
    ASSUME SyncAssumption, SyncInv, RebaseLocally PROVE SyncInv'
<1>1. /\ op # None /\ Head(op.todo) = "rebase"
      /\ UNCHANGED <<kind, aged, batch, advance, creds, owner, audited, cut, legacy, oldRows, server,
                     config, session, gen, mode, floor>>
  BY DEF RebaseLocally, Step
<1>2. op.todo = <<"rebase">> /\ Me \in Accounts
  BY <1>1, OpFacts, Places
<1>3. /\ op.end \in 0..tail /\ op.remote \in 0..op.end /\ op.remote <= Ack(Me)
      /\ \A r \in Made : r.t = "batch" /\ r.acct # Me => r.last <= op.end
      /\ (op.remote + 1)..op.end \subseteq audited
  <2>1. op.todo \in Looks
    BY <1>2 DEF Looks
  <2> QED
    BY <1>1, <1>2, <2>1, OpFacts DEF Taking, Doing
<1>4. /\ tail \in Nat /\ lcur \in 0..tail /\ tail <= MaxEvents /\ MaxEvents \in Nat
      /\ Ack(Me) \in Nat /\ audited \subseteq 1..tail
  BY <1>1, OpFacts, AckFacts DEF SyncAssumption, SyncInv, Laid, SyncTypeOK
<1>5. CASE op' = None /\ lcur' = lcur
  <2>1. lcur' \in lcur..tail
    BY <1>4, <1>5
  <2>2. \A e \in 1..lcur' : e \in audited' \/ \E a \in Accounts : e \in Covered(a)
    BY <1>1, <1>5 DEF SyncInv, NothingSkippedSilently
  <2> QED
    BY <1>1, <1>4, <1>5, <2>1, <2>2, CursorEnd
<1>6. CASE /\ Current /\ op.end >= lcur /\ lcur' = op.end
           /\ op' = IF op.remote # op.end
                    THEN [Then(<<"drop", "put", "send", "commit", "own", "delete">>)
                            EXCEPT !.rec = Request("advance", Me, op.remote + 1,
                                                   op.end, "account-boundary")]
                    ELSE Then(<<"drop", "own">>)
  <2>1. lcur' \in lcur..tail /\ lcur' = op.end
    BY <1>3, <1>4, <1>6
  <2>2. \A e \in 1..lcur' : e \in audited' \/ \E a \in Accounts : e \in Covered(a)
    <3> TAKE e \in 1..lcur'
    <3>1. CASE e <= op.remote
      <4>1. e \in 1..Ack(Me)
        BY <1>3, <1>4, <2>1, <3>1
      <4> QED
        BY <1>2, <4>1 DEF SyncInv, Contiguous
    <3>2. CASE ~(e <= op.remote)
      BY <1>1, <1>3, <1>4, <2>1, <3>2
    <3> QED
      BY <3>1, <3>2
  <2>3. PICK r : r = Request("advance", Me, op.remote + 1, op.end, "account-boundary")
    OBVIOUS
  <2>4. \/ op' = None
        \/ /\ op' # None /\ op.remote # op.end
           /\ Goes(<<"drop", "put", "send", "commit", "own", "delete">>, op.end, op.remote, r)
        \/ op' # None /\ Goes(<<"drop", "own">>, op.end, op.remote, op.rec)
    BY <1>1, <1>6, <2>3, OpFacts DEF Then, Goes, Fields
  <2>5. CASE op' = None
    BY <1>1, <1>4, <2>1, <2>2, <2>5, CursorEnd
  <2>6. op.end <= lcur' /\ UNCHANGED <<tail, owner, floor>> /\ audited \subseteq audited'
        /\ audited' \subseteq 1..tail
    BY <1>1, <1>3, <1>4, <2>1 DEF tail
  <2>7. CASE /\ op' # None /\ op.remote # op.end
             /\ Goes(<<"drop", "put", "send", "commit", "own", "delete">>, op.end, op.remote, r)
    <3>1. /\ r \in Requests /\ r.first <= r.last /\ r.last <= tail /\ r.t = "advance"
          /\ r.acct = Me
      <4>1. op.remote + 1 \in 1..MaxEvents /\ op.end \in 1..MaxEvents /\ op.remote + 1 <= op.end
            /\ op.end <= tail
        BY <1>3, <1>4, <2>7
      <4>2. "account-boundary" \in Reasons
        BY DEF Reasons
      <4> QED
        BY <1>2, <2>3, <4>1, <4>2 DEF Request, Requests
    <3>2. PICK s : s = <<"drop", "put", "send", "commit", "own", "delete">>
      OBVIOUS
    <3>3. /\ s \in Todos \ {<<"register">>} /\ s \in Moves \cup Closes /\ Head(s) = "drop"
          /\ s # <<"commit", "own", "delete">>
      BY <3>2 DEF Moves, Todos
    <3>4. Goes(s, op.end, op.remote, r)
      BY <2>7, <3>2
    <3>5. /\ Laid' /\ Cutover' /\ Registered' /\ Ranged' /\ Bounded' /\ Disjoint' /\ Rows'
          /\ Contiguous' /\ NothingSkippedSilently'
          /\ \A q \in Made' : q.t = "batch" => q \in Made
      BY <1>1, <2>1, <2>2, <2>6, <2>7, <3>1, <3>3, <3>4, CursorFrame DEF Goes
    <3>6. Operating'
      BY <1>1, <1>3, <2>6, <2>7, <3>1, <3>3, <3>4, <3>5, MoveOperates
    <3> QED
      BY <3>5, <3>6 DEF SyncInv, Operating
  <2>8. CASE op' # None /\ Goes(<<"drop", "own">>, op.end, op.remote, op.rec)
    <3>1. PICK s : s = <<"drop", "own">>
      OBVIOUS
    <3>2. /\ s \in Todos \ {<<"register">>} /\ s \in Moves \cup Closes /\ Head(s) = "drop"
          /\ s # <<"commit", "own", "delete">> /\ s \notin Moves
      BY <3>1 DEF Moves, Closes, Todos
    <3>3. Goes(s, op.end, op.remote, op.rec)
      BY <2>8, <3>1
    <3>4. ~HasRequest'
      BY <2>8 DEF HasRequest, Doing, Goes, Moves, Sends
    <3>5. /\ Laid' /\ Cutover' /\ Registered' /\ Ranged' /\ Bounded' /\ Disjoint' /\ Rows'
          /\ Contiguous' /\ NothingSkippedSilently'
          /\ \A q \in Made' : q.t = "batch" => q \in Made
      BY <1>1, <2>1, <2>2, <2>6, <2>8, <3>2, <3>3, <3>4, CursorFrame DEF Goes
    <3>6. Operating'
      BY <1>1, <1>3, <2>6, <2>8, <3>2, <3>3, <3>5, MoveOperates
    <3> QED
      BY <3>5, <3>6 DEF SyncInv, Operating
  <2> QED
    BY <2>4, <2>5, <2>7, <2>8
<1> QED
  BY <1>5, <1>6 DEF RebaseLocally

\* The committed cursor is behind the server's: what it passes is covered.
LEMMA CommitKeeps ==
    ASSUME SyncAssumption, SyncInv, Commit PROVE SyncInv'
<1>1. /\ op # None /\ Head(op.todo) = "commit" /\ Step("commit")
      /\ UNCHANGED <<kind, aged, batch, advance, creds, owner, audited, cut, legacy, oldRows, server,
                     config, session, gen, mode, floor>>
  BY DEF Commit, Step
<1>2. op.todo \in {<<"commit", "own", "delete">>, <<"commit", "delete">>}
  BY <1>1, OpFacts, Places
<1>3. HasRequest /\ Me \in Accounts
  BY <1>1, <1>2, OpFacts DEF HasRequest, Doing, Moves, Sends
<1>4. /\ op.rec \in Requests /\ op.rec.last <= tail /\ op.rec.last <= Ack(Me) /\ op.rec.acct = Me
      /\ op.rec.last \in Nat /\ (op.rec.t = "batch" => op.rec.first > floor)
  BY <1>1, <1>3, InHand, OpFacts DEF Working, Requests
<1>5. tail \in Nat /\ lcur \in 0..tail /\ Ack(Me) \in Nat /\ audited \subseteq 1..tail
  BY <1>1, OpFacts, AckFacts DEF SyncInv, Laid, SyncTypeOK
<1>6. /\ lcur' \in lcur..tail
      /\ \A e \in 1..lcur' : e \in audited \/ \E a \in Accounts : e \in Covered(a)
  <2>1. CASE Current /\ op.rec.last >= lcur
    <3>1. lcur' = op.rec.last
      BY <2>1 DEF Commit
    <3>2. \A e \in 1..lcur' : e \in 1..Ack(Me)
      BY <1>4, <1>5, <3>1
    <3> QED
      BY <1>3, <1>4, <1>5, <2>1, <3>1, <3>2 DEF SyncInv, Contiguous
  <2>2. CASE ~(Current /\ op.rec.last >= lcur)
    <3>1. lcur' = lcur
      BY <2>2 DEF Commit
    <3>2. \A e \in 1..lcur : e \in audited \/ \E a \in Accounts : e \in Covered(a)
      BY DEF SyncInv, NothingSkippedSilently
    <3> QED
      BY <1>5, <3>1, <3>2
  <2> QED
    BY <2>1, <2>2
<1>7. PICK s : s = Tail(op.todo)
  OBVIOUS
<1>8. /\ s # <<>>
      /\ \/ op.todo = <<"commit", "own", "delete">> /\ s = <<"own", "delete">>
         \/ op.todo = <<"commit", "delete">> /\ s = <<"delete">>
  <2>1. CASE op.todo = <<"commit", "own", "delete">>
    BY <1>7, <2>1, Rests
  <2>2. CASE op.todo = <<"commit", "delete">>
    BY <1>7, <2>2, Rests
  <2> QED
    BY <1>2, <2>1, <2>2
<1>9. op' = None \/ (op' # None /\ Goes(s, op.end, op.remote, op.rec))
  BY <1>1, <1>7, <1>8, OpFacts DEF Commit, Next1, Then, Goes, Fields
<1>10. CASE op' = None
  BY <1>1, <1>5, <1>6, <1>10, CursorEnd
<1>11. CASE op' # None /\ Goes(s, op.end, op.remote, op.rec)
  <2>1. HasRequest' => HasRequest /\ op'.rec = op.rec
    BY <1>3, <1>11 DEF Goes
  <2>2. s \in Todos \ {<<"register">>}
    BY <1>8 DEF Moves, Sends, Todos
  <2>3. /\ Laid' /\ Cutover' /\ Registered' /\ Ranged' /\ Bounded' /\ Disjoint' /\ Rows'
        /\ Contiguous' /\ NothingSkippedSilently'
        /\ \A r \in Made' : r.t = "batch" => r \in Made
    BY <1>1, <1>5, <1>6, <1>11, <2>1, <2>2, CursorFrame DEF Goes
  <2>4. UNCHANGED <<tail, owner, floor>>
    BY <1>1 DEF tail
  <2>5. CASE op.todo = <<"commit", "own", "delete">>
    <3>1. s \in Moves \cup Closes /\ Head(s) # "drop" /\ s # <<"commit", "own", "delete">>
      BY <1>8, <2>5 DEF Moves
    <3>2. op.todo \in Moves
      BY <2>5 DEF Moves
    <3>3. /\ op.end \in 0..tail /\ op.end <= lcur /\ op.rec.t = "advance" /\ batch[Me] = None
          /\ \A r \in Made : r.t = "batch" /\ r.acct # Me => r.last <= op.end
      BY <1>1, <2>5, <3>2, OpFacts DEF Taking, Doing
    <3>4. batch'[Me] = None /\ op.end <= lcur'
      BY <1>1, <1>5, <1>6, <3>3
    <3>5. Operating'
      BY <1>1, <1>4, <1>11, <2>3, <2>4, <3>1, <3>3, <3>4, MoveOperates
    <3> QED
      BY <2>3, <3>5 DEF SyncInv, Operating
  <2>6. CASE op.todo = <<"commit", "delete">>
    <3>1. /\ s \in Sends /\ s # <<"replace", "send", "commit", "delete">> /\ s # <<"commit", "delete">>
          /\ s \notin {<<"put", "send", "commit", "delete">>, <<"send", "commit", "delete">>}
      BY <1>8, <2>6 DEF Sends
    <3>2. op.todo \in Sends
      BY <2>6 DEF Sends
    <3>3. owner' = Me /\ (op.rec.t = "batch" => op.rec.first > floor')
      BY <1>1, <1>4, <3>2, OpFacts DEF Working, Doing
    <3>4. Operating'
      BY <1>1, <1>4, <1>11, <3>1, <3>3, SendOperates
    <3> QED
      BY <2>3, <3>4 DEF SyncInv, Operating
  <2> QED
    BY <1>2, <2>5, <2>6
<1> QED
  BY <1>9, <1>10, <1>11

\* The consumer has a new owner: the bodies of the others end where it begins.
LEMMA SetOwnerKeeps == ASSUME SyncInv, SetOwner PROVE SyncInv'
<1>1. /\ op # None /\ Head(op.todo) = "own" /\ owner' = Me /\ floor' = op.end
      /\ UNCHANGED <<kind, aged, lcur, batch, advance, creds, audited, cut, legacy, oldRows, server,
                     config, session, gen, mode>>
  BY DEF SetOwner, Step
<1>2. op.todo \in {<<"own", "delete">>, <<"own">>} /\ Me \in Accounts
  BY <1>1, OpFacts, Places
<1>3. op.todo \in Moves \cup Closes /\ (op.todo \in Moves <=> op.todo = <<"own", "delete">>)
  <2>1. <<"own", "delete">> \in Moves /\ <<"own">> \notin Moves /\ <<"own">> \in Closes
    BY DEF Moves, Closes
  <2>2. <<"own", "delete">> # <<"own">>
    OBVIOUS
  <2> QED
    BY <1>2, <2>1, <2>2
<1>4. /\ op.end \in 0..tail /\ op.end <= lcur /\ batch[Me] = None
      /\ \A r \in Made : r.t = "batch" /\ r.acct # Me => r.last <= op.end
      /\ op.todo = <<"own", "delete">> => op.rec.t = "advance" /\ op.rec.acct = Me /\ HasRequest
  <2>1. Taking /\ Working
    BY <1>1, OpFacts
  <2>2. /\ op.end \in 0..tail /\ op.end <= lcur
        /\ \A r \in Made : r.t = "batch" /\ r.acct # Me => r.last <= op.end
    BY <1>1, <1>3, <2>1 DEF Taking, Doing
  <2>3. batch[Me] = None
    BY <1>1, <1>2, <2>1 DEF Taking, Doing
  <2>4. op.todo = <<"own", "delete">> => op.rec.t = "advance" /\ op.rec.acct = Me /\ HasRequest
    BY <1>1, <1>3, <2>1 DEF Taking, Working, Doing, HasRequest
  <2> QED
    BY <2>2, <2>3, <2>4
<1>5. cut = "complete" /\ ~legacy /\ ~oldRows /\ ~Booting /\ mode # "off"
  BY <1>1, InService
<1>6. tail \in Nat /\ lcur \in 0..tail /\ tail' = tail /\ Requests' = Requests
  BY <1>1, Numbers DEF tail, Requests
<1>7. \/ op' = None
      \/ op' # None /\ op.todo = <<"own", "delete">> /\ Goes(<<"delete">>, op.end, op.remote, op.rec)
  <2>1. CASE op.todo = <<"own", "delete">>
    <3>1. Tail(op.todo) = <<"delete">>
      BY <2>1, Rests
    <3> QED
      BY <1>1, <2>1, <3>1, OpFacts DEF SetOwner, IfCurrent, Next1, Then, Goes, Fields
  <2>2. CASE op.todo = <<"own">>
    <3>1. Tail(op.todo) = <<>>
      BY <2>2, Rests
    <3> QED
      BY <3>1 DEF SetOwner, IfCurrent, Next1, Then
  <2> QED
    BY <1>2, <2>1, <2>2
<1>8. HasRequest' => HasRequest /\ op'.rec = op.rec
  <2>1. op' = None => ~HasRequest'
    BY NoOp
  <2> QED
    BY <1>4, <1>7, <2>1 DEF Goes
<1>9. Made' \subseteq Made
  BY <1>1, <1>8 DEF Made, server
<1>10. Operating'
  <2>1. CASE op' = None
    BY <2>1, NoOp DEF Operating
  <2>2. CASE op' # None /\ op.todo = <<"own", "delete">> /\ Goes(<<"delete">>, op.end, op.remote, op.rec)
    <3>1. PICK s : s = <<"delete">>
      OBVIOUS
    <3>2. /\ s \in Sends /\ s # <<"replace", "send", "commit", "delete">> /\ s # <<"commit", "delete">>
          /\ s \notin {<<"put", "send", "commit", "delete">>, <<"send", "commit", "delete">>}
      BY <3>1 DEF Sends
    <3>3. Goes(s, op.end, op.remote, op.rec) /\ op.rec.acct = Me /\ op.rec.t = "advance"
      BY <1>4, <2>2, <3>1
    <3> QED
      BY <1>1, <2>2, <3>2, <3>3, SendOperates
  <2> QED
    BY <1>7, <2>1, <2>2
<1>11. Ranged' /\ Bounded' /\ Disjoint'
  <2>1. Bounded'
    BY <1>1, <1>4, <1>9 DEF Bounded
  <2> QED
    BY <1>6, <1>9, <2>1 DEF SyncInv, Ranged, Disjoint
<1>12. Rows'
  <2>1. floor' \in 0..lcur'
    BY <1>1, <1>4, <1>6
  <2> QED
    BY <1>1, <1>4, <2>1 DEF SyncInv, Rows
<1>13. Laid'
  <2>1. op' # None => DOMAIN op' = Fields /\ Me' = Me /\ op'.todo \in Todos
    BY <1>7 DEF Goes, Me, Todos, Sends
  <2> QED
    BY <1>1, <1>2, <1>6, <2>1 DEF SyncInv, Laid, SyncTypeOK, server, Fields
<1>14. Cutover'
  BY <1>1, <1>5 DEF SyncInv, Cutover, Booting
<1>15. Registered'
  <2>1. ~Doing({<<"register">>})'
    BY <1>7 DEF Doing, Goes
  <2> QED
    BY <1>1, <2>1 DEF SyncInv, Registered, server
<1>16. Contiguous' /\ NothingSkippedSilently'
  BY <1>1 DEF SyncInv, Contiguous, NothingSkippedSilently, Ack, Covered, server
<1> QED
  BY <1>10, <1>11, <1>12, <1>13, <1>14, <1>15, <1>16 DEF SyncInv, Operating

----------------------------------------------------------------------------
(* Start-up, sessions, the journal *)

\* A step that starts or stops the service and lets the operation go on, or ends it.
LEMMA LifecycleFrame ==
    ASSUME SyncInv, UNCHANGED <<kind, aged, lcur, batch, advance, creds, owner, audited, oldRows,
                                server, floor>>,
           op' = None \/ (op' = op /\ config' = config),
           session' = None \/ session' \in Accounts \X (1..gen'), gen' \in Nat,
           mode' \in {"boot", "boot-delete", "boot-complete", "off", "run", "handoff",
                      "stopping", "closed"},
           cut' \in {"none", "prepared", "complete"}, config' \in Levels,
           Cutover'
    PROVE  SyncInv'
<1>1. tail' = tail /\ Requests' = Requests /\ (op' # None => Me' = Me)
  BY DEF tail, Requests, Me
<1>2. Operating' /\ (HasRequest' => HasRequest /\ op'.rec = op.rec)
  <2>1. CASE op' = None
    BY <2>1, NoOp DEF Operating
  <2>2. CASE op' # None /\ op' = op /\ config' = config
    <3>1. Taking /\ Working /\ Consented
      BY DEF SyncInv
    <3>2. HasRequest' = HasRequest
      BY <2>2 DEF HasRequest, Doing
    <3>3. Made' = Made
      BY <2>2, <3>2 DEF Made, server
    <3>4. Taking'
      BY <1>1, <2>2, <3>1, <3>3 DEF Taking, Doing, Ack, server
    <3>5. Working'
      BY <1>1, <2>2, <3>1, <3>2 DEF Working, Doing, Step, Ack, server
    <3>6. Consented'
      BY <2>2, <3>1 DEF Consented, Doing, Consents
    <3> QED
      BY <2>2, <3>2, <3>4, <3>5, <3>6 DEF Operating
  <2> QED
    BY <2>1, <2>2
<1>3. Made' \subseteq Made
  BY <1>2 DEF Made, server
<1>4. Ranged' /\ Bounded' /\ Disjoint' /\ Rows'
  BY <1>1, <1>3 DEF SyncInv, Ranged, Bounded, Disjoint, Rows
<1>5. Laid'
  BY <1>1 DEF SyncInv, Laid, SyncTypeOK, server
<1>6. Registered'
  BY DEF SyncInv, Registered, Doing, Me, server
<1>7. Contiguous' /\ NothingSkippedSilently'
  BY DEF SyncInv, Contiguous, NothingSkippedSilently, Ack, Covered, server
<1> QED
  BY <1>2, <1>4, <1>5, <1>6, <1>7 DEF SyncInv, Operating

\* The start-up: the cutover is prepared, the retired credential deleted, the cutover
\* completed.
LEMMA StartKeeps ==
    ASSUME SyncInv, PrepareCutover \/ DeleteLegacyCredential \/ CompleteCutover
    PROVE  SyncInv'
<1>1. /\ Booting /\ op = None /\ op' = op /\ gen \in Nat /\ config \in Levels
      /\ session = None \/ session \in Accounts \X (1..gen)
      /\ UNCHANGED <<kind, aged, lcur, server, floor, session, gen, config>>
      /\ cut \in {"none", "prepared", "complete"}
  BY DEF SyncInv, Cutover, Laid, SyncTypeOK, Booting, PrepareCutover, DeleteLegacyCredential,
         CompleteCutover
<1>2. CASE DeleteLegacyCredential \/ CompleteCutover
  <2>1. Cutover'
    BY <1>1, <1>2 DEF SyncInv, Cutover, Booting, DeleteLegacyCredential, CompleteCutover, server
  <2>2. UNCHANGED <<batch, advance, creds, owner, audited, oldRows>>
    BY <1>2 DEF DeleteLegacyCredential, CompleteCutover
  <2>3. mode' \in {"boot", "boot-complete", "off"} /\ cut' \in {"none", "prepared", "complete"}
    BY <1>1, <1>2 DEF DeleteLegacyCredential, CompleteCutover
  <2> QED
    BY <1>1, <2>1, <2>2, <2>3, LifecycleFrame
<1>3. CASE PrepareCutover /\ cut = "complete"
  <2>1. mode' = "off" /\ UNCHANGED <<cut, oldRows, batch, advance, creds, owner, audited, legacy>>
    BY <1>3 DEF PrepareCutover
  <2>2. Cutover'
    BY <1>1, <1>3, <2>1 DEF SyncInv, Cutover, Booting, server
  <2> QED
    BY <1>1, <1>3, <2>1, <2>2, LifecycleFrame
<1>4. CASE PrepareCutover /\ cut # "complete"
  <2>1. /\ mode' = "boot-delete" /\ cut' = "prepared" /\ oldRows' = FALSE
        /\ batch' = [a \in Accounts |-> None] /\ advance' = [a \in Accounts |-> None]
        /\ creds' = [a \in Accounts |-> [st |-> "none", inst |-> 0, consent |-> None]]
        /\ owner' = None /\ audited' = {} /\ legacy' = legacy
    BY <1>4 DEF PrepareCutover
  <2>2. /\ lcur = 0 /\ floor = 0 /\ accepted = {} /\ late = {}
        /\ agents = [a \in Accounts |-> {}]
    BY <1>4 DEF SyncInv, Cutover
  <2>3. op' = None
    BY <1>1
  <2>4. Taking' /\ Working' /\ Consented' /\ ~HasRequest'
    BY <2>3, NoOp
  <2>5. Made' = {}
    BY <1>1, <2>1, <2>2, <2>4 DEF Made, server
  <2>6. Ranged' /\ Bounded' /\ Disjoint'
    BY <2>5 DEF Ranged, Bounded, Disjoint
  <2>7. Rows'
    BY <1>1, <2>1, <2>2 DEF Rows
  <2>8. Cutover'
    BY <1>1, <2>1, <2>2, <2>3 DEF Cutover, Booting, server
  <2>9. Laid'
    <3>1. tail' = tail
      BY <1>1 DEF tail
    <3> QED
      BY <1>1, <2>1, <2>3, <3>1 DEF SyncInv, Laid, SyncTypeOK, server, Requests
  <2>10. Registered'
    <3>1. \A a \in Accounts : agents'[a] = {}
      BY <1>1, <2>2 DEF server
    <3> QED
      BY <2>3, <3>1 DEF Registered, Doing
  <2>11. Contiguous'
    BY <1>1 DEF SyncInv, Contiguous, Ack, Covered, server
  <2>12. NothingSkippedSilently'
    BY <1>1, <2>2 DEF NothingSkippedSilently
  <2> QED
    BY <2>4, <2>6, <2>7, <2>8, <2>9, <2>10, <2>11, <2>12 DEF SyncInv
<1> QED
  BY <1>2, <1>3, <1>4

\* Sessions, stops, shutdowns and restarts.
LEMMA LifecycleKeeps ==
    ASSUME SyncInv, Lifecycle PROVE SyncInv'
<1>1. /\ gen \in Nat /\ config \in Levels /\ cut \in {"none", "prepared", "complete"}
      /\ session = None \/ session \in Accounts \X (1..gen)
      /\ mode \in {"boot", "boot-delete", "boot-complete", "off", "run", "handoff",
                   "stopping", "closed"}
  BY DEF SyncInv, Laid, SyncTypeOK
<1>2. CASE PrepareCutover \/ DeleteLegacyCredential \/ CompleteCutover
  BY <1>2, StartKeeps
<1>3. CASE SignOut \/ Stop \/ Drained \/ BeginShutdown
  <2>1. /\ UNCHANGED <<kind, aged, lcur, batch, advance, creds, owner, audited, oldRows, cut, legacy,
                       server, floor, config, gen, op>>
        /\ session' \in {session, None}
        /\ mode \in {"run", "handoff", "stopping"}
        /\ mode' \in {"handoff", "stopping", "off", "closed"}
        /\ mode' = "off" => op = None
    BY <1>3 DEF SignOut, Stop, Drained, BeginShutdown, durable
  <2>2. Cutover'
    BY <2>1 DEF SyncInv, Cutover, Booting, server
  <2> QED
    BY <1>1, <2>1, <2>2, LifecycleFrame
<1>4. CASE Restart
  <2>1. /\ UNCHANGED <<kind, aged, lcur, batch, advance, creds, owner, audited, oldRows, cut, legacy,
                       server, floor, gen>>
        /\ session' = None /\ mode' = "boot" /\ op' = None /\ config' \in Levels
    BY <1>4 DEF Restart, durable
  <2>2. Cutover'
    BY <2>1 DEF SyncInv, Cutover, Booting, server
  <2> QED
    BY <1>1, <2>1, <2>2, LifecycleFrame
<1>5. ASSUME NEW a \in Accounts, SignIn(a) PROVE SyncInv'
  <2>1. /\ UNCHANGED <<kind, aged, lcur, batch, advance, creds, owner, audited, oldRows, cut, legacy,
                       server, floor, config, op>>
        /\ session' = <<a, gen + 1>> /\ gen' = gen + 1 /\ mode = "off" /\ mode' = "run"
    BY <1>5 DEF SignIn, durable
  <2>2. Cutover'
    BY <2>1 DEF SyncInv, Cutover, Booting, server
  <2>3. session' \in Accounts \X (1..gen') /\ gen' \in Nat
    BY <1>1, <2>1
  <2> QED
    BY <1>1, <2>1, <2>2, <2>3, LifecycleFrame
<1> QED
  BY <1>2, <1>3, <1>4, <1>5 DEF Lifecycle

\* An event more, or an event older: the requests there are speak of the events they did.
LEMMA JournalKeeps ==
    ASSUME SyncAssumption, SyncInv,
           UNCHANGED <<durable, server, process, floor>>,
           kind' \in Seq(Kinds), tail \in Nat, tail' \in Nat, tail <= tail', tail' <= MaxEvents,
           \A e \in 1..tail : kind'[e] = kind[e], aged' \in 0..tail'
    PROVE  SyncInv'
<1>1. HasRequest' = HasRequest /\ Me' = Me /\ Made' = Made /\ Requests' = Requests
  BY DEF HasRequest, Doing, Me, Made, Requests, process, server, durable
<1>2. \A r \in Made : r \in Requests /\ r.first <= r.last /\ r.last <= tail
                      /\ r.first \in Nat \ {0} /\ r.last \in Nat
  BY DEF SyncInv, Ranged, Requests
<1>3. Ranged'
  <2>1. \A r \in Made : r.last <= tail'
    BY <1>2
  <2> QED
    BY <1>1, <1>2, <2>1 DEF Ranged
<1>4. Bounded' /\ Disjoint' /\ Rows'
  BY <1>1 DEF SyncInv, Bounded, Disjoint, Rows, durable
<1>5. Laid'
  <2>1. 0..tail \subseteq 0..tail' /\ 1..tail \subseteq 1..tail'
    OBVIOUS
  <2>2. lcur' \in 0..tail' /\ audited' \subseteq 1..tail'
    BY <2>1 DEF SyncInv, Laid, SyncTypeOK, durable
  <2> QED
    BY <1>1, <2>2 DEF SyncInv, Laid, SyncTypeOK, server, durable, process
<1>6. Cutover' /\ Registered'
  BY <1>1 DEF SyncInv, Cutover, Registered, Doing, Booting, durable, server, process
<1>7. Taking'
  <2>1. Doing(Looks \cup Moves \cup Closes) => op.end \in 0..tail'
    BY DEF SyncInv, Taking
  <2>2. Ack(Me)' = Ack(Me) /\ op' = op /\ batch' = batch /\ audited' = audited /\ lcur' = lcur
    BY <1>1 DEF Ack, server, durable, process
  <2> QED
    BY <1>1, <2>1, <2>2 DEF SyncInv, Taking, Doing
<1>8. Working'
  <2>1. lcur \in Nat /\ \A n : n \in (lcur + 1)..tail => n \in (lcur + 1)..tail'
    BY Numbers
  <2>2. Ack(Me)' = Ack(Me) /\ op' = op /\ owner' = owner /\ floor' = floor /\ lcur' = lcur
    BY <1>1 DEF Ack, server, durable, process
  <2>3. (Doing({<<"context">>}) \/ (Doing({<<"cursor">>}) /\ op.rec = None) =>
           op.end \in (lcur + 1)..tail)'
    BY <2>1, <2>2 DEF SyncInv, Working, Doing
  <2> QED
    BY <1>1, <2>2, <2>3 DEF SyncInv, Working, Doing, Step
<1>9. Consented'
  <2>1. Doing({<<"put", "send", "commit", "delete">>, <<"send", "commit", "delete">>}) =>
          HasRequest /\ Consents(op.rec)
    BY DEF SyncInv, Consented, HasRequest, Doing, Sends
  <2>2. HasRequest => op.rec \in Made
    BY DEF Made
  <2>3. ASSUME HasRequest, Consents(op.rec) PROVE Consents(op.rec)'
    <3>1. op.rec.first..op.rec.last \subseteq 1..tail
      BY <1>2, <2>2, <2>3
    <3>2. op' = op /\ config' = config
      BY DEF process
    <3> QED
      BY <2>3, <3>1, <3>2 DEF Consents
  <2>4. op' = op
    BY DEF process
  <2> QED
    BY <2>1, <2>3, <2>4 DEF Consented, Doing
<1>10. Contiguous' /\ NothingSkippedSilently'
  BY DEF SyncInv, Contiguous, NothingSkippedSilently, Ack, Covered, server, durable
<1> QED
  BY <1>3, <1>4, <1>5, <1>6, <1>7, <1>8, <1>9, <1>10 DEF SyncInv

\* The host appends an event, or an event grows older.
LEMMA HostKeeps ==
    ASSUME SyncAssumption, SyncInv, (\E k \in Kinds : Append1(k)) \/ Age
    PROVE  SyncInv'
<1>1. tail \in Nat /\ aged \in 0..tail /\ kind \in Seq(Kinds) /\ tail <= MaxEvents /\ MaxEvents \in Nat
  BY Numbers DEF SyncInv, Laid, SyncAssumption
<1>2. ASSUME NEW k \in Kinds, Append1(k) PROVE SyncInv'
  <2>1. kind' = Append(kind, k) /\ tail < MaxEvents
        /\ UNCHANGED <<aged, durable, server, process, floor>>
    BY <1>2 DEF Append1
  <2>2. kind' \in Seq(Kinds) /\ Len(kind') = Len(kind) + 1 /\ \A e \in 1..Len(kind) : kind'[e] = kind[e]
    BY <1>1, <2>1
  <2>3. tail' = tail + 1
    BY <2>2 DEF tail
  <2>4. tail' \in Nat /\ tail <= tail' /\ tail' <= MaxEvents /\ aged' \in 0..tail'
    BY <1>1, <2>1, <2>3
  <2>5. \A e \in 1..tail : kind'[e] = kind[e]
    BY <2>2 DEF tail
  <2> QED
    BY <1>1, <2>1, <2>2, <2>4, <2>5, JournalKeeps
<1>3. CASE Age
  <2>1. kind' = kind /\ UNCHANGED <<durable, server, process, floor>> /\ aged < tail
        /\ aged' = aged + 1
    BY <1>3 DEF Age
  <2>2. tail' = tail
    BY <2>1 DEF tail
  <2>3. aged' \in 0..tail' /\ tail <= tail'
    BY <1>1, <2>1, <2>2
  <2>4. kind' \in Seq(Kinds) /\ tail' \in Nat /\ tail' <= MaxEvents /\ \A e \in 1..tail : kind'[e] = kind[e]
    BY <1>1, <2>1, <2>2
  <2> QED
    BY <1>1, <2>1, <2>3, <2>4, JournalKeeps
<1> QED
  BY <1>2, <1>3

----------------------------------------------------------------------------
(* The theorems *)

\* The journal is empty and nothing was ever sent.
LEMMA SyncInit == ASSUME SyncAssumption, Init PROVE SyncInv
<1>1. MaxEvents \in Nat
  BY DEF SyncAssumption
<1>2. tail = 0 /\ kind \in Seq(Kinds) /\ op = None
  BY DEF Init, tail
<1>3. Laid
  BY <1>1, <1>2 DEF Init, Laid, SyncTypeOK
<1>4. Cutover
  BY DEF Init, Cutover, Booting
<1>5. Registered
  BY <1>2 DEF Init, Registered, Doing
<1>6. ~HasRequest /\ Taking /\ Working /\ Consented
  BY <1>2 DEF HasRequest, Taking, Working, Consented, Doing, Step
<1>7. Made = {}
  BY <1>6 DEF Init, Made
<1>8. Ranged /\ Bounded /\ Disjoint
  BY <1>7 DEF Ranged, Bounded, Disjoint
<1>9. Rows
  BY DEF Init, Rows
<1>10. Contiguous
  <2>1. accepted = {} /\ accepted \subseteq Requests
    BY DEF Init
  <2>2. \A a : Ack(a) = 0
    BY <1>1, <2>1, AckFacts
  <2> QED
    BY <2>2 DEF Contiguous
<1>11. NothingSkippedSilently
  BY DEF Init, NothingSkippedSilently
<1> QED
  BY <1>3, <1>4, <1>5, <1>6, <1>8, <1>9, <1>10, <1>11 DEF SyncInv

\* Every step keeps the invariant.
LEMMA SyncNext == ASSUME SyncAssumption, SyncInv, [Next]_vars PROVE SyncInv'
<1>1. CASE Operation
  BY <1>1, BeginKeeps, CredentialsKeeps, RegisterKeeps, EnsureConsentsKeeps,
     GetRemoteCursorKeeps, EncryptionContextKeeps, SendKeeps, PendingOperationKeeps,
     QueryPageKeeps, TailCursorKeeps, AuditKeeps, RebaseLocallyKeeps, DropStaleKeeps,
     PutPendingKeeps, ReplacePendingKeeps, CommitKeeps, SetOwnerKeeps, DeletePendingKeeps
     DEF Operation
<1>2. CASE Lifecycle
  BY <1>2, LifecycleKeeps
<1>3. CASE AttemptFails
  BY <1>3, AttemptFailsKeeps
<1>4. CASE \E r \in late : LateArrival(r)
  BY <1>4, LateArrivalKeeps
<1>5. CASE (\E k \in Kinds : Append1(k)) \/ Age
  BY <1>5, HostKeeps
<1>6. CASE UNCHANGED vars
  <2>1. UNCHANGED <<durable, server, process, floor, kind, aged>> /\ aged \in 0..tail
    BY <1>6, Numbers DEF vars
  <2>2. tail' = tail /\ tail \in Nat /\ tail <= MaxEvents /\ kind' \in Seq(Kinds)
    BY <2>1, Numbers DEF tail, SyncInv, Laid
  <2>3. tail' \in Nat /\ tail <= tail' /\ tail' <= MaxEvents /\ aged' \in 0..tail'
        /\ \A e \in 1..tail : kind'[e] = kind[e]
    BY <2>1, <2>2
  <2> QED
    BY <2>1, <2>2, <2>3, JournalKeeps
<1> QED
  BY <1>1, <1>2, <1>3, <1>4, <1>5, <1>6 DEF Next

\* The invariant holds throughout.
LEMMA SyncInvHolds == ASSUME SyncAssumption PROVE Spec => []SyncInv
<1>1. Init => SyncInv
  BY SyncInit
<1>2. SyncInv /\ [Next]_vars => SyncInv'
  BY SyncNext
<1> QED
  BY <1>1, <1>2, PTL DEF Spec

\* syncAccount, recoverPendingBatch and rebaseConsumer together, with crashes, late
\* requests and switches of the account: no event is uploaded for two accounts, ...
THEOREM UploadedToOneHolds == ASSUME SyncAssumption PROVE Spec => []UploadedToOne
<1>1. ASSUME SyncInv PROVE UploadedToOne
  <2>1. SUFFICES ASSUME NEW a \in Accounts, NEW b \in Accounts, a # b,
                        NEW e \in Uploaded(a), e \in Uploaded(b)
                 PROVE  FALSE
    BY DEF UploadedToOne
  <2>2. PICK q \in accepted : q.acct = a /\ q.t = "batch" /\ e \in q.first..q.last
    BY DEF Uploaded
  <2>3. PICK r \in accepted : r.acct = b /\ r.t = "batch" /\ e \in r.first..r.last
    BY <2>1 DEF Uploaded
  <2>4. q \in Made /\ r \in Made
    BY <2>2, <2>3 DEF Made
  <2>5. q.last < r.first \/ r.last < q.first
    BY <1>1, <2>1, <2>2, <2>3, <2>4 DEF SyncInv, Disjoint
  <2>6. q.first \in Nat /\ q.last \in Nat /\ r.first \in Nat /\ r.last \in Nat
    BY <1>1, <2>4 DEF SyncInv, Ranged, Requests
  <2> QED
    BY <2>2, <2>3, <2>5, <2>6
<1> QED
  BY <1>1, SyncInvHolds, PTL

\* ... a body that is sent was recorded while its account owned the consumer, ...
THEOREM BodyWithinOwnershipHolds == ASSUME SyncAssumption PROVE Spec => []BodyWithinOwnership
<1>1. ASSUME SyncInv PROVE BodyWithinOwnership
  <2>1. SUFFICES ASSUME Step("send"), op.rec.t = "batch"
                 PROVE  owner = Me /\ op.rec.first > floor
    BY DEF BodyWithinOwnership
  <2>2. /\ op # None /\ HasRequest
        /\ op.todo \in {<<"send", "commit", "own", "delete">>, <<"send", "commit", "delete">>}
    BY <1>1, <2>1, SendFacts
  <2>3. op.todo # <<"send", "commit", "own", "delete">>
    BY <1>1, <2>1, <2>2, OpFacts DEF Taking, Doing, Moves
  <2>4. op.todo \in Sends
    BY <2>2, <2>3 DEF Sends
  <2> QED
    BY <1>1, <2>1, <2>2, <2>4, OpFacts DEF Working, Doing
<1> QED
  BY <1>1, SyncInvHolds, PTL

\* ... and holds nothing the configuration of this process does not consent to.
THEOREM SentUnderConsentHolds == ASSUME SyncAssumption PROVE Spec => []SentUnderConsent
<1>1. ASSUME SyncInv PROVE SentUnderConsent
  <2>1. SUFFICES ASSUME Step("send"), op.rec.t = "batch"
                 PROVE  Consents(op.rec)
    BY DEF SentUnderConsent, Consents
  <2>2. /\ op # None
        /\ op.todo \in {<<"send", "commit", "own", "delete">>, <<"send", "commit", "delete">>}
    BY <1>1, <2>1, SendFacts
  <2>3. op.todo # <<"send", "commit", "own", "delete">>
    BY <1>1, <2>1, <2>2, OpFacts DEF Taking, Doing, Moves
  <2> QED
    BY <1>1, <2>2, <2>3, OpFacts DEF Consented, Doing
<1> QED
  BY <1>1, SyncInvHolds, PTL

\* commit, RebaseLocally: what the consumer passes was accepted for some account or is in
\* an audit record.
THEOREM NothingSkippedHolds == ASSUME SyncAssumption PROVE Spec => []NothingSkippedSilently
<1>1. SyncInv => NothingSkippedSilently
  BY DEF SyncInv
<1> QED
  BY <1>1, SyncInvHolds, PTL

\* registeredCredentials: the server knows at most one installation of an account,
\* whatever answers are lost.
THEOREM OneAgentHolds == ASSUME SyncAssumption PROVE Spec => []OneAgentPerAccount
<1>1. ASSUME SyncInv PROVE OneAgentPerAccount
  <2>1. SUFFICES ASSUME NEW a \in Accounts PROVE Cardinality(agents[a]) <= 1
    BY DEF OneAgentPerAccount
  <2>2. agents[a] = {} \/ agents[a] = {creds[a].inst}
    BY <1>1 DEF SyncInv, Registered
  <2>3. Cardinality({}) = 0
    BY FS_EmptySet
  <2>4. PICK i : i = creds[a].inst
    OBVIOUS
  <2>5. Cardinality({i}) = 1
    BY FS_Singleton
  <2>6. Cardinality(agents[a]) \in {0, 1}
    BY <2>2, <2>3, <2>4, <2>5
  <2> QED
    BY <2>6
<1> QED
  BY <1>1, SyncInvHolds, PTL

\* prepareDataCenterProductionOriginCutover: no session runs before the rows and the
\* credential of the retired origin are gone.
THEOREM NoServiceBeforeCutoverHolds == ASSUME SyncAssumption PROVE Spec => []NoServiceBeforeCutover
<1>1. ASSUME SyncInv PROVE NoServiceBeforeCutover
  <2>1. SUFFICES ASSUME mode \in {"off", "run", "handoff", "stopping", "closed"}
                 PROVE  ~legacy /\ ~oldRows
    BY DEF NoServiceBeforeCutover
  <2>2. ~Booting
    BY <2>1 DEF Booting
  <2> QED
    BY <1>1, <2>2 DEF SyncInv, Cutover, Laid, SyncTypeOK
<1> QED
  BY <1>1, SyncInvHolds, PTL

\* The rows, cursors and sessions have their kinds.
THEOREM SyncTypeHolds == ASSUME SyncAssumption PROVE Spec => []SyncTypeOK
<1>1. SyncInv => SyncTypeOK
  BY DEF SyncInv, Laid
<1> QED
  BY <1>1, SyncInvHolds, PTL
=============================================================================
