------------------------- MODULE PlanningVault_proofs -------------------------
(***************************************************************************)
(* Proofs about the encrypted planning snapshots, for any number of saves, *)
(* chunks, contents, page sizes, crashes and requests that time out: what  *)
(* a row of the plan refers to is stored and a finished save has its row   *)
(* (VaultSafe), and a reader without a lease finds all of what it opens    *)
(* (ReaderFindsAll).                                                       *)
(*                                                                         *)
(* The heart of the argument is the order of the pipe. The lease alone     *)
(* excludes nothing, since a caller whose request timed out gives it back  *)
(* while the request is still queued. But the host serves the queue in     *)
(* order: a deletion left behind is served before the first seal of the    *)
(* next save is answered (DeletesFirst), and a row left behind is written  *)
(* before the inventory of the next collection is listed (NoWrites). So    *)
(* what a save was told is stored stays stored until its row is written,   *)
(* and a collection sees every row there is when it deletes.               *)
(***************************************************************************)
EXTENDS PlanningVault, SequenceTheorems, TLAPS

----------------------------------------------------------------------------
(* The inductive invariant *)

\* The kinds of requests, and those of a collection.
Kinds == {"seal", "write", "get", "open", "list", "refs", "delete"}
GcKinds == {"list", "refs", "open", "delete"}
\* The places of a collection that has the lease.
Working == {"list", "refs", "inspect", "delete"}
\* The columns of gc.
GcFields == {"st", "cut", "inv", "cursor", "refs", "todo", "keep", "del", "result"}
\* The largest record id.
Top == NumWriters * MaxVersion * (Chunks + 1)
\* The places of the pipe, and the entries of a sequence.
Requests == 1..Len(pipe)
Entries(s) == {s[i] : i \in 1..Len(s)}
\* The contents of a snapshot.
Content == [1..Chunks -> Contents]
\* The row a save writes, and the manifests the rows refer to.
Row(w) == [op |-> w, ver |-> writer[w].ver, man |-> Manifest(w)]
Mans == {hist[i].man : i \in 1..Len(hist)} \ {NoRef}

\* The requests in the pipe.
Piped ==
    /\ pipe \in Seq(Entries(pipe))
    /\ \A i \in Requests :
         /\ DOMAIN pipe[i] = {"kind", "from", "arg"}
         /\ pipe[i].kind \in Kinds /\ pipe[i].from \in Actors \cup {NoOne}
         /\ pipe[i].kind = "seal" => pipe[i].arg.id \in 1..Top
\* The tables and the states of the actors.
Laid ==
    /\ hist \in Seq(Entries(hist))
    /\ DOMAIN reply = Actors
    /\ writer \in [Writers -> [st : {"idle", "run", "done", "failed"}, step : 0..LastStep,
                               content : Content \cup {<<>>}, ver : 0..MaxVersion]]
    /\ \A w \in Writers :
         writer[w].st = "run" => writer[w].content \in Content /\ writer[w].ver # 0
    /\ DOMAIN gc = GcFields /\ DOMAIN reader = {"st", "man", "next"}
    /\ DOMAIN used = {"tries", "reads", "timeouts", "crashes"} /\ used.timeouts \in Nat
    /\ \A r \in vault : DOMAIN r = {"ref", "old"}

\* A request in the pipe whose caller waits for it is the only one of that caller.
Pending ==
    /\ \A i \in Requests : pipe[i].from # NoOne => reply[pipe[i].from].st = "wait"
    /\ \A i, j \in Requests : i # j /\ pipe[i].from = pipe[j].from => pipe[i].from = NoOne

\* Who has not asked has no reply.
Idling ==
    /\ \A w \in Writers : reply[w].st = "idle" <=> (writer[w].st = "run" => writer[w].step = 0)
    /\ reply[Gc].st = "idle" <=> gc.st \in {"idle", "wait"}
    /\ reply[Reader].st = "idle" <=> reader.st = "idle"

\* The lease is held by the one that works.
Leased ==
    /\ lease \in Seq(Writers \cup {Gc})
    /\ \A i, j \in 1..Len(lease) : lease[i] = lease[j] => i = j
    /\ \A i \in 1..Len(lease) : lease[i] \in Writers => writer[lease[i]].st = "run"
    /\ \A i \in 1..Len(lease) : lease[i] = Gc => gc.st # "idle"
    /\ \A w \in Writers : writer[w].st = "run" /\ writer[w].step > 0 => Holds(w)
    /\ gc.st \in Working => Holds(Gc)

\* What is asked is the request of the caller's step.
Asked ==
    /\ \A i \in Requests : \A w \in Writers : pipe[i].from = w =>
         /\ pipe[i].kind = Request(w, writer[w].step)[1]
         /\ pipe[i].arg = Request(w, writer[w].step)[2]
    /\ \A i \in Requests : pipe[i].from = Gc /\ gc.st = "refs" => pipe[i].kind = "refs"

\* The request of a save that was answered last.
Past(w) == IF reply[w].st = "ok" THEN writer[w].step ELSE writer[w].step - 1

\* A deletion is served before a save writes anything.
DeletesFirst ==
    /\ \A i, j \in Requests : pipe[i].kind = "write" => pipe[j].kind # "delete"
    /\ \A i, j \in Requests : pipe[i].from \in Writers /\ i < j => pipe[j].kind # "delete"
    /\ \A w \in Writers : writer[w].st = "run" /\ Past(w) > 0 =>
         \A j \in Requests : pipe[j].kind # "delete"

\* What a save has sealed is stored, before its row is written and after.
Sealing ==
    /\ \A w \in Writers : writer[w].st = "run" =>
         \A n \in 1..ManifestStep : n <= Past(w) => Stored(Request(w, n)[2])
    /\ \A i \in Requests : pipe[i].kind = "write" =>
         \A ref \in SnapshotRefs(pipe[i].arg.man) : Stored(ref)
    /\ \A w \in Writers : writer[w].st = "run" /\ Past(w) >= WriteStep => Done(Row(w))

\* The references a collection has seen, from the first row to row n.
Covered(S, n) == \A k \in 1..Len(Rows) : k <= n /\ Rows[k].man # NoRef => Rows[k].man \in S

\* No row is written from the end of the inventory to the last deletion, and what a
\* row refers to is kept.
NoWrites ==
    /\ gc.st \in {"refs", "inspect", "delete"} \/ (gc.st = "list" /\ reply[Gc].st = "ok") =>
         \A j \in Requests : pipe[j].kind # "write"
    /\ \A i, j \in Requests : pipe[i].from = Gc /\ i < j => pipe[j].kind # "write"
Scanning ==
    gc.st = "refs" =>
      /\ \A i \in Requests : pipe[i].from = Gc =>
           pipe[i].arg.cursor \in Nat /\ Covered(gc.refs, pipe[i].arg.cursor)
      /\ reply[Gc].st = "ok" =>
           /\ reply[Gc].val.next = 0 => Mans \subseteq gc.refs \cup reply[Gc].val.refs
           /\ reply[Gc].val.next # 0 =>
                /\ reply[Gc].val.next \in Nat
                /\ Covered(gc.refs \cup reply[Gc].val.refs, reply[Gc].val.next)
Keeping ==
    /\ gc.st = "inspect" => \A m \in Mans : m \in gc.todo \cup gc.refs \/ Kept(m) \subseteq gc.keep
    /\ gc.st = "delete" => \A m \in Mans : Kept(m) \cap gc.del = {}
    /\ \A i \in Requests : pipe[i].kind = "delete" =>
         \A m \in Mans : Kept(m) \cap pipe[i].arg.ids = {}

\* A reader opens what a row refers to.
Reading ==
    /\ reader.next \in 0..(Chunks + 1)
    /\ reader.st = "open" => reader.man \in Mans
    /\ reader.st = "row" =>
         reader.next = 0 /\ (reply[Reader].st = "ok" => reply[Reader].val \in Mans \cup {NoRef})
    /\ \A i \in Requests : pipe[i].from = Reader =>
         \/ reader.st = "row" /\ pipe[i].kind = "get"
         \/ reader.st = "open" /\ pipe[i].kind = "open" /\ pipe[i].arg \in SnapshotRefs(reader.man)

\* All of it.
VaultInv ==
    /\ Piped /\ Laid /\ Pending /\ Idling /\ Leased /\ Asked /\ DeletesFirst /\ Sealing
    /\ NoWrites /\ Scanning /\ Keeping /\ Reading
    /\ VaultTypeOK /\ ReferencedIsStored /\ FinishedIsWritten

----------------------------------------------------------------------------
(* The actors and the record ids *)

\* The assumption, a fact at a time.
LEMMA Numbers ==
    /\ NumWriters \in Nat /\ NumWriters > 0 /\ Chunks \in Nat /\ Chunks > 0
    /\ MaxVersion \in Nat /\ MaxVersion > 0
    /\ PageLimit \in Nat /\ PageLimit > 0 /\ Legacy \in Nat
BY VaultAssumption DEF VaultAssumption, MaxVersion

\* The saves, the collection and the reader are different actors.
LEMMA ActorFacts ==
    /\ Gc \in Actors /\ Reader \in Actors /\ Writers \subseteq Actors /\ NoOne \notin Actors
    /\ Gc \notin Writers /\ Reader \notin Writers /\ Gc # Reader
    /\ Actors = Writers \cup {Gc, Reader}
BY Numbers DEF Gc, Reader, Writers, Actors, NoOne

\* A product grows with its factor.
LEMMA Times ==
    ASSUME NEW a \in Nat, NEW b \in Nat, NEW c \in Nat, a <= b
    PROVE  a * c <= b * c /\ a * c \in Nat /\ b * c \in Nat
<1>1. PICK d \in Nat : b = a + d
  <2>1. b - a \in Nat /\ b = a + (b - a)
    OBVIOUS
  <2> QED
    BY <2>1
<1>2. b * c = a * c + d * c /\ d * c \in Nat /\ a * c \in Nat
  BY <1>1
<1> QED
  BY <1>2

\* The records of a snapshot have consecutive ids, in the range of ids.
LEMMA RecordIds ==
    ASSUME NEW op \in Writers, NEW ver \in 1..MaxVersion, NEW i \in Index
    PROVE  /\ RecordId(op, ver, i) \in 1..Top
           /\ RecordId(op, ver, i) = RecordId(op, ver, 0) + i
           /\ RecordId(op, ver, 0) \in Nat
<1>1. PICK C \in Nat : C = Chunks + 1
  BY Numbers
<1>2. PICK o \in Nat : op = o + 1 /\ o + 1 <= NumWriters
  <2>1. op - 1 \in Nat /\ op = (op - 1) + 1
    BY Numbers DEF Writers
  <2> QED
    BY <2>1, Numbers DEF Writers
<1>3. PICK v \in Nat : ver = v + 1 /\ v + 1 <= MaxVersion
  <2>1. ver - 1 \in Nat /\ ver = (ver - 1) + 1
    BY Numbers
  <2> QED
    BY <2>1, Numbers
<1>4. PICK x \in Nat : x = o * MaxVersion
  BY <1>2, Numbers
<1>5. (o + 1) * MaxVersion = x + MaxVersion
  BY <1>2, <1>4, Numbers
<1>6. PICK m \in Nat : m = NumWriters * MaxVersion
  BY Numbers
<1>7. x + MaxVersion <= m
  BY <1>2, <1>5, <1>6, Times, Numbers
<1>8. x + v + 1 <= m
  BY <1>3, <1>7, Numbers
<1>9. PICK y \in Nat : y = (x + v) * C
  BY <1>1, <1>3, <1>4
<1>10. (x + v + 1) * C = y + C
  BY <1>1, <1>3, <1>4, <1>9
<1>11. PICK t \in Nat : t = m * C
  BY <1>1, <1>6
<1>12. y + C <= t
  BY <1>1, <1>3, <1>4, <1>6, <1>8, <1>10, <1>11, Times
<1>13. t = Top
  BY <1>1, <1>6, <1>11 DEF Top
<1>14. \A k \in Index : RecordId(op, ver, k) = y + k + 1
  <2> SUFFICES ASSUME NEW k \in Index PROVE RecordId(op, ver, k) = y + k + 1
    OBVIOUS
  <2>1. op - 1 = o /\ k \in Nat
    BY <1>2, Numbers DEF Index
  <2>2. (op - 1) * MaxVersion + ver - 1 = x + v
    BY <1>3, <1>4, <2>1, Numbers
  <2> QED
    BY <1>1, <1>9, <2>1, <2>2 DEF RecordId
<1>15. i \in Nat /\ i < C /\ 0 \in Index
  BY <1>1, Numbers DEF Index
<1>16. RecordId(op, ver, i) = y + i + 1 /\ RecordId(op, ver, 0) = y + 1
  BY <1>14, <1>15
<1> QED
  BY <1>1, <1>12, <1>13, <1>15, <1>16

----------------------------------------------------------------------------
(* The pipe and the lease *)

\* A sequence that grows at its end, or is served at its head.
Longer(s, t, x) ==
    /\ Len(s) \in Nat /\ Len(t) = Len(s) + 1 /\ t \in Seq(Entries(t))
    /\ \A i \in 1..Len(s) : t[i] = s[i]
    /\ t[Len(s) + 1] = x
    /\ \A i \in 1..Len(t) : i \in 1..Len(s) \/ i = Len(s) + 1
    /\ \A i \in 1..Len(s) : i \in 1..Len(t) /\ i # Len(s) + 1 /\ i < Len(s) + 1
    /\ Len(s) + 1 \in 1..Len(t)
Shorter(s, t) ==
    /\ Len(s) \in Nat /\ Len(s) > 0 /\ Len(t) = Len(s) - 1 /\ t \in Seq(Entries(t))
    /\ \A i \in 1..Len(t) : i + 1 \in 1..Len(s) /\ t[i] = s[i + 1] /\ i + 1 > 1
    /\ 1 \in 1..Len(s) /\ Head(s) = s[1]

\* A sequence is one over its own entries.
LEMMA OwnEntries ==
    ASSUME NEW S, NEW s \in Seq(S)
    PROVE  s \in Seq(Entries(s)) /\ Entries(s) \subseteq S
<1>1. s \in Seq(Range(s)) /\ Range(s) = {s[i] : i \in 1..Len(s)}
  BY SeqOfRange, RangeEquality
<1>2. \A i \in 1..Len(s) : s[i] \in S
  BY ElementOfSeq
<1> QED
  BY <1>1, <1>2 DEF Entries

\* Append makes a sequence longer by one entry.
LEMMA Appended ==
    ASSUME NEW s, s \in Seq(Entries(s)), NEW x
    PROVE  Longer(s, Append(s, x), x)
<1> DEFINE S == Entries(s) \cup {x}
<1> SUFFICES ASSUME NEW t, t = Append(s, x) PROVE Longer(s, t, x)
  OBVIOUS
<1>1. s \in Seq(S)
  BY SeqMonotonic
<1>2. t \in Seq(S) /\ Len(t) = Len(s) + 1
      /\ (\A i \in 1..Len(s) : t[i] = s[i]) /\ t[Len(s) + 1] = x
  <2> HIDE DEF S
  <2>1. x \in S
    BY DEF S
  <2> QED
    BY <1>1, <2>1, AppendProperties
<1>3. Len(s) \in Nat
  <2> HIDE DEF S
  <2> QED
    BY <1>1, LenProperties
<1>4. t \in Seq(Entries(t))
  BY <1>2, OwnEntries
<1> QED
  BY <1>2, <1>3, <1>4 DEF Longer

\* Tail takes the head of a sequence.
LEMMA Served ==
    ASSUME NEW s, s \in Seq(Entries(s)), s # <<>>
    PROVE  Shorter(s, Tail(s))
<1> SUFFICES ASSUME NEW t, t = Tail(s) PROVE Shorter(s, t)
  OBVIOUS
<1>1. t \in Seq(Entries(s)) /\ Len(t) = Len(s) - 1 /\ \A i \in 1..Len(t) : t[i] = s[i + 1]
  BY HeadTailProperties
<1>2. Len(s) \in Nat /\ Len(s) > 0
  BY EmptySeq
<1>3. t \in Seq(Entries(t))
  BY <1>1, OwnEntries
<1>4. Head(s) = s[1]
  OBVIOUS
<1> QED
  BY <1>1, <1>2, <1>3, <1>4 DEF Shorter

\* A request that is sent is the last of the pipe, and the only one its caller waits for.
LEMMA Sent ==
    ASSUME Piped, Laid, Pending, NEW a \in Actors, reply[a].st # "wait", NEW kind \in Kinds,
           NEW arg, Send(a, kind, arg), kind = "seal" => arg.id \in 1..Top
    PROVE  /\ Longer(pipe, pipe', [kind |-> kind, from |-> a, arg |-> arg])
           /\ \A i \in Requests : pipe[i].from # a
           /\ reply'[a].st = "wait" /\ DOMAIN reply' = Actors
           /\ \A b \in Actors : b # a => reply'[b] = reply[b]
           /\ Piped' /\ Pending'
<1> DEFINE q == [kind |-> kind, from |-> a, arg |-> arg]
<1>1. Longer(pipe, pipe', q)
  BY Appended DEF Send, Piped
<1>2. \A i \in Requests : pipe[i].from # a
  BY ActorFacts DEF Pending
<1>3. /\ reply'[a].st = "wait" /\ DOMAIN reply' = Actors
      /\ \A b \in Actors : b # a => reply'[b] = reply[b]
  BY DEF Send, Laid, Waiting
<1>4. Requests' = 1..Len(pipe')
  BY DEF Requests
<1>5. /\ DOMAIN q = {"kind", "from", "arg"} /\ q.kind = kind /\ q.from = a /\ q.arg = arg
  OBVIOUS
<1> HIDE DEF q
<1>6. Piped'
  BY <1>1, <1>4, <1>5 DEF Longer, Piped, Requests, Top
<1>7. Pending'
  <2>1. \A i \in Requests' : pipe'[i].from # NoOne => reply'[pipe'[i].from].st = "wait"
    <3> SUFFICES ASSUME NEW i \in Requests', pipe'[i].from # NoOne
                 PROVE  reply'[pipe'[i].from].st = "wait"
      OBVIOUS
    <3>1. CASE i \in Requests
      <4>1. pipe'[i] = pipe[i] /\ pipe[i].from \in Actors /\ pipe[i].from # a
        BY <1>1, <1>2, <3>1 DEF Longer, Requests, Piped
      <4> QED
        BY <1>3, <3>1, <4>1 DEF Pending
    <3>2. CASE i = Len(pipe) + 1
      BY <1>1, <1>3, <1>5, <3>2 DEF Longer
    <3> QED
      BY <1>1, <1>4, <3>1, <3>2 DEF Longer, Requests
  <2>2. \A i, j \in Requests' : i # j /\ pipe'[i].from = pipe'[j].from => pipe'[i].from = NoOne
    <3>1. \A i \in Requests' : (i \in Requests /\ pipe'[i] = pipe[i]) \/ i = Len(pipe) + 1
      BY <1>1, <1>4 DEF Longer, Requests
    <3>2. pipe'[Len(pipe) + 1].from = a
      BY <1>1, <1>5 DEF Longer
    <3> QED
      BY <1>2, <3>1, <3>2 DEF Pending
  <2> QED
    BY <2>1, <2>2 DEF Pending
<1> QED
  BY <1>1, <1>2, <1>3, <1>6, <1>7 DEF q

\* An actor that does not ask again leaves the pipe as it is.
LEMMA NotSent ==
    ASSUME Piped, Laid, Pending, NEW a \in Actors, reply[a].st # "wait", NoSend(a)
    PROVE  /\ pipe' = pipe /\ Requests' = Requests
           /\ \A i \in Requests : pipe[i].from # a
           /\ reply'[a].st = "idle" /\ DOMAIN reply' = Actors
           /\ \A b \in Actors : b # a => reply'[b] = reply[b]
           /\ Piped' /\ Pending'
<1>1. \A i \in Requests : pipe[i].from # a
  BY ActorFacts DEF Pending
<1>2. /\ reply'[a].st = "idle" /\ DOMAIN reply' = Actors /\ pipe' = pipe
      /\ \A b \in Actors : b # a => reply'[b] = reply[b]
  BY DEF NoSend, Laid, Idle
<1>3. Requests' = Requests
  BY <1>2 DEF Requests
<1>4. Piped'
  BY <1>2, <1>3 DEF Piped, Entries, Top
<1>5. Pending'
  BY <1>1, <1>2, <1>3 DEF Pending, Piped
<1> QED
  BY <1>1, <1>2, <1>3, <1>4, <1>5

\* Who asks for the lease queues behind its holder and the waiters.
LEMMA Acquired ==
    ASSUME Leased, NEW a \in Writers \cup {Gc}, Acquire(a), \A i \in 1..Len(lease) : lease[i] # a
    PROVE  /\ lease' \in Seq(Writers \cup {Gc})
           /\ \A i, j \in 1..Len(lease') : lease'[i] = lease'[j] => i = j
           /\ \A i \in 1..Len(lease') : lease'[i] = a \/ \E j \in 1..Len(lease) : lease'[i] = lease[j]
           /\ \A b : Holds(b) => Holds(b)'
<1>1. lease \in Seq(Entries(lease)) /\ lease \in Seq(Writers \cup {Gc})
  BY OwnEntries DEF Leased
<1>2. Longer(lease, lease', a)
  BY <1>1, Appended DEF Acquire
<1>3. lease' \in Seq(Writers \cup {Gc})
  BY <1>1 DEF Acquire
<1>4. \A i, j \in 1..Len(lease') : lease'[i] = lease'[j] => i = j
  <2>1. \A i \in 1..Len(lease') : (i \in 1..Len(lease) /\ lease'[i] = lease[i]) \/ i = Len(lease) + 1
    BY <1>2 DEF Longer
  <2>2. lease'[Len(lease) + 1] = a
    BY <1>2 DEF Longer
  <2> QED
    BY <2>1, <2>2 DEF Leased
<1>5. \A b : Holds(b) => Holds(b)'
  BY <1>1 DEF Holds, Acquire
<1> QED
  BY <1>2, <1>3, <1>4, <1>5 DEF Longer

\* Release hands the lease to the next waiter.
LEMMA Released ==
    ASSUME Leased, NEW a \in Writers \cup {Gc}, Release(a)
    PROVE  /\ lease' \in Seq(Writers \cup {Gc})
           /\ \A i, j \in 1..Len(lease') : lease'[i] = lease'[j] => i = j
           /\ \A i \in 1..Len(lease') : lease'[i] # a /\ \E j \in 1..Len(lease) : lease'[i] = lease[j]
           /\ \A b : Holds(b) => b = a
<1>1. lease \in Seq(Entries(lease)) /\ lease # <<>> /\ Head(lease) = a
  BY OwnEntries DEF Leased, Release, Holds
<1>2. Shorter(lease, lease')
  BY <1>1, Served DEF Release
<1>3. lease' \in Seq(Writers \cup {Gc})
  BY <1>1 DEF Release, Leased
<1>4. \A i, j \in 1..Len(lease') : lease'[i] = lease'[j] => i = j
  BY <1>2 DEF Shorter, Leased
<1>5. \A i \in 1..Len(lease') : lease'[i] # a /\ \E j \in 1..Len(lease) : lease'[i] = lease[j]
  BY <1>1, <1>2 DEF Shorter, Leased
<1>6. \A b : Holds(b) => b = a
  BY <1>1 DEF Holds
<1> QED
  BY <1>3, <1>4, <1>5, <1>6

\* One actor works at a time.
LEMMA OneHolder ==
    ASSUME NEW a, NEW b, Holds(a), Holds(b)
    PROVE  a = b
BY DEF Holds

----------------------------------------------------------------------------
(* The requests of a save *)

\* The requests of a save: the chunks, the manifest, the write, what is opened again.
LEMMA Steps ==
    /\ ManifestStep \in Nat /\ WriteStep = ManifestStep + 1 /\ OpenStep = WriteStep + 1
    /\ LastStep \in Nat /\ LastStep >= OpenStep /\ Chunks < ManifestStep
    /\ 1..LastStep = 1..Chunks \cup {ManifestStep, WriteStep, OpenStep} \cup (OpenStep + 1)..LastStep
BY Numbers DEF ManifestStep, WriteStep, OpenStep, LastStep

\* The request of a save at each of its steps.
LEMMA RequestIs ==
    ASSUME NEW w
    PROVE  /\ \A n \in 1..Chunks : /\ Request(w, n) = <<"seal", ChunkRef(w, n)>>
                                   /\ Request(w, n)' = <<"seal", ChunkRef(w, n)'>>
           /\ Request(w, ManifestStep) = <<"seal", Manifest(w)>>
           /\ Request(w, ManifestStep)' = <<"seal", Manifest(w)'>>
           /\ Request(w, WriteStep) = <<"write", Row(w)>>
           /\ Request(w, WriteStep)' = <<"write", Row(w)'>>
           /\ Request(w, OpenStep) = <<"open", Manifest(w)>>
           /\ Request(w, OpenStep)' = <<"open", Manifest(w)'>>
           /\ \A n \in (OpenStep + 1)..LastStep :
                /\ Request(w, n) = <<"open", ChunkRef(w, n - OpenStep)>>
                /\ Request(w, n)' = <<"open", ChunkRef(w, n - OpenStep)'>>
<1>1. ASSUME NEW n \in 1..Chunks
      PROVE  /\ Request(w, n) = <<"seal", ChunkRef(w, n)>>
             /\ Request(w, n)' = <<"seal", ChunkRef(w, n)'>>
  <2>1. n # ManifestStep /\ n # WriteStep /\ n # OpenStep /\ ~(n > OpenStep)
    BY Steps, Numbers
  <2> QED
    BY Zenon, <2>1 DEF Request
<1>2. /\ Request(w, ManifestStep) = <<"seal", Manifest(w)>>
      /\ Request(w, ManifestStep)' = <<"seal", Manifest(w)'>>
  <2>1. /\ ManifestStep \notin 1..Chunks /\ ManifestStep # WriteStep /\ ManifestStep # OpenStep
        /\ ~(ManifestStep > OpenStep)
    BY Steps, Numbers
  <2> QED
    BY Zenon, <2>1 DEF Request
<1>3. /\ Request(w, WriteStep) = <<"write", Row(w)>>
      /\ Request(w, WriteStep)' = <<"write", Row(w)'>>
  <2>1. /\ WriteStep \notin 1..Chunks /\ WriteStep # ManifestStep /\ WriteStep # OpenStep
        /\ ~(WriteStep > OpenStep)
    BY Steps, Numbers
  <2> QED
    BY Zenon, <2>1 DEF Request, Row
<1>4. /\ Request(w, OpenStep) = <<"open", Manifest(w)>>
      /\ Request(w, OpenStep)' = <<"open", Manifest(w)'>>
  <2>1. /\ OpenStep \notin 1..Chunks /\ OpenStep # ManifestStep /\ OpenStep # WriteStep
        /\ ~(OpenStep > OpenStep)
    BY Steps, Numbers
  <2> QED
    BY Zenon, <2>1 DEF Request
<1>5. ASSUME NEW n \in (OpenStep + 1)..LastStep
      PROVE  /\ Request(w, n) = <<"open", ChunkRef(w, n - OpenStep)>>
             /\ Request(w, n)' = <<"open", ChunkRef(w, n - OpenStep)'>>
  <2>1. /\ n \notin 1..Chunks /\ n # ManifestStep /\ n # WriteStep /\ n # OpenStep
        /\ n > OpenStep
    BY Steps, Numbers
  <2> QED
    BY Zenon, <2>1 DEF Request
<1> QED
  BY <1>1, <1>2, <1>3, <1>4, <1>5

\* A save seals up to its manifest, then it writes, and it never deletes.
LEMMA Asks ==
    ASSUME NEW w
    PROVE  /\ \A n \in 1..LastStep :
                /\ Request(w, n)[1] \in {"seal", "write", "open"}
                /\ Request(w, n)[1] = "seal" <=> n \in 1..ManifestStep
                /\ Request(w, n)[1] = "write" <=> n = WriteStep
           /\ \A n \in 1..Chunks : Request(w, n)[2] = ChunkRef(w, n)
           /\ Request(w, ManifestStep)[2] = Manifest(w)
           /\ Request(w, WriteStep)[2] = Row(w)
<1>1. \A n \in 1..Chunks : n \in 1..ManifestStep /\ n # WriteStep
  BY Steps, Numbers
<1>2. ManifestStep \in 1..ManifestStep /\ ManifestStep # WriteStep /\ WriteStep \notin 1..ManifestStep
  BY Steps, Numbers
<1>3. OpenStep \notin 1..ManifestStep /\ OpenStep # WriteStep
  BY Steps
<1>4. \A n \in (OpenStep + 1)..LastStep : n \notin 1..ManifestStep /\ n # WriteStep
  BY Steps
<1> QED
  BY RequestIs, Steps, <1>1, <1>2, <1>3, <1>4

\* A step that keeps the snapshot of a save keeps its requests.
LEMMA SameRequests ==
    ASSUME NEW w, writer'[w].content = writer[w].content, writer'[w].ver = writer[w].ver
    PROVE  /\ \A n \in 1..LastStep : Request(w, n)' = Request(w, n)
           /\ Row(w)' = Row(w)
<1>1. Manifest(w)' = Manifest(w) /\ \A n : ChunkRef(w, n)' = ChunkRef(w, n)
  BY DEF Manifest, ChunkRef
<1>2. Row(w)' = Row(w)
  BY <1>1 DEF Row
<1>3. \A n \in 1..LastStep : Request(w, n)' = Request(w, n)
  <2>1. \A n \in 1..Chunks : Request(w, n)' = Request(w, n)
    BY <1>1, RequestIs
  <2>2. /\ Request(w, ManifestStep)' = Request(w, ManifestStep)
        /\ Request(w, WriteStep)' = Request(w, WriteStep)
        /\ Request(w, OpenStep)' = Request(w, OpenStep)
    BY <1>1, <1>2, RequestIs
  <2>3. \A n \in (OpenStep + 1)..LastStep : Request(w, n)' = Request(w, n)
    BY <1>1, RequestIs
  <2> QED
    BY <2>1, <2>2, <2>3, Steps
<1> QED
  BY <1>2, <1>3

\* The row a save writes refers to what it has sealed.
LEMMA RowRefers ==
    ASSUME Laid, NEW w \in Writers, writer[w].st = "run"
    PROVE  /\ \A n \in 1..ManifestStep : Request(w, n)[2].id \in 1..Top
           /\ \A ref \in SnapshotRefs(Row(w).man) :
                \E n \in 1..ManifestStep : ref = Request(w, n)[2]
<1>1. PICK ver \in 1..MaxVersion : ver = writer[w].ver
  BY Numbers DEF Laid
<1>2. \A i \in Index : /\ RecordId(w, ver, i) \in 1..Top
                       /\ RecordId(w, ver, i) = RecordId(w, ver, 0) + i
  BY RecordIds
<1>3. 0 \in Index /\ \A i \in 1..Chunks : i \in Index
  BY Numbers DEF Index
<1>4. Manifest(w).id = RecordId(w, ver, 0) /\ Manifest(w).content = writer[w].content
  BY <1>1 DEF Manifest, Ref
<1>5. \A i \in 1..Chunks : /\ ChunkRef(w, i).id = RecordId(w, ver, i)
                           /\ ChunkRef(w, i) = Ref(Manifest(w).id + i, <<Manifest(w).content[i]>>)
  <2> SUFFICES ASSUME NEW i \in 1..Chunks
               PROVE  /\ ChunkRef(w, i).id = RecordId(w, ver, i)
                      /\ ChunkRef(w, i) = Ref(Manifest(w).id + i, <<Manifest(w).content[i]>>)
    OBVIOUS
  <2>1. ChunkRef(w, i) = Ref(RecordId(w, ver, i), <<writer[w].content[i]>>)
    BY <1>1 DEF ChunkRef
  <2>2. RecordId(w, ver, i) = Manifest(w).id + i
    BY <1>2, <1>3, <1>4
  <2> QED
    BY <1>4, <2>1, <2>2 DEF Ref
<1>6. 1..ManifestStep = 1..Chunks \cup {ManifestStep}
  BY Numbers DEF ManifestStep
<1>7. \A n \in 1..ManifestStep : Request(w, n)[2].id \in 1..Top
  <2>1. \A n \in 1..Chunks : Request(w, n)[2].id = RecordId(w, ver, n)
    BY <1>5, Asks
  <2>2. Request(w, ManifestStep)[2].id = RecordId(w, ver, 0)
    BY <1>4, Asks
  <2> QED
    BY <1>2, <1>3, <1>6, <2>1, <2>2
<1>8. Row(w).man = Manifest(w)
  BY DEF Row
<1>9. \A ref \in SnapshotRefs(Manifest(w)) :
        ref = Manifest(w) \/ \E i \in 1..Chunks : ref = ChunkRef(w, i)
  BY <1>5 DEF SnapshotRefs, ChunkRefs
<1> QED
  BY <1>6, <1>7, <1>8, <1>9, Asks

----------------------------------------------------------------------------
(* The answers of the host *)

\* The answer of the host to a request of each kind.
LEMMA Answers ==
    ASSUME NEW q
    PROVE  /\ q.kind = "seal" =>
                Answer(q) = IF SealAccepts(q.arg) THEN Ok(NoRef) ELSE Error
           /\ q.kind = "write" =>
                Answer(q) = IF WriteAccepts(q.arg) THEN Ok(q.arg.man) ELSE Error
           /\ q.kind = "get" =>
                Answer(q) = Ok(IF hist = <<>> THEN NoRef ELSE hist[Len(hist)].man)
           /\ q.kind = "open" => Answer(q) = IF Stored(q.arg) THEN Ok(q.arg) ELSE Error
           /\ q.kind = "list" => Answer(q) = Ok(InventoryPage(q.arg.cut, q.arg.cursor))
           /\ q.kind = "refs" => Answer(q) = Ok(ReferencePage(q.arg.cursor))
           /\ q.kind = "delete" => Answer(q) = Ok(NoRef)
BY Zenon DEF Answer

\* The host answers every request.
LEMMA AnswerStatus ==
    ASSUME NEW q, q.kind \in Kinds
    PROVE  Answer(q).st \in {"ok", "err"}
BY Answers DEF Kinds, Ok, Error

----------------------------------------------------------------------------
(* What the steps of an actor leave alone *)

\* A collection reads on: its requests, its answer and the rows are as before.
LEMMA ScanningStays ==
    ASSUME Scanning, gc' = gc, Mans' = Mans, \A S, n : Covered(S, n)' <=> Covered(S, n),
           reply'[Gc].st = "ok" => reply'[Gc] = reply[Gc],
           \A i \in Requests' : pipe'[i].from = Gc =>
              \E j \in Requests : pipe[j].from = Gc /\ pipe'[i].arg = pipe[j].arg
    PROVE  Scanning'
<1> SUFFICES ASSUME gc.st = "refs"
             PROVE  /\ \A i \in Requests' : pipe'[i].from = Gc =>
                         /\ pipe'[i].arg.cursor \in Nat
                         /\ Covered(gc.refs, pipe[i].arg.cursor)'
                    /\ reply'[Gc].st = "ok" =>
                         /\ reply'[Gc].val.next = 0 => Mans' \subseteq gc'.refs \cup reply'[Gc].val.refs
                         /\ reply'[Gc].val.next # 0 =>
                              /\ reply'[Gc].val.next \in Nat
                              /\ Covered(gc.refs \cup reply[Gc].val.refs, reply[Gc].val.next)'
  BY DEF Scanning
<1>1. ASSUME NEW i \in Requests', pipe'[i].from = Gc
      PROVE  pipe'[i].arg.cursor \in Nat /\ Covered(gc.refs, pipe[i].arg.cursor)'
  <2>1. PICK j \in Requests : pipe[j].from = Gc /\ pipe'[i].arg = pipe[j].arg
    BY <1>1
  <2>2. PICK c : c = pipe[j].arg.cursor
    OBVIOUS
  <2>3. c \in Nat /\ Covered(gc.refs, c)
    BY <2>1, <2>2 DEF Scanning
  <2>4. Covered(gc.refs, c)'
    BY <2>3 DEF Covered
  <2> QED
    BY <2>1, <2>2, <2>3, <2>4 DEF Covered
<1>2. ASSUME reply'[Gc].st = "ok"
      PROVE  /\ reply'[Gc].val.next = 0 => Mans' \subseteq gc'.refs \cup reply'[Gc].val.refs
             /\ reply'[Gc].val.next # 0 =>
                  /\ reply'[Gc].val.next \in Nat
                  /\ Covered(gc.refs \cup reply[Gc].val.refs, reply[Gc].val.next)'
  <2>1. reply'[Gc] = reply[Gc]
    BY <1>2
  <2>2. PICK page : page = reply[Gc].val
    OBVIOUS
  <2>3. /\ page.next = 0 => Mans \subseteq gc.refs \cup page.refs
        /\ page.next # 0 => page.next \in Nat /\ Covered(gc.refs \cup page.refs, page.next)
    BY <1>2, <2>1, <2>2 DEF Scanning
  <2>4. page.next # 0 => Covered(gc.refs \cup page.refs, page.next)'
    BY <2>3 DEF Covered
  <2> QED
    BY <2>1, <2>2, <2>3, <2>4 DEF Covered
<1> QED
  BY <1>1, <1>2

\* What is stored stays stored.
StoredKept == \A ref : Stored(ref) => Stored(ref)'
\* The pipe stays, or grows by a request of one actor.
Grown(a, kinds) ==
    \A i \in Requests' :
        \/ i \in Requests /\ pipe'[i] = pipe[i]
        \/ i = Len(pipe) + 1 /\ pipe'[i].from = a /\ pipe'[i].kind \in kinds
\* The replies of the others stay.
Alone(a) ==
    /\ DOMAIN reply' = Actors
    /\ \A b \in Actors : b # a => reply'[b] = reply[b]
    /\ \A i \in Requests : pipe[i].from # a /\ i < Len(pipe) + 1 /\ i # Len(pipe) + 1

\* What Sent says, in the terms of the lemmas below.
LEMMA SendGrows ==
    ASSUME Piped, Laid, Pending, NEW a \in Actors, reply[a].st # "wait", NEW kind \in Kinds,
           NEW arg, Send(a, kind, arg), kind = "seal" => arg.id \in 1..Top
    PROVE  /\ Piped' /\ Pending' /\ Alone(a) /\ Grown(a, {kind}) /\ reply'[a].st = "wait"
           /\ \A i \in Requests' : i \notin Requests => pipe'[i].arg = arg
<1> DEFINE q == [kind |-> kind, from |-> a, arg |-> arg]
<1>1. /\ Longer(pipe, pipe', q) /\ Piped' /\ Pending'
      /\ \A i \in Requests : pipe[i].from # a
      /\ reply'[a].st = "wait" /\ DOMAIN reply' = Actors
      /\ \A b \in Actors : b # a => reply'[b] = reply[b]
  BY Sent
<1>2. q.from = a /\ q.kind = kind /\ q.arg = arg
  OBVIOUS
<1> HIDE DEF q
<1> QED
  BY <1>1, <1>2 DEF Longer, Alone, Grown, Requests

\* What NotSent says, in the terms of the lemmas below.
LEMMA StopGrows ==
    ASSUME Piped, Laid, Pending, NEW a \in Actors, reply[a].st # "wait", NoSend(a)
    PROVE  /\ Piped' /\ Pending' /\ Alone(a) /\ Grown(a, {}) /\ reply'[a].st = "idle"
           /\ pipe' = pipe
<1>1. Len(pipe) \in Nat
  BY LenProperties DEF Piped
<1> QED
  BY <1>1, NotSent DEF Alone, Grown, Requests

\* A bound on the kinds that are sent can be weakened.
LEMMA Wider ==
    ASSUME NEW a, NEW K, NEW L, Grown(a, K), K \subseteq L
    PROVE  Grown(a, L)
BY DEF Grown

\* A save whose request is awaited has the lease.
LEMMA SaveAsks ==
    ASSUME VaultInv, NEW i \in Requests, pipe[i].from \in Writers
    PROVE  /\ writer[pipe[i].from].st = "run" /\ writer[pipe[i].from].step > 0
           /\ Holds(pipe[i].from)
<1>1. PICK w \in Writers : w = pipe[i].from
  OBVIOUS
<1>2. reply[w].st = "wait"
  BY <1>1, ActorFacts DEF VaultInv, Pending
<1>3. writer[w].st = "run" /\ writer[w].step # 0 /\ writer[w].step \in 0..LastStep
  BY <1>2 DEF VaultInv, Idling, Laid
<1>4. writer[w].step > 0
  BY <1>3, Steps
<1> QED
  BY <1>1, <1>3, <1>4 DEF VaultInv, Leased

\* A collection whose request is awaited has the lease.
LEMMA CollectionAsks ==
    ASSUME VaultInv, NEW i \in Requests, pipe[i].from = Gc
    PROVE  gc.st \in Working /\ Holds(Gc)
<1>1. reply[Gc].st = "wait"
  BY ActorFacts DEF VaultInv, Pending
<1>2. gc.st \in Working
  BY <1>1 DEF VaultInv, Idling, VaultTypeOK, Working
<1> QED
  BY <1>2 DEF VaultInv, Leased

\* A save that was answered once has the lease.
LEMMA PastFacts ==
    ASSUME VaultInv, NEW w \in Writers
    PROVE  /\ writer[w].step \in Nat /\ Past(w) \in Int
           /\ Past(w) <= writer[w].step /\ writer[w].step <= Past(w) + 1
           /\ writer[w].st = "run" /\ Past(w) > 0 => Holds(w)
<1>1. writer[w].step \in Nat
  BY Steps DEF VaultInv, Laid
<1>2. /\ Past(w) \in Int /\ Past(w) <= writer[w].step /\ writer[w].step <= Past(w) + 1
  BY <1>1 DEF Past
<1>3. writer[w].st = "run" /\ Past(w) > 0 => Holds(w)
  BY <1>1, <1>2 DEF VaultInv, Leased
<1> QED
  BY <1>1, <1>2, <1>3

\* What the rows refer to changes with the rows only.
LEMMA Referenced ==
    ASSUME UNCHANGED hist
    PROVE  /\ Mans' = Mans /\ Rows' = Rows /\ \A S, n : Covered(S, n)' <=> Covered(S, n)
           /\ \A row : Done(row)' <=> Done(row)
<1>1. Mans' = Mans /\ Rows' = Rows
  BY DEF Mans, Rows
<1>2. \A row : Done(row)' <=> Done(row)
  BY DEF Done
<1>3. \A S, n : Covered(S, n)' <=> Covered(S, n)
  BY <1>1 DEF Covered
<1> QED
  BY <1>1, <1>2, <1>3

\* A request is the one of its caller's step as long as the caller does not go on.
LEMMA AskedSave ==
    ASSUME VaultInv, NEW w \in Writers, writer'[w] = writer[w],
           NEW i, NEW j \in Requests, pipe[j].from = w,
           pipe'[i].kind = pipe[j].kind, pipe'[i].arg = pipe[j].arg
    PROVE  /\ pipe'[i].kind = Request(w, writer[w].step)'[1]
           /\ pipe'[i].arg = Request(w, writer[w].step)'[2]
<1>1. writer[w].step > 0 /\ writer[w].step \in 0..LastStep
  BY SaveAsks DEF VaultInv, Laid
<1>2. PICK n \in 1..LastStep : n = writer[w].step
  BY <1>1, Steps
<1>3. Request(w, writer[w].step)' = Request(w, n)
  BY <1>2, SameRequests
<1> QED
  BY <1>2, <1>3 DEF VaultInv, Asked

\* What a save has sealed stays stored, while the save does not go on.
LEMMA SealedSave ==
    ASSUME VaultInv, NEW w \in Writers, StoredKept, \A row : Done(row) => Done(row)',
           writer'[w].content = writer[w].content, writer'[w].ver = writer[w].ver,
           writer[w].st = "run", Past(w)' <= Past(w), Past(w)' \in Int
    PROVE  /\ \A n \in 1..ManifestStep : n <= Past(w)' => Stored(Request(w, n)[2])'
           /\ Past(w)' >= WriteStep => Done(Row(w))'
<1>1. Past(w) \in Int /\ 1..ManifestStep \subseteq 1..LastStep
  BY PastFacts, Steps
<1>2. Row(w)' = Row(w) /\ \A n \in 1..ManifestStep : Request(w, n)' = Request(w, n)
  BY <1>1, SameRequests
<1>3. Past(w)' >= WriteStep => Done(Row(w))'
  <2>1. Past(w)' >= WriteStep => Past(w) >= WriteStep
    BY <1>1, Steps
  <2>2. Past(w) >= WriteStep => Done(Row(w))
    BY DEF VaultInv, Sealing
  <2>3. Done(Row(w)) => Done(Row(w))'
    <3>1. PICK row : row = Row(w)
      OBVIOUS
    <3> QED
      BY <1>2, <3>1 DEF Done
  <2> QED
    BY <2>1, <2>2, <2>3
<1>4. ASSUME NEW n \in 1..ManifestStep, n <= Past(w)'
      PROVE  Stored(Request(w, n)[2])'
  <2>1. n <= Past(w)
    BY <1>1, <1>4
  <2>2. Stored(Request(w, n)[2])
    BY <2>1 DEF VaultInv, Sealing
  <2>3. PICK ref : ref = Request(w, n)[2]
    OBVIOUS
  <2>4. ref = Request(w, n)'[2]
    BY <1>2, <2>3
  <2>5. Stored(ref)'
    BY <2>2, <2>3 DEF StoredKept
  <2> QED
    BY <2>4, <2>5 DEF Stored
<1> QED
  BY <1>3, <1>4

\* The reader.
LEMMA ReaderFrame ==
    ASSUME VaultInv, Grown(Reader, {"get", "open"}), Alone(Reader),
           UNCHANGED <<vault, hist, lease, writer, gc>>
    PROVE  /\ Leased' /\ Asked' /\ DeletesFirst' /\ Sealing'
           /\ NoWrites' /\ Scanning' /\ Keeping'
           /\ ReferencedIsStored' /\ FinishedIsWritten'
<1>1. /\ \A b \in Actors : b # Reader => reply'[b] = reply[b]
      /\ \A i \in Requests' :
           \/ i \in Requests /\ pipe'[i] = pipe[i]
           \/ /\ i = Len(pipe) + 1 /\ pipe'[i].from = Reader
              /\ pipe'[i].kind \notin {"write", "delete", "refs", "seal"}
  BY DEF Grown, Alone
<1>2. \A w \in Writers : reply'[w] = reply[w] /\ Past(w)' = Past(w)
  BY <1>1, ActorFacts DEF Past
<1>3. \A w \in Writers : Row(w)' = Row(w) /\ \A n \in 1..LastStep : Request(w, n)' = Request(w, n)
  BY SameRequests
<1>4. reply'[Gc] = reply[Gc]
  BY <1>1, ActorFacts
<1>5. Leased'
  BY DEF VaultInv, Leased, Holds
<1>6. Asked'
  <2>1. \A i \in Requests' : (i \in Requests /\ pipe'[i] = pipe[i]) \/ pipe'[i].from = Reader
    BY <1>1
  <2>2. ASSUME NEW i \in Requests', NEW w \in Writers, pipe'[i].from = w
        PROVE  /\ pipe'[i].kind = Request(w, writer[w].step)'[1]
               /\ pipe'[i].arg = Request(w, writer[w].step)'[2]
    <3>1. i \in Requests /\ pipe'[i] = pipe[i]
      BY <2>1, <2>2, ActorFacts
    <3> QED
      BY <2>2, <3>1, AskedSave
  <2>3. \A i \in Requests' : pipe'[i].from = Gc /\ gc'.st = "refs" => pipe'[i].kind = "refs"
    BY <2>1, ActorFacts DEF VaultInv, Asked
  <2> QED
    BY <2>2, <2>3 DEF Asked
<1>7. DeletesFirst'
  <2>1. \A i, j \in Requests' : pipe'[i].kind = "write" => pipe'[j].kind # "delete"
    BY <1>1 DEF VaultInv, DeletesFirst
  <2>2. \A i, j \in Requests' : pipe'[i].from \in Writers /\ i < j => pipe'[j].kind # "delete"
    BY <1>1, ActorFacts DEF VaultInv, DeletesFirst
  <2>3. \A w \in Writers : writer'[w].st = "run" /\ Past(w)' > 0 =>
          \A j \in Requests' : pipe'[j].kind # "delete"
    BY <1>1, <1>2 DEF VaultInv, DeletesFirst
  <2> QED
    BY <2>1, <2>2, <2>3 DEF DeletesFirst
<1>8. StoredKept /\ \A row : Done(row)' <=> Done(row)
  BY Referenced DEF StoredKept, Stored
<1>9. Sealing'
  <2>1. \A i \in Requests' : pipe'[i].kind = "write" =>
          \A ref \in SnapshotRefs(pipe'[i].arg.man) : Stored(ref)'
    BY <1>1, <1>8 DEF VaultInv, Sealing, StoredKept
  <2>2. \A w \in Writers : writer'[w].st = "run" =>
          /\ \A n \in 1..ManifestStep : n <= Past(w)' => Stored(Request(w, n)[2])'
          /\ Past(w)' >= WriteStep => Done(Row(w))'
    <3> SUFFICES ASSUME NEW w \in Writers, writer'[w].st = "run"
                 PROVE  /\ \A n \in 1..ManifestStep : n <= Past(w)' => Stored(Request(w, n)[2])'
                        /\ Past(w)' >= WriteStep => Done(Row(w))'
      OBVIOUS
    <3>1. Past(w)' <= Past(w) /\ Past(w)' \in Int
      BY <1>2, PastFacts
    <3> QED
      BY <1>8, <3>1, SealedSave
  <2> QED
    BY <2>1, <2>2 DEF Sealing
<1>10. NoWrites'
  BY <1>1, <1>4, ActorFacts DEF VaultInv, NoWrites
<1>11. Mans' = Mans /\ \A S, n : Covered(S, n)' <=> Covered(S, n)
  BY Referenced
<1>12. Scanning'
  <2>1. \A i \in Requests' : pipe'[i].from = Gc =>
          \E j \in Requests : pipe[j].from = Gc /\ pipe'[i].arg = pipe[j].arg
    BY <1>1, ActorFacts
  <2> QED
    BY <1>4, <1>11, <2>1, ScanningStays DEF VaultInv
<1>13. Keeping'
  BY <1>1, <1>4, <1>11 DEF VaultInv, Keeping
<1>14. ReferencedIsStored'
  BY <1>8 DEF VaultInv, ReferencedIsStored, StoredKept
<1>15. FinishedIsWritten'
  BY DEF VaultInv, FinishedIsWritten, Manifest
<1> QED
  BY <1>5, <1>6, <1>7, <1>9, <1>10, <1>12, <1>13, <1>14, <1>15

\* A save, while it has the lease.
LEMMA WriterFrame ==
    ASSUME VaultInv, NEW w \in Writers, Holds(w), Grown(w, {"seal", "write", "open"}), Alone(w),
           UNCHANGED <<vault, hist, gc, reader>>
    PROVE  NoWrites' /\ Scanning' /\ Keeping' /\ Reading' /\ ReferencedIsStored'
<1>1. /\ \A b \in Actors : b # w => reply'[b] = reply[b]
      /\ \A i \in Requests' :
           \/ i \in Requests /\ pipe'[i] = pipe[i]
           \/ i = Len(pipe) + 1 /\ pipe'[i].from = w /\ pipe'[i].kind # "delete"
  BY DEF Grown, Alone
<1>2. w # Gc /\ w # Reader /\ reply'[Gc] = reply[Gc] /\ reply'[Reader] = reply[Reader]
  BY <1>1, ActorFacts
<1>3. gc.st \notin Working /\ \A i \in Requests : pipe[i].from # Gc
  BY <1>2, OneHolder, CollectionAsks DEF VaultInv, Leased
<1>4. \A i \in Requests' : pipe'[i].from # Gc
  BY <1>1, <1>2, <1>3
<1>5. NoWrites' /\ Scanning'
  BY <1>3, <1>4 DEF NoWrites, Scanning, Working
<1>6. Mans' = Mans
  BY Referenced
<1>7. Keeping'
  BY <1>1, <1>3, <1>6 DEF Keeping, VaultInv, Working
<1>8. Reading'
  BY <1>1, <1>2, <1>6 DEF Reading, VaultInv
<1>9. ReferencedIsStored'
  BY DEF VaultInv, ReferencedIsStored, Stored
<1> QED
  BY <1>5, <1>7, <1>8, <1>9

\* The collection, while it has the lease.
LEMMA CollectorFrame ==
    ASSUME VaultInv, Holds(Gc), Grown(Gc, GcKinds), Alone(Gc),
           UNCHANGED <<vault, hist, writer, reader>>,
           \A i \in Requests' : pipe'[i].from = Gc /\ gc'.st = "refs" => pipe'[i].kind = "refs",
           reply'[Gc].st # "ok",
           gc'.st \in {"refs", "inspect", "delete"} \/ Grown(Gc, {"list"}),
           gc'.st \in {"refs", "inspect", "delete"} => \A j \in Requests : pipe[j].kind # "write"
    PROVE  /\ Asked' /\ DeletesFirst' /\ Sealing' /\ NoWrites' /\ Reading'
           /\ ReferencedIsStored' /\ FinishedIsWritten'
<1>1. /\ \A b \in Actors : b # Gc => reply'[b] = reply[b]
      /\ \A i \in Requests' :
           \/ i \in Requests /\ pipe'[i] = pipe[i]
           \/ i = Len(pipe) + 1 /\ pipe'[i].from = Gc /\ pipe'[i].kind \notin {"write", "seal", "get"}
  BY DEF Grown, Alone, GcKinds
<1>2. \A w \in Writers : reply'[w] = reply[w] /\ Past(w)' = Past(w)
  BY <1>1, ActorFacts DEF Past
<1>3. reply'[Reader] = reply[Reader] /\ Gc # Reader /\ Gc \notin Writers
  BY <1>1, ActorFacts
<1>4. /\ \A i \in Requests : pipe[i].from \notin Writers
      /\ \A w \in Writers : writer[w].st = "run" => ~(Past(w) > 0)
  BY <1>3, OneHolder, SaveAsks, PastFacts
<1>5. Asked'
  BY <1>1, <1>3, <1>4 DEF Asked
<1>6. DeletesFirst'
  <2>1. \A i, j \in Requests' : pipe'[i].kind = "write" => pipe'[j].kind # "delete"
    <3> SUFFICES ASSUME NEW i \in Requests', NEW j \in Requests', pipe'[i].kind = "write",
                        pipe'[j].kind = "delete"
                 PROVE  FALSE
      OBVIOUS
    <3>1. i \in Requests /\ pipe'[i] = pipe[i]
      BY <1>1
    <3>2. j \notin Requests
      BY <1>1, <3>1 DEF VaultInv, DeletesFirst, Alone
    <3>3. ~Grown(Gc, {"list"})
      BY <3>2 DEF Grown, Requests
    <3> QED
      BY <3>1, <3>3
  <2>2. \A i, j \in Requests' : pipe'[i].from \in Writers /\ i < j => pipe'[j].kind # "delete"
    BY <1>1, <1>3, <1>4
  <2>3. \A w \in Writers : writer'[w].st = "run" /\ Past(w)' > 0 =>
          \A j \in Requests' : pipe'[j].kind # "delete"
    BY <1>2, <1>4
  <2> QED
    BY <2>1, <2>2, <2>3 DEF DeletesFirst
<1>8. StoredKept /\ \A row : Done(row)' <=> Done(row)
  BY Referenced DEF StoredKept, Stored
<1>9. Sealing'
  <2>1. \A i \in Requests' : pipe'[i].kind = "write" =>
          \A ref \in SnapshotRefs(pipe'[i].arg.man) : Stored(ref)'
    BY <1>1, <1>8 DEF VaultInv, Sealing, StoredKept
  <2>2. \A w \in Writers : writer'[w].st = "run" =>
          /\ \A n \in 1..ManifestStep : n <= Past(w)' => Stored(Request(w, n)[2])'
          /\ Past(w)' >= WriteStep => Done(Row(w))'
    <3> SUFFICES ASSUME NEW w \in Writers, writer'[w].st = "run"
                 PROVE  /\ \A n \in 1..ManifestStep : n <= Past(w)' => Stored(Request(w, n)[2])'
                        /\ Past(w)' >= WriteStep => Done(Row(w))'
      OBVIOUS
    <3>1. Past(w)' <= Past(w) /\ Past(w)' \in Int
      BY <1>2, PastFacts
    <3> QED
      BY <1>8, <3>1, SealedSave
  <2> QED
    BY <2>1, <2>2 DEF Sealing
<1>10. NoWrites'
  <2>1. \A i, j \in Requests' : pipe'[i].from = Gc /\ i < j => pipe'[j].kind # "write"
    <3>1. \A i, j \in Requests' : pipe'[i].from = Gc /\ i < j => j \notin Requests
      <4>1. Len(pipe) \in Nat
        BY LenProperties DEF VaultInv, Piped
      <4>2. \A i \in Requests' : pipe'[i].from = Gc => i = Len(pipe) + 1
        BY <1>1 DEF Alone
      <4> QED
        BY <4>1, <4>2 DEF Requests
    <3> QED
      BY <1>1, <3>1
  <2> QED
    BY <1>1, <2>1 DEF NoWrites
<1>11. Mans' = Mans
  BY Referenced
<1>12. Reading'
  BY <1>1, <1>3, <1>11 DEF Reading, VaultInv
<1>14. ReferencedIsStored'
  BY <1>8 DEF VaultInv, ReferencedIsStored, StoredKept
<1>15. FinishedIsWritten'
  BY DEF VaultInv, FinishedIsWritten, Manifest
<1> QED
  BY <1>5, <1>6, <1>9, <1>10, <1>12, <1>14, <1>15

----------------------------------------------------------------------------
(* The reader *)

\* What the steps of the reader have in common.
LEMMA ReaderGoesOn ==
    ASSUME VaultInv, Piped', Pending', Grown(Reader, {"get", "open"}), Alone(Reader),
           reply'[Reader].st \in {"wait", "idle"},
           UNCHANGED <<vault, hist, lease, writer, gc>>,
           DOMAIN used' = DOMAIN used, used'.timeouts = used.timeouts,
           DOMAIN reader' = DOMAIN reader, reader'.st \in {"idle", "row", "open"},
           reply'[Reader].st = "idle" <=> reader'.st = "idle",
           Reading'
    PROVE  VaultInv'
<1>1. /\ Leased' /\ Asked' /\ DeletesFirst' /\ Sealing'
      /\ NoWrites' /\ Scanning' /\ Keeping'
      /\ ReferencedIsStored' /\ FinishedIsWritten'
  BY ReaderFrame
<1>2. \A b \in Actors : b # Reader => reply'[b] = reply[b]
  BY DEF Alone
<1>3. Laid'
  BY DEF VaultInv, Laid, Alone, Entries
<1>4. Idling'
  BY <1>2, ActorFacts DEF VaultInv, Idling
<1>5. VaultTypeOK'
  BY <1>2 DEF VaultInv, VaultTypeOK
<1> QED
  BY <1>1, <1>3, <1>4, <1>5 DEF VaultInv

\* A call of getPlan asks for the plan.
LEMMA ReadBeginKeeps ==
    ASSUME VaultInv, ReadBegin
    PROVE  VaultInv'
<1>1. reply[Reader].st # "wait" /\ Piped /\ Laid /\ Pending
  BY DEF ReadBegin, VaultInv, Idling
<1>2. /\ Piped' /\ Pending' /\ Alone(Reader) /\ Grown(Reader, {"get"})
      /\ reply'[Reader].st = "wait"
  BY <1>1, SendGrows, ActorFacts DEF ReadBegin, Kinds
<1>3. reader' = [st |-> "row", man |-> NoRef, next |-> 0]
  BY DEF ReadBegin
<1>4. Reading'
  BY <1>2, <1>3, Numbers DEF Reading, Grown, Alone
<1>5. DOMAIN used' = DOMAIN used /\ used'.timeouts = used.timeouts
  BY <1>1 DEF ReadBegin, Laid
<1>6. Grown(Reader, {"get", "open"})
  BY <1>2, Wider
<1> QED
  BY <1>1, <1>2, <1>3, <1>4, <1>5, <1>6, ReaderGoesOn DEF ReadBegin, Laid

\* The end of a call of getPlan.
LEMMA ReadEnds ==
    ASSUME VaultInv, reader.st \in {"row", "open"}, reply[Reader].st \in {"ok", "err"},
           NoSend(Reader), reader' = [st |-> "idle", man |-> NoRef, next |-> 0],
           UNCHANGED <<vault, hist, lease, writer, gc, used>>
    PROVE  VaultInv'
<1>1. reply[Reader].st # "wait" /\ Piped /\ Laid /\ Pending
  BY DEF VaultInv
<1>2. /\ Piped' /\ Pending' /\ Alone(Reader) /\ Grown(Reader, {}) /\ pipe' = pipe
      /\ reply'[Reader].st = "idle"
  BY <1>1, StopGrows, ActorFacts
<1>4. Reading'
  BY <1>2, Numbers DEF Reading, Alone, Grown
<1>6. Grown(Reader, {"get", "open"})
  BY <1>2, Wider
<1> QED
  BY <1>1, <1>2, <1>4, <1>6, ReaderGoesOn DEF Laid

\* A reader goes on to open what its row refers to.
LEMMA ReadStepKeeps ==
    ASSUME VaultInv, ReadStep
    PROVE  VaultInv'
<1> DEFINE man == IF reader.st = "row" THEN reply[Reader].val ELSE reader.man
           arg == IF reader.next = 0 THEN man
                  ELSE Ref(man.id + reader.next, <<man.content[reader.next]>>)
<1>1. CASE man = NoRef \/ reader.next > Chunks
  BY <1>1, ReadEnds DEF ReadStep
<1>2. CASE ~(man = NoRef \/ reader.next > Chunks)
  <2>1. /\ reader' = [st |-> "open", man |-> man, next |-> reader.next + 1]
        /\ Send(Reader, "open", arg)
    BY <1>2 DEF ReadStep
  <2>2. man \in Mans
    BY <1>2 DEF ReadStep, VaultInv, Reading
  <2>3. reader.next \in Nat /\ reader.next <= Chunks
    BY <1>2, Numbers DEF VaultInv, Reading
  <2>4. arg \in SnapshotRefs(man)
    BY <2>3, Numbers DEF SnapshotRefs, ChunkRefs
  <2> HIDE DEF man, arg
  <2>5. reply[Reader].st # "wait" /\ Piped /\ Laid /\ Pending
    BY DEF ReadStep, VaultInv
  <2>6. /\ Piped' /\ Pending' /\ Alone(Reader) /\ Grown(Reader, {"open"})
        /\ reply'[Reader].st = "wait"
        /\ \A i \in Requests' : i \notin Requests => pipe'[i].arg = arg
    BY <2>1, <2>5, SendGrows, ActorFacts DEF Kinds
  <2>7. Mans' = Mans
    BY Referenced DEF ReadStep
  <2>8. Reading'
    <3>1. /\ reader'.st = "open" /\ reader'.man = man /\ reader'.next = reader.next + 1
      BY <2>1
    <3>2. \A i \in Requests' : pipe'[i].from = Reader =>
            pipe'[i].kind = "open" /\ pipe'[i].arg \in SnapshotRefs(man)
      BY <2>4, <2>6 DEF Grown, Alone
    <3> QED
      BY <2>2, <2>3, <2>7, <3>1, <3>2, Numbers DEF Reading
  <2>9. Grown(Reader, {"get", "open"})
    BY <2>6, Wider
  <2> QED
    BY <2>1, <2>5, <2>6, <2>8, <2>9, ReaderGoesOn DEF ReadStep, Laid
<1> QED
  BY <1>1, <1>2

\* A reader whose request failed gives up.
LEMMA ReadFailsKeeps ==
    ASSUME VaultInv, ReadFails
    PROVE  VaultInv'
BY ReadEnds DEF ReadFails

----------------------------------------------------------------------------
(* A save *)

\* A save asks for the lease.
LEMMA SaveBeginKeeps ==
    ASSUME VaultInv, NEW w \in Writers, SaveBegin(w)
    PROVE  VaultInv'
<1>1. PICK content \in Content :
        writer' = [writer EXCEPT ![w] = [st |-> "run", step |-> 0, content |-> content,
                                         ver |-> IF Len(hist) < MaxVersion
                                                 THEN Len(hist) + 1 ELSE MaxVersion]]
  BY DEF SaveBegin, Content
<1>2. PICK ver \in 1..MaxVersion :
        writer' = [writer EXCEPT ![w] = [st |-> "run", step |-> 0, content |-> content,
                                         ver |-> ver]]
  <2>1. Len(hist) \in Nat
    BY LenProperties DEF VaultInv, Laid
  <2>2. (IF Len(hist) < MaxVersion THEN Len(hist) + 1 ELSE MaxVersion) \in 1..MaxVersion
    BY <2>1, Numbers
  <2> QED
    BY <1>1, <2>2
<1>3. /\ writer'[w].st = "run" /\ writer'[w].step = 0 /\ writer'[w].content = content
      /\ writer'[w].ver = ver
      /\ \A v \in Writers : v # w => writer'[v] = writer[v]
      /\ writer' \in [Writers -> [st : {"idle", "run", "done", "failed"}, step : 0..LastStep,
                                  content : Content \cup {<<>>}, ver : 0..MaxVersion]]
  BY <1>2, Steps, Numbers DEF VaultInv, Laid
<1>4. writer[w].st # "run" /\ reply[w].st = "idle"
  BY DEF SaveBegin, VaultInv, Idling
<1>5. \A i \in Requests : pipe[i].from # w
  BY <1>4, SaveAsks
<1>6. UNCHANGED <<vault, hist, pipe, reply, gc, reader>> /\ Requests' = Requests
  BY DEF SaveBegin, Requests
<1>7. Piped' /\ Pending'
  BY <1>6 DEF VaultInv, Piped, Pending, Entries, Top
<1>8. Laid'
  BY <1>3, <1>6 DEF VaultInv, Laid, SaveBegin, Entries
<1>9. Idling'
  BY <1>3, <1>4, <1>6 DEF VaultInv, Idling
<1>10. Leased'
  <2>1. \A i \in 1..Len(lease) : lease[i] # w
    BY <1>4 DEF VaultInv, Leased
  <2>2. /\ lease' \in Seq(Writers \cup {Gc})
        /\ \A i, j \in 1..Len(lease') : lease'[i] = lease'[j] => i = j
        /\ \A i \in 1..Len(lease') : lease'[i] = w \/ \E j \in 1..Len(lease) : lease'[i] = lease[j]
        /\ \A b : Holds(b) => Holds(b)'
    BY <2>1, Acquired DEF SaveBegin, VaultInv
  <2>3. \A i \in 1..Len(lease') : lease'[i] \in Writers => writer'[lease'[i]].st = "run"
    BY <1>3, <2>2 DEF VaultInv, Leased
  <2>4. \A i \in 1..Len(lease') : lease'[i] = Gc => gc'.st # "idle"
    BY <1>6, <2>2, ActorFacts DEF VaultInv, Leased
  <2>5. \A v \in Writers : writer'[v].st = "run" /\ writer'[v].step > 0 => Holds(v)'
    BY <1>3, <2>2 DEF VaultInv, Leased
  <2>6. gc'.st \in Working => Holds(Gc)'
    BY <1>6, <2>2 DEF VaultInv, Leased
  <2> QED
    BY <2>2, <2>3, <2>4, <2>5, <2>6 DEF Leased
<1>11. Asked'
  <2>1. ASSUME NEW i \in Requests, NEW v \in Writers, pipe[i].from = v
        PROVE  /\ pipe'[i].kind = Request(v, writer[v].step)'[1]
               /\ pipe'[i].arg = Request(v, writer[v].step)'[2]
    BY <1>3, <1>5, <1>6, <2>1, AskedSave, ZenonT(60)
  <2> QED
    BY <1>6, <2>1 DEF Asked, VaultInv
<1>12. Past(w)' = 0 - 1 /\ \A v \in Writers : v # w => Past(v)' = Past(v)
  BY <1>3, <1>4, <1>6 DEF Past
<1>13. DeletesFirst'
  BY <1>3, <1>6, <1>12 DEF VaultInv, DeletesFirst
<1>14. StoredKept /\ \A row : Done(row)' <=> Done(row)
  BY <1>6, Referenced DEF StoredKept, Stored
<1>15. Sealing'
  <2>1. \A i \in Requests' : pipe'[i].kind = "write" =>
          \A ref \in SnapshotRefs(pipe'[i].arg.man) : Stored(ref)'
    BY <1>6, <1>14 DEF VaultInv, Sealing, StoredKept
  <2>2. \A v \in Writers : writer'[v].st = "run" =>
          /\ \A n \in 1..ManifestStep : n <= Past(v)' => Stored(Request(v, n)[2])'
          /\ Past(v)' >= WriteStep => Done(Row(v))'
    <3> SUFFICES ASSUME NEW v \in Writers, writer'[v].st = "run"
                 PROVE  /\ \A n \in 1..ManifestStep : n <= Past(v)' => Stored(Request(v, n)[2])'
                        /\ Past(v)' >= WriteStep => Done(Row(v))'
      OBVIOUS
    <3>1. CASE v = w
      BY <1>12, <3>1, Steps
    <3>2. CASE v # w
      <4>1. Past(v)' <= Past(v) /\ Past(v)' \in Int /\ writer'[v] = writer[v]
        BY <1>3, <1>12, <3>2, PastFacts
      <4> QED
        BY <1>14, <4>1, SealedSave
    <3> QED
      BY <3>1, <3>2
  <2> QED
    BY <2>1, <2>2 DEF Sealing
<1>16. Mans' = Mans /\ \A S, n : Covered(S, n)' <=> Covered(S, n)
  BY <1>6, Referenced
<1>17. NoWrites' /\ Scanning' /\ Keeping' /\ Reading'
  BY <1>6, <1>16 DEF VaultInv, NoWrites, Scanning, Keeping, Reading
<1>18. FinishedIsWritten'
  <2> SUFFICES ASSUME NEW v \in Writers, writer'[v].st = "done"
               PROVE  \E i \in DOMAIN hist' :
                        hist'[i] = [op |-> v, ver |-> writer'[v].ver, man |-> Manifest(v)']
    BY DEF FinishedIsWritten
  <2>1. writer'[v] = writer[v]
    BY <1>3
  <2> QED
    BY <1>6, <2>1 DEF FinishedIsWritten, VaultInv, Manifest
<1>19. ReferencedIsStored'
  BY <1>6 DEF VaultInv, ReferencedIsStored, Stored
<1>20. VaultTypeOK'
  <2>1. \A i \in DOMAIN lease' : lease'[i] \in Writers \cup {Gc}
    BY <1>10, LenProperties DEF Leased
  <2>2. \A v \in Writers : writer'[v].st \in {"idle", "run", "done", "failed"}
                           /\ writer'[v].step \in 0..LastStep
    BY <1>3
  <2> QED
    BY <1>6, <2>1, <2>2 DEF VaultTypeOK, VaultInv
<1> QED
  BY <1>7, <1>8, <1>9, <1>10, <1>11, <1>13, <1>15, <1>17, <1>18, <1>19, <1>20 DEF VaultInv

\* What the ways in which a save goes on or ends have in common.
LEMMA SaveGoesOn ==
    ASSUME VaultInv, NEW w \in Writers, Holds(w), writer[w].st = "run",
           Piped', Pending', Grown(w, {"seal", "write", "open"}), Alone(w),
           UNCHANGED <<vault, hist, gc, reader, used>>,
           NEW st \in {"run", "done", "failed"}, NEW n \in 0..LastStep,
           writer' = [writer EXCEPT ![w] = [writer[w] EXCEPT !.st = st, !.step = n]]
    PROVE  /\ Laid' /\ NoWrites' /\ Scanning' /\ Keeping' /\ Reading' /\ ReferencedIsStored'
           /\ StoredKept /\ \A row : Done(row)' <=> Done(row)
           /\ writer'[w].st = st /\ writer'[w].step = n
           /\ writer'[w].content = writer[w].content /\ writer'[w].ver = writer[w].ver
           /\ \A v \in Writers : v # w => writer'[v] = writer[v] /\ Past(v)' = Past(v)
           /\ \A v \in Writers : v # w =>
                ~(writer[v].st = "run" /\ writer[v].step > 0) /\ ~(writer[v].st = "run" /\ Past(v) > 0)
           /\ gc.st \notin Working
           /\ \A i \in Requests' : pipe'[i].from = w => i \notin Requests /\ i = Len(pipe) + 1
           /\ \A i \in Requests' : \A v \in Writers : pipe'[i].from # v \/ v = w
           /\ \A i \in Requests' : pipe'[i].from # Gc
<1>1. NoWrites' /\ Scanning' /\ Keeping' /\ Reading' /\ ReferencedIsStored'
  BY WriterFrame
<1>2. /\ writer'[w].st = st /\ writer'[w].step = n
      /\ writer'[w].content = writer[w].content /\ writer'[w].ver = writer[w].ver
      /\ \A v \in Writers : v # w => writer'[v] = writer[v]
      /\ writer' \in [Writers -> [st : {"idle", "run", "done", "failed"}, step : 0..LastStep,
                                  content : Content \cup {<<>>}, ver : 0..MaxVersion]]
  <2> DEFINE S == [st : {"idle", "run", "done", "failed"}, step : 0..LastStep,
                   content : Content \cup {<<>>}, ver : 0..MaxVersion]
  <2>1. writer[w] \in S /\ writer \in [Writers -> S]
    BY DEF VaultInv, Laid
  <2>2. PICK j : j = [writer[w] EXCEPT !.st = st, !.step = n]
    OBVIOUS
  <2>3. /\ j.st = st /\ j.step = n /\ j.content = writer[w].content /\ j.ver = writer[w].ver
        /\ j \in S
    BY <2>1, <2>2
  <2>4. writer' = [writer EXCEPT ![w] = j]
    BY <2>2
  <2> HIDE DEF S
  <2>5. writer' \in [Writers -> S] /\ writer'[w] = j /\ \A v \in Writers : v # w => writer'[v] = writer[v]
    BY <2>1, <2>3, <2>4
  <2> QED
    BY <2>3, <2>5 DEF S
<1>3. Laid'
  BY <1>2 DEF VaultInv, Laid, Alone, Entries
<1>4. StoredKept /\ \A row : Done(row)' <=> Done(row)
  BY Referenced DEF StoredKept, Stored
<1>5. \A v \in Writers : v # w =>
        ~(writer[v].st = "run" /\ writer[v].step > 0) /\ ~(writer[v].st = "run" /\ Past(v) > 0)
  BY OneHolder, PastFacts DEF VaultInv, Leased
<1>6. \A v \in Writers : v # w => Past(v)' = Past(v)
  BY <1>2, ActorFacts DEF Past, Alone
<1>7. gc.st \notin Working /\ w # Gc
  BY OneHolder, ActorFacts DEF VaultInv, Leased
<1>8. \A i \in Requests : pipe[i].from # Gc
  BY <1>7, CollectionAsks
<1>9. \A i \in Requests : \A v \in Writers : pipe[i].from # v
  <2> SUFFICES ASSUME NEW i \in Requests, NEW v \in Writers, pipe[i].from = v PROVE FALSE
    OBVIOUS
  <2>1. Holds(v)
    BY SaveAsks
  <2> QED
    BY <2>1, OneHolder DEF Alone
<1>10. \A i \in Requests' :
         \/ i \in Requests /\ pipe'[i] = pipe[i]
         \/ i = Len(pipe) + 1 /\ pipe'[i].from = w
  BY DEF Grown
<1>11. \A i \in Requests' : pipe'[i].from = w => i \notin Requests /\ i = Len(pipe) + 1
  BY <1>9, <1>10 DEF Alone
<1>12. /\ \A i \in Requests' : \A v \in Writers : pipe'[i].from # v \/ v = w
       /\ \A i \in Requests' : pipe'[i].from # Gc
  BY <1>7, <1>8, <1>9, <1>10
<1> QED
  BY <1>1, <1>2, <1>3, <1>4, <1>5, <1>6, <1>7, <1>11, <1>12

\* A save that was answered sends its next request.
LEMMA SaveStepKeeps ==
    ASSUME VaultInv, NEW w \in Writers, SaveStep(w), writer[w].step # LastStep
    PROVE  VaultInv'
<1>1. PICK n \in 1..LastStep : n = writer[w].step + 1
  <2>1. writer[w].step \in 0..LastStep
    BY DEF VaultInv, Laid
  <2> QED
    BY <2>1, Steps
<1>2. /\ writer[w].st = "run" /\ Holds(w) /\ w \in Actors
      /\ reply[w].st = "ok" \/ (reply[w].st = "idle" /\ writer[w].step = 0)
      /\ writer' = [writer EXCEPT ![w].step = n]
      /\ Send(w, Request(w, n)[1], Request(w, n)[2])
      /\ UNCHANGED <<lease, vault, hist, gc, reader, used>>
  BY <1>1, ActorFacts DEF SaveStep
<1>3. PICK kind, arg : /\ kind \in {"seal", "write", "open"}
                       /\ kind = Request(w, n)[1] /\ arg = Request(w, n)[2]
  BY Asks
<1>4. kind = "seal" => arg.id \in 1..Top
  <2>1. kind = "seal" => n \in 1..ManifestStep
    BY <1>3, Asks
  <2> QED
    BY <1>2, <1>3, <2>1, RowRefers DEF VaultInv
<1>5. reply[w].st # "wait" /\ kind \in Kinds /\ Piped /\ Laid /\ Pending /\ Send(w, kind, arg)
  BY <1>2, <1>3 DEF VaultInv, Kinds
<1>6. /\ Piped' /\ Pending' /\ Alone(w) /\ Grown(w, {kind}) /\ reply'[w].st = "wait"
      /\ \A i \in Requests' : i \notin Requests => pipe'[i].arg = arg
  BY <1>2, <1>4, <1>5, SendGrows
<1>7. Grown(w, {"seal", "write", "open"})
  BY <1>3, <1>6, Wider
<1>8. writer' = [writer EXCEPT ![w] = [writer[w] EXCEPT !.st = "run", !.step = n]]
  BY <1>2 DEF VaultInv, Laid
<1>9. n \in 0..LastStep
  BY Steps
<1>10. /\ Laid' /\ NoWrites' /\ Scanning' /\ Keeping' /\ Reading' /\ ReferencedIsStored'
       /\ StoredKept /\ \A row : Done(row)' <=> Done(row)
       /\ writer'[w].st = "run" /\ writer'[w].step = n
       /\ writer'[w].content = writer[w].content /\ writer'[w].ver = writer[w].ver
       /\ \A v \in Writers : v # w => writer'[v] = writer[v] /\ Past(v)' = Past(v)
       /\ \A v \in Writers : v # w =>
            ~(writer[v].st = "run" /\ writer[v].step > 0) /\ ~(writer[v].st = "run" /\ Past(v) > 0)
       /\ gc.st \notin Working
       /\ \A i \in Requests' : pipe'[i].from = w => i \notin Requests /\ i = Len(pipe) + 1
       /\ \A i \in Requests' : \A v \in Writers : pipe'[i].from # v \/ v = w
       /\ \A i \in Requests' : pipe'[i].from # Gc
  BY <1>2, <1>6, <1>7, <1>8, <1>9, SaveGoesOn
<1>11. /\ \A m \in 1..LastStep : Request(w, m)' = Request(w, m)
       /\ Row(w)' = Row(w)
  BY <1>10, SameRequests
<1>12. \A i \in Requests' : \/ i \in Requests /\ pipe'[i] = pipe[i]
                            \/ pipe'[i].kind = kind /\ i \notin Requests
  BY <1>6 DEF Grown, Alone, Requests
<1>13. Asked'
  <2>1. Request(w, writer[w].step)' = Request(w, n)
    BY <1>10, <1>11
  <2>2. \A i \in Requests' : pipe'[i].from = w => pipe'[i].kind = kind /\ pipe'[i].arg = arg
    BY <1>6, <1>10, <1>12
  <2> QED
    BY <1>3, <1>10, <2>1, <2>2 DEF Asked
<1>14. Past(w)' = n - 1 /\ Past(w)' = writer[w].step /\ writer[w].step \in Nat
  BY <1>1, <1>6, <1>10, PastFacts DEF Past
<1>15. Past(w)' > 0 => Past(w) = Past(w)'
  BY <1>2, <1>14 DEF Past
<1>16. DeletesFirst'
  <2>1. \A j \in Requests' : pipe'[j].kind = "delete" => j \in Requests /\ pipe[j].kind = "delete"
    BY <1>3, <1>12
  <2>2. Past(w)' > 0 => \A j \in Requests' : pipe'[j].kind # "delete"
    BY <1>2, <1>15, <2>1 DEF VaultInv, DeletesFirst
  <2>3. kind = "write" => Past(w)' > 0
    <3>1. kind = "write" => n = WriteStep
      BY <1>3, Asks
    <3> QED
      BY <1>14, <3>1, Steps, Numbers DEF ManifestStep
  <2>4. \A i, j \in Requests' : pipe'[i].kind = "write" => pipe'[j].kind # "delete"
    BY <1>12, <2>1, <2>2, <2>3 DEF VaultInv, DeletesFirst
  <2>5. \A i, j \in Requests' : pipe'[i].from \in Writers /\ i < j => pipe'[j].kind # "delete"
    <3> SUFFICES ASSUME NEW i \in Requests', NEW j \in Requests', pipe'[i].from \in Writers, i < j,
                        pipe'[j].kind = "delete"
                 PROVE  FALSE
      OBVIOUS
    <3>1. i = Len(pipe) + 1
      BY <1>10
    <3>2. j \in Requests
      BY <2>1
    <3>3. Len(pipe) \in Nat
      BY <1>5, LenProperties DEF Piped
    <3> QED
      BY <3>1, <3>2, <3>3 DEF Requests
  <2>6. \A v \in Writers : writer'[v].st = "run" /\ Past(v)' > 0 =>
          \A j \in Requests' : pipe'[j].kind # "delete"
    BY <1>10, <2>2
  <2> QED
    BY <2>4, <2>5, <2>6 DEF DeletesFirst
<1>17. Sealing'
  <2>1. \A i \in Requests' : pipe'[i].kind = "write" =>
          \A ref \in SnapshotRefs(pipe'[i].arg.man) : Stored(ref)'
    <3> SUFFICES ASSUME NEW i \in Requests', pipe'[i].kind = "write",
                        NEW ref \in SnapshotRefs(pipe'[i].arg.man)
                 PROVE  Stored(ref)
      BY <1>10 DEF StoredKept
    <3>1. CASE i \in Requests /\ pipe'[i] = pipe[i]
      BY <3>1 DEF VaultInv, Sealing
    <3>2. CASE pipe'[i].kind = kind /\ i \notin Requests
      <4>1. n = WriteStep /\ pipe'[i].arg = Row(w)
        BY <1>3, <1>6, <3>2, Asks
      <4>2. PICK m \in 1..ManifestStep : ref = Request(w, m)[2]
        BY <1>2, <1>5, <4>1, RowRefers
      <4>3. m <= Past(w)
        BY <1>14, <1>15, <4>1, Steps, Numbers DEF ManifestStep
      <4> QED
        BY <1>2, <4>2, <4>3 DEF VaultInv, Sealing
    <3> QED
      BY <1>12, <3>1, <3>2
  <2>2. \A v \in Writers : writer'[v].st = "run" =>
          /\ \A m \in 1..ManifestStep : m <= Past(v)' => Stored(Request(v, m)[2])'
          /\ Past(v)' >= WriteStep => Done(Row(v))'
    <3> SUFFICES ASSUME NEW v \in Writers, writer'[v].st = "run"
                 PROVE  /\ \A m \in 1..ManifestStep : m <= Past(v)' => Stored(Request(v, m)[2])'
                        /\ Past(v)' >= WriteStep => Done(Row(v))'
      OBVIOUS
    <3>1. CASE v = w /\ ~(Past(w)' > 0)
      BY <1>14, <3>1, Steps
    <3>2. CASE v # w \/ Past(w)' > 0
      <4>1. /\ Past(v)' <= Past(v) /\ Past(v)' \in Int /\ writer[v].st = "run"
            /\ writer'[v].content = writer[v].content /\ writer'[v].ver = writer[v].ver
        BY <1>2, <1>10, <1>14, <1>15, <3>2, PastFacts
      <4> QED
        BY <1>10, <4>1, SealedSave
    <3> QED
      BY <3>1, <3>2
  <2> QED
    BY <2>1, <2>2 DEF Sealing
<1>18. Idling'
  <2>1. \A v \in Actors : v # w => reply'[v] = reply[v]
    BY <1>6 DEF Alone
  <2>2. n # 0
    OBVIOUS
  <2> QED
    BY <1>2, <1>6, <1>10, <2>1, <2>2, ActorFacts DEF VaultInv, Idling
<1>19. Leased'
  <2>1. \A v : Holds(v)' <=> Holds(v)
    BY <1>2 DEF Holds
  <2>2. \A v \in Writers : writer'[v].st = "run" <=> writer[v].st = "run"
    BY <1>2, <1>10
  <2>3. \A v \in Writers : writer'[v].st = "run" /\ writer'[v].step > 0 => Holds(v)
    BY <1>2, <1>10
  <2> QED
    BY <1>2, <2>1, <2>2, <2>3 DEF VaultInv, Leased
<1>20. FinishedIsWritten'
  <2> SUFFICES ASSUME NEW v \in Writers, writer'[v].st = "done"
               PROVE  \E i \in DOMAIN hist' :
                        hist'[i] = [op |-> v, ver |-> writer'[v].ver, man |-> Manifest(v)']
    BY DEF FinishedIsWritten
  <2>1. writer'[v] = writer[v]
    BY <1>10
  <2> QED
    BY <1>2, <2>1 DEF FinishedIsWritten, VaultInv, Manifest
<1>21. VaultTypeOK'
  <2>1. \A v \in Writers : writer'[v].st \in {"idle", "run", "done", "failed"}
                           /\ writer'[v].step \in 0..LastStep
    BY <1>10 DEF Laid
  <2>2. \A a \in Actors : reply'[a].st \in {"idle", "wait", "ok", "err"}
    BY <1>6 DEF VaultInv, VaultTypeOK, Alone
  <2> QED
    BY <1>2, <2>1, <2>2 DEF VaultTypeOK, VaultInv
<1> QED
  BY <1>6, <1>10, <1>13, <1>16, <1>17, <1>18, <1>19, <1>20, <1>21 DEF VaultInv

\* The end of a save.
LEMMA SaveEnds ==
    ASSUME VaultInv, NEW w \in Writers, writer[w].st = "run", Release(w), NoSend(w),
           reply[w].st \in {"ok", "err"}, NEW st \in {"done", "failed"},
           writer' = [writer EXCEPT ![w].st = st],
           st = "done" => reply[w].st = "ok" /\ writer[w].step = LastStep,
           UNCHANGED <<vault, hist, gc, reader, used>>
    PROVE  VaultInv'
<1>1. Holds(w) /\ w \in Actors /\ reply[w].st # "wait" /\ Piped /\ Laid /\ Pending
  BY ActorFacts DEF Release, VaultInv
<1>2. /\ Piped' /\ Pending' /\ Alone(w) /\ Grown(w, {}) /\ reply'[w].st = "idle" /\ pipe' = pipe
  BY <1>1, StopGrows
<1>3. Grown(w, {"seal", "write", "open"})
  BY <1>2, Wider
<1>4. PICK n \in 0..LastStep : n = writer[w].step
  BY DEF VaultInv, Laid
<1>5. writer' = [writer EXCEPT ![w] = [writer[w] EXCEPT !.st = st, !.step = n]]
  <2>1. writer[w] = [st |-> writer[w].st, step |-> writer[w].step, content |-> writer[w].content,
                     ver |-> writer[w].ver]
    BY DEF VaultInv, Laid
  <2>2. [writer[w] EXCEPT !.st = st] = [writer[w] EXCEPT !.st = st, !.step = n]
    BY <1>4, <2>1
  <2> QED
    BY <2>2
<1>6. st \in {"run", "done", "failed"}
  OBVIOUS
<1>7. /\ Laid' /\ NoWrites' /\ Scanning' /\ Keeping' /\ Reading' /\ ReferencedIsStored'
      /\ StoredKept /\ \A row : Done(row)' <=> Done(row)
      /\ writer'[w].st = st /\ writer'[w].step = n
      /\ writer'[w].content = writer[w].content /\ writer'[w].ver = writer[w].ver
      /\ \A v \in Writers : v # w => writer'[v] = writer[v] /\ Past(v)' = Past(v)
      /\ \A v \in Writers : v # w =>
           ~(writer[v].st = "run" /\ writer[v].step > 0) /\ ~(writer[v].st = "run" /\ Past(v) > 0)
      /\ gc.st \notin Working
      /\ \A i \in Requests' : pipe'[i].from = w => i \notin Requests /\ i = Len(pipe) + 1
      /\ \A i \in Requests' : \A v \in Writers : pipe'[i].from # v \/ v = w
      /\ \A i \in Requests' : pipe'[i].from # Gc
  BY <1>1, <1>2, <1>3, <1>5, <1>6, SaveGoesOn, ZenonT(60)
<1>8. Requests' = Requests
  BY <1>2 DEF Requests
<1>9. Asked'
  BY <1>7, <1>8 DEF Asked
<1>10. DeletesFirst'
  BY <1>2, <1>7, <1>8 DEF VaultInv, DeletesFirst
<1>11. Sealing'
  <2>1. \A i \in Requests' : pipe'[i].kind = "write" =>
          \A ref \in SnapshotRefs(pipe'[i].arg.man) : Stored(ref)'
    BY <1>2, <1>7, <1>8 DEF VaultInv, Sealing, StoredKept
  <2>2. \A v \in Writers : writer'[v].st = "run" =>
          /\ \A m \in 1..ManifestStep : m <= Past(v)' => Stored(Request(v, m)[2])'
          /\ Past(v)' >= WriteStep => Done(Row(v))'
    <3> SUFFICES ASSUME NEW v \in Writers, writer'[v].st = "run"
                 PROVE  /\ \A m \in 1..ManifestStep : m <= Past(v)' => Stored(Request(v, m)[2])'
                        /\ Past(v)' >= WriteStep => Done(Row(v))'
      OBVIOUS
    <3>1. Past(v)' <= Past(v) /\ Past(v)' \in Int /\ writer'[v] = writer[v]
      BY <1>7, PastFacts
    <3> QED
      BY <1>7, <3>1, SealedSave
  <2> QED
    BY <2>1, <2>2 DEF Sealing
<1>12. Idling'
  <2>1. \A v \in Actors : v # w => reply'[v] = reply[v]
    BY <1>2 DEF Alone
  <2> QED
    BY <1>2, <1>7, <2>1, ActorFacts DEF VaultInv, Idling
<1>13. Leased'
  <2>1. /\ lease' \in Seq(Writers \cup {Gc})
        /\ \A i, j \in 1..Len(lease') : lease'[i] = lease'[j] => i = j
        /\ \A i \in 1..Len(lease') : lease'[i] # w /\ \E j \in 1..Len(lease) : lease'[i] = lease[j]
    BY Released DEF VaultInv
  <2>2. \A i \in 1..Len(lease') : lease'[i] \in Writers => writer'[lease'[i]].st = "run"
    BY <1>7, <2>1 DEF VaultInv, Leased
  <2>3. \A i \in 1..Len(lease') : lease'[i] = Gc => gc'.st # "idle"
    BY <2>1 DEF VaultInv, Leased
  <2>4. \A v \in Writers : ~(writer'[v].st = "run" /\ writer'[v].step > 0)
    BY <1>7
  <2> QED
    BY <1>7, <2>1, <2>2, <2>3, <2>4 DEF Leased
<1>14. FinishedIsWritten'
  <2> SUFFICES ASSUME NEW v \in Writers, writer'[v].st = "done"
               PROVE  \E i \in DOMAIN hist' :
                        hist'[i] = [op |-> v, ver |-> writer'[v].ver, man |-> Manifest(v)']
    BY DEF FinishedIsWritten
  <2>1. CASE v # w
    <3>1. writer'[v] = writer[v]
      BY <1>7, <2>1
    <3> QED
      BY <3>1 DEF FinishedIsWritten, VaultInv, Manifest
  <2>2. CASE v = w
    <3>1. reply[w].st = "ok" /\ writer[w].step = LastStep
      BY <1>7, <2>2
    <3>2. Past(w) = LastStep
      BY <3>1 DEF Past
    <3>3. Done(Row(w))
      BY <3>2, Steps DEF VaultInv, Sealing
    <3>4. Row(w) = [op |-> v, ver |-> writer'[v].ver, man |-> Manifest(v)']
      BY <1>7, <2>2 DEF Row, Manifest
    <3> QED
      BY <3>3, <3>4 DEF Done
  <2> QED
    BY <2>1, <2>2
<1>15. VaultTypeOK'
  <2>1. \A v \in Writers : writer'[v].st \in {"idle", "run", "done", "failed"}
                           /\ writer'[v].step \in 0..LastStep
    BY <1>7 DEF Laid
  <2>2. \A a \in Actors : reply'[a].st \in {"idle", "wait", "ok", "err"}
    BY <1>2 DEF VaultInv, VaultTypeOK, Alone
  <2>3. \A i \in DOMAIN lease' : lease'[i] \in Writers \cup {Gc}
    BY <1>13, LenProperties DEF Leased
  <2> QED
    BY <2>1, <2>2, <2>3 DEF VaultTypeOK, VaultInv
<1> QED
  BY <1>2, <1>7, <1>9, <1>10, <1>11, <1>12, <1>13, <1>14, <1>15 DEF VaultInv

\* Every step of a save preserves the invariant.
LEMMA SaveKeeps ==
    ASSUME VaultInv, NEW w \in Writers, SaveStep(w) \/ SaveFails(w)
    PROVE  VaultInv'
<1>1. CASE SaveStep(w) /\ writer[w].step # LastStep
  BY <1>1, SaveStepKeeps
<1>2. CASE SaveStep(w) /\ writer[w].step = LastStep
  <2>1. reply[w].st = "ok"
    BY <1>2, Steps, Numbers DEF SaveStep, OpenStep
  <2> QED
    BY <1>2, <2>1, SaveEnds DEF SaveStep
<1>3. CASE SaveFails(w)
  BY <1>3, SaveEnds DEF SaveFails
<1> QED
  BY <1>1, <1>2, <1>3

----------------------------------------------------------------------------
(* The collection *)

\* The places of a collection.
GcPlaces == {"idle", "wait"} \cup Working

\* A collection asks for the lease.
LEMMA GcBeginKeeps ==
    ASSUME VaultInv, GcBegin
    PROVE  VaultInv'
<1>1. /\ gc.st = "idle" /\ gc' = [GcIdle("none") EXCEPT !.st = "wait"] /\ Acquire(Gc)
      /\ UNCHANGED <<vault, hist, pipe, reply, writer, reader, used>> /\ Requests' = Requests
  BY DEF GcBegin, Requests
<1>2. DOMAIN gc' = GcFields /\ gc'.st = "wait"
  BY <1>1 DEF GcIdle, GcFields
<1>3. Piped' /\ Pending' /\ Laid'
  BY <1>1, <1>2 DEF VaultInv, Piped, Pending, Laid, Entries, Top
<1>4. Idling'
  BY <1>1, <1>2 DEF VaultInv, Idling
<1>5. Leased'
  <2>1. \A i \in 1..Len(lease) : lease[i] # Gc
    BY <1>1 DEF VaultInv, Leased
  <2>2. /\ lease' \in Seq(Writers \cup {Gc})
        /\ \A i, j \in 1..Len(lease') : lease'[i] = lease'[j] => i = j
        /\ \A i \in 1..Len(lease') : lease'[i] = Gc \/ \E j \in 1..Len(lease) : lease'[i] = lease[j]
        /\ \A b : Holds(b) => Holds(b)'
    BY <1>1, <2>1, Acquired DEF VaultInv
  <2>3. \A i \in 1..Len(lease') : lease'[i] \in Writers => writer'[lease'[i]].st = "run"
    BY <1>1, <2>2, ActorFacts DEF VaultInv, Leased
  <2>4. \A v \in Writers : writer'[v].st = "run" /\ writer'[v].step > 0 => Holds(v)'
    BY <1>1, <2>2 DEF VaultInv, Leased
  <2> QED
    BY <1>2, <2>2, <2>3, <2>4 DEF Leased, Working
<1>6. \A w \in Writers : Past(w)' = Past(w)
  BY <1>1 DEF Past
<1>7. \A i \in Requests : pipe[i].from # Gc
  BY <1>1, CollectionAsks DEF Working
<1>8. Asked'
  <2>1. ASSUME NEW i \in Requests, NEW v \in Writers, pipe[i].from = v
        PROVE  /\ pipe'[i].kind = Request(v, writer[v].step)'[1]
               /\ pipe'[i].arg = Request(v, writer[v].step)'[2]
    BY <1>1, <2>1, AskedSave
  <2> QED
    BY <1>1, <1>7, <2>1 DEF Asked
<1>9. DeletesFirst'
  BY <1>1, <1>6 DEF VaultInv, DeletesFirst
<1>10. StoredKept /\ \A row : Done(row)' <=> Done(row)
  BY <1>1, Referenced DEF StoredKept, Stored
<1>11. Sealing'
  <2>1. \A i \in Requests' : pipe'[i].kind = "write" =>
          \A ref \in SnapshotRefs(pipe'[i].arg.man) : Stored(ref)'
    BY <1>1, <1>10 DEF VaultInv, Sealing, StoredKept
  <2>2. \A w \in Writers : writer'[w].st = "run" =>
          /\ \A n \in 1..ManifestStep : n <= Past(w)' => Stored(Request(w, n)[2])'
          /\ Past(w)' >= WriteStep => Done(Row(w))'
    <3> SUFFICES ASSUME NEW w \in Writers, writer'[w].st = "run"
                 PROVE  /\ \A n \in 1..ManifestStep : n <= Past(w)' => Stored(Request(w, n)[2])'
                        /\ Past(w)' >= WriteStep => Done(Row(w))'
      OBVIOUS
    <3>1. Past(w)' <= Past(w) /\ Past(w)' \in Int /\ writer'[w] = writer[w]
      BY <1>1, <1>6, PastFacts
    <3> QED
      BY <1>10, <3>1, SealedSave
  <2> QED
    BY <2>1, <2>2 DEF Sealing
<1>12. Mans' = Mans
  BY <1>1, Referenced
<1>13. NoWrites' /\ Scanning' /\ Keeping' /\ Reading'
  BY <1>1, <1>2, <1>7, <1>12 DEF VaultInv, NoWrites, Scanning, Keeping, Reading
<1>14. FinishedIsWritten'
  BY <1>1 DEF FinishedIsWritten, VaultInv, Manifest
<1>15. ReferencedIsStored'
  BY <1>1 DEF VaultInv, ReferencedIsStored, Stored
<1>16. VaultTypeOK'
  <2>1. \A i \in DOMAIN lease' : lease'[i] \in Writers \cup {Gc}
    BY <1>5, LenProperties DEF Leased
  <2> QED
    BY <1>1, <1>2, <2>1 DEF VaultTypeOK, VaultInv
<1> QED
  BY <1>3, <1>4, <1>5, <1>8, <1>9, <1>11, <1>13, <1>14, <1>15, <1>16 DEF VaultInv

\* What the steps of a collection that has the lease have in common.
LEMMA GcGoesOn ==
    ASSUME VaultInv, Holds(Gc), Grown(Gc, GcKinds), Alone(Gc), Piped', Pending',
           UNCHANGED <<vault, hist, writer, reader, used>>,
           DOMAIN gc' = GcFields, gc'.st \in GcPlaces, reply'[Gc].st \in {"wait", "idle"},
           reply'[Gc].st = "idle" <=> gc'.st \in {"idle", "wait"},
           \A i \in Requests' : pipe'[i].from = Gc /\ gc'.st = "refs" => pipe'[i].kind = "refs",
           gc'.st \in {"refs", "inspect", "delete"} \/ Grown(Gc, {"list"}),
           gc'.st \in {"refs", "inspect", "delete"} => \A j \in Requests : pipe[j].kind # "write",
           Leased', Scanning', Keeping'
    PROVE  VaultInv'
<1>1. /\ Asked' /\ DeletesFirst' /\ Sealing' /\ NoWrites' /\ Reading'
      /\ ReferencedIsStored' /\ FinishedIsWritten'
  BY CollectorFrame
<1>2. \A b \in Actors : b # Gc => reply'[b] = reply[b]
  BY DEF Alone
<1>3. Laid'
  BY DEF VaultInv, Laid, Alone, Entries
<1>4. Idling'
  BY <1>2, ActorFacts DEF VaultInv, Idling
<1>5. VaultTypeOK'
  <2>1. \A i \in DOMAIN lease' : lease'[i] \in Writers \cup {Gc}
    BY LenProperties DEF Leased
  <2>2. gc'.st \in {"idle", "wait", "list", "refs", "inspect", "delete"}
    BY DEF GcPlaces, Working
  <2>3. \A a \in Actors : reply'[a].st \in {"idle", "wait", "ok", "err"}
    BY <1>2 DEF VaultInv, VaultTypeOK
  <2> QED
    BY <2>1, <2>2, <2>3 DEF VaultInv, VaultTypeOK
<1> QED
  BY <1>1, <1>3, <1>4, <1>5 DEF VaultInv

\* A collection that sends a request.
LEMMA GcSends ==
    ASSUME VaultInv, Holds(Gc), gc.st # "idle", reply[Gc].st # "wait",
           NEW kind \in GcKinds, NEW arg, Send(Gc, kind, arg),
           UNCHANGED <<vault, hist, lease, writer, reader, used>>,
           DOMAIN gc' = GcFields, gc'.st \in Working,
           gc'.st = "refs" => kind = "refs", gc'.st = "list" => kind = "list",
           gc'.st # "list" =>
              gc.st \in {"refs", "inspect", "delete"} \/ (gc.st = "list" /\ reply[Gc].st = "ok"),
           gc'.st = "refs" => arg.cursor \in Nat /\ Covered(gc'.refs, arg.cursor),
           gc'.st = "inspect" =>
              \A m \in Mans : m \in gc'.todo \cup gc'.refs \/ Kept(m) \subseteq gc'.keep,
           gc'.st = "delete" => \A m \in Mans : Kept(m) \cap gc'.del = {},
           kind = "delete" => \A m \in Mans : Kept(m) \cap arg.ids = {}
    PROVE  VaultInv'
<1>1. Piped /\ Laid /\ Pending /\ kind \in Kinds /\ kind # "seal"
  BY DEF VaultInv, GcKinds, Kinds
<1>2. /\ Piped' /\ Pending' /\ Alone(Gc) /\ Grown(Gc, {kind}) /\ reply'[Gc].st = "wait"
      /\ \A i \in Requests' : i \notin Requests => pipe'[i].arg = arg
  BY <1>1, SendGrows, ActorFacts, SMTT(30)
<1>3. Grown(Gc, GcKinds)
  BY <1>2, Wider
<1>4. \A i \in Requests' :
        \/ i \in Requests /\ pipe'[i] = pipe[i] /\ pipe'[i].from # Gc
        \/ i \notin Requests /\ pipe'[i].kind = kind /\ pipe'[i].arg = arg
  BY <1>2 DEF Grown, Alone
<1>5. gc'.st \in {"refs", "inspect", "delete"} \/ Grown(Gc, {"list"})
  BY <1>2 DEF Working
<1>6. gc'.st \in {"refs", "inspect", "delete"} => \A j \in Requests : pipe[j].kind # "write"
  BY DEF VaultInv, NoWrites
<1>7. Leased'
  BY ActorFacts DEF VaultInv, Leased, Holds, Working
<1>8. Mans' = Mans /\ \A S, n : Covered(S, n)' <=> Covered(S, n)
  BY Referenced
<1>9. Scanning'
  <2> SUFFICES ASSUME gc'.st = "refs", NEW i \in Requests', pipe'[i].from = Gc
               PROVE  pipe'[i].arg.cursor \in Nat /\ Covered(gc.refs, pipe[i].arg.cursor)'
    BY <1>2 DEF Scanning
  <2>1. pipe'[i].arg = arg
    BY <1>4
  <2>2. PICK R, c : R = gc'.refs /\ c = arg.cursor
    OBVIOUS
  <2>3. c \in Nat /\ Covered(R, c)
    BY <2>2
  <2>4. Covered(R, c)'
    BY <1>8, <2>3
  <2> QED
    BY <2>1, <2>2, <2>3, <2>4 DEF Covered
<1>10. Keeping'
  BY <1>4, <1>8 DEF VaultInv, Keeping
<1>11. reply'[Gc].st = "idle" <=> gc'.st \in {"idle", "wait"}
  BY <1>2 DEF Working
<1>12. \A i \in Requests' : pipe'[i].from = Gc /\ gc'.st = "refs" => pipe'[i].kind = "refs"
  BY <1>4
<1> QED
  BY <1>2, <1>3, <1>5, <1>6, <1>7, <1>9, <1>10, <1>11, <1>12, GcGoesOn DEF GcPlaces

\* The end of a collection.
LEMMA GcReturnsKeeps ==
    ASSUME VaultInv, gc.st \in Working, reply[Gc].st # "wait", NEW result, GcReturns(result),
           UNCHANGED <<vault, hist, writer, reader, used>>
    PROVE  VaultInv'
<1>1. Piped /\ Laid /\ Pending /\ Holds(Gc) /\ Release(Gc) /\ NoSend(Gc)
  BY DEF VaultInv, GcReturns, Release
<1>2. /\ Piped' /\ Pending' /\ Alone(Gc) /\ Grown(Gc, {}) /\ reply'[Gc].st = "idle"
      /\ pipe' = pipe
  BY <1>1, StopGrows, ActorFacts
<1>3. Grown(Gc, GcKinds) /\ Grown(Gc, {"list"})
  BY <1>2, Wider
<1>4. DOMAIN gc' = GcFields /\ gc'.st = "idle"
  BY DEF GcReturns, GcIdle, GcFields
<1>5. Requests' = Requests
  BY <1>2 DEF Requests
<1>6. Leased'
  <2>1. /\ lease' \in Seq(Writers \cup {Gc})
        /\ \A i, j \in 1..Len(lease') : lease'[i] = lease'[j] => i = j
        /\ \A i \in 1..Len(lease') : lease'[i] # Gc /\ \E j \in 1..Len(lease) : lease'[i] = lease[j]
        /\ \A b : Holds(b) => b = Gc
    BY <1>1, Released DEF VaultInv
  <2>2. \A i \in 1..Len(lease') : lease'[i] \in Writers => writer'[lease'[i]].st = "run"
    BY <2>1 DEF VaultInv, Leased
  <2>3. \A v \in Writers : ~(writer'[v].st = "run" /\ writer'[v].step > 0)
    BY <2>1, ActorFacts DEF VaultInv, Leased
  <2> QED
    BY <1>4, <2>1, <2>2, <2>3 DEF Leased, Working
<1>7. Mans' = Mans
  BY Referenced
<1>8. Scanning' /\ Keeping'
  BY <1>2, <1>4, <1>5, <1>7 DEF VaultInv, Scanning, Keeping
<1> QED
  BY <1>1, <1>2, <1>3, <1>4, <1>6, <1>8, GcGoesOn DEF GcPlaces

\* The collection that got the lease asks for the inventory.
LEMMA GcGrantedKeeps ==
    ASSUME VaultInv, GcGranted
    PROVE  VaultInv'
<1>1. PICK cut : /\ gc' = [gc EXCEPT !.st = "list", !.cut = cut]
                 /\ Send(Gc, "list", [cut |-> cut, cursor |-> 0])
  BY DEF GcGranted
<1>2. DOMAIN gc' = GcFields /\ gc'.st = "list"
  BY <1>1 DEF VaultInv, Laid, GcFields
<1>3. gc.st # "idle" /\ reply[Gc].st # "wait" /\ Holds(Gc)
  BY DEF GcGranted, VaultInv, Idling
<1>4. "list" \in GcKinds /\ gc'.st \in Working
  BY <1>2 DEF GcKinds, Working
<1>5. PICK arg : arg = [cut |-> cut, cursor |-> 0]
  OBVIOUS
<1>6. Send(Gc, "list", arg) /\ UNCHANGED <<vault, hist, lease, writer, reader, used>>
  BY <1>1, <1>5 DEF GcGranted
<1> QED
  BY <1>2, <1>3, <1>4, <1>6, GcSends

\* After the last page of the inventory come the references.
LEMMA GcListedKeeps ==
    ASSUME VaultInv, GcListed
    PROVE  VaultInv'
<1> DEFINE page == reply[Gc].val
<1>1. /\ gc.st = "list" /\ reply[Gc].st = "ok" /\ gc.st \in Working /\ Holds(Gc)
      /\ UNCHANGED <<vault, hist, writer, reader, used>>
  BY DEF GcListed, VaultInv, Leased, Working
<1>2. CASE page.ids \cap gc.inv # {} \/ (page.next # 0 /\ page.ids = {})
  <2>1. GcReturns("inventory")
    BY <1>2 DEF GcListed
  <2> QED
    BY <1>1, <2>1, GcReturnsKeeps
<1>3. CASE ~(page.ids \cap gc.inv # {} \/ (page.next # 0 /\ page.ids = {}))
  <2>1. /\ gc' = [gc EXCEPT !.inv = @ \cup page.ids,
                            !.st = IF page.next = 0 THEN "refs" ELSE "list"]
        /\ IF page.next = 0 THEN Send(Gc, "refs", [cursor |-> 0])
           ELSE Send(Gc, "list", [cut |-> gc.cut, cursor |-> page.next])
        /\ UNCHANGED lease
    BY <1>3 DEF GcListed
  <2>2. CASE page.next = 0
    <3>1. DOMAIN gc' = GcFields /\ gc'.st = "refs"
      BY <2>1, <2>2 DEF VaultInv, Laid, GcFields
    <3>2. PICK arg : arg = [cursor |-> 0]
      OBVIOUS
    <3>3. Send(Gc, "refs", arg) /\ arg.cursor = 0
      BY <2>1, <2>2, <3>2
    <3>4. arg.cursor \in Nat /\ Covered(gc'.refs, arg.cursor)
      BY <3>3 DEF Covered
    <3>5. "refs" \in GcKinds /\ gc'.st \in Working
      BY <3>1 DEF GcKinds, Working
    <3> QED
      BY <1>1, <2>1, <3>1, <3>3, <3>4, <3>5, GcSends
  <2>3. CASE page.next # 0
    <3>1. DOMAIN gc' = GcFields /\ gc'.st = "list"
      BY <2>1, <2>3 DEF VaultInv, Laid, GcFields
    <3>2. PICK arg : Send(Gc, "list", arg)
      BY <2>1, <2>3
    <3>3. "list" \in GcKinds /\ gc'.st \in Working
      BY <3>1 DEF GcKinds, Working
    <3> QED
      BY <1>1, <2>1, <3>1, <3>2, <3>3, GcSends
  <2> QED
    BY <2>2, <2>3
<1> QED
  BY <1>2, <1>3

\* A batch is a part of what is left to delete, and no row refers to it.
LEMMA DeleteNextKeeps ==
    ASSUME VaultInv, gc.st \in {"refs", "inspect", "delete"}, reply[Gc].st = "ok",
           NEW del, DeleteNext(del), \A m \in Mans : Kept(m) \cap del = {},
           UNCHANGED <<vault, hist, writer, reader, used>>
    PROVE  VaultInv'
<1>1. gc.st \in Working /\ Holds(Gc)
  BY DEF VaultInv, Leased, Working
<1>2. CASE del = {}
  <2>1. GcReturns("completed")
    BY <1>2 DEF DeleteNext
  <2> QED
    BY <1>1, <2>1, GcReturnsKeeps
<1>3. CASE del # {}
  <2>1. /\ gc' = [gc EXCEPT !.st = "delete", !.del = del \ Batch(del)]
        /\ Send(Gc, "delete", [ids |-> Batch(del)]) /\ UNCHANGED lease
    BY <1>3 DEF DeleteNext
  <2>2. Batch(del) \subseteq del
    BY DEF Batch, Lowest
  <2>3. DOMAIN gc' = GcFields /\ gc'.st = "delete" /\ gc'.del \subseteq del
    BY <2>1 DEF VaultInv, Laid, GcFields
  <2>4. PICK arg : arg = [ids |-> Batch(del)]
    OBVIOUS
  <2>5. Send(Gc, "delete", arg) /\ arg.ids \subseteq del
    BY <2>1, <2>2, <2>4
  <2>6. /\ \A m \in Mans : Kept(m) \cap gc'.del = {}
        /\ \A m \in Mans : Kept(m) \cap arg.ids = {}
    BY <2>3, <2>5
  <2>7. "delete" \in GcKinds /\ gc'.st \in Working
    BY <2>3 DEF GcKinds, Working
  <2> QED
    BY <1>1, <2>1, <2>3, <2>5, <2>6, <2>7, GcSends
<1> QED
  BY <1>2, <1>3

\* Each referenced manifest is inspected, then the first batch is deleted.
LEMMA InspectNextKeeps ==
    ASSUME VaultInv, gc.st \in {"refs", "inspect"}, reply[Gc].st = "ok",
           NEW todo, NEW keep, InspectNext(todo, keep),
           \A m \in Mans : m \in todo \/ Kept(m) \subseteq keep,
           UNCHANGED <<vault, hist, writer, reader, used>>
    PROVE  VaultInv'
<1>1. gc.st \in Working /\ Holds(Gc)
  BY DEF VaultInv, Leased, Working
<1>2. CASE todo = {}
  <2>1. DeleteNext(gc.inv \ keep)
    BY <1>2 DEF InspectNext
  <2>2. \A m \in Mans : Kept(m) \cap (gc.inv \ keep) = {}
    BY <1>2
  <2> QED
    BY <2>1, <2>2, DeleteNextKeeps
<1>3. CASE todo # {}
  <2>1. PICK man : /\ gc' = [gc EXCEPT !.st = "inspect", !.todo = todo \ {man}, !.keep = keep,
                                       !.refs = {man}]
                   /\ Send(Gc, "open", man) /\ UNCHANGED lease
    BY <1>3 DEF InspectNext
  <2>2. /\ DOMAIN gc' = GcFields /\ gc'.st = "inspect" /\ gc'.keep = keep
        /\ gc'.todo = todo \ {man} /\ gc'.refs = {man}
    BY <2>1 DEF VaultInv, Laid, GcFields
  <2>3. \A m \in Mans : m \in gc'.todo \cup gc'.refs \/ Kept(m) \subseteq gc'.keep
    BY <2>2
  <2>4. "open" \in GcKinds /\ gc'.st \in Working
    BY <2>2 DEF GcKinds, Working
  <2> QED
    BY <1>1, <2>1, <2>2, <2>3, <2>4, GcSends
<1> QED
  BY <1>2, <1>3

\* After the last page of references all references are known.
LEMMA GcReferencedKeeps ==
    ASSUME VaultInv, GcReferenced
    PROVE  VaultInv'
<1> DEFINE page == reply[Gc].val
           refs == gc.refs \cup page.refs
<1>1. /\ gc.st = "refs" /\ reply[Gc].st = "ok" /\ gc.st \in Working /\ Holds(Gc)
      /\ UNCHANGED <<vault, hist, writer, reader, used>>
  BY DEF GcReferenced, VaultInv, Leased, Working
<1>2. CASE page.next = 0
  <2>1. InspectNext(refs, {})
    BY <1>2 DEF GcReferenced
  <2>2. Mans \subseteq refs
    BY <1>1, <1>2 DEF VaultInv, Scanning
  <2> HIDE DEF refs
  <2> QED
    BY <1>1, <2>1, <2>2, InspectNextKeeps
<1>3. CASE page.next # 0 /\ page.refs = {}
  <2>1. GcReturns("references")
    BY <1>3 DEF GcReferenced
  <2> QED
    BY <1>1, <2>1, GcReturnsKeeps
<1>4. CASE page.next # 0 /\ page.refs # {}
  <2>1. /\ gc' = [gc EXCEPT !.refs = refs] /\ Send(Gc, "refs", [cursor |-> page.next])
        /\ UNCHANGED lease
    BY <1>4 DEF GcReferenced
  <2>2. DOMAIN gc' = GcFields /\ gc'.st = "refs" /\ gc'.refs = refs
    BY <1>1, <2>1 DEF VaultInv, Laid, GcFields
  <2>3. page.next \in Nat /\ Covered(refs, page.next)
    BY <1>1, <1>4 DEF VaultInv, Scanning
  <2>4. PICK arg : arg = [cursor |-> page.next]
    OBVIOUS
  <2>5. Send(Gc, "refs", arg) /\ arg.cursor = page.next
    BY <2>1, <2>4
  <2>6. arg.cursor \in Nat /\ Covered(gc'.refs, arg.cursor)
    BY <2>2, <2>3, <2>5
  <2>7. "refs" \in GcKinds /\ gc'.st \in Working
    BY <2>2 DEF GcKinds, Working
  <2> QED
    BY <1>1, <2>1, <2>2, <2>5, <2>6, <2>7, GcSends
<1> QED
  BY <1>2, <1>3, <1>4

\* A collection inspects, deletes, or gives up.
LEMMA GcGoesOnKeeps ==
    ASSUME VaultInv, GcInspected \/ GcDeleted \/ GcFails
    PROVE  VaultInv'
<1>1. CASE GcInspected
  <2>1. PICK keep : keep = gc.keep \cup UNION {Kept(man) : man \in gc.refs}
    OBVIOUS
  <2>2. \A m \in Mans : m \in gc.todo \/ Kept(m) \subseteq keep
    BY <1>1, <2>1 DEF GcInspected, VaultInv, Keeping
  <2>3. InspectNext(gc.todo, keep)
    BY <1>1, <2>1 DEF GcInspected
  <2> QED
    BY <1>1, <2>2, <2>3, InspectNextKeeps DEF GcInspected
<1>2. CASE GcDeleted
  <2>1. \A m \in Mans : Kept(m) \cap gc.del = {}
    BY <1>2 DEF GcDeleted, VaultInv, Keeping
  <2> QED
    BY <1>2, <2>1, DeleteNextKeeps DEF GcDeleted
<1>3. CASE GcFails
  <2>1. PICK result : GcReturns(result)
    BY Zenon, <1>3 DEF GcFails
  <2>2. gc.st \in Working /\ reply[Gc].st # "wait"
    BY <1>3 DEF GcFails, Working
  <2> QED
    BY <1>3, <2>1, <2>2, GcReturnsKeeps DEF GcFails
<1> QED
  BY <1>1, <1>2, <1>3

\* Every step of a collection preserves the invariant.
LEMMA GcKeeps ==
    ASSUME VaultInv, GcNext
    PROVE  VaultInv'
BY GcGrantedKeeps, GcListedKeeps, GcReferencedKeeps, GcGoesOnKeeps DEF GcNext

----------------------------------------------------------------------------
(* The host *)

\* The host takes request q from the head of the pipe.
Serves(q) ==
    /\ 1 \in Requests /\ q = pipe[1] /\ q.kind \in Kinds
    /\ \A i \in Requests' : i \in Nat /\ i + 1 \in Requests /\ pipe'[i] = pipe[i + 1] /\ i + 1 > 1
    /\ \A a \in Actors :
         \/ a = q.from /\ reply[a].st = "wait" /\ reply'[a] = Answer(q)
         \/ a # q.from /\ reply'[a] = reply[a]
    /\ DOMAIN reply' = Actors
    /\ \/ hist' = hist
       \/ q.kind = "write" /\ WriteAccepts(q.arg) /\ ~Done(q.arg) /\ Longer(hist, hist', q.arg)
    /\ q.kind = "write" /\ WriteAccepts(q.arg) => Done(q.arg)'
    /\ \A row : Done(row) => Done(row)'
    /\ q.kind # "delete" => StoredKept
    /\ q.kind = "seal" /\ SealAccepts(q.arg) => Stored(q.arg)'
    /\ q.kind = "delete" => \A ref : Stored(ref) /\ ref.id \notin q.arg.ids => Stored(ref)'
    /\ \A r \in vault' : r \in vault \/ (q.kind = "seal" /\ r = [ref |-> q.arg, old |-> FALSE])
    /\ Piped' /\ Pending'
    /\ UNCHANGED <<lease, writer, gc, reader, used>>

\* What serving a request does, a fact at a time.
LEMMA ServeFacts ==
    ASSUME VaultInv, Serve
    PROVE  Serves(Head(pipe))
<1> SUFFICES ASSUME NEW q, q = Head(pipe) PROVE Serves(q)
  OBVIOUS
<1>1. Shorter(pipe, pipe') /\ UNCHANGED <<lease, writer, gc, reader, used>>
  BY Served DEF Serve, VaultInv, Piped
<1>2. 1 \in Requests /\ q = pipe[1] /\ q.kind \in Kinds /\ q.from \in Actors \cup {NoOne}
  BY <1>1 DEF Shorter, Requests, VaultInv, Piped
<1>3. \A i \in Requests' : i \in Nat /\ i + 1 \in Requests /\ pipe'[i] = pipe[i + 1] /\ i + 1 > 1
  BY <1>1 DEF Shorter, Requests
<1>4. DOMAIN reply = Actors
  BY DEF VaultInv, Laid
<1>5. reply' = IF q.from = NoOne THEN reply ELSE [reply EXCEPT ![q.from] = Answer(q)]
  BY DEF Serve
<1>6. q.from # NoOne => reply[q.from].st = "wait"
  BY <1>2 DEF VaultInv, Pending
<1>7. /\ DOMAIN reply' = Actors
      /\ \A a \in Actors :
           \/ a = q.from /\ reply[a].st = "wait" /\ reply'[a] = Answer(q)
           \/ a # q.from /\ reply'[a] = reply[a]
  BY <1>2, <1>4, <1>5, <1>6, ActorFacts
<1>8. Piped'
  <2>1. pipe' \in Seq(Entries(pipe'))
    BY <1>1 DEF Shorter
  <2>2. Entries(pipe)' = Entries(pipe') /\ Top' = Top
    BY DEF Entries, Top
  <2> QED
    BY <1>3, <2>1, <2>2 DEF VaultInv, Piped
<1>9. Pending'
  <2>1. \A i \in Requests' : pipe'[i].from # NoOne => pipe'[i].from # q.from /\ pipe'[i].from \in Actors
    BY <1>2, <1>3 DEF VaultInv, Pending, Piped
  <2>2. \A i \in Requests' : pipe'[i].from # NoOne => reply'[pipe'[i].from].st = "wait"
    BY <1>3, <1>7, <2>1 DEF VaultInv, Pending
  <2>3. \A i, j \in Requests' : i # j /\ pipe'[i].from = pipe'[j].from => pipe'[i].from = NoOne
    <3> SUFFICES ASSUME NEW i \in Requests', NEW j \in Requests', i # j,
                        pipe'[i].from = pipe'[j].from
                 PROVE  pipe'[i].from = NoOne
      OBVIOUS
    <3>1. i + 1 # j + 1
      BY <1>3
    <3> QED
      BY <1>3, <3>1 DEF VaultInv, Pending
  <2> QED
    BY <2>2, <2>3 DEF Pending
<1>10. hist' = IF q.kind = "write" /\ WriteAccepts(q.arg) /\ ~Done(q.arg)
               THEN Append(hist, q.arg) ELSE hist
  BY DEF Serve
<1>11. \/ hist' = hist
       \/ q.kind = "write" /\ WriteAccepts(q.arg) /\ ~Done(q.arg) /\ Longer(hist, hist', q.arg)
  BY <1>10, Appended DEF VaultInv, Laid
<1>12. \A row : Done(row) => Done(row)'
  <2>1. hist \in Seq(Entries(hist))
    BY DEF VaultInv, Laid
  <2>2. DOMAIN hist = 1..Len(hist)
    BY <2>1, LenProperties
  <2>3. CASE hist' = hist
    BY <2>3 DEF Done
  <2>4. CASE Longer(hist, hist', q.arg)
    <3>1. DOMAIN hist' = 1..Len(hist')
      BY <2>4, LenProperties DEF Longer
    <3> QED
      BY <2>2, <2>4, <3>1 DEF Done, Longer
  <2> QED
    BY <1>11, <2>3, <2>4
<1>13. q.kind = "write" /\ WriteAccepts(q.arg) => Done(q.arg)'
  <2>1. CASE Done(q.arg)
    BY <1>12, <2>1
  <2>2. CASE q.kind = "write" /\ WriteAccepts(q.arg) /\ ~Done(q.arg)
    <3>1. Longer(hist, hist', q.arg)
      BY <1>10, <2>2, Appended DEF VaultInv, Laid
    <3>2. DOMAIN hist' = 1..Len(hist') /\ Len(hist) + 1 \in 1..Len(hist')
      BY <3>1, LenProperties DEF Longer
    <3> QED
      BY <3>1, <3>2 DEF Done, Longer
  <2> QED
    BY <2>1, <2>2
<1>14. vault' = IF q.kind = "seal" /\ SealAccepts(q.arg) THEN Sealed(q.arg)
                ELSE IF q.kind = "delete" THEN {r \in vault : r.ref.id \notin q.arg.ids}
                ELSE vault
  BY DEF Serve
<1>15. /\ q.kind # "delete" => StoredKept
       /\ q.kind = "delete" => \A ref : Stored(ref) /\ ref.id \notin q.arg.ids => Stored(ref)'
  BY <1>14 DEF StoredKept, Stored, Sealed
<1>16. q.kind = "seal" /\ SealAccepts(q.arg) => Stored(q.arg)'
  <2> SUFFICES ASSUME q.kind = "seal" /\ SealAccepts(q.arg) PROVE \E r \in vault' : r.ref = q.arg
    BY DEF Stored
  <2>1. vault' = Sealed(q.arg)
    BY <1>14
  <2>2. CASE Stored(q.arg)
    BY <2>1, <2>2 DEF Stored, Sealed
  <2>3. CASE ~Stored(q.arg)
    <3>1. PICK r : r = [ref |-> q.arg, old |-> FALSE]
      OBVIOUS
    <3>2. r \in vault' /\ r.ref = q.arg
      BY <2>1, <2>3, <3>1 DEF Sealed
    <3> QED
      BY <3>2
  <2> QED
    BY <2>2, <2>3
<1>17. \A r \in vault' : r \in vault \/ (q.kind = "seal" /\ r = [ref |-> q.arg, old |-> FALSE])
  BY <1>14 DEF Sealed
<1> QED
  BY <1>1, <1>2, <1>3, <1>7, <1>8, <1>9, <1>11, <1>12, <1>13, <1>15, <1>16, <1>17 DEF Serves

\* What a served request of a save was.
LEMMA ServedSave ==
    ASSUME VaultInv, NEW q, Serves(q), NEW w \in Writers
    PROVE  \/ Past(w)' = Past(w) /\ (w = q.from => q.kind # "delete")
           \/ /\ w = q.from /\ reply'[w].st = "ok" /\ reply'[w] = Answer(q)
              /\ \E n \in 1..LastStep :
                    /\ n = writer[w].step /\ Past(w)' = n /\ Past(w) = n - 1
                    /\ q.kind = Request(w, n)[1] /\ q.arg = Request(w, n)[2]
<1>1. CASE w # q.from
  BY <1>1, ActorFacts DEF Past, Serves
<1>2. CASE w = q.from
  <2>1. /\ writer[w].step > 0 /\ writer[w].step \in 0..LastStep
        /\ reply[w].st = "wait" /\ reply'[w] = Answer(q)
    BY <1>2, SaveAsks, ActorFacts DEF Serves, VaultInv, Laid
  <2>2. PICK n \in 1..LastStep : n = writer[w].step
    BY <2>1, Steps
  <2>3. q.kind = Request(w, n)[1] /\ q.arg = Request(w, n)[2]
    BY <1>2, <2>2 DEF Serves, VaultInv, Asked
  <2>4. q.kind # "delete"
    BY <2>3, Asks
  <2>5. Past(w) = n - 1 /\ writer'[w].step = n
    BY <2>1, <2>2 DEF Past, Serves
  <2>6. reply'[w].st # "ok" => Past(w)' = Past(w)
    BY <2>2, <2>5 DEF Past
  <2>7. reply'[w].st = "ok" => Past(w)' = n
    BY <2>5 DEF Past
  <2>8. n = writer[w].step
    BY <2>2
  <2> QED
    BY Zenon, <1>2, <2>1, <2>3, <2>4, <2>5, <2>6, <2>7, <2>8
<1> QED
  BY <1>1, <1>2

\* Serving keeps the order of what is left in the pipe.
LEMMA ServeOrders ==
    ASSUME VaultInv, NEW q, Serves(q)
    PROVE  Asked' /\ DeletesFirst' /\ NoWrites'
<1>1. \A i \in Requests' : i \in Nat /\ i + 1 \in Requests /\ pipe'[i] = pipe[i + 1] /\ i + 1 > 1
  BY DEF Serves
<1>2. 1 \in Requests /\ q = pipe[1] /\ UNCHANGED <<lease, writer, gc, reader, used>>
  BY DEF Serves
<1>3. \A i, j \in Requests' : i < j => i + 1 < j + 1
  BY <1>1
<1>4. Asked'
  <2>1. ASSUME NEW i \in Requests', NEW w \in Writers, pipe'[i].from = w
        PROVE  /\ pipe'[i].kind = Request(w, writer[w].step)'[1]
               /\ pipe'[i].arg = Request(w, writer[w].step)'[2]
    <3>1. i + 1 \in Requests /\ pipe'[i] = pipe[i + 1] /\ writer'[w] = writer[w]
      BY <1>1, <1>2
    <3>2. PICK j \in Requests : pipe'[i] = pipe[j]
      BY <3>1
    <3> QED
      BY <2>1, <3>1, <3>2, AskedSave
  <2>2. \A i \in Requests' : pipe'[i].from = Gc /\ gc'.st = "refs" => pipe'[i].kind = "refs"
    BY <1>1, <1>2 DEF VaultInv, Asked
  <2> QED
    BY <2>1, <2>2 DEF Asked
<1>5. DeletesFirst'
  <2>1. \A i, j \in Requests' : pipe'[i].kind = "write" => pipe'[j].kind # "delete"
    BY <1>1 DEF VaultInv, DeletesFirst
  <2>2. \A i, j \in Requests' : pipe'[i].from \in Writers /\ i < j => pipe'[j].kind # "delete"
    BY <1>1, <1>3 DEF VaultInv, DeletesFirst
  <2>3. \A w \in Writers : writer'[w].st = "run" /\ Past(w)' > 0 =>
          \A j \in Requests' : pipe'[j].kind # "delete"
    <3> SUFFICES ASSUME NEW w \in Writers, writer'[w].st = "run", Past(w)' > 0,
                        NEW j \in Requests'
                 PROVE  pipe'[j].kind # "delete"
      OBVIOUS
    <3>1. CASE Past(w)' = Past(w)
      BY <1>1, <1>2, <3>1 DEF VaultInv, DeletesFirst
    <3>2. CASE w = q.from
      <4>1. pipe[1].from \in Writers /\ 1 < j + 1 /\ j + 1 \in Requests
        BY <1>1, <1>2, <3>2
      <4> QED
        BY <1>1, <1>2, <4>1 DEF VaultInv, DeletesFirst
    <3> QED
      BY <3>1, <3>2, ServedSave
  <2> QED
    BY <2>1, <2>2, <2>3 DEF DeletesFirst
<1>6. NoWrites'
  <2>1. \A i, j \in Requests' : pipe'[i].from = Gc /\ i < j => pipe'[j].kind # "write"
    BY <1>1, <1>3 DEF VaultInv, NoWrites
  <2>2. ASSUME gc'.st \in {"refs", "inspect", "delete"} \/ (gc'.st = "list" /\ reply'[Gc].st = "ok"),
               NEW j \in Requests'
        PROVE  pipe'[j].kind # "write"
    <3>1. CASE gc.st \in {"refs", "inspect", "delete"} \/ (gc.st = "list" /\ reply[Gc].st = "ok")
      BY <1>1, <3>1 DEF VaultInv, NoWrites
    <3>2. CASE Gc = q.from
      <4>1. pipe[1].from = Gc /\ 1 < j + 1 /\ j + 1 \in Requests
        BY <1>1, <1>2, <3>2
      <4> QED
        BY <1>1, <1>2, <4>1 DEF VaultInv, NoWrites
    <3>3. Gc = q.from \/ reply'[Gc] = reply[Gc]
      BY ActorFacts DEF Serves
    <3> QED
      BY <1>2, <2>2, <3>1, <3>2, <3>3
  <2> QED
    BY <2>1, <2>2 DEF NoWrites
<1> QED
  BY <1>4, <1>5, <1>6

\* What a save was told is stored or written is.
LEMMA ServeSeals ==
    ASSUME VaultInv, NEW q, Serves(q)
    PROVE  Sealing'
<1>1. /\ \A i \in Requests' : i + 1 \in Requests /\ pipe'[i] = pipe[i + 1]
      /\ 1 \in Requests /\ q = pipe[1] /\ writer' = writer /\ q.kind \in Kinds
      /\ q.kind # "delete" => StoredKept
      /\ \A row : Done(row) => Done(row)'
  BY DEF Serves
<1>2. \A i \in Requests' : pipe'[i].kind = "write" =>
         \A ref \in SnapshotRefs(pipe'[i].arg.man) : Stored(ref)'
  <2> SUFFICES ASSUME NEW i \in Requests', pipe'[i].kind = "write",
                      NEW ref \in SnapshotRefs(pipe'[i].arg.man)
               PROVE  Stored(ref)'
    OBVIOUS
  <2>1. PICK j \in Requests : pipe'[i] = pipe[j]
    BY <1>1
  <2>2. q.kind # "delete"
    BY <1>1, <2>1 DEF VaultInv, DeletesFirst
  <2>3. Stored(ref)
    BY <2>1 DEF VaultInv, Sealing
  <2> QED
    BY <1>1, <2>2, <2>3 DEF StoredKept
<1>3. ASSUME NEW w \in Writers, writer'[w].st = "run"
      PROVE  /\ \A n \in 1..ManifestStep : n <= Past(w)' => Stored(Request(w, n)[2])'
             /\ Past(w)' >= WriteStep => Done(Row(w))'
  <2>1. writer[w].st = "run" /\ writer'[w] = writer[w] /\ Past(w) \in Int
    BY <1>1, <1>3, PastFacts
  <2>2. CASE Past(w)' = Past(w) /\ ~(Past(w) > 0)
    BY <2>1, <2>2, Steps
  <2>3. CASE Past(w)' = Past(w) /\ Past(w) > 0
    <3>1. q.kind # "delete"
      BY <1>1, <2>1, <2>3 DEF VaultInv, DeletesFirst
    <3>2. Past(w)' <= Past(w) /\ Past(w)' \in Int
      BY <2>1, <2>3
    <3> QED
      BY <1>1, <2>1, <3>1, <3>2, SealedSave
  <2>4. ASSUME w = q.from, reply'[w].st = "ok", reply'[w] = Answer(q), NEW k \in 1..LastStep,
               k = writer[w].step, Past(w)' = k, Past(w) = k - 1,
               q.kind = Request(w, k)[1], q.arg = Request(w, k)[2]
        PROVE  /\ \A n \in 1..ManifestStep : n <= Past(w)' => Stored(Request(w, n)[2])'
               /\ Past(w)' >= WriteStep => Done(Row(w))'
    <3>1. q.kind # "delete"
      BY <2>4, Asks
    <3>2. /\ \A m \in 1..LastStep : Request(w, m)' = Request(w, m)
          /\ Row(w)' = Row(w)
      BY <2>1, SameRequests
    <3>3. ASSUME NEW n \in 1..ManifestStep, n <= k
          PROVE  Stored(Request(w, n)[2])'
      <4>1. n \in 1..LastStep
        BY Steps
      <4>2. PICK ref : ref = Request(w, n)[2]
        OBVIOUS
      <4>3. Request(w, n)'[2] = ref
        BY <3>2, <4>1, <4>2
      <4>4. CASE n <= Past(w)
        <5>1. Stored(ref)
          BY <2>1, <4>2, <4>4 DEF VaultInv, Sealing
        <5>2. Stored(ref)'
          BY <1>1, <3>1, <5>1 DEF StoredKept
        <5> QED
          BY <4>3, <5>2 DEF Stored
      <4>5. CASE n = k
        <5>1. q.kind = "seal" /\ q.arg = ref
          BY <2>4, <4>2, <4>5, Asks
        <5>2. SealAccepts(q.arg)
          BY <2>4, <5>1, Answers DEF Error
        <5>3. Stored(ref)'
          BY <5>1, <5>2 DEF Serves
        <5> QED
          BY <4>3, <5>3 DEF Stored
      <4>6. n <= k - 1 \/ n = k
        BY <3>3
      <4> QED
        BY <2>4, <4>4, <4>5, <4>6
    <3>4. k >= WriteStep => Done(Row(w))'
      <4> SUFFICES ASSUME k >= WriteStep PROVE Done(Row(w))'
        OBVIOUS
      <4>1. PICK row : row = Row(w)
        OBVIOUS
      <4>2. Row(w)' = row
        BY <3>2, <4>1
      <4>3. CASE Past(w) >= WriteStep
        <5>1. Done(row)
          BY <2>1, <4>1, <4>3 DEF VaultInv, Sealing
        <5>2. Done(row)'
          BY <1>1, <5>1
        <5> QED
          BY <4>2, <5>2 DEF Done
      <4>4. CASE k = WriteStep
        <5>1. q.kind = "write" /\ q.arg = row
          BY <2>4, <4>1, <4>4, Asks
        <5>2. WriteAccepts(q.arg)
          BY <2>4, <5>1, Answers DEF Error
        <5>3. Done(row)'
          BY <5>1, <5>2 DEF Serves
        <5> QED
          BY <4>2, <5>3 DEF Done
      <4>5. k - 1 >= WriteStep \/ k = WriteStep
        BY Steps
      <4> QED
        BY <2>4, <4>3, <4>4, <4>5
    <3> QED
      BY <2>4, <3>3, <3>4
  <2> QED
    BY <2>2, <2>3, <2>4, ServedSave
<1> QED
  BY <1>2, <1>3 DEF Sealing

\* Every row of the history is among the rows the host lists.
LEMMA RowsListed ==
    ASSUME Laid
    PROVE  /\ Len(Rows) \in Nat
           /\ \A i \in 1..Len(hist) : \E k \in 1..Len(Rows) : Rows[k] = hist[i]
<1>1. hist \in Seq(Entries(hist)) /\ Len(hist) \in Nat
  BY LenProperties DEF Laid
<1>2. CASE hist = <<>>
  BY <1>2 DEF Rows
<1>3. CASE hist # <<>>
  <2> DEFINE S == Entries(hist)
             last == <<hist[Len(hist)]>>
  <2>1. Len(hist) > 0 /\ hist[Len(hist)] \in S
    BY <1>1, <1>3, EmptySeq DEF Entries
  <2> HIDE DEF S
  <2>2. hist \in Seq(S)
    BY <1>1 DEF S
  <2>3. last \in Seq(S) /\ Len(last) = 1
    BY <2>1
  <2>4. Rows = (last \o hist) \o hist
    BY <1>3 DEF Rows
  <2> HIDE DEF last
  <2>5. PICK a : a = last \o hist
    OBVIOUS
  <2>6. /\ a \in Seq(S) /\ Len(a) = Len(hist) + 1
        /\ \A i \in 1..Len(a) : a[i] = IF i <= 1 THEN last[i] ELSE hist[i - 1]
    <3>1. /\ last \o hist \in Seq(S) /\ Len(last \o hist) = Len(last) + Len(hist)
          /\ \A i \in 1..(Len(last) + Len(hist)) :
               (last \o hist)[i] = IF i <= Len(last) THEN last[i] ELSE hist[i - Len(last)]
      BY Zenon, <2>2, <2>3, ConcatProperties
    <3> QED
      BY <1>1, <2>3, <2>5, <3>1
  <2>7. /\ Rows \in Seq(S) /\ Len(Rows) = Len(a) + Len(hist)
        /\ \A i \in 1..Len(Rows) : Rows[i] = IF i <= Len(a) THEN a[i] ELSE hist[i - Len(a)]
    <3>1. /\ a \o hist \in Seq(S) /\ Len(a \o hist) = Len(a) + Len(hist)
          /\ \A i \in 1..(Len(a) + Len(hist)) :
               (a \o hist)[i] = IF i <= Len(a) THEN a[i] ELSE hist[i - Len(a)]
      BY Zenon, <2>2, <2>6, ConcatProperties
    <3>2. Rows = a \o hist
      BY <2>4, <2>5
    <3> QED
      BY <3>1, <3>2
  <2>8. ASSUME NEW i \in 1..Len(hist)
        PROVE  \E k \in 1..Len(Rows) : Rows[k] = hist[i]
    <3>1. i + 1 \in 1..Len(a) /\ ~(i + 1 <= 1) /\ (i + 1) - 1 = i
      BY <1>1, <2>6
    <3>2. a[i + 1] = hist[i]
      BY <2>6, <3>1
    <3>3. i + 1 \in 1..Len(Rows) /\ i + 1 <= Len(a)
      BY <1>1, <2>6, <2>7, <3>1
    <3>4. Rows[i + 1] = a[i + 1]
      BY <2>7, <3>3
    <3> QED
      BY <3>2, <3>3, <3>4
  <2>9. Len(Rows) \in Nat
    BY <1>1, <2>6, <2>7
  <2> QED
    BY <2>8, <2>9
<1> QED
  BY <1>2, <1>3

\* A page of references goes on where the pages before it ended.
LEMMA PageCovers ==
    ASSUME Laid, NEW S, NEW c \in Nat, Covered(S, c)
    PROVE  /\ ReferencePage(c).next = 0 => Mans \subseteq S \cup ReferencePage(c).refs
           /\ ReferencePage(c).next # 0 =>
                /\ ReferencePage(c).next \in Nat
                /\ Covered(S \cup ReferencePage(c).refs, ReferencePage(c).next)
<1>1. PICK last : last = IF c + PageLimit < Len(Rows) THEN c + PageLimit ELSE Len(Rows)
  OBVIOUS
<1>2. PICK page : page = ReferencePage(c)
  OBVIOUS
<1>3. /\ page.refs = {Rows[i].man : i \in (c + 1)..last} \ {NoRef}
      /\ page.next = IF last = Len(Rows) THEN 0 ELSE last
  BY <1>1, <1>2 DEF ReferencePage
<1>4. last \in Nat /\ (last # Len(Rows) => last # 0) /\ Len(Rows) \in Nat
  BY <1>1, Numbers, RowsListed
<1>5. ASSUME NEW k \in 1..Len(Rows), k <= last, Rows[k].man # NoRef
      PROVE  Rows[k].man \in S \cup page.refs
  <2>1. CASE k <= c
    BY <1>5, <2>1 DEF Covered
  <2>2. CASE k > c
    <3>1. k \in (c + 1)..last
      BY <1>4, <1>5, <2>2
    <3> QED
      BY <1>3, <1>5, <3>1
  <2> QED
    BY <1>4, <2>1, <2>2
<1>6. CASE last = Len(Rows)
  <2>1. \A k \in 1..Len(Rows) : k <= last
    BY <1>4, <1>6
  <2>2. Mans \subseteq S \cup page.refs
    <3> SUFFICES ASSUME NEW i \in 1..Len(hist), hist[i].man # NoRef
                 PROVE  hist[i].man \in S \cup page.refs
      BY DEF Mans
    <3>1. PICK k \in 1..Len(Rows) : Rows[k] = hist[i]
      BY RowsListed
    <3> QED
      BY <1>5, <2>1, <3>1
  <2> QED
    BY <1>2, <1>3, <1>6, <2>2
<1>7. CASE last # Len(Rows)
  <2>1. page.next = last /\ last # 0
    BY <1>3, <1>4, <1>7
  <2>2. Covered(S \cup page.refs, last)
    BY <1>5 DEF Covered
  <2> QED
    BY <1>2, <1>4, <2>1, <2>2
<1> QED
  BY <1>6, <1>7

\* What the references of a served row become.
LEMMA ServedRows ==
    ASSUME VaultInv, NEW q, Serves(q)
    PROVE  /\ Mans \subseteq Mans'
           /\ q.kind # "write" => hist' = hist /\ Mans' = Mans
           /\ \A m \in Mans' : m \in Mans \/ (q.kind = "write" /\ m = q.arg.man)
<1>1. CASE hist' = hist
  BY <1>1, Referenced
<1>2. CASE q.kind = "write" /\ Longer(hist, hist', q.arg)
  BY <1>2 DEF Mans, Longer
<1> QED
  BY <1>1, <1>2 DEF Serves

\* A page of references continues the pages before it.
LEMMA ServeScans ==
    ASSUME VaultInv, NEW q, Serves(q)
    PROVE  Scanning'
<1> SUFFICES ASSUME gc'.st = "refs"
             PROVE  /\ \A i \in Requests' : pipe'[i].from = Gc =>
                         /\ pipe'[i].arg.cursor \in Nat
                         /\ Covered(gc.refs, pipe[i].arg.cursor)'
                    /\ reply'[Gc].st = "ok" =>
                         /\ reply'[Gc].val.next = 0 => Mans' \subseteq gc'.refs \cup reply'[Gc].val.refs
                         /\ reply'[Gc].val.next # 0 =>
                              /\ reply'[Gc].val.next \in Nat
                              /\ Covered(gc.refs \cup reply[Gc].val.refs, reply[Gc].val.next)'
  BY DEF Scanning
<1>1. /\ \A i \in Requests' : i + 1 \in Requests /\ pipe'[i] = pipe[i + 1]
      /\ 1 \in Requests /\ q = pipe[1] /\ gc' = gc
  BY DEF Serves
<1>2. q.kind # "write"
  BY <1>1 DEF VaultInv, NoWrites
<1>3. hist' = hist
  BY <1>2, ServedRows
<1>4. Mans' = Mans /\ \A S, n : Covered(S, n)' <=> Covered(S, n)
  BY <1>3, Referenced
<1>5. ASSUME NEW i \in Requests', pipe'[i].from = Gc
      PROVE  pipe'[i].arg.cursor \in Nat /\ Covered(gc.refs, pipe[i].arg.cursor)'
  <2>1. PICK j \in Requests : pipe'[i] = pipe[j]
    BY <1>1
  <2>2. PICK c : c = pipe[j].arg.cursor
    OBVIOUS
  <2>3. c \in Nat /\ Covered(gc.refs, c)
    BY <1>1, <1>5, <2>1, <2>2 DEF VaultInv, Scanning
  <2>4. Covered(gc.refs, c)'
    BY <1>1, <1>4, <2>3 DEF Covered
  <2> QED
    BY <2>1, <2>2, <2>3, <2>4 DEF Covered
<1>6. ASSUME reply'[Gc].st = "ok"
      PROVE  /\ reply'[Gc].val.next = 0 => Mans \subseteq gc.refs \cup reply'[Gc].val.refs
             /\ reply'[Gc].val.next # 0 =>
                  /\ reply'[Gc].val.next \in Nat
                  /\ Covered(gc.refs \cup reply'[Gc].val.refs, reply'[Gc].val.next)
  <2>1. CASE reply'[Gc] = reply[Gc]
    <3>1. PICK page : page = reply[Gc].val
      OBVIOUS
    <3>2. /\ page.next = 0 => Mans \subseteq gc.refs \cup page.refs
          /\ page.next # 0 => page.next \in Nat /\ Covered(gc.refs \cup page.refs, page.next)
      BY <1>1, <1>6, <2>1, <3>1 DEF VaultInv, Scanning
    <3> QED
      BY <2>1, <3>1, <3>2
  <2>2. CASE q.from = Gc
    <3>1. q.kind = "refs" /\ q.arg.cursor \in Nat /\ Covered(gc.refs, q.arg.cursor)
      BY <1>1, <2>2 DEF VaultInv, Asked, Scanning
    <3>2. reply'[Gc] = Answer(q)
      BY <2>2, ActorFacts DEF Serves
    <3>3. reply'[Gc].val = ReferencePage(q.arg.cursor)
      BY <3>1, <3>2, Answers DEF Ok
    <3>4. PICK c \in Nat : c = q.arg.cursor
      BY <3>1
    <3>5. Laid /\ Covered(gc.refs, c)
      BY <3>1, <3>4 DEF VaultInv
    <3>6. /\ ReferencePage(c).next = 0 => Mans \subseteq gc.refs \cup ReferencePage(c).refs
          /\ ReferencePage(c).next # 0 =>
               /\ ReferencePage(c).next \in Nat
               /\ Covered(gc.refs \cup ReferencePage(c).refs, ReferencePage(c).next)
      BY <3>5, PageCovers
    <3> QED
      BY <3>3, <3>4, <3>6
  <2> QED
    BY <2>1, <2>2, ActorFacts DEF Serves
<1>7. ASSUME reply'[Gc].st = "ok", reply'[Gc].val.next # 0
      PROVE  Covered(gc.refs \cup reply[Gc].val.refs, reply[Gc].val.next)'
  <2>1. PICK S, n : S = gc.refs \cup reply'[Gc].val.refs /\ n = reply'[Gc].val.next
    OBVIOUS
  <2>2. Covered(S, n)
    BY <1>6, <1>7, <2>1
  <2>3. Covered(S, n)'
    BY <1>4, <2>2
  <2> QED
    BY <1>1, <2>1, <2>3 DEF Covered
<1> QED
  BY <1>1, <1>4, <1>5, <1>6, <1>7

\* Serving a request preserves the invariant.
LEMMA ServeKeeps ==
    ASSUME VaultInv, Serve
    PROVE  VaultInv'
<1>1. PICK q : Serves(q)
  BY ServeFacts
<1>2. /\ \A i \in Requests' : i + 1 \in Requests /\ pipe'[i] = pipe[i + 1]
      /\ 1 \in Requests /\ q = pipe[1] /\ q.kind \in Kinds
      /\ UNCHANGED <<lease, writer, gc, reader, used>> /\ DOMAIN reply' = Actors
      /\ \A a \in Actors : \/ a = q.from /\ reply[a].st = "wait" /\ reply'[a] = Answer(q)
                           \/ reply'[a] = reply[a]
      /\ Piped' /\ Pending'
  BY <1>1 DEF Serves
<1>3. Asked' /\ DeletesFirst' /\ NoWrites' /\ Sealing' /\ Scanning'
  BY <1>1, ServeOrders, ServeSeals, ServeScans
<1>4. /\ Mans \subseteq Mans'
      /\ q.kind # "write" => hist' = hist /\ Mans' = Mans
      /\ \A m \in Mans' : m \in Mans \/ (q.kind = "write" /\ m = q.arg.man)
  BY <1>1, ServedRows
<1>5. Laid'
  <2>1. hist' \in Seq(Entries(hist'))
    BY <1>1 DEF Serves, Longer, VaultInv, Laid
  <2>2. \A r \in vault' : DOMAIN r = {"ref", "old"}
    BY <1>1 DEF Serves, VaultInv, Laid
  <2> QED
    BY <1>2, <2>1, <2>2 DEF VaultInv, Laid, Entries
<1>6. \A a \in Actors : reply'[a].st = "idle" <=> reply[a].st = "idle"
  BY <1>2, AnswerStatus
<1>7. Idling'
  BY <1>2, <1>6, ActorFacts DEF VaultInv, Idling
<1>8. Leased'
  BY <1>2 DEF VaultInv, Leased, Holds
<1>9. Keeping'
  <2>1. gc'.st \in {"inspect", "delete"} => Mans' = Mans
    <3>1. gc'.st \in {"inspect", "delete"} => q.kind # "write"
      BY <1>2 DEF VaultInv, NoWrites
    <3> QED
      BY <1>4, <3>1
  <2>2. ASSUME NEW i \in Requests', pipe'[i].kind = "delete", NEW m \in Mans'
        PROVE  Kept(m) \cap pipe'[i].arg.ids = {}
    <3>1. PICK j \in Requests : pipe'[i] = pipe[j]
      BY <1>2
    <3>2. q.kind # "write"
      BY <1>2, <2>2, <3>1 DEF VaultInv, DeletesFirst
    <3> QED
      BY <1>4, <2>2, <3>1, <3>2 DEF VaultInv, Keeping
  <2>3. gc'.st = "inspect" => \A m \in Mans' : m \in gc'.todo \cup gc'.refs \/ Kept(m) \subseteq gc'.keep
    BY <1>2, <2>1 DEF VaultInv, Keeping
  <2>4. gc'.st = "delete" => \A m \in Mans' : Kept(m) \cap gc'.del = {}
    BY <1>2, <2>1 DEF VaultInv, Keeping
  <2> QED
    BY <2>2, <2>3, <2>4 DEF Keeping
<1>10. Reading'
  <2>1. \A i \in Requests' : pipe'[i].from = Reader =>
          \/ reader'.st = "row" /\ pipe'[i].kind = "get"
          \/ reader'.st = "open" /\ pipe'[i].kind = "open" /\ pipe'[i].arg \in SnapshotRefs(reader'.man)
    BY <1>2 DEF VaultInv, Reading
  <2>2. ASSUME reader.st = "row", reply'[Reader].st = "ok"
        PROVE  reply'[Reader].val \in Mans' \cup {NoRef}
    <3>1. CASE reply'[Reader] = reply[Reader]
      BY <1>4, <2>2, <3>1 DEF VaultInv, Reading
    <3>2. CASE Reader = q.from /\ reply'[Reader] = Answer(q)
      <4>1. q.kind = "get"
        BY <1>2, <2>2, <3>2 DEF VaultInv, Reading
      <4>2. reply'[Reader].val = IF hist = <<>> THEN NoRef ELSE hist[Len(hist)].man
        BY <3>2, <4>1, Answers DEF Ok
      <4>3. hist # <<>> => Len(hist) \in 1..Len(hist)
        <5>1. hist \in Seq(Entries(hist))
          BY DEF VaultInv, Laid
        <5>2. Len(hist) \in Nat /\ (hist # <<>> => Len(hist) # 0)
          BY <5>1, EmptySeq, LenProperties
        <5> QED
          BY <5>2
      <4>4. reply'[Reader].val \in Mans \cup {NoRef}
        BY <4>2, <4>3 DEF Mans
      <4> QED
        BY <1>4, <4>4
    <3> QED
      BY <1>2, <3>1, <3>2, ActorFacts
  <2>3. /\ reader'.next \in 0..(Chunks + 1)
        /\ reader'.st = "open" => reader'.man \in Mans'
        /\ reader'.st = "row" => reader'.next = 0
    BY <1>2, <1>4 DEF VaultInv, Reading
  <2> QED
    BY <1>2, <2>1, <2>2, <2>3 DEF Reading
<1>11. ReferencedIsStored'
  <2> SUFFICES ASSUME NEW m \in Mans', NEW ref \in SnapshotRefs(m)
               PROVE  Stored(ref)'
    <3>1. hist' \in Seq(Entries(hist'))
      BY <1>5 DEF Laid, Entries
    <3>2. DOMAIN hist' = 1..Len(hist')
      BY <3>1, LenProperties
    <3> QED
      BY <3>2 DEF ReferencedIsStored, Mans
  <2>1. Stored(ref)
    <3>1. CASE m \in Mans
      <4>1. DOMAIN hist = 1..Len(hist)
        BY LenProperties DEF VaultInv, Laid
      <4> QED
        BY <3>1, <4>1 DEF VaultInv, ReferencedIsStored, Mans
    <3>2. CASE q.kind = "write" /\ m = q.arg.man
      BY <1>2, <3>2 DEF VaultInv, Sealing
    <3> QED
      BY <1>4, <3>1, <3>2
  <2>2. CASE q.kind # "delete"
    BY <1>1, <2>1, <2>2 DEF Serves, StoredKept
  <2>3. CASE q.kind = "delete"
    <3>1. m \in Mans
      BY <1>4, <2>3
    <3>2. Kept(m) \cap q.arg.ids = {}
      BY <1>2, <2>3, <3>1 DEF VaultInv, Keeping
    <3>3. ref.id \in Kept(m)
      BY DEF Kept
    <3> QED
      BY <1>1, <2>1, <2>3, <3>2, <3>3 DEF Serves
  <2> QED
    BY <2>2, <2>3
<1>12. FinishedIsWritten'
  <2> SUFFICES ASSUME NEW w \in Writers, writer'[w].st = "done"
               PROVE  \E i \in DOMAIN hist' :
                        hist'[i] = [op |-> w, ver |-> writer'[w].ver, man |-> Manifest(w)']
    BY DEF FinishedIsWritten
  <2>1. PICK row : row = [op |-> w, ver |-> writer[w].ver, man |-> Manifest(w)]
    OBVIOUS
  <2>2. Done(row)
    BY <1>2, <2>1 DEF VaultInv, FinishedIsWritten, Done
  <2>3. Done(row)'
    BY <1>1, <2>2 DEF Serves
  <2>4. row = [op |-> w, ver |-> writer'[w].ver, man |-> Manifest(w)']
    BY <1>2, <2>1 DEF Manifest
  <2> QED
    BY <2>3, <2>4 DEF Done
<1>13. VaultTypeOK'
  <2>1. \A r \in vault' : r.ref.id \in 1..Top /\ r.old \in BOOLEAN
    <3> SUFFICES ASSUME NEW r \in vault' PROVE r.ref.id \in 1..Top /\ r.old \in BOOLEAN
      OBVIOUS
    <3>1. CASE r \in vault
      BY <3>1 DEF VaultInv, VaultTypeOK, Top
    <3>2. CASE q.kind = "seal" /\ r = [ref |-> q.arg, old |-> FALSE]
      <4>1. q.arg.id \in 1..Top
        BY <1>2, <3>2 DEF VaultInv, Piped
      <4> QED
        BY <3>2, <4>1
    <3> QED
      BY <1>1, <3>1, <3>2 DEF Serves
  <2>2. \A i \in DOMAIN hist' : hist'[i].ver = i
    <3>1. CASE hist' = hist
      BY <3>1 DEF VaultInv, VaultTypeOK
    <3>2. CASE WriteAccepts(q.arg) /\ ~Done(q.arg) /\ Longer(hist, hist', q.arg)
      <4>1. q.arg.ver = Len(hist) + 1
        BY <3>2 DEF WriteAccepts
      <4>2. DOMAIN hist = 1..Len(hist) /\ DOMAIN hist' = 1..Len(hist')
        BY <3>2, LenProperties DEF VaultInv, Laid, Longer
      <4> QED
        BY <3>2, <4>1, <4>2 DEF Longer, VaultInv, VaultTypeOK
    <3> QED
      BY <1>1, <3>1, <3>2 DEF Serves
  <2>3. \A a \in Actors : reply'[a].st \in {"idle", "wait", "ok", "err"}
    BY <1>2, AnswerStatus DEF VaultInv, VaultTypeOK
  <2> QED
    BY <1>2, <2>1, <2>2, <2>3 DEF VaultInv, VaultTypeOK, Top
<1> QED
  BY <1>2, <1>3, <1>5, <1>7, <1>8, <1>9, <1>10, <1>11, <1>12, <1>13 DEF VaultInv

----------------------------------------------------------------------------
(* Time, a crash and the beginning *)

\* A step after which no actor goes on: a caller may have stopped waiting.
LEMMA QuietKeeps ==
    ASSUME VaultInv, UNCHANGED <<hist, lease, writer, gc, reader>>,
           StoredKept, \A r \in vault' : \E s \in vault : r.ref = s.ref /\ r.old \in BOOLEAN,
           \A r \in vault' : DOMAIN r = {"ref", "old"},
           Requests' = Requests, pipe' \in Seq(Entries(pipe')),
           \A i \in Requests : /\ DOMAIN pipe'[i] = {"kind", "from", "arg"}
                               /\ pipe'[i].kind = pipe[i].kind /\ pipe'[i].arg = pipe[i].arg
                               /\ pipe'[i].from \in {pipe[i].from, NoOne},
           DOMAIN reply' = Actors,
           \A a \in Actors :
              \/ reply'[a] = reply[a]
              \/ /\ reply[a].st = "wait" /\ reply'[a].st = "err"
                 /\ \A i \in Requests : pipe'[i].from # a,
           DOMAIN used' = DOMAIN used, used'.timeouts \in Nat
    PROVE  VaultInv'
<1>1. Piped'
  <2>1. /\ \A i \in Requests : pipe[i].kind \in Kinds /\ pipe[i].from \in Actors \cup {NoOne}
        /\ \A i \in Requests : pipe[i].kind = "seal" => pipe[i].arg.id \in 1..Top
    BY DEF VaultInv, Piped
  <2>2. ASSUME NEW i \in Requests
        PROVE  /\ DOMAIN pipe'[i] = {"kind", "from", "arg"}
               /\ pipe'[i].kind \in Kinds /\ pipe'[i].from \in Actors \cup {NoOne}
               /\ pipe'[i].kind = "seal" => pipe'[i].arg.id \in 1..Top
    BY <2>1
  <2> QED
    BY <2>2 DEF Piped, Entries, Top
<1>2. Laid'
  BY DEF VaultInv, Laid, Entries
<1>3. Pending'
  <2>1. \A i \in Requests : pipe'[i].from # NoOne => pipe'[i].from = pipe[i].from /\ pipe[i].from \in Actors
    BY DEF VaultInv, Piped
  <2>2. \A i \in Requests : pipe'[i].from # NoOne => reply'[pipe'[i].from].st = "wait"
    BY <2>1 DEF VaultInv, Pending
  <2>3. \A i, j \in Requests : i # j /\ pipe'[i].from = pipe'[j].from => pipe'[i].from = NoOne
    BY <2>1 DEF VaultInv, Pending
  <2> QED
    BY <2>2, <2>3 DEF Pending
<1>4. \A a \in Actors : /\ reply'[a].st = "idle" <=> reply[a].st = "idle"
                        /\ reply'[a].st = "ok" => reply'[a] = reply[a]
                        /\ reply[a].st = "ok" => reply'[a] = reply[a]
  OBVIOUS
<1>5. Idling'
  BY <1>4, ActorFacts DEF VaultInv, Idling
<1>6. Leased'
  BY DEF VaultInv, Leased, Holds
<1>7. \A w \in Writers : Past(w)' = Past(w)
  BY <1>4, ActorFacts DEF Past
<1>8. Asked'
  <2>1. ASSUME NEW i \in Requests, NEW w \in Writers, pipe'[i].from = w
        PROVE  /\ pipe'[i].kind = Request(w, writer[w].step)'[1]
               /\ pipe'[i].arg = Request(w, writer[w].step)'[2]
    <3>1. pipe[i].from = w /\ writer'[w] = writer[w]
      BY <2>1, ActorFacts
    <3> QED
      BY <3>1, AskedSave
  <2>2. \A i \in Requests : pipe'[i].from = Gc /\ gc'.st = "refs" => pipe'[i].kind = "refs"
    BY ActorFacts DEF VaultInv, Asked
  <2> QED
    BY <2>1, <2>2 DEF Asked
<1>9. \A i \in Requests : pipe'[i].from \in Actors => pipe'[i].from = pipe[i].from
  BY ActorFacts
<1>10. DeletesFirst'
  BY <1>7, <1>9, ActorFacts DEF VaultInv, DeletesFirst
<1>11. \A row : Done(row)' <=> Done(row)
  BY Referenced
<1>12. Sealing'
  <2>1. \A i \in Requests' : pipe'[i].kind = "write" =>
          \A ref \in SnapshotRefs(pipe'[i].arg.man) : Stored(ref)'
    BY DEF VaultInv, Sealing, StoredKept
  <2>2. \A w \in Writers : writer'[w].st = "run" =>
          /\ \A n \in 1..ManifestStep : n <= Past(w)' => Stored(Request(w, n)[2])'
          /\ Past(w)' >= WriteStep => Done(Row(w))'
    <3> SUFFICES ASSUME NEW w \in Writers, writer'[w].st = "run"
                 PROVE  /\ \A n \in 1..ManifestStep : n <= Past(w)' => Stored(Request(w, n)[2])'
                        /\ Past(w)' >= WriteStep => Done(Row(w))'
      OBVIOUS
    <3>1. Past(w)' <= Past(w) /\ Past(w)' \in Int /\ writer'[w] = writer[w]
      BY <1>7, PastFacts
    <3> QED
      BY <1>11, <3>1, SealedSave
  <2> QED
    BY <2>1, <2>2 DEF Sealing
<1>13. NoWrites'
  BY <1>4, <1>9, ActorFacts DEF VaultInv, NoWrites
<1>14. Mans' = Mans /\ \A S, n : Covered(S, n)' <=> Covered(S, n)
  BY Referenced
<1>15. Scanning'
  <2>1. \A i \in Requests' : pipe'[i].from = Gc =>
          \E j \in Requests : pipe[j].from = Gc /\ pipe'[i].arg = pipe[j].arg
    BY <1>9, ActorFacts
  <2>2. reply'[Gc].st = "ok" => reply'[Gc] = reply[Gc]
    BY <1>4, ActorFacts
  <2> QED
    BY <1>14, <2>1, <2>2, ScanningStays DEF VaultInv
<1>16. Keeping'
  BY <1>14 DEF VaultInv, Keeping
<1>17. Reading'
  BY <1>4, <1>9, <1>14, ActorFacts DEF VaultInv, Reading
<1>18. ReferencedIsStored'
  BY DEF VaultInv, ReferencedIsStored, StoredKept
<1>19. FinishedIsWritten'
  BY DEF VaultInv, FinishedIsWritten, Manifest
<1>20. VaultTypeOK'
  BY DEF VaultInv, VaultTypeOK
<1> QED
  BY <1>1, <1>2, <1>3, <1>5, <1>6, <1>8, <1>10, <1>12, <1>13, <1>15, <1>16, <1>17, <1>18, <1>19,
     <1>20 DEF VaultInv

\* A step that changes nothing preserves the invariant.
LEMMA StutterKeeps ==
    ASSUME VaultInv, UNCHANGED vars
    PROVE  VaultInv'
<1>1. UNCHANGED <<vault, hist, pipe, reply, lease, writer, gc, reader, used>> /\ Requests' = Requests
  BY DEF vars, Requests
<1>2. StoredKept
  BY <1>1 DEF StoredKept, Stored
<1>3. \A r \in vault : DOMAIN r = {"ref", "old"} /\ r.old \in BOOLEAN
  BY DEF VaultInv, Laid, VaultTypeOK
<1>4. /\ \A i \in Requests : DOMAIN pipe[i] = {"kind", "from", "arg"}
      /\ pipe \in Seq(Entries(pipe)) /\ DOMAIN reply = Actors /\ used.timeouts \in Nat
  BY DEF VaultInv, Piped, Laid
<1> QED
  BY <1>1, <1>2, <1>3, <1>4, QuietKeeps

\* A caller that stops waiting preserves the invariant.
LEMMA TimeoutKeeps ==
    ASSUME VaultInv, NEW a \in Actors, Timeout(a)
    PROVE  VaultInv'
<1>1. pipe \in Seq(Entries(pipe))
  BY DEF VaultInv, Piped
<1>2. DOMAIN pipe = Requests /\ Len(pipe) \in Nat
  BY <1>1, LenProperties DEF Requests
<1>3. /\ pipe' = [i \in Requests |-> IF pipe[i].from = a THEN [pipe[i] EXCEPT !.from = NoOne] ELSE pipe[i]]
      /\ reply[a].st = "wait" /\ reply' = [reply EXCEPT ![a] = Error]
      /\ used' = [used EXCEPT !.timeouts = @ + 1]
      /\ UNCHANGED <<vault, hist, lease, writer, gc, reader>>
  BY <1>2 DEF Timeout
<1>4. \A i \in Requests : DOMAIN pipe[i] = {"kind", "from", "arg"}
  BY DEF VaultInv, Piped
<1>5. \A i \in Requests : /\ DOMAIN pipe'[i] = {"kind", "from", "arg"}
                          /\ pipe'[i].kind = pipe[i].kind /\ pipe'[i].arg = pipe[i].arg
                          /\ pipe'[i].from \in {pipe[i].from, NoOne} /\ pipe'[i].from # a
  BY <1>3, <1>4, ActorFacts
<1>6. DOMAIN pipe' = 1..Len(pipe)
  BY <1>3 DEF Requests
<1>7. PICK S : S = {pipe'[i] : i \in 1..Len(pipe)}
  OBVIOUS
<1>8. pipe' \in [1..Len(pipe) -> S]
  <2>1. \A i \in 1..Len(pipe) : pipe'[i] \in S
    BY <1>7
  <2>2. pipe' = [i \in 1..Len(pipe) |-> pipe'[i]]
    BY <1>3, <1>6 DEF Requests
  <2> QED
    BY <2>1, <2>2
<1>9. pipe' \in Seq(S) /\ Len(pipe') = Len(pipe)
  BY <1>2, <1>6, <1>8
<1>10. pipe' \in Seq(Entries(pipe')) /\ Requests' = Requests
  BY <1>9, OwnEntries DEF Requests
<1>11. DOMAIN reply = Actors /\ used.timeouts \in Nat
       /\ DOMAIN used = {"tries", "reads", "timeouts", "crashes"}
  BY DEF VaultInv, Laid
<1>12. /\ DOMAIN reply' = Actors /\ reply'[a].st = "err"
       /\ \A b \in Actors : b # a => reply'[b] = reply[b]
  BY <1>3, <1>11 DEF Error
<1>13. DOMAIN used' = DOMAIN used /\ used'.timeouts \in Nat
  BY <1>3, <1>11
<1>14. StoredKept /\ \A r \in vault' : DOMAIN r = {"ref", "old"}
  BY <1>3 DEF StoredKept, Stored, VaultInv, Laid
<1>15. \A r \in vault' : \E s \in vault : r.ref = s.ref /\ r.old \in BOOLEAN
  BY <1>3 DEF VaultInv, VaultTypeOK
<1> QED
  BY <1>3, <1>5, <1>10, <1>12, <1>13, <1>14, <1>15, QuietKeeps

\* Time preserves the invariant.
LEMMA AgeKeeps ==
    ASSUME VaultInv, Age
    PROVE  VaultInv'
<1>1. /\ vault' = {[r EXCEPT !.old = TRUE] : r \in vault}
      /\ UNCHANGED <<hist, pipe, reply, lease, writer, gc, reader, used>> /\ Requests' = Requests
  BY DEF Age, Requests
<1>2. \A r \in vault : DOMAIN r = {"ref", "old"}
  BY DEF VaultInv, Laid
<1>3. /\ \A r \in vault : [r EXCEPT !.old = TRUE].ref = r.ref
      /\ \A r \in vault' : \E s \in vault : r.ref = s.ref /\ r.old \in BOOLEAN
      /\ \A r \in vault' : DOMAIN r = {"ref", "old"}
  BY <1>1, <1>2
<1>4. StoredKept
  BY <1>1, <1>3 DEF StoredKept, Stored
<1>5. /\ \A i \in Requests : DOMAIN pipe[i] = {"kind", "from", "arg"}
      /\ pipe \in Seq(Entries(pipe)) /\ DOMAIN reply = Actors /\ used.timeouts \in Nat
  BY DEF VaultInv, Piped, Laid
<1> QED
  BY <1>1, <1>3, <1>4, <1>5, QuietKeeps

\* A crash preserves the invariant.
LEMMA CrashKeeps ==
    ASSUME VaultInv, Crash
    PROVE  VaultInv'
<1>1. /\ pipe' = <<>> /\ reply' = [a \in Actors |-> Idle] /\ lease' = <<>>
      /\ writer' = [w \in Writers |-> IF writer[w].st = "run"
                                      THEN [writer[w] EXCEPT !.st = "failed"] ELSE writer[w]]
      /\ gc' = GcIdle("none") /\ reader' = [st |-> "idle", man |-> NoRef, next |-> 0]
      /\ UNCHANGED <<vault, hist>> /\ used' = [used EXCEPT !.crashes = @ + 1]
  BY DEF Crash
<1>2. Len(pipe') = 0 /\ Len(lease') = 0 /\ Requests' = {} /\ pipe' \in Seq(Entries(pipe'))
  BY <1>1, EmptySeq DEF Requests
<1>3. Piped' /\ Pending' /\ Asked' /\ NoWrites'
  BY <1>2 DEF Piped, Pending, Asked, NoWrites, Entries
<1>4. /\ \A a \in Actors : reply'[a].st = "idle"
      /\ DOMAIN reply' = Actors
      /\ DOMAIN gc' = GcFields /\ gc'.st = "idle"
      /\ reader'.st = "idle" /\ reader'.next = 0 /\ DOMAIN reader' = {"st", "man", "next"}
  BY <1>1 DEF GcIdle, GcFields, Idle
<1>5. /\ \A w \in Writers : /\ writer'[w].st \in {"idle", "done", "failed"}
                            /\ writer'[w].step \in 0..LastStep
                            /\ writer'[w].st = "done" => writer'[w] = writer[w]
      /\ writer' \in [Writers -> [st : {"idle", "run", "done", "failed"}, step : 0..LastStep,
                                  content : Content \cup {<<>>}, ver : 0..MaxVersion]]
  <2> DEFINE S == [st : {"idle", "run", "done", "failed"}, step : 0..LastStep,
                   content : Content \cup {<<>>}, ver : 0..MaxVersion]
  <2>1. writer \in [Writers -> S]
    BY DEF VaultInv, Laid
  <2>2. \A j \in S : /\ [j EXCEPT !.st = "failed"] \in S
                     /\ [j EXCEPT !.st = "failed"].st = "failed"
                     /\ j.st \in {"idle", "run", "done", "failed"} /\ j.step \in 0..LastStep
    OBVIOUS
  <2> HIDE DEF S
  <2>3. writer' \in [Writers -> S]
    BY <1>1, <2>1, <2>2
  <2>4. \A w \in Writers : /\ writer'[w].st \in {"idle", "done", "failed"}
                           /\ writer'[w].step \in 0..LastStep
                           /\ writer'[w].st = "done" => writer'[w] = writer[w]
    <3> SUFFICES ASSUME NEW w \in Writers
                 PROVE  /\ writer'[w].st \in {"idle", "done", "failed"}
                        /\ writer'[w].step \in 0..LastStep
                        /\ writer'[w].st = "done" => writer'[w] = writer[w]
      OBVIOUS
    <3>1. writer[w] \in S /\ writer'[w] \in S
      BY <2>1, <2>3
    <3>2. writer'[w] = IF writer[w].st = "run" THEN [writer[w] EXCEPT !.st = "failed"] ELSE writer[w]
      BY <1>1
    <3> QED
      BY <2>2, <3>1, <3>2
  <2> QED
    BY <2>3, <2>4 DEF S
<1>6. Laid'
  <2>1. DOMAIN used' = {"tries", "reads", "timeouts", "crashes"} /\ used'.timeouts \in Nat
    BY <1>1 DEF VaultInv, Laid
  <2> QED
    BY <1>1, <1>4, <1>5, <2>1 DEF VaultInv, Laid, Entries
<1>7. Idling'
  BY <1>4, <1>5, ActorFacts DEF Idling
<1>8. Leased'
  BY <1>1, <1>2, <1>4, <1>5, EmptySeq DEF Leased, Working
<1>9. DeletesFirst' /\ Sealing'
  BY <1>2, <1>5 DEF DeletesFirst, Sealing
<1>10. Scanning' /\ Keeping' /\ Reading'
  BY <1>2, <1>4, Numbers DEF Scanning, Keeping, Reading
<1>11. ReferencedIsStored'
  BY <1>1 DEF VaultInv, ReferencedIsStored, Stored
<1>12. FinishedIsWritten'
  BY <1>1, <1>5 DEF VaultInv, FinishedIsWritten, Manifest
<1>13. VaultTypeOK'
  <2>1. DOMAIN lease' = {}
    BY <1>1
  <2>2. \A w \in Writers : writer'[w].st \in {"idle", "run", "done", "failed"}
    BY <1>5
  <2> QED
    BY <1>1, <1>4, <1>5, <2>1, <2>2 DEF VaultInv, VaultTypeOK
<1> QED
  BY <1>3, <1>6, <1>7, <1>8, <1>9, <1>10, <1>11, <1>12, <1>13 DEF VaultInv

\* The invariant holds when the application starts.
LEMMA InitEstablishes ==
    ASSUME Init
    PROVE  VaultInv
<1>1. /\ vault = {} /\ pipe = <<>> /\ lease = <<>> /\ reply = [a \in Actors |-> Idle]
      /\ hist = [i \in 1..Legacy |-> [op |-> 0 - i, ver |-> i, man |-> NoRef]]
      /\ writer = [w \in Writers |-> [st |-> "idle", step |-> 0, content |-> <<>>, ver |-> 0]]
      /\ gc = GcIdle("none") /\ reader = [st |-> "idle", man |-> NoRef, next |-> 0]
      /\ used = [tries |-> 0, reads |-> 0, timeouts |-> 0, crashes |-> 0]
  BY DEF Init
<1>2. Len(pipe) = 0 /\ Len(lease) = 0 /\ Requests = {} /\ pipe \in Seq(Entries(pipe))
  BY <1>1, EmptySeq DEF Requests
<1>3. Piped /\ Pending /\ Asked /\ NoWrites
  BY <1>2 DEF Piped, Pending, Asked, NoWrites
<1>4. /\ \A a \in Actors : reply[a].st = "idle"
      /\ DOMAIN reply = Actors
      /\ DOMAIN gc = GcFields /\ gc.st = "idle"
      /\ reader.st = "idle" /\ reader.next = 0 /\ DOMAIN reader = {"st", "man", "next"}
  BY <1>1 DEF GcIdle, GcFields, Idle
<1>5. DOMAIN hist = 1..Legacy /\ \A i \in 1..Legacy : hist[i].ver = i /\ hist[i].man = NoRef
  BY <1>1
<1>6. hist \in Seq(Entries(hist)) /\ Len(hist) = Legacy
  <2>1. PICK S : S = {hist[i] : i \in 1..Legacy}
    OBVIOUS
  <2>2. hist \in [1..Legacy -> S]
    <3>1. \A i \in 1..Legacy : hist[i] \in S
      BY <2>1
    <3>2. hist = [i \in 1..Legacy |-> hist[i]]
      BY <1>1
    <3> QED
      BY <3>1, <3>2
  <2>3. hist \in Seq(S) /\ Len(hist) = Legacy
    BY <1>5, <2>2, Numbers
  <2> QED
    BY <2>3, OwnEntries
<1>7. \A w \in Writers : writer[w].st = "idle" /\ writer[w].step = 0
  BY <1>1
<1>8. 0 \in 0..LastStep /\ 0 \in 0..MaxVersion
  BY Steps, Numbers
<1>9. Laid
  BY <1>1, <1>4, <1>6, <1>7, <1>8 DEF Laid
<1>10. Idling
  BY <1>4, <1>7, ActorFacts DEF Idling
<1>11. Leased
  BY <1>1, <1>2, <1>4, <1>7, EmptySeq DEF Leased, Working
<1>12. DeletesFirst /\ Sealing
  BY <1>2, <1>7 DEF DeletesFirst, Sealing
<1>13. Scanning /\ Keeping /\ Reading
  BY <1>2, <1>4, Numbers DEF Scanning, Keeping, Reading
<1>14. ReferencedIsStored /\ FinishedIsWritten
  BY <1>5, <1>7 DEF ReferencedIsStored, FinishedIsWritten
<1>15. VaultTypeOK
  <2>1. DOMAIN lease = {}
    BY <1>1
  <2> QED
    BY <1>1, <1>4, <1>5, <1>7, <1>8, <2>1 DEF VaultTypeOK
<1> QED
  BY <1>3, <1>9, <1>10, <1>11, <1>12, <1>13, <1>14, <1>15 DEF VaultInv

----------------------------------------------------------------------------
(* The theorems *)

\* The invariant holds in every state.
LEMMA VaultInvariant == Spec => []VaultInv
<1>1. ASSUME VaultInv, [Next]_vars
      PROVE  VaultInv'
  <2>1. CASE UNCHANGED vars
    BY <2>1, <1>1, StutterKeeps
  <2>2. CASE Next
    <3>1. CASE Serve
      BY <1>1, <3>1, ServeKeeps
    <3>2. CASE WriterNext
      BY <1>1, <3>2, SaveKeeps DEF WriterNext
    <3>3. CASE ReaderNext
      BY <1>1, <3>3, ReadStepKeeps, ReadFailsKeeps DEF ReaderNext
    <3>4. CASE GcNext
      BY <1>1, <3>4, GcKeeps
    <3>5. CASE \E w \in Writers : SaveBegin(w)
      BY <1>1, <3>5, SaveBeginKeeps
    <3>6. CASE ReadBegin
      BY <1>1, <3>6, ReadBeginKeeps
    <3>7. CASE GcBegin
      BY <1>1, <3>7, GcBeginKeeps
    <3>8. CASE \E a \in Actors : Timeout(a)
      BY <1>1, <3>8, TimeoutKeeps
    <3>9. CASE Age
      BY <1>1, <3>9, AgeKeeps
    <3>10. CASE Crash
      BY <1>1, <3>10, CrashKeeps
    <3> QED
      BY <2>2, <3>1, <3>2, <3>3, <3>4, <3>5, <3>6, <3>7, <3>8, <3>9, <3>10 DEF Next
  <2> QED
    BY <1>1, <2>1, <2>2
<1> QED
  BY InitEstablishes, <1>1, PTL DEF Spec

\* Whatever saves, retries, collections, timeouts and crashes came before, every
\* record a row of the plan, its history or the operation ledger refers to is in the
\* vault, and a save that returned has its row with the content it sealed
\* (PlanningVaultGarbageCollector.collectExclusive, sealPlanningSnapshot).
THEOREM VaultSafeHolds == Spec => []VaultSafe
<1>1. VaultInv => VaultSafe
  BY DEF VaultInv, VaultSafe
<1> QED
  BY <1>1, VaultInvariant, PTL

\* A step of another actor leaves the reply of the reader alone.
LEMMA ReplyOfReader ==
    ASSUME VaultInv, WriterNext \/ GcNext
    PROVE  reply'[Reader] = reply[Reader]
<1>1. ASSUME NEW a \in Actors, a # Reader,
             NoSend(a) \/ \E kind, arg : Send(a, kind, arg)
      PROVE  reply'[Reader] = reply[Reader]
  BY <1>1, ActorFacts DEF Send, NoSend, VaultInv, Laid
<1>2. CASE WriterNext
  <2>1. PICK w \in Writers : SaveStep(w) \/ SaveFails(w)
    BY <1>2 DEF WriterNext
  <2>2. NoSend(w) \/ \E kind, arg : Send(w, kind, arg)
    BY <2>1 DEF SaveStep, SaveFails
  <2> QED
    BY <1>1, <2>2, ActorFacts
<1>3. CASE GcNext
  <2>1. \A result : GcReturns(result) => NoSend(Gc)
    BY DEF GcReturns
  <2>2. \A del : DeleteNext(del) => NoSend(Gc) \/ \E kind, arg : Send(Gc, kind, arg)
    BY Zenon, <2>1 DEF DeleteNext
  <2>3. \A todo, keep : InspectNext(todo, keep) => NoSend(Gc) \/ \E kind, arg : Send(Gc, kind, arg)
    BY Zenon, <2>2 DEF InspectNext
  <2>4. GcGranted \/ GcListed \/ GcReferenced => NoSend(Gc) \/ \E kind, arg : Send(Gc, kind, arg)
    BY Zenon, <2>1, <2>3 DEF GcGranted, GcListed, GcReferenced
  <2>5. GcInspected \/ GcDeleted \/ GcFails => NoSend(Gc) \/ \E kind, arg : Send(Gc, kind, arg)
    BY Zenon, <2>1, <2>2, <2>3 DEF GcInspected, GcDeleted, GcFails
  <2> QED
    BY <1>1, <1>3, <2>4, <2>5, ActorFacts DEF GcNext
<1> QED
  BY <1>2, <1>3

\* Only a timeout makes a request of the reader fail.
LEMMA ReaderFinds ==
    ASSUME VaultInv, [Next]_vars
    PROVE  ReaderFindsAllStep
<1> SUFFICES ASSUME reader.st # "idle", reply[Reader].st = "wait", reply'[Reader].st = "err"
             PROVE  used'.timeouts > used.timeouts
  BY DEF ReaderFindsAllStep
<1>1. reply'[Reader] # reply[Reader]
  OBVIOUS
<1>2. ~UNCHANGED vars
  BY <1>1 DEF vars
<1>3. ASSUME Serve PROVE FALSE
  <2>1. PICK q : Serves(q)
    BY <1>3, ServeFacts
  <2>2. q.from = Reader /\ reply'[Reader] = Answer(q) /\ 1 \in Requests /\ q = pipe[1]
    BY <1>1, <2>1, ActorFacts DEF Serves
  <2>3. q.kind # "get"
    BY <2>2, Answers DEF Ok
  <2>4. reader.man \in Mans /\ q.kind = "open" /\ q.arg \in SnapshotRefs(reader.man)
    BY <2>2, <2>3 DEF VaultInv, Reading
  <2>5. DOMAIN hist = 1..Len(hist)
    BY LenProperties DEF VaultInv, Laid
  <2>6. Stored(q.arg)
    BY <2>4, <2>5 DEF VaultInv, ReferencedIsStored, Mans
  <2> QED
    BY <2>2, <2>4, <2>6, Answers DEF Ok
<1>4. ~(WriterNext \/ GcNext)
  BY <1>1, ReplyOfReader
<1>5. ~ReaderNext
  BY DEF ReaderNext, ReadStep, ReadFails
<1>6. ~(\E w \in Writers : SaveBegin(w)) /\ ~GcBegin /\ ~Age
  BY <1>1 DEF SaveBegin, GcBegin, Age
<1>7. ~ReadBegin
  BY DEF ReadBegin
<1>8. ~Crash
  BY ActorFacts DEF Crash, Idle
<1>9. CASE \E a \in Actors : Timeout(a)
  <2>1. used' = [used EXCEPT !.timeouts = @ + 1]
    BY <1>9 DEF Timeout
  <2> QED
    BY <2>1 DEF VaultInv, Laid
<1> QED
  BY <1>2, <1>3, <1>4, <1>5, <1>6, <1>7, <1>8, <1>9 DEF Next

\* A getPlan call holds no lease, and still no record it asks for has been collected:
\* its request fails only when its caller stops waiting.
THEOREM ReaderFindsAllHolds == Spec => ReaderFindsAll
<1>1. VaultInv /\ [Next]_vars => [ReaderFindsAllStep]_vars
  BY ReaderFinds
<1> QED
  BY <1>1, VaultInvariant, PTL DEF Spec, ReaderFindsAll

===============================================================================
