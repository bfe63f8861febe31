----------------------------- MODULE PlanningVault -----------------------------
(***************************************************************************)
(* The encrypted persistence of planning snapshots: native-vault.ts seals  *)
(* a plan as chunks and a manifest before the row that refers to them is   *)
(* written, native-vault-gc.ts deletes aged records no row refers to, and  *)
(* native-vault-coordinator.ts gives saves and collections an exclusive    *)
(* lease. Every request goes through one pipe to the native host, which    *)
(* serves it in order, also when the caller has stopped waiting.           *)
(*                                                                         *)
(* A content reference is determined by the record id and the content, a   *)
(* record id by the operation, the plan version and the chunk number.      *)
(***************************************************************************)
EXTENDS Integers, Sequences, FiniteSets

CONSTANTS
    NumWriters,  \* operations 1..NumWriters, each a save of the plan
    Chunks,      \* chunks of a snapshot
    Contents,    \* contents of a chunk: a retry may have built another snapshot
    PageLimit,   \* rows of an inventory or reference page
    BatchLimit,  \* MAX_DELETE_BATCH
    Legacy,      \* rows written before the vault existed
    MaxTries,    \* saves, first ones and retries (bound)
    MaxReads,    \* calls of getPlan (bound)
    MaxTimeouts, \* requests whose caller stops waiting (bound)
    MaxCrashes   \* crashes of the application (bound)

ASSUME VaultAssumption ==
    /\ {NumWriters, Chunks, PageLimit, BatchLimit} \subseteq Nat \ {0}
    /\ {Legacy, MaxTries, MaxReads, MaxTimeouts, MaxCrashes} \subseteq Nat

VARIABLES
    vault,  \* vault_records: [ref, old]
    hist,   \* plan_history and the operation ledger; the last row is the plan
    pipe,   \* requests on their way to the host
    reply,  \* the awaited reply of each actor
    lease,  \* PlanningVaultExclusiveGate: the holder and the waiters
    writer, \* savePlan calls
    gc,     \* PlanningVaultGarbageCollector
    reader, \* getPlan
    used    \* how much of each bound a behaviour has used

vars == <<vault, hist, pipe, reply, lease, writer, gc, reader, used>>

Writers == 1..NumWriters
Gc == 0
Reader == NumWriters + 1
Actors == 0..Reader
NoOne == -1

----------------------------------------------------------------------------
(* Identities: boundRecordId *)

Index == 0..Chunks  \* 0 is the manifest
MaxVersion == Legacy + NumWriters
RecordId(op, ver, i) == ((op - 1) * MaxVersion + ver - 1) * (Chunks + 1) + i + 1
IsManifest(id) == (id - 1) % (Chunks + 1) = 0
Ref(id, content) == [id |-> id, content |-> content]
NoRef == Ref(0, <<>>)

\* What the manifest of a snapshot says of its chunks.
ChunkRefs(man) == {Ref(man.id + i, <<man.content[i]>>) : i \in 1..Chunks}
SnapshotRefs(man) == {man} \cup ChunkRefs(man)

Stored(ref) == \E r \in vault : r.ref = ref
Ids == {r.ref.id : r \in vault}

----------------------------------------------------------------------------
(* The native host *)

\* seal_vault_batch: a record with the same id must have the same content.
SealAccepts(ref) == \A r \in vault : r.ref.id = ref.id => r.ref = ref
Sealed(ref) == IF Stored(ref) THEN vault ELSE vault \cup {[ref |-> ref, old |-> FALSE]}

\* write_plan: a recorded operation is replayed, another version refused.
Done(row) == \E i \in DOMAIN hist : hist[i] = row
WriteAccepts(row) ==
    \/ Done(row)
    \/ /\ \A i \in DOMAIN hist : hist[i].op # row.op
       /\ row.ver = Len(hist) + 1

\* list_vault_references: the plan, its history, the operation ledger.
Rows == IF hist = <<>> THEN <<>> ELSE <<hist[Len(hist)]>> \o hist \o hist

Lowest(S, n) == {x \in S : Cardinality({y \in S : y <= x}) <= n}
Largest(S) == CHOOSE x \in S : \A y \in S : y <= x

\* list_vault_records: records created before the cutoff, by id after the cursor.
InventoryPage(cut, cursor) ==
    LET left == {id \in {r.ref.id : r \in {v \in vault : v.ref \in cut}} : id > cursor}
        page == Lowest(left, PageLimit)
    IN [ids |-> page, next |-> IF page = left THEN 0 ELSE Largest(page)]
ReferencePage(cursor) ==
    LET last == IF cursor + PageLimit < Len(Rows) THEN cursor + PageLimit ELSE Len(Rows)
    IN [refs |-> {Rows[i].man : i \in (cursor + 1)..last} \ {NoRef},
        next |-> IF last = Len(Rows) THEN 0 ELSE last]

Ok(val) == [st |-> "ok", val |-> val]
Idle == [st |-> "idle", val |-> NoRef]
Waiting == [st |-> "wait", val |-> NoRef]
Error == [st |-> "err", val |-> NoRef]

Answer(q) ==
    CASE q.kind = "seal"   -> IF SealAccepts(q.arg) THEN Ok(NoRef) ELSE Error
      [] q.kind = "write"  -> IF WriteAccepts(q.arg) THEN Ok(q.arg.man) ELSE Error
      [] q.kind = "get"    -> Ok(IF hist = <<>> THEN NoRef ELSE hist[Len(hist)].man)
      [] q.kind = "open"   -> IF Stored(q.arg) THEN Ok(q.arg) ELSE Error
      [] q.kind = "list"   -> Ok(InventoryPage(q.arg.cut, q.arg.cursor))
      [] q.kind = "refs"   -> Ok(ReferencePage(q.arg.cursor))
      [] q.kind = "delete" -> Ok(NoRef)

\* The host serves the first request of the pipe.
Serve ==
    /\ pipe # <<>>
    /\ LET q == Head(pipe) IN
       /\ vault' = IF q.kind = "seal" /\ SealAccepts(q.arg) THEN Sealed(q.arg)
                   ELSE IF q.kind = "delete" THEN {r \in vault : r.ref.id \notin q.arg.ids}
                   ELSE vault
       /\ hist' = IF q.kind = "write" /\ WriteAccepts(q.arg) /\ ~Done(q.arg)
                  THEN Append(hist, q.arg) ELSE hist
       /\ reply' = IF q.from = NoOne THEN reply ELSE [reply EXCEPT ![q.from] = Answer(q)]
    /\ pipe' = Tail(pipe)
    /\ UNCHANGED <<lease, writer, gc, reader, used>>

\* LocalToolClient.request: the caller stops waiting, the request stays queued.
Timeout(a) ==
    /\ reply[a].st = "wait" /\ used.timeouts < MaxTimeouts
    /\ used' = [used EXCEPT !.timeouts = @ + 1]
    /\ pipe' = [i \in DOMAIN pipe |->
                   IF pipe[i].from = a THEN [pipe[i] EXCEPT !.from = NoOne] ELSE pipe[i]]
    /\ reply' = [reply EXCEPT ![a] = Error]
    /\ UNCHANGED <<vault, hist, lease, writer, gc, reader>>

Send(a, kind, arg) ==
    /\ pipe' = Append(pipe, [kind |-> kind, from |-> a, arg |-> arg])
    /\ reply' = [reply EXCEPT ![a] = Waiting]
NoSend(a) == pipe' = pipe /\ reply' = [reply EXCEPT ![a] = Idle]

----------------------------------------------------------------------------
(* The lease *)

\* Mutant: the collection does not wait for the lease.
Holds_CollectorFree(a) == a = Gc \/ (lease # <<>> /\ Head(lease) = a)
Holds(a) == lease # <<>> /\ Head(lease) = a
Acquire(a) == lease' = Append(lease, a)
Release(a) == Holds(a) /\ lease' = Tail(lease)

----------------------------------------------------------------------------
(* savePlan: seal the chunks, the manifest, write the row, open the result *)

\* Requests 1..Chunks are the chunks, then the manifest, the write, the opened
\* manifest and the opened chunks.
ManifestStep == Chunks + 1
WriteStep == Chunks + 2
OpenStep == Chunks + 3
LastStep == OpenStep + Chunks

Manifest(w) == Ref(RecordId(w, writer[w].ver, 0), writer[w].content)
ChunkRef(w, i) == Ref(RecordId(w, writer[w].ver, i), <<writer[w].content[i]>>)
Request(w, n) ==
    CASE n \in 1..Chunks -> <<"seal", ChunkRef(w, n)>>
      [] n = ManifestStep -> <<"seal", Manifest(w)>>
      [] n = WriteStep -> <<"write", [op |-> w, ver |-> writer[w].ver, man |-> Manifest(w)]>>
      [] n = OpenStep -> <<"open", Manifest(w)>>
      [] n > OpenStep -> <<"open", ChunkRef(w, n - OpenStep)>>

\* A save of the next version of the plan as it is now asks for the lease.
SaveBegin(w) ==
    /\ writer[w].st \in {"idle", "failed"} /\ used.tries < MaxTries
    /\ used' = [used EXCEPT !.tries = @ + 1]
    /\ \E content \in [1..Chunks -> Contents] :
           writer' = [writer EXCEPT ![w] = [st |-> "run", step |-> 0, content |-> content,
                                            ver |-> IF Len(hist) < MaxVersion
                                                    THEN Len(hist) + 1 ELSE MaxVersion]]
    /\ Acquire(w)
    /\ UNCHANGED <<vault, hist, pipe, reply, gc, reader>>

\* Each reply leads to the next request; the last one ends the save.
SaveStep(w) ==
    /\ writer[w].st = "run" /\ Holds(w)
    /\ reply[w].st = "ok" \/ (reply[w].st = "idle" /\ writer[w].step = 0)
    /\ IF writer[w].step = LastStep
       THEN /\ writer' = [writer EXCEPT ![w].st = "done"]
            /\ Release(w) /\ NoSend(w)
       ELSE LET n == writer[w].step + 1 IN
            /\ writer' = [writer EXCEPT ![w].step = n]
            /\ Send(w, Request(w, n)[1], Request(w, n)[2])
            /\ UNCHANGED lease
    /\ UNCHANGED <<vault, hist, gc, reader, used>>

\* A refused request or one that timed out ends the save.
SaveFails(w) ==
    /\ writer[w].st = "run" /\ reply[w].st = "err"
    /\ writer' = [writer EXCEPT ![w].st = "failed"]
    /\ Release(w) /\ NoSend(w)
    /\ UNCHANGED <<vault, hist, gc, reader, used>>

----------------------------------------------------------------------------
(* getPlan: the row, its manifest, its chunks; no lease *)

ReadBegin ==
    /\ reader.st = "idle" /\ used.reads < MaxReads
    /\ used' = [used EXCEPT !.reads = @ + 1]
    /\ reader' = [st |-> "row", man |-> NoRef, next |-> 0]
    /\ Send(Reader, "get", NoRef)
    /\ UNCHANGED <<vault, hist, lease, writer, gc>>

ReadStep ==
    /\ reader.st \in {"row", "open"} /\ reply[Reader].st = "ok"
    /\ LET man == IF reader.st = "row" THEN reply[Reader].val ELSE reader.man IN
       IF man = NoRef \/ reader.next > Chunks
       THEN /\ reader' = [st |-> "idle", man |-> NoRef, next |-> 0]
            /\ NoSend(Reader)
       ELSE /\ reader' = [st |-> "open", man |-> man, next |-> reader.next + 1]
            /\ Send(Reader, "open", IF reader.next = 0 THEN man
                       ELSE Ref(man.id + reader.next, <<man.content[reader.next]>>))
    /\ UNCHANGED <<vault, hist, lease, writer, gc, used>>

ReadFails ==
    /\ reader.st \in {"row", "open"} /\ reply[Reader].st = "err"
    /\ reader' = [st |-> "idle", man |-> NoRef, next |-> 0]
    /\ NoSend(Reader)
    /\ UNCHANGED <<vault, hist, lease, writer, gc, used>>

----------------------------------------------------------------------------
(* The collection *)

GcIdle(result) == [st |-> "idle", cut |-> {}, inv |-> {}, cursor |-> 0, refs |-> {},
                   todo |-> {}, keep |-> {}, del |-> {}, result |-> result]

\* (A collection that finds nothing aged deletes nothing and is left out.)
GcBegin ==
    /\ gc.st = "idle" /\ \E r \in vault : r.old
    /\ gc' = [GcIdle("none") EXCEPT !.st = "wait"]
    /\ Acquire(Gc)
    /\ UNCHANGED <<vault, hist, pipe, reply, writer, reader, used>>

\* collectExclusive: the cutoff is taken when the lease is granted.
GcGranted ==
    /\ gc.st = "wait" /\ Holds(Gc)
    /\ LET cut == {r.ref : r \in {v \in vault : v.old}} IN
       /\ gc' = [gc EXCEPT !.st = "list", !.cut = cut]
       /\ Send(Gc, "list", [cut |-> cut, cursor |-> 0])
    /\ UNCHANGED <<vault, hist, lease, writer, reader, used>>

GcReturns(result) == gc' = GcIdle(result) /\ Release(Gc) /\ NoSend(Gc)

\* scanVaultInventory
GcListed ==
    /\ gc.st = "list" /\ reply[Gc].st = "ok"
    /\ LET page == reply[Gc].val IN
       IF page.ids \cap gc.inv # {} \/ (page.next # 0 /\ page.ids = {})
       THEN GcReturns("inventory")
       ELSE /\ gc' = [gc EXCEPT !.inv = @ \cup page.ids,
                                !.st = IF page.next = 0 THEN "refs" ELSE "list"]
            /\ IF page.next = 0 THEN Send(Gc, "refs", [cursor |-> 0])
               ELSE Send(Gc, "list", [cut |-> gc.cut, cursor |-> page.next])
            /\ UNCHANGED lease
    /\ UNCHANGED <<vault, hist, writer, reader, used>>

\* The records to delete: aged, neither a referenced manifest nor one of its
\* chunks, the chunks first.
\* Mutant: the chunks of a referenced manifest are not kept.
Kept_ManifestsOnly(man) == {man.id}
Kept(man) == {r.id : r \in SnapshotRefs(man)}
Batch(del) ==
    LET chunks == {id \in del : ~IsManifest(id)} IN
    Lowest(IF chunks # {} THEN chunks ELSE del, BatchLimit)

DeleteNext(del) ==
    IF del = {} THEN GcReturns("completed")
    ELSE /\ gc' = [gc EXCEPT !.st = "delete", !.del = del \ Batch(del)]
         /\ Send(Gc, "delete", [ids |-> Batch(del)])
         /\ UNCHANGED lease

\* inspectPlanningVaultManifest for each reference, then the first batch.
InspectNext(todo, keep) ==
    IF todo = {} THEN DeleteNext(gc.inv \ keep)
    ELSE LET man == CHOOSE m \in todo : \A n \in todo : m.id <= n.id IN
         /\ gc' = [gc EXCEPT !.st = "inspect", !.todo = todo \ {man}, !.keep = keep,
                             !.refs = {man}]
         /\ Send(Gc, "open", man)
         /\ UNCHANGED lease

\* scanPlanningReferences: a page with a cursor and without a reference is an error.
GcReferenced ==
    /\ gc.st = "refs" /\ reply[Gc].st = "ok"
    /\ LET page == reply[Gc].val
           refs == gc.refs \cup page.refs
       IN IF page.next = 0 THEN InspectNext(refs, {})
          ELSE IF page.refs = {} THEN GcReturns("references")
          ELSE /\ gc' = [gc EXCEPT !.refs = refs]
               /\ Send(Gc, "refs", [cursor |-> page.next])
               /\ UNCHANGED lease
    /\ UNCHANGED <<vault, hist, writer, reader, used>>

GcInspected ==
    /\ gc.st = "inspect" /\ reply[Gc].st = "ok"
    /\ InspectNext(gc.todo, gc.keep \cup UNION {Kept(man) : man \in gc.refs})
    /\ UNCHANGED <<vault, hist, writer, reader, used>>

GcDeleted ==
    /\ gc.st = "delete" /\ reply[Gc].st = "ok"
    /\ DeleteNext(gc.del)
    /\ UNCHANGED <<vault, hist, writer, reader, used>>

\* A failed call aborts the scan, or leaves the deletion partial.
GcFails ==
    /\ gc.st \in {"list", "refs", "inspect", "delete"} /\ reply[Gc].st = "err"
    /\ GcReturns(CASE gc.st = "list" -> "inventory" [] gc.st = "refs" -> "references"
                   [] gc.st = "inspect" -> "manifest" [] gc.st = "delete" -> "partial")
    /\ UNCHANGED <<vault, hist, writer, reader, used>>

----------------------------------------------------------------------------

\* The retention time passes.
Age ==
    /\ \E r \in vault : ~r.old
    /\ vault' = {[r EXCEPT !.old = TRUE] : r \in vault}
    /\ UNCHANGED <<hist, pipe, reply, lease, writer, gc, reader, used>>

\* The application ends; what was not served is lost.
Crash ==
    /\ used.crashes < MaxCrashes
    /\ used' = [used EXCEPT !.crashes = @ + 1]
    /\ pipe' = <<>> /\ reply' = [a \in Actors |-> Idle] /\ lease' = <<>>
    /\ writer' = [w \in Writers |-> IF writer[w].st = "run"
                                    THEN [writer[w] EXCEPT !.st = "failed"] ELSE writer[w]]
    /\ gc' = GcIdle("none")
    /\ reader' = [st |-> "idle", man |-> NoRef, next |-> 0]
    /\ UNCHANGED <<vault, hist>>

Init ==
    /\ vault = {} /\ pipe = <<>> /\ lease = <<>>
    /\ hist = [i \in 1..Legacy |-> [op |-> 0 - i, ver |-> i, man |-> NoRef]]
    /\ reply = [a \in Actors |-> Idle]
    /\ writer = [w \in Writers |-> [st |-> "idle", step |-> 0, content |-> <<>>, ver |-> 0]]
    /\ gc = GcIdle("none")
    /\ reader = [st |-> "idle", man |-> NoRef, next |-> 0]
    /\ used = [tries |-> 0, reads |-> 0, timeouts |-> 0, crashes |-> 0]

WriterNext == \E w \in Writers : SaveStep(w) \/ SaveFails(w)
ReaderNext == ReadStep \/ ReadFails
GcNext == GcGranted \/ GcListed \/ GcReferenced \/ GcInspected \/ GcDeleted \/ GcFails
Next ==
    \/ Serve \/ WriterNext \/ ReaderNext \/ GcNext
    \/ \E w \in Writers : SaveBegin(w)
    \/ ReadBegin \/ GcBegin
    \/ \E a \in Actors : Timeout(a)
    \/ Age \/ Crash

Spec == Init /\ [][Next]_vars

\* The host serves its pipe, calls go on when they are answered, the maintenance
\* loop collects again and again, and time passes.
FairSpec ==
    /\ Spec
    /\ WF_vars(Serve) /\ WF_vars(WriterNext) /\ WF_vars(GcNext)
    /\ WF_vars(GcBegin) /\ WF_vars(Age)

----------------------------------------------------------------------------
(* Properties *)

VaultTypeOK ==
    /\ \A r \in vault : r.ref.id \in 1..(NumWriters * MaxVersion * (Chunks + 1)) /\ r.old \in BOOLEAN
    /\ \A i \in DOMAIN hist : hist[i].ver = i
    /\ \A a \in Actors : reply[a].st \in {"idle", "wait", "ok", "err"}
    /\ \A i \in DOMAIN lease : lease[i] \in Writers \cup {Gc}
    /\ \A w \in Writers : writer[w].st \in {"idle", "run", "done", "failed"} /\ writer[w].step \in 0..LastStep
    /\ gc.st \in {"idle", "wait", "list", "refs", "inspect", "delete"}
    /\ reader.st \in {"idle", "row", "open"}

\* Every row of the plan, its history and the operation ledger can be opened:
\* its manifest and every chunk of it are in the vault, whatever saves, retries
\* and collections ran before (docs of PlanningVaultGarbageCollector).
ReferencedIsStored ==
    \A i \in DOMAIN hist :
        hist[i].man # NoRef => \A ref \in SnapshotRefs(hist[i].man) : Stored(ref)

\* A reader that found a row opens all of it, although it holds no lease.
ReaderFindsAllStep ==
    (reader.st # "idle" /\ reply[Reader].st = "wait" /\ reply'[Reader].st = "err")
          => used'.timeouts > used.timeouts
ReaderFindsAll == [][ReaderFindsAllStep]_vars

\* A version of the plan has one row, and the plan of a finished save is in the
\* history with the content the caller has sealed.
FinishedIsWritten ==
    \A w \in Writers : writer[w].st = "done" =>
        \E i \in DOMAIN hist : hist[i] = [op |-> w, ver |-> writer[w].ver, man |-> Manifest(w)]

\* A collection whose calls are all answered runs to its end: it is given up only
\* when a request failed ("Callers must finish all pages").
ScanCompletes ==
    used.timeouts = 0 => gc.result \notin {"inventory", "references", "manifest"}

\* What a failed save has left behind goes in the end.
OrphansCollected ==
    <>[](\A r \in vault : \E i \in DOMAIN hist :
            hist[i].man # NoRef /\ r.ref \in SnapshotRefs(hist[i].man))

\* What the rows refer to is stored, and what a caller was told is written.
VaultSafe == VaultTypeOK /\ ReferencedIsStored /\ FinishedIsWritten
===============================================================================
