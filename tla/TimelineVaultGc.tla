--------------------------- MODULE TimelineVaultGc ---------------------------
(***************************************************************************)
(* The vault records of Timeline collector snapshots.  Every save seals    *)
(* the whole snapshot in the native vault under an identifier that is the  *)
(* hash of the snapshot, then points the collector row at it in a SQLite   *)
(* transaction.  A table of leased rows keeps track of the records that    *)
(* are being written (PREPARING), are not needed any more (RETIRED) or are *)
(* being deleted (DELETING), so that neither a crash nor a concurrent or   *)
(* repeated save deletes the record in use or forgets one that is not.     *)
(*                                                                         *)
(*   sqlite-repository.ts  loadCollector, saveCollector, sealWindow,       *)
(*                         prepare/activate/retire/drain, migration        *)
(*   runtime-vault.ts      seal and deleteRecords, sent to the native host *)
(*                                                                         *)
(* The host serves one pipe in order.  A lease may expire at any moment    *)
(* (the clock is not modelled).  Records are pairs <<revision, content>>;  *)
(* those of the earlier schema have the content "legacy".                  *)
(***************************************************************************)
EXTENDS Integers, Sequences, FiniteSets, SequencesExt

CONSTANTS
    Writers,        \* concurrent operations on the repository
    Contents,       \* what a snapshot may contain
    BatchLimit,     \* COLLECTOR_VAULT_GC_BATCH_LIMIT (64)
    LegacyRevision, \* revision of the collector a migration found; 0: none
    MaxRevision,    \* bound: revisions
    MaxSaves,       \* bound: saves begun
    MaxFaults       \* bound: failed calls and crashes

None == 0
Dead == "dead"      \* the token of an owner that is gone

VaultGcAssumption ==
    /\ IsFiniteSet(Writers) /\ Dead \notin Writers
    /\ BatchLimit \in Nat \ {0}
    /\ {LegacyRevision, MaxRevision, MaxSaves, MaxFaults} \subseteq Nat

VARIABLES
    row,      \* timeline_collectors: [rev, rec, old]; rev None: no row
    gc,       \* timeline_collector_vault_gc: record -> [state, owner, expired]
    range,    \* timeline_collector_vault_gc_ranges: [next, end]
    vault,    \* native side: the sealed records
    pipe,     \* requests the host has not served: <<[op, recs, from], ...>>
    op,       \* what each writer is doing
    saves,    \* saves begun so far
    faults    \* failed calls and crashes so far

vars == <<row, gc, range, vault, pipe, op, saves, faults>>

Records == (0..(MaxRevision + LegacyRevision)) \X (Contents \cup {"legacy"})
Legacy(n) == <<n, "legacy">>
NoRecord == <<0, "none">>

NoRow == [state |-> "NONE", owner |-> Dead, expired |-> FALSE]
Rows == [state : {"NONE", "PREPARING", "RETIRED", "DELETING"},
         owner : Writers \cup {Dead}, expired : BOOLEAN]

Idle == [pc |-> "idle", rec |-> NoRecord, exp |-> None, back |-> "idle",
         rows |-> {}, upto |-> 0, reset |-> FALSE]

Active(r) == row.rev # None /\ row.rec = r

-----------------------------------------------------------------------------
(* migrate: a database of an earlier schema keeps its row and its record;  *)
(* the records of the earlier revisions become a range to delete.          *)
Init ==
    /\ row = IF LegacyRevision = 0
             THEN [rev |-> None, rec |-> NoRecord, old |-> FALSE]
             ELSE [rev |-> LegacyRevision, rec |-> Legacy(LegacyRevision), old |-> FALSE]
    /\ gc = [r \in Records |-> NoRow]
    /\ range = [next |-> 1, end |-> LegacyRevision]
    /\ vault = {Legacy(n) : n \in 1..LegacyRevision}
    /\ pipe = <<>>
    /\ op = [w \in Writers |-> Idle]
    /\ saves = 0 /\ faults = 0

Goto(w, pc) == op' = [op EXCEPT ![w].pc = pc]
Finish(w) == op' = [op EXCEPT ![w] = Idle]

Send(w, kind, recs) == pipe' = Append(pipe, [op |-> kind, recs |-> recs, from |-> w])

-----------------------------------------------------------------------------
(* The operations of the repository.                                       *)

(* saveCollector or sealWindow with a snapshot of the next revision; the   *)
(* caller may have read an older one, and may repeat an earlier call.      *)
BeginSave(w) ==
    /\ op[w].pc = "idle" /\ saves < MaxSaves
    /\ \E c \in Contents, e \in {row.rev, row.rev - 1} \cap Nat :
         /\ e < MaxRevision + LegacyRevision
         /\ op' = [op EXCEPT ![w] = [Idle EXCEPT !.pc = "claim", !.exp = e,
                                       !.rec = <<e + 1, c>>, !.back = "prepare"]]
    /\ saves' = saves + 1
    /\ UNCHANGED <<row, gc, range, vault, pipe, faults>>

(* The first save after the row has outlived the raw retention: it is told *)
(* there is no collector, and continues the expired row's revisions.       *)
BeginReset(w) ==
    /\ op[w].pc = "idle" /\ saves < MaxSaves
    /\ row.rev # None /\ row.old /\ row.rev < MaxRevision + LegacyRevision
    /\ \E c \in Contents :
         op' = [op EXCEPT ![w] = [Idle EXCEPT !.pc = "claim", !.exp = row.rev,
                                    !.rec = <<row.rev + 1, c>>, !.back = "prepare",
                                    !.reset = TRUE]]
    /\ saves' = saves + 1
    /\ UNCHANGED <<row, gc, range, vault, pipe, faults>>

(* loadCollector drains what it can before it opens the record.            *)
BeginLoad(w) ==
    /\ op[w].pc = "idle"
    /\ op' = [op EXCEPT ![w] = [Idle EXCEPT !.pc = "claim", !.back = "idle"]]
    /\ UNCHANGED <<row, gc, range, vault, pipe, saves, faults>>

RowExpires ==
    /\ row.rev # None /\ ~row.old
    /\ row' = [row EXCEPT !.old = TRUE]
    /\ UNCHANGED <<gc, range, vault, pipe, op, saves, faults>>

LeaseExpires(r) ==
    /\ gc[r].state \in {"PREPARING", "DELETING"} /\ ~gc[r].expired
    /\ gc' = [gc EXCEPT ![r].expired = TRUE]
    /\ UNCHANGED <<row, range, vault, pipe, op, saves, faults>>

-----------------------------------------------------------------------------
(* releaseExpiredActive..., retireExpired...Preparations.                  *)

Swept(g) ==
    [r \in Records |->
       CASE g[r].state = "PREPARING" /\ g[r].expired /\ Active(r) -> NoRow
         [] g[r].state = "PREPARING" /\ g[r].expired /\ ~Active(r)
              -> [state |-> "RETIRED", owner |-> Dead, expired |-> TRUE]
         [] OTHER -> g[r]]

(* The record in use does not belong in the queue.                         *)
Unqueued(g) ==
    [r \in Records |-> IF g[r].state = "RETIRED" /\ Active(r) THEN NoRow ELSE g[r]]

Deletable(g) ==
    {r \in Records : /\ \/ g[r].state = "RETIRED"
                        \/ g[r].state = "DELETING" /\ g[r].expired
                     /\ ~Active(r)}

(* drainCollectorVaultGarbage: a batch is claimed and its deletion sent to *)
(* the host; when the queue is empty a slice of the legacy range is.       *)
Claim(w) ==
    /\ op[w].pc = "claim"
    /\ LET g == Unqueued(Swept(gc))
           cand == Deletable(g)
       IN IF cand # {}
          THEN \E rows \in SUBSET cand :
                 /\ Cardinality(rows) = (IF Cardinality(cand) < BatchLimit
                                         THEN Cardinality(cand) ELSE BatchLimit)
                 /\ gc' = [r \in Records |->
                             IF r \in rows
                             THEN [state |-> "DELETING", owner |-> w, expired |-> FALSE]
                             ELSE g[r]]
                 /\ op' = [op EXCEPT ![w].pc = "deleting", ![w].rows = rows]
                 /\ Send(w, "delete", rows)
          ELSE /\ gc' = g
               /\ IF range.next < range.end
                  THEN LET upto == IF range.next + BatchLimit < range.end
                                   THEN range.next + BatchLimit ELSE range.end
                           rows == {Legacy(n) : n \in range.next..(upto - 1)}
                       IN /\ op' = [op EXCEPT ![w].pc = "trimming", ![w].rows = rows,
                                              ![w].upto = upto]
                          /\ Send(w, "delete", rows)
                  ELSE /\ IF op[w].back = "idle" THEN Finish(w) ELSE Goto(w, "prepare")
                       /\ UNCHANGED pipe
    /\ UNCHANGED <<row, range, vault, saves, faults>>

(* The deletion is confirmed: the rows go, if they are still this drain's. *)
Confirmed(w) ==
    /\ op[w].pc = "deleted"
    /\ gc' = [r \in Records |->
                IF r \in op[w].rows /\ gc[r].state = "DELETING" /\ gc[r].owner = w
                   /\ ~Active(r)
                THEN NoRow ELSE gc[r]]
    /\ op' = [op EXCEPT ![w].pc = "claim", ![w].rows = {}]
    /\ UNCHANGED <<row, range, vault, pipe, saves, faults>>

(* The legacy slice is gone: the range moves on, unless another drain has  *)
(* moved it.                                                               *)
Trimmed(w) ==
    /\ op[w].pc = "trimmed"
    /\ range' = IF range.next = op[w].upto - Cardinality(op[w].rows)
                THEN [range EXCEPT !.next = op[w].upto] ELSE range
    /\ op' = [op EXCEPT ![w].pc = "claim", ![w].rows = {}, ![w].upto = 0]
    /\ UNCHANGED <<row, gc, vault, pipe, saves, faults>>

-----------------------------------------------------------------------------
(* Writing a snapshot.                                                     *)

(* prepareCollectorVaultRecord: the record is this writer's to seal, or it *)
(* has to be drained first, or the other owner is waited for; after a      *)
(* number of attempts the save is refused, the last of which may be one    *)
(* that drains.                                                            *)
Free(g, r) == g[r].state = "NONE"

Prepare(w) ==
    /\ op[w].pc = "prepare"
    /\ LET g == Swept(gc)
           r == op[w].rec
       IN IF Free(g, r)
          THEN /\ gc' = [g EXCEPT ![r] = [state |-> "PREPARING", owner |-> w,
                                           expired |-> FALSE]]
               /\ Send(w, "seal", {r})
               /\ Goto(w, "sealing")
          ELSE /\ gc' = g
               /\ UNCHANGED pipe
               /\ IF g[r].state = "RETIRED" \/ (g[r].state = "DELETING" /\ g[r].expired)
                  THEN \E back \in {"retry", "idle"} :
                         op' = [op EXCEPT ![w].pc = "claim", ![w].back = back]
                  ELSE \/ UNCHANGED op
                       \/ Finish(w)
    /\ UNCHANGED <<row, range, vault, saves, faults>>

(* retirePreparedCollectorVaultRecord, then a drain.                       *)
Retired(g, r, w) ==
    IF g[r].state = "PREPARING" /\ g[r].owner = w
    THEN [g EXCEPT ![r] = [state |-> "RETIRED", owner |-> w, expired |-> TRUE]]
    ELSE g

GiveUp(w) ==
    /\ gc' = Retired(gc, op[w].rec, w)
    /\ op' = [op EXCEPT ![w] = [Idle EXCEPT !.pc = "claim"]]

(* Mutant: a preparation that was lost in the meantime is not noticed.     *)
Owned_Assumed(w) == TRUE

(* assertCollectorVaultPreparationOwned.                                   *)
Owned(w) == gc[op[w].rec].state = "PREPARING" /\ gc[op[w].rec].owner = w

(* enqueueCollectorVaultRecord: the record that is replaced is retired.    *)
Replaced(g) ==
    IF row.rev = None \/ g[row.rec].state = "DELETING" THEN g
    ELSE [g EXCEPT ![row.rec] = [state |-> "RETIRED", owner |-> Dead, expired |-> TRUE]]

(* The row still has the revision the snapshot follows.                    *)
Expected(w) == Owned(w) /\ row.rev = op[w].exp /\ (op[w].reset => row.old)

(* sealWindow again, of a window that is already there: the row points at  *)
(* this record.                                                            *)
Repeats(w) == Owned(w) /\ Active(op[w].rec) /\ ~op[w].reset

Done(w) == op' = [op EXCEPT ![w] = [Idle EXCEPT !.pc = "claim"]]

(* The transaction: the revision is checked, the row points at the record, *)
(* the preparation ends and the previous record is retired; a repeated     *)
(* seal only ends the preparation, and a save that lost is given up.       *)
Commit(w) ==
    /\ op[w].pc = "sealed"
    /\ \/ /\ Expected(w) /\ Done(w)
          /\ row' = [rev |-> op[w].rec[1], rec |-> op[w].rec, old |-> FALSE]
          /\ gc' = Replaced([gc EXCEPT ![op[w].rec] = NoRow])
       \/ /\ Repeats(w) /\ Done(w)
          /\ gc' = [gc EXCEPT ![op[w].rec] = NoRow]
          /\ UNCHANGED row
       \/ ~Expected(w) /\ GiveUp(w) /\ UNCHANGED row
    /\ UNCHANGED <<range, vault, pipe, saves, faults>>

-----------------------------------------------------------------------------
(* The native host, failures and crashes.                                  *)

Answered == [deleting |-> "deleted", trimming |-> "trimmed", sealing |-> "sealed"]
Waiting == DOMAIN Answered

(* The host serves the next request and answers, if anyone still waits.    *)
Host ==
    /\ pipe # <<>>
    /\ LET q == Head(pipe)
       IN /\ vault' = IF q.op = "seal" THEN vault \cup q.recs ELSE vault \ q.recs
          /\ op' = IF q.from = Dead THEN op
                   ELSE [op EXCEPT ![q.from].pc = Answered[@]]
    /\ pipe' = Tail(pipe)
    /\ UNCHANGED <<row, gc, range, saves, faults>>

Orphan(w, p) == [i \in DOMAIN p |-> IF p[i].from = w THEN [p[i] EXCEPT !.from = Dead]
                                    ELSE p[i]]

(* The drain failed: it is ignored by a save that waits for its record,    *)
(* and it ends any other operation, a save that has yet to prepare one     *)
(* included (drain, tryDrainCollectorVaultGarbage).                        *)
DrainFails(w) ==
    IF op[w].back = "retry"
    THEN op' = [op EXCEPT ![w].pc = "prepare", ![w].rows = {}, ![w].upto = 0]
    ELSE Finish(w)

(* A failed seal retires the record.                                       *)
Fails(w) == IF op[w].pc = "sealing" THEN GiveUp(w) ELSE DrainFails(w) /\ UNCHANGED gc

(* A call is given up (a timeout, a lost reply); the host may serve it     *)
(* later.                                                                  *)
CallFails(w) ==
    /\ faults < MaxFaults /\ op[w].pc \in Waiting
    /\ faults' = faults + 1
    /\ pipe' = Orphan(w, pipe)
    /\ Fails(w)
    /\ UNCHANGED <<row, range, vault, saves>>

(* The host refuses the request it is at.                                  *)
HostFails ==
    /\ faults < MaxFaults /\ pipe # <<>> /\ Head(pipe).from # Dead
    /\ faults' = faults + 1
    /\ pipe' = Tail(pipe)
    /\ Fails(Head(pipe).from)
    /\ UNCHANGED <<row, range, vault, saves>>

(* The application dies: its writers and tokens are gone; the host serves  *)
(* what it has read of the pipe.                                           *)
Crash ==
    /\ faults < MaxFaults
    /\ faults' = faults + 1
    /\ op' = [w \in Writers |-> Idle]
    /\ gc' = [r \in Records |-> [gc[r] EXCEPT !.owner = Dead]]
    /\ \E n \in 0..Len(pipe) :
         pipe' = [i \in 1..n |-> [pipe[i] EXCEPT !.from = Dead]]
    /\ UNCHANGED <<row, range, vault, saves>>

Steps(w) == Claim(w) \/ Confirmed(w) \/ Trimmed(w) \/ Prepare(w) \/ Commit(w)

Next ==
    \/ \E w \in Writers : \/ BeginSave(w) \/ BeginReset(w) \/ BeginLoad(w)
                          \/ Steps(w) \/ CallFails(w)
    \/ \E r \in Records : LeaseExpires(r)
    \/ RowExpires \/ Host \/ HostFails \/ Crash

Spec == Init /\ [][Next]_vars

(* Operations go on, the host serves its pipe, leases run out, and the     *)
(* collector is loaded or saved again some time.                           *)
Fairness ==
    /\ WF_vars(Host)
    /\ \A w \in Writers : WF_vars(Steps(w)) /\ WF_vars(BeginLoad(w))
    /\ \A r \in Records : WF_vars(LeaseExpires(r))

FairSpec == Spec /\ Fairness

-----------------------------------------------------------------------------
(* Properties.                                                             *)

(* The tables hold rows of the schema, and a row whose owner lives is the  *)
(* row of something that owner is doing.                                   *)
TypeOK ==
    /\ row.rev \in 0..(MaxRevision + LegacyRevision)
    /\ row.rec \in Records \cup {NoRecord} /\ row.old \in BOOLEAN
    /\ gc \in [Records -> Rows]
    /\ range.next \in 1..(LegacyRevision + 1)
    /\ vault \subseteq Records
    /\ \A w \in Writers : op[w].rows \subseteq Records
    /\ \A w \in Writers : op[w].pc \in Waiting => \E i \in DOMAIN pipe : pipe[i].from = w

(* The collector row always points at a record the vault holds ("a losing  *)
(* concurrent candidate cannot delete the winning snapshot", "an identical *)
(* concurrent retry survives when the first seal fails"), whatever leases  *)
(* expire, calls fail or processes die.                                    *)
ActiveIsStored == row.rev # None => row.rec \in vault

Tracked == {r \in Records : gc[r].state # "NONE"}
              \cup {Legacy(n) : n \in range.next..(range.end - 1)}

(* A record the vault holds, or will hold, and that is not in use is in    *)
(* the queue or in the legacy range: encrypted raw context is never        *)
(* forgotten in the vault.                                                 *)
NothingForgotten ==
    /\ \A r \in vault : Active(r) \/ r \in Tracked
    /\ \A i \in DOMAIN pipe :
         pipe[i].op = "seal" =>
           \A r \in pipe[i].recs :
             \/ Active(r) \/ r \in Tracked
             \/ \E k \in (i + 1)..Len(pipe) : pipe[k].op = "delete" /\ r \in pipe[k].recs

(* Only the current snapshot is retained in the long run ("retains only    *)
(* the current snapshot across high-frequency revisions").                 *)
Drains == []<>(vault \subseteq {row.rec})
=============================================================================
