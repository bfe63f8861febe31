---------------------------- MODULE EventJournal ----------------------------
(***************************************************************************)
(* The first event journal of the native host (core/src/events.rs): an     *)
(* append-only SQLite table whose sequence numbers are never used again,   *)
(* named consumers with a committed cursor, and a retention that deletes a *)
(* prefix of the table.  Newly inserted events are also published to the   *)
(* connection of the application over a bounded broadcast channel, from    *)
(* which a slow forwarder loses the oldest ones.                           *)
(*                                                                         *)
(* This module holds the journal, the host process around it and their     *)
(* operations; ReflectionStream uses it.                                   *)
(* The host runs its tasks on one thread, so a query, a commit and a       *)
(* cleanup never overlap; sensors append from threads of their own under   *)
(* append_guard.  An event is its deduplication key, its data and the time *)
(* it was observed; the checks of shapes and sizes are left out.           *)
(***************************************************************************)
EXTENDS Integers, Sequences, FiniteSets, SequencesExt

CONSTANTS
    Keys,           \* deduplication keys
    Data,           \* what an event says
    Consumers,      \* named consumers
    RETENTION,      \* age from which an event may be deleted
    CAPACITY,       \* events the broadcast channel keeps
    MaxTime,        \* bound of the clock
    MaxEvents       \* events inserted at most

None == -1

JournalAssumption ==
    /\ {RETENTION, CAPACITY} \subseteq Nat \ {0}
    /\ {MaxTime, MaxEvents} \subseteq Nat

VARIABLES
    rows,           \* desktop_events
    last,           \* the AUTOINCREMENT counter of the table
    retained,       \* journal_meta.retained_through_sequence
    committed,      \* event_consumers: consumer -> cursor, or None
    now,            \* the wall clock
    host,           \* "down", "starting" (sensors run) or "serving"
    ring,           \* broadcast channel: events not forwarded yet
    wire            \* events forwarded to the application, not read yet

journal == <<rows, last, retained, committed, now, host, ring, wire>>

Draft == [key : Keys, data : Data, at : 0..MaxTime]
Row == [seq : 1..MaxEvents, key : Keys, data : Data, at : 0..MaxTime]

JournalTypeOK ==
    /\ rows \subseteq Row
    /\ last \in 0..MaxEvents
    /\ retained \in 0..MaxEvents
    /\ committed \in [Consumers -> 0..MaxEvents \cup {None}]
    /\ now \in 0..MaxTime
    /\ host \in {"down", "starting", "serving"}
    /\ Len(ring) <= CAPACITY
    /\ \A i \in DOMAIN ring : ring[i] \in 1..MaxEvents
    /\ \A i \in DOMAIN wire : wire[i] \in 1..MaxEvents

JournalInit ==
    /\ rows = {} /\ last = 0 /\ retained = 0 /\ now = 0
    /\ committed = [c \in Consumers |-> None]
    /\ host = "down" /\ ring = <<>> /\ wire = <<>>

Sequences == {r.seq : r \in rows}
MaxSequence == Max(Sequences \cup {0})

-----------------------------------------------------------------------------
(* Appends.                                                                *)

Stored(k) == {r \in rows : r.key = k}

(* ON CONFLICT(event_id) DO NOTHING, and then the comparison of the stored *)
(* event with the draft, its observation time included.                    *)
AppendOutcome(d) ==
    IF Stored(d.key) = {} THEN "inserted"
    ELSE IF \A r \in Stored(d.key) : r.data = d.data /\ r.at = d.at
         THEN "same" ELSE "conflict"

(* The channel has a receiver only while the host serves the application;  *)
(* a receiver that lags loses the oldest event.                            *)
Published(n) ==
    IF host # "serving" THEN ring
    ELSE Append(IF Len(ring) = CAPACITY THEN Tail(ring) ELSE ring, n)

(* EventJournal.append: one IMMEDIATE transaction; the event is published  *)
(* after the commit, only when it is new.                                  *)
AppendDraft(d) ==
    /\ host # "down" /\ d.at <= now
    /\ IF AppendOutcome(d) = "inserted"
       THEN /\ last < MaxEvents
            /\ rows' = rows \cup {[seq |-> last + 1, key |-> d.key,
                                   data |-> d.data, at |-> d.at]}
            /\ last' = last + 1
            /\ ring' = Published(last + 1)
       ELSE UNCHANGED <<rows, last, ring>>
    /\ UNCHANGED <<retained, committed, now, host, wire>>

-----------------------------------------------------------------------------
(* Cursors.                                                                *)

CursorPosition(n) ==
    IF n < retained THEN "expired"
    ELSE IF n > retained /\ n \notin Sequences THEN "invalid"
    ELSE "ok"

TailCursor == IF MaxSequence > retained THEN MaxSequence ELSE retained

EventsAfter(n) == SetToSortSeq({s \in Sequences : s > n}, <)

(* A query of a consumer starts after its committed cursor, or from the    *)
(* beginning without any check when it never committed.                    *)
StartOf(c) == IF committed[c] = None THEN 0 ELSE committed[c]
Queryable(c) == committed[c] = None \/ CursorPosition(committed[c]) = "ok"
Page(c, limit) ==
    LET found == EventsAfter(StartOf(c))
    IN SubSeq(found, 1, IF Len(found) < limit THEN Len(found) ELSE limit)
HasMore(c, limit) == Len(EventsAfter(StartOf(c))) > limit

CommitAccepted(c, n) ==
    /\ CursorPosition(n) = "ok"
    /\ committed[c] # None => n >= committed[c]

CommitCursor(c, n) ==
    committed' = IF CommitAccepted(c, n) THEN [committed EXCEPT ![c] = n]
                 ELSE committed

-----------------------------------------------------------------------------
(* Retention.                                                              *)

ConsumerGuard ==
    LET known == {committed[c] : c \in Consumers} \ {None}
    IN IF known = {} THEN MaxSequence ELSE Min(known)

Cutoff == now - RETENTION

ExpiryGuard ==
    LET fresh == {r.seq : r \in {x \in rows : x.at >= Cutoff}}
    IN IF fresh = {} THEN MaxSequence ELSE Min(fresh) - 1

Deletable ==
    {r \in rows : r.seq <= Min({ConsumerGuard, ExpiryGuard, MaxSequence})
                  /\ r.at < Cutoff}

RetainedAfter(gone) == Max({retained} \cup {r.seq : r \in gone})

CleanedRows == rows \ Deletable

(* The cleanup task: once when the host begins to serve and then daily.    *)
Cleanup ==
    /\ host = "serving"
    /\ rows' = CleanedRows
    /\ retained' = RetainedAfter(Deletable)
    /\ UNCHANGED <<last, committed, now, host, ring, wire>>

-----------------------------------------------------------------------------
(* The host.                                                               *)

(* The journal is opened and the sensors start before anyone listens.      *)
HostStarts ==
    /\ host = "down"
    /\ host' = "starting"
    /\ UNCHANGED <<rows, last, retained, committed, now, ring, wire>>

(* The first cleanup, then the subscription of the connection.             *)
HostServes ==
    /\ host = "starting"
    /\ host' = "serving"
    /\ rows' = CleanedRows
    /\ retained' = RetainedAfter(Deletable)
    /\ UNCHANGED <<last, committed, now, ring, wire>>

(* The forwarding task of the connection.                                  *)
Forward ==
    /\ ring # <<>>
    /\ wire' = Append(wire, Head(ring))
    /\ ring' = Tail(ring)
    /\ UNCHANGED <<rows, last, retained, committed, now, host>>

(* The host ends; frames nobody read are lost with the pipe.               *)
HostDown ==
    /\ host' = "down" /\ ring' = <<>> /\ wire' = <<>>
    /\ UNCHANGED <<rows, last, retained, committed, now>>

TimePasses ==
    /\ now < MaxTime
    /\ now' = now + 1
    /\ UNCHANGED <<rows, last, retained, committed, host, ring, wire>>

=============================================================================
