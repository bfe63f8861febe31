--------------------------- MODULE ActivityArchive ---------------------------
(***************************************************************************)
(* The part of the account's encrypted Agent database                      *)
(* (src/bun/encrypted-agent-repository.ts) that the activity pipeline      *)
(* uses: the archive of analysed windows and the records of Agent runs.    *)
(*                                                                         *)
(* It is a different SQLite file from the ledger of ActivityWindowStore,   *)
(* so no transaction spans the two. A completed run and its feedback       *)
(* history are written by one transaction, so a completed record stands    *)
(* for both.                                                               *)
(***************************************************************************)
EXTENDS ActivityWindowStore

VARIABLES
    archive,   \* proactive_feedback_event_streams, by source_window_id
    runs       \* agent_runs of kind activity-analysis, with their history

encrypted == <<archive, runs>>

ArchiveRow ==
    [sem : 0..(MaxSemanticAttempts - 1), score : Scores,
     by : RunIds \cup {NoRun}]

\* The analyses a run is given, as the semantic attempt of each source window.
RunInput == UNION {[S -> 0..(MaxSemanticAttempts - 1)] : S \in SUBSET Windows}

RunRow ==
    [status : {"starting", "failed", "interrupted", "cancelled", "completed"},
     invalid : BOOLEAN, input : RunInput, req : Nat]

ArchiveTypeOK ==
    /\ archive \in [Windows -> ArchiveRow \cup {None}]
    /\ runs \in [RunIds -> RunRow \cup {None}]

ArchiveInit ==
    /\ archive = [w \in Windows |-> None]
    /\ runs = [r \in RunIds |-> None]

Consumed(w) == archive[w] # None /\ archive[w].by # NoRun
Completed(r) == runs[r] # None /\ runs[r].status = "completed"

\* getProactiveFeedbackEventStream looks an archive up by request id.
HasArchive(w, k) == archive[w] # None /\ archive[w].sem = k

\* archiveProactiveFeedbackEventStream: one archive per source window. A replay
\* of the same analysis is accepted, anything else collides and throws.
CanArchive(w, k, s) ==
    archive[w] # None => archive[w].sem = k /\ archive[w].score = s
ArchiveEventStream(w, k, s) ==
    /\ archive' = IF archive[w] # None THEN archive
                  ELSE [archive EXCEPT ![w] = [sem |-> k, score |-> s, by |-> NoRun]]
    /\ UNCHANGED runs

\* putRun: a run's record, written with the input it was claimed with.
PutRun(r, status, invalid, input, req) ==
    /\ runs' = [runs EXCEPT ![r] = [status |-> status, invalid |-> invalid,
                                    input |-> input, req |-> req]]
    /\ UNCHANGED archive

\* completeProactiveFeedbackRun: one transaction stores the completed run, its
\* history and the consumption of every source archive.
CanPublish(r, input) ==
    \A w \in DOMAIN input :
        HasArchive(w, input[w]) /\ archive[w].by \in {NoRun, r}
PublishCompletedRun(r, input, req) ==
    /\ runs' = [runs EXCEPT ![r] = [status |-> "completed", invalid |-> FALSE,
                                    input |-> input, req |-> req]]
    /\ archive' = [w \in Windows |->
                     IF w \in DOMAIN input THEN [archive[w] EXCEPT !.by = r]
                     ELSE archive[w]]

\* verifyCompletedProactiveFeedbackRun: the proof that phase one committed.
Verified(r, input, req) ==
    /\ Completed(r)
    /\ runs[r].input = input /\ runs[r].req = req
    /\ {w \in Windows : archive[w] # None /\ archive[w].by = r} = DOMAIN input
    /\ \A w \in DOMAIN input : HasArchive(w, input[w])

\* deleteActivityAnalysisRuns: the record of a finished attempt, unless it has
\* history. The deletion is best effort, so a record may survive.
DeleteAttempt(r) ==
    /\ runs' \in {runs, IF Completed(r) THEN runs ELSE [runs EXCEPT ![r] = None]}
    /\ UNCHANGED archive

\* Mutant: a failed attempt that expires takes the archives of its input along.
ExpireRun_TakesInput(r) ==
    /\ runs' = [runs EXCEPT ![r] = None]
    /\ archive' = [w \in Windows |->
                     IF w \in DOMAIN runs[r].input THEN None ELSE archive[w]]

\* cleanupProactiveFeedback for one expired run that is not protected: its
\* history, its record and the archives it consumed.
ExpireRun(r) ==
    /\ runs' = [runs EXCEPT ![r] = None]
    /\ archive' = [w \in Windows |->
                     IF archive[w] # None /\ archive[w].by = r /\ Completed(r)
                     THEN None ELSE archive[w]]
=============================================================================
