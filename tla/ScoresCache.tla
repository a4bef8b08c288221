---------------------------- MODULE ScoresCache ----------------------------
(***************************************************************************)
(* Scoring results: how an upload stores them (the /admin/scores handler   *)
(* and store_scoring), and how the cache warmer of the API copies them     *)
(* into the cache that the score handlers answer from (warm_scores_cache). *)
(*                                                                         *)
(* The handler holds the write lock of the Context for the whole upload,   *)
(* a run and then its scores in chunks of 500, each an autocommitted       *)
(* statement.  The warmer takes the read lock for one query at a time, so  *)
(* uploads come between its queries but not into them.                     *)
(*                                                                         *)
(* The rows of one chunk are one score here: they are inserted together.   *)
(***************************************************************************)
EXTENDS Integers, FiniteSetsExt, Functions

CONSTANTS
    MaxRuns,      \* bound on the scoring runs ever stored
    MaxChunks,    \* bound on the chunks of one upload
    MaxFailures   \* bound on failed uploads, failed queries and restarts

ASSUME ScoresCacheAssumption ==
    MaxRuns \in Nat /\ MaxChunks \in Nat /\ MaxFailures \in Nat

VARIABLES
    scoring_runs,  \* table: the scoring_run_ids
    scores,        \* table: the scores of every run
    upload,        \* the store_scoring in progress, or NoUpload
    warm,          \* the step and the local variables of warm_scores_cache
    cache,         \* the single-run and the multi-run scores in the cache
    failures       \* how often something failed (bounds the model)

scoresVars == <<scoring_runs, scores, upload, warm, cache, failures>>

-----------------------------------------------------------------------------
NoRun == 0

RunId == 1..MaxRuns

Score == [scoring_run_id : RunId, chunk : 1..MaxChunks]

NoUpload == [run |-> NoRun, chunks |-> 0, stored |-> 0]

SingleRunScores == [scoring_run : RunId \cup {NoRun}, scores : SUBSET Score]

MultiRunScores == [scoring_runs : SUBSET RunId, scores : SUBSET Score]

Cache == [single : SingleRunScores, multi : MultiRunScores]

EmptyCache ==
    [single |-> [scoring_run |-> NoRun, scores |-> {}],
     multi |-> [scoring_runs |-> {}, scores |-> {}]]

(* Faulty variants of the order: the list of runs is loaded before all     *)
(* scores, or before the last run.                                         *)
RunsBeforeScores ==
    <<"last_run", "scores", "scoring_runs", "last_run_again", "all_scores",
      "write_single", "write_multi">>

RunsBeforeLastRun ==
    <<"last_run", "scores", "all_scores", "scoring_runs", "last_run_again",
      "write_single", "write_multi">>

(* The five queries and the two cache writes of warm_scores_cache in order *)
WarmSteps ==
    <<"last_run", "scores", "all_scores", "last_run_again", "scoring_runs",
      "write_single", "write_multi">>

StepAfter(step) ==
    LET i == CHOOSE i \in DOMAIN WarmSteps : WarmSteps[i] = step
    IN WarmSteps[i + 1]

Warm == [step : Range(WarmSteps), loaded : Cache]

StartOfWarming == [step |-> "last_run", loaded |-> EmptyCache]

ScoresOf(run) == {s \in scores : s.scoring_run_id = run}

LastScoringRun == IF scoring_runs = {} THEN NoRun ELSE Max(scoring_runs)

-----------------------------------------------------------------------------
ScoresInit ==
    /\ scoring_runs = {}
    /\ scores = {}
    /\ upload = NoUpload
    /\ warm = StartOfWarming
    /\ cache = EmptyCache
    /\ failures = 0

(* Faulty variant: the upload shares the lock with the warmer's queries.   *)
LockSharedWithUpload == TRUE

(* Queries and cache writes wait while an upload holds the write lock.     *)
LockAvailable == upload = NoUpload

(* store_scoring inserts the run, whose id is the next of its sequence.    *)
InsertScoringRun(chunks) ==
    /\ upload = NoUpload
    /\ Cardinality(scoring_runs) < MaxRuns
    /\ LET id == Cardinality(scoring_runs) + 1
       IN /\ scoring_runs' = scoring_runs \cup {id}
          /\ upload' = [run |-> id, chunks |-> chunks, stored |-> 0]
    /\ UNCHANGED <<scores, warm, cache, failures>>

InsertScores ==
    /\ upload # NoUpload
    /\ upload.stored < upload.chunks
    /\ scores' = scores \cup {[scoring_run_id |-> upload.run, chunk |-> upload.stored + 1]}
    /\ upload' = [upload EXCEPT !.stored = @ + 1]
    /\ UNCHANGED <<scoring_runs, warm, cache, failures>>

FinishUpload ==
    /\ upload # NoUpload
    /\ upload.stored = upload.chunks
    /\ upload' = NoUpload
    /\ UNCHANGED <<scoring_runs, scores, warm, cache, failures>>

(* A statement fails, or the client goes away and the handler is dropped:  *)
(* the lock is released and the run stays with the chunks it has.          *)
UploadFails ==
    /\ upload # NoUpload
    /\ failures < MaxFailures
    /\ failures' = failures + 1
    /\ upload' = NoUpload
    /\ UNCHANGED <<scoring_runs, scores, warm, cache>>

-----------------------------------------------------------------------------
(* warm_scores_cache *)

(* One query of the warmer: it keeps what it loaded for the later steps.   *)
Query(step, loaded) ==
    /\ warm.step = step
    /\ LockAvailable
    /\ warm' = [step |-> StepAfter(step), loaded |-> loaded]
    /\ UNCHANGED <<scoring_runs, scores, upload, cache, failures>>

LoadLastScoringRun ==
    \E step \in {"last_run", "last_run_again"} :
        Query(step, [warm.loaded EXCEPT !.single.scoring_run = LastScoringRun])

LoadScores ==
    Query("scores",
          [warm.loaded EXCEPT !.single.scores = ScoresOf(warm.loaded.single.scoring_run)])

LoadAllScores ==
    Query("all_scores", [warm.loaded EXCEPT !.multi.scores = scores])

LoadScoringRuns ==
    Query("scoring_runs", [warm.loaded EXCEPT !.multi.scoring_runs = scoring_runs])

WriteSingleRunScores ==
    /\ warm.step = "write_single"
    /\ LockAvailable
    /\ cache' = [cache EXCEPT !.single = warm.loaded.single]
    /\ warm' = [warm EXCEPT !.step = "write_multi"]
    /\ UNCHANGED <<scoring_runs, scores, upload, failures>>

(* The lock is released between the two writes.  Then the warmer refreshes *)
(* the other caches, sleeps and starts anew.                               *)
WriteMultiRunScores ==
    /\ warm.step = "write_multi"
    /\ LockAvailable
    /\ cache' = [cache EXCEPT !.multi = warm.loaded.multi]
    /\ warm' = StartOfWarming
    /\ UNCHANGED <<scoring_runs, scores, upload, failures>>

(* A query fails: nothing is written and the next round starts anew.       *)
WarmingFails ==
    /\ warm.step \notin {"write_single", "write_multi"}
    /\ LockAvailable
    /\ failures < MaxFailures
    /\ failures' = failures + 1
    /\ warm' = StartOfWarming
    /\ UNCHANGED <<scoring_runs, scores, upload, cache>>

(* The API process exits, as it does when its database connection breaks,  *)
(* and is started again with an empty cache.                               *)
Restart ==
    /\ failures < MaxFailures
    /\ failures' = failures + 1
    /\ upload' = NoUpload
    /\ cache' = EmptyCache
    /\ warm' = StartOfWarming
    /\ UNCHANGED <<scoring_runs, scores>>

UploadStep == InsertScores \/ FinishUpload

WarmerStep ==
    \/ LoadLastScoringRun
    \/ LoadScores
    \/ LoadAllScores
    \/ LoadScoringRuns
    \/ WriteSingleRunScores
    \/ WriteMultiRunScores

ScoresNext ==
    \/ \E chunks \in 0..MaxChunks : InsertScoringRun(chunks)
    \/ UploadStep
    \/ UploadFails
    \/ WarmerStep
    \/ WarmingFails
    \/ Restart

(* The runtime keeps running the warmer's task and an upload in progress;  *)
(* nothing obliges anyone to upload.                                       *)
ScoresFairness == WF_scoresVars(UploadStep) /\ WF_scoresVars(WarmerStep)

ScoresSpec == ScoresInit /\ [][ScoresNext]_scoresVars /\ ScoresFairness

-----------------------------------------------------------------------------
(* What the handlers answer *)

(* /validators/score-breakdown joins each cached score with the cached run *)
ScoreBreakdown == {<<s, cache.single.scoring_run>> : s \in cache.single.scores}

(* /validators/score-breakdowns: the scores whose run is in the list       *)
ScoreBreakdowns ==
    {s \in cache.multi.scores : s.scoring_run_id \in cache.multi.scoring_runs}

-----------------------------------------------------------------------------
(* Properties *)

(* Every variable holds a value of its kind, and scores belong to a stored *)
(* run, as the foreign key of the scores table demands.                    *)
ScoresTypeOK ==
    /\ scoring_runs \subseteq RunId
    /\ scores \subseteq Score
    /\ \A s \in scores : s.scoring_run_id \in scoring_runs
    /\ upload \in [run : RunId \cup {NoRun}, chunks : 0..MaxChunks, stored : 0..MaxChunks]
    /\ warm \in Warm
    /\ cache \in Cache
    /\ failures \in 0..MaxFailures

(* compute_score_breakdowns drops no score for want of its run, whatever   *)
(* is uploaded between the two queries: runs are loaded after the scores.  *)
EveryScoreBrokenDown == ScoreBreakdowns = cache.multi.scores

(* Outside the gap between the two cache writes, what the single-run       *)
(* handlers answer from is part of what the multi-run handler answers from *)
SingleRunAmongMulti ==
    warm.step # "write_multi" =>
        /\ cache.single.scoring_run \in cache.multi.scoring_runs \cup {NoRun}
        /\ cache.single.scores \subseteq cache.multi.scores

(* The documentation of the handler says "Show last score breakdown for a  *)
(* validator": a score is shown with the epoch, components and weights of  *)
(* its own run.  It is not, after an upload between the two loads of the   *)
(* last run.                                                               *)
BreakdownOfOneRun ==
    \A shown \in ScoreBreakdown : shown[1].scoring_run_id = shown[2]

(* The system as the handlers see it: an upload in progress is not         *)
(* published.                                                              *)
Published ==
    INSTANCE PublishedScores WITH
        published <- scoring_runs \ {upload.run},
        scores <- {s \in scores : s.scoring_run_id # upload.run}

(* Chunk by chunk and query by query, with failures and restarts, the      *)
(* upload and the warmer do what PublishedScores promises: a run is served *)
(* with all of its scores or with none, no refresh takes back what was     *)
(* served, and when the uploads and failures have come to an end (the      *)
(* bounds see to that) the cache gets to show the tables for good.         *)
ServesPublished == Published!Spec

=============================================================================
