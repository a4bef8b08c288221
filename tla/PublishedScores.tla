-------------------------- MODULE PublishedScores --------------------------
(***************************************************************************)
(* What the cache of scores promises to the handlers that answer from it,  *)
(* told without locks, chunks, queries or rounds of the warmer.            *)
(*                                                                         *)
(* An upload publishes its run at once, with all scores that are stored    *)
(* of it.  A refresh serves runs that are published, each with all of its  *)
(* scores, never older ones than before.  ScoresCache implements this.     *)
(***************************************************************************)
EXTENDS Integers, FiniteSetsExt

CONSTANTS MaxRuns, MaxChunks

VARIABLES
    published,  \* the runs of the uploads that are over
    scores,     \* their scores
    cache       \* what the handlers answer from

vars == <<published, scores, cache>>

-----------------------------------------------------------------------------
NoRun == 0

Nothing == [single |-> [scoring_run |-> NoRun, scores |-> {}],
            multi |-> [scoring_runs |-> {}, scores |-> {}]]

Newest(runs) == Max(runs \cup {NoRun})

ScoresOf(runs) == {s \in scores : s.scoring_run_id \in runs}

(* The tables as they were when `newest` was the last run                  *)
PublishedUpTo(newest) == {run \in published : run <= newest}

Init == published = {} /\ scores = {} /\ cache = Nothing

-----------------------------------------------------------------------------
(* An upload that fails publishes what it has stored.                      *)
Publish ==
    \E run \in (1..MaxRuns) \ published, chunks \in 0..MaxChunks :
        /\ run > Newest(published)
        /\ published' = published \cup {run}
        /\ scores' = scores \cup {[scoring_run_id |-> run, chunk |-> c] : c \in 1..chunks}

(* The last run is looked up again after its scores were loaded: it may be *)
(* a later one than theirs.                                                *)
RefreshSingle ==
    \E run, shown \in published \cup {NoRun} :
        /\ cache.single.scoring_run <= run /\ run <= shown
        /\ cache' = [cache EXCEPT !.single = [scoring_run |-> shown, scores |-> ScoresOf({run})]]
        /\ UNCHANGED <<published, scores>>

(* The list of runs may be later than the scores, never older.             *)
RefreshMulti ==
    \E loaded, listed \in published \cup {NoRun} :
        /\ Newest(cache.multi.scoring_runs) <= loaded /\ loaded <= listed
        /\ cache' = [cache EXCEPT !.multi = [scoring_runs |-> PublishedUpTo(listed),
                                             scores |-> ScoresOf(PublishedUpTo(loaded))]]
        /\ UNCHANGED <<published, scores>>

(* The API starts anew; an upload that this interrupts is over.            *)
Forget ==
    /\ Publish \/ UNCHANGED <<published, scores>>
    /\ cache' = Nothing

Next ==
    \/ Publish /\ UNCHANGED cache
    \/ RefreshSingle
    \/ RefreshMulti
    \/ Forget

(* When nothing more is published, or forgotten, the cache gets to show    *)
(* what is published, and goes on to.                                      *)
CatchesUp ==
    <>[](cache = [single |-> [scoring_run |-> Newest(published),
                              scores |-> ScoresOf({Newest(published)})],
                  multi |-> [scoring_runs |-> published, scores |-> scores]])

Spec == Init /\ [][Next]_vars /\ CatchesUp

=============================================================================
