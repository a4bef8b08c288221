--------------------------- MODULE MCEpochScores ---------------------------
(***************************************************************************)
(* A small instance of the lock with the loading of scores, for TLC.       *)
(***************************************************************************)
EXTENDS EpochScores

CONSTANTS warmer, h1, h2

(* All programs that ask for the lock only while they do not hold it       *)
UnnestedReads == {"read_once", "read_twice", "query_once", "events", "staking_report"}

AllRequests == UnnestedReads \cup {"unstake_hints", "score_upload"}

TwoHandlers == {h1, h2}
=============================================================================
