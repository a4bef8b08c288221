---------------------------- MODULE MCCollector ----------------------------
(***************************************************************************)
(* A small instance of the collector and the block rewards job on one      *)
(* chain, for TLC.  Accounts are counted each by itself, so that one stake *)
(* account and its vote account are enough.  Of the two slots of an        *)
(* epoch one is before the wait of the job is over and one after it.       *)
(***************************************************************************)
EXTENDS Collector

CONSTANTS r1, r2, a1, v1

TwoRewards == {r1, r2}

OneVoter == (a1 :> v1)

Symmetry == Permutations(Rewards)
=============================================================================
