-------------------------- MODULE MCJitoAccounts ---------------------------
(***************************************************************************)
(* Small instances of JitoAccounts for TLC.  With four slots in an epoch   *)
(* and an interval of two, an epoch is collected once or twice.            *)
(***************************************************************************)
EXTENDS JitoAccounts, TLC

CONSTANTS v1, v2

TwoAccounts == {v1, v2}

Symmetry == Permutations(VoteAccounts)
=============================================================================
