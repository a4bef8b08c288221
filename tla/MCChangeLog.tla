---------------------------- MODULE MCChangeLog ----------------------------
(***************************************************************************)
(* A small instance of ChangeLog for TLC.  Four snapshots let a value      *)
(* change and change back, within an epoch and across one.  One value is   *)
(* within Limit and one is not.                                            *)
(***************************************************************************)
EXTENDS ObservedCommissions, TLC

CONSTANTS v1, v2, absent

Symmetry == Permutations(VoteAccounts)
=============================================================================
