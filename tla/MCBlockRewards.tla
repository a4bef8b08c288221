-------------------------- MODULE MCBlockRewards ---------------------------
(***************************************************************************)
(* A small instance of BlockRewards alone, for TLC.                        *)
(***************************************************************************)
EXTENDS BlockRewards, TLC

CONSTANTS r1, r2

TwoRewards == {r1, r2}

Symmetry == Permutations(Rewards)
=============================================================================
