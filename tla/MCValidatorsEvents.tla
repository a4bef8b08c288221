------------------------- MODULE MCValidatorsEvents -------------------------
(***************************************************************************)
(* A small instance of ValidatorsEvents for TLC.  With EpochsBack = 2 and  *)
(* ClaimWindow = 1 there is one epoch in which the window still includes   *)
(* an epoch whose claims are over: a run must succeed then, or never does. *)
(* The validator is stored in epoch 1, so that the page of epoch 0 has     *)
(* settlements only.  Runs of the job are interchangeable.                 *)
(***************************************************************************)
EXTENDS ValidatorsEvents, TLC

CONSTANTS v1, r1, cron, backfill

Symmetry == Permutations(Jobs)

StoredIn == {<<1, v1>>}
=============================================================================
