----------------------------- MODULE MCUptimes -----------------------------
(***************************************************************************)
(* A small instance of Uptimes for TLC.  With StatusTail = 1 and           *)
(* MaxDelay = 2, consecutive snapshots may be one unit apart (adjacent     *)
(* rows), two apart (a gap that is bridged) or further (a gap that is      *)
(* not).  One validator is enough, as the rows of one never depend on      *)
(* those of another; the proofs are for any set of them.                   *)
(***************************************************************************)
EXTENDS Downtimes

CONSTANT v1

Time == 1..5
=============================================================================
