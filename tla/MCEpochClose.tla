--------------------------- MODULE MCEpochClose ---------------------------
(***************************************************************************)
(* A small instance of EpochClose for TLC.  Every statement treats each    *)
(* row of `validators` by itself, so that one validator is enough.  Three  *)
(* epochs let the one in the middle be closed last.                        *)
(***************************************************************************)
EXTENDS EpochClose

CONSTANT v1
=============================================================================
