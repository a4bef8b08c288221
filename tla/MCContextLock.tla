-------------------------- MODULE MCContextLock ---------------------------
(***************************************************************************)
(* A small instance of ContextLock alone, for TLC.                         *)
(***************************************************************************)
EXTENDS ContextLock

CONSTANTS warmer, h1

OneHandler == {h1}
=============================================================================
