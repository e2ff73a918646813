-------------------------- MODULE MCRecoveryWindow --------------------------
(***************************************************************************)
(* A small instance of RecoveryWindow for TLC: two operators that may ask  *)
(* for different starts, and a clock that goes past the later deadline.    *)
(***************************************************************************)
EXTENDS RecoveryWindow
=============================================================================
