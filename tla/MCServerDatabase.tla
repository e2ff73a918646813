-------------------------- MODULE MCServerDatabase --------------------------
(***************************************************************************)
(* A small instance of ServerDatabase for TLC: one bootstrap, its service  *)
(* and the worker it installs, with jq as it is.                           *)
(***************************************************************************)
EXTENDS ServerDatabase
=============================================================================
