-------------------------- MODULE MCStandardDrawdown --------------------------
(* StandardDrawdown with the constants of the .cfg files, for TLC. *)
EXTENDS StandardDrawdown
=============================================================================
