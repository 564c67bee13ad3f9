------------------------------- MODULE MCCon -------------------------------
(* Small instances of the main process for TLC. *)
EXTENDS Con
=============================================================================
