---------------------------- MODULE MCGreylister ----------------------------
(* Small instances of the greylisting engine for TLC. *)
EXTENDS Greylister

CONSTANTS a, b, r1, r2
=============================================================================
