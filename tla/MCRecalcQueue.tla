---------------------------- MODULE MCRecalcQueue ----------------------------
(* Small instances of RecalcQueue for TLC. *)
EXTENDS RecalcQueue

CONSTANTS r1, r2, r3
=============================================================================
