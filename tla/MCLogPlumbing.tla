--------------------------- MODULE MCLogPlumbing ---------------------------
(* Small instances of LogPlumbing for TLC. *)
EXTENDS LogPlumbing, TLC
=============================================================================
