--------------------------- MODULE MCLogShipping ---------------------------
(* Small instances of LogShipping for TLC. *)
EXTENDS LogShipping
=============================================================================
