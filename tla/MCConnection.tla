---------------------------- MODULE MCConnection ----------------------------
(* Connection with buffers of a few units. *)
EXTENDS Connection, TLC
=============================================================================
