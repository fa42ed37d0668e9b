---------------------------- MODULE MCDirectPdo ----------------------------
(* DirectPdo for TLC. *)
EXTENDS DirectPdo, TLC
=============================================================================
