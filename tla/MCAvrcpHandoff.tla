--------------------------- MODULE MCAvrcpHandoff ---------------------------
(* The owner handoff over a small number of connections. *)
EXTENDS AvrcpHandoff
=============================================================================
