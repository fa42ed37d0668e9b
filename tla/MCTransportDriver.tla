-------------------------- MODULE MCTransportDriver --------------------------
(* TransportDriver on small sets of requests. *)
EXTENDS TransportDriver
=============================================================================
