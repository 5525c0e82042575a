---------------------------- MODULE MCTransport ----------------------------
(* A small instance of the connection for TLC. *)
EXTENDS TransportSafety
=============================================================================
