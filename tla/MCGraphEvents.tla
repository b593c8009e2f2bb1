---------------------------- MODULE MCGraphEvents ----------------------------
(* The instance of GraphEvents for TLC.  Its cfg checks a liveness          *)
(* property, so neither writers nor observers are declared symmetric.       *)
EXTENDS GraphEvents, TLC
=============================================================================
