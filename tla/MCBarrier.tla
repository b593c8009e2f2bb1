------------------------------ MODULE MCBarrier ------------------------------
(* The instance of Barrier for TLC.  Its cfg checks a liveness property, so *)
(* the agents are not declared symmetric, although the handlers treat all   *)
(* AIDs alike.                                                              *)
EXTENDS Barrier, TLC
=============================================================================
