------------------------- MODULE MCExecutionControl --------------------------
(* The instances of ExecutionControl for TLC.  Their cfgs check liveness    *)
(* properties, so that the agents are not declared symmetric.               *)
EXTENDS ExecutionControl, TLC
=============================================================================
