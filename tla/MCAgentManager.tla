--------------------------- MODULE MCAgentManager ----------------------------
(* Instances of AgentManager for TLC. *)
EXTENDS AgentManager, TLC

\* The server threads are interchangeable.
ThreadSymmetry == Permutations(Threads)
=============================================================================
