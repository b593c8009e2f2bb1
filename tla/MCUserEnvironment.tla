-------------------------- MODULE MCUserEnvironment --------------------------
(* Instances of UserEnvironment for TLC. *)
EXTENDS UserEnvironment, TLC

\* The executor's threads are interchangeable, and so are the agents.
ThreadAndAgentSymmetry == Permutations(Workers) \union Permutations(Agents)
=============================================================================
