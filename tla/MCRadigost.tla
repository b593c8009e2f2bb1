------------------------------ MODULE MCRadigost ------------------------------
(* Instances of Radigost for TLC. *)
EXTENDS Radigost, TLC

CONSTANTS a, b, s

xjaf == "xjaf"
MCServerAgents == {<<s, xjaf>>}
\* The pages of remote agents and of the other example agents.
MCOptions == {<<xjaf, TRUE>>, <<"Examples", FALSE>>}
\* A plain agent with a stub; a mobile agent and a server-side agent.
MCReceiverLists ==
  {<<<<a, xjaf>>>>, <<<<b, xjaf>>, <<s, xjaf>>>>}

PlatformSymmetry == Permutations(Platforms)
=============================================================================
