--------------------------- MODULE MCAgentRunner ---------------------------
(* Instances of AgentRunner for TLC: one contract of one provider. *)
EXTENDS AgentRunner, TLC

CONSTANTS c1, s1

OneContract == (c1 :> s1)
Either == {TRUE, FALSE}
=============================================================================
