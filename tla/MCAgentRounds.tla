---------------------------- MODULE MCAgentRounds ---------------------------
(* A small instance of AgentRounds for TLC: one watch of one host. *)
EXTENDS AgentRounds, TLC

CONSTANTS r1, r2, p1, w1, h1

OneHost == [w \in {w1} |-> {h1}]
=============================================================================
