---------------------------- MODULE MCAgentDaemon ---------------------------
(* Small instances of AgentDaemon for TLC. *)
EXTENDS AgentDaemon, TLC

CONSTANTS r1, r2, p1, w1, w2, h1, h2

(* One watch of one host; two watches that share their host; two watches   *)
(* of which one has a second host of its own.                              *)
OneHost == [w \in {w1} |-> {h1}]
TwoWatches == [w \in {w1, w2} |-> {h1}]
SharedHost == [w \in {w1, w2} |-> IF w = w1 THEN {h1, h2} ELSE {h2}]

RevSymmetry == Permutations({r1, r2})
=============================================================================
