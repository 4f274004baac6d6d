---------------------------- MODULE MCAgentView ----------------------------
(* Finite instances of AgentView: two agents of two hosts.                 *)
EXTENDS AgentView

CONSTANTS a1, a2, h1, h2

SomeRows == << h1, h2 >>

\* The view opened, closed and turned while a run logs; with an agent that goes
\* down or an answer that is lost; verbs in two steps, lost, and answered when
\* the view is closed; runs that push others out of the history while it is
\* fetched; agents left to the discovery scan.
SomeScenarios ==
  {[agents |-> << a1, a2 >>,
    budget |-> [keys |-> 3, ops |-> 0, runs |-> 1, lines |-> 1, faults |-> 0]],
   [agents |-> << a1, a2 >>,
    budget |-> [keys |-> 2, ops |-> 0, runs |-> 1, lines |-> 1, faults |-> 1]],
   [agents |-> << a1, a2 >>,
    budget |-> [keys |-> 1, ops |-> 3, runs |-> 0, lines |-> 0, faults |-> 0]],
   [agents |-> << a1 >>,
    budget |-> [keys |-> 1, ops |-> 1, runs |-> 1, lines |-> 0, faults |-> 1]],
   [agents |-> << a1 >>,
    budget |-> [keys |-> 2, ops |-> 1, runs |-> 0, lines |-> 0, faults |-> 0]],
   [agents |-> << a1 >>,
    budget |-> [keys |-> 1, ops |-> 0, runs |-> 3, lines |-> 2, faults |-> 0]],
   [agents |-> << a1 >>,
    budget |-> [keys |-> 1, ops |-> 0, runs |-> 2, lines |-> 1, faults |-> 1]],
   [agents |-> << >>,
    budget |-> [keys |-> 2, ops |-> 0, runs |-> 0, lines |-> 0, faults |-> 1]]}
=============================================================================
