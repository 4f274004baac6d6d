---------------------------- MODULE AgentRounds ----------------------------
(***************************************************************************)
(* AgentDaemon with the memory its state file does not keep: at which      *)
(* commit the last round of a host went wrong.  "No same-commit retry" is  *)
(* a promise about that history.  The daemon has only the park stamp to    *)
(* keep it with, and the stamp is written late (RunDone), erased by other  *)
(* outcomes, set aside by an approval and read back after a restart.       *)
(*                                                                         *)
(* Nothing in AgentDaemon reads the history variable: every behaviour here *)
(* is one of AgentDaemon with "burned" beside it.                          *)
(***************************************************************************)
EXTENDS AgentDaemon

VARIABLE burned  \* history: the commit the host's last round went wrong at

roundVars == <<vars, burned>>

(* The run task gives the host its outcome in this step; RunDone, which    *)
(* tells the daemon, comes later or never.                                 *)
RoundEnds(w, h) ==
  /\ running # None /\ running.watch = w /\ running.outcome[h] = None
  /\ running' # None /\ running'.outcome[h] # None

(* An operator approves: one more round (daemon.rs, request_poll).         *)
GrantsRound(w, h) ==
  /\ alive
  /\ ~ state.hosts[w][h].approved
  /\ state'.hosts[w][h].approved

(* The process dies before RunDone: a failure that no record names is      *)
(* forgotten with the run it belongs to.                                   *)
DiesUnrecorded(w, h) ==
  /\ alive /\ ~ alive'
  /\ running' # None /\ running'.watch = w
  /\ running'.outcome[h] # None /\ running'.outcome[h].kind \in Unsettled

(* A success ends the matter, and a round that finds the host out of reach *)
(* supersedes the park (state.rs, "Reaching this round means the park at   *)
(* the older revision is over"); a hold leaves it as it was.               *)
Burn(w, h) ==
  CASE RoundEnds(w, h) /\ running'.outcome[h].kind \in Unsettled     -> running.rev
    [] RoundEnds(w, h) /\ running'.outcome[h].kind \in Settled \cup Kinds -> None
    [] GrantsRound(w, h) \/ DiesUnrecorded(w, h)                     -> None
    [] OTHER                                                         -> burned[w][h]

RoundsInit == Init /\ burned = [w \in Watches |-> [h \in Hosts |-> None]]

RoundsNext == Next /\ burned' = [w \in Watches |-> [h \in Hosts |-> Burn(w, h)]]

RoundsSpec == RoundsInit /\ [][RoundsNext]_roundVars

FairRounds == RoundsSpec /\ Fairness
-----------------------------------------------------------------------------
(* A host whose last round at a commit failed or was cancelled is not      *)
(* given another one at that commit: not by a poll, a kick, a recheck, the *)
(* drained queue or the first polls after a restart, and not because other *)
(* commits were tried in between.  What does buy a round is an approval    *)
(* (exactly one: "consumed by that round's outcome, so a persistent        *)
(* failure can't retry-storm", daemon.rs:884), a success or a pending      *)
(* round at whatever commit since, and the death of the process before     *)
(* RunDone (runs of the daemon are recorded only then, daemon.rs:1007).    *)
NoSameCommitRetry ==
  alive /\ running # None =>
    \A h \in Hosts : running.plan[h] # None /\ running.outcome[h] = None =>
       burned[running.watch][h] # running.rev
=============================================================================
