----------------------------- MODULE HostLedger -----------------------------
(***************************************************************************)
(* The standing state the agent keeps for one host of one watch            *)
(* (deptui-agent/src/state.rs, HostState), what one run outcome does to it *)
(* (HostState::apply_outcome), and the two questions a poll asks of it     *)
(* (daemon.rs, request_poll): does the host need this revision, and with   *)
(* which protections is it planned?                                        *)
(*                                                                         *)
(* Times and messages are left out: nothing in the agent branches on them. *)
(* A stamp is therefore its revision.  The per-profile map of store paths  *)
(* the drift guard compares against is one path, or None when the map is   *)
(* empty, which is how the code disarms the guard.                         *)
(***************************************************************************)
CONSTANTS
  Revs,    \* commits the watched branches can point at
  Paths,   \* contents of a host's profiles, as read back over ssh
  Kinds,   \* ways ssh fails to get in: "offline", "denied", "stalled"
  None     \* an absent Option

ASSUME KindsAssumption == Kinds \subseteq {"offline", "denied", "stalled"}

OptRev == Revs \cup {None}
OptPath == Paths \cup {None}
OfflineStamp == [rev : Revs, kind : Kinds]

HostState ==
  [ paused      : BOOLEAN,
    deployed    : OptRev,                      \* last revision deployed here
    failed      : OptRev,                      \* parked at this revision
    unreachable : BOOLEAN,                     \* ssh's last word was a refusal
    approved    : BOOLEAN,                     \* the human's standing ok
    held        : OptRev,                      \* refused to overwrite at it
    offline     : OfflineStamp \cup {None},    \* update pending, re-probed
    toplevels   : OptPath ]                    \* drift guard's baseline

Fresh ==
  [ paused |-> FALSE, deployed |-> None, failed |-> None, unreachable |-> FALSE,
    approved |-> FALSE, held |-> None, offline |-> None, toplevels |-> None ]

Unsettled == {"failed", "cancelled"}
Settled == {"ok", "adopted"}

Outcome == [kind : Settled \cup Unsettled \cup {"held"} \cup Kinds,
            toplevels : OptPath]

(* An outcome that carries no paths: every one but "ok" and "adopted". *)
Ended(kind) == [kind |-> kind, toplevels |-> None]

-----------------------------------------------------------------------------
(* One branch of apply_outcome each. *)

Succeeded(hs, rev, top) ==
  [hs EXCEPT !.deployed = rev, !.failed = None, !.offline = None,
             !.held = None, !.unreachable = FALSE, !.approved = FALSE,
             !.toplevels = top]

HeldAt(hs, rev) == [hs EXCEPT !.held = rev]

(* Mutant of ParkedAt: a failure does not use up the human's ok.           *)
ParkKeepsOk(hs, rev) == [hs EXCEPT !.failed = rev, !.offline = None]

(* A failure and a cancel park the host the same way; only the message     *)
(* differs.                                                                *)
ParkedAt(hs, rev) ==
  [hs EXCEPT !.failed = rev, !.offline = None, !.approved = FALSE]

(* Mutant of PendingAt: the park the pending round supersedes is kept.     *)
PendingKeepsPark(hs, rev, kind) ==
  [hs EXCEPT !.offline = [rev |-> rev, kind |-> kind], !.unreachable = TRUE]

PendingAt(hs, rev, kind) ==
  [hs EXCEPT !.offline = [rev |-> rev, kind |-> kind], !.failed = None,
             !.unreachable = TRUE]

ApplyOutcome(hs, o, rev) ==
  CASE o.kind \in Settled   -> Succeeded(hs, rev, o.toplevels)
    [] o.kind = "held"      -> HeldAt(hs, rev)
    [] o.kind \in Unsettled -> ParkedAt(hs, rev)
    [] o.kind \in Kinds     -> PendingAt(hs, rev, o.kind)

(* What loading a state file does to a host: files older than the rule     *)
(* that a pending round ends a park may carry both stamps.                 *)
DropSupersededParks(hs) ==
  IF hs.offline # None THEN [hs EXCEPT !.failed = None] ELSE hs

(* A probe that ssh refused, for a host that may carry a pending marker.   *)
Refused(hs, kind) ==
  [hs EXCEPT !.unreachable = TRUE,
             !.offline = IF hs.offline = None THEN None
                         ELSE [hs.offline EXCEPT !.kind = kind]]

-----------------------------------------------------------------------------
(* The eligibility test and the plan entry of request_poll. *)

(* Mutants of Eligible: what the host runs does not keep it out; a park or *)
(* hold at an older revision does.                                         *)
CurrentEligible(hs, rev) ==
  /\ ~ hs.paused
  /\ hs.approved \/ (hs.failed # rev /\ hs.held # rev)

NeverParkedEligible(hs, rev) ==
  /\ ~ hs.paused
  /\ hs.deployed # rev
  /\ hs.approved \/ (hs.failed = None /\ hs.held = None)

Eligible(hs, rev) ==
  /\ ~ hs.paused
  /\ hs.deployed # rev
  /\ hs.approved \/ (hs.failed # rev /\ hs.held # rev)

PlanHost == [adopt : BOOLEAN, recorded : OptPath]

ASSUME NoneAssumption ==
  /\ None \notin Revs
  /\ None \notin Paths
  /\ None \notin OfflineStamp
  /\ None \notin Outcome
  /\ None \notin PlanHost

(* Mutant of PlanEntry: a past failure counts as a first contact.          *)
FailureAdopts(hs) ==
  [ adopt    |-> ~ hs.approved /\ hs.deployed = None /\ hs.failed = None,
    recorded |-> IF hs.approved THEN None ELSE hs.toplevels ]

PlanEntry(hs) ==
  [ adopt    |-> ~ hs.approved /\ hs.deployed = None,
    recorded |-> IF hs.approved THEN None ELSE hs.toplevels ]

-----------------------------------------------------------------------------
(* A host's stamps never contradict each other: a pending marker replaces  *)
(* the park it supersedes, and no marker (park, hold, pending) is left at  *)
(* the very revision the host is recorded as running.                      *)
Consistent(hs) ==
  /\ hs.offline # None => hs.failed = None /\ hs.offline.rev # hs.deployed
  /\ hs.failed # None => hs.failed # hs.deployed
  /\ hs.held # None => hs.held # hs.deployed
=============================================================================
