---------------------------- MODULE MCDriftGuard ----------------------------
(* Finite instances of DriftGuard: one host with two profiles.             *)
EXTENDS DriftGuard

MCProfiles == {"system", "home"}
MCPaths == [Profiles -> Sources]

\* system first, as deploy-rs does; the baseline is a BTreeMap, home comes first.
SystemFirst == << "system", "home" >>
ByName == << "home", "system" >>

Both(source) == [p \in Profiles |-> source]
Settled1 == [Fresh EXCEPT !.deployed = 1, !.toplevels = Both(1)]

\* People, faults, approvals and one-shot checks of a scenario.
Up(people, faults, approvals, checks) ==
  [people |-> people, faults |-> faults, approvals |-> approvals, checks |-> checks,
   alone |-> checks = 0]

Deployed(up) == [host |-> Both(1), file |-> Settled1, budget |-> up]
Unknown(system, home, up) ==
  [host |-> [p \in Profiles |-> IF p = "system" THEN system ELSE home],
   file |-> Fresh, budget |-> up]

\* Deployed by the agent, or never seen by it: at the first commit, with a home
\* that was never deployed, or with somebody's work.
MCStarts ==
  {Deployed(Up(2, 1, 0, 0)), Deployed(Up(2, 0, 1, 0)),
   Deployed(Up(1, 1, 0, 1)), Deployed(Up(1, 0, 1, 1)), Deployed(Up(0, 2, 0, 1)),
   [Deployed(Up(1, 1, 1, 0)) EXCEPT !.host["home"] = None],
   Unknown(1, 1, Up(1, 1, 1, 0)), Unknown(1, 1, Up(1, 0, 0, 1)),
   Unknown(1, None, Up(1, 0, 1, 0)), Unknown(Dirty, 1, Up(1, 0, 1, 0))}

AtFirst == {Deployed(Up(1, 0, 0, 0))}
=============================================================================
