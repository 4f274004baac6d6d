---------------------------- MODULE ProbeStatus ----------------------------
(***************************************************************************)
(* What the TUI shows of a host and how it comes to know it: the probes of *)
(* probe.rs and host.rs, the status channel, and the App's bookkeeping of  *)
(* both (app.rs: refresh_*, apply_probe, cancel_probes, the wipe after a   *)
(* deploy).                                                                *)
(*                                                                         *)
(* Actors: the App's loop (a key, a report or the deploy's last line at a  *)
(* time), one task per probe, the deploy in progress, and whoever edits    *)
(* the flake.  Every probe asks twice: first of the flake and this         *)
(* machine's store, then of the host or the store that would build; other  *)
(* actors come between.                                                    *)
(*                                                                         *)
(* Abstractions.  One host (hosts share nothing but the `x` key).  A       *)
(* version of the flake is a number, and a profile's content a store path  *)
(* of HostChecks.  Sizes and diffs carry the paths they are about.         *)
(* Progress lines and error texts are left out.                            *)
(***************************************************************************)
EXTENDS HostChecks

CONSTANTS
  Profiles,    \* profiles of the node
  MaxVersion,  \* bound on the versions of the flake
  Release,     \* the release (name-version) each version of the flake has
  Packages,    \* the rest of the closure at each version of the flake
  Caches,      \* the substituters each version of the flake declares
  LocalCaches, \* the substituters of this machine
  PublicKeys,  \* the trusted public keys each version of the flake declares
  LocalKeys,   \* those of this machine
  Foreign,     \* a profile path deptui knows nothing about
  MaxKeys      \* bound on the keys pressed

Versions == 0 .. MaxVersion

ASSUME VersionsAssumption ==
  /\ MaxVersion \in Nat
  /\ DOMAIN Release = Versions /\ DOMAIN Packages = Versions
  /\ DOMAIN Caches = Versions /\ DOMAIN PublicKeys = Versions

\* A node without a profile is deployed nothing and asked for no plan.
ASSUME ProfilesAssumption == Profiles # {} /\ None \notin Profiles

VARIABLES
  \* the world
  flake,       \* the version of the flake in the working tree
  built,       \* versions whose closures are in this machine's store
  stored,      \* versions whose closures are in the host's store
  remote,      \* the path each profile of the host points at
  \* the probes
  tasks,       \* App.probe_tasks that have not finished
  reports,     \* StatusUpdate::Probe messages in the channel, oldest first
  \* the App
  profile,     \* HostStatus.profiles
  host,        \* the rest of HostStatus
  remoteBuild, \* toggle 4
  deploy,      \* the deploy in progress, or None
  keys,        \* keys pressed so far; numbers the probes
  \* history
  wiped,       \* keys pressed when a deploy last wiped the status
  late         \* probes (key and profile) that were under way when the paths
               \* they are about were replaced

world == <<flake, built, stored, remote>>
probes == <<tasks, reports>>
status == <<profile, host>>
history == <<wiped, late>>
vars == <<world, probes, status, remoteBuild, deploy, keys, history>>

----------------------------------------------------------------------------
(* Store paths *)

Wrapper(p, v) == [name |-> p, wrapper |-> TRUE, version |-> Release[v], hash |-> v]

Toplevel(p, v) == [Wrapper(p, v) EXCEPT !.wrapper = FALSE]

References(w) == {[w EXCEPT !.wrapper = FALSE]}

Closure(path) ==
  IF path = Foreign THEN {path}
  ELSE {path, [path EXCEPT !.wrapper = FALSE]} \cup Packages[path.hash]

\* The local side of a comparison with the host, its closure being at hand.
Resolved(local, there) ==
  IF local.wrapper THEN ResolveToplevel(local, References(local), there) ELSE local

StorePaths(versions) ==
  UNION {Closure(Wrapper(p, v)) : p \in Profiles, v \in versions}

StoreOf(site) == IF site = "remote" THEN stored ELSE built

ProfilePaths ==
  {Wrapper(p, v) : p \in Profiles, v \in Versions}
    \cup {Toplevel(p, v) : p \in Profiles, v \in Versions}

Paths == ProfilePaths \cup {Foreign}

\* The rest of a closure is finite and holds no profile, of any version.
ASSUME ClosuresAssumption ==
  /\ Foreign \notin ProfilePaths
  /\ \A v \in Versions : IsFiniteSet(Packages[v]) /\ Packages[v] \cap ProfilePaths = {}

ASSUME CachesAssumption == \A v \in Versions : Caches[v] \in Seq(Range(Caches[v]))

----------------------------------------------------------------------------
(* The state of the App *)

UnknownProfile ==
  [update |-> None, checking |-> FALSE, plan |-> None,
   paths |-> None, sizes |-> None, checkingSize |-> FALSE,
   diff |-> None, checkingPkg |-> FALSE]

UnknownHost == [online |-> None, checkingReach |-> FALSE, drift |-> None,
                checkingCache |-> FALSE, checkingPlan |-> FALSE]

Init ==
  /\ flake = 0
  /\ built = {}
  /\ stored = {0}
  /\ remote \in {r \in [Profiles -> Paths \cup {None}] :
                   \A p \in Profiles : r[p] \in {None, Foreign, Toplevel(p, 0)}}
  /\ tasks = {} /\ reports = << >>
  /\ profile = [p \in Profiles |-> UnknownProfile]
  /\ host = UnknownHost
  /\ remoteBuild = FALSE
  /\ deploy = None
  /\ keys = 0 /\ wiped = 0 /\ late = {}

----------------------------------------------------------------------------
(* Probes *)

Outstanding == tasks \cup {reports[i].task : i \in DOMAIN reports}

Probe(key, kind, p, paths, site) ==
  [key |-> key, kind |-> kind, profile |-> p, paths |-> paths, site |-> site,
   found |-> None]

\* The first half of a probe: evaluate the flake, or see to it that the local
\* closure is there (ensure_local_closure), which a flake that has moved on
\* can no longer build.
Buildable(t) == t.paths[1].hash \in built \cup {flake}

FirstHalf(t) ==
  /\ t.found = None
  /\ t.kind \in {"size", "pkg"} => Buildable(t)
  /\ LET version == IF t.kind \in {"size", "pkg"} THEN t.paths[1].hash ELSE flake
     IN  tasks' = (tasks \ {t}) \cup {[t EXCEPT !.found = version]}
  /\ built' = IF t.kind \in {"size", "pkg"} THEN built \cup {t.paths[1].hash} ELSE built
  /\ UNCHANGED <<flake, stored, remote, reports, status, remoteBuild, deploy, keys, history>>

Report(t, result) ==
  /\ tasks' = tasks \ {t}
  /\ reports' = Append(reports, [task |-> t, result |-> result])
  /\ UNCHANGED <<world, status, remoteBuild, deploy, keys, history>>

\* check_profile_up_to_date, once the host has answered.
ProfileCheck(t) ==
  LET there == remote[t.profile]
      wrapper == Wrapper(t.profile, t.found)
      exact == Resolved(wrapper, there)
      known == t.found \in built /\ exact # wrapper
  IN  IF there = None
      THEN [state |-> "notDeployed", paths |-> << wrapper, None >>]
      ELSE [state |-> IF IF known THEN exact = there ELSE SameRelease(wrapper, there)
                      THEN "upToDate" ELSE "needsUpdate",
            paths |-> << IF known THEN exact ELSE wrapper, there >>]

\* nix says what it would build and what it would fetch, in no fixed order.
PathLines(paths) ==
  [i \in 1 .. Cardinality(paths) |-> [kind |-> "path", path |-> SetToSeq(paths)[i]]]

Section(header, paths) ==
  IF paths = {} THEN << >>
  ELSE << [kind |-> "header", header |-> header] >> \o PathLines(paths)

DryRunLines(missing, fetched) ==
  Section("built", missing \ fetched) \o Section("fetched", missing \cap fetched)
    \o Section("other", {Foreign})

BuildPlan(t, fetched) ==
  LET missing == Closure(Wrapper(t.profile, t.found)) \ StorePaths(StoreOf(t.site))
      plan == ParseDryRun(DryRunLines(missing, fetched))
  IN  [site |-> t.site, missing |-> missing, toBuild |-> plan.toBuild, toFetch |-> plan.toFetch]

\* The versions whose configuration the host runs.
Running == {remote[p].hash : p \in {q \in Profiles : remote[q] \in Paths \ {Foreign}}}

\* The caches and keys of the installation that builds: the host's are those of
\* the configuration it runs.
CachesAt(site) ==
  IF site = "local" THEN LocalCaches ELSE UNION {Range(Caches[v]) : v \in Running}

KeysAt(site) ==
  IF site = "local" THEN LocalKeys ELSE UNION {PublicKeys[v] : v \in Running}

CacheDrift(t) ==
  [site |-> t.site, declared |-> Caches[t.found], there |-> CachesAt(t.site),
   added |-> AddedEntries(Caches[t.found], CachesAt(t.site)),
   addedKeys |-> PublicKeys[t.found] \ KeysAt(t.site)]

\* The second half: the host, or the store that builds, answers.
Answers(t) ==
  \/ t.kind = "reach" /\ \E up \in BOOLEAN : Report(t, up)
  \/ /\ t.found # None
     /\ \/ t.kind = "update" /\ Report(t, ProfileCheck(t))
        \/ t.kind = "size" /\ Report(t, [of |-> t.paths])
        \/ t.kind = "pkg" /\ Report(t, [of |-> t.paths,
               changes |-> VersionDiff(Closure(Resolved(t.paths[1], t.paths[2])), Closure(t.paths[2]))])
        \/ t.kind = "plan" /\ \E fetched \in {{}, Packages[t.found]} :
                                Report(t, BuildPlan(t, fetched))
        \/ t.kind = "drift" /\ Report(t, CacheDrift(t))

\* Either half may fail: nix, ssh or the network; reachability never does.
Fails(t) == t.kind # "reach" /\ Report(t, None)

RunProbe == \E t \in tasks : FirstHalf(t) \/ Answers(t) \/ Fails(t)

----------------------------------------------------------------------------
(* Keys *)

\* Everything a key leaves alone, but for the status and the probes.
Press ==
  /\ keys < MaxKeys
  /\ keys' = keys + 1
  /\ UNCHANGED <<world, reports, history>>

Spawn(new) == tasks' = tasks \cup new

Site == IF remoteBuild THEN "remote" ELSE "local"

\* `r`; what it asks of the agents (AgentView's subject) and of the flake, for
\* nodes that are new, is left out.
RefreshReachability ==
  /\ Press
  /\ host' = [host EXCEPT !.checkingReach = TRUE]
  /\ Spawn({Probe(keys + 1, "reach", None, None, None)})
  /\ UNCHANGED <<profile, remoteBuild, deploy>>

\* `u`
RefreshUpdates ==
  /\ Press
  /\ profile' = [p \in Profiles |-> [profile[p] EXCEPT !.checking = TRUE]]
  /\ Spawn({Probe(keys + 1, "update", p, None, None) : p \in Profiles})
  /\ UNCHANGED <<host, remoteBuild, deploy>>

\* `Shift+U`: every profile whose paths are known.
RefreshSizes ==
  LET known == {p \in Profiles : profile[p].paths # None}
  IN  /\ Press
      /\ known # {}
      /\ profile' = [p \in Profiles |->
                       IF p \in known THEN [profile[p] EXCEPT !.checkingSize = TRUE]
                                      ELSE profile[p]]
      /\ Spawn({Probe(keys + 1, "size", p, profile[p].paths, None) : p \in known})
      /\ UNCHANGED <<host, remoteBuild, deploy>>

\* `Shift+P`, and what a drift check leads to: one flag for the host, one
\* probe for each profile.
PlanProbes(key) ==
  IF host.checkingPlan THEN {}
  ELSE {Probe(key, "plan", p, None, Site) : p \in Profiles}

RefreshBuildPlan ==
  /\ Press
  /\ ~host.checkingPlan
  /\ host' = [host EXCEPT !.checkingPlan = TRUE]
  /\ Spawn(PlanProbes(keys + 1))
  /\ UNCHANGED <<profile, remoteBuild, deploy>>

\* `Shift+C`
RefreshCacheDrift ==
  /\ Press
  /\ ~host.checkingCache
  /\ host' = [host EXCEPT !.checkingCache = TRUE]
  /\ Spawn({Probe(keys + 1, "drift", None, None, Site)})
  /\ UNCHANGED <<profile, remoteBuild, deploy>>

\* `4`
ToggleRemoteBuild ==
  /\ Press
  /\ remoteBuild' = ~remoteBuild
  /\ UNCHANGED <<tasks, status, deploy>>

\* cancel_probes: every task that has not finished is aborted, every spinner
\* stopped; what is already in the channel stays there.
Quiet(ps) == [ps EXCEPT !.checking = FALSE, !.checkingSize = FALSE, !.checkingPkg = FALSE]

\* Mutant of QuietHost: the flag added last is forgotten.
QuietHostButPlan(h) == [h EXCEPT !.checkingReach = FALSE, !.checkingCache = FALSE]

QuietHost(h) ==
  [h EXCEPT !.checkingReach = FALSE, !.checkingCache = FALSE, !.checkingPlan = FALSE]

\* `x`: the probes, and the deploy if there is one; also when all have finished
\* and their reports are still in the channel.
Cancel ==
  /\ Press
  /\ tasks' = {}
  /\ profile' = [p \in Profiles |-> Quiet(profile[p])]
  /\ host' = QuietHost(host)
  /\ deploy' = None
  /\ UNCHANGED remoteBuild

\* A confirmed deploy of the host.
StartDeploy ==
  /\ Press
  /\ deploy = None
  /\ deploy' = [version |-> flake, site |-> Site, done |-> {}]
  /\ UNCHANGED <<tasks, status, remoteBuild>>

----------------------------------------------------------------------------
(* Reports *)

\* The probes whose answers about p are overtaken when its paths change hands.
OvertakenBy(p, kinds, outstanding) ==
  {<< t.key, p >> : t \in {u \in outstanding : u.kind \in kinds /\ u.profile = p}}

\* Mutant of Updated: the old sizes and diff stay.
UpdatedPathsOnly(ps, key, result) ==
  LET failed == result = None
      paths == IF failed \/ result.state = "notDeployed" THEN None ELSE result.paths
  IN  [ps EXCEPT !.update = [key |-> key, state |-> IF failed THEN "error" ELSE result.state],
                 !.checking = FALSE, !.paths = paths]

\* An update check: paths are replaced or cleared, and what was known of the
\* old ones goes with them.
Updated(ps, key, result) ==
  LET failed == result = None
      paths == IF failed \/ result.state = "notDeployed" THEN None ELSE result.paths
  IN  [ps EXCEPT !.update = [key |-> key, state |-> IF failed THEN "error" ELSE result.state],
                 !.checking = FALSE, !.paths = paths, !.sizes = None, !.diff = None]

\* A size check; a good one leads to the diff of the paths known now.
Sized(ps, key, result) ==
  [ps EXCEPT !.checkingSize = FALSE,
             !.sizes = IF result = None THEN None ELSE [key |-> key, said |-> result],
             !.checkingPkg = @ \/ (result # None /\ ps.paths # None)]

DiffProbes(t, result) ==
  IF result # None /\ profile[t.profile].paths # None
  THEN {Probe(t.key, "pkg", t.profile, profile[t.profile].paths, None)}
  ELSE {}

Diffed(ps, key, result) ==
  [ps EXCEPT !.checkingPkg = FALSE,
             !.diff = IF result = None THEN None ELSE [key |-> key, said |-> result]]

Planned(ps, key, result) ==
  [ps EXCEPT !.plan = IF result = None THEN @ ELSE [key |-> key, said |-> result]]

\* A cache or a key that a remote build cannot use leads to the build plan.
HasDrift(result) ==
  /\ result # None /\ result.site = "remote"
  /\ result.added # {} \/ result.addedKeys # {}

Drifted(h, key, result) ==
  [h EXCEPT !.checkingCache = FALSE,
            !.drift = IF result = None THEN None ELSE [key |-> key, said |-> result],
            !.checkingPlan = @ \/ HasDrift(result)]

\* The App takes one report off the channel and folds it in.
ApplyReport ==
  /\ reports # << >>
  /\ reports' = Tail(reports)
  /\ LET t == Head(reports).task
         result == Head(reports).result
         p == t.profile
     IN  \/ /\ t.kind = "reach"
            /\ host' = [host EXCEPT !.online = result, !.checkingReach = FALSE]
            /\ UNCHANGED <<tasks, profile, late>>
         \/ /\ t.kind = "update"
            /\ profile' = [profile EXCEPT ![p] = Updated(@, t.key, result)]
            /\ late' = late \cup OvertakenBy(p, {"size", "pkg"}, Outstanding)
            /\ UNCHANGED <<tasks, host>>
         \/ /\ t.kind = "size"
            /\ profile' = [profile EXCEPT ![p] = Sized(@, t.key, result)]
            /\ Spawn(DiffProbes(t, result))
            /\ UNCHANGED <<host, late>>
         \/ /\ t.kind = "pkg"
            /\ profile' = [profile EXCEPT ![p] = Diffed(@, t.key, result)]
            /\ UNCHANGED <<tasks, host, late>>
         \/ /\ t.kind = "plan"
            /\ profile' = [profile EXCEPT ![p] = Planned(@, t.key, result)]
            /\ host' = [host EXCEPT !.checkingPlan = FALSE]
            /\ UNCHANGED <<tasks, late>>
         \/ /\ t.kind = "drift"
            /\ host' = Drifted(host, t.key, result)
            /\ IF HasDrift(result) THEN Spawn(PlanProbes(t.key)) ELSE UNCHANGED tasks
            /\ UNCHANGED <<profile, late>>
  /\ UNCHANGED <<world, remoteBuild, deploy, keys, wiped>>

----------------------------------------------------------------------------
(* The deploy, and the world *)

\* The host starts to run a profile of what is being deployed.
Activate(p) ==
  /\ deploy # None
  /\ p \notin deploy.done
  /\ remote' = [remote EXCEPT ![p] = Toplevel(p, deploy.version)]
  /\ stored' = stored \cup {deploy.version}
  /\ built' = IF deploy.site = "local" THEN built \cup {deploy.version} ELSE built
  /\ deploy' = [deploy EXCEPT !.done = @ \cup {p}]
  /\ UNCHANGED <<flake, probes, status, remoteBuild, keys, history>>

\* Mutant of WipedProfile: the plan of what was just deployed stays.
WipedButPlan(ps) ==
  [UnknownProfile EXCEPT !.checking = ps.checking, !.plan = ps.plan]

\* What a successful deploy leaves of the status.
WipedProfile(ps) == [UnknownProfile EXCEPT !.checking = ps.checking]

WipedHost(h) == [h EXCEPT !.drift = None]

\* Its last line, and whether it went well.
DeployEnds ==
  /\ deploy # None
  /\ deploy' = None
  /\ \/ UNCHANGED <<status, history>>
     \/ /\ deploy.done = Profiles
        /\ profile' = [p \in Profiles |-> WipedProfile(profile[p])]
        /\ host' = WipedHost(host)
        /\ wiped' = keys
        /\ late' = late \cup {t.key : t \in Outstanding} \X (Profiles \cup {None})
  /\ UNCHANGED <<world, probes, remoteBuild, keys>>

\* Somebody commits to the flake.
EditFlake ==
  /\ flake + 1 \in Versions
  /\ flake' = flake + 1
  /\ UNCHANGED <<built, stored, remote, probes, status, remoteBuild, deploy, keys, history>>

Keys ==
  \/ RefreshReachability \/ RefreshUpdates \/ RefreshSizes \/ RefreshBuildPlan
  \/ RefreshCacheDrift \/ ToggleRemoteBuild \/ Cancel \/ StartDeploy

Next ==
  \/ Keys
  \/ RunProbe
  \/ ApplyReport
  \/ \E p \in Profiles : Activate(p)
  \/ DeployEnds
  \/ EditFlake

Spec == Init /\ [][Next]_vars

----------------------------------------------------------------------------
(* Properties *)

UnderWay(kind, p) == \E t \in Outstanding : t.kind = kind /\ t.profile = p

\* A spinner turns only while a probe that will stop it is running, or its
\* report is in the channel: no `x`, no chained probe and no deploy leaves one
\* turning for nothing (cancel_probes: "without this sweep the spinners would
\* spin forever").
SpinnerJustified ==
  /\ host.checkingReach => UnderWay("reach", None)
  /\ host.checkingCache => UnderWay("drift", None)
  /\ host.checkingPlan => \E p \in Profiles : UnderWay("plan", p)
  /\ \A p \in Profiles :
       /\ profile[p].checking => UnderWay("update", p)
       /\ profile[p].checkingSize => UnderWay("size", p)
       /\ profile[p].checkingPkg => UnderWay("pkg", p)

\* Sizes and diffs on the screen are those of the paths beside them, unless the
\* paths were replaced while they were being measured (apply_probe: no "stale
\* numbers as current").
MeasuredAsShown ==
  \A p \in Profiles : \A item \in {profile[p].sizes, profile[p].diff} \ {None} :
    item.said.of = profile[p].paths \/ << item.key, p >> \in late

\* Once a deploy has gone well, all that is said about the host was asked for
\* afterwards, or was on its way when the deploy ended.
SaidSinceDeploy ==
  LET Fresh(item, p) == item = None \/ item.key > wiped \/ << item.key, p >> \in late
  IN  /\ Fresh(host.drift, None)
      /\ \A p \in Profiles :
           \A item \in {profile[p].update, profile[p].sizes, profile[p].diff, profile[p].plan} :
             Fresh(item, p)

\* An empty package diff means that the host runs that very closure, also when
\* all names and versions agree (ContentOnly).
EmptyDiffIsIdentity ==
  \A p \in Profiles : profile[p].diff # None =>
    LET of == profile[p].diff.said.of
    IN  profile[p].diff.said.changes = {} <=> Resolved(of[1], of[2]) = of[2]

\* The plan on the screen accounts for every path the building store lacked,
\* and for nothing else nix may have listed.
PlanAccounts ==
  \A p \in Profiles : profile[p].plan # None =>
    LET plan == profile[p].plan.said
    IN  /\ Range(plan.toBuild) \cup Range(plan.toFetch) = plan.missing
        /\ Range(plan.toBuild) \cap Range(plan.toFetch) = {}

\* Drift is reported exactly for the caches, by url, that the flake declares
\* and the building installation does not have: no trailing slash makes one.
DriftIsReal ==
  host.drift # None =>
    LET d == host.drift.said
    IN  /\ Urls(d.added) = Urls(Range(d.declared)) \ Urls(d.there)
        /\ Cardinality(Urls(d.added)) = Cardinality(d.added)

\* What the checks say is so: of closures (compute_version_diff), of build plans
\* (parse_dry_run) and of caches (added_entries).
ChecksSayTrue == EmptyDiffIsIdentity /\ PlanAccounts /\ DriftIsReal
=============================================================================
