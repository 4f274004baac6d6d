----------------------------- MODULE DriftGuard -----------------------------
(***************************************************************************)
(* What the agent overwrites: one host and its profiles, the people who    *)
(* deploy to it by hand, and the two programs that deploy to it by         *)
(* themselves, the daemon and `deptui-agent check` (runner.rs, deploy_host; *)
(* main.rs, check_once), each with its copy of the state file.             *)
(*                                                                         *)
(* Every ssh round trip is a step of its own: people and the other program *)
(* come between the look at one profile and the next, between the last     *)
(* look and the activation, and between activation and read-back.          *)
(*                                                                         *)
(* Abstractions.  A profile's store path is where it was built from: a     *)
(* commit of the watched branch (they are numbered, an older one is an     *)
(* ancestor), another branch, or a working tree with changes.  All of them *)
(* have the same release.  Reachability is AgentDaemon's subject.          *)
(***************************************************************************)
EXTENDS Naturals, Sequences, FiniteSets, SequencesExt, HostLedger

CONSTANTS
  Profiles,   \* the profiles of the host, "system" among them
  Activation, \* the order they are activated in (Node::ordered_profiles)
  Reading,    \* the order the guard looks at them (of their names)
  Stamped,    \* does the flake set configurationRevision?
  Bootstrap,  \* bootstrap = "deploy"
  Guarded,    \* drift_guard
  Manual,     \* profiles that people deploy by hand
  Starts,     \* scenarios: what the state file and the host hold at first,
              \* and how much people and faults may do
  Branch,     \* content built from a commit of another branch
  Dirty       \* content built from a working tree with changes

Work == {Branch, Dirty}
Sources == Revs \cup Work
Programs == {"daemon", "check"}

\* `alone`: nobody runs check.
Budget == [people : Nat, faults : Nat, approvals : Nat, checks : Nat, alone : BOOLEAN]

ASSUME DriftAssumption ==
  /\ Revs \subseteq Nat \ {0} /\ 1 \in Revs
  /\ "system" \in Profiles /\ Manual \subseteq Profiles
  /\ {Activation, Reading} \subseteq Seq(Profiles)
  /\ Range(Activation) = Profiles /\ Range(Reading) = Profiles
  /\ {Stamped, Bootstrap, Guarded} \subseteq BOOLEAN
  /\ Work \cap (Revs \cup {None}) = {}
  /\ Paths = [Profiles -> Sources]
  /\ Starts \subseteq [host : [Profiles -> Sources \cup {None}], file : HostState,
                        budget : Budget]

\* A state file is of the branch as it is at first; one without a baseline is of
\* a host on which everything was activated.
ASSUME StartsAssumption ==
  \A start \in Starts :
    /\ start.budget.alone => start.budget.checks = 0
    /\ start.file.deployed \in {None, 1}
    /\ start.file.deployed = 1 /\ start.file.toplevels = None =>
         \A p \in Profiles : start.host[p] \in Work \cup {1}

VARIABLES
  head,    \* the watched branch
  host,    \* what each profile of the host runs, None if it has never been there
  foreign, \* history: the profiles people have changed since the agent
  file,    \* the host's entry in state.json
  memory,  \* the daemon's
  runs,    \* the run each program has under way
  budget   \* bounds: what people, faults, approvals and checks may still do

vars == << head, host, foreign, file, memory, runs, budget >>

----------------------------------------------------------------------------
(* Runs *)

Nothing == [p \in Profiles |-> None]

\* A run: its plan, the profiles still to look at or to activate, what it last
\* saw of those the guard looked at (history), the paths it collects, its
\* outcome, and for check the state it loaded.
NewRun(hs, phase, todo, recorded) ==
  [rev |-> head, phase |-> phase, todo |-> todo, recorded |-> recorded,
   seen |-> Nothing, left |-> Nothing, outcome |-> None, own |-> hs]

\* The plan of request_poll, as check_once builds it for itself.
CheckPlans(hs, rev) ==
  /\ ~hs.paused /\ hs.deployed # rev
  /\ hs.approved \/ hs.held # rev
  /\ hs.approved \/ hs.failed # rev

\* First contact looks at all profiles; the guard at those recorded; with
\* neither the run deploys at once.
Planned(hs) ==
  LET entry == PlanEntry(hs)
  IN  CASE entry.adopt /\ ~Bootstrap            -> NewRun(hs, "contact", Activation, entry.recorded)
        [] Guarded /\ entry.recorded # None     -> NewRun(hs, "guard", Reading, entry.recorded)
        [] OTHER                                -> NewRun(hs, "deploy", Activation, None)

\* An answered poll saves what the daemon has in memory, also one that finds
\* nothing to deploy: over what check recorded in between.
Poll ==
  /\ runs["daemon"] = None
  /\ file' = memory
  /\ \/ /\ Eligible(memory, head)
        /\ runs' = [runs EXCEPT !["daemon"] = [Planned(memory) EXCEPT !.own = None]]
     \/ ~Eligible(memory, head) /\ UNCHANGED runs
  /\ UNCHANGED << head, host, foreign, memory, budget >>

\* check loads and plans in one step; with nothing to deploy it would write back
\* what it has just loaded.
Check ==
  /\ runs["check"] = None /\ budget.checks > 0
  /\ LET own == DropSupersededParks(file)
     IN  CheckPlans(own, head) /\ runs' = [runs EXCEPT !["check"] = Planned(own)]
  /\ budget' = [budget EXCEPT !.checks = @ - 1]
  /\ UNCHANGED << head, host, foreign, file, memory >>

Fault == budget.faults > 0 /\ budget' = [budget EXCEPT !.faults = @ - 1]

Advance(who, next) ==
  /\ runs' = [runs EXCEPT ![who] = next]
  /\ UNCHANGED << head, foreign, file, memory >>

\* A run that need not remember what it looked for and saw any more.
Done(run) == [run EXCEPT !.recorded = None, !.seen = Nothing, !.left = Nothing, !.todo = << >>]

With(run, outcome) == [Done(run) EXCEPT !.phase = "ended", !.outcome = outcome]

\* First contact (check_profile_up_to_date): without the closure at hand, which
\* is how a fresh agent comes, the release alone is compared.
Current(content, rev, atHand) == IF atHand THEN content = rev ELSE content # None

Contact(who) ==
  LET run == runs[who]
      p == Head(run.todo)
      looked == [run EXCEPT !.todo = Tail(@), !.left[p] = host[p]]
  IN  /\ run # None /\ run.phase = "contact"
      /\ \/ /\ \E atHand \in BOOLEAN :
                 Advance(who, IF ~Current(host[p], run.rev, atHand) THEN With(run, Ended("held"))
                              ELSE IF looked.todo # << >> THEN looked
                              ELSE With(run, [kind |-> "adopted", toplevels |-> looked.left]))
            /\ UNCHANGED << host, budget >>
         \/ Advance(who, With(run, Ended("held"))) /\ Fault /\ UNCHANGED host

Seen(run, p) == [run EXCEPT !.seen[p] = host[p]]

\* The guard looks at one recorded profile after the other.
Compare(who) ==
  LET run == runs[who]
      p == Head(run.todo)
      looked == [Seen(run, p) EXCEPT !.todo = Tail(@)]
  IN  /\ run # None /\ run.phase = "guard"
      /\ \/ /\ \/ /\ host[p] = None
                  /\ Advance(who, With(Seen(run, p), Ended("held")))
               \/ /\ host[p] \notin {None, run.recorded[p]}
                  /\ Advance(who, [Seen(run, p) EXCEPT !.phase = "bless"])
               \/ /\ host[p] = run.recorded[p]
                  /\ Advance(who, IF looked.todo # << >> THEN looked
                                  ELSE [looked EXCEPT !.phase = "deploy", !.todo = Activation])
            /\ UNCHANGED << host, budget >>
         \/ Advance(who, With(run, Ended("held"))) /\ Fault /\ UNCHANGED host

\* What the running generation says it was built from: a commit, or nothing.
ConfigurationRev == IF Stamped /\ host["system"] # Dirty THEN host["system"] ELSE None

\* Mutant of Ancestor: asked the wrong way round.
AncestorReversed(rev, of) == rev \in Revs /\ of <= rev

\* Mutant of Ancestor: any commit at all will do.
AnyCommit(rev, of) == rev # None

Ancestor(rev, of) == rev \in Revs /\ rev <= of

\* A profile differs: a running generation of the watched history covers the
\* whole host, and nothing further is looked at.
Bless(who) ==
  LET run == runs[who]
      blessed == [Seen(run, "system") EXCEPT !.phase = "deploy", !.todo = Activation]
  IN  /\ run # None /\ run.phase = "bless"
      /\ \/ /\ Advance(who, IF Ancestor(ConfigurationRev, run.rev) THEN blessed
                            ELSE With(run, Ended("held")))
            /\ UNCHANGED << host, budget >>
         \/ Advance(who, With(run, Ended("held"))) /\ Fault /\ UNCHANGED host

\* The deploy activates one profile after the other.
Activate(who) ==
  LET run == runs[who]
      p == Head(run.todo)
      next == [run EXCEPT !.todo = Tail(@)]
  IN  /\ run # None /\ run.phase = "deploy"
      /\ host' = [host EXCEPT ![p] = run.rev]
      /\ foreign' = foreign \ {p}
      /\ runs' = [runs EXCEPT ![who] =
                    IF next.todo # << >> THEN next
                    ELSE [Done(run) EXCEPT !.phase = "read", !.todo = Activation]]
      /\ UNCHANGED << head, file, memory, budget >>

\* It fails or is cancelled, also after the last activation; what it has
\* activated stays.
Breaks(who) ==
  LET run == runs[who]
      unread == run # None /\ run.phase = "read" /\ run.todo = Activation
  IN  /\ run # None
      /\ \/ run.phase = "deploy" /\ Advance(who, With(run, Ended("failed")))
         \/ /\ run.phase = "deploy" \/ unread
            /\ who = "daemon"
            /\ Advance(who, With(run, Ended("cancelled")))
      /\ Fault
      /\ UNCHANGED host

\* The baseline after a profile could not be read back.
Unread(run) == None

\* The paths the guard will compare with are read back; all of them or none.
ReadBack(who) ==
  LET run == runs[who]
      p == Head(run.todo)
      looked == [run EXCEPT !.todo = Tail(@), !.left[p] = host[p]]
  IN  /\ run # None /\ run.phase = "read"
      /\ \/ /\ Advance(who, IF looked.todo # << >> THEN looked
                            ELSE With(run, [kind |-> "ok", toplevels |-> looked.left]))
            /\ UNCHANGED << host, budget >>
         \/ /\ Advance(who, With(run, [kind |-> "ok", toplevels |-> Unread(run)]))
            /\ Fault /\ UNCHANGED host

\* Mutant of Stamp: where the branch is by then.
StampHead(run) == head

\* The revision an outcome is recorded at.
Stamp(run) == run.rev

\* The outcome goes into the state the program has, and that to the file.
Records(who) ==
  LET run == runs[who]
      hs == ApplyOutcome(IF who = "daemon" THEN memory ELSE run.own, run.outcome, Stamp(run))
  IN  /\ run # None /\ run.phase = "ended"
      /\ file' = hs
      /\ memory' = IF who = "daemon" THEN hs ELSE memory
      /\ runs' = [runs EXCEPT ![who] = None]
      /\ UNCHANGED << head, host, foreign, budget >>

\* Ctrl-C ends check, a crash or a restart the daemon; a run is lost with it.
Kill(who) ==
  /\ runs[who] # None \/ who = "daemon"
  /\ Fault
  /\ runs' = [runs EXCEPT ![who] = None]
  /\ memory' = IF who = "daemon" THEN DropSupersededParks(file) ELSE memory
  /\ UNCHANGED << head, host, foreign, file >>

----------------------------------------------------------------------------
(* People *)

Commit ==
  /\ head + 1 \in Revs
  /\ head' = head + 1
  /\ UNCHANGED << host, foreign, file, memory, runs, budget >>

\* Somebody deploys a profile by hand, from a commit or from their own work.
DeployByHand ==
  /\ budget.people > 0
  /\ \E p \in Manual, source \in Work \cup {rev \in Revs : rev <= head} :
       /\ host[p] # source
       /\ host' = [host EXCEPT ![p] = source]
       /\ foreign' = foreign \cup {p}
  /\ budget' = [budget EXCEPT !.people = @ - 1]
  /\ UNCHANGED << head, file, memory, runs >>

Approve ==
  /\ budget.approvals > 0 /\ ~memory.approved
  /\ memory' = [memory EXCEPT !.approved = TRUE]
  /\ file' = memory'
  /\ budget' = [budget EXCEPT !.approvals = @ - 1]
  /\ UNCHANGED << head, host, foreign, runs >>

----------------------------------------------------------------------------

Init ==
  /\ head = 1
  /\ \E start \in Starts : host = start.host /\ file = start.file /\ budget = start.budget
  /\ foreign = {p \in Profiles :
                   \/ host[p] \in Work
                   \/ file.toplevels # None /\ host[p] # file.toplevels[p]}
  /\ memory = file
  /\ runs = [who \in Programs |-> None]

Task(who) == Contact(who) \/ Compare(who) \/ Bless(who) \/ Breaks(who) \/ ReadBack(who)

Next ==
  \/ Poll \/ Check
  \/ \E who \in Programs : (Task(who) \/ Activate(who) \/ Records(who) \/ Kill(who))
  \/ Commit \/ DeployByHand \/ Approve

Spec == Init /\ [][Next]_vars

----------------------------------------------------------------------------
(* Properties *)

Activates(who, p) ==
  /\ runs[who] # None /\ runs[who].phase = "deploy" /\ Head(runs[who].todo) = p
  /\ runs'[who] # None /\ runs'[who].phase # "ended" /\ runs'[who] # runs[who]

\* What a run was never told to protect: it was approved or unguarded, the
\* content is in the watched history, it is what the agent left, or it came
\* after the run had looked.
MayGo(run, p) ==
  \/ run.recorded = None
  \/ host[p] \in Revs /\ host[p] <= run.rev
  \/ host[p] \in {None, run.recorded[p]}
  \/ host[p] # run.seen[p]

\* The drift guard (runner.rs 657-716): whatever people and a second program do
\* between its looks and its activations, a run puts nothing over a system that
\* holds work it saw there: another branch, uncommitted changes, or a commit
\* newer than the one it deploys.
SystemWorkProtected ==
  [][\A who \in Programs : Activates(who, "system") => MayGo(runs[who], "system")]_vars

\* What the README (292) and docs/agent-design.md (95) say of the guard: so it
\* is for every profile.
WorkSurvives ==
  [][\A who \in Programs, p \in Profiles : Activates(who, p) => MayGo(runs[who], p)]_vars

HoldsForDrift(who) ==
  /\ runs[who] # None /\ runs[who].phase = "bless"
  /\ runs'[who] # None /\ runs'[who].phase = "ended" /\ budget' = budget

\* What the agent did itself is no drift: after a deploy that broke off halfway,
\* one whose record was lost, or one by the other program, the next run is held
\* back only by what people put there or by a newer commit.
OwnChangeNotHeld ==
  [][\A who \in Programs : Stamped /\ HoldsForDrift(who) =>
       \/ foreign # {}
       \/ \E p \in Profiles : host[p] \in Revs /\ host[p] > runs[who].rev]_vars

\* A baseline covers every profile, or there is none: one that could not be read
\* back must not hold the host at the next round.
BaselineWhole ==
  \A hs \in {file, memory} : hs.toplevels # None => None \notin Range(hs.toplevels)

\* Where the daemon is the only one to deploy, a host it takes to be at the
\* branch is: all of it, or it is the very content that was adopted.
RecordIsTrue ==
  /\ BaselineWhole
  /\ budget.alone /\ runs["daemon"] = None /\ memory.deployed = head
     => \A p \in Profiles \ foreign :
          \/ host[p] = head
          \/ memory.toplevels # None /\ host[p] = memory.toplevels[p]
=============================================================================
