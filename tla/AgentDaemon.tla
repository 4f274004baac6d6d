---------------------------- MODULE AgentDaemon -----------------------------
(***************************************************************************)
(* The deptui-agent daemon: the single-writer loop of daemon.rs, the run   *)
(* task of runner.rs it spawns, and the state file both survive in.        *)
(*                                                                         *)
(* One action is one turn of the daemon's select! loop (a command, a due   *)
(* timer), one step of the run task, or one event outside the agent.  The  *)
(* loop is single-threaded, so a handler is atomic for every other         *)
(* handler; the run and validation tasks run beside it and only talk back  *)
(* through the command channel (RunDone, ValidateDone).                    *)
(*                                                                         *)
(* Abstractions.  Instants are left out: a timer that is armed may be due  *)
(* at any moment, and a batch of due watches is taken one at a time.  The  *)
(* trigger, run ids, last_seen and the run history only feed messages and  *)
(* views and are left out here.  Inside a deploy only what the daemon can  *)
(* tell apart is kept: where it ended, and what ssh could reach.  Hosts of *)
(* a plan are taken in any order (the code takes the config's).            *)
(***************************************************************************)
EXTENDS HostLedger, Naturals, Sequences, FiniteSets, SequencesExt

CONSTANTS
  Watches,      \* the configured watches
  Hosts,        \* every host some watch configures
  HostsOf,      \* the hosts each watch deploys
  CatchUp,      \* hosts with catch_up on
  Bootstrap,    \* hosts with bootstrap = "deploy"
  Guarded,      \* hosts with the drift guard on
  DiskFills,    \* whether state.json may be unwritable for a while
  MaxEvents     \* bound: events from outside the agent in one behaviour

ASSUME HostsOfAssumption == HostsOf \in [Watches -> SUBSET Hosts]

ASSUME OptionsAssumption ==
  CatchUp \subseteq Hosts /\ Bootstrap \subseteq Hosts /\ Guarded \subseteq Hosts

ASSUME MaxEventsAssumption == MaxEvents \in Nat

ASSUME DiskFillsAssumption == DiskFills \in BOOLEAN

VARIABLES
  \* outside the agent
  head,         \* commit each watched ref points at
  link,         \* "up", or why ssh to the host does not get in
  updated,      \* the installed unit starts another binary or config
  full,         \* state.json cannot be written
  events,       \* events so far
  \* on disk
  disk,         \* state.json
  \* in the daemon process
  alive,        \* the process runs
  state,        \* Daemon.state
  running,      \* Daemon.running and the state of its task
  pending,      \* Daemon.pending: watches whose poll waits
  validating,   \* Daemon.validating
  recheck,      \* watches with an armed recheck_at timer
  restartWanted \* Daemon.restart_wanted

outside == <<head, link, updated, full>>
process == <<running, pending, validating, recheck, restartWanted>>
vars == <<outside, events, disk, alive, state, process>>

Links == Kinds \cup {"up"}

(* AgentState and its WatchStates, without history and last_seen. *)
AgentState ==
  [ paused      : BOOLEAN,
    watchPaused : [Watches -> BOOLEAN],
    hosts       : [Watches -> [Hosts -> HostState]] ]

Phases == {"setup", "next", "probe", "check", "deploy", "teardown", "done"}

(* RunningRun, its RunPlan, and how far its task has come.  "blessed" is a *)
(* history variable: the hosts that were approved when the run began.      *)
Run ==
  [ watch   : Watches,
    rev     : Revs,
    plan    : [Hosts -> PlanHost \cup {None}],
    todo    : SUBSET Hosts,                      \* not yet started
    outcome : [Hosts -> Outcome \cup {None}],    \* RunRecord.hosts
    phase   : Phases,
    host    : Hosts \cup {None},                 \* the one being deployed
    cancel  : BOOLEAN,                           \* cancel_tx
    blessed : SUBSET Hosts ]

ASSUME NoneIsNothing == None \notin Run /\ None \notin Hosts

TypeOK ==
  /\ head \in [Watches -> Revs]
  /\ link \in [Hosts -> Links]
  /\ updated \in BOOLEAN
  /\ full \in BOOLEAN
  /\ events \in Nat
  /\ disk \in AgentState
  /\ alive \in BOOLEAN
  /\ state \in AgentState
  /\ running \in Run \cup {None}
  /\ pending \in Seq(Watches)
  /\ validating \in BOOLEAN
  /\ recheck \in SUBSET Watches
  /\ restartWanted \in BOOLEAN

-----------------------------------------------------------------------------
(* Helpers of the loop. *)

Event == events < MaxEvents /\ events' = events + 1

(* Mutant of Busy: a validation walk does not make a poll wait.            *)
BusyRunning == running # None

Busy == running # None \/ validating

(* Mutant of Idle: queued polls and validations are not work.              *)
IdleWithoutRun == running = None

Idle == ~ Busy /\ pending = << >>

(* Mutant of SaveState: the global pause flag is not written.              *)
SaveHosts ==
  disk' = IF full THEN disk
          ELSE [disk EXCEPT !.watchPaused = state'.watchPaused, !.hosts = state'.hosts]

(* save_state: a failed write is logged and the daemon carries on. *)
SaveState == disk' = IF full THEN disk ELSE state'

(* After every command the loop leaves when an update waits and nothing is *)
(* in flight any more.                                                     *)
AfterCommand == alive' = ~ (restartWanted /\ Idle')

EligibleHosts(st, w) == {h \in HostsOf[w] : Eligible(st.hosts[w][h], head[w])}

CanStart(st, w) ==
  /\ ~ st.paused
  /\ ~ st.watchPaused[w]
  /\ EligibleHosts(st, w) # {}

NewRun(st, w) ==
  LET planned == EligibleHosts(st, w)
  IN  [ watch   |-> w,
        rev     |-> head[w],
        plan    |-> [h \in Hosts |-> IF h \in planned
                                     THEN PlanEntry(st.hosts[w][h]) ELSE None],
        todo    |-> planned,
        outcome |-> [h \in Hosts |-> None],
        phase   |-> "setup",
        host    |-> None,
        cancel  |-> FALSE,
        blessed |-> {h \in planned : st.hosts[w][h].approved} ]

(* One queued entry per watch. *)
Enqueue(w) == IF w \in Range(pending) THEN pending ELSE Append(pending, w)

(* request_poll, in a handler that leaves the state at state'. *)

Coalesce(w) ==
  /\ Busy
  /\ pending' = Enqueue(w)
  /\ UNCHANGED running

(* Paused, or git ls-remote got no answer, or no host needs the head. *)
PollStartsNothing ==
  /\ ~ Busy
  /\ UNCHANGED <<pending, running>>

PollStartsRun(w) ==
  /\ ~ Busy
  /\ CanStart(state', w)
  /\ running' = NewRun(state', w)
  /\ UNCHANGED pending

RequestPoll(w) == Coalesce(w) \/ PollStartsNothing \/ PollStartsRun(w)

(* An answered poll saves, and only an answered one starts a run. *)
Answered == SaveState \/ UNCHANGED <<disk, running>>

(* A handler that only polls. *)
Poll(w) ==
  /\ UNCHANGED <<outside, events, state, validating, recheck, restartWanted>>
  /\ RequestPoll(w)
  /\ IF Busy THEN UNCHANGED disk ELSE Answered

(* The loop over the queue taken by RunDone and ValidateDone.  The queue   *)
(* is emptied first; the loop returns from the first poll that starts a    *)
(* run, whatever was queued behind it.  A watch is passed over when its    *)
(* poll starts nothing, which a silent remote can always cause.            *)
DrainPending ==
  /\ pending' = << >>
  /\ \/ running' = None
     \/ \E w \in Range(pending) :
          CanStart(state', w) /\ running' = NewRun(state', w)

-----------------------------------------------------------------------------
(* Outside the agent. *)

Push(w) ==
  /\ Event
  /\ \E r \in Revs \ {head[w]} : head' = [head EXCEPT ![w] = r]
  /\ UNCHANGED <<link, updated, full, disk, alive, state, process>>

LinkChange(h) ==
  /\ Event
  /\ \E l \in Links \ {link[h]} : link' = [link EXCEPT ![h] = l]
  /\ UNCHANGED <<head, updated, full, disk, alive, state, process>>

InstallUpdate ==
  /\ Event
  /\ updated' = TRUE
  /\ UNCHANGED <<head, link, full, disk, alive, state, process>>

DiskChange ==
  /\ DiskFills
  /\ Event
  /\ full' = ~ full
  /\ UNCHANGED <<head, link, updated, disk, alive, state, process>>

-----------------------------------------------------------------------------
(* Commands. *)

Kick(w) ==
  /\ alive
  /\ Poll(w)
  /\ AfterCommand

(* A state-changing command that starts nothing. *)
Command(st) ==
  /\ alive
  /\ Event
  /\ state' = st
  /\ SaveState
  /\ UNCHANGED <<outside, process>>
  /\ AfterCommand

PauseAll(b) == Command([state EXCEPT !.paused = b])

PauseWatch(w, b) == Command([state EXCEPT !.watchPaused[w] = b])

PauseHost(h, b) ==
  /\ \E w \in Watches : h \in HostsOf[w]
  /\ Command([state EXCEPT !.hosts =
       [w \in Watches |->
          IF h \in HostsOf[w] THEN [@[w] EXCEPT ![h].paused = b] ELSE @[w]]])

Approve(w, h) ==
  /\ h \in HostsOf[w]
  /\ Command([state EXCEPT !.hosts[w][h].approved = TRUE])

Revoke(w, h) ==
  /\ h \in HostsOf[w]
  /\ state.hosts[w][h].approved
  /\ Command([state EXCEPT !.hosts[w][h].approved = FALSE])

Validate ==
  /\ alive
  /\ Event
  /\ ~ Busy
  /\ validating' = TRUE
  /\ UNCHANGED <<outside, disk, state, running, pending, recheck, restartWanted>>
  /\ AfterCommand

(* A drained poll that was answered saves, and so does leaving the loop. *)
ValidateDone ==
  /\ alive
  /\ validating
  /\ validating' = FALSE
  /\ state' = state
  /\ DrainPending
  /\ AfterCommand
  /\ \/ ~ alive' /\ SaveState
     \/ alive' /\ pending = << >> /\ UNCHANGED disk
     \/ alive' /\ pending # << >> /\ Answered
  /\ UNCHANGED <<outside, events, recheck, restartWanted>>

CancelRun ==
  /\ alive
  /\ Event
  /\ running # None
  /\ running' = [running EXCEPT !.cancel = TRUE]
  /\ UNCHANGED <<outside, disk, state, pending, validating, recheck, restartWanted>>
  /\ AfterCommand

(* RunDone: the record is folded into the hosts it names, a round that     *)
(* left a host pending arms the recheck timer, and the queue is drained.   *)
Recorded(run, hosts) ==
  [h \in Hosts |-> IF run.outcome[h] = None THEN hosts[h]
                   ELSE ApplyOutcome(hosts[h], run.outcome[h], run.rev)]

(* Mutant of HadOffline: only a sleeping host re-arms the timer.           *)
HadSleeper(run) ==
  \E h \in Hosts : run.outcome[h] # None /\ run.outcome[h].kind = "offline"

HadOffline(run) == \E h \in Hosts : run.outcome[h] # None /\ run.outcome[h].kind \in Kinds

FinishRun ==
  /\ alive
  /\ running # None
  /\ running.phase = "done"
  /\ state' = [state EXCEPT !.hosts[running.watch] = Recorded(running, @)]
  /\ SaveState
  /\ recheck' = IF HadOffline(running) THEN recheck \cup {running.watch} ELSE recheck
  /\ UNCHANGED <<outside, events, validating, restartWanted>>
  /\ DrainPending
  /\ AfterCommand

-----------------------------------------------------------------------------
(* Timers. *)

PollDue(w) ==
  /\ alive
  /\ Poll(w)
  /\ UNCHANGED alive

Marked(w) == {h \in Hosts : state.hosts[w][h].offline # None}

(* What a recheck learns of one marked host. *)
Reprobed(hs, l) ==
  IF l = "up" THEN [hs EXCEPT !.offline = None, !.unreachable = FALSE]
  ELSE Refused(hs, l)

RecheckDue(w) ==
  LET back == {h \in Marked(w) : link[h] = "up"}
      stillDown == Marked(w) \ back
  IN /\ alive
     /\ w \in recheck
     /\ recheck' = IF stillDown = {} THEN recheck \ {w} ELSE recheck
     /\ state' = [state EXCEPT !.hosts[w] =
                    [h \in Hosts |-> IF h \in Marked(w) THEN Reprobed(@[h], link[h])
                                     ELSE @[h]]]
     /\ IF Marked(w) = {} THEN UNCHANGED disk ELSE SaveState
     /\ IF back = {} THEN UNCHANGED <<running, pending>> ELSE RequestPoll(w)
     /\ UNCHANGED <<outside, events, alive, validating, restartWanted>>

(* Mutant of SelfCheckDue: an update is only ever remembered.              *)
SelfCheckRemembers ==
  /\ alive
  /\ updated
  /\ restartWanted' = TRUE
  /\ UNCHANGED <<outside, events, disk, alive, state, running, pending, validating,
                 recheck>>

(* Leaving the loop saves once more. *)
SelfCheckDue ==
  /\ alive
  /\ updated
  /\ UNCHANGED <<outside, events, state, running, pending, validating, recheck>>
  /\ IF Idle THEN /\ alive' = FALSE
                  /\ SaveState
                  /\ UNCHANGED restartWanted
     ELSE /\ restartWanted' = TRUE
          /\ UNCHANGED <<alive, disk>>

-----------------------------------------------------------------------------
(* The run task: runner::execute and deploy_host. *)

TaskStep(run) ==
  /\ alive
  /\ running' = run
  /\ UNCHANGED <<outside, events, disk, alive, state, pending, validating, recheck,
                 restartWanted>>

InPhase(p) == running # None /\ running.phase = p

(* The clone and the flake evaluation happen once, before the first host. *)
SetupOk == InPhase("setup") /\ TaskStep([running EXCEPT !.phase = "next"])

(* Mutant of AllEnd: the hosts a cancel never started are left out.        *)
CancelForgetsRest(run, hs, kind) ==
  IF kind = "cancelled" THEN [run EXCEPT !.todo = {}, !.phase = "done"]
  ELSE [run EXCEPT !.outcome = [h \in Hosts |-> IF h \in hs THEN Ended(kind) ELSE @[h]],
                   !.todo = {},
                   !.phase = "done"]

(* The record of a run whose hosts in hs all end the same way. *)
AllEnd(run, hs, kind) ==
  [run EXCEPT !.outcome = [h \in Hosts |-> IF h \in hs THEN Ended(kind) ELSE @[h]],
              !.todo = {},
              !.phase = "done"]

SetupFails == InPhase("setup") /\ TaskStep(AllEnd(running, running.todo, "failed"))

StartHost(h) ==
  /\ InPhase("next")
  /\ ~ running.cancel
  /\ h \in running.todo
  /\ TaskStep([running EXCEPT !.phase = "probe", !.host = h, !.todo = @ \ {h}])

(* Cancelled between hosts: the rest never starts and is parked. *)
SkipRest ==
  /\ InPhase("next")
  /\ running.cancel
  /\ TaskStep(AllEnd(running, running.todo, "cancelled"))

(* The host being deployed ends with outcome o. *)
HostEnds(o) ==
  TaskStep([running EXCEPT !.outcome[running.host] = o,
                           !.host = None,
                           !.phase = IF running.todo = {} THEN "done" ELSE "next"])

(* The revision's deploy.nodes does not name the host. *)
NodeMissing == InPhase("probe") /\ HostEnds(Ended("failed"))

ProbeMisses ==
  /\ InPhase("probe")
  /\ running.host \in CatchUp
  /\ link[running.host] # "up"
  /\ HostEnds(Ended(link[running.host]))

ProbeAnswers ==
  /\ InPhase("probe")
  /\ running.host \in CatchUp => link[running.host] = "up"
  /\ TaskStep([running EXCEPT !.phase = "check"])

Adopting == running.plan[running.host].adopt /\ running.host \notin Bootstrap

Guarding ==
  /\ running.host \in Guarded
  /\ running.plan[running.host].recorded # None

(* Every managed profile already runs the revision: no deploy, and what    *)
(* was found becomes the baseline unless a path was missing.               *)
Adopts ==
  /\ InPhase("check")
  /\ Adopting
  /\ link[running.host] = "up"
  /\ \E top \in OptPath : HostEnds([kind |-> "adopted", toplevels |-> top])

(* First encounter that differs, or a change made behind the agent's back, *)
(* or either question left unanswered.                                     *)
Holds ==
  /\ InPhase("check")
  /\ Adopting \/ Guarding
  /\ HostEnds(Ended("held"))

(* A cancel seen by now signals the child as soon as it is started.        *)
ProceedsToDeploy ==
  /\ InPhase("check")
  /\ ~ Adopting
  /\ Guarding => link[running.host] = "up"
  /\ TaskStep([running EXCEPT !.phase = IF running.cancel THEN "teardown" ELSE "deploy"])

(* deploy-rs exits 0 and the profiles are read back, or not. *)
DeploySucceeds ==
  /\ InPhase("deploy")
  /\ link[running.host] = "up"
  /\ \E top \in OptPath : HostEnds([kind |-> "ok", toplevels |-> top])

DeployFails == InPhase("deploy") /\ HostEnds(Ended("failed"))

(* The process group was signalled, at the start or by a cancel that came  *)
(* while the deploy ran.  A deploy that ended on its own before such a     *)
(* cancel was seen keeps its own outcome.                                  *)
DeployCancelled ==
  /\ InPhase("teardown") \/ (InPhase("deploy") /\ running.cancel)
  /\ HostEnds(Ended("cancelled"))

RunTask ==
  \/ SetupOk
  \/ SetupFails
  \/ \E h \in Hosts : StartHost(h)
  \/ SkipRest
  \/ NodeMissing
  \/ ProbeMisses
  \/ ProbeAnswers
  \/ Adopts
  \/ Holds
  \/ ProceedsToDeploy
  \/ DeploySucceeds
  \/ DeployFails
  \/ DeployCancelled

-----------------------------------------------------------------------------
(* The process comes and goes. *)

(* Killed: whatever was in flight is lost, the file stays as it was. *)
Crash ==
  /\ alive
  /\ Event
  /\ alive' = FALSE
  /\ UNCHANGED <<outside, disk, state, process>>

(* SIGTERM between two handlers: one last save. *)
Shutdown ==
  /\ alive
  /\ Event
  /\ alive' = FALSE
  /\ UNCHANGED <<outside, state, process>>
  /\ SaveState

Loaded(st) ==
  [st EXCEPT !.hosts = [w \in Watches |-> [h \in Hosts |-> DropSupersededParks(@[w][h])]]]

(* Mutant of Startup: any answer, a good one too, is stamped as the        *)
(* reason of a pending marker.                                             *)
StartupStampsAnswer(hs, l) ==
  [Refused(hs, l) EXCEPT !.unreachable = l # "up"]

(* startup_validation asks ssh about the hosts it can name: those of a     *)
(* watch already cloned whose flake still evaluates.  The verdict never    *)
(* clears a pending marker, it only refreshes its kind.                    *)
Startup(hs, l) ==
  IF l = "up" THEN [hs EXCEPT !.unreachable = FALSE] ELSE Refused(hs, l)

Validated(st, known) ==
  [st EXCEPT !.hosts = [w \in Watches |-> [h \in Hosts |->
     IF w \in known /\ h \in HostsOf[w] THEN Startup(@[w][h], link[h]) ELSE @[w][h]]]]

(* Daemon::new and the head of Daemon::run; systemd restarts the unit.     *)
Restart ==
  /\ ~ alive
  /\ alive' = TRUE
  /\ \E known \in SUBSET Watches : state' = Validated(Loaded(disk), known)
  /\ SaveState
  /\ running' = None
  /\ pending' = << >>
  /\ validating' = FALSE
  /\ recheck' = {w \in Watches : \E h \in Hosts : state'.hosts[w][h].offline # None}
  /\ restartWanted' = FALSE
  /\ updated' = FALSE
  /\ UNCHANGED <<head, link, full, events>>

-----------------------------------------------------------------------------
(* The agent may find a state file it wrote earlier: hosts it never saw,   *)
(* or hosts it deployed at the current head.                               *)
InitialState(managed, top) ==
  [ paused      |-> FALSE,
    watchPaused |-> [w \in Watches |-> FALSE],
    hosts       |-> [w \in Watches |-> [h \in Hosts |->
                       IF h \in managed THEN Succeeded(Fresh, head[w], top) ELSE Fresh]] ]

Init ==
  /\ head \in [Watches -> Revs]
  /\ link = [h \in Hosts |-> "up"]
  /\ updated = FALSE
  /\ full = FALSE
  /\ events = 0
  /\ alive = TRUE
  /\ \E managed \in SUBSET Hosts, top \in OptPath : state = InitialState(managed, top)
  /\ disk = state
  /\ running = None
  /\ pending = << >>
  /\ validating = FALSE
  /\ recheck = {}
  /\ restartWanted = FALSE

Environment ==
  \/ \E w \in Watches : Push(w)
  \/ \E h \in Hosts : LinkChange(h)
  \/ InstallUpdate
  \/ DiskChange

Commands ==
  \/ \E w \in Watches : Kick(w)
  \/ \E b \in BOOLEAN : PauseAll(b)
  \/ \E w \in Watches, b \in BOOLEAN : PauseWatch(w, b)
  \/ \E h \in Hosts, b \in BOOLEAN : PauseHost(h, b)
  \/ \E w \in Watches, h \in Hosts : Approve(w, h)
  \/ \E w \in Watches, h \in Hosts : Revoke(w, h)
  \/ Validate
  \/ ValidateDone
  \/ CancelRun
  \/ FinishRun

Timers ==
  \/ \E w \in Watches : PollDue(w)
  \/ \E w \in Watches : RecheckDue(w)
  \/ SelfCheckDue

Next == Environment \/ Commands \/ Timers \/ RunTask \/ Crash \/ Shutdown \/ Restart

Spec == Init /\ [][Next]_vars
-----------------------------------------------------------------------------
(* Safety. *)

(* At most one pipeline touches the clones: a validation walk and a run    *)
(* are never in flight together (daemon.rs, "so git operations on the      *)
(* clones can't race").                                                    *)
SingleFlight == ~ (running # None /\ validating)

(* A poll is kept waiting only while one of them is in flight.             *)
QueueOnlyWhileBusy == alive /\ pending # << >> => Busy

(* A detected update is waited for only while something is in flight: a    *)
(* living daemon that wants to restart is never idle.                      *)
HandoverPending == alive /\ restartWanted => ~ Idle

(* The loop: one pipeline, no poll that waits for nothing, no hand-over    *)
(* that is missed (daemon.rs, run, finish_run and idle).                   *)
LoopInOrder == SingleFlight /\ QueueOnlyWhileBusy /\ HandoverPending

(* A pending update is never forgotten: while the daemon lives, a host     *)
(* with an offline marker has its watch's recheck timer armed, also after  *)
(* a restart, a partial recheck or a run that leaves the marker alone.     *)
RecheckArmed ==
  alive => \A w \in Watches : Marked(w) # {} => w \in recheck

(* The stamps status prints agree with each other, on disk as in memory    *)
(* (state.rs: a park is superseded by a pending round, a success clears    *)
(* park, hold and marker), whatever runs, crashes and operators do.        *)
LedgerConsistent ==
  \A w \in Watches, h \in Hosts :
     Consistent(state.hosts[w][h]) /\ Consistent(disk.hosts[w][h])

(* What is in flight is still needed: no other step of the daemon makes a  *)
(* host of the running plan current at the run's revision.                 *)
RunStillNeeded ==
  alive /\ running # None =>
    \A h \in Hosts : running.plan[h] # None =>
       state.hosts[running.watch][h].deployed # running.rev

(* Nothing an operator was told, and no outcome, lives only in memory      *)
(* between two handlers: where writes succeed, the file always holds what  *)
(* the daemon believes, so a crash loses the run in flight and nothing     *)
(* else.                                                                   *)
NothingUnsaved == alive => disk = state

(* A host this agent never deployed is only deployed over with the         *)
(* operator's ok or bootstrap = "deploy": a past failure or cancel does    *)
(* not count as an adoption (daemon.rs, request_poll).                     *)
FirstContactHeld ==
  alive /\ (InPhase("deploy") \/ InPhase("teardown")) =>
    \/ state.hosts[running.watch][running.host].deployed # None
    \/ running.host \in running.blessed \cup Bootstrap

-----------------------------------------------------------------------------
(* What a step may not do. *)

(* The step that handles RunDone. *)
RecordsRun ==
  /\ alive
  /\ running # None /\ running.phase = "done"
  /\ running' = None \/ running'.phase = "setup"

(* The process leaves on its own (not killed, not stopped by an event)     *)
(* only with the work it had in flight recorded and the queue empty.       *)
HandsOver == alive /\ ~ alive' /\ events' = events

NoWorkCutShort ==
  [][HandsOver => /\ running # None => running.phase = "done"
                  /\ running' = None /\ ~ validating' /\ pending' = << >>
                  /\ ~ full => disk' = state']_vars

(* What a cancel does achieve: a host it leaves unsettled is one it found  *)
(* out of reach and has marked pending at the run's revision, so no host   *)
(* of the plan stays without a verdict, started or not (runner.rs,         *)
(* execute: the hosts after the cancel are parked too).                    *)
CancelSettles ==
  [][RecordsRun /\ running.cancel =>
       \A h \in Hosts : running.plan[h] # None =>
          LET after == state'.hosts[running.watch][h]
          IN  \/ running.rev \in {after.deployed, after.failed, after.held}
              \/ /\ h \in CatchUp
                 /\ after.offline # None
                 /\ after.offline.rev = running.rev]_vars

(* Whatever was queued behind the watch whose run starts stays queued      *)
(* (daemon.rs, finish_run: "A new run started; the rest stays queued.").   *)
QueuedPollsKept ==
  [][(RecordsRun \/ validating) /\ running' # None =>
       \A i, j \in DOMAIN pending :
          i < j /\ pending[i] = running'.watch => pending[j] \in Range(pending')]_vars

(* "No same-commit retry.  A failed host is parked until a new revision, a *)
(* kick, or a force-deploy" (README.md:260): a kick that reaches an idle   *)
(* agent may start a round for a host parked at the head.                  *)
KickEndsPark ==
  \A w \in Watches : \A h \in HostsOf[w] :
    LET hs == state.hosts[w][h]
    IN  /\ alive /\ ~ Busy
        /\ hs.failed = head[w] /\ hs.held # head[w]
        /\ ~ hs.paused /\ ~ state.paused /\ ~ state.watchPaused[w]
        => ENABLED (Kick(w) /\ running' # None /\ running'.plan[h] # None)
-----------------------------------------------------------------------------
(* Liveness. *)

(* A scheduled poll that finds the remote answering and something to do. *)
FruitfulPoll(w) == PollDue(w) /\ running = None /\ running' # None

(* The runtime keeps polling its tasks and the command channel, every      *)
(* armed timer comes due, git ls-remote answers again at some poll, a      *)
(* deploy ends one way or another, and systemd restarts the unit.          *)
Fairness ==
  /\ WF_vars(RunTask)
  /\ WF_vars(FinishRun)
  /\ WF_vars(ValidateDone)
  /\ \A w \in Watches : WF_vars(FruitfulPoll(w)) /\ WF_vars(RecheckDue(w))
  /\ WF_vars(SelfCheckDue)
  /\ WF_vars(Restart)

FairSpec == Spec /\ Fairness

(* Nothing is left to do for the host, or only a human can do it. *)
AtRest(w, h) ==
  LET hs == state.hosts[w][h]
  IN  \/ hs.paused \/ state.paused \/ state.watchPaused[w]
      \/ link[h] # "up"
      \/ hs.deployed = head[w]
      \/ ~ hs.approved /\ head[w] \in {hs.failed, hs.held}

(* Once pushes, operators, crashes and the network leave the agent alone,  *)
(* every host it can reach ends up at the newest head, or parked or held   *)
(* at it ("updates arriving mid-run coalesce to the newest head"); and     *)
(* whatever still happens, a host whose update is pending is not left so   *)
(* while ssh gets in.                                                      *)
Converges ==
  \A w \in Watches : \A h \in HostsOf[w] :
    /\ <>[]AtRest(w, h)
    /\ [](state.hosts[w][h].offline # None =>
           <>(state.hosts[w][h].offline = None \/ link[h] # "up"))

(* An installed update is restarted into, however many commits are still   *)
(* pushed and runs still due, unless a host stays pending: its rechecks    *)
(* and the polls queued behind them may then keep the daemon from ever     *)
(* being idle (daemon.rs, idle).                                           *)
HandsOverAtLast ==
  updated ~> \/ ~ updated
             \/ \E w \in Watches : Marked(w) # {}
=============================================================================
