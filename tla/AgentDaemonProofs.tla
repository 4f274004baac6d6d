------------------------- MODULE AgentDaemonProofs --------------------------
(* The daemon's type invariant and safety invariants, for any watches,     *)
(* hosts, revisions, options and number of outside events.                 *)
EXTENDS AgentRounds, HostLedgerProofs

-----------------------------------------------------------------------------
(* The pieces a step is made of have the types TypeOK gives them. *)

LEMMA NewRunType ==
  ASSUME TypeOK, NEW st \in AgentState, NEW w \in Watches
  PROVE  NewRun(st, w) \in Run
<1> DEFINE planned == EligibleHosts(st, w)
<1>1. planned \in SUBSET Hosts
  BY HostsOfAssumption DEF EligibleHosts
<1>2. [h \in Hosts |-> IF h \in planned THEN PlanEntry(st.hosts[w][h]) ELSE None]
        \in [Hosts -> PlanHost \cup {None}]
  BY PlanEntryType DEF AgentState
<1>3. head[w] \in Revs
  BY DEF TypeOK
<1>4. {h \in planned : st.hosts[w][h].approved} \in SUBSET Hosts
  BY <1>1
<1> HIDE DEF planned
<1>5. NewRun(st, w) =
        [ watch |-> w, rev |-> head[w],
          plan |-> [h \in Hosts |-> IF h \in planned
                                    THEN PlanEntry(st.hosts[w][h]) ELSE None],
          todo |-> planned, outcome |-> [h \in Hosts |-> None], phase |-> "setup",
          host |-> None, cancel |-> FALSE,
          blessed |-> {h \in planned : st.hosts[w][h].approved} ]
  BY DEF NewRun, planned
<1> QED BY <1>1, <1>2, <1>3, <1>4, <1>5 DEF Run, Phases

LEMMA DrainPendingType ==
  ASSUME TypeOK, state' \in AgentState, DrainPending
  PROVE  running' \in Run \cup {None} /\ pending' \in Seq(Watches)
<1>1. Range(pending) \subseteq Watches
  BY DEF TypeOK, Range
<1> QED BY <1>1, NewRunType DEF DrainPending

LEMMA EnqueueType ==
  ASSUME TypeOK, NEW w \in Watches
  PROVE  Enqueue(w) \in Seq(Watches)
BY DEF Enqueue, TypeOK

LEMMA RequestPollType ==
  ASSUME TypeOK, state' \in AgentState, NEW w \in Watches, RequestPoll(w)
  PROVE  running' \in Run \cup {None} /\ pending' \in Seq(Watches)
BY NewRunType, EnqueueType
   DEF RequestPoll, Coalesce, PollStartsNothing, PollStartsRun, TypeOK

(* A later state of the same run: the plan is fixed, and only planned hosts *)
(* are started and recorded.                                               *)
Planned(run) == {h \in Hosts : run.plan[h] # None}

RunShape(run) ==
  /\ run.todo \subseteq Planned(run)
  /\ run.host # None => run.host \in Planned(run)
  /\ \A h \in Hosts : run.outcome[h] # None => h \in Planned(run)

Continues(run, next) ==
  /\ next \in Run
  /\ next.watch = run.watch /\ next.rev = run.rev
  /\ next.plan = run.plan /\ next.blessed = run.blessed
  /\ RunShape(run) => RunShape(next)

LEMMA MovesOn ==
  ASSUME NEW run \in Run, NEW p \in Phases
  PROVE  Continues(run, [run EXCEPT !.phase = p])
BY DEF Continues, Run, RunShape, Planned

LEMMA Starts ==
  ASSUME NEW run \in Run, NEW h \in run.todo
  PROVE  Continues(run, [run EXCEPT !.phase = "probe", !.host = h, !.todo = @ \ {h}])
BY DEF Continues, Run, RunShape, Planned, Phases

LEMMA AllEndType ==
  ASSUME NEW run \in Run, NEW kind \in Unsettled
  PROVE  Continues(run, AllEnd(run, run.todo, kind))
<1>1. Ended(kind) \in Outcome
  BY DEF Ended, Outcome, OptPath
<1> DEFINE outcome == [h \in Hosts |-> IF h \in run.todo THEN Ended(kind) ELSE run.outcome[h]]
<1>2. outcome \in [Hosts -> Outcome \cup {None}]
  BY <1>1 DEF Run
<1>3. AllEnd(run, run.todo, kind) =
        [run EXCEPT !.outcome = outcome, !.todo = {}, !.phase = "done"]
  BY DEF AllEnd
<1>4. ASSUME NEW h \in Hosts, outcome[h] # None
      PROVE  h \in run.todo \/ run.outcome[h] # None
  BY <1>4
<1> HIDE DEF outcome
<1> QED BY <1>2, <1>3, <1>4 DEF Continues, Run, RunShape, Planned, Phases

LEMMA HostEndsType ==
  ASSUME NEW run \in Run, NEW o \in Outcome, NEW phase \in Phases
  PROVE  Continues(run,
           [run EXCEPT !.outcome[run.host] = o, !.host = None, !.phase = phase])
<1> DEFINE outcome == [run.outcome EXCEPT ![run.host] = o]
<1>1. outcome \in [Hosts -> Outcome \cup {None}]
  BY DEF Run
<1>2. ASSUME NEW h \in Hosts, outcome[h] # None
      PROVE  run.outcome[h] # None \/ h = run.host
  BY <1>2 DEF Run
<1>3. [run EXCEPT !.outcome[run.host] = o, !.host = None, !.phase = phase] =
        [run EXCEPT !.outcome = outcome, !.host = None, !.phase = phase]
  OBVIOUS
<1> HIDE DEF outcome
<1> DEFINE next == [run EXCEPT !.outcome = outcome, !.host = None, !.phase = phase]
<1>4. next \in Run /\ next.outcome = outcome /\ next.host = None
  BY <1>1 DEF Run
<1>5. /\ next.watch = run.watch /\ next.rev = run.rev /\ next.plan = run.plan
      /\ next.blessed = run.blessed /\ next.todo = run.todo
  BY DEF Run
<1> HIDE DEF next
<1>6. ASSUME RunShape(run), NEW h \in Hosts PROVE next.outcome[h] # None => h \in Planned(run)
  BY <1>2, <1>4, <1>6, NoneIsNothing DEF RunShape
<1> QED BY <1>3, <1>4, <1>5, <1>6 DEF Continues, RunShape, Planned, next

LEMMA RecordedType ==
  ASSUME NEW run \in Run, NEW hosts \in [Hosts -> HostState]
  PROVE  Recorded(run, hosts) \in [Hosts -> HostState]
BY ApplyOutcomeType DEF Recorded, Run

LEMMA ReprobedType ==
  ASSUME NEW hs \in HostState, NEW l \in Links
  PROVE  Reprobed(hs, l) \in HostState
<1>1. CASE l = "up"
  BY <1>1 DEF Reprobed, HostState
<1>2. CASE l # "up"
  BY <1>2, RefusedType DEF Reprobed, Links
<1> QED BY <1>1, <1>2

LEMMA StartupType ==
  ASSUME NEW hs \in HostState, NEW l \in Links
  PROVE  Startup(hs, l) \in HostState
<1>1. CASE l = "up"
  BY <1>1 DEF Startup, HostState
<1>2. CASE l # "up"
  BY <1>2, RefusedType DEF Startup, Links
<1> QED BY <1>1, <1>2

LEMMA ValidatedType ==
  ASSUME NEW st \in AgentState, NEW known \in SUBSET Watches, TypeOK
  PROVE  Validated(Loaded(st), known) \in AgentState
<1>1. Loaded(st) \in AgentState
  BY DropSupersededParksType DEF Loaded, AgentState
<1>2. ASSUME NEW ld \in AgentState
      PROVE  Validated(ld, known) \in AgentState
  <2>1. \A w \in Watches, h \in Hosts :
          ld.hosts[w][h] \in HostState /\ Startup(ld.hosts[w][h], link[h]) \in HostState
    BY StartupType DEF AgentState, TypeOK
  <2> QED BY <2>1 DEF Validated, AgentState
<1> QED BY <1>1, <1>2

-----------------------------------------------------------------------------
(* Type correctness, one lemma per group of actions. *)

LEMMA SetFlagType ==
  ASSUME NEW hs \in HostState, NEW b \in BOOLEAN
  PROVE  /\ [hs EXCEPT !.paused = b] \in HostState
         /\ [hs EXCEPT !.approved = b] \in HostState
BY DEF HostState

LEMMA HostType ==
  ASSUME TypeOK, NEW w \in Watches, NEW h \in Hosts
  PROVE  state.hosts[w][h] \in HostState
BY DEF TypeOK, AgentState

LEMMA SetHostType ==
  ASSUME NEW st \in AgentState, NEW w \in Watches, NEW h \in Hosts, NEW hs \in HostState
  PROVE  [st EXCEPT !.hosts[w][h] = hs] \in AgentState
<1>1. [st.hosts[w] EXCEPT ![h] = hs] \in [Hosts -> HostState]
  BY DEF AgentState
<1>2. [st.hosts EXCEPT ![w] = [st.hosts[w] EXCEPT ![h] = hs]] \in [Watches -> [Hosts -> HostState]]
  BY <1>1 DEF AgentState
<1> QED BY <1>2 DEF AgentState

LEMMA InitType == Init => TypeOK
<1> SUFFICES ASSUME Init PROVE TypeOK
  OBVIOUS
<1>1. PICK managed \in SUBSET Hosts, top \in OptPath : state = InitialState(managed, top)
  BY DEF Init
<1>2. head \in [Watches -> Revs]
  BY DEF Init
<1>3. Fresh \in HostState
  BY DEF Fresh, HostState, OptRev, OptPath
<1>4. \A w \in Watches : Succeeded(Fresh, head[w], top) \in HostState
  BY <1>2 DEF Succeeded, Fresh, HostState, OptRev, OptPath
<1>5. state \in AgentState
  BY <1>1, <1>3, <1>4 DEF InitialState, AgentState
<1>6. link \in [Hosts -> Links] /\ pending \in Seq(Watches)
  BY DEF Init, Links
<1> QED BY <1>2, <1>5, <1>6 DEF Init, TypeOK

LEMMA EnvironmentType == TypeOK /\ Environment => TypeOK'
<1> SUFFICES ASSUME TypeOK, Environment PROVE TypeOK'
  OBVIOUS
<1>1. ASSUME NEW w \in Watches, Push(w) PROVE TypeOK'
  BY <1>1 DEF TypeOK, Push, Event, process
<1>2. ASSUME NEW h \in Hosts, LinkChange(h) PROVE TypeOK'
  BY <1>2 DEF TypeOK, LinkChange, Event, process
<1>3. CASE InstallUpdate
  BY <1>3 DEF TypeOK, InstallUpdate, Event, process
<1>4. CASE DiskChange
  BY <1>4 DEF TypeOK, DiskChange, Event, process
<1> QED BY <1>1, <1>2, <1>3, <1>4 DEF Environment

(* The commands that only change the state. *)
LEMMA CommandType ==
  ASSUME TypeOK, NEW st \in AgentState, Command(st)
  PROVE  TypeOK'
BY DEF Command, TypeOK, Event, SaveState, AfterCommand, outside, process

LEMMA PollType ==
  ASSUME TypeOK, NEW w \in Watches, Poll(w), alive' \in BOOLEAN
  PROVE  TypeOK'
<1>1. state' \in AgentState /\ RequestPoll(w)
  BY DEF Poll, TypeOK
<1>2. running' \in Run \cup {None} /\ pending' \in Seq(Watches)
  BY <1>1, RequestPollType
<1> QED BY <1>2 DEF Poll, Answered, SaveState, TypeOK, outside

LEMMA FinishRunType == TypeOK /\ FinishRun => TypeOK'
<1> SUFFICES ASSUME TypeOK, FinishRun PROVE TypeOK'
  OBVIOUS
<1>1. running \in Run /\ running.watch \in Watches
  BY DEF FinishRun, TypeOK, Run
<1>2. state' \in AgentState
  BY <1>1, RecordedType DEF FinishRun, TypeOK, AgentState
<1>3. running' \in Run \cup {None} /\ pending' \in Seq(Watches)
  BY <1>2, DrainPendingType DEF FinishRun
<1> QED BY <1>1, <1>2, <1>3 DEF FinishRun, TypeOK, SaveState, AfterCommand, outside

LEMMA CommandsType == TypeOK /\ Commands => TypeOK'
<1> SUFFICES ASSUME TypeOK, Commands PROVE TypeOK'
  OBVIOUS
<1>1. ASSUME NEW w \in Watches, Kick(w) PROVE TypeOK'
  BY <1>1, PollType DEF Kick, AfterCommand
<1>2. ASSUME NEW b \in BOOLEAN, PauseAll(b) PROVE TypeOK'
  BY <1>2, CommandType DEF PauseAll, TypeOK, AgentState
<1>3. ASSUME NEW w \in Watches, NEW b \in BOOLEAN, PauseWatch(w, b) PROVE TypeOK'
  BY <1>3, CommandType DEF PauseWatch, TypeOK, AgentState
<1>4. ASSUME NEW h \in Hosts, NEW b \in BOOLEAN, PauseHost(h, b) PROVE TypeOK'
  <2> DEFINE after == [w \in Watches |-> IF h \in HostsOf[w]
                                          THEN [state.hosts[w] EXCEPT ![h].paused = b]
                                          ELSE state.hosts[w]]
  <2>1. \A w \in Watches : [state.hosts[w] EXCEPT ![h].paused = b] \in [Hosts -> HostState]
    <3>1. \A w \in Watches : [state.hosts[w][h] EXCEPT !.paused = b] \in HostState
      BY HostType, SetFlagType
    <3> QED BY <3>1 DEF TypeOK, AgentState
  <2>2. after \in [Watches -> [Hosts -> HostState]]
    BY <2>1 DEF TypeOK, AgentState
  <2>3. [state EXCEPT !.hosts = after] \in AgentState
    BY <2>2 DEF TypeOK, AgentState
  <2> QED BY <1>4, <2>3, CommandType DEF PauseHost
<1>5. ASSUME NEW w \in Watches, NEW h \in Hosts, Approve(w, h) PROVE TypeOK'
  <2>1. [state.hosts[w][h] EXCEPT !.approved = TRUE] \in HostState
    BY HostType, SetFlagType
  <2>2. [state EXCEPT !.hosts[w][h].approved = TRUE] \in AgentState
    BY <2>1, SetHostType DEF TypeOK
  <2> QED BY <1>5, <2>2, CommandType DEF Approve
<1>6. ASSUME NEW w \in Watches, NEW h \in Hosts, Revoke(w, h) PROVE TypeOK'
  <2>1. [state.hosts[w][h] EXCEPT !.approved = FALSE] \in HostState
    BY HostType, SetFlagType
  <2>2. [state EXCEPT !.hosts[w][h].approved = FALSE] \in AgentState
    BY <2>1, SetHostType DEF TypeOK
  <2> QED BY <1>6, <2>2, CommandType DEF Revoke
<1>7. CASE Validate
  BY <1>7 DEF Validate, TypeOK, Event, AfterCommand, outside
<1>8. CASE ValidateDone
  <2>1. state' \in AgentState
    BY <1>8 DEF ValidateDone, TypeOK
  <2>2. running' \in Run \cup {None} /\ pending' \in Seq(Watches)
    BY <1>8, <2>1, DrainPendingType DEF ValidateDone
  <2> QED BY <1>8, <2>1, <2>2
          DEF ValidateDone, Answered, SaveState, TypeOK, AfterCommand, outside
<1>9. CASE CancelRun
  <2>1. running' \in Run
    BY <1>9 DEF CancelRun, TypeOK, Run
  <2> QED BY <1>9, <2>1 DEF CancelRun, TypeOK, Event, AfterCommand, outside
<1>10. CASE FinishRun
  BY <1>10, FinishRunType
<1> QED BY <1>1, <1>2, <1>3, <1>4, <1>5, <1>6, <1>7, <1>8, <1>9, <1>10 DEF Commands

LEMMA RecheckDueType ==
  ASSUME TypeOK, NEW w \in Watches, RecheckDue(w)
  PROVE  TypeOK'
<1>1. \A h \in Hosts : Reprobed(state.hosts[w][h], link[h]) \in HostState
  BY ReprobedType DEF TypeOK, AgentState
<1>2. state' \in AgentState
  <2> DEFINE probed == [h \in Hosts |-> IF h \in Marked(w)
                                        THEN Reprobed(state.hosts[w][h], link[h])
                                        ELSE state.hosts[w][h]]
  <2>1. probed \in [Hosts -> HostState]
    BY <1>1 DEF TypeOK, AgentState
  <2>2. state' = [state EXCEPT !.hosts[w] = probed]
    BY DEF RecheckDue
  <2> HIDE DEF probed
  <2> QED BY <2>1, <2>2 DEF TypeOK, AgentState
<1>3. running' \in Run \cup {None} /\ pending' \in Seq(Watches)
  BY <1>2, RequestPollType DEF RecheckDue, TypeOK
<1>4. disk' \in AgentState
  BY <1>2 DEF RecheckDue, SaveState, TypeOK
<1>5. recheck' \in SUBSET Watches
  BY DEF RecheckDue, TypeOK
<1> QED BY <1>2, <1>3, <1>4, <1>5 DEF RecheckDue, TypeOK, outside

LEMMA TimersType == TypeOK /\ Timers => TypeOK'
<1> SUFFICES ASSUME TypeOK, Timers PROVE TypeOK'
  OBVIOUS
<1>1. ASSUME NEW w \in Watches, PollDue(w) PROVE TypeOK'
  <2>1. alive' \in BOOLEAN
    BY <1>1 DEF PollDue, TypeOK
  <2> QED BY <1>1, <2>1, PollType DEF PollDue
<1>2. ASSUME NEW w \in Watches, RecheckDue(w) PROVE TypeOK'
  BY <1>2, RecheckDueType
<1>3. CASE SelfCheckDue
  BY <1>3 DEF SelfCheckDue, TypeOK, SaveState, outside
<1> QED BY <1>1, <1>2, <1>3 DEF Timers

LEMMA EndedType ==
  ASSUME NEW kind \in Unsettled \cup {"held"} \cup Kinds
  PROVE  Ended(kind) \in Outcome
BY DEF Ended, Outcome, OptPath

LEMMA HostEndsMoves ==
  ASSUME running \in Run, NEW o \in Outcome, HostEnds(o)
  PROVE  \E run : Continues(running, run) /\ TaskStep(run)
<1>1. PICK phase \in Phases :
        TaskStep([running EXCEPT !.outcome[running.host] = o, !.host = None, !.phase = phase])
  BY DEF HostEnds, Phases
<1> QED BY <1>1, HostEndsType

(* Every step of the task continues the run. *)
LEMMA RunTaskMoves ==
  ASSUME TypeOK, RunTask
  PROVE  running \in Run /\ \E run : Continues(running, run) /\ TaskStep(run)
<1>1. ASSUME NEW p, InPhase(p) PROVE running \in Run
  BY <1>1 DEF InPhase, TypeOK
<1>2. CASE SetupOk \/ ProbeAnswers \/ ProceedsToDeploy
  BY <1>1, <1>2, MovesOn DEF SetupOk, ProbeAnswers, ProceedsToDeploy, Phases
<1>3. CASE SetupFails \/ SkipRest
  BY <1>1, <1>3, AllEndType DEF SetupFails, SkipRest, Unsettled
<1>4. ASSUME NEW h \in Hosts, StartHost(h)
      PROVE  running \in Run /\ \E run : Continues(running, run) /\ TaskStep(run)
  <2>1. running \in Run /\ h \in running.todo
    BY <1>1, <1>4 DEF StartHost
  <2> QED BY <1>4, <2>1, Starts DEF StartHost
<1>5. CASE NodeMissing \/ Holds \/ DeployFails \/ DeployCancelled
  <2>1. running \in Run
    BY <1>1, <1>5 DEF NodeMissing, Holds, DeployFails, DeployCancelled
  <2> QED BY <1>5, <2>1, EndedType, HostEndsMoves
          DEF NodeMissing, Holds, DeployFails, DeployCancelled, Unsettled
<1>6. CASE ProbeMisses
  <2>1. running.host \in Hosts
    BY <1>6, OptionsAssumption DEF ProbeMisses
  <2>2. running \in Run /\ link[running.host] \in Kinds
    BY <1>1, <1>6, <2>1 DEF ProbeMisses, TypeOK, Links
  <2> QED BY <1>6, <2>2, EndedType, HostEndsMoves DEF ProbeMisses
<1>7. CASE Adopts \/ DeploySucceeds
  <2>1. \A top \in OptPath :
          [kind |-> "adopted", toplevels |-> top] \in Outcome
          /\ [kind |-> "ok", toplevels |-> top] \in Outcome
    BY DEF Outcome, Settled
  <2> QED BY <1>1, <1>7, <2>1, HostEndsMoves DEF Adopts, DeploySucceeds
<1> QED BY <1>2, <1>3, <1>4, <1>5, <1>6, <1>7 DEF RunTask

LEMMA RunTaskType == TypeOK /\ RunTask => TypeOK'
<1> SUFFICES ASSUME TypeOK, RunTask PROVE TypeOK'
  OBVIOUS
<1>1. PICK run : Continues(running, run) /\ TaskStep(run)
  BY RunTaskMoves
<1>2. run \in Run
  BY <1>1 DEF Continues
<1> QED BY <1>1, <1>2 DEF TaskStep, TypeOK, outside

LEMMA RestartType == TypeOK /\ Restart => TypeOK'
<1> SUFFICES ASSUME TypeOK, Restart PROVE TypeOK'
  OBVIOUS
<1>1. PICK known \in SUBSET Watches : state' = Validated(Loaded(disk), known)
  BY DEF Restart
<1>2. state' \in AgentState
  BY <1>1, ValidatedType DEF TypeOK
<1>3. recheck' \in SUBSET Watches
  BY DEF Restart
<1>4. pending' \in Seq(Watches)
  BY DEF Restart
<1> QED BY <1>2, <1>3, <1>4 DEF Restart, SaveState, TypeOK

LEMMA TypeStep == TypeOK /\ [Next]_vars => TypeOK'
<1> SUFFICES ASSUME TypeOK, [Next]_vars PROVE TypeOK'
  OBVIOUS
<1>1. CASE Environment
  BY <1>1, EnvironmentType
<1>2. CASE Commands
  BY <1>2, CommandsType
<1>3. CASE Timers
  BY <1>3, TimersType
<1>4. CASE RunTask
  BY <1>4, RunTaskType
<1>5. CASE Crash \/ Shutdown
  <2>1. events' \in Nat
    BY <1>5 DEF Crash, Shutdown, Event, TypeOK
  <2>2. alive' \in BOOLEAN
    BY <1>5 DEF Crash, Shutdown
  <2>3. UNCHANGED <<outside, state, process>> /\ (disk' = disk \/ disk' = state')
    BY <1>5 DEF Crash, Shutdown, SaveState
  <2> QED BY <2>1, <2>2, <2>3 DEF TypeOK, outside, process
<1>6. CASE Restart
  BY <1>6, RestartType
<1>7. CASE UNCHANGED vars
  BY <1>7 DEF TypeOK, vars, outside, process
<1> QED BY <1>1, <1>2, <1>3, <1>4, <1>5, <1>6, <1>7 DEF Next

(* Every variable of the daemon keeps its type, whatever the constants. *)
THEOREM TypeCorrect == Spec => []TypeOK
BY InitType, TypeStep, PTL DEF Spec

-----------------------------------------------------------------------------
(* The loop: one pipeline, no forgotten poll, no missed hand-over.         *)

(* What the loop sees of a step of the task, or of a cancel. *)
LEMMA RunGoesOn ==
  ASSUME TypeOK, RunTask \/ CancelRun
  PROVE  /\ alive /\ running \in Run /\ running # None
         /\ Continues(running, running') /\ running' # None
         /\ UNCHANGED <<outside, disk, state, pending, validating, recheck, restartWanted>>
         /\ alive' = alive \/ AfterCommand
<1>1. CASE RunTask
  <2>1. PICK run : Continues(running, run) /\ TaskStep(run)
    BY <1>1, RunTaskMoves
  <2>2. running \in Run /\ run \in Run
    BY <1>1, <2>1, RunTaskMoves DEF Continues
  <2> QED BY <2>1, <2>2, NoneIsNothing DEF TaskStep
<1>2. CASE CancelRun
  <2>1. running \in Run
    BY <1>2 DEF CancelRun, TypeOK
  <2>2. Continues(running, [running EXCEPT !.cancel = TRUE])
    BY <2>1 DEF Continues, Run, RunShape, Planned
  <2>3. [running EXCEPT !.cancel = TRUE] # None
    BY <2>2, NoneIsNothing DEF Continues
  <2> QED BY <1>2, <2>1, <2>2, <2>3 DEF CancelRun
<1> QED BY <1>1, <1>2

(* A poll starts a run only in an idle pipeline, and queues only in a busy *)
(* one.                                                                    *)
LEMMA RequestPollLoop ==
  ASSUME TypeOK, state' \in AgentState, LoopInOrder, UNCHANGED <<validating, restartWanted>>,
         NEW w \in Watches, RequestPoll(w), UNCHANGED alive \/ AfterCommand, alive
  PROVE  LoopInOrder'
<1>1. CASE Coalesce(w)
  BY <1>1 DEF Coalesce, LoopInOrder, SingleFlight, QueueOnlyWhileBusy, HandoverPending, Idle, Busy
<1>2. CASE PollStartsNothing
  BY <1>2 DEF PollStartsNothing, LoopInOrder, SingleFlight, QueueOnlyWhileBusy, HandoverPending,
              Idle, Busy
<1>3. CASE PollStartsRun(w)
  <2>1. running' # None
    BY <1>3, NewRunType, NoneIsNothing DEF PollStartsRun
  <2> QED BY <1>3, <2>1 DEF PollStartsRun, LoopInOrder, SingleFlight, QueueOnlyWhileBusy,
                          HandoverPending, Idle, Busy
<1> QED BY <1>1, <1>2, <1>3 DEF RequestPoll

LEMMA LoopStep == TypeOK /\ LoopInOrder /\ [Next]_vars => LoopInOrder'
<1> SUFFICES ASSUME TypeOK, LoopInOrder, [Next]_vars PROVE LoopInOrder'
  OBVIOUS
<1> USE DEF LoopInOrder, SingleFlight, QueueOnlyWhileBusy, HandoverPending, Idle, Busy
<1>0. state' \in AgentState
  BY TypeStep DEF TypeOK
<1>1. CASE Environment
  BY <1>1 DEF Environment, Push, LinkChange, InstallUpdate, DiskChange, process
<1>2. ASSUME NEW w \in Watches, Kick(w) \/ PollDue(w) PROVE LoopInOrder'
  BY <1>0, <1>2, RequestPollLoop DEF Kick, PollDue, Poll
<1>3. ASSUME NEW st, Command(st) PROVE LoopInOrder'
  BY <1>3 DEF Command, AfterCommand, process
<1>4. CASE Validate
  BY <1>4 DEF Validate, AfterCommand
<1>5. CASE ValidateDone
  BY <1>5 DEF ValidateDone, DrainPending, AfterCommand
<1>6. CASE FinishRun
  BY <1>6 DEF FinishRun, DrainPending, AfterCommand
<1>7. CASE RunTask \/ CancelRun
  BY <1>7, RunGoesOn DEF AfterCommand
<1>8. ASSUME NEW w \in Watches, RecheckDue(w) PROVE LoopInOrder'
  <2>1. CASE UNCHANGED <<running, pending>>
    BY <1>8, <2>1 DEF RecheckDue
  <2>2. CASE RequestPoll(w)
    BY <1>0, <1>8, <2>2, RequestPollLoop DEF RecheckDue
  <2> QED BY <1>8, <2>1, <2>2 DEF RecheckDue
<1>9. CASE SelfCheckDue
  BY <1>9 DEF SelfCheckDue
<1>10. CASE Crash \/ Shutdown
  BY <1>10 DEF Crash, Shutdown, process
<1>11. CASE Restart
  BY <1>11 DEF Restart
<1>12. CASE UNCHANGED vars
  BY <1>12 DEF vars, process
<1>13. Commands \/ Timers =>
         \/ \E w \in Watches : Kick(w) \/ PollDue(w) \/ RecheckDue(w)
         \/ \E st : Command(st)
         \/ Validate \/ ValidateDone \/ CancelRun \/ FinishRun \/ SelfCheckDue
  BY DEF Commands, Timers, PauseAll, PauseWatch, PauseHost, Approve, Revoke
<1> QED
  BY <1>1, <1>2, <1>3, <1>4, <1>5, <1>6, <1>7, <1>8, <1>9, <1>10, <1>11, <1>12, <1>13
     DEF Next

(* One pipeline at a time, no poll waiting on nothing, and a detected      *)
(* update that is never overlooked by an idle daemon.                      *)
THEOREM LoopCorrect == Spec => []LoopInOrder
<1>1. Init => LoopInOrder
  BY DEF Init, LoopInOrder, SingleFlight, QueueOnlyWhileBusy, HandoverPending
<1> QED BY <1>1, InitType, TypeStep, LoopStep, PTL DEF Spec

-----------------------------------------------------------------------------
(* The recheck timer. *)

(* The operators' commands touch no stamp of any host. *)
SameStamps ==
  \A w \in Watches, h \in Hosts :
    /\ state'.hosts[w][h].deployed = state.hosts[w][h].deployed
    /\ state'.hosts[w][h].failed = state.hosts[w][h].failed
    /\ state'.hosts[w][h].held = state.hosts[w][h].held
    /\ state'.hosts[w][h].offline = state.hosts[w][h].offline

StateCommands ==
  \/ \E b \in BOOLEAN : PauseAll(b)
  \/ \E w \in Watches, b \in BOOLEAN : PauseWatch(w, b)
  \/ \E h \in Hosts, b \in BOOLEAN : PauseHost(h, b)
  \/ \E w \in Watches, h \in Hosts : Approve(w, h)
  \/ \E w \in Watches, h \in Hosts : Revoke(w, h)

LEMMA SetFlagStamps ==
  ASSUME NEW hs \in HostState, NEW b \in BOOLEAN
  PROVE  /\ [hs EXCEPT !.paused = b].deployed = hs.deployed
         /\ [hs EXCEPT !.paused = b].failed = hs.failed
         /\ [hs EXCEPT !.paused = b].held = hs.held
         /\ [hs EXCEPT !.paused = b].offline = hs.offline
         /\ [hs EXCEPT !.approved = b].deployed = hs.deployed
         /\ [hs EXCEPT !.approved = b].failed = hs.failed
         /\ [hs EXCEPT !.approved = b].held = hs.held
         /\ [hs EXCEPT !.approved = b].offline = hs.offline
BY DEF HostState

(* One flag of some hosts is set. *)
LEMMA FlagSetKeepsStamps ==
  ASSUME TypeOK, NEW b \in BOOLEAN,
         \A w \in Watches, h \in Hosts :
           \/ state'.hosts[w][h] = state.hosts[w][h]
           \/ state'.hosts[w][h] = [state.hosts[w][h] EXCEPT !.paused = b]
           \/ state'.hosts[w][h] = [state.hosts[w][h] EXCEPT !.approved = b]
  PROVE  SameStamps
<1> SUFFICES ASSUME NEW w \in Watches, NEW h \in Hosts
             PROVE  /\ state'.hosts[w][h].deployed = state.hosts[w][h].deployed
                    /\ state'.hosts[w][h].failed = state.hosts[w][h].failed
                    /\ state'.hosts[w][h].held = state.hosts[w][h].held
                    /\ state'.hosts[w][h].offline = state.hosts[w][h].offline
  BY DEF SameStamps
<1>1. state.hosts[w][h] \in HostState
  BY HostType
<1>2. CASE state'.hosts[w][h] = state.hosts[w][h]
  BY <1>2
<1>3. CASE state'.hosts[w][h] = [state.hosts[w][h] EXCEPT !.paused = b]
  BY <1>1, <1>3, SetFlagStamps
<1>4. CASE state'.hosts[w][h] = [state.hosts[w][h] EXCEPT !.approved = b]
  BY <1>1, <1>4, SetFlagStamps
<1> QED BY <1>2, <1>3, <1>4

LEMMA StateCommandEffect ==
  ASSUME TypeOK, StateCommands
  PROVE  /\ SameStamps /\ alive /\ (disk' = disk \/ disk' = state')
         /\ UNCHANGED <<outside, process>>
<1>1. alive /\ (disk' = disk \/ disk' = state') /\ UNCHANGED <<outside, process>>
  BY DEF StateCommands, PauseAll, PauseWatch, PauseHost, Approve, Revoke, Command, SaveState
<1>2. ASSUME NEW b \in BOOLEAN, PauseAll(b) PROVE SameStamps
  <2>1. state'.hosts = state.hosts
    BY <1>2 DEF PauseAll, Command, TypeOK, AgentState
  <2> QED BY <2>1 DEF SameStamps
<1>3. ASSUME NEW w \in Watches, NEW b \in BOOLEAN, PauseWatch(w, b) PROVE SameStamps
  <2>1. state'.hosts = state.hosts
    BY <1>3 DEF PauseWatch, Command, TypeOK, AgentState
  <2> QED BY <2>1 DEF SameStamps
<1>4. ASSUME NEW h \in Hosts, NEW b \in BOOLEAN, PauseHost(h, b) PROVE SameStamps
  <2>1. state'.hosts = [w \in Watches |-> IF h \in HostsOf[w]
                                          THEN [state.hosts[w] EXCEPT ![h].paused = b]
                                          ELSE state.hosts[w]]
    BY <1>4 DEF PauseHost, Command, TypeOK, AgentState
  <2>2. ASSUME NEW w \in Watches, NEW g \in Hosts
        PROVE  \/ state'.hosts[w][g] = state.hosts[w][g]
               \/ state'.hosts[w][g] = [state.hosts[w][g] EXCEPT !.paused = b]
    <3>1. CASE h \in HostsOf[w]
      <4>1. state'.hosts[w] = [state.hosts[w] EXCEPT ![h].paused = b]
        BY <2>1, <3>1
      <4> QED BY <4>1 DEF TypeOK, AgentState
    <3>2. CASE h \notin HostsOf[w]
      BY <2>1, <3>2
    <3> QED BY <3>1, <3>2
  <2> QED BY <2>2, FlagSetKeepsStamps
<1>5. ASSUME NEW w \in Watches, NEW h \in Hosts, Approve(w, h) \/ Revoke(w, h)
      PROVE  SameStamps
  <2>1. PICK b \in BOOLEAN : state' = [state EXCEPT !.hosts[w][h].approved = b]
    BY <1>5 DEF Approve, Revoke, Command
  <2>2. \A v \in Watches, g \in Hosts :
          \/ state'.hosts[v][g] = state.hosts[v][g]
          \/ state'.hosts[v][g] = [state.hosts[v][g] EXCEPT !.approved = b]
    BY <2>1 DEF TypeOK, AgentState
  <2> QED BY <2>2, FlagSetKeepsStamps
<1> QED BY <1>1, <1>2, <1>3, <1>4, <1>5 DEF StateCommands

(* One recorded run, as the loop sees it. *)
LEMMA RecordedHosts ==
  ASSUME TypeOK, FinishRun, NEW w \in Watches, NEW h \in Hosts
  PROVE  state'.hosts[w][h] =
           IF w = running.watch /\ running.outcome[h] # None
           THEN ApplyOutcome(state.hosts[w][h], running.outcome[h], running.rev)
           ELSE state.hosts[w][h]
<1>1. running \in Run /\ running.watch \in Watches
  BY DEF FinishRun, TypeOK, Run
<1>2. state'.hosts = [state.hosts EXCEPT ![running.watch] =
                        Recorded(running, state.hosts[running.watch])]
  BY DEF FinishRun, TypeOK, AgentState
<1> QED BY <1>1, <1>2 DEF Recorded, TypeOK, AgentState

LEMMA ReprobedHosts ==
  ASSUME TypeOK, NEW v \in Watches, RecheckDue(v), NEW w \in Watches, NEW h \in Hosts
  PROVE  state'.hosts[w][h] =
           IF w = v /\ h \in Marked(v) THEN Reprobed(state.hosts[v][h], link[h])
           ELSE state.hosts[w][h]
<1>1. state'.hosts = [state.hosts EXCEPT ![v] =
                        [g \in Hosts |-> IF g \in Marked(v)
                                         THEN Reprobed(state.hosts[v][g], link[g])
                                         ELSE state.hosts[v][g]]]
  BY DEF RecheckDue, TypeOK, AgentState
<1> QED BY <1>1 DEF TypeOK, AgentState

(* Every action of Next, by what it does to the loop's state. *)
LEMMA NextCases ==
  ASSUME [Next]_vars
  PROVE  \/ Environment \/ StateCommands \/ Validate \/ ValidateDone \/ FinishRun
         \/ RunTask \/ CancelRun
         \/ \E w \in Watches : Kick(w) \/ PollDue(w)
         \/ \E w \in Watches : RecheckDue(w)
         \/ SelfCheckDue \/ Crash \/ Shutdown \/ Restart \/ UNCHANGED vars
BY DEF Next, Commands, Timers, StateCommands

LEMMA RecheckArmedStep ==
  ASSUME TypeOK, TypeOK', RecheckArmed, [Next]_vars
  PROVE  RecheckArmed'
<1> SUFFICES ASSUME alive', NEW w \in Watches, NEW h \in Hosts,
                    state'.hosts[w][h].offline # None
             PROVE  w \in recheck'
  BY DEF RecheckArmed, Marked
<1>1. ASSUME alive, state.hosts[w][h].offline # None PROVE w \in recheck
  BY <1>1 DEF RecheckArmed, Marked
<1>3. CASE Environment \/ Validate \/ ValidateDone \/ SelfCheckDue \/ UNCHANGED vars
  BY <1>1, <1>3 DEF Environment, Push, LinkChange, InstallUpdate, DiskChange, Validate, ValidateDone,
                    SelfCheckDue, process, vars
<1>4. CASE StateCommands
  BY <1>1, <1>4, StateCommandEffect DEF SameStamps, process
<1>5. CASE RunTask \/ CancelRun
  BY <1>1, <1>5, RunGoesOn
<1>6. CASE \E v \in Watches : Kick(v) \/ PollDue(v)
  BY <1>1, <1>6 DEF Kick, PollDue, Poll
<1>7. CASE FinishRun
  <2>1. alive /\ recheck \subseteq recheck' /\ running \in Run
    BY <1>7 DEF FinishRun, TypeOK
  <2>2. CASE state.hosts[w][h].offline # None
    BY <1>1, <2>1, <2>2
  <2>3. CASE state.hosts[w][h].offline = None
    <3>1. w = running.watch /\ running.outcome[h] # None
          /\ ApplyOutcome(state.hosts[w][h], running.outcome[h], running.rev).offline # None
      BY <1>7, <2>3, RecordedHosts
    <3>2. running.outcome[h] \in Outcome /\ running.rev \in Revs
      BY <2>1, <3>1 DEF Run
    <3>3. running.outcome[h].kind \in Kinds
      BY <2>3, <3>1, <3>2, HostType, ApplyOutcomeMarker
    <3> QED BY <1>7, <3>1, <3>3 DEF FinishRun, HadOffline
  <2> QED BY <2>2, <2>3
<1>8. ASSUME NEW v \in Watches, RecheckDue(v) PROVE w \in recheck'
  <2>1. alive /\ (w # v => (w \in recheck => w \in recheck'))
    BY <1>8 DEF RecheckDue
  <2>2. CASE w # v
    BY <1>1, <1>8, <2>1, <2>2, ReprobedHosts
  <2>3. CASE w = v
    <3>1. h \in Marked(v)
      BY <1>8, <2>3, ReprobedHosts DEF Marked
    <3>2. Reprobed(state.hosts[v][h], link[h]).offline # None
      BY <1>8, <2>3, <3>1, ReprobedHosts
    <3>3. link[h] # "up"
      BY <3>2, HostType DEF Reprobed, HostState
    <3> QED BY <1>8, <2>3, <3>1, <3>3 DEF RecheckDue
  <2> QED BY <2>2, <2>3
<1>9. CASE Crash \/ Shutdown
  BY <1>9 DEF Crash, Shutdown
<1>10. CASE Restart
  BY <1>10 DEF Restart
<1> QED
  BY <1>3, <1>4, <1>5, <1>6, <1>7, <1>8, <1>9, <1>10, NextCases

(* While the daemon lives, a host with a pending update always has its     *)
(* watch's recheck timer armed.                                            *)
THEOREM RecheckAlwaysArmed == Spec => []RecheckArmed
<1>1. Init => RecheckArmed
  <2> SUFFICES ASSUME Init PROVE RecheckArmed
    OBVIOUS
  <2>1. PICK managed \in SUBSET Hosts, top \in OptPath : state = InitialState(managed, top)
    BY DEF Init
  <2>2. \A w \in Watches, h \in Hosts : state.hosts[w][h].offline = None
    BY <2>1 DEF InitialState, Succeeded, Fresh
  <2> QED BY <2>2 DEF RecheckArmed, Marked
<1>2. TypeOK /\ TypeOK' /\ RecheckArmed /\ [Next]_vars => RecheckArmed'
  BY RecheckArmedStep
<1> QED BY <1>1, <1>2, InitType, TypeStep, PTL DEF Spec

-----------------------------------------------------------------------------
(* The ledger.  That a recorded outcome never contradicts a stamp needs to *)
(* know that the run in flight was planned for hosts that do not run its   *)
(* revision, and that nothing else has made them current since.            *)

RunInv ==
  alive /\ running # None =>
    /\ RunShape(running)
    /\ \A h \in Planned(running) :
         state.hosts[running.watch][h].deployed # running.rev

LedgerInv == LedgerConsistent /\ RunInv

LEMMA NewRunNeeded ==
  ASSUME TypeOK, NEW st \in AgentState, NEW w \in Watches
  PROVE  /\ RunShape(NewRun(st, w))
         /\ NewRun(st, w).watch = w
         /\ \A h \in Planned(NewRun(st, w)) : st.hosts[w][h].deployed # NewRun(st, w).rev
<1> DEFINE planned == EligibleHosts(st, w)
<1>1. planned \in SUBSET Hosts
  BY HostsOfAssumption DEF EligibleHosts
<1>2. \A h \in planned : st.hosts[w][h].deployed # head[w]
  BY DEF EligibleHosts, Eligible
<1>3. \A h \in planned : PlanEntry(st.hosts[w][h]) # None
  BY <1>1, PlanEntryType, NoneAssumption DEF AgentState
<1>4. NewRun(st, w).plan = [h \in Hosts |-> IF h \in planned
                                           THEN PlanEntry(st.hosts[w][h]) ELSE None]
  BY DEF NewRun
<1>5. /\ NewRun(st, w).watch = w /\ NewRun(st, w).rev = head[w]
      /\ NewRun(st, w).todo = planned /\ NewRun(st, w).host = None
      /\ NewRun(st, w).outcome = [h \in Hosts |-> None]
  BY DEF NewRun
<1> HIDE DEF planned
<1>6. Planned(NewRun(st, w)) = planned
  BY <1>1, <1>3, <1>4 DEF Planned
<1> QED BY <1>1, <1>2, <1>5, <1>6 DEF RunShape

(* A run that goes on is still needed when no host's deployed stamp moved. *)
LEMMA RunInvKept ==
  ASSUME TypeOK, RunInv, alive, running # None, Continues(running, running'),
         \A w \in Watches, h \in Hosts :
           state'.hosts[w][h].deployed = state.hosts[w][h].deployed
  PROVE  RunInv'
<1>1. running.watch \in Watches
  BY DEF TypeOK, Run
<1>2. Planned(running') = Planned(running)
  BY DEF Continues, Planned
<1> QED BY <1>1, <1>2 DEF RunInv, Continues, Planned

LEMMA SameRunKept ==
  ASSUME TypeOK, RunInv, UNCHANGED running, alive' => alive,
         \A w \in Watches, h \in Hosts :
           state'.hosts[w][h].deployed = state.hosts[w][h].deployed
  PROVE  RunInv'
<1>1. CASE running = None \/ ~ alive'
  BY <1>1 DEF RunInv
<1>2. CASE running # None /\ alive'
  <2>1. Continues(running, running')
    BY <1>2 DEF Continues, TypeOK
  <2> QED BY <1>2, <2>1, RunInvKept
<1> QED BY <1>1, <1>2

LEMMA RequestPollKept ==
  ASSUME TypeOK, TypeOK', RunInv, NEW w \in Watches, RequestPoll(w), alive' => alive,
         \A v \in Watches, h \in Hosts :
           state'.hosts[v][h].deployed = state.hosts[v][h].deployed
  PROVE  RunInv'
<1>1. CASE UNCHANGED running
  BY <1>1, SameRunKept
<1>2. CASE running' = NewRun(state', w)
  BY <1>2, NewRunNeeded DEF RunInv, TypeOK
<1> QED BY <1>1, <1>2 DEF RequestPoll, Coalesce, PollStartsNothing, PollStartsRun

LEMMA DrainKept ==
  ASSUME TypeOK, TypeOK', DrainPending
  PROVE  RunInv'
<1>1. Range(pending) \subseteq Watches
  BY DEF TypeOK, Range
<1>2. CASE running' = None
  BY <1>2 DEF RunInv
<1>3. ASSUME NEW w \in Watches, running' = NewRun(state', w) PROVE RunInv'
  BY <1>3, NewRunNeeded DEF RunInv, TypeOK
<1> QED BY <1>1, <1>2, <1>3 DEF DrainPending

(* The stamps of the state and the file after a step that keeps every      *)
(* stamp and writes, if anything, the new state.                           *)
LEMMA StampsKept ==
  ASSUME LedgerConsistent, SameStamps, disk' = disk \/ disk' = state'
  PROVE  LedgerConsistent'
BY DEF LedgerConsistent, SameStamps, Consistent

LEMMA SameStateKept ==
  ASSUME UNCHANGED state
  PROVE  SameStamps
BY DEF SameStamps

LEMMA FinishRunLedger ==
  ASSUME TypeOK, TypeOK', LedgerInv, FinishRun
  PROVE  LedgerInv'
<1>1. running \in Run /\ running.watch \in Watches /\ running.rev \in Revs
  BY DEF FinishRun, TypeOK, Run
<1>2. ASSUME NEW w \in Watches, NEW h \in Hosts
      PROVE  Consistent(state'.hosts[w][h])
  <2>1. CASE w = running.watch /\ running.outcome[h] # None
    <3>1. running.outcome[h] \in Outcome
      BY <1>1, <2>1 DEF Run
    <3>2. state.hosts[w][h].deployed # running.rev
      BY <1>1, <2>1, NoneIsNothing DEF LedgerInv, RunInv, RunShape, FinishRun
    <3>3. Consistent(ApplyOutcome(state.hosts[w][h], running.outcome[h], running.rev))
      BY <1>1, <3>1, <3>2, HostType, ApplyOutcomeConsistent DEF LedgerInv, LedgerConsistent
    <3> QED BY <2>1, <3>3, RecordedHosts
  <2>2. CASE ~ (w = running.watch /\ running.outcome[h] # None)
    BY <2>2, RecordedHosts DEF LedgerInv, LedgerConsistent
  <2> QED BY <2>1, <2>2
<1>3. disk' = disk \/ disk' = state'
  BY DEF FinishRun, SaveState
<1>4. LedgerConsistent'
  BY <1>2, <1>3 DEF LedgerInv, LedgerConsistent
<1>5. RunInv'
  BY DrainKept DEF FinishRun
<1> QED BY <1>4, <1>5 DEF LedgerInv

LEMMA ReprobedConsistent ==
  ASSUME NEW hs \in HostState, NEW l \in Links, Consistent(hs)
  PROVE  Consistent(Reprobed(hs, l)) /\ Reprobed(hs, l).deployed = hs.deployed
<1>1. CASE l = "up"
  BY <1>1 DEF Reprobed, HostState, Consistent
<1>2. CASE l # "up"
  <2>1. l \in Kinds
    BY <1>2 DEF Links
  <2>2. Refused(hs, l).deployed = hs.deployed
    BY DEF Refused, HostState
  <2> QED BY <1>2, <2>1, <2>2, RefusedConsistent DEF Reprobed
<1> QED BY <1>1, <1>2

LEMMA StartupConsistent ==
  ASSUME NEW hs \in HostState, NEW l \in Links, Consistent(hs)
  PROVE  Consistent(Startup(hs, l))
<1>1. CASE l = "up"
  BY <1>1 DEF Startup, HostState, Consistent
<1>2. CASE l # "up"
  BY <1>2, RefusedConsistent DEF Startup, Links
<1> QED BY <1>1, <1>2

LEMMA RecheckDueLedger ==
  ASSUME TypeOK, TypeOK', LedgerInv, NEW v \in Watches, RecheckDue(v)
  PROVE  LedgerInv'
<1>1. ASSUME NEW w \in Watches, NEW h \in Hosts
      PROVE  /\ Consistent(state'.hosts[w][h])
             /\ state'.hosts[w][h].deployed = state.hosts[w][h].deployed
  <2>1. link[h] \in Links
    BY DEF TypeOK
  <2>2. Consistent(state.hosts[w][h])
    BY DEF LedgerInv, LedgerConsistent
  <2>3. state'.hosts[w][h] = state.hosts[w][h]
        \/ state'.hosts[w][h] = Reprobed(state.hosts[w][h], link[h])
    BY ReprobedHosts
  <2> QED BY <2>1, <2>2, <2>3, HostType, ReprobedConsistent
<1>2. disk' = disk \/ disk' = state'
  BY DEF RecheckDue, SaveState
<1>3. LedgerConsistent'
  BY <1>1, <1>2 DEF LedgerInv, LedgerConsistent
<1>4. CASE UNCHANGED running
  BY <1>1, <1>3, <1>4, SameRunKept DEF RecheckDue, LedgerInv
<1>5. CASE RequestPoll(v)
  BY <1>1, <1>3, <1>5, RequestPollKept DEF RecheckDue, LedgerInv
<1> QED BY <1>4, <1>5 DEF RecheckDue

LEMMA RestartLedger ==
  ASSUME TypeOK, LedgerInv, Restart
  PROVE  LedgerInv'
<1>1. PICK known \in SUBSET Watches : state' = Validated(Loaded(disk), known)
  BY DEF Restart
<1>2. ASSUME NEW w \in Watches, NEW h \in Hosts
      PROVE  Consistent(state'.hosts[w][h])
  <2>1. disk.hosts[w][h] \in HostState /\ Consistent(disk.hosts[w][h]) /\ link[h] \in Links
    BY DEF TypeOK, AgentState, LedgerInv, LedgerConsistent
  <2>2. Loaded(disk).hosts[w][h] = disk.hosts[w][h]
    <3>1. Loaded(disk).hosts[w][h] = DropSupersededParks(disk.hosts[w][h])
      BY DEF Loaded, TypeOK, AgentState
    <3> QED BY <2>1, <3>1, LoadKeepsConsistent
  <2>3. state'.hosts[w][h] = Loaded(disk).hosts[w][h]
        \/ state'.hosts[w][h] = Startup(Loaded(disk).hosts[w][h], link[h])
    <3>1. Loaded(disk) \in AgentState
      BY DropSupersededParksType DEF Loaded, TypeOK, AgentState
    <3> QED BY <1>1, <3>1 DEF Validated, AgentState
  <2> QED BY <2>1, <2>2, <2>3, StartupConsistent
<1>3. disk' = disk \/ disk' = state'
  BY DEF Restart, SaveState
<1>4. RunInv'
  BY DEF Restart, RunInv
<1> QED BY <1>2, <1>3, <1>4 DEF LedgerInv, LedgerConsistent

LEMMA LedgerStep == TypeOK /\ TypeOK' /\ LedgerInv /\ [Next]_vars => LedgerInv'
<1> SUFFICES ASSUME TypeOK, TypeOK', LedgerInv, [Next]_vars PROVE LedgerInv'
  OBVIOUS
<1>1. LedgerConsistent /\ RunInv
  BY DEF LedgerInv
<1>2. ASSUME SameStamps, disk' = disk \/ disk' = state', UNCHANGED running, alive' => alive
      PROVE  LedgerInv'
  BY <1>1, <1>2, StampsKept, SameRunKept DEF LedgerInv, SameStamps
<1>3. CASE Environment \/ Validate \/ SelfCheckDue \/ Crash \/ Shutdown \/ UNCHANGED vars
  BY <1>2, <1>3, SameStateKept
     DEF Environment, Push, LinkChange, InstallUpdate, DiskChange, Validate, SelfCheckDue, Crash,
         Shutdown, SaveState, process, vars
<1>4. CASE StateCommands
  BY <1>2, <1>4, StateCommandEffect DEF process
<1>5. CASE RunTask \/ CancelRun
  BY <1>1, <1>5, RunGoesOn, RunInvKept, SameStateKept, StampsKept DEF LedgerInv, SameStamps
<1>6. ASSUME NEW w \in Watches, Kick(w) \/ PollDue(w) PROVE LedgerInv'
  <2>1. UNCHANGED state /\ RequestPoll(w) /\ alive /\ (disk' = disk \/ disk' = state')
    BY <1>6 DEF Kick, PollDue, Poll, Answered, SaveState
  <2>2. SameStamps
    BY <2>1, SameStateKept
  <2> QED BY <1>1, <2>1, <2>2, StampsKept, RequestPollKept DEF LedgerInv, SameStamps
<1>7. CASE ValidateDone
  <2>1. UNCHANGED state /\ DrainPending /\ (disk' = disk \/ disk' = state')
    BY <1>7 DEF ValidateDone, Answered, SaveState
  <2> QED BY <1>1, <2>1, SameStateKept, StampsKept, DrainKept DEF LedgerInv
<1>8. CASE FinishRun
  BY <1>8, FinishRunLedger
<1>9. CASE \E w \in Watches : RecheckDue(w)
  BY <1>9, RecheckDueLedger
<1>10. CASE Restart
  BY <1>10, RestartLedger
<1> QED
  BY <1>3, <1>4, <1>5, <1>6, <1>7, <1>8, <1>9, <1>10, NextCases

LEMMA LedgerInit == Init => LedgerInv
<1> SUFFICES ASSUME Init PROVE LedgerInv
  OBVIOUS
<1>1. PICK managed \in SUBSET Hosts, top \in OptPath : state = InitialState(managed, top)
  BY DEF Init
<1>2. \A w \in Watches, h \in Hosts :
        state.hosts[w][h] = Fresh \/ state.hosts[w][h] = Succeeded(Fresh, head[w], top)
  BY <1>1 DEF InitialState
<1>3. Consistent(Fresh)
  BY DEF Consistent, Fresh
<1>4. \A rev : Consistent(Succeeded(Fresh, rev, top))
  BY DEF Consistent, Succeeded, Fresh
<1>5. \A w \in Watches, h \in Hosts : Consistent(state.hosts[w][h])
  BY <1>2, <1>3, <1>4
<1> QED BY <1>5 DEF Init, LedgerInv, LedgerConsistent, RunInv

LEMMA LedgerInvAlways == Spec => []LedgerInv
BY InitType, TypeStep, LedgerInit, LedgerStep, PTL DEF Spec

(* For any number of watches, hosts and events: the stamps of every host   *)
(* agree with each other, in memory and on disk.                           *)
THEOREM LedgerAlwaysConsistent == Spec => []LedgerConsistent
<1>1. LedgerInv => LedgerConsistent
  BY DEF LedgerInv
<1> QED BY <1>1, LedgerInvAlways, PTL

(* A host that a run still has before it is not at the run's revision, what*)
(* ever commands and polls came while it ran (plan_targets).               *)
THEOREM RunAlwaysNeeded == Spec => []RunStillNeeded
<1>1. LedgerInv => RunStillNeeded
  BY DEF LedgerInv, RunInv, RunStillNeeded, Planned
<1> QED BY <1>1, LedgerInvAlways, PTL
-----------------------------------------------------------------------------
(* What the daemon promises about runs, the state file and the hand-over,  *)
(* for any watches, hosts, revisions, options and number of outside        *)
(* events: the walk of a run over its plan, first contact, retries, the    *)
(* last save, and the record of a cancelled run.                           *)

-----------------------------------------------------------------------------
(* The state file. *)

(* Where writes succeed, the file holds what the daemon believes, and what *)
(* it last believed once it is gone.                                       *)
SavedInv == DiskFills \/ (~ full /\ disk = state)

LEMMA SavedStep == TypeOK /\ SavedInv /\ [Next]_vars => SavedInv'
<1> SUFFICES ASSUME TypeOK, SavedInv, [Next]_vars, ~ DiskFills
             PROVE  ~ full' /\ disk' = state'
  BY DEF SavedInv
<1>1. ~ full /\ disk = state
  BY DEF SavedInv
<1>2. SaveState => disk' = state'
  BY <1>1 DEF SaveState
<1>3. CASE Environment \/ Validate \/ RunTask \/ CancelRun \/ Crash \/ UNCHANGED vars
  BY <1>1, <1>3, RunGoesOn
     DEF Environment, Push, LinkChange, InstallUpdate, DiskChange, Validate, Crash, outside, vars
<1>4. CASE StateCommands
  BY <1>1, <1>2, <1>4
     DEF StateCommands, PauseAll, PauseWatch, PauseHost, Approve, Revoke, Command, outside
<1>5. ASSUME NEW w \in Watches, Kick(w) \/ PollDue(w)
      PROVE  ~ full' /\ disk' = state'
  BY <1>1, <1>2, <1>5 DEF Kick, PollDue, Poll, Answered, outside
<1>6. CASE ValidateDone
  BY <1>1, <1>2, <1>6 DEF ValidateDone, Answered, outside
<1>7. CASE FinishRun \/ Shutdown \/ SelfCheckDue \/ Restart
  BY <1>1, <1>2, <1>7 DEF FinishRun, Shutdown, SelfCheckDue, Restart, outside
<1>8. ASSUME NEW w \in Watches, RecheckDue(w)
      PROVE  ~ full' /\ disk' = state'
  <2>1. alive /\ ~ full' /\ (Marked(w) = {} => UNCHANGED disk)
        /\ (Marked(w) # {} => SaveState)
    BY <1>1, <1>8 DEF RecheckDue, outside
  <2>2. ASSUME Marked(w) = {} PROVE state' = state
    <3> DEFINE probed == [h \in Hosts |-> IF h \in Marked(w)
                                          THEN Reprobed(state.hosts[w][h], link[h])
                                          ELSE state.hosts[w][h]]
    <3>1. state' = [state EXCEPT !.hosts[w] = probed]
      BY <1>8 DEF RecheckDue
    <3>2. probed = state.hosts[w]
      BY <2>2 DEF TypeOK, AgentState
    <3> HIDE DEF probed
    <3> QED BY <3>1, <3>2 DEF TypeOK, AgentState
  <2> QED BY <1>1, <1>2, <2>1, <2>2
<1> QED BY <1>3, <1>4, <1>5, <1>6, <1>7, <1>8, NextCases

(* Between two handlers nothing the daemon knows lives only in memory,     *)
(* where the file can be written.                                          *)
THEOREM NothingLost == Spec => [](~ DiskFills => NothingUnsaved)
<1>1. Init => SavedInv
  BY DEF Init, SavedInv
<1>2. SavedInv => (~ DiskFills => NothingUnsaved)
  BY DEF SavedInv, NothingUnsaved
<1> QED BY <1>1, <1>2, InitType, TypeStep, SavedStep, PTL DEF Spec

-----------------------------------------------------------------------------
(* New runs.  Every run begins as NewRun of the state its handler leaves,  *)
(* and a run ends only in FinishRun.                                       *)

LEMMA RunsEndRecorded ==
  ASSUME TypeOK, LoopInOrder, [Next]_vars, RecordsRun
  PROVE  FinishRun
<1>1. running \in Run /\ running # None /\ alive /\ running.phase = "done"
      /\ Busy /\ ~ validating
  BY DEF RecordsRun, TypeOK, Busy, LoopInOrder, SingleFlight
<1>2. running' # running
  BY <1>1 DEF RecordsRun
<1>3. CASE Environment \/ Validate \/ SelfCheckDue \/ Crash \/ Shutdown \/ UNCHANGED vars
  BY <1>2, <1>3 DEF Environment, Push, LinkChange, InstallUpdate, DiskChange, Validate,
                    SelfCheckDue, Crash, Shutdown, process, vars
<1>4. CASE StateCommands
  BY <1>2, <1>4, StateCommandEffect DEF process
<1>5. CASE RunTask
  BY <1>1, <1>5 DEF RunTask, InPhase, SetupOk, SetupFails, StartHost, SkipRest, NodeMissing,
                    ProbeMisses, ProbeAnswers, Adopts, Holds, ProceedsToDeploy, DeploySucceeds,
                    DeployFails, DeployCancelled
<1>6. CASE CancelRun
  <2>1. running'.phase = "done" /\ running' # None
    BY <1>1, <1>6, RunGoesOn DEF CancelRun, Run
  <2> QED BY <2>1 DEF RecordsRun
<1>7. ASSUME NEW w \in Watches, RequestPoll(w) PROVE FALSE
  BY <1>1, <1>2, <1>7 DEF RequestPoll, Coalesce, PollStartsNothing, PollStartsRun
<1>8. CASE \E w \in Watches : Kick(w) \/ PollDue(w) \/ RecheckDue(w)
  BY <1>2, <1>7, <1>8 DEF Kick, PollDue, Poll, RecheckDue
<1>9. CASE ValidateDone \/ Restart
  BY <1>1, <1>9 DEF ValidateDone, Restart
<1> QED BY <1>3, <1>4, <1>5, <1>6, <1>8, <1>9, NextCases

LEMMA RunsBeginNew ==
  ASSUME TypeOK, LoopInOrder, [Next]_vars, running' # None, running = None \/ RecordsRun
  PROVE  \E w \in Watches : running' = NewRun(state', w)
<1>1. ASSUME DrainPending PROVE \E w \in Watches : running' = NewRun(state', w)
  BY <1>1 DEF DrainPending, TypeOK, Range
<1>2. CASE RecordsRun
  BY <1>1, <1>2, RunsEndRecorded DEF FinishRun
<1>3. CASE running = None
  <2>1. CASE Environment \/ Validate \/ SelfCheckDue \/ Crash \/ Shutdown \/ UNCHANGED vars
    BY <1>3, <2>1 DEF Environment, Push, LinkChange, InstallUpdate, DiskChange, Validate,
                      SelfCheckDue, Crash, Shutdown, process, vars
  <2>2. CASE StateCommands
    BY <1>3, <2>2, StateCommandEffect DEF process
  <2>3. CASE RunTask \/ CancelRun
    BY <1>3, <2>3, RunGoesOn
  <2>4. ASSUME NEW w \in Watches, RequestPoll(w)
        PROVE  \E v \in Watches : running' = NewRun(state', v)
    BY <1>3, <2>4 DEF RequestPoll, Coalesce, PollStartsNothing, PollStartsRun
  <2>5. CASE \E w \in Watches : Kick(w) \/ PollDue(w) \/ RecheckDue(w)
    BY <1>3, <2>4, <2>5 DEF Kick, PollDue, Poll, RecheckDue
  <2>6. CASE ValidateDone \/ FinishRun
    BY <1>1, <2>6 DEF ValidateDone, FinishRun
  <2>7. CASE Restart
    BY <2>7 DEF Restart
  <2> QED BY <2>1, <2>2, <2>3, <2>5, <2>6, <2>7, NextCases
<1> QED BY <1>2, <1>3

(* Why a host is in a new plan, and what the plan knows of it. *)
LEMMA NewRunPlan ==
  ASSUME TypeOK, NEW st \in AgentState, NEW w \in Watches, NEW h \in Hosts,
         NewRun(st, w).plan[h] # None
  PROVE  /\ Eligible(st.hosts[w][h], NewRun(st, w).rev)
         /\ NewRun(st, w).plan[h] = PlanEntry(st.hosts[w][h])
         /\ h \in NewRun(st, w).todo
         /\ st.hosts[w][h].approved => h \in NewRun(st, w).blessed
<1> DEFINE planned == EligibleHosts(st, w)
<1>1. h \in planned => Eligible(st.hosts[w][h], head[w])
  BY DEF EligibleHosts
<1>2. NewRun(st, w).plan = [g \in Hosts |-> IF g \in planned
                                           THEN PlanEntry(st.hosts[w][g]) ELSE None]
  BY DEF NewRun
<1>3. /\ NewRun(st, w).rev = head[w] /\ NewRun(st, w).todo = planned
      /\ NewRun(st, w).blessed = {g \in planned : st.hosts[w][g].approved}
  BY DEF NewRun
<1> HIDE DEF planned
<1> QED BY <1>1, <1>2, <1>3

-----------------------------------------------------------------------------
(* The hand-over. *)

LEMMA HandOverStep ==
  ASSUME TypeOK, LoopInOrder, [Next]_vars, HandsOver
  PROVE  /\ running # None => running.phase = "done"
         /\ running' = None /\ ~ validating' /\ pending' = << >>
         /\ ~ full => disk' = state'
<1>1. alive /\ ~ alive' /\ events' = events /\ events \in Nat
  BY DEF HandsOver, TypeOK
<1>2. SaveState => (~ full => disk' = state')
  BY DEF SaveState
<1>3. ~ Event
  BY <1>1 DEF Event
<1>4. CASE Environment \/ StateCommands \/ Validate \/ CancelRun \/ Crash \/ Shutdown
  BY <1>3, <1>4 DEF Environment, Push, LinkChange, InstallUpdate, DiskChange, StateCommands,
       PauseAll, PauseWatch, PauseHost, Approve, Revoke, Command, Validate, CancelRun, Crash,
       Shutdown
<1>5. ASSUME NEW w \in Watches, Kick(w) PROVE FALSE
  <2>1. restartWanted /\ running' = None /\ ~ validating'
    BY <1>1, <1>5 DEF Kick, Poll, AfterCommand, Idle, Busy
  <2>2. Busy
    BY <1>1, <1>5, <2>1 DEF Kick, Poll, LoopInOrder, HandoverPending, QueueOnlyWhileBusy, Idle
  <2>3. UNCHANGED <<running, validating>>
    BY <1>5, <2>2 DEF Kick, Poll, RequestPoll, Coalesce, PollStartsNothing, PollStartsRun
  <2> QED BY <2>1, <2>2, <2>3 DEF Busy
<1>6. CASE ValidateDone
  <2>1. running = None /\ SaveState /\ Idle'
    BY <1>1, <1>6 DEF ValidateDone, AfterCommand, LoopInOrder, SingleFlight
  <2> QED BY <1>2, <2>1 DEF Idle, Busy
<1>7. CASE FinishRun
  <2>1. running.phase = "done" /\ SaveState /\ Idle'
    BY <1>1, <1>7 DEF FinishRun, AfterCommand
  <2> QED BY <1>2, <2>1 DEF Idle, Busy
<1>8. CASE SelfCheckDue
  BY <1>1, <1>2, <1>8 DEF SelfCheckDue, Idle, Busy
<1>9. CASE RunTask
  BY <1>1, <1>9, RunTaskMoves DEF TaskStep
<1>10. CASE Restart \/ UNCHANGED vars \/ \E w \in Watches : PollDue(w) \/ RecheckDue(w)
  BY <1>1, <1>10 DEF Restart, PollDue, RecheckDue, vars
<1> QED BY <1>4, <1>5, <1>6, <1>7, <1>8, <1>9, <1>10, NextCases

(* The daemon never leaves for an update with work in flight or queued,    *)
(* and leaves its last word on disk.                                       *)
THEOREM WorkFinishedFirst == Spec => NoWorkCutShort
<1>1. TypeOK /\ LoopInOrder /\ [Next]_vars =>
        [HandsOver => /\ running # None => running.phase = "done"
                      /\ running' = None /\ ~ validating' /\ pending' = << >>
                      /\ ~ full => disk' = state']_vars
  BY HandOverStep
<1> QED BY <1>1, TypeCorrect, LoopCorrect, PTL DEF Spec, NoWorkCutShort

-----------------------------------------------------------------------------
(* The walk of a run over its plan: every planned host waits, is being     *)
(* deployed or has its outcome, one of the three; only a host with catch_up ends pending; a  *)
(* first contact is deployed only where bootstrap allows it.               *)

Walk(run) ==
  /\ \A h \in Planned(run) : h \in run.todo \/ h = run.host \/ run.outcome[h] # None
  /\ run.phase \in {"setup", "next", "done"} => run.host = None
  /\ run.phase \in {"probe", "check", "deploy", "teardown"} => run.host \in Planned(run)
  /\ run.phase = "done" => run.todo = {}
  /\ \A h \in Hosts : h \in run.todo \/ h = run.host => run.outcome[h] = None
  /\ run.host \notin run.todo
  /\ \A h \in Hosts : run.outcome[h] # None /\ run.outcome[h].kind \in Kinds => h \in CatchUp
  /\ run.phase \in {"deploy", "teardown"} =>
       ~ run.plan[run.host].adopt \/ run.host \in Bootstrap

(* What the plan recorded of a host still holds. *)
Known(run, hosts) ==
  \A h \in Planned(run) :
     run.plan[h].adopt \/ h \in run.blessed \/ hosts[h].deployed # None

WalkInv ==
  alive /\ running # None => Walk(running) /\ Known(running, state.hosts[running.watch])

LEMMA WalkStarts ==
  ASSUME NEW run \in Run, Walk(run), RunShape(run), run.phase = "next", NEW h \in run.todo
  PROVE  Walk([run EXCEPT !.phase = "probe", !.host = h, !.todo = @ \ {h}])
<1> DEFINE next == [run EXCEPT !.phase = "probe", !.host = h, !.todo = @ \ {h}]
<1>1. /\ next.phase = "probe" /\ next.host = h /\ next.todo = run.todo \ {h}
      /\ next.plan = run.plan /\ next.outcome = run.outcome
  BY DEF Run
<1>2. Planned(next) = Planned(run)
  BY <1>1 DEF Planned
<1>3. run.host = None /\ None \notin Planned(run)
  BY NoneIsNothing DEF Walk, Planned
<1> HIDE DEF next
<1>4. Walk(next)
  BY <1>1, <1>2, <1>3 DEF Walk, RunShape
<1> QED BY <1>4 DEF next

LEMMA WalkMovesOn ==
  ASSUME NEW run \in Run, Walk(run), NEW p \in {"next", "check", "deploy", "teardown"},
         p = "next" => run.phase = "setup",
         p # "next" => run.phase \in {"probe", "check"},
         p \in {"deploy", "teardown"} => ~ run.plan[run.host].adopt \/ run.host \in Bootstrap
  PROVE  Walk([run EXCEPT !.phase = p])
<1> DEFINE next == [run EXCEPT !.phase = p]
<1>1. /\ next.phase = p /\ next.host = run.host /\ next.todo = run.todo
      /\ next.plan = run.plan /\ next.outcome = run.outcome
  BY DEF Run
<1>2. Planned(next) = Planned(run)
  BY <1>1 DEF Planned
<1> HIDE DEF next
<1>3. Walk(next)
  BY <1>1, <1>2 DEF Walk
<1> QED BY <1>3 DEF next

LEMMA WalkAllEnds ==
  ASSUME NEW run \in Run, Walk(run), run.phase \in {"setup", "next"}, NEW kind \in Unsettled
  PROVE  Walk(AllEnd(run, run.todo, kind))
<1> DEFINE next == AllEnd(run, run.todo, kind)
<1>1. /\ next.phase = "done" /\ next.host = run.host /\ next.todo = {}
      /\ next.plan = run.plan
      /\ next.outcome = [h \in Hosts |-> IF h \in run.todo THEN Ended(kind) ELSE run.outcome[h]]
  BY DEF AllEnd, Run
<1>2. Planned(next) = Planned(run) /\ Planned(run) \subseteq Hosts /\ run.host = None
  BY <1>1 DEF Planned, Walk
<1>3. Ended(kind) # None /\ Ended(kind).kind \notin Kinds
  BY EndedType, NoneAssumption, KindsAssumption DEF Ended, Unsettled
<1> HIDE DEF next
<1>4. \A h \in Planned(next) : next.outcome[h] # None
  BY <1>1, <1>2, <1>3, NoneIsNothing DEF Walk
<1>5. \A h \in Hosts : next.outcome[h] # None /\ next.outcome[h].kind \in Kinds => h \in CatchUp
  BY <1>1, <1>3 DEF Walk
<1>6. Walk(next)
  BY <1>1, <1>2, <1>4, <1>5 DEF Walk
<1> QED BY <1>6 DEF next

LEMMA WalkHostEnds ==
  ASSUME NEW run \in Run, Walk(run), run.host \in Planned(run), NEW o \in Outcome,
         o.kind \in Kinds => run.host \in CatchUp
  PROVE  Walk([run EXCEPT !.outcome[run.host] = o, !.host = None,
                          !.phase = IF run.todo = {} THEN "done" ELSE "next"])
<1> DEFINE next == [run EXCEPT !.outcome[run.host] = o, !.host = None,
                               !.phase = IF run.todo = {} THEN "done" ELSE "next"]
<1>1. /\ next.phase = (IF run.todo = {} THEN "done" ELSE "next")
      /\ next.host = None /\ next.todo = run.todo /\ next.plan = run.plan
      /\ next.outcome = [run.outcome EXCEPT ![run.host] = o]
  BY DEF Run
<1>2. Planned(next) = Planned(run) /\ Planned(run) \subseteq Hosts
  BY <1>1 DEF Planned
<1>3. \A h \in Hosts : next.outcome[h] = IF h = run.host THEN o ELSE run.outcome[h]
  BY <1>1 DEF Run
<1> HIDE DEF next
<1>4. \A h \in Planned(next) : h \in next.todo \/ next.outcome[h] # None
  BY <1>1, <1>2, <1>3, NoneAssumption DEF Walk
<1>5. \A h \in Hosts : next.outcome[h] # None /\ next.outcome[h].kind \in Kinds => h \in CatchUp
  BY <1>3 DEF Walk
<1>6. next.phase = "done" => next.todo = {}
  BY <1>1
<1>7. \A h \in Hosts : h \in next.todo \/ h = next.host => next.outcome[h] = None
  BY <1>1, <1>3, NoneIsNothing DEF Walk
<1>8. next.host \notin next.todo
  BY <1>1, NoneIsNothing DEF Run
<1>9. Walk(next)
  BY <1>1, <1>4, <1>5, <1>6, <1>7, <1>8 DEF Walk
<1> QED BY <1>9 DEF next

(* Every step of the task goes on with the walk. *)
LEMMA WalkTask ==
  ASSUME TypeOK, RunTask, RunShape(running), Walk(running)
  PROVE  Walk(running')
<1>0. running \in Run
  BY RunTaskMoves
<1>1. CASE SetupOk \/ ProbeAnswers
  BY <1>0, <1>1, WalkMovesOn DEF SetupOk, ProbeAnswers, InPhase, TaskStep
<1>2. CASE ProceedsToDeploy
  BY <1>0, <1>2, WalkMovesOn DEF ProceedsToDeploy, Adopting, InPhase, TaskStep
<1>3. CASE SetupFails \/ SkipRest
  BY <1>0, <1>3, WalkAllEnds DEF SetupFails, SkipRest, InPhase, TaskStep, Unsettled
<1>4. ASSUME NEW h \in Hosts, StartHost(h) PROVE Walk(running')
  BY <1>0, <1>4, WalkStarts DEF StartHost, InPhase, TaskStep
<1>5. ASSUME NEW o \in Outcome, HostEnds(o), running.host \in Planned(running),
             o.kind \in Kinds => running.host \in CatchUp
      PROVE  Walk(running')
  BY <1>0, <1>5, WalkHostEnds DEF HostEnds, TaskStep
<1>6. ASSUME NEW p \in {"probe", "check", "deploy", "teardown"}, InPhase(p)
      PROVE  running.host \in Planned(running)
  BY <1>6 DEF InPhase, Walk
<1>7. CASE NodeMissing \/ Holds \/ DeployFails \/ DeployCancelled
  <2>1. running.host \in Planned(running)
    BY <1>6, <1>7 DEF NodeMissing, Holds, DeployFails, DeployCancelled
  <2>2. \A kind \in Unsettled \cup {"held"} : Ended(kind) \in Outcome /\ Ended(kind).kind \notin Kinds
    BY EndedType, KindsAssumption DEF Ended, Unsettled
  <2>3. HostEnds(Ended("failed")) \/ HostEnds(Ended("held")) \/ HostEnds(Ended("cancelled"))
    BY <1>7 DEF NodeMissing, Holds, DeployFails, DeployCancelled
  <2> QED BY <1>5, <2>1, <2>2, <2>3 DEF Unsettled
<1>8. CASE ProbeMisses
  <2>1. running.host \in Planned(running) /\ running.host \in CatchUp /\ running.host \in Hosts
    BY <1>6, <1>8, OptionsAssumption DEF ProbeMisses
  <2>2. link[running.host] \in Kinds
    BY <1>8, <2>1 DEF ProbeMisses, TypeOK, Links
  <2> QED BY <1>5, <1>8, <2>1, <2>2, EndedType DEF ProbeMisses
<1>9. CASE Adopts \/ DeploySucceeds
  <2>1. running.host \in Planned(running)
    BY <1>6, <1>9 DEF Adopts, DeploySucceeds
  <2>2. \A kind \in Settled, top \in OptPath :
          /\ [kind |-> kind, toplevels |-> top] \in Outcome
          /\ [kind |-> kind, toplevels |-> top].kind \notin Kinds
    BY KindsAssumption DEF Outcome, Settled
  <2>3. \E kind \in Settled, top \in OptPath : HostEnds([kind |-> kind, toplevels |-> top])
    BY <1>9 DEF Adopts, DeploySucceeds, Settled
  <2> QED BY <1>5, <2>1, <2>2, <2>3
<1> QED BY <1>1, <1>2, <1>3, <1>4, <1>7, <1>8, <1>9 DEF RunTask

LEMMA NewRunWalks ==
  ASSUME TypeOK, NEW st \in AgentState, NEW w \in Watches
  PROVE  Walk(NewRun(st, w)) /\ Known(NewRun(st, w), st.hosts[w])
<1> DEFINE new == NewRun(st, w)
<1>1. new.phase = "setup" /\ new.host = None /\ new.outcome = [h \in Hosts |-> None]
  BY DEF NewRun
<1>2. Planned(new) \subseteq Hosts
  BY DEF Planned
<1>3. ASSUME NEW h \in Planned(new)
      PROVE  /\ h \in new.todo
             /\ new.plan[h].adopt \/ h \in new.blessed \/ st.hosts[w][h].deployed # None
  <2>1. h \in Hosts /\ new.plan[h] # None
    BY <1>3 DEF Planned
  <2>2. new.plan[h] = PlanEntry(st.hosts[w][h]) /\ h \in new.todo
        /\ (st.hosts[w][h].approved => h \in new.blessed)
    BY <2>1, NewRunPlan
  <2>3. PlanEntry(st.hosts[w][h]).adopt
        <=> ~ st.hosts[w][h].approved /\ st.hosts[w][h].deployed = None
    BY <2>1 DEF PlanEntry
  <2> QED BY <2>2, <2>3
<1>6. None \notin new.todo
  BY NewRunType, NoneIsNothing DEF Run
<1>7. \A h \in Hosts : new.outcome[h] = None
  BY <1>1
<1> HIDE DEF new
<1>4. Walk(new)
  BY <1>1, <1>3, <1>6, <1>7 DEF Walk
<1>5. Known(new, st.hosts[w])
  BY <1>3 DEF Known
<1> QED BY <1>4, <1>5 DEF new

LEMMA WalkStep ==
  TypeOK /\ TypeOK' /\ LoopInOrder /\ RunInv /\ WalkInv /\ [Next]_vars => WalkInv'
<1> SUFFICES ASSUME TypeOK, TypeOK', LoopInOrder, RunInv, WalkInv, [Next]_vars, alive',
                    running' # None
             PROVE  Walk(running') /\ Known(running', state'.hosts[running'.watch])
  BY DEF WalkInv
<1>1. CASE running = None \/ RecordsRun
  <2>1. PICK w \in Watches : running' = NewRun(state', w)
    BY <1>1, RunsBeginNew
  <2>2. running'.watch = w /\ state' \in AgentState
    BY <2>1, NewRunNeeded DEF TypeOK
  <2> QED BY <2>1, <2>2, NewRunWalks
<1>2. CASE running # None /\ ~ RecordsRun
  <2>1. running \in Run /\ running.watch \in Watches
    BY <1>2 DEF TypeOK, Run
  <2>2. ASSUME alive, Continues(running, running'), Walk(running'),
               \A w \in Watches, h \in Hosts :
                 state'.hosts[w][h].deployed = state.hosts[w][h].deployed
        PROVE  Walk(running') /\ Known(running', state'.hosts[running'.watch])
    <3>1. Planned(running') = Planned(running) /\ Planned(running) \subseteq Hosts
      BY <2>2 DEF Continues, Planned
    <3>2. Known(running, state.hosts[running.watch])
      BY <1>2, <2>2 DEF WalkInv
    <3> QED BY <2>1, <2>2, <3>1, <3>2 DEF Known, Continues
  <2>3. ASSUME alive, UNCHANGED running,
               \A w \in Watches, h \in Hosts :
                 state'.hosts[w][h].deployed = state.hosts[w][h].deployed
        PROVE  Walk(running') /\ Known(running', state'.hosts[running'.watch])
    BY <1>2, <2>1, <2>2, <2>3 DEF WalkInv, Continues
  <2>4. ASSUME NEW w \in Watches, RequestPoll(w) PROVE UNCHANGED running
    BY <1>2, <2>4 DEF RequestPoll, Coalesce, PollStartsNothing, PollStartsRun, Busy
  <2>5. CASE Environment \/ Validate \/ SelfCheckDue \/ Crash \/ Shutdown \/ UNCHANGED vars
    <3>1. UNCHANGED <<state, running>> /\ alive
      BY <2>5 DEF Environment, Push, LinkChange, InstallUpdate, DiskChange, Validate,
                  SelfCheckDue, Crash, Shutdown, process, vars
    <3> QED BY <2>3, <3>1
  <2>6. CASE StateCommands
    BY <2>3, <2>6, StateCommandEffect DEF SameStamps, process
  <2>7. CASE RunTask
    <3>1. alive /\ Continues(running, running') /\ UNCHANGED state
      BY <2>7, RunGoesOn
    <3>2. RunShape(running) /\ Walk(running)
      BY <1>2, <3>1 DEF RunInv, WalkInv
    <3> QED BY <2>2, <2>7, <3>1, <3>2, WalkTask
  <2>8. CASE CancelRun
    <3>1. alive /\ Continues(running, running') /\ UNCHANGED state
      BY <2>8, RunGoesOn
    <3>2. /\ running'.phase = running.phase /\ running'.host = running.host
          /\ running'.todo = running.todo /\ running'.plan = running.plan
          /\ running'.outcome = running.outcome
      BY <2>1, <2>8 DEF CancelRun, Run
    <3>3. Walk(running')
      BY <1>2, <3>1, <3>2 DEF WalkInv, Walk, Planned
    <3> QED BY <2>2, <3>1, <3>3
  <2>9. CASE \E w \in Watches : Kick(w) \/ PollDue(w)
    BY <2>3, <2>4, <2>9 DEF Kick, PollDue, Poll
  <2>10. ASSUME NEW v \in Watches, RecheckDue(v)
         PROVE  Walk(running') /\ Known(running', state'.hosts[running'.watch])
    <3>1. alive /\ UNCHANGED running
      BY <2>4, <2>10 DEF RecheckDue
    <3>2. ASSUME NEW w \in Watches, NEW h \in Hosts
          PROVE  state'.hosts[w][h].deployed = state.hosts[w][h].deployed
      <4>1. \A hs \in HostState, l \in Links : Reprobed(hs, l).deployed = hs.deployed
        BY DEF Reprobed, Refused, HostState
      <4>2. state.hosts[w][h] \in HostState /\ link[h] \in Links
        BY HostType DEF TypeOK
      <4> QED BY <2>10, <4>1, <4>2, ReprobedHosts
    <3> QED BY <2>3, <3>1, <3>2
  <2>11. CASE ValidateDone
    BY <1>2, <2>11 DEF ValidateDone, LoopInOrder, SingleFlight
  <2>12. CASE FinishRun
    <3>1. running' = None \/ \E w \in Watches : running' = NewRun(state', w)
      BY <2>12 DEF FinishRun, DrainPending, TypeOK, Range
    <3>2. RecordsRun
      BY <1>2, <2>12, <3>1 DEF FinishRun, RecordsRun, NewRun
    <3> QED BY <1>2, <3>2
  <2>13. CASE Restart
    BY <2>13 DEF Restart
  <2> QED BY <2>5, <2>6, <2>7, <2>8, <2>9, <2>10, <2>11, <2>12, <2>13, NextCases
<1> QED BY <1>1, <1>2

LEMMA WalkAlways == Spec => [](RunInv /\ WalkInv)
<1>1. Init => RunInv /\ WalkInv
  BY LedgerInit DEF LedgerInv, Init, WalkInv
<1>2. LedgerInv => RunInv
  BY DEF LedgerInv
<1>3. Spec => []LedgerInv
  BY InitType, TypeStep, LedgerInit, LedgerStep, PTL DEF Spec
<1> QED BY <1>1, <1>2, <1>3, TypeCorrect, LoopCorrect, WalkStep, PTL DEF Spec

(* A host this agent never deployed is deployed only with the operator's   *)
(* approval, given before the run began, or where bootstrap says so.       *)
THEOREM FirstContactAlwaysHeld == Spec => []FirstContactHeld
<1>1. TypeOK /\ WalkInv => FirstContactHeld
  <2> SUFFICES ASSUME TypeOK, WalkInv, alive, running # None,
                      running.phase \in {"deploy", "teardown"}
               PROVE  \/ state.hosts[running.watch][running.host].deployed # None
                      \/ running.host \in running.blessed \cup Bootstrap
    BY DEF FirstContactHeld, InPhase
  <2>1. running.host \in Planned(running)
    BY DEF WalkInv, Walk
  <2> QED BY <2>1 DEF WalkInv, Walk, Known
<1> QED BY <1>1, TypeCorrect, WalkAlways, PTL

(* Every outcome gives the host its verdict at the run's revision. *)
LEMMA VerdictRecorded ==
  ASSUME NEW hs \in HostState, NEW o \in Outcome, NEW rev \in Revs
  PROVE  LET after == ApplyOutcome(hs, o, rev)
         IN  \/ rev \in {after.deployed, after.failed, after.held}
             \/ o.kind \in Kinds /\ after.offline # None /\ after.offline.rev = rev
<1>1. o.kind \in Settled \cup Unsettled \cup {"held"} \cup Kinds
  BY DEF Outcome
<1>2. CASE o.kind \in Settled
  BY <1>2, KindsAssumption DEF ApplyOutcome, Succeeded, Settled, Unsettled, HostState
<1>3. CASE o.kind = "held"
  BY <1>3, KindsAssumption DEF ApplyOutcome, HeldAt, Settled, Unsettled, HostState
<1>4. CASE o.kind \in Unsettled
  BY <1>4, KindsAssumption DEF ApplyOutcome, ParkedAt, Settled, Unsettled, HostState
<1>5. CASE o.kind \in Kinds
  <2>1. ApplyOutcome(hs, o, rev) = PendingAt(hs, rev, o.kind)
    BY <1>5, KindsAssumption DEF ApplyOutcome, Settled, Unsettled
  <2>2. [rev |-> rev, kind |-> o.kind] \in OfflineStamp
    BY <1>5 DEF OfflineStamp
  <2> QED BY <1>5, <2>1, <2>2, NoneAssumption DEF PendingAt, HostState
<1> QED BY <1>1, <1>2, <1>3, <1>4, <1>5

(* A run that is recorded, cancelled or not, leaves no planned host        *)
(* without a verdict at its revision.                                      *)
THEOREM CancelLeavesVerdicts == Spec => CancelSettles
<1>1. ASSUME TypeOK, LoopInOrder, RunInv, WalkInv, [Next]_vars, RecordsRun,
             NEW h \in Hosts, running.plan[h] # None
      PROVE  LET after == state'.hosts[running.watch][h]
             IN  \/ running.rev \in {after.deployed, after.failed, after.held}
                 \/ h \in CatchUp /\ after.offline # None /\ after.offline.rev = running.rev
  <2>1. FinishRun
    BY <1>1, RunsEndRecorded
  <2>2. running \in Run /\ running.watch \in Watches /\ running.rev \in Revs
    BY <1>1 DEF RecordsRun, TypeOK, Run
  <2>3. Walk(running) /\ running.phase = "done"
    BY <1>1 DEF RecordsRun, WalkInv
  <2>4. h \in Planned(running)
    BY <1>1 DEF Planned
  <2>5. running.outcome[h] # None /\ (running.outcome[h].kind \in Kinds => h \in CatchUp)
    BY <2>3, <2>4, NoneIsNothing DEF Walk
  <2>6. running.outcome[h] \in Outcome
    BY <2>2, <2>5 DEF Run
  <2>7. state'.hosts[running.watch][h] =
          ApplyOutcome(state.hosts[running.watch][h], running.outcome[h], running.rev)
    BY <1>1, <2>1, <2>2, <2>5, RecordedHosts
  <2>8. state.hosts[running.watch][h] \in HostState
    BY <1>1, <2>2, HostType
  <2> QED BY <2>2, <2>5, <2>6, <2>7, <2>8, VerdictRecorded
<1>2. TypeOK /\ LoopInOrder /\ RunInv /\ WalkInv /\ [Next]_vars =>
        [RecordsRun /\ running.cancel =>
           \A h \in Hosts : running.plan[h] # None =>
              LET after == state'.hosts[running.watch][h]
              IN  \/ running.rev \in {after.deployed, after.failed, after.held}
                  \/ /\ h \in CatchUp
                     /\ after.offline # None
                     /\ after.offline.rev = running.rev]_vars
  BY <1>1
<1> QED BY <1>2, TypeCorrect, LoopCorrect, WalkAlways, PTL DEF Spec, CancelSettles

-----------------------------------------------------------------------------
(* No same-commit retry.  A failure the task reports is the run's own until *)
(* RunDone; from then on the park stamp carries it, and no approval stands *)
(* beside the stamp that did not come after it.                            *)

Unrecorded(w, h) ==
  /\ alive /\ running # None /\ running.watch = w
  /\ running.outcome[h] # None /\ running.outcome[h].kind # "held"

BurnInv ==
  \A w \in Watches, h \in Hosts : burned[w][h] # None =>
    IF Unrecorded(w, h)
    THEN running.rev = burned[w][h] /\ running.outcome[h].kind \in Unsettled
    ELSE state.hosts[w][h].failed = burned[w][h] /\ ~ state.hosts[w][h].approved

LEMMA BurnedNext ==
  ASSUME [RoundsNext]_roundVars, NEW w \in Watches, NEW h \in Hosts
  PROVE  burned'[w][h] = Burn(w, h)
<1>1. CASE RoundsNext
  BY <1>1 DEF RoundsNext
<1>2. CASE UNCHANGED roundVars
  <2>1. UNCHANGED <<alive, state, running, burned>>
    BY <1>2 DEF roundVars, vars, process
  <2>2. ~ RoundEnds(w, h) /\ ~ GrantsRound(w, h) /\ ~ DiesUnrecorded(w, h)
    BY <2>1 DEF RoundEnds, GrantsRound, DiesUnrecorded
  <2> QED BY <2>1, <2>2 DEF Burn
<1> QED BY <1>1, <1>2

(* The task gives outcomes and takes none back. *)
LEMMA OutcomesStay ==
  ASSUME TypeOK, RunTask \/ CancelRun, RunShape(running), Walk(running),
         NEW h \in Hosts, running.outcome[h] # None
  PROVE  running'.outcome[h] = running.outcome[h]
<1>0. running \in Run
  BY RunGoesOn
<1>1. h \notin running.todo /\ h # running.host
  BY DEF Walk
<1>2. CASE CancelRun
  BY <1>0, <1>2 DEF CancelRun, Run
<1>3. ASSUME NEW o, HostEnds(o) PROVE running'.outcome[h] = running.outcome[h]
  BY <1>0, <1>1, <1>3 DEF HostEnds, TaskStep, Run
<1>4. CASE NodeMissing \/ ProbeMisses \/ Adopts \/ Holds \/ DeploySucceeds \/ DeployFails
           \/ DeployCancelled
  BY <1>3, <1>4 DEF NodeMissing, ProbeMisses, Adopts, Holds, DeploySucceeds, DeployFails,
                    DeployCancelled
<1>5. CASE SetupFails \/ SkipRest
  <2>1. \A kind : AllEnd(running, running.todo, kind).outcome[h] = running.outcome[h]
    BY <1>0, <1>1 DEF AllEnd, Run
  <2> QED BY <1>5, <2>1 DEF SetupFails, SkipRest, TaskStep
<1>6. CASE SetupOk \/ ProbeAnswers \/ ProceedsToDeploy
  BY <1>0, <1>6 DEF SetupOk, ProbeAnswers, ProceedsToDeploy, TaskStep, Run
<1>7. ASSUME NEW g \in Hosts, StartHost(g) PROVE running'.outcome[h] = running.outcome[h]
  BY <1>0, <1>7 DEF StartHost, TaskStep, Run
<1> QED BY <1>2, <1>4, <1>5, <1>6, <1>7 DEF RunTask

(* A recorded run is gone: a new one is in its set-up. *)
LEMMA FinishRunMoves == FinishRun => running' # running
<1> SUFFICES ASSUME FinishRun PROVE running' # running
  OBVIOUS
<1>1. running # None /\ running.phase = "done"
  BY DEF FinishRun
<1>2. CASE running' = None
  BY <1>1, <1>2
<1>3. ASSUME NEW w, running' = NewRun(state', w) PROVE running' # running
  BY <1>1, <1>3 DEF NewRun
<1> QED BY <1>2, <1>3 DEF FinishRun, DrainPending

(* What becomes of the run in flight. *)
LEMMA RunCases ==
  ASSUME TypeOK, LoopInOrder, [Next]_vars, running # None
  PROVE  \/ RunTask \/ CancelRun
         \/ FinishRun /\ (running' = None \/ \E w \in Watches : running' = NewRun(state', w))
         \/ Restart
         \/ UNCHANGED running /\ ~ FinishRun
<1>1. CASE Environment \/ Validate \/ SelfCheckDue \/ Crash \/ Shutdown \/ UNCHANGED vars
  <2>1. UNCHANGED running
    BY <1>1 DEF Environment, Push, LinkChange, InstallUpdate, DiskChange, Validate,
                SelfCheckDue, Crash, Shutdown, process, vars
  <2> QED BY <2>1, FinishRunMoves
<1>2. CASE StateCommands
  BY <1>2, StateCommandEffect, FinishRunMoves DEF process
<1>3. ASSUME NEW w \in Watches, RequestPoll(w) PROVE UNCHANGED running
  BY <1>3 DEF RequestPoll, Coalesce, PollStartsNothing, PollStartsRun, Busy
<1>4. CASE \E w \in Watches : Kick(w) \/ PollDue(w) \/ RecheckDue(w)
  BY <1>3, <1>4, FinishRunMoves DEF Kick, PollDue, Poll, RecheckDue
<1>5. CASE ValidateDone
  BY <1>5 DEF ValidateDone, LoopInOrder, SingleFlight
<1>6. CASE FinishRun
  <2>1. Range(pending) \subseteq Watches
    BY DEF TypeOK, Range
  <2>2. running' = None \/ \E w \in Range(pending) : running' = NewRun(state', w)
    BY <1>6 DEF FinishRun, DrainPending
  <2> QED BY <1>6, <2>1, <2>2
<1> QED BY <1>1, <1>2, <1>4, <1>5, <1>6, NextCases

(* Only RunDone and loading touch a park stamp, and only the operator's    *)
(* word sets approved.                                                     *)
LEMMA ParkKept ==
  ASSUME TypeOK, [Next]_vars, ~ FinishRun, ~ Restart, NEW w \in Watches, NEW h \in Hosts
  PROVE  /\ state'.hosts[w][h].failed = state.hosts[w][h].failed
         /\ ~ alive => state'.hosts[w][h].approved = state.hosts[w][h].approved
<1>1. CASE UNCHANGED state
  BY <1>1
<1>2. CASE StateCommands
  BY <1>2, StateCommandEffect DEF SameStamps
<1>3. ASSUME NEW v \in Watches, RecheckDue(v)
      PROVE  alive /\ state'.hosts[w][h].failed = state.hosts[w][h].failed
  <2>1. \A hs \in HostState, l \in Links : Reprobed(hs, l).failed = hs.failed
    BY DEF Reprobed, Refused, HostState
  <2>2. state.hosts[w][h] \in HostState /\ link[h] \in Links
    BY HostType DEF TypeOK
  <2>3. state'.hosts[w][h] = state.hosts[w][h]
        \/ state'.hosts[w][h] = Reprobed(state.hosts[w][h], link[h])
    BY <1>3, ReprobedHosts
  <2> QED BY <1>3, <2>1, <2>2, <2>3 DEF RecheckDue
<1>4. CASE Environment \/ Validate \/ ValidateDone \/ SelfCheckDue \/ Crash \/ Shutdown
           \/ UNCHANGED vars
  BY <1>1, <1>4 DEF Environment, Push, LinkChange, InstallUpdate, DiskChange, Validate,
                    ValidateDone, SelfCheckDue, Crash, Shutdown, vars
<1>5. CASE RunTask \/ CancelRun
  BY <1>1, <1>5, RunGoesOn
<1>6. CASE \E v \in Watches : Kick(v) \/ PollDue(v)
  BY <1>1, <1>6 DEF Kick, PollDue, Poll
<1> QED BY <1>2, <1>3, <1>4, <1>5, <1>6, NextCases

(* A recorded failure is the park it stands for; a hold leaves the park.   *)
LEMMA RecordedPark ==
  ASSUME NEW hs \in HostState, NEW o \in Outcome, NEW rev \in Revs
  PROVE  /\ o.kind \in Unsettled => /\ ApplyOutcome(hs, o, rev).failed = rev
                                     /\ ~ ApplyOutcome(hs, o, rev).approved
         /\ o.kind = "held" => /\ ApplyOutcome(hs, o, rev).failed = hs.failed
                               /\ ApplyOutcome(hs, o, rev).approved = hs.approved
<1>1. CASE o.kind \in Unsettled
  <2>1. ApplyOutcome(hs, o, rev) = ParkedAt(hs, rev)
    BY <1>1, KindsAssumption DEF ApplyOutcome, Settled, Unsettled
  <2> QED BY <1>1, <2>1 DEF ParkedAt, HostState, Unsettled
<1>2. CASE o.kind = "held"
  <2>1. ApplyOutcome(hs, o, rev) = HeldAt(hs, rev)
    BY <1>2, KindsAssumption DEF ApplyOutcome, Settled, Unsettled
  <2> QED BY <1>2, <2>1 DEF HeldAt, HostState, Unsettled
<1> QED BY <1>1, <1>2

(* What a restart finds of a park. *)
LEMMA RestartPark ==
  ASSUME TypeOK, LedgerConsistent, Restart, disk = state, NEW w \in Watches, NEW h \in Hosts
  PROVE  /\ state'.hosts[w][h].failed = state.hosts[w][h].failed
         /\ state'.hosts[w][h].approved = state.hosts[w][h].approved
<1>1. PICK known \in SUBSET Watches : state' = Validated(Loaded(disk), known)
  BY DEF Restart
<1>2. disk.hosts[w][h] \in HostState /\ Consistent(disk.hosts[w][h])
  BY DEF TypeOK, AgentState, LedgerConsistent
<1>3. Loaded(disk).hosts[w][h] = disk.hosts[w][h]
  <2>1. Loaded(disk).hosts[w][h] = DropSupersededParks(disk.hosts[w][h])
    BY DEF Loaded, TypeOK, AgentState
  <2> QED BY <1>2, <2>1, LoadKeepsConsistent
<1>4. state'.hosts[w][h] = Loaded(disk).hosts[w][h]
      \/ state'.hosts[w][h] = Startup(Loaded(disk).hosts[w][h], link[h])
  <2>1. Loaded(disk) \in AgentState
    BY DropSupersededParksType DEF Loaded, TypeOK, AgentState
  <2> QED BY <1>1, <2>1 DEF Validated, AgentState
<1>5. \A hs \in HostState, l \in Links : /\ Startup(hs, l).failed = hs.failed
                                        /\ Startup(hs, l).approved = hs.approved
  BY DEF Startup, Refused, HostState
<1>6. link[h] \in Links
  BY DEF TypeOK
<1> QED BY <1>2, <1>3, <1>4, <1>5, <1>6

(* The commit a host went wrong at stays burned unless the step says why   *)
(* not.                                                                    *)
LEMMA BurnKept ==
  ASSUME NEW w \in Watches, NEW h \in Hosts, Burn(w, h) # None, ~ RoundEnds(w, h)
  PROVE  /\ Burn(w, h) = burned[w][h]
         /\ ~ GrantsRound(w, h) /\ ~ DiesUnrecorded(w, h)
BY DEF Burn

LEMMA BurnRoundEnds ==
  ASSUME TypeOK, TypeOK', LoopInOrder, RunInv, WalkInv, BurnInv, [Next]_vars,
         NEW w \in Watches, NEW h \in Hosts, RoundEnds(w, h), Burn(w, h) # None
  PROVE  IF Unrecorded(w, h)'
         THEN running'.rev = Burn(w, h) /\ running'.outcome[h].kind \in Unsettled
         ELSE state'.hosts[w][h].failed = Burn(w, h) /\ ~ state'.hosts[w][h].approved
<1>1. /\ running # None /\ running.watch = w /\ running.outcome[h] = None
      /\ running' # None /\ running'.outcome[h] # None
  BY DEF RoundEnds
<1>2. \A v : NewRun(state', v).outcome[h] = None
  BY DEF NewRun
<1>3. RunTask \/ CancelRun
  BY <1>1, <1>2, RunCases DEF Restart
<1>4. /\ alive /\ UNCHANGED state /\ running'.watch = w /\ running'.rev = running.rev
      /\ running' \in Run
  BY <1>1, <1>3, RunGoesOn DEF Continues
<1>5. alive'
  BY <1>1, <1>3, <1>4, RunGoesOn DEF AfterCommand, Idle, Busy
<1>6. running'.outcome[h].kind \in Settled \cup Unsettled \cup {"held"} \cup Kinds
  BY <1>1, <1>4 DEF Run, Outcome
<1>7. CASE running'.outcome[h].kind \in Unsettled
  <2>1. Burn(w, h) = running.rev
    BY <1>7 DEF Burn
  <2>2. running'.outcome[h].kind # "held"
    BY <1>7 DEF Unsettled
  <2> QED BY <1>1, <1>4, <1>5, <1>7, <2>1, <2>2 DEF Unrecorded
<1>8. CASE running'.outcome[h].kind \in Settled \cup Kinds
  BY <1>8, KindsAssumption DEF Burn, Settled, Unsettled
<1>9. CASE running'.outcome[h].kind = "held"
  <2>1. Burn(w, h) = burned[w][h]
    BY <1>9, KindsAssumption DEF Burn, Settled, Unsettled
  <2>2. ~ Unrecorded(w, h) /\ ~ Unrecorded(w, h)'
    BY <1>1, <1>9 DEF Unrecorded
  <2> QED BY <1>4, <2>1, <2>2 DEF BurnInv
<1> QED BY <1>6, <1>7, <1>8, <1>9

LEMMA BurnFinishRun ==
  ASSUME TypeOK, BurnInv, FinishRun, NEW w \in Watches, NEW h \in Hosts, burned[w][h] # None
  PROVE  /\ ~ Unrecorded(w, h)'
         /\ state'.hosts[w][h].failed = burned[w][h] /\ ~ state'.hosts[w][h].approved
<1>1. /\ alive /\ running \in Run /\ running # None
      /\ running.watch \in Watches /\ running.rev \in Revs
  BY DEF FinishRun, TypeOK, Run
<1>2. \A v : NewRun(state', v).outcome[h] = None
  BY DEF NewRun
<1>3. ~ Unrecorded(w, h)'
  BY <1>2 DEF FinishRun, DrainPending, Unrecorded
<1>4. CASE w = running.watch /\ running.outcome[h] # None
  <2>1. /\ running.outcome[h] \in Outcome /\ state.hosts[w][h] \in HostState
        /\ state'.hosts[w][h] = ApplyOutcome(state.hosts[w][h], running.outcome[h], running.rev)
    BY <1>1, <1>4, RecordedHosts, HostType DEF Run
  <2>2. CASE running.outcome[h].kind = "held"
    <3>1. ~ Unrecorded(w, h)
      BY <2>2 DEF Unrecorded
    <3> QED BY <1>1, <1>3, <2>1, <2>2, <3>1, RecordedPark DEF BurnInv
  <2>3. CASE running.outcome[h].kind # "held"
    <3>1. Unrecorded(w, h)
      BY <1>1, <1>4, <2>3 DEF Unrecorded
    <3>2. running.rev = burned[w][h] /\ running.outcome[h].kind \in Unsettled
      BY <3>1 DEF BurnInv
    <3> QED BY <1>1, <1>3, <2>1, <3>2, RecordedPark
  <2> QED BY <2>2, <2>3
<1>5. CASE ~ (w = running.watch /\ running.outcome[h] # None)
  <2>1. ~ Unrecorded(w, h) /\ state'.hosts[w][h] = state.hosts[w][h]
    BY <1>5, RecordedHosts DEF Unrecorded
  <2> QED BY <1>3, <2>1 DEF BurnInv
<1> QED BY <1>4, <1>5

LEMMA AliveKept ==
  ASSUME TypeOK, [Next]_vars, ~ Restart, alive'
  PROVE  alive
<1>1. CASE Environment \/ UNCHANGED vars
  BY <1>1 DEF Environment, Push, LinkChange, InstallUpdate, DiskChange, vars
<1>2. CASE Validate \/ ValidateDone \/ FinishRun \/ SelfCheckDue \/ Crash \/ Shutdown
  BY <1>2 DEF Validate, ValidateDone, FinishRun, SelfCheckDue, Crash, Shutdown
<1>3. CASE StateCommands \/ RunTask \/ CancelRun
  BY <1>3, StateCommandEffect, RunGoesOn
<1>4. CASE \E v \in Watches : Kick(v) \/ PollDue(v) \/ RecheckDue(v)
  BY <1>4 DEF Kick, PollDue, RecheckDue
<1> QED BY <1>1, <1>2, <1>3, <1>4, NextCases

LEMMA BurnOther ==
  ASSUME TypeOK, LoopInOrder, RunInv, WalkInv, BurnInv, [Next]_vars, ~ FinishRun, ~ Restart,
         NEW w \in Watches, NEW h \in Hosts, burned[w][h] # None,
         ~ RoundEnds(w, h), ~ GrantsRound(w, h), ~ DiesUnrecorded(w, h)
  PROVE  IF Unrecorded(w, h)'
         THEN running'.rev = burned[w][h] /\ running'.outcome[h].kind \in Unsettled
         ELSE state'.hosts[w][h].failed = burned[w][h] /\ ~ state'.hosts[w][h].approved
<1>1. ASSUME RunTask \/ CancelRun
      PROVE  /\ alive /\ alive' /\ running # None /\ running' # None
             /\ running'.watch = running.watch /\ running'.rev = running.rev
             /\ running.watch = w => running'.outcome[h] = running.outcome[h]
  <2>1. /\ alive /\ running # None /\ running' # None
        /\ running'.watch = running.watch /\ running'.rev = running.rev
    BY <1>1, RunGoesOn DEF Continues
  <2>2. alive'
    BY <1>1, <2>1, RunGoesOn DEF AfterCommand, Idle, Busy
  <2>3. ASSUME running.outcome[h] # None PROVE running'.outcome[h] = running.outcome[h]
    BY <1>1, <2>1, <2>3, OutcomesStay DEF RunInv, WalkInv
  <2>4. ASSUME running.outcome[h] = None, running.watch = w PROVE running'.outcome[h] = None
    BY <2>1, <2>4 DEF RoundEnds
  <2> QED BY <2>1, <2>2, <2>3, <2>4
<1>2. CASE Unrecorded(w, h)
  <2>1. /\ alive /\ running # None /\ running.watch = w /\ running.outcome[h] # None
        /\ running.rev = burned[w][h] /\ running.outcome[h].kind \in Unsettled
    BY <1>2 DEF Unrecorded, BurnInv
  <2>2. CASE RunTask \/ CancelRun
    BY <1>1, <1>2, <2>1, <2>2 DEF Unrecorded
  <2>3. CASE UNCHANGED running
    <3>1. alive'
      BY <2>1, <2>3 DEF DiesUnrecorded
    <3> QED BY <1>2, <2>1, <2>3, <3>1 DEF Unrecorded
  <2> QED BY <2>1, <2>2, <2>3, RunCases
<1>3. CASE ~ Unrecorded(w, h)
  <2>1. alive' => alive
    BY AliveKept
  <2>2. ASSUME Unrecorded(w, h)' PROVE FALSE
    <3>1. /\ alive /\ running' # None /\ running'.watch = w
          /\ running'.outcome[h] # None /\ running'.outcome[h].kind # "held"
      BY <2>1, <2>2 DEF Unrecorded
    <3>2. CASE running = None
      <4>1. \A v : NewRun(state', v).outcome[h] = None
        BY DEF NewRun
      <4> QED BY <3>1, <3>2, <4>1, RunsBeginNew
    <3>3. CASE running # None
      <4>1. CASE RunTask \/ CancelRun
        BY <1>1, <1>3, <3>1, <4>1 DEF Unrecorded
      <4>2. CASE UNCHANGED running
        BY <1>3, <3>1, <4>2 DEF Unrecorded
      <4> QED BY <3>3, <4>1, <4>2, RunCases
    <3> QED BY <3>2, <3>3
  <2>3. state.hosts[w][h].failed = burned[w][h] /\ ~ state.hosts[w][h].approved
    BY <1>3 DEF BurnInv
  <2>4. ~ state'.hosts[w][h].approved
    BY <2>3, ParkKept DEF GrantsRound
  <2> QED BY <2>2, <2>3, <2>4, ParkKept
<1> QED BY <1>2, <1>3

LEMMA BurnStep ==
  ASSUME TypeOK, TypeOK', LoopInOrder, LedgerInv, WalkInv, SavedInv, ~ DiskFills, BurnInv,
         [RoundsNext]_roundVars
  PROVE  BurnInv'
<1>1. [Next]_vars
  BY DEF RoundsNext, roundVars
<1>2. RunInv /\ LedgerConsistent /\ disk = state
  BY DEF LedgerInv, SavedInv
<1>3. ASSUME NEW w \in Watches, NEW h \in Hosts, Burn(w, h) # None
      PROVE  IF Unrecorded(w, h)'
             THEN running'.rev = Burn(w, h) /\ running'.outcome[h].kind \in Unsettled
             ELSE state'.hosts[w][h].failed = Burn(w, h) /\ ~ state'.hosts[w][h].approved
  <2>1. CASE RoundEnds(w, h)
    BY <1>1, <1>2, <1>3, <2>1, BurnRoundEnds
  <2>2. CASE ~ RoundEnds(w, h)
    <3>1. /\ Burn(w, h) = burned[w][h] /\ burned[w][h] # None
          /\ ~ GrantsRound(w, h) /\ ~ DiesUnrecorded(w, h)
      BY <1>3, <2>2, BurnKept
    <3>2. CASE FinishRun
      BY <3>1, <3>2, BurnFinishRun
    <3>3. CASE Restart
      <4>1. ~ Unrecorded(w, h) /\ ~ Unrecorded(w, h)'
        BY <3>3 DEF Restart, Unrecorded
      <4>2. state.hosts[w][h].failed = burned[w][h] /\ ~ state.hosts[w][h].approved
        BY <3>1, <4>1 DEF BurnInv
      <4> QED BY <1>2, <3>1, <3>3, <4>1, <4>2, RestartPark
    <3>4. CASE ~ FinishRun /\ ~ Restart
      BY <1>1, <1>2, <2>2, <3>1, <3>4, BurnOther
    <3> QED BY <3>2, <3>3, <3>4
  <2> QED BY <2>1, <2>2
<1> QED BY <1>3, BurnedNext DEF BurnInv

(* A new run plans no host at the commit that is burned for it, and no      *)
(* commit is burned under a round that has still to begin.                 *)
LEMMA NewRoundStep ==
  ASSUME TypeOK, TypeOK', LoopInOrder, LedgerInv, WalkInv, SavedInv, ~ DiskFills,
         BurnInv, BurnInv', NoSameCommitRetry, [RoundsNext]_roundVars
  PROVE  NoSameCommitRetry'
<1> SUFFICES ASSUME alive', running' # None, NEW h \in Hosts,
                    running'.plan[h] # None, running'.outcome[h] = None
             PROVE  burned'[running'.watch][h] # running'.rev
  BY DEF NoSameCommitRetry
<1>1. [Next]_vars /\ RunInv
  BY DEF RoundsNext, roundVars, LedgerInv
<1>2. running' \in Run /\ running'.watch \in Watches /\ running'.rev # None
  BY NoneAssumption DEF TypeOK, Run
<1>3. ASSUME NEW w \in Watches, running' = NewRun(state', w)
      PROVE  burned'[running'.watch][h] # running'.rev
  <2>1. running'.watch = w /\ state' \in AgentState
    BY <1>3, NewRunNeeded DEF TypeOK
  <2>2. Eligible(state'.hosts[w][h], running'.rev)
    BY <1>3, <2>1, NewRunPlan
  <2>3. ~ Unrecorded(w, h)'
    BY DEF Unrecorded
  <2> QED BY <1>2, <2>1, <2>2, <2>3 DEF BurnInv, Eligible
<1>4. CASE running = None
  BY <1>1, <1>3, <1>4, RunsBeginNew
<1>5. CASE running # None
  <2>1. ASSUME alive, running'.watch = running.watch, running'.rev = running.rev,
               running'.plan = running.plan, running.outcome[h] = None
        PROVE  burned'[running'.watch][h] # running'.rev
    <3>1. burned[running.watch][h] # running.rev
      BY <1>5, <2>1 DEF NoSameCommitRetry
    <3>2. ~ RoundEnds(running.watch, h)
      BY DEF RoundEnds
    <3>3. Burn(running.watch, h) \in {None, burned[running.watch][h]}
      BY <1>2, <2>1, <3>2, BurnKept
    <3> QED BY <1>2, <2>1, <3>1, <3>3, BurnedNext
  <2>2. CASE RunTask \/ CancelRun
    <3>1. alive /\ Continues(running, running')
      BY <2>2, RunGoesOn
    <3>2. running.outcome[h] = None
      BY <1>1, <1>5, <2>2, <3>1, OutcomesStay DEF RunInv, WalkInv
    <3> QED BY <2>1, <3>1, <3>2 DEF Continues
  <2>3. CASE FinishRun
    <3>1. \E w \in Range(pending) : running' = NewRun(state', w)
      BY <2>3 DEF FinishRun, DrainPending
    <3>2. Range(pending) \subseteq Watches
      BY DEF TypeOK, Range
    <3> QED BY <1>3, <3>1, <3>2
  <2>4. CASE UNCHANGED running /\ ~ FinishRun /\ ~ Restart
    <3>1. alive
      BY <1>1, <2>4, AliveKept
    <3> QED BY <2>1, <2>4, <3>1
  <2>5. CASE Restart
    BY <2>5 DEF Restart
  <2> QED BY <1>1, <1>5, <2>2, <2>3, <2>4, <2>5, RunCases
<1> QED BY <1>4, <1>5

(* No same-commit retry, for any watches, hosts, events and length of      *)
(* history: where the state file can be written, a host whose last round   *)
(* at a commit failed or was cancelled has no other round at it before an  *)
(* approval, a success, a pending round or a death that lost the record.   *)
THEOREM RoundsArePaidFor == RoundsSpec => [](~ DiskFills => NoSameCommitRetry)
<1> DEFINE I == DiskFills \/ (BurnInv /\ NoSameCommitRetry)
<1>1. RoundsInit => I
  <2>1. RoundsInit => BurnInv
    BY DEF RoundsInit, BurnInv
  <2>2. RoundsInit => NoSameCommitRetry
    BY DEF RoundsInit, Init, NoSameCommitRetry
  <2> QED BY <2>1, <2>2
<1>2. TypeOK /\ TypeOK' /\ LoopInOrder /\ LedgerInv /\ RunInv /\ WalkInv /\ SavedInv /\ I
      /\ [RoundsNext]_roundVars => I'
  BY BurnStep, NewRoundStep
<1>3. RoundsSpec => Spec
  <2>1. RoundsInit => Init
    BY DEF RoundsInit
  <2>2. [RoundsNext]_roundVars => [Next]_vars
    BY DEF RoundsNext, roundVars
  <2> QED BY <2>1, <2>2, PTL DEF RoundsSpec, Spec
<1>4. Init => SavedInv
  BY DEF Init, SavedInv
<1>5. I => (~ DiskFills => NoSameCommitRetry)
  OBVIOUS
<1> HIDE DEF I
<1>6. Spec => [](TypeOK /\ LoopInOrder /\ LedgerInv /\ RunInv /\ WalkInv /\ SavedInv)
  BY <1>4, TypeCorrect, LoopCorrect, LedgerInvAlways, WalkAlways, SavedStep, PTL DEF Spec
<1> QED BY <1>1, <1>2, <1>3, <1>5, <1>6, PTL DEF RoundsSpec
=============================================================================
