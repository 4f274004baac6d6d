----------------------------- MODULE AgentView -----------------------------
(***************************************************************************)
(* The TUI's agent view (app.rs, agentclient.rs) against the agents it     *)
(* shows (api.rs, client.rs): status fetches, the log's backfill and live  *)
(* tail, verbs, discovery, and the two logs that share one set of fields.  *)
(*                                                                         *)
(* A verb is a task that runs the remote CLI once, takes effect and reads  *)
(* the agent in one step (Exec), and sends its report to the one bounded   *)
(* channel the event loop drains; a backfill asks for the runs and then    *)
(* for the log of one after the other (ExecHistory, ExecLog).  Agents go   *)
(* down and come back, replies are lost, keys are pressed, and agents run  *)
(* and log, as often as the budget of the behaviour allows.  An agent has  *)
(* one watch, and a run leaves there what it said.  A log line is its agent, its number    *)
(* there, and whether it came by the tail; a line of the TUI's own has     *)
(* agent None.                                                             *)
(***************************************************************************)
EXTENDS Naturals, Sequences, FiniteSets, SequencesExt, FiniteSetsExt

TaskBag == INSTANCE BagsExt

CONSTANTS
  None, Agents, Hosts,
  Rows,        \* the hosts an agent lists, in order
  Capacity, LogCap, HistoryCap, MaxLines,
  Scenarios    \* the agents of the settings file, and the keys, verbs, runs,
               \* lines and faults of a behaviour

ASSUME BoundsAssumption ==
  /\ {Capacity, LogCap, HistoryCap} \subseteq Nat \ {0}
  /\ MaxLines \in Nat
  /\ \A scenario \in Scenarios :
       /\ scenario.agents \in Seq(Agents)
       /\ scenario.budget \in [keys : Nat, ops : Nat, runs : Nat, lines : 0..MaxLines,
                               faults : Nat]

ASSUME AgentsAssumption == IsFiniteSet(Agents) /\ None \notin Agents

VARIABLES
  server,   \* per agent: up, running, paused, approved, lines said, runs stored
  agents,   \* AgentUi.agents
  view,     \* the rest of AgentUi
  log,      \* App.log: the agent's log while the view is open
  stash,    \* AgentUi.log_state: the other one
  tails,    \* the tail tasks that run, and the one the view holds
  tasks,    \* the bag of verbs spawned and not yet executed
  reply,    \* the report of the verb that has the ssh gate, if one is on its way
  updates,  \* the channel status_rx
  budget,   \* what is left of it
  warned    \* history: the hosts whose approval warning was on screen

vars == << server, agents, view, log, stash, tails, tasks, reply, updates, budget, warned >>
client == << agents, view, log, stash, tails, tasks, warned >>
channel == << reply, updates >>

----------------------------------------------------------------------------
(* What the view shows *)

Current == IF view.current \in DOMAIN agents THEN agents[view.current] ELSE None

AgentLog == IF view.open THEN log ELSE stash
MainLog  == IF view.open THEN stash ELSE log

LastOf(seq, k) == IF Len(seq) > k THEN SubSeq(seq, Len(seq) - k + 1, Len(seq)) ELSE seq

Capped(lines) == LastOf(lines, LogCap)

SetAgentLog(lines) ==
  IF view.open THEN log' = Capped(lines) /\ UNCHANGED stash
               ELSE stash' = Capped(lines) /\ UNCHANGED log

\* Application lines go to the main log, wherever it is.
PushMain == Capped(Append(MainLog, [agent |-> None, n |-> 0, live |-> FALSE]))

\* Mutant of PushLog: into the field that is the main log on the main screen.
PushLogToField == log' = Capped(Append(log, [agent |-> None, n |-> 0, live |-> FALSE]))
                  /\ UNCHANGED stash

PushLog  ==
  IF view.open THEN stash' = PushMain /\ UNCHANGED log
               ELSE log' = PushMain /\ UNCHANGED stash

HostRows == IF view.status = None THEN << >> ELSE Rows
Selected == IF view.sel \in DOMAIN HostRows THEN HostRows[view.sel] ELSE None

----------------------------------------------------------------------------
(* What handlers spawn *)

StatusTask(agent)  == [verb |-> "status", agent |-> agent]
HistoryTask(agent) == [verb |-> "history", agent |-> agent]
LogTask(agent, runs, lines) == [verb |-> "log", agent |-> agent, runs |-> runs, lines |-> lines]
OpTask(agent, verb, host, args) ==
  [verb |-> verb, agent |-> agent, host |-> host, args |-> args]
ScanTask == [verb |-> "scan"]

\* A fetch is asked for and marked as under way.
Fetch(v, agent) == IF agent = None THEN v ELSE [v EXCEPT !.loading = TRUE]
Fetches(agent)  == IF agent = None THEN EmptyBag ELSE SetToBag({StatusTask(agent)})

\* One history fetch per opening and agent.
Backfill(v)         == [v EXCEPT !.backfilled = TRUE]
Backfills(v, agent) ==
  IF v.backfilled \/ agent = None THEN EmptyBag ELSE SetToBag({HistoryTask(agent)})

\* The tail the view holds is aborted; a new one subscribes to what the agent
\* says from now on.
Subscribe(agent)  == server[agent].said
StopTail == [running |-> {t \in tails.running : t # tails.held}, held |-> None]

\* Mutant of StartTail: the old tail is dropped, not aborted.
StartTailOnly(agent) ==
  LET tail == [agent |-> agent, at |-> IF server[agent].up THEN Subscribe(agent) ELSE None]
  IN  IF agent = None THEN tails ELSE [running |-> tails.running \cup {tail}, held |-> tail]

StartTail(agent) ==
  LET tail == [agent |-> agent, at |-> IF server[agent].up THEN Subscribe(agent) ELSE None]
  IN  IF agent = None THEN StopTail
      ELSE [running |-> StopTail.running \cup {tail}, held |-> tail]

----------------------------------------------------------------------------
(* The agents *)

SomeRun == [id : Nat, lines : Seq(1..MaxLines)]

\* A run takes the next id.
StartRun(a) ==
  /\ server[a].up /\ ~server[a].running /\ budget.runs > 0
  /\ server' = [server EXCEPT ![a].running = TRUE, ![a].since = server[a].said,
                              ![a].ids = @ + 1]
  /\ budget' = [budget EXCEPT !.runs = @ - 1]
  /\ UNCHANGED << client, channel >>

Say(a) ==
  /\ server[a].running /\ budget.lines > 0
  /\ server' = [server EXCEPT ![a].said = @ + 1]
  /\ budget' = [budget EXCEPT !.lines = @ - 1]
  /\ UNCHANGED << client, channel >>

\* It ends: its record goes into the history, the oldest one out, and hosts it
\* has settled are no longer approved.
Recorded(agent) ==
  LET said == [i \in 1..agent.said - agent.since |-> agent.since + i]
  IN  LastOf(Append(agent.history, [id |-> agent.ids, lines |-> said]), HistoryCap)

EndRun(a) ==
  /\ server[a].running
  /\ \E settled \in SUBSET server[a].approved :
       server' = [server EXCEPT ![a].running = FALSE, ![a].history = Recorded(server[a]),
                                ![a].approved = @ \ settled]
  /\ UNCHANGED << client, channel, budget >>

\* The agent goes down, its run and the lines of it with it (its id too, unless
\* it was saved by then), or comes back.  Its tails are cut with it: no connection is
\* left half open (the client asks ssh for no keepalive that would notice one).
GoDown(a) ==
  /\ server[a].up /\ budget.faults > 0
  /\ \E unsaved \in IF server[a].running THEN {0, 1} ELSE {0} :
       server' = [server EXCEPT ![a].up = FALSE, ![a].running = FALSE, ![a].ids = @ - unsaved]
  /\ budget' = [budget EXCEPT !.faults = @ - 1]
  /\ tails' = LET Cut(t) == IF t # None /\ t.agent = a THEN [t EXCEPT !.at = None] ELSE t
              IN  [running |-> {Cut(t) : t \in tails.running}, held |-> Cut(tails.held)]
  /\ UNCHANGED << agents, view, log, stash, tasks, warned, channel >>

ComeBack(a) ==
  /\ ~server[a].up
  /\ server' = [server EXCEPT ![a].up = TRUE]
  /\ UNCHANGED << client, channel, budget >>

\* A pause is for the agent, a watch or a host: for a watch and a host it is an
\* error.
PauseScope(task) == ~({"watch", "host"} \subseteq task.args)

Refuses(agent, task) ==
  \/ task.verb \in {"pause", "resume"} /\ ~PauseScope(task)
  \/ task.verb = "revoke" /\ task.host \notin agent.approved
  \/ task.verb = "cancel" /\ ~agent.running

\* What a verb changes at the agent.  A kick may be followed by StartRun, as
\* any time may, and a cancel by EndRun.
Does(agent, task) ==
  IF Refuses(agent, task) THEN agent
  ELSE [agent EXCEPT
          !.paused = IF task.verb = "pause" THEN @ \cup {task.host}
                     ELSE IF task.verb = "resume" THEN @ \ {task.host} ELSE @,
          !.approved = IF task.verb = "approve" THEN @ \cup {task.host}
                       ELSE IF task.verb = "revoke" THEN @ \ {task.host} ELSE @]

StatusOf(agent) ==
  [running |-> agent.running, paused |-> agent.paused, approved |-> agent.approved]

Reports(task, agent, answered) ==
  IF task.verb = "status"
  THEN [kind |-> "status", agent |-> task.agent,
        result |-> IF answered THEN StatusOf(agent) ELSE None]
  ELSE [kind |-> "op", ok |-> answered /\ ~Refuses(agent, task)]

\* Does an agent answer?  If it is up, and its reply is not lost.
Answers(a, answered) ==
  /\ answered => server[a].up
  /\ LET lost == server[a].up /\ ~answered
     IN  /\ lost => budget.faults > 0
         /\ budget' = [budget EXCEPT !.faults = IF lost THEN @ - 1 ELSE @]

\* A verb runs; what it did may be done although the client hears of a failure.
Exec(task) ==
  /\ reply = {} /\ task.verb \notin {"scan", "history", "log"}
  /\ \E answered \in BOOLEAN :
       Answers(task.agent, answered) /\ reply' = {Reports(task, server[task.agent], answered)}
  /\ server' = IF server[task.agent].up
               THEN [server EXCEPT ![task.agent] = Does(@, task)] ELSE server
  /\ tasks' = TaskBag!BagRemove(tasks, task)
  /\ UNCHANGED << agents, view, log, stash, tails, warned, updates >>

\* The ids of the runs it has stored, newest first, and the log of one of them
\* if it still has it.
History(agent) == Reverse([i \in DOMAIN agent.history |-> agent.history[i].id])

RunLog(agent, id) ==
  LET found == {i \in DOMAIN agent.history : agent.history[i].id = id}
  IN  IF found = {} THEN << >> ELSE agent.history[Min(found)].lines

\* Mutant of Collected: runs in the order they were fetched.
CollectedAsFetched(lines, fetched) == lines \o fetched

\* An older run goes before what was collected.
Collected(lines, fetched) == fetched \o lines

\* A backfill that has more to fetch, or is over.
Backfilling(task, runs, lines) ==
  IF runs = << >> \/ Len(lines) >= LogCap
  THEN /\ reply' = {[kind |-> "backfill", agent |-> task.agent, lines |-> lines]}
       /\ tasks' = TaskBag!BagRemove(tasks, task)
  ELSE /\ tasks' = TaskBag!BagAdd(TaskBag!BagRemove(tasks, task), LogTask(task.agent, runs, lines))
       /\ UNCHANGED reply

ExecHistory(task) ==
  /\ reply = {} /\ task.verb = "history"
  /\ \E answered \in BOOLEAN :
       /\ Answers(task.agent, answered)
       /\ Backfilling(task, IF answered THEN History(server[task.agent]) ELSE << >>, << >>)
  /\ UNCHANGED << server, agents, view, log, stash, tails, warned, updates >>

ExecLog(task) ==
  /\ reply = {} /\ task.verb = "log"
  /\ \E answered \in BOOLEAN :
       LET fetched == IF answered THEN RunLog(server[task.agent], Head(task.runs)) ELSE << >>
       IN  /\ Answers(task.agent, answered)
           /\ Backfilling(task, Tail(task.runs), Collected(task.lines, fetched))
  /\ UNCHANGED << server, agents, view, log, stash, tails, warned, updates >>

\* Does a node answer a scan?  It runs an agent then, but one that asks for a
\* password or takes too long is passed over.
Probe(a, shy) == server[a].up /\ a \notin shy

\* Every node is asked.
ExecScan(task) ==
  /\ reply = {} /\ task.verb = "scan"
  /\ \E shy \in SUBSET Agents :
       /\ shy # {} => budget.faults > 0
       /\ budget' = [budget EXCEPT !.faults = IF shy = {} THEN @ ELSE @ - 1]
       /\ reply' = {[kind |-> "found", agents |-> {a \in Agents : Probe(a, shy)}]}
  /\ tasks' = TaskBag!BagRemove(tasks, task)
  /\ UNCHANGED << server, agents, view, log, stash, tails, warned, updates >>

\* The report is sent, in the order the verbs ended: a full channel keeps
\* its senders in that order.
Deliver ==
  /\ Len(updates) < Capacity
  /\ \E report \in reply : updates' = Append(updates, report)
  /\ reply' = {}
  /\ UNCHANGED << server, client, budget >>

\* A line reaches a tail; one the tail lagged behind is skipped, one the
\* channel has no room for is dropped.
Hear(tail) ==
  /\ tail.at # None
  /\ \E n \in tail.at + 1 .. server[tail.agent].said :
       LET heard == [tail EXCEPT !.at = n]
           line  == [kind |-> "tail", line |-> [agent |-> tail.agent, n |-> n, live |-> TRUE]]
       IN  /\ tails' = [running |-> (tails.running \ {tail}) \cup {heard},
                        held |-> IF tails.held = tail THEN heard ELSE tails.held]
           /\ updates' = IF Len(updates) < Capacity THEN Append(updates, line) ELSE updates
  /\ UNCHANGED << server, agents, view, log, stash, tasks, warned, reply, budget >>

----------------------------------------------------------------------------
(* Keys *)

Press == budget.keys > 0 /\ budget' = [budget EXCEPT !.keys = @ - 1]
PressVerb == budget.ops > 0 /\ budget' = [budget EXCEPT !.ops = @ - 1]
Other == UNCHANGED << server, reply, updates, warned >>

Scan == IF view.scanning THEN EmptyBag ELSE SetToBag({ScanTask})

\* Opening and closing the view exchange the two logs.
SwapLogs == log' = stash /\ stash' = log

Open ==
  LET shown == [view EXCEPT !.open = TRUE, !.sel = 1]
  IN  /\ ~view.open /\ Press
      /\ SwapLogs
      /\ IF Current # None
         THEN /\ view' = Backfill(Fetch(shown, Current))
              /\ tails' = StartTail(Current)
              /\ tasks' = tasks (+) Fetches(Current) (+) Backfills(view, Current)
         ELSE /\ view' = [shown EXCEPT !.scanning = TRUE]
              /\ tasks' = tasks (+) Scan
              /\ UNCHANGED tails
      /\ UNCHANGED agents /\ Other

Close ==
  /\ view.open /\ Press
  /\ view' = [view EXCEPT !.open = FALSE]
  /\ SwapLogs
  /\ tails' = StopTail
  /\ UNCHANGED << agents, tasks >> /\ Other

\* `[` and `]`: another agent, and everything that was the old one's goes.
Cycled(next) == [view EXCEPT !.current = next, !.status = None, !.error = FALSE,
                             !.sel = 1, !.backfilled = FALSE]

Cycle(next) ==
  /\ view.open /\ Press
  /\ Len(agents) > 1 /\ next \in DOMAIN agents /\ next # view.current
  /\ view' = Fetch(Backfill(Cycled(next)), agents[next])
  /\ SetAgentLog(<< >>)
  /\ tasks' = tasks (+) Backfills(Cycled(next), agents[next])
                  (+) Fetches(agents[next])
  /\ tails' = StartTail(agents[next])
  /\ UNCHANGED agents /\ Other

\* `r`
Refresh ==
  /\ view.open /\ Press
  /\ IF agents = << >>
     THEN /\ view' = [view EXCEPT !.scanning = TRUE]
          /\ tasks' = tasks (+) Scan
     ELSE /\ view' = Fetch(view, Current)
          /\ tasks' = tasks (+) Fetches(Current)
  /\ UNCHANGED << agents, log, stash, tails >> /\ Other

\* `j`, `k`
Select ==
  /\ view.open /\ PressVerb /\ HostRows # << >>
  /\ \E row \in DOMAIN HostRows \ {view.sel} : view' = [view EXCEPT !.sel = row]
  /\ UNCHANGED << agents, log, stash, tails, tasks >> /\ Other

\* A verb for the agent shown: `u`, `x`, `p`, `P`.
Target(verb) ==
  IF verb # "host" THEN None ELSE Selected

Paused(host) == view.status # None /\ host \in view.status.said.paused

Operate(op) ==
  /\ view.open /\ PressVerb /\ Current # None
  /\ op = "host" => Selected # None
  /\ LET host == Target(op)
         verb == IF op \in {"kick", "cancel"} THEN op
                 ELSE IF Paused(host) THEN "resume" ELSE "pause"
         args == IF op = "host" THEN {"watch", "host"} ELSE {}
     IN  tasks' = TaskBag!BagAdd(tasks, OpTask(Current, verb, host, args))
  /\ UNCHANGED << agents, view, log, stash, tails >> /\ Other

\* Mutant of Armed: any pending approval counts.
ArmedAny(host) == view.pending # None

Armed(host) == view.pending = host

EnterTask(verb) == OpTask(Current, verb, Selected, {"watch", "host"})

\* Enter: revoke what is approved, or approve in two steps.
Enter ==
  /\ view.open /\ PressVerb /\ Selected # None
  /\ LET revoked   == Selected \in view.status.said.approved
         confirmed == ~revoked /\ Armed(Selected)
     IN  /\ view' = [view EXCEPT !.pending = IF revoked \/ confirmed THEN None ELSE Selected]
         /\ tasks' = IF revoked THEN TaskBag!BagAdd(tasks, EnterTask("revoke"))
                     ELSE IF confirmed THEN TaskBag!BagAdd(tasks, EnterTask("approve"))
                     ELSE tasks
         /\ warned' = IF revoked \/ confirmed THEN warned ELSE warned \cup {Selected}
  /\ UNCHANGED << server, agents, log, stash, tails, channel >>

Unarm ==
  /\ view.open /\ PressVerb /\ view.pending # None
  /\ view' = [view EXCEPT !.pending = None]
  /\ UNCHANGED << agents, log, stash, tails, tasks >> /\ Other

----------------------------------------------------------------------------
(* The event loop *)

\* Mutant of FetchDue: an agent that failed once is left alone.
FetchDueUnlessFailed == view.open /\ ~view.loading /\ agents # << >> /\ ~view.error

\* The tick of the open view: fetch the status again, revive a tail that ended.
FetchDue == view.open /\ ~view.loading /\ agents # << >>

TailDue == view.open /\ tails.held # None /\ tails.held.at = None

TickFetch ==
  /\ FetchDue
  /\ view' = Fetch(view, Current)
  /\ tasks' = tasks (+) Fetches(Current)
  /\ UNCHANGED << server, agents, log, stash, tails, warned, channel, budget >>

TickTail ==
  /\ TailDue
  /\ tails' = StartTail(Current)
  /\ UNCHANGED << server, agents, view, log, stash, tasks, warned, channel, budget >>

\* Mutant of Answered: a failed fetch is reported and never ends.
AnsweredIfOk(report) ==
  IF report.agent # Current THEN view
  ELSE IF report.result = None THEN [view EXCEPT !.error = TRUE]
  ELSE [view EXCEPT !.loading = FALSE, !.error = FALSE,
                    !.status = [of |-> report.agent, said |-> report.result]]

\* Only the current agent's answer may write the state.
Answered(report) ==
  IF report.agent # Current THEN view
  ELSE IF report.result = None THEN [view EXCEPT !.loading = FALSE, !.error = TRUE]
  ELSE [view EXCEPT !.loading = FALSE, !.error = FALSE,
                    !.status = [of |-> report.agent, said |-> report.result]]

ApplyStatus(report) ==
  /\ report.kind = "status"
  /\ view' = Answered(report)
  /\ UNCHANGED << agents, log, stash, tails, tasks >>

\* A verb that worked is followed by a fetch.
ApplyOp(report) ==
  /\ report.kind = "op"
  /\ PushLog
  /\ view' = IF report.ok THEN Fetch(view, Current) ELSE view
  /\ tasks' = IF report.ok THEN tasks (+) Fetches(Current) ELSE tasks
  /\ UNCHANGED << agents, tails >>

\* Discovered agents fill the gaps of the list; if the view waits for one, the
\* first is shown.
ApplyFound(report) ==
  LET new   == SetToSeq(report.agents \ Range(agents))
      shown == new # << >> /\ view.open /\ view.status = None
      first == IF agents = << >> /\ new # << >> THEN new[1] ELSE Current
      seen  == [view EXCEPT !.scanning = FALSE]
  IN  /\ report.kind = "found"
      /\ agents' = agents \o new
      /\ IF shown
         THEN /\ view' = Fetch(seen, first)
              /\ tasks' = tasks (+) Fetches(first)
              /\ tails' = StartTail(first)
              /\ PushLog
         ELSE view' = seen /\ UNCHANGED << tasks, tails, log, stash >>

ApplyTail(report) ==
  /\ report.kind = "tail"
  /\ SetAgentLog(Append(AgentLog, report.line))
  /\ UNCHANGED << agents, view, tails, tasks >>

\* History goes before what came live meanwhile.
ApplyBackfill(report) ==
  LET Stored(n) == [agent |-> report.agent, n |-> n, live |-> FALSE]
      history == [i \in DOMAIN report.lines |-> Stored(report.lines[i])]
  IN  /\ report.kind = "backfill"
      /\ SetAgentLog(history \o AgentLog)
      /\ UNCHANGED << agents, view, tails, tasks >>

Apply ==
  /\ updates # << >>
  /\ updates' = Tail(updates)
  /\ LET report == Head(updates)
     IN  ApplyStatus(report) \/ ApplyOp(report) \/ ApplyFound(report)
           \/ ApplyTail(report) \/ ApplyBackfill(report)
  /\ UNCHANGED << server, reply, budget, warned >>

----------------------------------------------------------------------------

Init ==
  /\ server = [a \in Agents |-> [up |-> TRUE, running |-> FALSE, paused |-> {}, approved |-> {},
                                 said |-> 0, since |-> 0, ids |-> 0, history |-> << >>]]
  /\ \E scenario \in Scenarios : agents = scenario.agents /\ budget = scenario.budget
  /\ view = [open |-> FALSE, current |-> 1, status |-> None, error |-> FALSE, loading |-> FALSE,
             sel |-> 1, pending |-> None, backfilled |-> FALSE, scanning |-> FALSE]
  /\ log = << >> /\ stash = << >>
  /\ tails = [running |-> {}, held |-> None]
  /\ tasks = EmptyBag /\ reply = {} /\ updates = << >> /\ warned = {}

Remote == \E a \in Agents : StartRun(a) \/ Say(a) \/ EndRun(a) \/ GoDown(a) \/ ComeBack(a)

Keys ==
  \/ Open \/ Close \/ Refresh \/ Select \/ Enter \/ Unarm
  \/ \E next \in DOMAIN agents : Cycle(next)
  \/ \E op \in {"kick", "cancel", "host", "agent"} : Operate(op)

RunTask == \E task \in BagToSet(tasks) :
  Exec(task) \/ ExecHistory(task) \/ ExecLog(task) \/ ExecScan(task)
Follow  == \E tail \in tails.running : Hear(tail)

Next == Remote \/ Keys \/ RunTask \/ Deliver \/ Follow \/ TickFetch \/ TickTail \/ Apply

\* Verbs time out or answer, the loop drains its channel, and the tick comes.
Fairness ==
  /\ WF_vars(RunTask) /\ WF_vars(Deliver) /\ WF_vars(Apply)
  /\ WF_vars(TickFetch) /\ WF_vars(TickTail)

Spec == Init /\ [][Next]_vars /\ Fairness

----------------------------------------------------------------------------
(* Properties *)

\* Application lines never leak into the agent's log, and the agent's never
\* into the main one, however often the view opened and closed since, and
\* either is cut to its cap wherever it is (swap_log_state, main_log_mut,
\* agent_log_mut).
LogsApart ==
  /\ \A entry \in Range(AgentLog) : entry.agent # None
  /\ \A entry \in Range(MainLog)  : entry.agent = None
  /\ {Len(log), Len(stash)} \subseteq 0..LogCap

\* The status on screen is of the agent on screen, whatever answers were under
\* way when it was changed (apply_status, AgentStatus); only that agent is
\* tailed, once, and nobody when the view is closed (start_agent_tail,
\* stop_agent_tail).
ShownIsCurrent ==
  /\ view.status # None => view.status.of = Current
  /\ tails.running = IF view.open /\ agents # << >> THEN {tails.held} ELSE {}
  /\ tails.held # None => tails.held.agent = Current

\* "Loading" is never left standing: a fetch of the agent shown is under way, or
\* the heartbeat that waits for it would never fetch again.
FetchUnderWay ==
  view.loading =>
    \/ BagIn(StatusTask(Current), tasks)
    \/ \E report \in reply \cup Range(updates) :
         report.kind = "status" /\ report.agent = Current

Increasing(lines) == \A i, j \in DOMAIN lines : i < j => lines[i] < lines[j]

\* The lines an agent's tail brought stand in the order it said them and once
\* each, over any reconnects and changes of agent; so do those of a backfill,
\* whatever the agent stores, drops or forgets of its runs while they are being
\* fetched, and whatever ids it gives them after a crash.
LinesInOrder ==
  /\ \A i, j \in DOMAIN AgentLog :
       (i < j /\ AgentLog[i].live /\ AgentLog[j].live /\ AgentLog[i].agent = AgentLog[j].agent)
         => AgentLog[i].n < AgentLog[j].n
  /\ \A report \in reply \cup Range(updates) :
       report.kind = "backfill" => Increasing(report.lines)

\* No host is approved whose warning was not on screen first (the two steps of
\* Enter, with rows changing between them).
ApprovalWarned ==
  /\ \A task \in BagToSet(tasks) : task.verb = "approve" => task.host \in warned
  /\ \A a \in Agents : server[a].approved \subseteq warned

Shown(a) == view.open /\ Current = a

\* While the view stays on an agent that is up, it comes to follow its tail
\* again (ensure_agent_tail) and, once the agent is idle, to show it idle: a
\* finished run leaves no stale "running" on screen (the heartbeat of
\* handle_event).  A tail that hangs on a dead connection is not revived: GoDown
\* cuts them all.
ViewCatchesUp ==
  \A a \in Agents :
    /\ <>[](Shown(a) /\ server[a].up) => <>[](tails.held # None /\ tails.held.at # None)
    /\ <>[](Shown(a) /\ server[a].up /\ ~server[a].running)
         => <>[](view.status # None /\ ~view.status.said.running)
=============================================================================
