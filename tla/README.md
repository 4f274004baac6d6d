# deptui in TLA+

A verification development for [deptui](../src/README.md): a terminal UI for
deploy-rs flakes (`crates/deptui`), a background auto-deploy daemon,
`deptui-agent` (`crates/deptui-agent`), and the headless machinery they share
(`crates/deptui-core`). Every definition is translated from the Rust source;
`PROJECT.json` maps each one to the lines it stands for.

Contents: [the system](#the-system) · [the modules](#the-modules) ·
[the runs](#the-runs) · [fairness](#fairness) · [what is proved](#what-is-proved) ·
[what the code does differently from what it says](#disagreements) ·
[not modelled](#not-modelled) · [plan](#plan)

## The system

| Component | State it keeps | Operations | What is hard | Correct means |
|---|---|---|---|---|
| Daemon loop (`daemon.rs`) | `AgentState`, the run slot `running`, `validating`, the poll queue `pending`, timers `next_poll`, `recheck_at`, `next_self_check`, `restart_wanted` | one `select!` over commands, due timers, signals | run and validation tasks beside the loop; handlers that await ssh and git; restarts into an update while busy | one pipeline at a time; nothing pending is forgotten; no same-commit retry; protections hold over any history; hand-over abandons nothing |
| Host ledger (`state.rs`) | per watch and host: `deployed`, `failed`, `held`, `offline`, `approved`, `paused`, `unreachable`, drift baseline; run history; `state.json` | `apply_outcome`, `push_run`, `load`, `save` | a failed write; a crash between an outcome and its record; files from older versions | the stamps never contradict each other, in memory or on disk |
| Run task (`runner.rs`) | the plan copied at the poll, the record so far, the host under way | `execute`, `deploy_host` | cancel between or inside hosts; ssh that stops answering; a host changed by hand | every planned host gets one verdict; nothing foreign is overwritten |
| Git watching (`gitwatch.rs`) | private clones | `ls_remote`, `ensure_checkout`, `is_ancestor` | the remote is silent; the clone is shared by every run of a watch | only one user of a clone at a time |
| One-shot check (`main.rs`) | a copy of `state.json` | `check_once` | a second writer and a second deployer beside the daemon | the other program's work is no drift, and nothing foreign is overwritten |
| Control API (`api.rs`, `client.rs`, `wire.rs`, `agentwire.rs`) | none | HTTP over a Unix socket, read-only TCP, log stream | slow readers of the broadcast log, refused verbs, run logs that are gone | each request is one command; what a key asks for is what the agent does |
| Deploy wrapper (`deploy.rs`) | child process group, pty, stdin channel, cancel flag | `plan`, `run`, `run_inner`, `run_one`, `run_seed` | cancel against exit, TERM-grace-KILL, two sequential children and one password channel | no process outlives a cancel; one exit line; no profile after a failed one |
| Host probes (`host.rs`, `probe.rs`) | none (tasks report over a channel) | reachability, update, size, package diff, cache drift, build plan | reports that outlive a cancel, a newer probe or a deploy | what is on screen was measured on what is beside it, after the last deploy; no spinner turns for nothing |
| Askpass (`askpass.rs`) | a Unix socket, one prompt at a time | serve, answer | prompts that cross | each answer reaches the ssh that asked |
| TUI application (`app.rs`) | nodes, statuses, input mode, marks, deploy session and queue, password cache, agent view | key handling, probe results, deploy lines | deploys, probes and agent refreshes interleave with keys | the batch stops at a failure; nothing stale is shown after a deploy; passwords do not outlive the batch |
| TUI agent view (`app.rs`, `agentclient.rs`) | agents known, the one shown, its status, its log, the tail task | status, history and log, tail, verbs over ssh, discovery | answers of an agent no longer shown, reconnects, one set of log fields for two logs | status, tail and lines belong to the agent shown; the view catches up |
| Job log (`joblog.rs`, `app.rs`, `ui.rs`) | capped buffer, marks, scroll offset, selection, search | log, scroll, select, search, yank, draw | offsets that outlive the lines they count; lines that wrap | what a key goes to is on the pane |
| Other rendering, theme, settings | view state only | draw | - | - |
| Flake discovery, ssh overrides, localhost test, config, notifications, packaging | none | pure functions and child processes | - | - |

How they meet. The API and the CLI turn each request into a `Cmd` on the
daemon's channel. The loop owns all standing state and handles one command or
timer at a time; a poll asks `git ls-remote` and, if some host needs the head,
spawns a run task with a *copy* of what it needs to know about each host. The
task checks the revision out, walks the hosts in order, drives one
`deploy::run` per host, and sends `RunDone` when all have an outcome; only then
does the loop fold the outcomes into the ledger, save it, and take up the polls
that waited. A cancel reaches the task over a watch channel. `state.json` is
written after each change and is all that survives a restart; systemd restarts
the unit whenever it exits, which is also how the agent takes up an update.
The TUI uses the same deploy wrapper in its own process and sees the agent only
through its CLI over ssh.

## The modules

| Module | Stands for | Uses |
|---|---|---|
| `HostLedger` | `HostState`, `apply_outcome`, the load-time migration; the eligibility test and plan entry of `request_poll` | - |
| `AgentDaemon` | the daemon loop, the run task, the state file, crash and restart | `HostLedger` |
| `AgentRounds` | the same, with the history of each host's rounds beside it: at which commit the last one went wrong | `AgentDaemon` |
| `DriftGuard` | `deploy_host` on one host and what the host really runs; the daemon, `check_once` and people as three parties that deploy to it | `HostLedger` |
| `DeployPromise` | what `deploy::run` promises whoever calls it | - |
| `DeployProc` | `deploy::run` with its child, the child's descendants, the output channel and its listener; implements `DeployPromise` | `DeployPromise` |
| `DeploySession` | the TUI's deploy batches, password dialogs and cache, and the askpass server | - |
| `HostChecks` | the pure decisions of `host.rs`: releases, wrapper resolution, version diff, cache drift, reading nix's dry run | - |
| `ProbeStatus` | the TUI's probes, their reports and what is shown of a host | `HostChecks` |
| `AgentView` | the agent view of the TUI against the agents it shows | - |
| `JobLog` | the job log: buffer, filter, pane, search and selection | - |
| `MC...` | the finite instances | the module named |
| `HostLedgerProofs`, `AgentDaemonProofs`, `DeployProcProofs`, `DeploySessionProofs`, `DriftGuardProofs`, `ProbeStatusProofs`, `AgentViewProofs`, `JobLogProofs` | the theorems | the module named |

### HostLedger

A host's standing state as a record with the fields of `HostState`. Times and
messages are dropped (nothing branches on them), so a stamp is its revision,
and the offline stamp is its revision and kind. The map of profile paths the
drift guard compares is one path, or `None` for the empty map that disarms the
guard: the code fills it all-or-nothing. `ApplyOutcome` has one operator per
arm of the match; `Eligible` and `PlanEntry` are the two questions a poll asks.

### AgentDaemon

| Variable | Code |
|---|---|
| `head`, `link`, `updated`, `full` | outside: the watched ref, whether ssh to a host gets in (or why not), whether the installed unit differs from the running process, whether `state.json` cannot be written |
| `events` | bound on outside events and operator commands (kicks are free) |
| `disk` | `state.json` |
| `alive` | the process runs |
| `state` | `Daemon.state` |
| `running` | `Daemon.running`, plus the plan, record and program point of its task |
| `pending` | `Daemon.pending` |
| `validating` | `Daemon.validating` |
| `recheck` | the watches in `Daemon.recheck_at` |
| `restartWanted` | `Daemon.restart_wanted` |

One action per arm of `handle_cmd` that changes something (`Kick`, `PauseAll`,
`PauseWatch`, `PauseHost`, `Approve`, `Revoke`, `Validate`, `ValidateDone`,
`CancelRun`, `FinishRun`), one per timer (`PollDue`, `RecheckDue`,
`SelfCheckDue`), one per step of the run task at which other actors can come
between (`SetupOk` to `DeployCancelled`), and `Crash`, `Shutdown`, `Restart`
(`Daemon::new`, `startup_validation` and the head of `run`). A handler is one
action because the loop is single-threaded: while it awaits ssh or git nothing
else in the loop runs, and the run task does not touch the loop's state. Its
save is part of it, and where two saves enclose a call that changes only
unmodelled fields (`last_seen`, run ids) they are one.

What is left to chance: whether `ls-remote` answers, whether the clone and the
evaluation succeed, whether a deploy succeeds, what the first-encounter probe
and the drift guard find, whether the profile paths can be read back, the order
of hosts in a run (the code's is the configuration's), and the moment a timer
fires. A batch of due watches, or a kick of every watch, is taken one watch at a
time.

The history variable `running.blessed` (the hosts approved when the run began)
is read by properties only.

### AgentRounds

`burned[w][h]` is the commit the last round of a host failed or was cancelled at,
noted at the moment the run task gives the host its outcome, not when the daemon
records it. `NoSameCommitRetry` says that no round is given at that commit
again; the code has only the park stamp to keep that with, which `RunDone`
writes later, other outcomes erase, an approval sets aside and a restart reads
back. What ends the memory is what the code lets pay for a round: an approval, a success, a
round that finds the host out of reach (`apply_outcome` drops the park, also one
at another commit), and the death of the process before `RunDone`, when
nothing was recorded. A round that holds, other commits in between, kicks,
rechecks, drained queues and restarts do not.

### DriftGuard

`AgentDaemon` leaves open what a host answers. `DriftGuard` says what a host
holds: one host, its profiles, and for each the content it was built from - a
commit of the watched branch, another branch's, or a dirty tree's.

| Variable | Code |
|---|---|
| `head`, `host` | outside: the watched branch, what each profile of the host runs |
| `file`, `memory` | the host's entry in `state.json`, and in the daemon's `AgentState` |
| `runs` | the run of the daemon and that of `check`: plan, profiles still to visit, what it saw, paths read back, outcome; check's own copy of the state |
| `foreign`, `seen` | history: profiles that people changed since the agent; what the run saw of each |
| `budget` | bounds on hand deploys, faults, approvals and one-shot checks |

Each ssh round trip of `deploy_host` is an action: a look at first contact
(`Contact`), a comparison with the baseline (`Compare`), the question what the
system was built from (`Bless`), an activation (`Activate`), a read-back
(`ReadBack`), and its failures and cancel (`Breaks`); `Records` and `Kill` end a
run. `Poll` is an answered poll of the daemon: it saves what the daemon has in memory
over what is in the file, whether it starts a run or not, so what `check` recorded
meanwhile is gone. `Check` loads and plans at once; with nothing to deploy it would write
back what it has just loaded. Both programs take the same steps: `check_once` calls the same
`deploy_host`, but with its own copy of the state, taken at its start.
Simplified: the history is linear, all contents have one release (the worst case
for the release comparison at first contact), and reachability and catch-up stay
with `AgentDaemon`.

### DeployPromise and DeployProc

`DeployPromise` knows a selection of profiles, how many of them were pushed, a
wish to stop and a verdict. `DeployProc` implements it (run `deploy`, property
`KeepsPromise`) with `selection` the selected profiles and `asked` the cancel
flag.

| Variable | Code |
|---|---|
| `req` | the `DeployRequest`: profiles in order, selection, override, seeding, interactive sudo, whether discovery knew the profiles |
| `pc`, `at` | where `run_inner`/`run_one` wait, and the invocation of the plan |
| `verdict` | the final `Exit`/`Error` line, if sent |
| `leader`, `code` | the `deploy` child: alive, a zombie, reaped; its exit code |
| `group`, `piped` | the child's descendants: whose process group they are in, and whether they hold its output open |
| `pushed` | profiles whose child exited 0 |
| `cancel`, `listener` | the watch channel; the holder of `rx`: reading, gone, no longer reading (quit), or gone with its runtime |
| `lines`, `readers` | lines in the bounded channel; the forwarders of the current child |
| `answers`, `lock`, `waiting`, `eaten` | the password channel, the writer that holds its receiver, the writers in the mutex's queue, passwords lost to a child that was gone |

An action per await at which others can come between. The two signals are two
steps (`Term`, `Kill`) with the grace period between them, in which the child
and its descendants may exit, or not. Lines are slots: all that matters is
when a send has to wait. `torn` and `eaten` are history.

What a descendant does is unconstrained except for one thing: it stays in the
child's process group. One that calls `setsid` itself is out of anybody's reach.

### DeploySession

| Variable | Code |
|---|---|
| `quit`, `input`, `session`, `pendingDeploy`, `cached`, `interactive`, `outcome` | `App.should_quit`, `input`, `deploy`, `pending_deploy`, `cached_password.is_some()`, `toggles.interactive_sudo`, `last_deploys` |
| `confirming` | the hosts inside `InputMode::ConfirmDeploy` |
| `mail` | `DeploySession.rx`: sudo prompts and the last line |
| `asking`, `serving` | connections waiting at the askpass socket, and the one `serve` is busy with |
| `prompts`, `replies` | the two channels between `serve` and the App |
| `confirmed`, `covered` | history: the hosts of the batch that stands; a password dialog of askpass gave way to something else |

One action per key that matters, per kind of line of the child and per step of
`serve`. The App is single-threaded: one arm of its `select!` is one action. Of
`InputMode` the modes a deploy passes through are kept and the rest is one mode
(`other`). The child is whatever `DeployProc` does, seen through its lines.

### HostChecks and ProbeStatus

`HostChecks` has the decisions as operators on parsed data: a store path is its
name, wrapper suffix, version and hash; a substituter its url and the slash nix
adds; a dry run its headers and paths. `ProbeStatus` has one host and what the
App knows of it.

| Variable | Code |
|---|---|
| `flake`, `built`, `stored`, `remote` | outside: the flake's version, the closures in the local store and in the host's, what each profile runs |
| `tasks`, `reports` | `App.probe_tasks`; the `StatusUpdate::Probe`s in the channel |
| `profile`, `host` | `HostStatus`: paths, update state, sizes, diff and plan of each profile, reachability, drift, and a flag for every spinner |
| `remoteBuild`, `deploy` | toggle 4; the deploy in progress |
| `wiped`, `late` | history: when a deploy last wiped the status; probes that were under way when what they are about was replaced |

A probe is two steps, first the flake and the local store, then the host or the
building store, so that edits, other reports, `x` and a deploy's end come between.
`ApplyReport` is `apply_probe`, with the probes it chains (a size leads to a
diff, a drift to a plan). Simplified: all profiles are selected, progress lines and
error texts are dropped, seeding and discovery are left out (`r` also asks the agents for
their status and looks for new nodes in the flake); a key is compared as it stands, a
cache by its url; of the drift the trusted users and the caches a deploy drops are
left out; nothing is said of
liveness, as ssh and nix have timeouts of their own.

### AgentView

| Variable | Code |
|---|---|
| `server` | the agents: up, running, paused and approved hosts, lines said, runs stored with the lines of each, the last id |
| `agents`, `view` | `AgentUi.agents`; the rest of `AgentUi`, and whether the view is open |
| `log`, `stash` | `App.log` and `AgentUi.log_state`, which change places when the view opens and closes |
| `tails` | the tail tasks that run, and the handle the view holds |
| `tasks`, `reply`, `updates` | verbs spawned and not yet run; the report of the one that has the ssh gate; `status_rx` |
| `warned` | history: hosts whose approval warning was on screen |

One action per key of the view, per kind of report, per half of the tick, per step
of a verb: a verb takes effect, then its report is sent. A backfill is a step for
the list of runs and one for the log of each, so that a run may end, be dropped
from the history or have its id used again (after a crash before the save)
between them. A verb may have been done although its reply is lost. What a verb
may be refused for is `Refuses`. Simplified: an agent has one watch; verbs are
serialised, as `SSH_GATE` does for remote agents (the local one bypasses ssh); a
scan asks all nodes in one step; the throttles of 5 s and 20 s between ticks are
left to chance.

### JobLog

| Variable | Code |
|---|---|
| `log`, `marked`, `selected`, `onLog` | `App.log` with the host of each line, `marked`, the selected host, the focus |
| `scroll`, `top` | `log_scroll`, and the top of the pane as the renderer last wrote it back |
| `visual`, `search`, `match` | `log_visual`, whether a query is committed, `log_search_match_idx` |
| `panicked` | an index out of range ended the program |

One action per key, each with the frame that follows it (the loop draws after
every key and status report); lines of a deploy may arrive undrawn, since the loop
limits frames to one per few milliseconds. `Painted` is the renderer: it lays out
only a window at the tail (`WindowLen`) and finds the offset and first row from
it. A line is whose it is, the rows it wraps into and the occurrences of the query.
Simplified: one query, no columns (a selection is of lines), no resizing.

Mutants. Next to some definitions stands a variant with a plausible bug
("Mutant of ..."); each property is falsified by the mutant `PROJECT.json`
names for it. No specification uses them.

## The runs

Every configuration names its bounds. In the daemon's, `MaxEvents` bounds pushes, network
changes, updates, a disk that fills or is freed, crashes, shutdowns and operator commands together; polls,
kicks, timers and all steps of the run task are unbounded. Two revisions
suffice to tell "this commit" from "another one" (every guard compares
revisions for equality only; they are a symmetry set where no liveness is
checked), and one profile content suffices because the guard's verdict is left
open there.

| Run | Instance | Properties | What it shows |
|---|---|---|---|
| `host` (`AgentRounds`) | 1 watch, 1 host, offline and denied links, catch-up, drift guard, 4 events, fair | `TypeOK`, `RecheckArmed`, `NothingUnsaved`, `FirstContactHeld`, `NoSameCommitRetry`, `Converges`, `HandsOverAtLast` | the promises made to a single host over crashes, restarts, approvals and pushes; and that the work gets done |
| `fleet` | 2 watches sharing a host, one with a second host; catch-up and first contact for one host, bootstrap deploys for the other, a disk that may fill, 2 events | `LoopInOrder`, `LedgerConsistent`, `RunStillNeeded`, `CancelSettles`, `NoWorkCutShort` | runs, validations, queue and hand-over do not get in each other's way; outcomes of several hosts and stale files keep the ledger consistent; a cancel settles every planned host |
| `drift_guard` | 1 host with system and home, 3 commits, 10 scenarios of up to 4 hand deploys, faults, approvals and one-shot checks | `RecordIsTrue`, `SystemWorkProtected`, `OwnChangeNotHeld` | work the guard saw on the system profile is not overwritten; the agents' own half-done deploys hold nothing back; "up to date" is true |
| `deploy` | 5 requests (plain, seeded, override that fits nothing, split in two, split with sudo), 2 descendants, channel of 2, 2 passwords | `TypeOK`, `SignalsOwnGroup`, `TornDownWhole`, `LoginFits`, `OnePasswordLost`, `KeepsPromise`, `CancelEnds` | a deploy keeps its promise, and a cancel leaves nothing behind |
| `session` | 3 hosts, one skipped; batches of 1 to 3; 2 askers; interactive sudo | `TypeOK`, `NoSurpriseDeploy`, `AnswersTheirPrompt`, `PasswordDiesWithDeploy`, `DialogAnswered` | nothing unconfirmed is deployed; passwords go where they were asked for and no further |
| `probes` | 1 host, 1 profile, 3 versions of the flake, 3 keys | `SpinnerJustified`, `MeasuredAsShown`, `SaidSinceDeploy`, `ChecksSayTrue` | what is on screen is justified whatever order reports come in, and what the checks say is so |
| `agent_view` | 2 agents of 2 hosts, 8 scenarios of keys, runs, lines and faults; channel, log and history of 2; fair | `LogsApart`, `ShownIsCurrent`, `FetchUnderWay`, `LinesInOrder`, `ApprovalWarned`, `ViewCatchesUp` | status, tail and logs belong to the agent shown, no approval without its warning, and the view catches up |
| `job_log` | 2 hosts, 4 kinds of line, pane of 2 rows, buffer of 7, 4 scenarios | `WindowSuffices`, `MatchOnScreen`, `CursorOnScreen` | offsets that are numbers stay true to the lines they stood for |
| `dropped_polls`, `kick_refused`, `work_overwritten`, `askpass_wedged` | smallest instance that shows it | one claim each, violated | [see below](#disagreements) |

Four events are enough for the longest story the single-host properties tell
(push, fail, approve, crash); the properties of several hosts and watches need
a cancel or a second trigger and one change outside, with two runs under way one
after the other, or a disk that is full and a crash (a daemon that comes back to an
older file).
`Converges` says where a host gets to once the world leaves it alone (newest
head, or parked or held at it, or paused), and that no host stays pending while
ssh gets in.

The scenarios of `drift_guard` share out hand deploys, faults, approvals and
checks instead of multiplying them; each has every pair of them that can meet in
one run. Three commits make "older", "deployed" and "newer"; two profiles read
in another order than they are activated are what one blessing for the whole host
needs.

A channel of two lines is enough for `deploy`: what matters is full, empty
and in between (256 in the code); two descendants tell "some" from "all", and a
plan has at most two children because deploy-rs knows a system and a home
profile. `session` needs three hosts so that a batch has a host to go on to and
one to pass over, and two askers so that one can wait while the other is
served; an unread sudo prompt at a time bounds the mail. `probes` numbers its
keys: three are a probe, the one that overtakes it or the deploy, and a cancel; the
flake is edited once within its release and once to another. In `agent_view` a
log of two lines is enough to be cut, a history of two for a run to be pushed
out while it is fetched. In `job_log` a buffer of seven lines is full at the start
of three scenarios, so that every further line pushes one out, and a pane of two rows is
shorter than a wrapped line of three.

`CHECK_DEADLOCK FALSE` everywhere: once the events are spent, a dead process
restarts, but a quiet daemon whose polls all change nothing may have only
stuttering steps left, a deploy is over, and a program that was left, or whose
scenario is spent, does nothing.

## Fairness

`Fairness` is weak fairness of: the run task and the handling of its result
(the runtime polls its tasks; a deploy ends some way or other - the code has no
timeout of its own, so a deploy that hangs for ever is excluded by
assumption); the validation's result; each watch's *fruitful* poll (its timer
fires again and again, and `git ls-remote` eventually answers while there is
something to deploy); each armed recheck timer; the self-check timer; and the
restart (`Restart=always` in the unit). Nothing is assumed of operators, the
network, pushes, crashes or the success of a deploy.

`HandsOverAtLast` carries an exception that the code needs: while a host stays
pending, every recheck and poll may start another round for it and queue more
polls behind it, and the daemon hands over only when it is idle with an empty
queue, so nothing guarantees that it ever does.

`DeployProc`: the task's steps (a child's exit, a signal, a send) are strongly
fair, because tokio's channel hands its slots to waiting senders in turn: a
chatty child cannot keep the task's own lines out for ever. The forwarders see
the end of a stream, a reading listener goes on reading, and a listener that
leaves does leave once its five seconds are over (`Stuck`: what the task cannot
do by itself is what the timeout is for; the grace period is shorter). Nothing
is assumed of the child and its descendants; that is why `CancelEnds` has the
exception of a child that exited by itself and left a writer behind.
`AgentView`: verbs are run and answered or time out (`VERB_TIMEOUT`), the event loop
drains its channel, and the tick of the open view comes again. Nothing is assumed
of agents or keys, nor that an answer is not lost. Of a tail it is assumed that it
ends when its agent goes down: a connection that is left half open, for which the
client asks ssh no keepalive, would hold the view's handle and not be revived. `ViewCatchesUp` says
"while the view stays on an agent that is up", because lost answers are bounded
by the scenario and each costs one more tick.
`DeploySession`: the user deals with an askpass dialog that is on the screen,
the App's loop takes its prompts, the server its replies.

## What is proved

For every value of the constants: any revisions, paths, watches and hosts, any
assignment of hosts to watches, any options and any number of events; any
requests and plans of any length, any number of descendants, channels of any
capacity; any batches, skipped hosts and askers; any profiles, versions and
caches; any agents, histories and logs; any lines, panes and buffers; any number of keys,
faults and deploys by hand. What is assumed of the
constants are the named `ASSUME`s of the modules: `None` is not a value of
the other sets, the options are subsets of the hosts (`HostLedger`,
`AgentDaemon`); a request has a sequence of profiles and four flags, the
channels hold at least one item (`DeployProc`); a batch is a sequence of hosts
(`DeploySession`); there is a profile, a version has finitely many packages, none of
them a profile's closure, and a list of caches (`ProbeStatus`); there are finitely
many agents, and the channel, the log and the history hold at least one item
(`AgentView`); a line takes a row at least, the pane has one and the buffer room for one
(`JobLog`). `DriftGuard`'s are named with its theorems.

The daemon (`AgentDaemonProofs`, `HostLedgerProofs`):

| Theorem | States | By |
|---|---|---|
| `TypeCorrect` | `Spec => []TypeOK` | `TypeOK` is inductive; one lemma per action, with lemmas for what a poll, a drained queue and an outcome build |
| `LoopCorrect` | `LoopInOrder` = `SingleFlight`, `QueueOnlyWhileBusy`, `HandoverPending` | together with the type they are inductive; none is alone: a hand-over is pending only if something runs, and a drained poll may start a run only because validation has just ended |
| `RecheckAlwaysArmed` | `RecheckArmed` | the timer set only grows except in its own handler; the key step is that an outcome marks a host pending only in a run with `HadOffline`, and that loading a file marks nothing new |
| `LedgerAlwaysConsistent`, `RunAlwaysNeeded` | `LedgerConsistent`, `RunStillNeeded` | `LedgerInv` strengthens them with the shape of the run in flight (its plan is what was eligible, outcomes only for planned hosts): without it an outcome "offline" could land on a host that is already at the revision |
| `NothingLost` | `NothingUnsaved` on a disk that never fills | `SavedInv`; a recheck that does not save found nothing marked and changed nothing |
| `FirstContactAlwaysHeld` | `FirstContactHeld` | `WalkInv`: every planned host waits, is the one being deployed or has its outcome; a plan entry that does not adopt belongs to a deployed or blessed host, and no handler takes a `deployed` stamp away during the run |
| `CancelLeavesVerdicts` | `CancelSettles`, for recorded runs cancelled or not | `WalkInv` at the end of the walk: nothing waits, so every planned host has an outcome; only a host with `catch_up` has one that leaves it pending |
| `RoundsArePaidFor` | `NoSameCommitRetry` of `AgentRounds`, on a disk that never fills | `BurnInv`: a commit burned in the run in flight is that run's and the host has its outcome; one of an earlier run is the host's park and no approval stands beside it, in memory and, by `SavedInv`, in the file a restart reads; every run begins as `NewRun` of the state its handler leaves (`RunsBeginNew`), which passes parks over |
| `WorkFinishedFirst` | `NoWorkCutShort` | `LoopInOrder`: a kick can never be the last command, because a hand-over pending before it means the pipeline is busy |

One deploy (`DeployProcProofs`). `TaskInv` ties the task's program point to its
child (it awaits one exactly from `wait` to `reap`), the pushed profiles to the
children that exited 0 (`Upto(req, at)` is what the first `at` children push,
and only the one under way can have exited otherwise), and the signalled group to
the helpers in it (empty from the SIGKILL on; a child still waited for has not
been signalled). The plan enters through two lemmas: `PlanShape` (one child for the
selection or one for each profile, never none) and `PlanFits`.

| Theorem | States | By |
|---|---|---|
| `TypeCorrect`, `GroupIsOurs`, `TearDownIsWhole` | `TypeOK`, `SignalsOwnGroup`, `TornDownWhole` | `TaskInv` |
| `LoginIsRight` | `LoginFits` | `PlanFits`, and that a live child belongs to the plan |
| `PasswordsSurvive` | `OnePasswordLost` | `PasswordInv`: a writer that waits, holds the receiver or is still to come has lost none; it needs that each child gets one writer and that the lock's holder no longer waits |
| `PromiseKept` | `KeepsPromise` (the refinement of `DeployPromise`) | a child that exits 0 extends the prefix (`UptoExtends`) and is a `Push`, or a stutter if nothing was selected; a cancel is an `Ask`; the last line is an `End`, "ok" only at the plan's end or after a cancel |

Batches and dialogs (`DeploySessionProofs`):

| Theorem | States | By |
|---|---|---|
| `TypeCorrect`, `NothingUnconfirmed` | `TypeOK`, `NoSurpriseDeploy` | `BatchInv`: what a password dialog holds back was confirmed, a confirmation or that dialog is open only without a session, and lines wait only for a session |
| `PasswordsDie` | `PasswordDiesWithDeploy` | from `BatchInv`, action by action; `StartNextEffect` says what is left of a queue no host of which can be started |
| `AnswersMatch` | `AnswersTheirPrompt` | `PromptInv`: a dialog on the screen has nothing in either channel |

The drift guard (`DriftGuardProofs`), assuming that the two orders are sequences of
all the profiles, that "system" is one, and that a baseline names a source for each
profile; of the scenarios, that a daemon that is alone has no one-shot checks beside
it, and that a host recorded as deployed without a baseline holds the commit on
every profile but for people's work (a deploy that could not be read back,
`StartsAssumption`):

| Theorem | States | By |
|---|---|---|
| `LookedFirst` | a guarded run that activates saw every profile as recorded, or the system in the watched history | `Guard(run)`, which each look extends by one profile |
| `SystemWorkSurvives` | `SystemWorkProtected` | the same; what the run saw of the system is either still there, and may go, or was replaced after the look |
| `BaselinesWhole` | `BaselineWhole`, the first part of `RecordIsTrue` | `Covered(run, host)`: a profile behind the run's position is on the host and, when reading back, in the paths; nobody takes a profile away |
| `OwnChangeNeverHeld` | `OwnChangeNotHeld` | `Traced`: work on a profile is people's, and where there is a baseline a profile people did not touch is there. A run that the guard ends has asked the system what it was built from, so without people that is a commit, and not an older one |
| `RecordAlwaysTrue` | `RecordIsTrue` | `Believes`: the daemon's run deploys something newer than its record, so one that breaks off leaves a record the branch has passed; what the run has activated or found is still there (`Follows`), so one that settles makes the record true. File and memory agree on what is deployed, so a restart changes nothing |

The probes (`ProbeStatusProofs`). `Types` gives every probe, report and status the
shape its handlers rely on, and says of each report that it answers its question
(`Fits`); the lemmas about `DiffPackages`, `CacheDrift` and `ParseDryRun` are where
that comes from. The other invariants are about `Outstanding`, the probes under way
and the reports unread: a key only adds to it (`KeysOnlyAsk`, `AskingKeeps...`), a
report only takes from it and says what it answers (`TellingKeeps...`).

| Theorem | States | By |
|---|---|---|
| `TypesAlways` | `Types` | inductive; a dry run is read by a function over its lines, so `ReadsExists`, `ParseCollects` and `DryRunIsRead` go by induction over them (`Induction`, from the well-founded order of the naturals) |
| `MeasuredAlwaysAsShown` | `MeasuredAsShown` | `MeasuredInv`: a size or diff under way is about the paths shown, or `late` names it |
| `AlwaysSaidSinceDeploy` | `SaidSinceDeploy` | `SinceInv`: a probe under way was asked for after the last wipe, or `late` names it |
| `SpinnerAlwaysJustified` | `SpinnerJustified` | inductive with `Types`; `x` clears the flags of exactly the probes it drops |
| `ChecksAlwaysSayTrue` | `ChecksSayTrue` | inductive with `Types`: what is shown is what an answer said, and answers fit |

The agent view (`AgentViewProofs`). All of it follows from
one inductive invariant, `ViewInv`, because the two logs change places and what is on
its way may belong to an agent shown before.

| Theorem | States | The part of `ViewInv` that carries it |
|---|---|---|
| `TypesAlways` | `Types` | servers, agents, tasks, reports, tails and status have their shapes |
| `LogsAlwaysApart` | `LogsApart` | `Logs`: whose the log and the stash are, by whether the view is open |
| `ShownAlwaysCurrent` | `ShownIsCurrent` | status and tail are of the agent shown; a report names its agent |
| `FetchAlwaysUnderWay` | `FetchUnderWay` | the mark, and the verb or report that will clear it |
| `LinesAlwaysInOrder` | `LinesInOrder` | `LiveInOrder`, with `HistoriesOk`, `LogTasksOk` and `BackfillsOk`: how far each tail and each backfill has come |
| `ApprovalAlwaysWarned` | `ApprovalWarned` | `Warned`: a pending approval was warned of on screen |

The job log (`JobLogProofs`). The renderer's offset and first row are `CHOOSE`n from
running sums over the lines, so what comes first is that those sums exist and rise
by a row at least with each line (`RowsAre`), and from that what `Offsets` chooses:
`Capped` and `IsFirst`, for any view (`OffsetsAre`), and the same from the window
as from all lines (`WindowRows`, `WindowOffsets`, `PaintedIs`). They go by induction
over the lines, in sets of numbers (`Induction`).

| Theorem | States | By |
|---|---|---|
| `WindowAlwaysSuffices` | `WindowSuffices` | `PaintedIs`: the clamp shortens an offset only where the rows above it fit on the pane, and then the window is the whole view; otherwise the first row on the pane is on one of the window's lines, since it is `Height` rows above the offset and each line takes one at least |
| `MatchAlwaysOnScreen` | `MatchOnScreen` | `MatchGoes`: only a committed query, `n` and `N` set the number, and to one that is shown (`AdvancedIs`); the line the code finds is the line of that match (`MatchIs`), and the line an offset counts to is on the pane whatever wraps (`OffsetOnScreen`) |
| `CursorAlwaysOnScreen` | `CursorOnScreen` | `PaneInv`: the top, as last drawn, is less than a pane above the bottom (`TopIs`), so the cursor is at most a pane above the offset that follows it (`MovedIs`), and without wrapping that is on the pane (`UnwrappedOnScreen`) |

Not proved: liveness (`Converges`, `HandsOverAtLast`, `CancelEnds`, `DialogAnswered`,
`ViewCatchesUp`; the prover does not do fairness), which is model-checked only. Every
invariant and every safety property of a step that a run checks is a theorem.
`HostChecks` states nothing of its own; what its operators compute is proved where
`ProbeStatus` shows it.

## Disagreements

Each is a run that TLC ends with a counterexample.

- `dropped_polls` - three polls wait behind a run; when it ends the first one
  starts a new run and the others are gone, although the comment says "the rest
  stays queued" (`daemon.rs:1035`). Nothing but their next scheduled poll (which
  may be a day away) brings them back; an explicit kick is simply lost.
- `kick_refused` - a host fails at the head and is parked; a kick does not start a
  round for it, since `request_poll` skips a parked host whatever the trigger
  (`daemon.rs:880`). `README.md:260`, `docs/agent-design.md:49`,
  `docs/getting-started.md:313` and the help of `cancel` (`main.rs:119`) name the kick among
  what ends a park. The daemon's own log says it right ("approve, or push a new
  commit", `daemon.rs:924`).
- `work_overwritten` - somebody deploys a dirty tree to the home profile by hand.
  The guard sees that home differs from its baseline, asks what the *system* was
  built from, finds that in the watched history and lets the whole host go ("one
  generation, one blessing", `runner.rs:693`). The README says that uncommitted work
  survives the scheduled update. `SystemWorkProtected` shows that what the guard saw
  on the system profile does survive.
- `askpass_wedged` - the askpass server waits for the App's answer to the one
  prompt it serves, and relies on getting one (`askpass.rs:204`). The App takes
  the dialog away without an answer when the deploy ends (`app.rs:4352`, `4440`),
  when a sudo prompt arrives (`4324`) and on Ctrl-C (`1268`, also when quitting is
  then declined). `DialogAnswered` shows that these are the only ways: a dialog
  that is not covered by something else is answered.

Seen while modelling, without a run of its own:

The daemon.
- A cancel that arrives while the pre-deploy probe is asking a sleeping host: the run
  records "offline", not "cancelled", and catch-up deploys the host as soon as it
  wakes (`runner.rs:579`; `runner.rs:368` says it must not quietly resume).
- An approval given during a run is consumed by that run's failure
  (`state.rs:158`); a revoke during the run it approved answers "holds again" and
  changes nothing for that run, whose plan was copied at the poll (`daemon.rs:709`).
- A failure that no record names is forgotten: after a crash before `RunDone` the host
  is tried again at the same commit (`daemon.rs:1007`). A round at another commit that
  finds the host out of reach erases its park (`state.rs:169`); if the branch is then set
  back to the parked commit, that is tried again too.
- Other ways over somebody's work: at first contact without the closure at hand
  names and versions alone are compared (`parsed_paths_equivalent`), so that a dirty
  tree of the same release is adopted; what is put there between activation and
  read-back becomes the baseline. After a `check` beside it the daemon may take a
  host for up to date that runs an older commit (`RecordIsTrue` is stated for a
  daemon that is alone).
- The log of a run that is no longer stored is answered 404, which the client
  reports as an agent "older than this CLI".

Deploys in the TUI.
- A batch that ends on skipped hosts keeps the cached password (`app.rs:4395`),
  though it is documented to be zeroed when the action ends; `PasswordDiesWithDeploy`
  shows that this is the only way a batch can leave one. A passphrase typed for a
  probe's ssh stays in the cache and becomes the sudo password of the next deploy
  (`app.rs:2100`).
- The notice that announces a cancel is sent before SIGTERM, and on quit nobody
  reads the channel; if it is full the group leader is killed on drop and its
  descendants stay (`deploy.rs:896`, `app.rs:1049`). The receiver is dropped only
  after the five seconds, so that at best a SIGTERM still goes out while the program
  ends; the SIGKILL never does.

Probes.
- An update check that lands between a size report and the diff it leads to mixes the
  sizes of one closure with the diff of another (`app.rs:3283`); `MeasuredAsShown`
  exempts what was under way when the paths were replaced, and nothing else.

The agent view.
- Tail lines already queued, or a backfill, of the agent that was shown before land
  in the log of the next one (`app.rs:3938`); a run that ends during a backfill
  stands there twice, once live (`app.rs:3169`).
- `p` sends the watch and the host together (`app.rs:3878`), the CLI passes both on,
  and the API refuses the pair: "pass either watch or host, not both"
  (`api.rs:163`, `Refuses` in `AgentView`). The key pauses and resumes nothing,
  though `README.md:363` and `docs/getting-started.md:324` list it.
- A pending approval survives a change of agent by `[` or `]`; `r` never fetches the
  history again, and neither does reopening the view.

The job log.
- `y` with a selection on an empty view (select, then move to a host without
  lines) indexes out of range and ends the program (`joblog.rs:9-12`). Selections
  are numbers of lines: when old lines fall off, or another host is selected, what
  `y` copies slides against what was lit. `WindowSuffices`, `MatchOnScreen` and
  `CursorOnScreen` say what does stay true.
- With wrapped lines the cursor of a selection can leave the top of the pane;
  `CursorOnScreen` therefore speaks of lines that do not wrap.

## Not modelled

The read-only commands of the daemon other than what the view fetches. Cadence
arithmetic, the configuration file, notifications, JSON and HTTP framing, git and ssh
plumbing, Nix evaluation, colours and the panes other than the job log: pure or
I/O. Seeding, trusted users and ssh endpoint discovery. Mouse clicks, the overrides
menu, the help pane. Signals that arrive inside a handler: finer than one action per
handler. Panics of tasks. What a cancelled deploy of the TUI and the next one of the
same host do to each other: two `DeployProc`s under one session. See `components`
and `hazards` in `PROJECT.json`.

## Plan

1. `HostLedger`, `AgentDaemon`, `AgentRounds`, `DeployPromise`, `DeployProc`, `DeploySession`,
   `DriftGuard`, `HostChecks`, `ProbeStatus`, `AgentView`, `JobLog` - done.
2. Proofs of the daemon, the wrapper, the batches, the drift guard, the probes, the
   agent view and the job log - done.
3. `TuiDeploy`: `DeploySession` with the deploys it starts, each kept to
   `DeployPromise`, so that a deploy cancelled by `x` and the next one of the same
   host can be told apart: what the App shows as the outcome of a host is the
   verdict of the deploy it was confirmed for.
4. Signals against handlers: a finer loop for `AgentDaemon`, with the SIGTERM that
   arrives while a handler is awaited.
