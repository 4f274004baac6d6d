----------------------------- MODULE DeployProc -----------------------------
(***************************************************************************)
(* One deploy::run (deptui-core, deploy.rs): the task that seeds the       *)
(* target, starts one `deploy` child per invocation of the plan, forwards  *)
(* output through a bounded channel, answers sudo prompts through the      *)
(* child's stdin, and tears a cancelled child down with its process group. *)
(*                                                                         *)
(* Actors: the task (run_inner, run_one, run_seed), the output forwarders  *)
(* and the stdin writers it spawns, the processes, and the listener that   *)
(* holds the DeployHandle (the TUI's loop or the agent's run task).        *)
(*                                                                         *)
(* Abstractions.  Arguments, wording and the text of lines are left out; a *)
(* line is one slot of the channel, lines sent in a row are one, and both  *)
(* forwarders of a child are one.  An exit code is 0 or 1 (any other, or   *)
(* death by a signal).  The child's descendants are a set of helpers in    *)
(* its process group.                                                      *)
(***************************************************************************)
EXTENDS Naturals, Sequences, SequencesExt

CONSTANTS
  None,
  Profiles,   \* what a flake says of a profile: its name and its user
  Requests,   \* the DeployRequests to consider
  Helpers,    \* descendants a child may start (nix, ssh)
  Capacity,   \* lines the channel holds (256 in the code)
  Passwords   \* sudo passwords stdin_tx holds (4 in the code)

ASSUME RequestsAssumption ==
  \A r \in Requests :
    /\ r.profiles \in Seq(Profiles)
    /\ {r.known, r.override, r.seed, r.sudo} \subseteq BOOLEAN

ASSUME CapacityAssumption == Capacity \in Nat \ {0} /\ Passwords \in Nat \ {0}

ASSUME NoneIsNoVerdict == None \notin {"ok", "failed", "unstarted"}

VARIABLES
  \* the task
  req,        \* the DeployRequest
  pc,         \* where the task is
  at,         \* the invocation under way, 0 before the first
  verdict,    \* the final line: Exit(0), Exit(other) or Error, or none sent
  \* the processes
  leader,     \* the current child: "none", "alive", "exited" (not reaped)
  code,       \* the code it exited with
  group,      \* invocation whose process group a helper runs in, 0 if none
  piped,      \* helpers that hold the child's stdout or stderr open
  pushed,     \* profiles whose child exited 0
  \* between the task and its listener
  cancel,     \* the watch channel of DeployCanceller
  listener,   \* "reading", "dropped" its receiver, "deaf", or "left"
  lines,      \* lines in the channel
  readers,    \* the child's forwarders are running
  torn,       \* history: the current child's group got the signals
  \* sudo passwords
  answers,    \* stdin_tx: per password, the invocation that asked
  lock,       \* invocation whose stdin writer holds the receiver, 0 if none
  waiting,    \* invocations whose stdin writer waits for the receiver
  eaten       \* passwords a writer took and could not deliver

processes == <<leader, code, group, piped, pushed>>
channel == <<lines, readers>>
passwords == <<answers, lock, waiting, eaten>>
task == <<req, pc, at, verdict, torn>>
vars == <<task, processes, cancel, listener, channel, passwords>>

-----------------------------------------------------------------------------
(* DeployRequest::plan.  A profile is its name and the user it is          *)
(* activated as; "login" stands for the user of the ssh override.          *)

Fits(profile) == profile.user \in {None, "login", "root"}

(* Names are the keys of an attribute set: one selects at most one.        *)
Selected(r) ==
  LET named == {i \in DOMAIN r.profiles : r.profiles[i].name = r.select}
  IN  IF r.select = "all" THEN r.profiles
      ELSE IF named = {} THEN << >>
      ELSE << r.profiles[CHOOSE i \in named : TRUE] >>

(* What discovery reported of the selection. *)
Discovered(r) == IF r.known THEN Selected(r) ELSE << >>

(* One child for the whole selection. *)
Whole(r, login) == << [pushes |-> Selected(r), login |-> login] >>

(* Mutant of Plan: one profile the override fits is enough.                *)
PlanIfSomeFit(r) ==
  IF r.override /\ (\A p \in Range(Discovered(r)) : ~ Fits(p)) THEN Whole(r, FALSE)
  ELSE Whole(r, r.override)

Plan(r) ==
  LET known == Range(Discovered(r))
  IN  IF ~ r.override THEN Whole(r, FALSE)
      ELSE IF \A p \in known : Fits(p) THEN Whole(r, TRUE)
      ELSE IF \A p \in known : ~ Fits(p) THEN Whole(r, FALSE)
      ELSE [i \in DOMAIN Discovered(r) |->
              [pushes |-> << Discovered(r)[i] >>, login |-> Fits(Discovered(r)[i])]]

Children == UNION {0 .. Len(Plan(r)) : r \in Requests}

TypeOK ==
  /\ req \in Requests
  /\ pc \in {"start", "seed", "next", "wait", "stopping", "grace", "reap", "drain",
             "final", "over", "dropped"}
  /\ at \in Children
  /\ verdict \in {None, "ok", "failed", "unstarted"}
  /\ leader \in {"none", "alive", "exited"}
  /\ code \in {0, 1}
  /\ group \in [Helpers -> Children]
  /\ piped \in SUBSET Helpers
  /\ pushed \in Prefixes(Selected(req))
  /\ cancel \in BOOLEAN
  /\ listener \in {"reading", "dropped", "deaf", "left"}
  /\ lines \in 0 .. Capacity
  /\ readers \in BOOLEAN
  /\ torn \in BOOLEAN
  /\ answers \in Seq(Children) /\ Len(answers) <= Passwords
  /\ lock \in Children
  /\ waiting \in SUBSET Children
  /\ eaten \in [Children -> Nat]

Init ==
  /\ req \in Requests
  /\ pc = "start"
  /\ at = 0
  /\ verdict = None
  /\ leader = "none"
  /\ code = 0
  /\ group = [h \in Helpers |-> 0]
  /\ piped = {}
  /\ pushed = << >>
  /\ cancel = FALSE
  /\ listener = "reading"
  /\ lines = 0
  /\ readers = FALSE
  /\ torn = FALSE
  /\ answers = << >>
  /\ lock = 0
  /\ waiting = {}
  /\ eaten = [c \in Children |-> 0]

-----------------------------------------------------------------------------
(* The task. *)

(* tx.send: waits while the channel is full, and fails at once when the    *)
(* receiver is gone; the caller goes on either way.                        *)
Send ==
  IF listener = "dropped" THEN UNCHANGED lines
  ELSE lines < Capacity /\ lines' = lines + 1

Goto(label) == pc' = label

(* Nothing has been sent or started when a cancel is seen before seeding.  *)
Start ==
  /\ pc = "start"
  /\ IF req.seed /\ cancel THEN Goto("over") /\ verdict' = "unstarted"
     ELSE Goto(IF req.seed THEN "seed" ELSE "next") /\ UNCHANGED verdict
  /\ UNCHANGED <<req, at, torn, processes, cancel, listener, channel, passwords>>

(* run_seed: done, failed or cancelled, the deploy goes on all the same.   *)
SeedEnds ==
  /\ pc = "seed"
  /\ Send
  /\ Goto("next")
  /\ UNCHANGED <<req, at, verdict, torn, processes, cancel, listener, readers, passwords>>

(* The next child of the plan, announced when there are several or the     *)
(* override is withheld from it.  Nothing looks at the cancel flag here.   *)
Announces == Len(Plan(req)) > 1 \/ (req.override /\ ~ Plan(req)[at + 1].login)

Announced == IF Announces THEN Send ELSE UNCHANGED lines

Spawn ==
  /\ pc = "next"
  /\ Announced
  /\ Goto("wait")
  /\ at' = at + 1
  /\ leader' = "alive"
  /\ readers' = TRUE
  /\ torn' = FALSE
  /\ waiting' = IF req.sudo THEN waiting \cup {at + 1} ELSE waiting
  /\ UNCHANGED <<req, verdict, code, group, piped, pushed, cancel, listener, answers,
                 lock, eaten>>

(* No `deploy` binary, no pty: the Error line is the last one. *)
SpawnFails ==
  /\ pc = "next"
  /\ Send
  /\ Goto("over")
  /\ verdict' = "failed"
  /\ UNCHANGED <<req, at, torn, processes, cancel, listener, readers, passwords>>

(* Mutant of Reaped: the child is also waited for during the grace period. *)
ReapedEarly ==
  /\ pc \in {"wait", "grace"}
  /\ leader = "exited"
  /\ leader' = "none"
  /\ Goto(IF pc = "wait" THEN "drain" ELSE "grace")
  /\ UNCHANGED <<req, at, verdict, torn, code, group, piped, pushed, cancel, listener,
                 channel, passwords>>

(* The select! of run_one: the child's exit, or the cancel, whichever is   *)
(* looked at first when both are there.                                    *)
Reaped ==
  /\ pc = "wait"
  /\ leader = "exited"
  /\ leader' = "none"
  /\ Goto("drain")
  /\ UNCHANGED <<req, at, verdict, torn, code, group, piped, pushed, cancel, listener,
                 channel, passwords>>

SeesCancel ==
  /\ pc = "wait"
  /\ cancel
  /\ Goto("stopping")
  /\ UNCHANGED <<req, at, verdict, torn, processes, cancel, listener, channel, passwords>>

(* The notice is sent first, then SIGTERM; what the signal does is left to *)
(* the processes, which may exit at any time.                              *)
Term ==
  /\ pc = "stopping"
  /\ Send
  /\ Goto("grace")
  /\ torn' = TRUE
  /\ UNCHANGED <<req, at, verdict, processes, cancel, listener, readers, passwords>>

(* Mutant of Kill: kill_on_drop's reach, the group leader only.            *)
KillLeader ==
  /\ pc = "grace"
  /\ Goto("reap")
  /\ leader' = "exited"
  /\ code' = IF leader = "alive" THEN 1 ELSE code
  /\ UNCHANGED <<req, at, verdict, torn, group, piped, pushed, cancel, listener, channel,
                 passwords>>

(* Mutant of Kill: the group is asked to stop, never made to.              *)
TermOnly ==
  /\ pc = "grace"
  /\ Goto("reap")
  /\ UNCHANGED <<req, at, verdict, torn, processes, cancel, listener, channel, passwords>>

(* SIGKILL to the group: nobody in it survives. *)
Kill ==
  /\ pc = "grace"
  /\ Goto("reap")
  /\ leader' = "exited"
  /\ code' = IF leader = "alive" THEN 1 ELSE code
  /\ group' = [h \in Helpers |-> IF group[h] = at THEN 0 ELSE group[h]]
  /\ piped' = {h \in piped : group[h] # at}
  /\ UNCHANGED <<req, at, verdict, torn, pushed, cancel, listener, channel, passwords>>

ReapedAfterKill ==
  /\ pc = "reap"
  /\ leader = "exited"
  /\ Send
  /\ leader' = "none"
  /\ Goto("drain")
  /\ UNCHANGED <<req, at, verdict, torn, code, group, piped, pushed, cancel, listener,
                 readers, passwords>>

(* Mutant of Drained: a failed profile does not stop the ones behind it.   *)
DrainedWhateverCode ==
  /\ pc = "drain"
  /\ ~ readers
  /\ Goto(IF ~ cancel /\ at < Len(Plan(req)) THEN "next" ELSE "final")
  /\ UNCHANGED <<req, at, verdict, torn, processes, cancel, listener, channel, passwords>>

(* Both forwarders are done: the next child, or the end of the loop.       *)
Drained ==
  /\ pc = "drain"
  /\ ~ readers
  /\ Goto(IF code = 0 /\ ~ cancel /\ at < Len(Plan(req)) THEN "next" ELSE "final")
  /\ UNCHANGED <<req, at, verdict, torn, processes, cancel, listener, channel, passwords>>

(* The Exit line. *)
Finish ==
  /\ pc = "final"
  /\ Send
  /\ Goto("over")
  /\ verdict' = IF code = 0 THEN "ok" ELSE "failed"
  /\ UNCHANGED <<req, at, torn, processes, cancel, listener, readers, passwords>>

Task ==
  \/ Start \/ SeedEnds \/ Spawn \/ SpawnFails \/ Reaped \/ SeesCancel \/ Term \/ Kill
  \/ ReapedAfterKill \/ Drained \/ Finish

-----------------------------------------------------------------------------
(* The processes and the forwarders that read from them. *)

InGroup == {h \in Helpers : at > 0 /\ group[h] = at}

Writers == piped \cap InGroup

LeaderExits(c) ==
  /\ leader = "alive"
  /\ leader' = "exited"
  /\ code' = c
  /\ pushed' = IF c = 0 THEN pushed \o Plan(req)[at].pushes ELSE pushed
  /\ UNCHANGED <<task, group, piped, cancel, listener, channel, passwords>>

HelperStarts(h) ==
  /\ leader = "alive"
  /\ group[h] = 0
  /\ group' = [group EXCEPT ![h] = at]
  /\ piped' = piped \cup {h}
  /\ UNCHANGED <<task, leader, code, pushed, cancel, listener, channel, passwords>>

HelperExits(h) ==
  /\ group[h] # 0
  /\ group' = [group EXCEPT ![h] = 0]
  /\ piped' = piped \ {h}
  /\ UNCHANGED <<task, leader, code, pushed, cancel, listener, channel, passwords>>

(* A daemon of its own: stdout and stderr point elsewhere. *)
HelperDetaches(h) ==
  /\ h \in piped
  /\ piped' = piped \ {h}
  /\ UNCHANGED <<task, leader, code, group, pushed, cancel, listener, channel, passwords>>

(* forward_lines: a line is sent; with the receiver gone the reader stops. *)
Output ==
  /\ readers
  /\ leader = "alive" \/ Writers # {}
  /\ Send
  /\ readers' = (listener # "dropped")
  /\ UNCHANGED <<task, processes, cancel, listener, passwords>>

EndOfOutput ==
  /\ readers
  /\ leader # "alive" /\ Writers = {}
  /\ readers' = FALSE
  /\ UNCHANGED <<task, processes, cancel, listener, lines, passwords>>

-----------------------------------------------------------------------------
(* The listener. *)

Receive ==
  /\ listener = "reading"
  /\ lines > 0
  /\ lines' = lines - 1
  /\ UNCHANGED <<task, processes, cancel, listener, readers, passwords>>

(* The TUI's `x` takes the session, and drops it with its receiver; the    *)
(* agent keeps reading until the channel closes.                           *)
Cancel ==
  /\ listener = "reading"
  /\ cancel' = TRUE
  /\ listener' \in {"reading", "dropped"}
  /\ lines' = IF listener' = "dropped" THEN 0 ELSE lines
  /\ UNCHANGED <<task, processes, readers, passwords>>

(* Leaving the TUI's main loop with a deploy running: the receiver is      *)
(* alive, nobody reads from it.                                            *)
Quit ==
  /\ listener = "reading"
  /\ cancel' = TRUE
  /\ listener' = "deaf"
  /\ UNCHANGED <<task, processes, channel, passwords>>

(* What the task cannot do by itself however long one waits. *)
Stuck ==
  \/ pc \in {"seed", "stopping", "reap", "final"} /\ lines = Capacity
  \/ pc = "next" /\ Announces /\ lines = Capacity
  \/ pc = "drain" /\ readers /\ Writers # {}

(* The task is given five seconds, more than the grace period it needs;    *)
(* then the runtime goes away and the child is killed on drop.             *)
Leave ==
  /\ listener = "deaf"
  /\ pc = "over" \/ Stuck
  /\ listener' = "left"
  /\ pc' = IF pc = "over" THEN pc ELSE "dropped"
  /\ leader' = "none"
  /\ readers' = FALSE
  /\ UNCHANGED <<req, at, verdict, torn, code, group, piped, pushed, cancel, lines, passwords>>

-----------------------------------------------------------------------------
(* Sudo passwords: one receiver behind a mutex, one writer per child. *)

(* Mutant of Answer: the channel takes any number of passwords.            *)
AnswerAlways ==
  /\ req.sudo /\ leader = "alive" /\ listener = "reading"
  /\ answers' = Append(answers, at)
  /\ UNCHANGED <<task, processes, cancel, listener, channel, lock, waiting, eaten>>

(* A SudoPrompt of the running child, answered by the listener (try_send). *)
Answer ==
  /\ req.sudo /\ leader = "alive" /\ listener = "reading"
  /\ Len(answers) < Passwords
  /\ answers' = Append(answers, at)
  /\ UNCHANGED <<task, processes, cancel, listener, channel, lock, waiting, eaten>>

WriterTakes ==
  /\ lock = 0
  /\ \E c \in waiting :
       /\ \A d \in waiting : c <= d
       /\ lock' = c
       /\ waiting' = waiting \ {c}
  /\ UNCHANGED <<task, processes, cancel, listener, channel, answers, eaten>>

Deliverable == lock = at /\ leader = "alive"

(* Mutant of WriterReads: a failed write does not end the writer.          *)
WriterGoesOn ==
  /\ lock # 0 /\ answers # << >>
  /\ answers' = Tail(answers)
  /\ eaten' = IF Deliverable THEN eaten ELSE [eaten EXCEPT ![lock] = @ + 1]
  /\ UNCHANGED <<task, processes, cancel, listener, channel, lock, waiting>>

(* The writer that holds the receiver takes the next password, for         *)
(* whichever child it was meant.  Writing to a child that is gone fails    *)
(* and ends the writer.                                                    *)
WriterReads ==
  /\ lock # 0 /\ answers # << >>
  /\ answers' = Tail(answers)
  /\ IF Deliverable THEN UNCHANGED <<lock, eaten>>
     ELSE lock' = 0 /\ eaten' = [eaten EXCEPT ![lock] = @ + 1]
  /\ UNCHANGED <<task, processes, cancel, listener, channel, waiting>>

(* The sender went with the session: recv yields None. *)
WriterEnds ==
  /\ lock # 0 /\ answers = << >>
  /\ listener # "reading"
  /\ lock' = 0
  /\ UNCHANGED <<task, processes, cancel, listener, channel, answers, waiting, eaten>>

-----------------------------------------------------------------------------
Processes ==
  \/ \E c \in {0, 1} : LeaderExits(c)
  \/ \E h \in Helpers : HelperStarts(h)
  \/ \E h \in Helpers : HelperExits(h)
  \/ \E h \in Helpers : HelperDetaches(h)

Forwarders == Output \/ EndOfOutput

Listener == Receive \/ Cancel \/ Quit \/ Leave

Sudo == Answer \/ WriterTakes \/ WriterReads \/ WriterEnds

Next == Task \/ Processes \/ Forwarders \/ Listener \/ Sudo

Spec == Init /\ [][Next]_vars

(* The runtime runs the task and the forwarders, a listener that reads     *)
(* goes on reading, and one that leaves does leave.  Strong for the task:  *)
(* the channel hands out its slots in turn, so a line of the task is not   *)
(* kept out for ever by a chatty child.  Nothing is assumed of the         *)
(* processes.                                                              *)
Fairness ==
  /\ SF_vars(Task)
  /\ WF_vars(EndOfOutput)
  /\ WF_vars(Receive)
  /\ WF_vars(Leave)

FairSpec == Spec /\ Fairness
-----------------------------------------------------------------------------
(* The wrapper keeps the promise its users build on: profiles in order,    *)
(* each pushed once, a failure stops the rest, one verdict.                *)
Promise == INSTANCE DeployPromise WITH
  selection <- Selected(req), asked <- cancel

KeepsPromise == Promise!Spec

(* A process group is only signalled while its leader is unreaped, so that *)
(* its id cannot belong to anybody else by then (deploy.rs, run_one:       *)
(* "Holding the child unreaped keeps it a zombie").                        *)
SignalsOwnGroup == pc \in {"stopping", "grace"} => leader # "none"

(* Once a group was signalled for a cancel and the task has moved on,      *)
(* nothing that the child started is left, however it took the SIGTERM     *)
(* (deploy.rs, DeployCanceller; test cancel_kills_the_whole_process_group).*)
TornDownWhole == torn /\ pc \in {"drain", "final", "over"} => InGroup = {}

(* A child logs in as the override's user exactly for the profiles that    *)
(* user can activate; every other one keeps the flake's sshUser            *)
(* (deploy.rs, override_fits).                                             *)
LoginFits ==
  leader = "alive" /\ req.override /\ req.known =>
    \A p \in Range(Plan(req)[at].pushes) : Plan(req)[at].login <=> Fits(p)

(* A child that is gone costs its successors at most one password          *)
(* (deploy.rs, run_inner: "instead of the first one consuming it for       *)
(* good").                                                                 *)
OnePasswordLost == \A c \in Children : eaten[c] <= 1

(* A cancelled deploy comes to its end, unless the child had exited by     *)
(* itself and left somebody behind who keeps its output open.              *)
CancelEnds ==
  cancel ~> \/ pc \in {"over", "dropped"}
            \/ pc = "drain" /\ ~ torn /\ Writers # {}
=============================================================================
