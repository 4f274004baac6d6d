--------------------------- MODULE DeploySession ---------------------------
(***************************************************************************)
(* The TUI's deploy batches and password dialogs (app.rs), with the        *)
(* askpass server that relays ssh's prompts (askpass.rs).                  *)
(*                                                                         *)
(* Actors: the App's select! loop (one key, deploy line or prompt at a     *)
(* time), the deploy child of the session, known here only by the lines it *)
(* sends, the askpass server's accept loop, and the ssh processes that     *)
(* ask.                                                                    *)
(*                                                                         *)
(* Abstractions.  A password is a password: what is typed, its wiping and  *)
(* its wording are left out.  Of the input modes only those that a deploy  *)
(* goes through are kept; "other" is any dialog that takes the keys and    *)
(* gives them back.  Marks and the cursor become the choice of a batch;    *)
(* mode and profile only decide which hosts are skipped.                   *)
(***************************************************************************)
EXTENDS Naturals, Sequences, FiniteSets, SequencesExt

CONSTANTS
  None,
  Hosts,    \* the flake's nodes
  Batches,  \* the sequences of hosts a user may confirm
  Skipped,  \* hosts without the requested profile
  Askers,   \* ssh processes that may need a password
  Sudo      \* whether interactive-sudo can be switched on

ASSUME BatchesAssumption == Batches \subseteq Seq(Hosts) \ {<< >>}

ASSUME SkippedAssumption == Skipped \subseteq Hosts

ASSUME SudoAssumption == Sudo \in BOOLEAN

VARIABLES
  \* the App
  quit,         \* App.should_quit
  input,        \* App.input
  confirming,   \* the hosts of an open ConfirmDeploy
  pendingDeploy,\* App.pending_deploy
  session,      \* App.deploy
  cached,       \* App.cached_password is Some
  interactive,  \* App.toggles.interactive_sudo
  outcome,      \* App.last_deploys: per host "ok", "failed" or none yet
  \* the child of the session
  mail,         \* DeploySession.rx: lines that matter, in order
  \* askpass
  asking,       \* askers connected to the socket and not yet served
  serving,      \* the asker the accept loop is busy with
  prompts,      \* prompts in the channel to the App
  replies,      \* passwords in the channel to the server
  \* history
  confirmed,    \* hosts the user confirmed and whose batch still stands
  covered       \* an askpass dialog made way for something else

app == <<quit, input, confirming, pendingDeploy, session, cached, interactive, outcome>>
askpass == <<asking, serving, prompts, replies>>
vars == <<app, mail, askpass, confirmed, covered>>

Dialogs == {"askpass", "sudo", "sudoPre"}

Inputs == Dialogs \cup {"normal", "other", "confirm", "confirmQuit"}

OptBatch == Batches \cup {None}

Session == [current : Hosts, queue : Seq(Hosts), stdin : BOOLEAN]

Lines == {"sudoPrompt", "ok", "failed", "error"}

ASSUME NoneIsNothing == None \notin Batches \cup Session \cup Askers \cup Hosts

TypeOK ==
  /\ quit \in BOOLEAN
  /\ input \in Inputs
  /\ confirming \in OptBatch
  /\ pendingDeploy \in OptBatch
  /\ session \in Session \cup {None}
  /\ cached \in BOOLEAN
  /\ interactive \in BOOLEAN
  /\ outcome \in [Hosts -> {"ok", "failed", None}]
  /\ mail \in Seq(Lines)
  /\ asking \in SUBSET Askers
  /\ serving \in Askers \cup {None}
  /\ prompts \in Nat
  /\ replies \in Nat
  /\ confirmed \in SUBSET Hosts
  /\ covered \in BOOLEAN

Init ==
  /\ quit = FALSE
  /\ input = "normal"
  /\ confirming = None
  /\ pendingDeploy = None
  /\ session = None
  /\ cached = FALSE
  /\ interactive = FALSE
  /\ outcome = [h \in Hosts |-> None]
  /\ mail = << >>
  /\ asking = {}
  /\ serving = None
  /\ prompts = 0
  /\ replies = 0
  /\ confirmed = {}
  /\ covered = FALSE

-----------------------------------------------------------------------------
(* Batches. *)

NoneLeft(queue) == Range(queue) \subseteq Skipped

(* start_next_in_queue: hosts that cannot be deployed are passed over; a   *)
(* queue of nothing else leaves no session.                                *)
StartNext(queue) ==
  /\ mail' = << >>
  /\ \/ NoneLeft(queue) /\ session' = None
     \/ \E i \in DOMAIN queue :
          /\ queue[i] \notin Skipped
          /\ \A j \in 1 .. i - 1 : queue[j] \in Skipped
          /\ session' = [ current |-> queue[i],
                          queue |-> SubSeq(queue, i + 1, Len(queue)),
                          stdin |-> interactive ]

(* App.input moves on, whatever was on the screen. *)
Show(mode) ==
  /\ input' = mode
  /\ covered' = (covered \/ input = "askpass")

Key(mode) == ~ quit /\ input = mode

ToggleSudo ==
  /\ Sudo
  /\ Key("normal")
  /\ interactive' = ~ interactive
  /\ UNCHANGED <<quit, input, confirming, pendingDeploy, session, cached, outcome, mail,
                 askpass, confirmed, covered>>

OtherDialog ==
  /\ Key("normal") \/ Key("other")
  /\ Show(IF input = "normal" THEN "other" ELSE "normal")
  /\ UNCHANGED <<quit, confirming, pendingDeploy, session, cached, interactive, outcome,
                 mail, askpass, confirmed>>

RequestDeploy(batch) ==
  /\ Key("normal")
  /\ session = None
  /\ Show("confirm")
  /\ confirming' = batch
  /\ UNCHANGED <<quit, pendingDeploy, session, cached, interactive, outcome, mail, askpass,
                 confirmed>>

ConfirmNo ==
  /\ Key("confirm")
  /\ Show("normal")
  /\ confirming' = None
  /\ UNCHANGED <<quit, pendingDeploy, session, cached, interactive, outcome, mail, askpass,
                 confirmed>>

(* Interactive sudo wants a password before the child starts. *)
ConfirmYes ==
  /\ Key("confirm")
  /\ confirming' = None
  /\ confirmed' = Range(confirming)
  /\ IF interactive /\ ~ cached
     THEN /\ Show("sudoPre")
          /\ pendingDeploy' = confirming
          /\ UNCHANGED <<session, mail>>
     ELSE /\ Show("normal")
          /\ StartNext(confirming)
          /\ UNCHANGED pendingDeploy
  /\ UNCHANGED <<quit, cached, interactive, outcome, askpass>>

(* Mutant of CancelDeploy: the next host of the queue takes over.          *)
CancelCurrentOnly ==
  /\ Key("normal")
  /\ session # None
  /\ StartNext(session.queue)
  /\ cached' = FALSE
  /\ outcome' = [outcome EXCEPT ![session.current] = "failed"]
  /\ confirmed' = {}
  /\ UNCHANGED <<quit, input, confirming, pendingDeploy, interactive, askpass, covered>>

(* `x`: the session goes, with its queue and its receiver.  The old task   *)
(* tears the process group down by itself (DeployProc).                    *)
CancelDeploy ==
  /\ Key("normal")
  /\ session # None
  /\ session' = None
  /\ mail' = << >>
  /\ cached' = FALSE
  /\ outcome' = [outcome EXCEPT ![session.current] = "failed"]
  /\ confirmed' = {}
  /\ UNCHANGED <<quit, input, confirming, pendingDeploy, interactive, askpass, covered>>

(* The child speaks: a sudo prompt on stderr (one unread at a time bounds  *)
(* the mail), and one last line.                                           *)
ChildSays(line) ==
  /\ session # None /\ ~ quit
  /\ \A i \in DOMAIN mail : mail[i] = "sudoPrompt"
  /\ line = "sudoPrompt" => session.stdin /\ mail = << >>
  /\ mail' = Append(mail, line)
  /\ UNCHANGED <<app, askpass, confirmed, covered>>

Line(line) == ~ quit /\ mail # << >> /\ Head(mail) = line

(* With a password in the cache the child's stdin gets it. *)
SudoPromptLine ==
  /\ Line("sudoPrompt")
  /\ mail' = Tail(mail)
  /\ IF cached THEN UNCHANGED <<input, covered>> ELSE Show("sudo")
  /\ UNCHANGED <<quit, confirming, pendingDeploy, session, cached, interactive, outcome,
                 askpass, confirmed>>

(* Any password dialog is taken off the screen when the child has ended.   *)
CloseDialog == IF input \in Dialogs THEN Show("normal") ELSE UNCHANGED <<input, covered>>

(* Mutant of ExitOk: the cache is left to the next batch.                  *)
ExitOkKeepsPassword ==
  /\ Line("ok")
  /\ CloseDialog
  /\ outcome' = [outcome EXCEPT ![session.current] = "ok"]
  /\ StartNext(session.queue)
  /\ UNCHANGED <<quit, confirming, pendingDeploy, cached, interactive, askpass, confirmed>>

(* Exit(0): the batch goes on, or is over. *)
ExitOk ==
  /\ Line("ok")
  /\ CloseDialog
  /\ outcome' = [outcome EXCEPT ![session.current] = "ok"]
  /\ StartNext(session.queue)
  /\ cached' = (cached /\ session.queue # << >>)
  /\ UNCHANGED <<quit, confirming, pendingDeploy, interactive, askpass, confirmed>>

(* Exit with another code, or Error: the batch stops. *)
ExitFailed ==
  /\ Line("failed") \/ Line("error")
  /\ CloseDialog
  /\ outcome' = [outcome EXCEPT ![session.current] = "failed"]
  /\ session' = None
  /\ mail' = << >>
  /\ cached' = FALSE
  /\ confirmed' = {}
  /\ UNCHANGED <<quit, confirming, pendingDeploy, interactive, askpass>>

-----------------------------------------------------------------------------
(* Password dialogs. *)

(* Enter caches what was typed and sends it where it was asked for. *)
EnterAskpass ==
  /\ Key("askpass")
  /\ input' = "normal"
  /\ cached' = TRUE
  /\ replies' = replies + 1
  /\ UNCHANGED <<quit, confirming, pendingDeploy, session, interactive, outcome, mail,
                 asking, serving, prompts, confirmed, covered>>

EnterSudo ==
  /\ Key("sudo")
  /\ input' = "normal"
  /\ cached' = TRUE
  /\ UNCHANGED <<quit, confirming, pendingDeploy, session, interactive, outcome, mail,
                 askpass, confirmed, covered>>

EnterSudoPre ==
  /\ Key("sudoPre")
  /\ input' = "normal"
  /\ cached' = TRUE
  /\ pendingDeploy' = None
  /\ IF pendingDeploy = None THEN UNCHANGED <<session, mail>> ELSE StartNext(pendingDeploy)
  /\ UNCHANGED <<quit, confirming, interactive, outcome, askpass, confirmed, covered>>

(* Mutant of EscAskpass: the dialog is dismissed without an answer.        *)
EscSilently ==
  /\ Key("askpass")
  /\ input' = "normal"
  /\ cached' = FALSE
  /\ UNCHANGED <<quit, confirming, pendingDeploy, session, interactive, outcome, mail,
                 askpass, confirmed, covered>>

(* Esc clears the cache; askpass is answered with an empty password. *)
EscAskpass ==
  /\ Key("askpass")
  /\ input' = "normal"
  /\ cached' = FALSE
  /\ replies' = replies + 1
  /\ UNCHANGED <<quit, confirming, pendingDeploy, session, interactive, outcome, mail,
                 asking, serving, prompts, confirmed, covered>>

EscSudo ==
  /\ Key("sudo") \/ Key("sudoPre")
  /\ input' = "normal"
  /\ cached' = FALSE
  /\ pendingDeploy' = IF input = "sudoPre" THEN None ELSE pendingDeploy
  /\ UNCHANGED <<quit, confirming, session, interactive, outcome, mail, askpass, confirmed,
                 covered>>

(* Ctrl-C asks for confirmation over whatever is on the screen. *)
CtrlC ==
  /\ ~ quit
  /\ IF input = "confirmQuit" THEN quit' = TRUE /\ UNCHANGED <<input, covered>>
     ELSE Show("confirmQuit") /\ UNCHANGED quit
  /\ UNCHANGED <<confirming, pendingDeploy, session, cached, interactive, outcome, mail,
                 askpass, confirmed>>

(* The terminal went away underneath. *)
TerminalGone ==
  /\ ~ quit
  /\ quit' = TRUE
  /\ UNCHANGED <<input, confirming, pendingDeploy, session, cached, interactive, outcome,
                 mail, askpass, confirmed, covered>>

QuitNo ==
  /\ Key("confirmQuit")
  /\ input' = "normal"
  /\ UNCHANGED <<quit, confirming, pendingDeploy, session, cached, interactive, outcome,
                 mail, askpass, confirmed, covered>>

-----------------------------------------------------------------------------
(* Askpass. *)

Ask(a) ==
  /\ a \notin asking /\ serving # a
  /\ asking' = asking \cup {a}
  /\ UNCHANGED <<app, mail, serving, prompts, replies, confirmed, covered>>

(* A connection that sends no prompt (in time) is dropped. *)
Discard(a) ==
  /\ serving = None
  /\ a \in asking
  /\ asking' = asking \ {a}
  /\ UNCHANGED <<app, mail, serving, prompts, replies, confirmed, covered>>

(* Mutant of Accept: connections are served concurrently.                  *)
AcceptConcurrently(a) ==
  /\ ~ quit
  /\ a \in asking
  /\ asking' = asking \ {a}
  /\ serving' = a
  /\ prompts' = prompts + 1
  /\ UNCHANGED <<app, mail, replies, confirmed, covered>>

(* serve: one connection at a time, in any order here, whether or not the  *)
(* process behind it is still alive.                                       *)
Accept(a) ==
  /\ ~ quit
  /\ serving = None
  /\ a \in asking
  /\ asking' = asking \ {a}
  /\ serving' = a
  /\ prompts' = prompts + 1
  /\ UNCHANGED <<app, mail, replies, confirmed, covered>>

(* The App's loop takes the prompt: the cache answers, or a dialog opens   *)
(* over whatever is on the screen.                                         *)
PromptArrives ==
  /\ ~ quit
  /\ prompts > 0
  /\ prompts' = prompts - 1
  /\ IF cached THEN replies' = replies + 1 /\ UNCHANGED <<input, covered>>
     ELSE Show("askpass") /\ UNCHANGED replies
  /\ UNCHANGED <<quit, confirming, pendingDeploy, session, cached, interactive, outcome,
                 mail, asking, serving, confirmed>>

(* Mutant of Reply: the server does not wait for the App.                  *)
ReplyUnasked ==
  /\ serving # None
  /\ replies' = replies - 1
  /\ serving' = None
  /\ UNCHANGED <<app, mail, asking, prompts, confirmed, covered>>

(* The password goes to the connection being served, if it is still there. *)
Reply ==
  /\ replies > 0
  /\ serving # None
  /\ replies' = replies - 1
  /\ serving' = None
  /\ UNCHANGED <<app, mail, asking, prompts, confirmed, covered>>

-----------------------------------------------------------------------------
Keys ==
  \/ ToggleSudo
  \/ OtherDialog
  \/ \E batch \in Batches : RequestDeploy(batch)
  \/ ConfirmNo
  \/ ConfirmYes
  \/ CancelDeploy
  \/ EnterAskpass
  \/ EnterSudo
  \/ EnterSudoPre
  \/ EscAskpass
  \/ EscSudo
  \/ CtrlC
  \/ TerminalGone
  \/ QuitNo

Deploy ==
  \/ \E line \in Lines : ChildSays(line)
  \/ SudoPromptLine
  \/ ExitOk
  \/ ExitFailed

Askpass ==
  \/ \E a \in Askers : Ask(a) \/ Discard(a) \/ Accept(a)
  \/ PromptArrives
  \/ Reply

Next == Keys \/ Deploy \/ Askpass

Spec == Init /\ [][Next]_vars

(* The user deals with a dialog on the screen, one way or the other; the   *)
(* App's loop takes its prompts, and the server its replies.               *)
Fairness ==
  /\ WF_vars(EnterAskpass \/ EscAskpass)
  /\ WF_vars(PromptArrives)
  /\ WF_vars(Reply)

FairSpec == Spec /\ Fairness
-----------------------------------------------------------------------------
(* Only hosts of a batch that still stands are deployed: `x` and a failure *)
(* end the batch, so nothing of it starts unless it is confirmed again     *)
(* (app.rs, cancel_deploy: "otherwise pressing `x` mid-batch would         *)
(* surprise-deploy the next host").                                        *)
NoSurpriseDeploy ==
  session # None => {session.current} \cup Range(session.queue) \subseteq confirmed

(* A password answers the prompt it was typed for: there is never a reply  *)
(* in the channel that the next prompt would be answered with.             *)
AnswersTheirPrompt ==
  /\ replies + prompts <= 1
  /\ replies + prompts = 1 => serving # None
  /\ replies = 1 => input # "askpass"

(* The server waits for the App, and the App always replies, unless the    *)
(* dialog was taken off the screen by something else than its keys.        *)
DialogAnswered == [](serving # None => <>(serving = None \/ covered \/ quit))

(* A password dies with its batch, however it ends, except when only       *)
(* skipped hosts were left.                                                *)
PasswordDiesWithDeploy ==
  [][session # None /\ session' = None =>
       \/ ~ cached'
       \/ session.queue # << >> /\ NoneLeft(session.queue)]_vars

(* Somebody will answer the prompt being served: it is on its way to the   *)
(* App, on the screen, or answered (askpass.rs, serve: "The App always     *)
(* replies").                                                              *)
AnswerIsOwed ==
  serving # None /\ ~ quit => prompts > 0 \/ replies > 0 \/ input = "askpass"
=============================================================================
