------------------------ MODULE DeploySessionProofs ------------------------
(* The type and safety invariants of the TUI's deploy batches and password *)
(* dialogs, for any hosts, batches, skipped hosts and askers.              *)
EXTENDS DeploySession, SequenceTheorems, TLAPS

-----------------------------------------------------------------------------
(* What starting the next host of a queue leaves behind. *)

LEMMA StartNextEffect ==
  ASSUME NEW queue \in Seq(Hosts), StartNext(queue), interactive \in BOOLEAN
  PROVE  /\ session' \in Session \cup {None}
         /\ mail' = << >>
         /\ session' # None =>
              {session'.current} \cup Range(session'.queue) \subseteq Range(queue)
         /\ session' = None => NoneLeft(queue)
<1>1. mail' = << >>
  BY DEF StartNext
<1>2. CASE NoneLeft(queue) /\ session' = None
  BY <1>1, <1>2
<1>3. ASSUME NEW i \in DOMAIN queue,
             session' = [ current |-> queue[i],
                          queue |-> SubSeq(queue, i + 1, Len(queue)),
                          stdin |-> interactive ]
      PROVE  /\ session' \in Session
             /\ {session'.current} \cup Range(session'.queue) \subseteq Range(queue)
  <2> DEFINE rest == SubSeq(queue, i + 1, Len(queue))
  <2>1. i \in 1 .. Len(queue) /\ queue[i] \in Hosts
    BY LenProperties, ElementOfSeq
  <2>2. rest \in Seq(Hosts)
    BY <2>1, SubSeqProperties
  <2>3. \A k \in 1 .. Len(rest) : rest[k] = queue[i + k] /\ i + k \in DOMAIN queue
    BY <2>1, SubSeqProperties
  <2>4. Range(rest) \subseteq Range(queue)
    BY <2>2, <2>3 DEF Range
  <2>5. session' \in Session
    BY <1>3, <2>1, <2>2 DEF Session
  <2>6. queue[i] \in Range(queue)
    BY DEF Range
  <2> QED BY <1>3, <2>4, <2>5, <2>6
<1> QED BY <1>1, <1>2, <1>3, NoneIsNothing DEF StartNext

LEMMA BatchType == ASSUME NEW batch \in Batches
                   PROVE  batch \in Seq(Hosts) /\ Range(batch) \subseteq Hosts
<1>1. batch \in Seq(Hosts)
  BY BatchesAssumption
<1>2. \A i \in DOMAIN batch : batch[i] \in Hosts
  BY <1>1, LenProperties, ElementOfSeq
<1> QED BY <1>1, <1>2 DEF Range

-----------------------------------------------------------------------------
(* The batch that stands: what is deployed, and what a dialog holds back   *)
(* until a password is there, was confirmed.                               *)

BatchInv ==
  /\ mail # << >> => session # None
  /\ input \in {"confirm", "sudoPre"} => session = None
  /\ input = "confirm" => confirming # None
  /\ input = "sudoPre" => pendingDeploy # None /\ Range(pendingDeploy) \subseteq confirmed
  /\ NoSurpriseDeploy

(* The step of one action. *)
LEMMA StartingKeeps ==
  ASSUME TypeOK, NEW queue \in Seq(Hosts), StartNext(queue),
         Range(queue) \subseteq confirmed',
         input' \notin {"confirm", "sudoPre"}
  PROVE  BatchInv' /\ session' \in Session \cup {None} /\ mail' \in Seq(Lines)
<1>1. /\ session' \in Session \cup {None} /\ mail' = << >>
      /\ session' # None =>
           {session'.current} \cup Range(session'.queue) \subseteq Range(queue)
  BY StartNextEffect DEF TypeOK
<1> QED BY <1>1, EmptySeq DEF BatchInv, NoSurpriseDeploy

LEMMA KeysKeepBatch ==
  ASSUME TypeOK, BatchInv, Keys
  PROVE  TypeOK' /\ BatchInv'
<1> USE DEF Key, Show, app, askpass
<1>1. CASE ToggleSudo
  BY <1>1 DEF TypeOK, BatchInv, NoSurpriseDeploy, Inputs, Dialogs, OptBatch, ToggleSudo
<1>2. CASE OtherDialog
  BY <1>2 DEF TypeOK, BatchInv, NoSurpriseDeploy, Inputs, Dialogs, OptBatch, OtherDialog
<1>3. ASSUME NEW batch \in Batches, RequestDeploy(batch)
      PROVE  TypeOK' /\ BatchInv'
  BY <1>3, NoneIsNothing DEF TypeOK, BatchInv, NoSurpriseDeploy, Inputs, Dialogs, OptBatch, RequestDeploy
<1>4. CASE ConfirmNo
  BY <1>4 DEF TypeOK, BatchInv, NoSurpriseDeploy, Inputs, Dialogs, OptBatch, ConfirmNo
<1>5. CASE ConfirmYes
  <2>1. /\ confirming \in Batches /\ confirming \in Seq(Hosts)
        /\ Range(confirming) \subseteq Hosts
    BY <1>5, BatchType DEF ConfirmYes, BatchInv, TypeOK, OptBatch
  <2>2. CASE interactive /\ ~ cached
    BY <1>5, <2>1, <2>2, NoneIsNothing
       DEF ConfirmYes, TypeOK, BatchInv, NoSurpriseDeploy, Inputs, Dialogs, OptBatch
  <2>3. CASE ~ (interactive /\ ~ cached)
    <3>1. StartNext(confirming) /\ input' = "normal" /\ confirmed' = Range(confirming)
      BY <1>5, <2>3 DEF ConfirmYes
    <3>2. BatchInv' /\ session' \in Session \cup {None} /\ mail' \in Seq(Lines)
      BY <2>1, <3>1, StartingKeeps
    <3> QED BY <1>5, <2>1, <2>3, <3>1, <3>2
            DEF ConfirmYes, TypeOK, Inputs, OptBatch
  <2> QED BY <2>2, <2>3
<1>6. CASE CancelDeploy
  BY <1>6, EmptySeq, NoneIsNothing DEF TypeOK, BatchInv, NoSurpriseDeploy, Inputs, Dialogs, OptBatch, Session, CancelDeploy
<1>7. CASE EnterAskpass
  BY <1>7 DEF TypeOK, BatchInv, NoSurpriseDeploy, Inputs, Dialogs, OptBatch, EnterAskpass
<1>8. CASE EnterSudo
  BY <1>8 DEF TypeOK, BatchInv, NoSurpriseDeploy, Inputs, Dialogs, OptBatch, EnterSudo
<1>9. CASE EnterSudoPre
  <2>1. /\ pendingDeploy \in Batches /\ pendingDeploy \in Seq(Hosts)
        /\ Range(pendingDeploy) \subseteq confirmed
        /\ pendingDeploy # None
    BY <1>9, BatchType DEF EnterSudoPre, BatchInv, TypeOK, OptBatch
  <2>2. StartNext(pendingDeploy) /\ input' = "normal" /\ confirmed' = confirmed
    BY <1>9, <2>1 DEF EnterSudoPre
  <2>3. BatchInv' /\ session' \in Session \cup {None} /\ mail' \in Seq(Lines)
    BY <2>1, <2>2, StartingKeeps
  <2> QED BY <1>9, <2>2, <2>3 DEF EnterSudoPre, TypeOK, Inputs, OptBatch
<1>10. CASE EscAskpass
  <2>1. TypeOK'
    <3>1. replies' \in Nat
      BY <1>10 DEF EscAskpass, TypeOK
    <3> QED BY <1>10, <3>1 DEF EscAskpass, TypeOK, Inputs
  <2>2. BatchInv'
    BY <1>10 DEF EscAskpass, BatchInv, NoSurpriseDeploy
  <2> QED BY <2>1, <2>2
<1>11. CASE EscSudo
  BY <1>11 DEF TypeOK, BatchInv, NoSurpriseDeploy, Inputs, Dialogs, OptBatch, EscSudo
<1>12. CASE CtrlC
  BY <1>12 DEF TypeOK, BatchInv, NoSurpriseDeploy, Inputs, Dialogs, OptBatch, CtrlC
<1>13. CASE TerminalGone
  BY <1>13 DEF TypeOK, BatchInv, NoSurpriseDeploy, Inputs, Dialogs, OptBatch, TerminalGone
<1>14. CASE QuitNo
  BY <1>14 DEF TypeOK, BatchInv, NoSurpriseDeploy, Inputs, Dialogs, OptBatch, QuitNo
<1> QED BY <1>1, <1>2, <1>3, <1>4, <1>5, <1>6, <1>7, <1>8, <1>9, <1>10, <1>11, <1>12, <1>13, <1>14 DEF Keys


LEMMA DeployKeepsBatch ==
  ASSUME TypeOK, BatchInv, Deploy
  PROVE  TypeOK' /\ BatchInv'
<1> USE DEF Show, app, askpass
<1>0. mail # << >> => Tail(mail) \in Seq(Lines)
  BY HeadTailProperties DEF TypeOK
<1>1. ASSUME NEW line \in Lines, ChildSays(line)
      PROVE  TypeOK' /\ BatchInv'
  <2>1. mail' \in Seq(Lines)
    BY <1>1, AppendProperties DEF ChildSays, TypeOK
  <2> QED BY <1>1, <2>1 DEF ChildSays, TypeOK, BatchInv, NoSurpriseDeploy
<1>2. CASE SudoPromptLine
  BY <1>2, <1>0 DEF SudoPromptLine, Line, TypeOK, BatchInv, NoSurpriseDeploy, Inputs, Dialogs
<1>3. CASE ExitOk
  <2>1. session \in Session /\ session # None
    BY <1>3 DEF ExitOk, Line, BatchInv, TypeOK
  <2>2. session.queue \in Seq(Hosts) /\ session.current \in Hosts
    BY <2>1 DEF Session
  <2>3. Range(session.queue) \subseteq confirmed'
    BY <1>3, <2>1 DEF ExitOk, BatchInv, NoSurpriseDeploy
  <2>4. StartNext(session.queue) /\ input' \notin {"confirm", "sudoPre"}
    BY <1>3, <2>1 DEF ExitOk, CloseDialog, BatchInv, Dialogs
  <2>5. BatchInv' /\ session' \in Session \cup {None} /\ mail' \in Seq(Lines)
    BY <2>2, <2>3, <2>4, StartingKeeps
  <2>6. input' \in Inputs /\ covered' \in BOOLEAN
    BY <1>3 DEF ExitOk, CloseDialog, TypeOK, Inputs
  <2> QED BY <1>3, <2>2, <2>5, <2>6 DEF ExitOk, TypeOK
<1>4. CASE ExitFailed
  <2>1. session \in Session /\ session.current \in Hosts
    BY <1>4 DEF ExitFailed, Line, BatchInv, TypeOK, Session
  <2>2. input' \in Inputs /\ covered' \in BOOLEAN /\ input' \notin {"sudoPre", "confirm"}
    BY <1>4 DEF ExitFailed, Line, CloseDialog, TypeOK, BatchInv, Inputs, Dialogs
  <2>3. session' = None /\ mail' = << >> /\ mail' \in Seq(Lines)
    BY <1>4, EmptySeq DEF ExitFailed
  <2> QED BY <1>4, <2>1, <2>2, <2>3 DEF ExitFailed, TypeOK, BatchInv, NoSurpriseDeploy
<1> QED BY <1>1, <1>2, <1>3, <1>4 DEF Deploy

LEMMA AskpassKeepsBatch ==
  ASSUME TypeOK, BatchInv, Askpass
  PROVE  BatchInv'
<1> USE DEF app, BatchInv, NoSurpriseDeploy
<1>1. ASSUME NEW a \in Askers, Ask(a) \/ Discard(a) \/ Accept(a)
      PROVE  BatchInv'
  BY <1>1 DEF Ask, Discard, Accept
<1>2. CASE PromptArrives
  BY <1>2 DEF PromptArrives, Show
<1>3. CASE Reply
  BY <1>3 DEF Reply
<1> QED BY <1>1, <1>2, <1>3 DEF Askpass

LEMMA AskpassKeepsType ==
  ASSUME TypeOK, Askpass
  PROVE  TypeOK'
<1> USE DEF app, TypeOK, Inputs, Dialogs
<1>1. ASSUME NEW a \in Askers, Ask(a) \/ Discard(a) \/ Accept(a)
      PROVE  TypeOK'
  <2>1. prompts' \in Nat /\ asking' \in SUBSET Askers /\ serving' \in Askers \cup {None}
    BY <1>1 DEF Ask, Discard, Accept
  <2> QED BY <1>1, <2>1 DEF Ask, Discard, Accept
<1>2. CASE PromptArrives
  <2>1. prompts' \in Nat /\ replies' \in Nat
    BY <1>2 DEF PromptArrives
  <2>2. input' \in Inputs /\ covered' \in BOOLEAN
    BY <1>2 DEF PromptArrives, Show
  <2> QED BY <1>2, <2>1, <2>2 DEF PromptArrives
<1>3. CASE Reply
  BY <1>3 DEF Reply
<1> QED BY <1>1, <1>2, <1>3 DEF Askpass

LEMMA BatchStep ==
  ASSUME TypeOK, BatchInv, [Next]_vars
  PROVE  TypeOK' /\ BatchInv'
<1>1. CASE UNCHANGED vars
  BY <1>1 DEF vars, app, askpass, TypeOK, BatchInv, NoSurpriseDeploy
<1>2. CASE Keys
  BY <1>2, KeysKeepBatch
<1>3. CASE Deploy
  BY <1>3, DeployKeepsBatch
<1>4. CASE Askpass
  BY <1>4, AskpassKeepsBatch, AskpassKeepsType
<1> QED BY <1>1, <1>2, <1>3, <1>4 DEF Next

LEMMA InitBatch == Init => TypeOK /\ BatchInv
<1> SUFFICES ASSUME Init  PROVE TypeOK /\ BatchInv
  OBVIOUS
<1>1. mail \in Seq(Lines)
  BY EmptySeq DEF Init
<1>2. outcome \in [Hosts -> {"ok", "failed", None}]
  BY DEF Init
<1>3. TypeOK
  BY <1>1, <1>2 DEF Init, TypeOK, Inputs, OptBatch
<1>4. BatchInv
  BY DEF Init, BatchInv, NoSurpriseDeploy
<1> QED BY <1>3, <1>4

(* The state of the App, its deploy session and the askpass server has its *)
(* type in every reachable state.                                          *)
THEOREM TypeCorrect == Spec => []TypeOK
<1>1. Spec => [](TypeOK /\ BatchInv)
  BY InitBatch, BatchStep, PTL DEF Spec
<1> QED BY <1>1, PTL

(* Nothing is deployed, or queued to be, that the user has not confirmed   *)
(* in a batch that still stands (app.rs, cancel_deploy and Exit).          *)
THEOREM NothingUnconfirmed == Spec => []NoSurpriseDeploy
<1>1. Spec => [](TypeOK /\ BatchInv)
  BY InitBatch, BatchStep, PTL DEF Spec
<1>2. BatchInv => NoSurpriseDeploy
  BY DEF BatchInv
<1> QED BY <1>1, <1>2, PTL

(* Whatever ends a deploy empties the password cache, unless skipped hosts *)
(* were all that was left of its batch.                                    *)
THEOREM PasswordsDie == Spec => PasswordDiesWithDeploy
<1> DEFINE Dies == session # None /\ session' = None =>
                     \/ ~ cached'
                     \/ session.queue # << >> /\ NoneLeft(session.queue)
<1>1. ASSUME TypeOK, BatchInv, Next  PROVE Dies
  <2>1. CASE Keys
    <3>1. CASE ConfirmYes
      BY <1>1, <3>1 DEF ConfirmYes, Key, BatchInv
    <3>2. CASE EnterSudoPre
      BY <1>1, <3>2 DEF EnterSudoPre, Key, BatchInv
    <3>3. CASE CancelDeploy
      BY <3>3 DEF CancelDeploy
    <3>4. CASE UNCHANGED session
      BY <3>4
    <3> QED BY <2>1, <3>1, <3>2, <3>3, <3>4
            DEF Keys, ToggleSudo, OtherDialog, RequestDeploy, ConfirmNo, EnterAskpass,
                EnterSudo, EscAskpass, EscSudo, CtrlC, TerminalGone, QuitNo
  <2>2. CASE Deploy
    <3>1. CASE ExitOk
      <4>1. session \in Session
        BY <1>1, <3>1 DEF ExitOk, Line, BatchInv, TypeOK
      <4>2. session.queue \in Seq(Hosts) /\ StartNext(session.queue)
        BY <3>1, <4>1 DEF ExitOk, Session
      <4>3. session' = None => NoneLeft(session.queue)
        BY <1>1, <4>2, StartNextEffect DEF TypeOK
      <4> QED BY <1>1, <3>1, <4>3 DEF ExitOk, TypeOK
    <3>2. CASE ExitFailed
      BY <3>2 DEF ExitFailed
    <3>3. CASE UNCHANGED session
      BY <3>3
    <3> QED BY <2>2, <3>1, <3>2, <3>3 DEF Deploy, ChildSays, SudoPromptLine, app
  <2>3. CASE Askpass
    BY <2>3 DEF Askpass, Ask, Discard, Accept, PromptArrives, Reply, app
  <2> QED BY <1>1, <2>1, <2>2, <2>3 DEF Next
<1>2. TypeOK /\ BatchInv /\ [Next]_vars => [Dies]_vars
  BY <1>1
<1> QED BY <1>2, InitBatch, BatchStep, PTL DEF Spec, PasswordDiesWithDeploy

-----------------------------------------------------------------------------
(* One prompt at a time: it is in the channel to the App, on the screen,   *)
(* answered, or was covered by something else.                             *)

PromptInv ==
  /\ AnswersTheirPrompt
  /\ input = "askpass" => serving # None /\ replies = 0 /\ prompts = 0

LEMMA KeysKeepPrompts ==
  ASSUME TypeOK, PromptInv, Keys
  PROVE  PromptInv'
<1> USE DEF Key, Show, app, askpass, PromptInv, AnswersTheirPrompt
<1>1. CASE EnterAskpass
  BY <1>1 DEF EnterAskpass
<1>2. CASE EscAskpass
  BY <1>2 DEF EscAskpass
<1>3. CASE UNCHANGED askpass /\ (input' = input \/ input' # "askpass")
  BY <1>3
<1>4. EnterAskpass \/ EscAskpass
        \/ (UNCHANGED askpass /\ (input' = input \/ input' # "askpass"))
  BY DEF Keys, ToggleSudo, OtherDialog, RequestDeploy, ConfirmNo, ConfirmYes, CancelDeploy,
         EnterSudo, EnterSudoPre, EscSudo, CtrlC, TerminalGone, QuitNo
<1> QED BY <1>1, <1>2, <1>3, <1>4

LEMMA DeployKeepsPrompts ==
  ASSUME TypeOK, PromptInv, Deploy
  PROVE  PromptInv'
<1>1. UNCHANGED askpass /\ (input' = input \/ input' # "askpass")
  BY DEF Deploy, ChildSays, SudoPromptLine, ExitOk, ExitFailed, CloseDialog, Show, app
<1> QED BY <1>1 DEF askpass, PromptInv, AnswersTheirPrompt

LEMMA AskpassKeepsPrompts ==
  ASSUME TypeOK, PromptInv, Askpass
  PROVE  PromptInv'
<1> USE DEF app, PromptInv, AnswersTheirPrompt, TypeOK
<1>1. ASSUME NEW a \in Askers, Ask(a) \/ Discard(a)
      PROVE  PromptInv'
  BY <1>1 DEF Ask, Discard
<1>2. ASSUME NEW a \in Askers, Accept(a)
      PROVE  PromptInv'
  BY <1>2, NoneIsNothing DEF Accept
<1>3. CASE PromptArrives
  <2>1. serving # None /\ prompts = 1 /\ replies = 0 /\ input # "askpass"
    BY <1>3 DEF PromptArrives
  <2>2. prompts' = 0 /\ serving' = serving
    BY <1>3, <2>1 DEF PromptArrives
  <2>3. \/ replies' = 1 /\ input' = input
        \/ replies' = 0 /\ input' = "askpass"
    BY <1>3, <2>1 DEF PromptArrives, Show
  <2> QED BY <2>1, <2>2, <2>3
<1>4. CASE Reply
  BY <1>4 DEF Reply
<1> QED BY <1>1, <1>2, <1>3, <1>4 DEF Askpass

LEMMA PromptStep ==
  ASSUME TypeOK, PromptInv, [Next]_vars
  PROVE  PromptInv'
<1>1. CASE UNCHANGED vars
  BY <1>1 DEF vars, app, askpass, PromptInv, AnswersTheirPrompt
<1>2. CASE Keys
  BY <1>2, KeysKeepPrompts
<1>3. CASE Deploy
  BY <1>3, DeployKeepsPrompts
<1>4. CASE Askpass
  BY <1>4, AskpassKeepsPrompts
<1> QED BY <1>1, <1>2, <1>3, <1>4 DEF Next

(* An answer in the channel is for the prompt being served, and there is   *)
(* never a second one for the next prompt to be answered with.             *)
THEOREM AnswersMatch == Spec => []AnswersTheirPrompt
<1>1. Init => PromptInv
  BY DEF Init, PromptInv, AnswersTheirPrompt
<1>2. PromptInv => AnswersTheirPrompt
  BY DEF PromptInv
<1> QED BY <1>1, <1>2, PromptStep, TypeCorrect, PTL DEF Spec

=============================================================================
