-------------------------- MODULE DeployProcProofs --------------------------
(* The wrapper's type invariant, its process group and password safety,    *)
(* and its refinement of DeployPromise, for any requests, any number of    *)
(* descendants and channels of any capacity.                               *)
EXTENDS DeployProc, SequenceTheorems, TLAPS

-----------------------------------------------------------------------------
(* The plan: at least one child, and the children push what is selected,   *)
(* in order and without a gap.                                             *)

LEMMA SelectedType ==
  ASSUME NEW r \in Requests
  PROVE  Selected(r) \in Seq(Profiles)
<1>1. r.profiles \in Seq(Profiles)
  BY RequestsAssumption
<1> DEFINE named == {i \in DOMAIN r.profiles : r.profiles[i].name = r.select}
<1>2. CASE r.select = "all"
  BY <1>1, <1>2 DEF Selected
<1>3. CASE r.select # "all" /\ named = {}
  BY <1>3, EmptySeq DEF Selected
<1>4. CASE r.select # "all" /\ named # {}
  <2> DEFINE one == CHOOSE i \in named : TRUE
  <2>1. one \in named
    BY <1>4
  <2>2. r.profiles[one] \in Profiles
    BY <1>1, <2>1, ElementOfSeq, LenProperties
  <2>3. << r.profiles[one] >> \in Seq(Profiles)
    BY <2>2
  <2>4. Selected(r) = << r.profiles[one] >>
    BY <1>4 DEF Selected
  <2> QED BY <2>3, <2>4
<1> QED BY <1>2, <1>3, <1>4

LEMMA PlanShape ==
  ASSUME NEW r \in Requests
  PROVE  /\ Len(Plan(r)) \in Nat \ {0}
         /\ \/ Len(Plan(r)) = 1 /\ Plan(r)[1].pushes = Selected(r)
            \/ /\ Len(Plan(r)) = Len(Selected(r))
               /\ \A i \in 1 .. Len(Plan(r)) : Plan(r)[i].pushes = << Selected(r)[i] >>
<1>1. ASSUME NEW login, Plan(r) = Whole(r, login)
      PROVE  Len(Plan(r)) = 1 /\ Plan(r)[1].pushes = Selected(r)
  BY <1>1 DEF Whole
<1> DEFINE known == Range(Discovered(r))
           child(i) == [pushes |-> << Discovered(r)[i] >>, login |-> Fits(Discovered(r)[i])]
           split == [i \in DOMAIN Discovered(r) |-> child(i)]
<1>2. CASE Plan(r) = split /\ known # {}
  <2>1. Discovered(r) = Selected(r)
    <3>1. CASE r.known
      BY <3>1 DEF Discovered
    <3>2. CASE ~ r.known
      <4>1. known = {}
        BY <3>2 DEF Discovered, Range
      <4> QED BY <1>2, <4>1
    <3> QED BY <3>1, <3>2
  <2>2. Selected(r) \in Seq(Profiles)
    BY SelectedType
  <2>3. DOMAIN Selected(r) = 1 .. Len(Selected(r)) /\ Len(Selected(r)) \in Nat
    BY <2>2, LenProperties
  <2>4. Plan(r) = [i \in 1 .. Len(Selected(r)) |-> child(i)]
    BY <1>2, <2>1, <2>3
  <2>5. Len(Plan(r)) = Len(Selected(r))
    <3>1. Plan(r) \in Seq({child(i) : i \in 1 .. Len(Selected(r))})
      BY <2>3, <2>4
    <3> QED BY <2>3, <2>4, <3>1, LenProperties
  <2>6. \A i \in 1 .. Len(Plan(r)) : Plan(r)[i].pushes = << Selected(r)[i] >>
    BY <2>1, <2>4, <2>5
  <2>7. Len(Selected(r)) # 0
    <3>1. SUFFICES ASSUME Len(Selected(r)) = 0  PROVE FALSE
      OBVIOUS
    <3>2. DOMAIN Discovered(r) = {}
      BY <2>1, <2>3, <3>1
    <3> QED BY <1>2, <3>2 DEF Range
  <2> QED BY <2>3, <2>5, <2>6, <2>7
<1>3. \/ \E login \in BOOLEAN : Plan(r) = Whole(r, login)
      \/ Plan(r) = split /\ known # {}
  BY DEF Plan
<1> QED BY <1>1, <1>2, <1>3

(* What the first n children push, all of them having exited 0.            *)
Upto(r, n) ==
  IF n = Len(Plan(r)) THEN Selected(r) ELSE SubSeq(Selected(r), 1, n)

LEMMA UptoExtends ==
  ASSUME NEW r \in Requests, NEW n \in 1 .. Len(Plan(r))
  PROVE  Upto(r, n - 1) \o Plan(r)[n].pushes = Upto(r, n)
<1>1. Selected(r) \in Seq(Profiles) /\ Len(Selected(r)) \in Nat
  BY SelectedType, LenProperties
<1>2. n - 1 # Len(Plan(r)) /\ n \in Nat \ {0}
  BY PlanShape
<1>3. CASE Len(Plan(r)) = 1 /\ Plan(r)[1].pushes = Selected(r)
  <2>1. n = 1 /\ n - 1 = 0
    BY <1>3
  <2>2. Upto(r, 0) = << >>
    BY <1>1, <1>3, SubSeqEmpty DEF Upto
  <2>3. << >> \o Selected(r) = Selected(r)
    BY <1>1, ConcatEmptySeq
  <2>4. Upto(r, 1) = Selected(r)
    BY <1>3 DEF Upto
  <2>5. Upto(r, n - 1) = << >> /\ Plan(r)[n].pushes = Selected(r)
    BY <1>3, <2>1, <2>2
  <2> QED BY <2>1, <2>3, <2>4, <2>5
<1>4. CASE /\ Len(Plan(r)) = Len(Selected(r))
           /\ \A i \in 1 .. Len(Plan(r)) : Plan(r)[i].pushes = << Selected(r)[i] >>
  <2>1. n \in 1 .. Len(Selected(r))
    BY <1>4
  <2>2. Upto(r, n) = SubSeq(Selected(r), 1, n)
    BY <1>1, <1>4, SubSeqFull DEF Upto
  <2>3. Upto(r, n - 1) = SubSeq(Selected(r), 1, n - 1)
    BY <1>2 DEF Upto
  <2>4. SubSeq(Selected(r), 1, n - 1) \o << Selected(r)[n] >> = SubSeq(Selected(r), 1, n)
    BY <1>1, <2>1, SubSeqRecursiveSecond
  <2> QED BY <1>4, <2>2, <2>3, <2>4
<1> QED BY <1>3, <1>4, PlanShape

LEMMA SubSeqIsPrefix ==
  ASSUME NEW s, NEW l \in 0 .. Len(s)
  PROVE  SubSeq(s, 1, l) \in Prefixes(s)
BY DEF Prefixes

LEMMA UptoIsPrefix ==
  ASSUME NEW r \in Requests, NEW n \in 0 .. Len(Plan(r))
  PROVE  Upto(r, n) \in Prefixes(Selected(r))
<1>1. Selected(r) \in Seq(Profiles) /\ Len(Selected(r)) \in Nat
  BY SelectedType, LenProperties
<1>2. SubSeq(Selected(r), 1, Len(Selected(r))) = Selected(r)
  BY <1>1, SubSeqFull
<1>3. Selected(r) \in Prefixes(Selected(r))
  <2>1. Len(Selected(r)) \in 0 .. Len(Selected(r))
    BY <1>1
  <2>2. SubSeq(Selected(r), 1, Len(Selected(r))) \in Prefixes(Selected(r))
    BY <2>1, SubSeqIsPrefix
  <2> QED BY <1>2, <2>2
<1>4. CASE n = Len(Plan(r))
  BY <1>3, <1>4 DEF Upto
<1>5. CASE n # Len(Plan(r))
  <2>1. n \in 0 .. Len(Selected(r))
    <3>1. n < Len(Plan(r)) /\ n \in Nat
      BY <1>5, PlanShape
    <3>2. CASE Len(Plan(r)) = 1
      BY <1>1, <3>1, <3>2
    <3>3. CASE Len(Plan(r)) = Len(Selected(r))
      BY <1>1, <3>1, <3>3
    <3> QED BY <3>2, <3>3, PlanShape
  <2>2. SubSeq(Selected(r), 1, n) \in Prefixes(Selected(r))
    BY <2>1, SubSeqIsPrefix
  <2> QED BY <1>5, <2>2 DEF Upto
<1> QED BY <1>4, <1>5

LEMMA UptoNone ==
  ASSUME NEW r \in Requests
  PROVE  Upto(r, 0) = << >>
<1>1. Selected(r) \in Seq(Profiles)
  BY SelectedType
<1> QED BY <1>1, PlanShape, SubSeqEmpty DEF Upto

LEMMA ChildrenOfPlan ==
  ASSUME NEW r \in Requests
  PROVE  0 .. Len(Plan(r)) \subseteq Children
  BY DEF Children

-----------------------------------------------------------------------------
(* Where the task is, what its child does, and what has been pushed.       *)

Before == {"start", "seed", "next"}    \* the next child is still to come
Waited == {"wait", "stopping", "grace", "reap"}    \* the task awaits its child

(* The children awaited and their place in the plan. *)
PhaseInv ==
  /\ at <= Len(Plan(req))
  /\ pc \in {"start", "seed"} => at = 0
  /\ pc = "next" => at < Len(Plan(req))
  /\ pc \in Waited <=> leader # "none"
  /\ pc \in Waited => at > 0
  /\ pc \in {"drain", "final"} => at > 0
  /\ pc = "reap" => leader = "exited"

(* Exactly the children that exited 0 have pushed, and only the one under  *)
(* way can have exited otherwise.                                          *)
PushInv ==
  /\ pc \in Before => pushed = Upto(req, at)
  /\ leader = "alive" => pushed = Upto(req, at - 1)
  /\ leader = "exited" \/ pc \in {"drain", "final"} =>
       /\ code = 0 => pushed = Upto(req, at)
       /\ code = 1 => pushed = Upto(req, at - 1)
  /\ pc = "final" /\ code = 0 => cancel \/ at = Len(Plan(req))
  /\ pc # "over" => verdict = None

(* A signalled group is empty once the task has moved past the SIGKILL,    *)
(* and a child that is still waited for has not been signalled.            *)
GroupInv ==
  /\ pc \in {"wait", "stopping"} => ~ torn
  /\ torn /\ pc \in {"reap", "drain", "next", "final", "over"} => InGroup = {}

TaskInv == TypeOK /\ PhaseInv /\ PushInv /\ GroupInv

LEMMA Numbers ==
  ASSUME TypeOK
  PROVE  /\ Children \subseteq Nat
         /\ at \in Nat /\ Len(Plan(req)) \in Nat \ {0}
         /\ \A n \in 0 .. Len(Plan(req)) : n \in Children
<1>1. req \in Requests
  BY DEF TypeOK
<1>2. \A r \in Requests : Len(Plan(r)) \in Nat \ {0}
  BY PlanShape
<1>3. Children \subseteq Nat
  BY <1>2 DEF Children
<1>4. 0 .. Len(Plan(req)) \subseteq Children
  BY <1>1, ChildrenOfPlan
<1> QED BY <1>1, <1>2, <1>3, <1>4 DEF TypeOK

(* A line the task or a forwarder sends stays within the channel. *)
LEMMA SendFits ==
  ASSUME TypeOK, Send \/ UNCHANGED lines
  PROVE  lines' \in 0 .. Capacity
BY CapacityAssumption DEF TypeOK, Send

LEMMA InitTask == Init => TaskInv
<1> SUFFICES ASSUME Init PROVE TaskInv
  OBVIOUS
<1>1. req \in Requests /\ Len(Plan(req)) \in Nat \ {0} /\ Upto(req, 0) = << >>
  BY PlanShape, UptoNone DEF Init
<1>2. 0 \in 0 .. Len(Plan(req))
  BY <1>1
<1>3. 0 \in Children
  BY <1>1, <1>2, ChildrenOfPlan
<1>4. << >> \in Prefixes(Selected(req))
  BY <1>1, <1>2, UptoIsPrefix
<1>5. << >> \in Seq(Children) /\ Len(<< >>) <= Passwords
  BY CapacityAssumption, EmptySeq
<1>6. TypeOK
  BY <1>1, <1>3, <1>4, <1>5, CapacityAssumption DEF Init, TypeOK
<1>7. PhaseInv /\ PushInv
  BY <1>1 DEF Init, PhaseInv, PushInv, Waited, Before
<1>8. GroupInv
  BY DEF Init, GroupInv
<1> QED BY <1>6, <1>7, <1>8 DEF TaskInv

LEMMA TaskKeeps ==
  ASSUME TaskInv, Task
  PROVE  TaskInv'
<1> USE DEF TaskInv, PhaseInv, PushInv, GroupInv, InGroup, Waited, Before, Goto, processes,
            channel, passwords
<1>0. /\ Children \subseteq Nat /\ at \in Nat /\ Len(Plan(req)) \in Nat \ {0}
      /\ \A n \in 0 .. Len(Plan(req)) : n \in Children
  BY Numbers
<1>1. CASE Start
  <2>1. TypeOK'
    BY <1>1 DEF Start, TypeOK
  <2> QED BY <1>0, <1>1, <2>1 DEF Start, TypeOK
<1>2. CASE SeedEnds
  <2>1. TypeOK'
    BY <1>2, SendFits DEF SeedEnds, TypeOK
  <2> QED BY <1>0, <1>2, <2>1 DEF SeedEnds, TypeOK
<1>3. CASE Spawn
  <2>1. at + 1 \in Children /\ at + 1 <= Len(Plan(req)) /\ at + 1 > 0 /\ at' = at + 1
    BY <1>0, <1>3 DEF Spawn
  <2>2. lines' \in 0 .. Capacity
    BY <1>3, SendFits DEF Spawn, Announced
  <2>3. TypeOK'
    BY <1>3, <2>1, <2>2 DEF Spawn, TypeOK
  <2>4. at' - 1 = at
    BY <1>0, <2>1
  <2>5. PhaseInv'
    BY <1>3, <2>1 DEF Spawn
  <2>6. PushInv'
    BY <1>3, <2>4 DEF Spawn
  <2>7. GroupInv'
    BY <1>3 DEF Spawn
  <2> QED BY <2>3, <2>5, <2>6, <2>7
<1>4. CASE SpawnFails
  <2>1. TypeOK'
    BY <1>4, SendFits DEF SpawnFails, TypeOK
  <2> QED BY <1>0, <1>4, <2>1 DEF SpawnFails
<1>5. CASE Reaped
  <2>1. TypeOK'
    BY <1>5 DEF Reaped, TypeOK
  <2> QED BY <1>0, <1>5, <2>1 DEF Reaped
<1>6. CASE SeesCancel
  <2>1. TypeOK'
    BY <1>6 DEF SeesCancel, TypeOK
  <2> QED BY <1>0, <1>6, <2>1 DEF SeesCancel
<1>7. CASE Term
  <2>1. TypeOK'
    BY <1>7, SendFits DEF Term, TypeOK
  <2> QED BY <1>0, <1>7, <2>1 DEF Term
<1>8. CASE Kill
  <2>1. 0 \in Children /\ at # 0
    BY <1>0, <1>8 DEF Kill
  <2>2. group' \in [Helpers -> Children] /\ piped' \in SUBSET Helpers
    BY <1>8, <2>1 DEF Kill, TypeOK
  <2>3. TypeOK'
    BY <1>8, <2>2 DEF Kill, TypeOK
  <2>4. PhaseInv'
    BY <1>8 DEF Kill
  <2>5. PushInv'
    BY <1>8 DEF Kill, TypeOK
  <2>6. \A h \in Helpers : group'[h] # at
    BY <1>8, <2>1 DEF Kill, TypeOK
  <2>7. GroupInv'
    BY <1>8, <2>6 DEF Kill
  <2> QED BY <2>3, <2>4, <2>5, <2>7
<1>9. CASE ReapedAfterKill
  <2>1. TypeOK'
    BY <1>9, SendFits DEF ReapedAfterKill, TypeOK
  <2> QED BY <1>0, <1>9, <2>1 DEF ReapedAfterKill
<1>10. CASE Drained
  <2>1. TypeOK'
    BY <1>10 DEF Drained, TypeOK
  <2>2. GroupInv'
    BY <1>10 DEF Drained
  <2>3. \/ pc' = "next" /\ code = 0 /\ at < Len(Plan(req))
        \/ pc' = "final" /\ (code = 0 => cancel \/ at = Len(Plan(req)))
    BY <1>0, <1>10 DEF Drained
  <2>4. PhaseInv'
    BY <1>10, <2>3 DEF Drained
  <2>5. PushInv'
    BY <1>10, <2>3 DEF Drained
  <2> QED BY <2>1, <2>2, <2>4, <2>5
<1>11. CASE Finish
  <2>1. TypeOK'
    BY <1>11, SendFits DEF Finish, TypeOK
  <2> QED BY <1>0, <1>11, <2>1 DEF Finish
<1> QED BY <1>1, <1>2, <1>3, <1>4, <1>5, <1>6, <1>7, <1>8, <1>9, <1>10, <1>11 DEF Task

LEMMA ProcessesKeep ==
  ASSUME TaskInv, Processes
  PROVE  TaskInv'
<1> USE DEF TaskInv, PhaseInv, PushInv, GroupInv, InGroup, Waited, Before, task,
            channel, passwords
<1>0. /\ Children \subseteq Nat /\ at \in Nat /\ Len(Plan(req)) \in Nat \ {0}
      /\ \A n \in 0 .. Len(Plan(req)) : n \in Children
  BY Numbers
<1>1. ASSUME NEW c \in {0, 1}, LeaderExits(c)
      PROVE  TaskInv'
  <2>1. req \in Requests /\ at \in 1 .. Len(Plan(req)) /\ at \in 0 .. Len(Plan(req))
    BY <1>0, <1>1 DEF LeaderExits, TypeOK
  <2>2. Upto(req, at - 1) \o Plan(req)[at].pushes = Upto(req, at)
    BY <2>1, UptoExtends
  <2>3. c = 0 => pushed' = Upto(req, at)
    BY <1>1, <2>2 DEF LeaderExits
  <2>4. c = 1 => pushed' = Upto(req, at - 1) /\ pushed' = pushed
    BY <1>1 DEF LeaderExits
  <2>5. Upto(req, at) \in Prefixes(Selected(req))
    BY <2>1, UptoIsPrefix
  <2>6. TypeOK'
    BY <1>1, <2>3, <2>4, <2>5 DEF LeaderExits, TypeOK
  <2>7. PhaseInv'
    BY <1>1 DEF LeaderExits
  <2>8. PushInv'
    BY <1>1, <2>3, <2>4 DEF LeaderExits
  <2>9. GroupInv'
    BY <1>1 DEF LeaderExits
  <2> QED BY <2>6, <2>7, <2>8, <2>9
<1>2. ASSUME NEW h \in Helpers, HelperStarts(h)
      PROVE  TaskInv'
  <2>1. TypeOK'
    BY <1>2 DEF HelperStarts, TypeOK
  <2>2. pc \notin {"reap", "drain", "next", "final", "over"}
    BY <1>2 DEF HelperStarts
  <2> QED BY <1>2, <2>1, <2>2 DEF HelperStarts
<1>3. ASSUME NEW h \in Helpers, HelperExits(h)
      PROVE  TaskInv'
  <2>1. 0 \in Children
    BY <1>0
  <2>2. group' \in [Helpers -> Children] /\ piped' \in SUBSET Helpers
    BY <1>3, <2>1 DEF HelperExits, TypeOK
  <2>3. TypeOK'
    BY <1>3, <2>2 DEF HelperExits, TypeOK
  <2>4. InGroup' \subseteq InGroup
    BY <1>3 DEF HelperExits, TypeOK
  <2> QED BY <1>3, <2>3, <2>4 DEF HelperExits
<1>4. ASSUME NEW h \in Helpers, HelperDetaches(h)
      PROVE  TaskInv'
  <2>1. TypeOK'
    BY <1>4 DEF HelperDetaches, TypeOK
  <2> QED BY <1>4, <2>1 DEF HelperDetaches
<1> QED BY <1>1, <1>2, <1>3, <1>4 DEF Processes

LEMMA OthersKeep ==
  ASSUME TaskInv, Forwarders \/ Listener \/ Sudo
  PROVE  TaskInv'
<1> USE DEF TaskInv, PhaseInv, PushInv, GroupInv, InGroup, Waited, Before, task,
            processes, channel, passwords
<1>0. /\ Children \subseteq Nat /\ at \in Nat /\ Len(Plan(req)) \in Nat \ {0}
      /\ \A n \in 0 .. Len(Plan(req)) : n \in Children
  BY Numbers
<1>1. CASE Output
  <2>1. TypeOK'
    BY <1>1, SendFits DEF Output, TypeOK
  <2> QED BY <1>1, <2>1 DEF Output
<1>2. CASE EndOfOutput
  <2>1. TypeOK'
    BY <1>2 DEF EndOfOutput, TypeOK
  <2> QED BY <1>2, <2>1 DEF EndOfOutput
<1>3. CASE Receive
  <2>1. TypeOK'
    BY <1>3, CapacityAssumption DEF Receive, TypeOK
  <2> QED BY <1>3, <2>1 DEF Receive
<1>4. CASE Cancel
  <2>1. TypeOK'
    BY <1>4, CapacityAssumption DEF Cancel, TypeOK
  <2> QED BY <1>4, <2>1 DEF Cancel
<1>5. CASE Quit
  <2>1. TypeOK'
    BY <1>5 DEF Quit, TypeOK
  <2> QED BY <1>5, <2>1 DEF Quit
<1>6. CASE Leave
  <2>1. TypeOK'
    BY <1>6 DEF Leave, TypeOK
  <2>2. pc' \in {"over", "dropped"} /\ leader' = "none"
    BY <1>6 DEF Leave
  <2>3. PhaseInv'
    BY <1>6, <2>2 DEF Leave
  <2>4. PushInv'
    BY <1>6, <2>2 DEF Leave
  <2>5. GroupInv'
    BY <1>6 DEF Leave
  <2> QED BY <2>1, <2>3, <2>4, <2>5
<1>7. CASE Answer
  <2>1. answers' \in Seq(Children) /\ Len(answers') <= Passwords
    BY <1>7, AppendProperties, LenProperties, CapacityAssumption DEF Answer, TypeOK
  <2>2. TypeOK'
    BY <1>7, <2>1 DEF Answer, TypeOK
  <2> QED BY <1>7, <2>2 DEF Answer
<1>8. CASE WriterTakes
  <2>1. TypeOK'
    BY <1>8 DEF WriterTakes, TypeOK
  <2> QED BY <1>8, <2>1 DEF WriterTakes
<1>9. CASE WriterReads
  <2>1. answers' \in Seq(Children) /\ Len(answers') <= Passwords
    BY <1>9, HeadTailProperties, LenProperties, CapacityAssumption DEF WriterReads, TypeOK
  <2>2. lock' \in Children /\ eaten' \in [Children -> Nat]
    BY <1>0, <1>9 DEF WriterReads, TypeOK
  <2>3. TypeOK'
    BY <1>9, <2>1, <2>2 DEF WriterReads, TypeOK
  <2> QED BY <1>9, <2>3 DEF WriterReads
<1>10. CASE WriterEnds
  <2>1. TypeOK'
    BY <1>0, <1>10 DEF WriterEnds, TypeOK
  <2> QED BY <1>10, <2>1 DEF WriterEnds
<1> QED BY <1>1, <1>2, <1>3, <1>4, <1>5, <1>6, <1>7, <1>8, <1>9, <1>10
        DEF Forwarders, Listener, Sudo

LEMMA TaskStep ==
  ASSUME TaskInv, [Next]_vars
  PROVE  TaskInv'
<1>1. CASE UNCHANGED vars
  BY <1>1 DEF vars, task, processes, channel, passwords, TaskInv, TypeOK, PhaseInv,
              PushInv, GroupInv, InGroup, Waited, Before
<1>2. CASE Next
  BY <1>2, TaskKeeps, ProcessesKeep, OthersKeep DEF Next
<1> QED BY <1>1, <1>2

LEMMA TaskCorrect == Spec => []TaskInv
BY InitTask, TaskStep, PTL DEF Spec

(* Every reachable state of the task, the processes and the channels has   *)
(* its type: no line beyond the channel's capacity, no child beyond the    *)
(* plan, no profile pushed out of order or twice.                          *)
THEOREM TypeCorrect == Spec => []TypeOK
BY TaskCorrect, PTL DEF TaskInv

(* A group is signalled only while its leader is unreaped: the cancel is   *)
(* acted on where run_one still holds the child.                           *)
THEOREM GroupIsOurs == Spec => []SignalsOwnGroup
<1>1. TaskInv => SignalsOwnGroup
  BY DEF TaskInv, PhaseInv, SignalsOwnGroup, Waited
<1> QED BY <1>1, TaskCorrect, PTL

(* Nothing of a child whose group was signalled outlives run_one's SIGKILL *)
(* and wait.                                                               *)
THEOREM TearDownIsWhole == Spec => []TornDownWhole
<1>1. TaskInv => TornDownWhole
  BY DEF TaskInv, GroupInv, TornDownWhole
<1> QED BY <1>1, TaskCorrect, PTL

-----------------------------------------------------------------------------
(* Who a child logs in as. *)

LEMMA PlanFits ==
  ASSUME NEW r \in Requests, r.override, r.known,
         NEW n \in 1 .. Len(Plan(r)), NEW p \in Range(Plan(r)[n].pushes)
  PROVE  Plan(r)[n].login <=> Fits(p)
<1> DEFINE known == Range(Discovered(r))
           child(i) == [pushes |-> << Discovered(r)[i] >>, login |-> Fits(Discovered(r)[i])]
           split == [i \in DOMAIN Discovered(r) |-> child(i)]
<1>1. Discovered(r) = Selected(r) /\ Selected(r) \in Seq(Profiles)
  BY SelectedType DEF Discovered
<1>2. ASSUME NEW login \in BOOLEAN, Plan(r) = Whole(r, login),
             \A q \in known : login <=> Fits(q)
      PROVE  Plan(r)[n].login <=> Fits(p)
  <2>1. n = 1
    BY <1>2 DEF Whole
  <2>2. Plan(r)[n].pushes = Selected(r) /\ Plan(r)[n].login = login
    BY <1>2, <2>1 DEF Whole
  <2>3. p \in known
    BY <1>1, <2>2
  <2> QED BY <1>2, <2>2, <2>3
<1>3. CASE Plan(r) = split
  <2>1. n \in DOMAIN Discovered(r)
    <3>1. DOMAIN Discovered(r) = 1 .. Len(Discovered(r)) /\ Len(Discovered(r)) \in Nat
      BY <1>1, LenProperties
    <3>2. split = [i \in 1 .. Len(Discovered(r)) |-> child(i)]
      BY <3>1
    <3>3. split \in Seq({child(i) : i \in 1 .. Len(Discovered(r))})
      BY <3>1, <3>2
    <3>4. Len(split) = Len(Discovered(r))
      BY <3>1, <3>2, <3>3, LenProperties
    <3> QED BY <1>3, <3>1, <3>4
  <2>2. Plan(r)[n] = child(n)
    BY <1>3, <2>1
  <2>3. p = Discovered(r)[n]
    BY <2>2 DEF Range
  <2> QED BY <2>2, <2>3
<1>4. \/ Plan(r) = Whole(r, TRUE) /\ (\A q \in known : Fits(q))
      \/ Plan(r) = Whole(r, FALSE) /\ (\A q \in known : ~ Fits(q))
      \/ Plan(r) = split
  BY DEF Plan
<1> QED BY <1>2, <1>3, <1>4

(* Every child of the plan uses the override's login exactly for profiles  *)
(* that login can activate (override_fits), for any flake.                 *)
THEOREM LoginIsRight == Spec => []LoginFits
<1>1. ASSUME TaskInv  PROVE LoginFits
  <2>1. SUFFICES ASSUME leader = "alive", req.override, req.known,
                        NEW p \in Range(Plan(req)[at].pushes)
                 PROVE  Plan(req)[at].login <=> Fits(p)
    BY DEF LoginFits
  <2>2. req \in Requests /\ at \in 1 .. Len(Plan(req))
    BY <1>1, <2>1, Numbers DEF TaskInv, TypeOK, PhaseInv
  <2> QED BY <2>1, <2>2, PlanFits
<1> QED BY <1>1, TaskCorrect, PTL

-----------------------------------------------------------------------------
(* Sudo passwords: a writer that loses one ends with it, and each child    *)
(* has one writer.                                                         *)

PasswordInv ==
  /\ lock \notin waiting /\ lock <= at
  /\ \A c \in waiting : c > 0 /\ c <= at
  /\ \A c \in Children :
       /\ eaten[c] <= 1
       /\ c \in waiting \/ c > at \/ (c = lock /\ lock # 0) => eaten[c] = 0

LEMMA PasswordStep ==
  ASSUME TypeOK, PhaseInv, PasswordInv, [Next]_vars
  PROVE  PasswordInv'
<1> USE DEF PasswordInv, task, processes, channel, passwords
<1>0. Children \subseteq Nat /\ at \in Nat /\ lock \in Children /\ eaten \in [Children -> Nat]
  BY Numbers DEF TypeOK
<1>1. CASE Spawn
  <2>1. /\ at' = at + 1 /\ lock' = lock /\ eaten' = eaten
        /\ waiting' \subseteq waiting \cup {at + 1} /\ waiting \subseteq Children
    BY <1>1 DEF Spawn, TypeOK
  <2>2. at + 1 \in Children
    BY <1>1, Numbers DEF Spawn, PhaseInv
  <2>3. lock # at + 1 \/ eaten[at + 1] = 0
    BY <1>0, <2>2
  <2>4. \A c \in waiting' : c > 0 /\ c <= at'
    BY <1>0, <2>1, <2>2
  <2>5. \A c \in Children : c \in waiting' \/ c > at' \/ (c = lock' /\ lock' # 0)
                            => eaten'[c] = 0
    BY <1>0, <2>1, <2>2
  <2>6. lock' \notin waiting' /\ lock' <= at'
    BY <1>0, <1>1, <2>1, <2>2
  <2> QED BY <2>1, <2>4, <2>5, <2>6
<1>2. CASE WriterTakes
  BY <1>0, <1>2 DEF WriterTakes, TypeOK
<1>3. CASE WriterReads
  <2>1. lock # 0 /\ at' = at /\ waiting' = waiting /\ eaten[lock] = 0
    BY <1>0, <1>3 DEF WriterReads
  <2>2. CASE Deliverable
    BY <1>3, <2>1, <2>2 DEF WriterReads
  <2>3. CASE ~ Deliverable
    <3>1. lock' = 0 /\ eaten' = [eaten EXCEPT ![lock] = 1]
      BY <1>0, <1>3, <2>1, <2>3 DEF WriterReads
    <3>2. 0 \notin waiting
      BY <1>0
    <3> QED BY <1>0, <2>1, <3>1, <3>2
  <2> QED BY <2>2, <2>3
<1>4. CASE WriterEnds
  <2>1. lock' = 0 /\ UNCHANGED <<at, waiting, eaten>>
    BY <1>4 DEF WriterEnds
  <2>2. 0 \notin waiting
    BY <1>0
  <2> QED BY <1>0, <2>1, <2>2
<1>5. CASE UNCHANGED <<at, lock, waiting, eaten>>
  BY <1>5
<1>6. Spawn \/ WriterTakes \/ WriterReads \/ WriterEnds
        \/ UNCHANGED <<at, lock, waiting, eaten>>
  BY DEF vars, Next, Task, Start, SeedEnds, SpawnFails, Reaped, SeesCancel, Term, Kill,
         ReapedAfterKill, Drained, Finish, Processes, LeaderExits, HelperStarts,
         HelperExits, HelperDetaches, Forwarders, Output, EndOfOutput, Listener, Receive,
         Cancel, Quit, Leave, Sudo, Answer
<1> QED BY <1>1, <1>2, <1>3, <1>4, <1>5, <1>6

(* However many children a deploy has, and in whatever order writers take  *)
(* the receiver, a child that is gone swallows one password at most.       *)
THEOREM PasswordsSurvive == Spec => []OnePasswordLost
<1>1. ASSUME Init, TypeOK  PROVE PasswordInv
  BY <1>1, Numbers DEF Init, PasswordInv
<1>2. PasswordInv => OnePasswordLost
  BY DEF PasswordInv, OnePasswordLost
<1>3. TaskInv => TypeOK /\ PhaseInv
  BY DEF TaskInv
<1> QED BY <1>1, <1>2, <1>3, PasswordStep, TaskCorrect, PTL DEF Spec

-----------------------------------------------------------------------------
(* The wrapper implements its promise: a child that exits 0 is a Push (or  *)
(* a stutter, when nothing is selected), a cancel an Ask, the last line an *)
(* End, and everything else is invisible.                                  *)

LEMMA PushKeepsOrder ==
  ASSUME TaskInv, LeaderExits(0)
  PROVE  Promise!Push \/ UNCHANGED Promise!promise
<1>0. verdict = None /\ leader = "alive"
  BY DEF LeaderExits, TaskInv, PhaseInv, PushInv, Waited
<1>1. req \in Requests /\ at \in 1 .. Len(Plan(req)) /\ at \in 0 .. Len(Plan(req))
      /\ at - 1 \in 0 .. Len(Plan(req))
  BY <1>0, Numbers DEF TaskInv, TypeOK, PhaseInv
<1> DEFINE pushes == Plan(req)[at].pushes
<1>2. pushed' = pushed \o pushes /\ pushed = Upto(req, at - 1) /\ pushed' = Upto(req, at)
  BY <1>0, <1>1, UptoExtends DEF LeaderExits, TaskInv, PushInv
<1>3. pushed' \in Prefixes(Selected(req))
  BY <1>1, <1>2, UptoIsPrefix
<1>4. pushed \in Seq(Profiles) /\ pushes \in Seq(Profiles)
  <2>1. Selected(req) \in Seq(Profiles) /\ Len(Selected(req)) \in Nat
    BY <1>1, SelectedType, LenProperties
  <2>2. pushed \in Seq(Profiles)
    <3>1. PICK l \in 0 .. Len(Selected(req)) : pushed = SubSeq(Selected(req), 1, l)
      BY <1>1, <1>2, UptoIsPrefix DEF Prefixes
    <3>2. \A i \in 1 .. l : Selected(req)[i] \in Profiles
      BY <2>1, ElementOfSeq
    <3> QED BY <3>1, <3>2, SubSeqProperties
  <2>3. CASE pushes = Selected(req)
    BY <2>1, <2>2, <2>3
  <2>4. CASE Len(Plan(req)) = Len(Selected(req)) /\ pushes = << Selected(req)[at] >>
    <3>1. Selected(req)[at] \in Profiles
      BY <1>1, <2>1, <2>4, ElementOfSeq
    <3> QED BY <2>2, <2>4, <3>1
  <2>5. \/ pushes = Selected(req)
        \/ Len(Plan(req)) = Len(Selected(req)) /\ pushes = << Selected(req)[at] >>
    BY <1>1, PlanShape
  <2> QED BY <2>3, <2>4, <2>5
<1>5. UNCHANGED <<Selected(req), cancel, verdict>>
  BY DEF LeaderExits, task
<1>6. CASE pushes = << >>
  <2>1. pushed' = pushed
    BY <1>2, <1>4, <1>6, ConcatEmptySeq
  <2> QED BY <1>5, <2>1 DEF Promise!promise
<1>7. CASE pushes # << >>
  <2>1. Len(pushed') > Len(pushed)
    <3>1. Len(pushes) \in Nat \ {0} /\ Len(pushed) \in Nat
      BY <1>4, <1>7, EmptySeq, LenProperties
    <3>2. Len(pushed \o pushes) = Len(pushed) + Len(pushes)
      BY <1>4, ConcatProperties
    <3>3. Len(pushed') = Len(pushed) + Len(pushes)
      BY ONLY <1>2, <3>2
    <3> HIDE DEF pushes
    <3> QED BY <3>1, <3>3
  <2>2. pushed' \in Promise!Prefixes(Selected(req))
    BY <1>3 DEF Prefixes, Promise!Prefixes
  <2> QED BY <1>0, <1>5, <2>1, <2>2 DEF Promise!Push
<1> QED BY <1>6, <1>7

LEMMA StepKeepsPromise ==
  ASSUME TaskInv, [Next]_vars
  PROVE  [Promise!Next]_(Promise!promise)
<1> USE DEF Promise!promise, task, processes, channel, passwords
<1>1. CASE LeaderExits(0)
  BY <1>1, PushKeepsOrder DEF Promise!Next
<1>2. CASE Cancel \/ Quit
  BY <1>2 DEF Cancel, Quit, Promise!Next, Promise!Ask
<1>3. CASE Start
  <2>1. verdict = None /\ pushed = << >>
    BY <1>3, UptoNone DEF Start, TaskInv, TypeOK, PhaseInv, PushInv, Before
  <2>2. UNCHANGED <<Selected(req), pushed, cancel>>
    BY <1>3 DEF Start
  <2>3. verdict' = verdict \/ (verdict' = "unstarted" /\ cancel)
    BY <1>3 DEF Start
  <2> QED BY <2>1, <2>2, <2>3 DEF Promise!Next, Promise!End
<1>4. CASE SpawnFails
  <2>1. verdict = None /\ verdict' = "failed" /\ UNCHANGED <<Selected(req), pushed, cancel>>
    BY <1>4 DEF SpawnFails, TaskInv, PushInv
  <2> QED BY <2>1 DEF Promise!Next, Promise!End
<1>5. CASE Finish
  <2>1. verdict = None /\ UNCHANGED <<Selected(req), pushed, cancel>>
    BY <1>5 DEF Finish, TaskInv, PushInv
  <2>2. CASE code = 0
    <3>1. verdict' = "ok" /\ pushed = Upto(req, at)
      BY <1>5, <2>2 DEF Finish, TaskInv, PushInv
    <3>2. cancel \/ pushed = Selected(req)
      BY <1>5, <2>2, <3>1 DEF Finish, TaskInv, PushInv, Upto
    <3> QED BY <2>1, <3>1, <3>2 DEF Promise!Next, Promise!End
  <2>3. CASE code # 0
    BY <1>5, <2>1, <2>3 DEF Finish, Promise!Next, Promise!End
  <2> QED BY <2>2, <2>3
<1>6. CASE LeaderExits(1)
  BY <1>6 DEF LeaderExits
<1>7. CASE UNCHANGED <<req, pushed, cancel, verdict>>
  BY <1>7
<1>8. \/ LeaderExits(0) \/ LeaderExits(1) \/ Cancel \/ Quit \/ Start \/ SpawnFails \/ Finish
      \/ UNCHANGED <<req, pushed, cancel, verdict>>
  BY DEF vars, Next, Task, SeedEnds, Spawn, Reaped, SeesCancel, Term, Kill,
         ReapedAfterKill, Drained, Processes, HelperStarts, HelperExits, HelperDetaches,
         Forwarders, Output, EndOfOutput, Listener, Receive, Leave, Sudo, Answer,
         WriterTakes, WriterReads, WriterEnds
<1> QED BY <1>1, <1>2, <1>3, <1>4, <1>5, <1>6, <1>7, <1>8

(* deploy::run keeps its promise for any flake, selection and plan: the    *)
(* profiles are pushed in order, each once, nothing follows a failure, and *)
(* there is one verdict, which is right.                                   *)
THEOREM PromiseKept == Spec => KeepsPromise
<1>1. Init => Promise!Init
  BY DEF Init, Promise!Init
<1>2. TaskInv /\ [Next]_vars => [Promise!Next]_(Promise!promise)
  BY StepKeepsPromise
<1> QED BY <1>1, <1>2, TaskCorrect, PTL DEF Spec, KeepsPromise, Promise!Spec
=============================================================================
