-------------------------- MODULE DriftGuardProofs --------------------------
(* What the drift guard protects and what a baseline is, for any host and  *)
(* profiles, orders, options, commits, people and faults.                  *)
EXTENDS DriftGuard, HostLedgerProofs

Content == [Profiles -> Sources \cup {None}]

RunPhases == {"contact", "guard", "bless", "deploy", "read", "ended"}

RunRecord ==
  [rev : Revs, phase : RunPhases, todo : Seq(Profiles), recorded : OptPath,
   seen : Content, left : Content, outcome : Outcome \cup {None},
   own : HostState \cup {None}]

(* A guarded run deploys only after it saw every profile as it was         *)
(* recorded, or the system in the watched history.                         *)
Guard(run) ==
  /\ run.phase = "guard" =>
       /\ run.recorded # None
       /\ \A p \in Profiles : p \in Range(run.todo) \/ run.seen[p] = run.recorded[p]
  /\ run.phase = "deploy" /\ run.recorded # None =>
       \/ \A p \in Profiles : run.seen[p] = run.recorded[p]
       \/ run.seen["system"] \in Revs /\ run.seen["system"] <= run.rev

(* What is behind a run on a host that holds `on`: a profile it adopts,    *)
(* has activated or has read back is there.                                *)
Covered(run, on) ==
  /\ run.phase \in {"contact", "guard", "deploy", "read"} => run.todo # << >>
  /\ run.phase = "deploy" => \A p \in Profiles : p \in Range(run.todo) \/ on[p] # None
  /\ run.phase = "read" => \A p \in Profiles : on[p] # None
  /\ run.phase \in {"contact", "read"} =>
       \A p \in Profiles : p \in Range(run.todo) \/ run.left[p] # None
  /\ run.phase = "ended" => run.outcome \in Outcome

Sound(run, on) == run \in RunRecord /\ Guard(run) /\ Covered(run, on)

RunsSound ==
  \A who \in Programs :
     runs[who] # None =>
       Sound(runs[who], host) /\ (who = "check" => runs[who].own \in HostState)

Types ==
  /\ head \in Revs
  /\ host \in Content
  /\ file \in HostState /\ memory \in HostState
  /\ DOMAIN runs = Programs

Inv == Types /\ RunsSound

-----------------------------------------------------------------------------
(* Sequences of profiles, outcomes, plans. *)

LEMMA NoneIsNoSource == None \notin Sources
BY DriftAssumption, NoneAssumption DEF Sources, Work

LEMMA HeadOrTail ==
  ASSUME NEW s \in Seq(Profiles), s # << >>
  PROVE  /\ Head(s) \in Profiles /\ Tail(s) \in Seq(Profiles)
         /\ \A p \in Range(s) : p = Head(s) \/ p \in Range(Tail(s))
<1>1. ASSUME NEW i \in DOMAIN s, i # 1 PROVE s[i] \in Range(Tail(s))
  <2>1. i - 1 \in DOMAIN Tail(s) /\ Tail(s)[i - 1] = s[i]
    BY <1>1
  <2> QED BY <2>1 DEF Range
<1> QED BY <1>1 DEF Range

LEMMA EmptyRange == Range(<< >>) = {}
BY DEF Range

LEMMA OrdersAreFull ==
  /\ Activation \in Seq(Profiles) /\ Activation # << >>
  /\ Reading \in Seq(Profiles) /\ Reading # << >>
  /\ \A p \in Profiles : p \in Range(Activation) /\ p \in Range(Reading)
BY DriftAssumption, EmptyRange

LEMMA EndedIsOutcome ==
  /\ Ended("held") \in Outcome /\ Ended("failed") \in Outcome
  /\ Ended("cancelled") \in Outcome
BY DEF Ended, Outcome, Unsettled, OptPath

(* Paths that were found for every profile are a baseline. *)
LEMMA FullBaseline ==
  ASSUME NEW left \in Content, \A p \in Profiles : left[p] # None, NEW kind \in Settled
  PROVE  [kind |-> kind, toplevels |-> left] \in Outcome
<1>1. left \in Paths
  BY DriftAssumption DEF Content
<1> QED BY <1>1 DEF Outcome, OptPath

(* A run that ends is sound, whatever it had done. *)
LEMMA EndsSound ==
  ASSUME NEW run \in RunRecord, NEW o \in Outcome, NEW on
  PROVE  Sound(With(run, o), on) /\ With(run, o).own = run.own
<1> DEFINE next == With(run, o)
<1>1. Nothing \in Content
  BY DEF Nothing, Content
<1>2. /\ next \in RunRecord /\ next.phase = "ended" /\ next.outcome = o
      /\ next.own = run.own
  <2> DEFINE empty == << >>
  <2>0. empty \in Seq(Profiles) /\ Done(run) = [run EXCEPT !.recorded = None, !.seen = Nothing,
                                                        !.left = Nothing, !.todo = empty]
    BY DEF Done
  <2> HIDE DEF empty
  <2>1. /\ Done(run) \in RunRecord /\ Done(run).own = run.own
    BY <1>1, <2>0 DEF RunRecord, OptPath
  <2> QED BY <2>1 DEF With, RunRecord, RunPhases
<1> HIDE DEF next
<1>3. Sound(next, on) /\ next.own = run.own
  BY <1>2 DEF Sound, Guard, Covered
<1> QED BY <1>3 DEF next

(* The same run on a host that has gained content. *)
LEMMA StaysSound ==
  ASSUME NEW run, NEW on, NEW later, Sound(run, on),
         \A p \in Profiles : on[p] # None => later[p] # None
  PROVE  Sound(run, later)
BY DEF Sound, Covered

(* One program moves its run on, and the host loses nothing. *)
LEMMA OneMoves ==
  ASSUME Inv, NEW who \in Programs, NEW next, runs' = [runs EXCEPT ![who] = next],
         next # None => /\ Sound(next, host')
                        /\ who = "check" => next.own \in HostState,
         \A p \in Profiles : host[p] # None => host'[p] # None
  PROVE  RunsSound' /\ DOMAIN runs' = Programs
<1>1. \A other \in Programs : other # who => runs'[other] = runs[other]
  BY DEF Inv, Types
<1>2. runs'[who] = next
  BY DEF Inv, Types
<1> QED BY <1>1, <1>2, StaysSound DEF Inv, Types, RunsSound

LEMMA NoneMoves ==
  ASSUME Inv, UNCHANGED runs, \A p \in Profiles : host[p] # None => host'[p] # None
  PROVE  RunsSound' /\ DOMAIN runs' = Programs
BY StaysSound DEF Inv, Types, RunsSound

-----------------------------------------------------------------------------
(* Steps. *)

LEMMA PlannedSound ==
  ASSUME Inv, NEW hs \in HostState, NEW on
  PROVE  Sound(Planned(hs), on) /\ Planned(hs).own = hs /\ Planned(hs) \in RunRecord
<1>1. Nothing \in Content /\ head \in Revs
  BY DEF Nothing, Content, Inv, Types
<1>2. PlanEntry(hs).recorded \in OptPath
  BY PlanEntryType DEF PlanHost
<1>3. ASSUME NEW phase \in {"contact", "guard", "deploy"}, NEW todo \in {Activation, Reading},
             NEW recorded \in OptPath,
             phase # "guard" => todo = Activation,
             phase = "guard" => recorded # None, phase = "deploy" => recorded = None
      PROVE  LET new == NewRun(hs, phase, todo, recorded)
             IN  Sound(new, on) /\ new.own = hs /\ new \in RunRecord
  <2> DEFINE new == NewRun(hs, phase, todo, recorded)
  <2>1. /\ new \in RunRecord /\ new.phase = phase /\ new.todo = todo
        /\ new.recorded = recorded /\ new.own = hs
    BY <1>1, <1>3, OrdersAreFull DEF NewRun, RunRecord, RunPhases
  <2>2. todo # << >> /\ \A p \in Profiles : p \in Range(todo)
    BY OrdersAreFull
  <2> HIDE DEF new
  <2>3. Sound(new, on)
    BY <1>3, <2>1, <2>2 DEF Sound, Guard, Covered
  <2> QED BY <2>1, <2>3 DEF new
<1>4. None \in OptPath
  BY DEF OptPath
<1> DEFINE entry == PlanEntry(hs)
<1>5. \/ Planned(hs) = NewRun(hs, "contact", Activation, entry.recorded)
      \/ entry.recorded # None /\ Planned(hs) = NewRun(hs, "guard", Reading, entry.recorded)
      \/ Planned(hs) = NewRun(hs, "deploy", Activation, None)
  BY DEF Planned
<1> HIDE DEF entry
<1>6. entry.recorded \in OptPath
  BY <1>2 DEF entry
<1> QED BY <1>3, <1>4, <1>5, <1>6

LEMMA PollStep == Inv /\ Poll => Inv'
<1> SUFFICES ASSUME Inv, Poll PROVE Inv'
  OBVIOUS
<1> DEFINE new == [Planned(memory) EXCEPT !.own = None]
<1>1. Sound(Planned(memory), host) /\ Planned(memory) \in RunRecord
  BY PlannedSound DEF Inv, Types
<1>2. Sound(new, host)
  BY <1>1 DEF Sound, Guard, Covered, RunRecord
<1>3. /\ runs' = [runs EXCEPT !["daemon"] = new] \/ runs' = runs
      /\ file' = memory /\ UNCHANGED << head, host, memory >>
  BY DEF Poll
<1> HIDE DEF new
<1>4. RunsSound' /\ DOMAIN runs' = Programs
  <2>1. CASE runs' = [runs EXCEPT !["daemon"] = new]
    BY <1>2, <1>3, <2>1, OneMoves DEF Programs
  <2>2. CASE runs' = runs
    BY <1>3, <2>2 DEF RunsSound, Inv, Types
  <2> QED BY <1>3, <2>1, <2>2
<1> QED BY <1>3, <1>4 DEF Inv, Types

LEMMA CheckStep == Inv /\ Check => Inv'
<1> SUFFICES ASSUME Inv, Check PROVE Inv'
  OBVIOUS
<1> DEFINE own == DropSupersededParks(file)
<1>1. own \in HostState
  BY DropSupersededParksType DEF Inv, Types
<1>2. runs' = [runs EXCEPT !["check"] = Planned(own)] /\ host' = host
      /\ UNCHANGED << head, file, memory >>
  BY DEF Check
<1> HIDE DEF own
<1>3. Sound(Planned(own), host) /\ Planned(own).own = own
  BY <1>1, PlannedSound
<1>4. RunsSound' /\ DOMAIN runs' = Programs
  BY <1>1, <1>2, <1>3, OneMoves DEF Programs
<1> QED BY <1>2, <1>4 DEF Inv, Types

(* A run that goes on without touching the host. *)
LEMMA AdvanceStep ==
  ASSUME Inv, NEW who \in Programs, runs[who] # None, NEW next, Advance(who, next),
         UNCHANGED host, Sound(next, host), next.own = runs[who].own
  PROVE  Inv'
<1>1. runs' = [runs EXCEPT ![who] = next] /\ UNCHANGED << head, file, memory >>
  BY DEF Advance
<1>2. who = "check" => next.own \in HostState
  BY DEF Inv, RunsSound
<1>3. RunsSound' /\ DOMAIN runs' = Programs
  BY <1>1, <1>2, OneMoves
<1> QED BY <1>1, <1>3 DEF Inv, Types

LEMMA RunOf ==
  ASSUME Inv, NEW who \in Programs, runs[who] # None
  PROVE  /\ runs[who] \in RunRecord /\ Guard(runs[who]) /\ Covered(runs[who], host)
         /\ Sound(runs[who], host)
BY DEF Inv, RunsSound, Sound

(* One more profile was found and kept for the baseline. *)
LEMMA KeepsPath ==
  ASSUME NEW run \in RunRecord, Covered(run, host), run.phase \in {"contact", "read"},
         host \in Content, host[Head(run.todo)] # None
  PROVE  LET looked == [run EXCEPT !.todo = Tail(@), !.left[Head(run.todo)] = host[Head(run.todo)]]
         IN  /\ looked \in RunRecord /\ looked.phase = run.phase /\ looked.own = run.own
             /\ looked.todo # << >> => Sound(looked, host)
             /\ looked.todo = << >> => \A p \in Profiles : looked.left[p] # None
             /\ looked.left \in Content
<1> DEFINE p == Head(run.todo)
           left == [run.left EXCEPT ![p] = host[p]]
           looked == [run EXCEPT !.todo = Tail(run.todo), !.left = left]
<1>1. /\ run.todo \in Seq(Profiles) /\ run.todo # << >>
      /\ p \in Profiles /\ Tail(run.todo) \in Seq(Profiles)
      /\ \A q \in Range(run.todo) : q = p \/ q \in Range(Tail(run.todo))
  BY HeadOrTail DEF RunRecord, Covered
<1>2. left \in Content /\ \A q \in Profiles : left[q] = IF q = p THEN host[p] ELSE run.left[q]
  BY <1>1 DEF Content, RunRecord
<1>3. \A q \in Profiles : q \in Range(Tail(run.todo)) \/ left[q] # None
  BY <1>1, <1>2 DEF Covered
<1> HIDE DEF left, p
<1>4. /\ looked \in RunRecord /\ looked.phase = run.phase /\ looked.own = run.own
      /\ looked.todo = Tail(run.todo) /\ looked.left = left
  BY <1>1, <1>2 DEF RunRecord
<1> HIDE DEF looked
<1>5. looked.todo # << >> => Sound(looked, host)
  BY <1>3, <1>4 DEF Sound, Guard, Covered
<1>6. looked.todo = << >> => \A q \in Profiles : looked.left[q] # None
  BY <1>3, <1>4, EmptyRange
<1>7. looked = [run EXCEPT !.todo = Tail(@), !.left[Head(run.todo)] = host[Head(run.todo)]]
  BY DEF looked, left, p
<1> QED BY <1>2, <1>4, <1>5, <1>6, <1>7

LEMMA ContactStep ==
  ASSUME Inv, NEW who \in Programs, Contact(who)
  PROVE  Inv'
<1> DEFINE run == runs[who]
           p == Head(run.todo)
           looked == [run EXCEPT !.todo = Tail(@), !.left[p] = host[p]]
<1>1. run # None /\ run.phase = "contact"
  BY DEF Contact
<1>2. run \in RunRecord /\ Covered(run, host) /\ host \in Content
  BY <1>1, RunOf DEF Inv, Types
<1>3. PICK atHand \in BOOLEAN :
        /\ UNCHANGED host
        /\ \/ Advance(who, With(run, Ended("held")))
           \/ /\ Current(host[p], run.rev, atHand) /\ looked.todo # << >>
              /\ Advance(who, looked)
           \/ /\ Current(host[p], run.rev, atHand) /\ looked.todo = << >>
              /\ Advance(who, With(run, [kind |-> "adopted", toplevels |-> looked.left]))
  BY DEF Contact
<1>4. CASE Advance(who, With(run, Ended("held")))
  BY <1>1, <1>2, <1>3, <1>4, EndsSound, EndedIsOutcome, AdvanceStep
<1>5. Current(host[p], run.rev, atHand) => host[p] # None
  BY <1>2, NoneAssumption DEF Current, RunRecord
<1>6. CASE Current(host[p], run.rev, atHand) /\ looked.todo # << >> /\ Advance(who, looked)
  <2>1. Sound(looked, host) /\ looked.own = run.own
    BY <1>1, <1>2, <1>5, <1>6, KeepsPath
  <2> QED BY <1>1, <1>3, <1>6, <2>1, AdvanceStep
<1>7. CASE /\ Current(host[p], run.rev, atHand) /\ looked.todo = << >>
           /\ Advance(who, With(run, [kind |-> "adopted", toplevels |-> looked.left]))
  <2>1. looked.left \in Content /\ \A q \in Profiles : looked.left[q] # None
    BY <1>1, <1>2, <1>5, <1>7, KeepsPath
  <2> HIDE DEF looked
  <2>2. [kind |-> "adopted", toplevels |-> looked.left] \in Outcome
    BY <2>1, FullBaseline DEF Settled
  <2> QED BY <1>1, <1>2, <1>3, <1>7, <2>2, EndsSound, AdvanceStep
<1> QED BY <1>3, <1>4, <1>6, <1>7

LEMMA SeenType ==
  ASSUME NEW run \in RunRecord, NEW p \in Profiles, host \in Content
  PROVE  LET next == Seen(run, p)
         IN  /\ next \in RunRecord /\ next.todo = run.todo /\ next.recorded = run.recorded
             /\ next.phase = run.phase /\ next.own = run.own /\ next.rev = run.rev
             /\ \A q \in Profiles : next.seen[q] = IF q = p THEN host[p] ELSE run.seen[q]
<1> DEFINE seen == [run.seen EXCEPT ![p] = host[p]]
<1>1. seen \in Content /\ \A q \in Profiles : seen[q] = IF q = p THEN host[p] ELSE run.seen[q]
  BY DEF Content, RunRecord
<1>2. Seen(run, p) = [run EXCEPT !.seen = seen]
  BY DEF Seen
<1> HIDE DEF seen
<1> QED BY <1>1, <1>2 DEF RunRecord

LEMMA CompareStep ==
  ASSUME Inv, NEW who \in Programs, Compare(who)
  PROVE  Inv'
<1> DEFINE run == runs[who]
           p == Head(run.todo)
           saw == Seen(run, p)
           looked == [saw EXCEPT !.todo = Tail(@)]
<1>1. run # None /\ run.phase = "guard" /\ UNCHANGED host
  BY DEF Compare
<1>2. run \in RunRecord /\ Guard(run) /\ Covered(run, host) /\ host \in Content
  BY <1>1, RunOf DEF Inv, Types
<1>3. /\ run.todo \in Seq(Profiles) /\ run.todo # << >> /\ p \in Profiles
      /\ Tail(run.todo) \in Seq(Profiles)
      /\ \A q \in Range(run.todo) : q = p \/ q \in Range(Tail(run.todo))
  BY <1>1, <1>2, HeadOrTail DEF RunRecord, Covered
<1>4. /\ saw \in RunRecord /\ saw.todo = run.todo /\ saw.recorded = run.recorded
      /\ saw.phase = "guard" /\ saw.own = run.own
      /\ \A q \in Profiles : saw.seen[q] = IF q = p THEN host[p] ELSE run.seen[q]
  BY <1>1, <1>2, <1>3, SeenType
<1>5. \/ Advance(who, With(run, Ended("held")))
      \/ Advance(who, With(saw, Ended("held")))
      \/ Advance(who, [saw EXCEPT !.phase = "bless"])
      \/ host[p] = run.recorded[p] /\ looked.todo # << >> /\ Advance(who, looked)
      \/ /\ host[p] = run.recorded[p] /\ looked.todo = << >>
         /\ Advance(who, [looked EXCEPT !.phase = "deploy", !.todo = Activation])
  BY DEF Compare
<1> HIDE DEF saw
<1>6. /\ looked \in RunRecord /\ looked.todo = Tail(run.todo) /\ looked.recorded = run.recorded
      /\ looked.phase = "guard" /\ looked.own = run.own /\ looked.seen = saw.seen
  BY <1>3, <1>4 DEF RunRecord
<1> HIDE DEF looked
<1>7. CASE Advance(who, With(run, Ended("held"))) \/ Advance(who, With(saw, Ended("held")))
  BY <1>1, <1>2, <1>4, <1>7, EndsSound, EndedIsOutcome, AdvanceStep
<1>8. CASE Advance(who, [saw EXCEPT !.phase = "bless"])
  <2> DEFINE next == [saw EXCEPT !.phase = "bless"]
  <2>1. next \in RunRecord /\ next.phase = "bless" /\ next.own = run.own
    BY <1>4 DEF RunRecord, RunPhases
  <2> HIDE DEF next
  <2>2. Sound(next, host)
    BY <2>1 DEF Sound, Guard, Covered
  <2>3. Advance(who, next)
    BY <1>8 DEF next
  <2> QED BY <1>1, <2>1, <2>2, <2>3, AdvanceStep
<1>9. ASSUME host[p] = run.recorded[p]
      PROVE  /\ run.recorded # None
             /\ \A q \in Profiles : q \in Range(Tail(run.todo)) \/ saw.seen[q] = run.recorded[q]
  BY <1>1, <1>2, <1>3, <1>4, <1>9 DEF Guard
<1>10. CASE host[p] = run.recorded[p] /\ looked.todo # << >> /\ Advance(who, looked)
  <2>1. Sound(looked, host)
    BY <1>6, <1>9, <1>10 DEF Sound, Guard, Covered
  <2> QED BY <1>1, <1>6, <1>10, <2>1, AdvanceStep
<1>11. CASE /\ host[p] = run.recorded[p] /\ looked.todo = << >>
            /\ Advance(who, [looked EXCEPT !.phase = "deploy", !.todo = Activation])
  <2> DEFINE next == [looked EXCEPT !.phase = "deploy", !.todo = Activation]
  <2>1. /\ next \in RunRecord /\ next.phase = "deploy" /\ next.own = run.own
        /\ next.todo = Activation /\ next.seen = saw.seen /\ next.recorded = run.recorded
    BY <1>6, OrdersAreFull DEF RunRecord, RunPhases
  <2> HIDE DEF next
  <2>2. \A q \in Profiles : saw.seen[q] = run.recorded[q]
    BY <1>6, <1>9, <1>11, EmptyRange
  <2>3. Sound(next, host)
    BY <2>1, <2>2, OrdersAreFull DEF Sound, Guard, Covered
  <2>4. Advance(who, next)
    BY <1>11 DEF next
  <2> QED BY <1>1, <2>1, <2>3, <2>4, AdvanceStep
<1> QED BY <1>5, <1>7, <1>8, <1>10, <1>11

LEMMA BlessStep ==
  ASSUME Inv, NEW who \in Programs, Bless(who)
  PROVE  Inv'
<1> DEFINE run == runs[who]
           saw == Seen(run, "system")
           blessed == [saw EXCEPT !.phase = "deploy", !.todo = Activation]
<1>1. run # None /\ UNCHANGED host
  BY DEF Bless
<1>2. run \in RunRecord /\ host \in Content /\ "system" \in Profiles
  BY <1>1, RunOf, DriftAssumption DEF Inv, Types
<1>3. \/ Advance(who, With(run, Ended("held")))
      \/ Ancestor(ConfigurationRev, run.rev) /\ Advance(who, blessed)
  BY DEF Bless
<1>4. CASE Advance(who, With(run, Ended("held")))
  BY <1>1, <1>2, <1>4, EndsSound, EndedIsOutcome, AdvanceStep
<1>5. CASE Ancestor(ConfigurationRev, run.rev) /\ Advance(who, blessed)
  <2>1. host["system"] \in Revs /\ host["system"] <= run.rev
    BY <1>5, NoneAssumption DEF Ancestor, ConfigurationRev
  <2>2. saw \in RunRecord /\ saw.own = run.own /\ saw.rev = run.rev
        /\ saw.seen["system"] = host["system"]
    BY <1>2, SeenType
  <2> HIDE DEF saw
  <2>3. /\ blessed \in RunRecord /\ blessed.phase = "deploy" /\ blessed.own = run.own
        /\ blessed.todo = Activation /\ blessed.seen = saw.seen /\ blessed.rev = run.rev
    BY <2>2, OrdersAreFull DEF RunRecord, RunPhases
  <2> HIDE DEF blessed
  <2>4. Sound(blessed, host)
    BY <2>1, <2>2, <2>3, OrdersAreFull DEF Sound, Guard, Covered
  <2> QED BY <1>1, <1>5, <2>3, <2>4, AdvanceStep
<1> QED BY <1>3, <1>4, <1>5

LEMMA BreaksStep ==
  ASSUME Inv, NEW who \in Programs, Breaks(who)
  PROVE  Inv'
<1>1. runs[who] # None /\ UNCHANGED host
  BY DEF Breaks
<1>2. runs[who] \in RunRecord
  BY <1>1, RunOf
<1>3. \/ Advance(who, With(runs[who], Ended("failed")))
      \/ Advance(who, With(runs[who], Ended("cancelled")))
  BY DEF Breaks
<1> QED BY <1>1, <1>2, <1>3, EndsSound, EndedIsOutcome, AdvanceStep

LEMMA ReadBackStep ==
  ASSUME Inv, NEW who \in Programs, ReadBack(who)
  PROVE  Inv'
<1> DEFINE run == runs[who]
           p == Head(run.todo)
           looked == [run EXCEPT !.todo = Tail(@), !.left[p] = host[p]]
<1>1. run # None /\ run.phase = "read" /\ UNCHANGED host
  BY DEF ReadBack
<1>2. run \in RunRecord /\ Covered(run, host) /\ host \in Content
  BY <1>1, RunOf DEF Inv, Types
<1>3. host[p] # None
  BY <1>1, <1>2, HeadOrTail DEF RunRecord, Covered
<1>4. \/ looked.todo # << >> /\ Advance(who, looked)
      \/ /\ looked.todo = << >>
         /\ Advance(who, With(run, [kind |-> "ok", toplevels |-> looked.left]))
      \/ Advance(who, With(run, [kind |-> "ok", toplevels |-> None]))
  BY DEF ReadBack, Unread
<1>5. /\ looked.todo # << >> => Sound(looked, host)
      /\ looked.todo = << >> => \A q \in Profiles : looked.left[q] # None
      /\ looked.left \in Content /\ looked.own = run.own
  BY <1>1, <1>2, <1>3, KeepsPath
<1> HIDE DEF looked
<1>6. CASE looked.todo # << >> /\ Advance(who, looked)
  BY <1>1, <1>5, <1>6, AdvanceStep
<1>7. CASE /\ looked.todo = << >>
           /\ Advance(who, With(run, [kind |-> "ok", toplevels |-> looked.left]))
  <2>1. [kind |-> "ok", toplevels |-> looked.left] \in Outcome
    BY <1>5, <1>7, FullBaseline DEF Settled
  <2> QED BY <1>1, <1>2, <1>7, <2>1, EndsSound, AdvanceStep
<1>8. CASE Advance(who, With(run, [kind |-> "ok", toplevels |-> None]))
  <2>1. [kind |-> "ok", toplevels |-> None] \in Outcome
    BY DEF Outcome, Settled, OptPath
  <2> QED BY <1>1, <1>2, <1>8, <2>1, EndsSound, AdvanceStep
<1> QED BY <1>4, <1>6, <1>7, <1>8

LEMMA ActivateStep ==
  ASSUME Inv, NEW who \in Programs, Activate(who)
  PROVE  Inv'
<1> DEFINE run == runs[who]
           p == Head(run.todo)
           going == [run EXCEPT !.todo = Tail(@)]
           reading == [Done(run) EXCEPT !.phase = "read", !.todo = Activation]
<1>1. /\ run # None /\ run.phase = "deploy" /\ host' = [host EXCEPT ![p] = run.rev]
      /\ UNCHANGED << head, file, memory >>
      /\ runs' = [runs EXCEPT ![who] = IF going.todo # << >> THEN going ELSE reading]
  BY DEF Activate
<1>2. run \in RunRecord /\ Guard(run) /\ Covered(run, host) /\ host \in Content
  BY <1>1, RunOf DEF Inv, Types
<1>3. /\ run.todo \in Seq(Profiles) /\ p \in Profiles /\ Tail(run.todo) \in Seq(Profiles)
      /\ \A q \in Range(run.todo) : q = p \/ q \in Range(Tail(run.todo))
  BY <1>1, <1>2, HeadOrTail DEF RunRecord, Covered
<1>4. run.rev \in Sources /\ run.rev # None
  BY <1>2, NoneIsNoSource DEF RunRecord, Sources
<1>5. host' \in Content /\ \A q \in Profiles : host'[q] = IF q = p THEN run.rev ELSE host[q]
  BY <1>1, <1>2, <1>4 DEF Content
<1>6. \A q \in Profiles : q \in Range(Tail(run.todo)) \/ host'[q] # None
  BY <1>1, <1>2, <1>3, <1>4, <1>5 DEF Covered
<1>7. going.todo # << >> => Sound(going, host') /\ going.own = run.own
  <2>1. /\ going \in RunRecord /\ going.phase = "deploy" /\ going.todo = Tail(run.todo)
        /\ going.recorded = run.recorded /\ going.seen = run.seen /\ going.rev = run.rev
        /\ going.own = run.own
    BY <1>1, <1>2, <1>3 DEF RunRecord
  <2> HIDE DEF going
  <2> QED BY <1>1, <1>2, <1>6, <2>1 DEF Sound, Guard, Covered
<1>8. going.todo = << >> => Sound(reading, host') /\ reading.own = run.own
  <2>1. Nothing \in Content
    BY DEF Nothing, Content
  <2>2. /\ reading \in RunRecord /\ reading.phase = "read" /\ reading.todo = Activation
        /\ reading.own = run.own
    BY <1>2, <2>1, OrdersAreFull DEF Done, RunRecord, RunPhases, OptPath
  <2>3. going.todo = Tail(run.todo)
    BY <1>2 DEF RunRecord
  <2> HIDE DEF reading, going
  <2> QED BY <1>6, <2>2, <2>3, OrdersAreFull, EmptyRange DEF Sound, Guard, Covered
<1> DEFINE next == IF going.todo # << >> THEN going ELSE reading
<1> HIDE DEF going, reading
<1>9. Sound(next, host') /\ (who = "check" => next.own \in HostState)
  <2>1. who = "check" => run.own \in HostState
    BY <1>1 DEF Inv, RunsSound
  <2> QED BY <1>7, <1>8, <2>1
<1>10. \A q \in Profiles : host[q] # None => host'[q] # None
  BY <1>4, <1>5
<1>11. runs' = [runs EXCEPT ![who] = next]
  BY <1>1
<1> HIDE DEF next
<1>12. RunsSound' /\ DOMAIN runs' = Programs
  BY <1>9, <1>10, <1>11, OneMoves
<1> QED BY <1>1, <1>5, <1>12 DEF Inv, Types

LEMMA RecordsStep ==
  ASSUME Inv, NEW who \in Programs, Records(who)
  PROVE  Inv'
<1> DEFINE run == runs[who]
           hs == ApplyOutcome(IF who = "daemon" THEN memory ELSE run.own, run.outcome, Stamp(run))
<1>1. /\ run # None /\ run.phase = "ended" /\ file' = hs
      /\ memory' = (IF who = "daemon" THEN hs ELSE memory)
      /\ runs' = [runs EXCEPT ![who] = None] /\ UNCHANGED << head, host >>
  BY DEF Records
<1>2. run.outcome \in Outcome /\ Stamp(run) \in Revs
  BY <1>1, RunOf DEF Covered, RunRecord, Stamp
<1>3. (IF who = "daemon" THEN memory ELSE run.own) \in HostState
  BY <1>1 DEF Inv, Types, RunsSound, Programs
<1>4. hs \in HostState
  BY <1>2, <1>3, ApplyOutcomeType
<1> HIDE DEF hs
<1>5. RunsSound' /\ DOMAIN runs' = Programs
  BY <1>1, OneMoves
<1> QED BY <1>1, <1>4, <1>5 DEF Inv, Types

LEMMA KillStep ==
  ASSUME Inv, NEW who \in Programs, Kill(who)
  PROVE  Inv'
<1>1. /\ runs' = [runs EXCEPT ![who] = None] /\ UNCHANGED << head, host, file >>
      /\ memory' = (IF who = "daemon" THEN DropSupersededParks(file) ELSE memory)
  BY DEF Kill
<1>2. memory' \in HostState
  BY <1>1, DropSupersededParksType DEF Inv, Types
<1>3. RunsSound' /\ DOMAIN runs' = Programs
  BY <1>1, OneMoves
<1> QED BY <1>1, <1>2, <1>3 DEF Inv, Types

LEMMA PeopleStep == Inv /\ (Commit \/ DeployByHand \/ Approve) => Inv'
<1> SUFFICES ASSUME Inv, Commit \/ DeployByHand \/ Approve PROVE Inv'
  OBVIOUS
<1>1. CASE Commit
  <2>1. head' \in Revs /\ UNCHANGED << host, file, memory, runs >>
    BY <1>1 DEF Commit
  <2> QED BY <2>1, NoneMoves DEF Inv, Types
<1>2. CASE DeployByHand
  <2>1. PICK p \in Profiles, source \in Sources : host' = [host EXCEPT ![p] = source]
    BY <1>2, DriftAssumption DEF DeployByHand, Sources
  <2>2. host' \in Content /\ \A q \in Profiles : host[q] # None => host'[q] # None
    BY <2>1, NoneIsNoSource DEF Inv, Types, Content
  <2>3. UNCHANGED << head, file, memory, runs >>
    BY <1>2 DEF DeployByHand
  <2> QED BY <2>2, <2>3, NoneMoves DEF Inv, Types
<1>3. CASE Approve
  <2>1. memory' \in HostState /\ file' = memory' /\ UNCHANGED << head, host, runs >>
    BY <1>3 DEF Approve, Inv, Types, HostState
  <2> QED BY <2>1, NoneMoves DEF Inv, Types
<1> QED BY <1>1, <1>2, <1>3

LEMMA InitInv == Init => Inv
<1> SUFFICES ASSUME Init PROVE Inv
  OBVIOUS
<1>1. host \in Content /\ file \in HostState
  BY DriftAssumption DEF Init, Content
<1>2. head \in Revs /\ memory \in HostState /\ DOMAIN runs = Programs
      /\ \A who \in Programs : runs[who] = None
  BY <1>1, DriftAssumption DEF Init
<1> QED BY <1>1, <1>2 DEF Inv, Types, RunsSound

LEMMA InvStep == Inv /\ [Next]_vars => Inv'
<1> SUFFICES ASSUME Inv, [Next]_vars PROVE Inv'
  OBVIOUS
<1>1. CASE UNCHANGED vars
  <2>1. UNCHANGED << head, host, file, memory, runs >>
    BY <1>1 DEF vars
  <2> QED BY <2>1, NoneMoves DEF Inv, Types
<1>2. CASE Poll \/ Check \/ Commit \/ DeployByHand \/ Approve
  BY <1>2, PollStep, CheckStep, PeopleStep
<1>3. ASSUME NEW who \in Programs, Task(who) \/ Activate(who) \/ Records(who) \/ Kill(who)
      PROVE  Inv'
  BY <1>3, ContactStep, CompareStep, BlessStep, BreaksStep, ReadBackStep, ActivateStep,
     RecordsStep, KillStep DEF Task
<1> QED BY <1>1, <1>2, <1>3 DEF Next

-----------------------------------------------------------------------------
(* A guarded run that activates has seen every profile as it was recorded, *)
(* or the system in the watched history (runner.rs, the drift guard).      *)
THEOREM LookedFirst ==
  Spec => [](\A who \in Programs :
               runs[who] # None /\ runs[who].phase = "deploy" /\ runs[who].recorded # None =>
                 \/ \A p \in Profiles : runs[who].seen[p] = runs[who].recorded[p]
                 \/ /\ runs[who].seen["system"] \in Revs
                    /\ runs[who].seen["system"] <= runs[who].rev)
<1>1. Inv => \A who \in Programs :
               runs[who] # None /\ runs[who].phase = "deploy" /\ runs[who].recorded # None =>
                 \/ \A p \in Profiles : runs[who].seen[p] = runs[who].recorded[p]
                 \/ /\ runs[who].seen["system"] \in Revs
                    /\ runs[who].seen["system"] <= runs[who].rev
  BY DEF Inv, RunsSound, Sound, Guard
<1> QED BY <1>1, InitInv, InvStep, PTL DEF Spec

(* Nothing the guard saw on the system profile is deployed over, unless    *)
(* the watched history contains it or the agent itself left it there.      *)
THEOREM SystemWorkSurvives == Spec => SystemWorkProtected
<1>1. Inv /\ [Next]_vars =>
        [\A who \in Programs : Activates(who, "system") => MayGo(runs[who], "system")]_vars
  <2> SUFFICES ASSUME Inv, NEW who \in Programs, Activates(who, "system")
               PROVE  MayGo(runs[who], "system")
    OBVIOUS
  <2>1. runs[who] # None /\ runs[who].phase = "deploy" /\ "system" \in Profiles
    BY DriftAssumption DEF Activates
  <2>2. Guard(runs[who])
    BY <2>1, RunOf
  <2> QED BY <2>1, <2>2 DEF Guard, MayGo
<1> QED BY <1>1, InitInv, InvStep, PTL DEF Spec, SystemWorkProtected

(* A recorded baseline always names what each profile held.                *)
THEOREM BaselinesWhole == Spec => []BaselineWhole
<1>1. Inv => BaselineWhole
  <2> SUFFICES ASSUME Inv, NEW hs \in {file, memory}, hs.toplevels # None
               PROVE  None \notin Range(hs.toplevels)
    BY DEF BaselineWhole
  <2>1. hs.toplevels \in [Profiles -> Sources]
    BY DriftAssumption DEF Inv, Types, HostState, OptPath
  <2> QED BY <2>1, NoneIsNoSource DEF Range
<1> QED BY <1>1, InitInv, InvStep, PTL DEF Spec

-----------------------------------------------------------------------------
(* How a run goes on. *)

Begins(next, hs) ==
  /\ next.rev = head /\ next.recorded \in {None, hs.toplevels} /\ next.left = Nothing
  /\ next.phase \in {"contact", "guard", "deploy"}
  /\ next.phase \in {"contact", "deploy"} => next.todo = Activation

(* The guard looks on, or lets the deploy begin.                           *)
Looks(run, next) ==
  /\ next.phase \in {"guard", "bless", "deploy"}
  /\ next.recorded = run.recorded /\ next.left = run.left
  /\ next.phase = "bless" => run.phase = "guard"
  /\ next.phase = "deploy" => next.todo = Activation

KeptOf(run) == [run EXCEPT !.todo = Tail(@), !.left[Head(run.todo)] = host[Head(run.todo)]]

(* One more path is kept, or with the last the run is settled.             *)
Keeps(run, next) ==
  /\ run.phase \in {"contact", "read"} /\ host[Head(run.todo)] # None
  /\ next = KeptOf(run) /\ next.todo # << >>

Settles(run, next) ==
  /\ run.phase \in {"contact", "read"} /\ host[Head(run.todo)] # None
  /\ KeptOf(run).todo = << >>
  /\ \E kind \in Settled : next = With(run, [kind |-> kind, toplevels |-> KeptOf(run).left])

(* It ends without paths; well only if everything was activated.           *)
Stops(run, next) ==
  \E o \in Outcome : /\ next = With(run, o) /\ o.toplevels = None
                     /\ o.kind \in Settled => run.phase = "read"

GoesOn(run, next) == Looks(run, next) \/ Keeps(run, next) \/ Settles(run, next) \/ Stops(run, next)

TaskGoes(who) ==
  /\ UNCHANGED << head, foreign, file, memory >>
  /\ \E next : /\ runs' = [runs EXCEPT ![who] = next] /\ GoesOn(runs[who], next)
               /\ next.rev = runs[who].rev /\ next.own = runs[who].own

LEMMA WithFields ==
  ASSUME NEW run \in RunRecord, NEW o
  PROVE  LET next == With(run, o)
         IN  /\ next.phase = "ended" /\ next.outcome = o /\ next.rev = run.rev
             /\ next.own = run.own /\ next.recorded = None /\ next.left = Nothing
BY DEF With, Done, RunRecord

LEMMA TaskMoves ==
  ASSUME Inv, NEW who \in Programs, Task(who)
  PROVE  runs[who] # None /\ UNCHANGED host /\ TaskGoes(who)
<1> DEFINE run == runs[who]
           p == Head(run.todo)
<1>1. run # None /\ UNCHANGED host
  BY DEF Task, Contact, Compare, Bless, Breaks, ReadBack
<1> SUFFICES TaskGoes(who)
  BY <1>1
<1>2. run \in RunRecord /\ Covered(run, host) /\ host \in Content
  BY <1>1, RunOf DEF Inv, Types
<1>3. ASSUME NEW next, Advance(who, next), GoesOn(run, next), next.rev = run.rev,
             next.own = run.own
      PROVE  TaskGoes(who)
  BY <1>3 DEF Advance, TaskGoes
<1>4. ASSUME NEW o \in Outcome, Advance(who, With(run, o)), o.toplevels = None,
             o.kind \in Settled => run.phase = "read"
      PROVE  TaskGoes(who)
  <2>1. GoesOn(run, With(run, o))
    BY <1>4 DEF GoesOn, Stops
  <2> QED BY <1>2, <1>3, <1>4, <2>1, WithFields
<1>5. ASSUME NEW kind \in {"held", "failed", "cancelled"}, Advance(who, With(run, Ended(kind)))
      PROVE  TaskGoes(who)
  <2>1. Ended(kind) \in Outcome /\ Ended(kind).toplevels = None /\ Ended(kind).kind \notin Settled
    BY EndedIsOutcome DEF Ended, Settled
  <2> QED BY <1>4, <1>5, <2>1
<1>6. ASSUME run.phase \in {"contact", "read"}, host[p] # None, KeptOf(run).todo # << >>,
             Advance(who, KeptOf(run))
      PROVE  TaskGoes(who)
  <2>1. KeptOf(run).rev = run.rev /\ KeptOf(run).own = run.own
    BY <1>2 DEF KeptOf, RunRecord
  <2>2. GoesOn(run, KeptOf(run))
    BY <1>6 DEF GoesOn, Keeps
  <2> QED BY <1>3, <1>6, <2>1, <2>2
<1>7. ASSUME run.phase \in {"contact", "read"}, host[p] # None, KeptOf(run).todo = << >>,
             NEW kind \in Settled,
             Advance(who, With(run, [kind |-> kind, toplevels |-> KeptOf(run).left]))
      PROVE  TaskGoes(who)
  <2>1. GoesOn(run, With(run, [kind |-> kind, toplevels |-> KeptOf(run).left]))
    BY <1>7 DEF GoesOn, Settles
  <2> QED BY <1>2, <1>3, <1>7, <2>1, WithFields
<1>8. CASE Contact(who)
  <2>1. PICK atHand \in BOOLEAN :
          /\ run.phase = "contact"
          /\ \/ Advance(who, With(run, Ended("held")))
             \/ /\ Current(host[p], run.rev, atHand) /\ KeptOf(run).todo # << >>
                /\ Advance(who, KeptOf(run))
             \/ /\ Current(host[p], run.rev, atHand) /\ KeptOf(run).todo = << >>
                /\ Advance(who, With(run, [kind |-> "adopted", toplevels |-> KeptOf(run).left]))
    BY <1>8 DEF Contact, KeptOf
  <2>2. Current(host[p], run.rev, atHand) => host[p] # None
    BY <1>2, NoneAssumption DEF Current, RunRecord
  <2>3. "adopted" \in Settled
    BY DEF Settled
  <2> QED BY <1>5, <1>6, <1>7, <2>1, <2>2, <2>3
<1>9. CASE Compare(who)
  <2> DEFINE saw == Seen(run, p)
             looked == [saw EXCEPT !.todo = Tail(@)]
             freed == [looked EXCEPT !.phase = "deploy", !.todo = Activation]
             asks == [saw EXCEPT !.phase = "bless"]
  <2>1. /\ run.phase = "guard"
        /\ \/ Advance(who, With(run, Ended("held")))
           \/ Advance(who, With(saw, Ended("held")))
           \/ Advance(who, asks)
           \/ Advance(who, looked)
           \/ Advance(who, freed)
    BY <1>9 DEF Compare
  <2>2. p \in Profiles
    BY <1>2, <2>1, HeadOrTail DEF RunRecord, Covered
  <2>3. /\ saw \in RunRecord /\ saw.todo = run.todo /\ saw.recorded = run.recorded
        /\ saw.phase = "guard" /\ saw.own = run.own /\ saw.rev = run.rev /\ saw.left = run.left
        /\ With(saw, Ended("held")) = With(run, Ended("held"))
    <3>1. /\ saw \in RunRecord /\ saw.todo = run.todo /\ saw.recorded = run.recorded
          /\ saw.phase = "guard" /\ saw.own = run.own /\ saw.rev = run.rev
      BY <1>2, <2>1, <2>2, SeenType
    <3>2. saw.left = run.left
      BY <1>2 DEF Seen, RunRecord
    <3>3. With(saw, Ended("held")) = With(run, Ended("held"))
      BY <1>2 DEF Seen, RunRecord, With, Done
    <3> QED BY <3>1, <3>2, <3>3
  <2> HIDE DEF saw
  <2>4. asks.phase = "bless" /\ asks.recorded = run.recorded /\ asks.left = run.left
        /\ asks.own = run.own /\ asks.rev = run.rev
    BY <2>3 DEF RunRecord
  <2>5. looked.phase = "guard" /\ looked.recorded = run.recorded /\ looked.left = run.left
        /\ looked.own = run.own /\ looked.rev = run.rev
    BY <2>3 DEF RunRecord
  <2>6. freed.phase = "deploy" /\ freed.recorded = run.recorded /\ freed.left = run.left
        /\ freed.own = run.own /\ freed.rev = run.rev /\ freed.todo = Activation
    BY <2>3 DEF RunRecord
  <2> HIDE DEF asks, looked, freed
  <2>7. CASE Advance(who, asks)
    BY <1>3, <2>1, <2>4, <2>7 DEF GoesOn, Looks
  <2>8. CASE Advance(who, looked)
    BY <1>3, <2>5, <2>8 DEF GoesOn, Looks
  <2>9. CASE Advance(who, freed)
    BY <1>3, <2>6, <2>9 DEF GoesOn, Looks
  <2>10. CASE Advance(who, With(run, Ended("held")))
    BY <1>5, <2>10
  <2> QED BY <2>1, <2>3, <2>7, <2>8, <2>9, <2>10
<1>10. CASE Bless(who)
  <2> DEFINE saw == Seen(run, "system")
             blessed == [saw EXCEPT !.phase = "deploy", !.todo = Activation]
  <2>1. \/ Advance(who, With(run, Ended("held")))
        \/ Advance(who, blessed)
    BY <1>10 DEF Bless
  <2>2. /\ blessed.phase = "deploy" /\ blessed.recorded = run.recorded
        /\ blessed.left = run.left /\ blessed.own = run.own /\ blessed.rev = run.rev
        /\ blessed.todo = Activation
    BY <1>2 DEF Seen, RunRecord
  <2> HIDE DEF blessed
  <2>3. CASE Advance(who, blessed)
    BY <1>3, <2>2, <2>3 DEF GoesOn, Looks
  <2> QED BY <1>5, <2>1, <2>3
<1>11. CASE Breaks(who)
  BY <1>5, <1>11 DEF Breaks
<1>12. CASE ReadBack(who)
  <2>1. /\ run.phase = "read"
        /\ \/ KeptOf(run).todo # << >> /\ Advance(who, KeptOf(run))
           \/ /\ KeptOf(run).todo = << >>
              /\ Advance(who, With(run, [kind |-> "ok", toplevels |-> KeptOf(run).left]))
           \/ Advance(who, With(run, [kind |-> "ok", toplevels |-> None]))
    BY <1>12 DEF ReadBack, Unread, KeptOf
  <2>2. host[p] # None
    BY <1>2, <2>1, HeadOrTail DEF RunRecord, Covered
  <2>3. "ok" \in Settled /\ [kind |-> "ok", toplevels |-> None] \in Outcome
    BY DEF Settled, Outcome, OptPath
  <2> QED BY <1>4, <1>6, <1>7, <2>1, <2>2, <2>3
<1> QED BY <1>8, <1>9, <1>10, <1>11, <1>12 DEF Task

(* The deploy of one more profile, the last of which is to be read back.   *)
Activated(run, next) ==
  /\ next.rev = run.rev /\ next.own = run.own
  /\ \/ /\ Tail(run.todo) # << >> /\ next.phase = "deploy" /\ next.todo = Tail(run.todo)
        /\ next.recorded = run.recorded /\ next.left = run.left
     \/ /\ Tail(run.todo) = << >> /\ next.phase = "read" /\ next.todo = Activation
        /\ next.recorded = None /\ next.left = Nothing

LEMMA ActivateIs ==
  ASSUME Inv, NEW who \in Programs, Activate(who)
  PROVE  LET run == runs[who]
             p == Head(run.todo)
         IN  /\ run # None /\ run \in RunRecord /\ run.phase = "deploy"
             /\ p \in Profiles /\ \A q \in Range(run.todo) : q = p \/ q \in Range(Tail(run.todo))
             /\ run.rev \in Revs /\ foreign' = foreign \ {p}
             /\ \A q \in Profiles : host'[q] = IF q = p THEN run.rev ELSE host[q]
             /\ UNCHANGED << head, file, memory, budget >>
             /\ \E next : runs' = [runs EXCEPT ![who] = next] /\ Activated(run, next)
<1> DEFINE run == runs[who]
           p == Head(run.todo)
           going == [run EXCEPT !.todo = Tail(@)]
           reading == [Done(run) EXCEPT !.phase = "read", !.todo = Activation]
<1>1. /\ run # None /\ run.phase = "deploy" /\ host' = [host EXCEPT ![p] = run.rev]
      /\ foreign' = foreign \ {p} /\ UNCHANGED << head, file, memory, budget >>
      /\ runs' = [runs EXCEPT ![who] = IF going.todo # << >> THEN going ELSE reading]
  BY DEF Activate
<1>2. run \in RunRecord /\ Covered(run, host) /\ host \in Content /\ run.rev \in Revs
  BY <1>1, RunOf DEF Inv, Types, RunRecord
<1>3. p \in Profiles /\ \A q \in Range(run.todo) : q = p \/ q \in Range(Tail(run.todo))
  BY <1>1, <1>2, HeadOrTail DEF RunRecord, Covered
<1>4. \A q \in Profiles : host'[q] = IF q = p THEN run.rev ELSE host[q]
  BY <1>1, <1>2, <1>3 DEF Content
<1>5. /\ going.phase = "deploy" /\ going.todo = Tail(run.todo) /\ going.recorded = run.recorded
      /\ going.left = run.left /\ going.rev = run.rev /\ going.own = run.own
  BY <1>1, <1>2 DEF RunRecord
<1>6. /\ reading.phase = "read" /\ reading.todo = Activation /\ reading.recorded = None
      /\ reading.left = Nothing /\ reading.rev = run.rev /\ reading.own = run.own
  BY <1>1, <1>2 DEF RunRecord, Done
<1> DEFINE next == IF going.todo # << >> THEN going ELSE reading
<1> HIDE DEF going, reading
<1>7. Activated(run, next)
  BY <1>5, <1>6 DEF Activated
<1>8. runs' = [runs EXCEPT ![who] = next]
  BY <1>1
<1> HIDE DEF next
<1> QED BY <1>1, <1>2, <1>3, <1>4, <1>7, <1>8

LEMMA PlannedBegins ==
  ASSUME NEW hs
  PROVE  /\ Begins(Planned(hs), hs) /\ Planned(hs).own = hs
         /\ Begins([Planned(hs) EXCEPT !.own = None], hs)
<1> DEFINE entry == PlanEntry(hs)
<1>1. entry.recorded \in {None, hs.toplevels}
  BY DEF PlanEntry
<1>2. \/ Planned(hs) = NewRun(hs, "contact", Activation, entry.recorded)
      \/ Planned(hs) = NewRun(hs, "guard", Reading, entry.recorded)
      \/ Planned(hs) = NewRun(hs, "deploy", Activation, None)
  BY DEF Planned
<1> HIDE DEF entry
<1> QED BY <1>1, <1>2 DEF Begins, NewRun

(* What becomes of a run, or begins, with a step.                          *)
LEMMA RunMoves ==
  ASSUME Inv, [Next]_vars, NEW who \in Programs, runs'[who] # None
  PROVE  \/ runs[who] # None /\ runs'[who] = runs[who]
         \/ who = "daemon" /\ Poll /\ Begins(runs'[who], memory)
         \/ who = "check" /\ Check /\ Begins(runs'[who], DropSupersededParks(file))
            /\ runs'[who].own = DropSupersededParks(file)
         \/ Task(who) /\ GoesOn(runs[who], runs'[who])
            /\ runs'[who].rev = runs[who].rev /\ runs'[who].own = runs[who].own
         \/ Activate(who) /\ Activated(runs[who], runs'[who])
<1>0. DOMAIN runs = Programs
  BY DEF Inv, Types
<1>1. CASE Poll
  <2> DEFINE new == [Planned(memory) EXCEPT !.own = None]
  <2>1. runs' = [runs EXCEPT !["daemon"] = new] \/ runs' = runs
    BY <1>1 DEF Poll
  <2>2. Begins(new, memory)
    BY PlannedBegins
  <2> HIDE DEF new
  <2>3. CASE runs' = [runs EXCEPT !["daemon"] = new]
    <3>1. who = "daemon" => runs'[who] = new
      BY <1>0, <2>3 DEF Programs
    <3>2. who # "daemon" => runs'[who] = runs[who]
      BY <1>0, <2>3
    <3> QED BY <1>1, <2>2, <3>1, <3>2
  <2> QED BY <2>1, <2>3
<1>2. CASE Check
  <2> DEFINE own == DropSupersededParks(file)
  <2>1. runs' = [runs EXCEPT !["check"] = Planned(own)]
    BY <1>2 DEF Check
  <2>2. Begins(Planned(own), own) /\ Planned(own).own = own
    BY PlannedBegins
  <2> HIDE DEF own
  <2>3. who = "check" => runs'[who] = Planned(own)
    BY <1>0, <2>1 DEF Programs
  <2>4. who # "check" => runs'[who] = runs[who]
    BY <1>0, <2>1
  <2> QED BY <1>2, <2>2, <2>3, <2>4 DEF own
<1>3. ASSUME NEW other \in Programs, Task(other)
      PROVE  \/ runs[who] # None /\ runs'[who] = runs[who]
             \/ Task(who) /\ GoesOn(runs[who], runs'[who])
                /\ runs'[who].rev = runs[who].rev /\ runs'[who].own = runs[who].own
  <2>1. TaskGoes(other)
    BY <1>3, TaskMoves
  <2>2. PICK next : /\ runs' = [runs EXCEPT ![other] = next] /\ GoesOn(runs[other], next)
                    /\ next.rev = runs[other].rev /\ next.own = runs[other].own
    BY <2>1 DEF TaskGoes
  <2>3. IF who = other THEN runs'[who] = next ELSE runs'[who] = runs[who]
    BY <1>0, <2>2
  <2> QED BY <1>3, <2>2, <2>3
<1>4. ASSUME NEW other \in Programs, Activate(other)
      PROVE  \/ runs[who] # None /\ runs'[who] = runs[who]
             \/ Activate(who) /\ Activated(runs[who], runs'[who])
  <2>1. PICK next : runs' = [runs EXCEPT ![other] = next] /\ Activated(runs[other], next)
    BY <1>4, ActivateIs
  <2>2. IF who = other THEN runs'[who] = next ELSE runs'[who] = runs[who]
    BY <1>0, <2>1
  <2> QED BY <1>4, <2>1, <2>2
<1>5. ASSUME NEW other \in Programs, Records(other) \/ Kill(other)
      PROVE  runs[who] # None /\ runs'[who] = runs[who]
  <2>1. runs' = [runs EXCEPT ![other] = None]
    BY <1>5 DEF Records, Kill
  <2> QED BY <1>0, <2>1
<1>6. CASE Commit \/ DeployByHand \/ Approve \/ UNCHANGED vars
  BY <1>6 DEF Commit, DeployByHand, Approve, vars
<1> QED BY <1>1, <1>2, <1>3, <1>4, <1>5, <1>6 DEF Next

(* Only people bring work, and nobody takes a profile away.                *)
LEMMA WorldMoves ==
  ASSUME Inv, [Next]_vars
  PROVE  \A p \in Profiles :
           /\ host[p] # None => host'[p] # None
           /\ p \in foreign => p \in foreign' \/ host'[p] \in Revs
           /\ host'[p] = host[p] \/ host'[p] \in Revs \/ p \in foreign'
<1>1. CASE UNCHANGED << host, foreign >>
  BY <1>1
<1>2. ASSUME NEW who \in Programs, Activate(who)
      PROVE  \A p \in Profiles :
               /\ host[p] # None => host'[p] # None
               /\ p \in foreign => p \in foreign' \/ host'[p] \in Revs
               /\ host'[p] = host[p] \/ host'[p] \in Revs \/ p \in foreign'
  BY <1>2, ActivateIs, NoneAssumption
<1>3. CASE DeployByHand
  <2>1. PICK p \in Profiles, source \in Sources :
          host' = [host EXCEPT ![p] = source] /\ foreign' = foreign \cup {p}
    BY <1>3, DriftAssumption DEF DeployByHand, Sources
  <2>2. host \in Content /\ source # None
    BY NoneIsNoSource DEF Inv, Types
  <2> QED BY <2>1, <2>2 DEF Content
<1>4. ASSUME NEW who \in Programs, Task(who) PROVE UNCHANGED << host, foreign >>
  BY <1>4, TaskMoves DEF TaskGoes
<1>5. CASE Poll \/ Check \/ Commit \/ Approve \/ UNCHANGED vars
  BY <1>5 DEF Poll, Check, Commit, Approve, vars
<1>6. ASSUME NEW who \in Programs, Records(who) \/ Kill(who) PROVE UNCHANGED << host, foreign >>
  BY <1>6 DEF Records, Kill
<1> QED BY <1>1, <1>2, <1>3, <1>4, <1>5, <1>6 DEF Next

-----------------------------------------------------------------------------
(* What is on the host is somebody's, or the agent's own. *)

(* Where there is a baseline every profile was there, or people changed it. *)
There(top, on, by) == top # None => \A p \in Profiles : on[p] # None \/ p \in by

RunTraced(run, on, by) ==
  /\ There(run.recorded, on, by)
  /\ run.phase = "bless" => run.recorded # None
  /\ \A p \in Profiles : run.left[p] # None => on[p] # None
  /\ run.phase = "ended" => There(run.outcome.toplevels, on, by)

Traced ==
  /\ \A p \in Profiles : host[p] \in Work => p \in foreign
  /\ There(file.toplevels, host, foreign) /\ There(memory.toplevels, host, foreign)
  /\ \A who \in Programs :
       runs[who] # None =>
         /\ RunTraced(runs[who], host, foreign)
         /\ who = "check" => There(runs[who].own.toplevels, host, foreign)

LEMMA StaysTraced ==
  ASSUME Inv, [Next]_vars
  PROVE  /\ \A top : There(top, host, foreign) => There(top, host', foreign')
         /\ \A run : RunTraced(run, host, foreign) => RunTraced(run, host', foreign')
BY WorldMoves, NoneAssumption DEF There, RunTraced

LEMMA NothingLeft == \A p \in Profiles : Nothing[p] = None
BY DEF Nothing

(* A run that goes on keeps to what there is.                              *)
LEMMA GoesOnTraced ==
  ASSUME Inv, NEW who \in Programs, runs[who] # None, NEW next, GoesOn(runs[who], next),
         RunTraced(runs[who], host, foreign)
  PROVE  RunTraced(next, host, foreign)
<1> DEFINE run == runs[who]
<1>1. run \in RunRecord /\ Covered(run, host) /\ host \in Content
  BY RunOf DEF Inv, Types
<1>2. CASE Looks(run, next)
  <2>1. run.phase = "guard" => run.recorded # None
    BY RunOf DEF Guard
  <2> QED BY <1>2, <2>1 DEF Looks, RunTraced
<1>a. ASSUME run.phase \in {"contact", "read"}, host[Head(run.todo)] # None
      PROVE  LET kept == KeptOf(run)
             IN  /\ kept.recorded = run.recorded /\ kept.phase = run.phase
                 /\ \A p \in Profiles : kept.left[p] # None => host[p] # None
                 /\ kept.todo = << >> => \A p \in Profiles : kept.left[p] # None
  <2> DEFINE p == Head(run.todo)
             kept == KeptOf(run)
  <2>1. kept = [run EXCEPT !.todo = Tail(@), !.left[p] = host[p]]
    BY DEF KeptOf
  <2>2. p \in Profiles
    BY <1>1, <1>a, HeadOrTail DEF RunRecord, Covered
  <2>3. \A q \in Profiles : kept.left[q] = IF q = p THEN host[p] ELSE run.left[q]
    BY <1>1, <2>1, <2>2 DEF RunRecord, Content
  <2>4. kept.recorded = run.recorded /\ kept.phase = run.phase
    BY <1>1, <2>1 DEF RunRecord
  <2>5. kept.todo = << >> => \A q \in Profiles : kept.left[q] # None
    BY <1>1, <1>a, <2>1, KeepsPath
  <2>6. \A q \in Profiles : kept.left[q] # None => host[q] # None
    BY <1>a, <2>3 DEF RunTraced
  <2> QED BY <2>4, <2>5, <2>6
<1>3. CASE Keeps(run, next)
  <2>1. next = KeptOf(run) /\ run.phase \in {"contact", "read"} /\ host[Head(run.todo)] # None
    BY <1>3 DEF Keeps
  <2>2. next.recorded = run.recorded /\ next.phase = run.phase
        /\ \A p \in Profiles : next.left[p] # None => host[p] # None
    BY <1>a, <2>1
  <2> QED BY <2>1, <2>2 DEF RunTraced
<1>4. CASE Settles(run, next)
  <2>1. PICK kind \in Settled : next = With(run, [kind |-> kind, toplevels |-> KeptOf(run).left])
    BY <1>4 DEF Settles
  <2>2. \A p \in Profiles : host[p] # None
    BY <1>4, <1>a DEF Settles
  <2>3. next.recorded = None /\ next.left = Nothing /\ next.phase = "ended"
    BY <1>1, <2>1, WithFields
  <2> QED BY <2>2, <2>3, NothingLeft DEF RunTraced, There
<1>5. CASE Stops(run, next)
  <2>1. PICK o \in Outcome : next = With(run, o) /\ o.toplevels = None
    BY <1>5 DEF Stops
  <2>2. /\ next.recorded = None /\ next.left = Nothing /\ next.outcome.toplevels = None
        /\ next.phase = "ended"
    BY <1>1, <2>1, WithFields
  <2> QED BY <2>2, NothingLeft DEF RunTraced, There
<1> QED BY <1>2, <1>3, <1>4, <1>5 DEF GoesOn

LEMMA BaselineOf ==
  /\ \A hs : DropSupersededParks(hs).toplevels = hs.toplevels
             \/ hs \notin HostState
  /\ \A hs \in HostState, o \in Outcome, rev \in Revs :
       ApplyOutcome(hs, o, rev).toplevels \in {hs.toplevels, o.toplevels}
<1>1. ASSUME NEW hs \in HostState PROVE DropSupersededParks(hs).toplevels = hs.toplevels
  BY DEF DropSupersededParks, HostState
<1>2. ASSUME NEW hs \in HostState, NEW o \in Outcome, NEW rev \in Revs
      PROVE  ApplyOutcome(hs, o, rev).toplevels \in {hs.toplevels, o.toplevels}
  <2>1. CASE o.kind \in Settled
    <3>1. ApplyOutcome(hs, o, rev) = Succeeded(hs, rev, o.toplevels)
      BY <2>1, KindsAssumption DEF ApplyOutcome, Settled, Unsettled
    <3> QED BY <3>1 DEF Succeeded, HostState
  <2>2. CASE o.kind = "held"
    <3>1. ApplyOutcome(hs, o, rev) = HeldAt(hs, rev)
      BY <2>2, KindsAssumption DEF ApplyOutcome, Settled, Unsettled
    <3> QED BY <3>1 DEF HeldAt, HostState
  <2>3. CASE o.kind \in Unsettled
    <3>1. ApplyOutcome(hs, o, rev) = ParkedAt(hs, rev)
      BY <2>3, KindsAssumption DEF ApplyOutcome, Settled, Unsettled
    <3> QED BY <3>1 DEF ParkedAt, HostState
  <2>4. CASE o.kind \in Kinds
    <3>1. ApplyOutcome(hs, o, rev) = PendingAt(hs, rev, o.kind)
      BY <2>4, KindsAssumption DEF ApplyOutcome, Settled, Unsettled
    <3> QED BY <3>1 DEF PendingAt, HostState
  <2> QED BY <2>1, <2>2, <2>3, <2>4 DEF Outcome
<1> QED BY <1>1, <1>2

(* What the file and the daemon hold after a step.                         *)
LEMMA LedgersTraced ==
  ASSUME Inv, Traced, [Next]_vars
  PROVE  /\ There(file'.toplevels, host, foreign) /\ There(memory'.toplevels, host, foreign)
<1>1. CASE UNCHANGED << file, memory >>
  BY <1>1 DEF Traced
<1>2. ASSUME NEW who \in Programs, Records(who)
      PROVE  There(file'.toplevels, host, foreign) /\ There(memory'.toplevels, host, foreign)
  <2> DEFINE run == runs[who]
             hs == IF who = "daemon" THEN memory ELSE run.own
             new == ApplyOutcome(hs, run.outcome, Stamp(run))
  <2>1. /\ run # None /\ run.phase = "ended" /\ file' = new
        /\ memory' = (IF who = "daemon" THEN new ELSE memory)
    BY <1>2 DEF Records
  <2>2. run.outcome \in Outcome /\ Stamp(run) \in Revs
    BY <2>1, RunOf DEF Covered, RunRecord, Stamp
  <2>3. hs \in HostState
    BY <2>1 DEF Inv, Types, RunsSound, Programs
  <2>4. There(hs.toplevels, host, foreign) /\ There(run.outcome.toplevels, host, foreign)
    BY <2>1 DEF Traced, Programs, RunTraced
  <2> HIDE DEF hs
  <2>5. new.toplevels \in {hs.toplevels, run.outcome.toplevels}
    BY <2>2, <2>3, BaselineOf
  <2> HIDE DEF new
  <2>6. There(new.toplevels, host, foreign)
    BY <2>4, <2>5
  <2> QED BY <2>1, <2>6 DEF Traced
<1>3. ASSUME NEW who \in Programs, Kill(who)
      PROVE  There(file'.toplevels, host, foreign) /\ There(memory'.toplevels, host, foreign)
  <2>1. file' = file /\ memory' = (IF who = "daemon" THEN DropSupersededParks(file) ELSE memory)
    BY <1>3 DEF Kill
  <2>2. DropSupersededParks(file).toplevels = file.toplevels
    BY BaselineOf DEF Inv, Types
  <2> QED BY <2>1, <2>2 DEF Traced
<1>4. CASE Approve
  <2>1. memory'.toplevels = memory.toplevels /\ file' = memory'
    BY <1>4 DEF Approve, Inv, Types, HostState
  <2> QED BY <2>1 DEF Traced
<1>5. ASSUME NEW who \in Programs, Task(who) \/ Activate(who) PROVE UNCHANGED << file, memory >>
  BY <1>5, TaskMoves, ActivateIs DEF TaskGoes
<1>6. Check \/ Commit \/ DeployByHand \/ UNCHANGED vars => UNCHANGED << file, memory >>
  BY DEF Check, Commit, DeployByHand, vars
<1>7. CASE Poll
  BY <1>7 DEF Poll, Traced
<1> QED BY <1>1, <1>2, <1>3, <1>4, <1>5, <1>6, <1>7 DEF Next

LEMMA TracedStep == Inv /\ Traced /\ [Next]_vars => Traced'
<1> SUFFICES ASSUME Inv, Traced, [Next]_vars PROVE Traced'
  OBVIOUS
<1>1. \A p \in Profiles : host'[p] \in Work => p \in foreign'
  BY WorldMoves, DriftAssumption DEF Traced
<1>2. There(file'.toplevels, host', foreign') /\ There(memory'.toplevels, host', foreign')
  BY LedgersTraced, StaysTraced
<1>3. ASSUME NEW who \in Programs, runs'[who] # None
      PROVE  /\ RunTraced(runs'[who], host', foreign')
             /\ who = "check" => There(runs'[who].own.toplevels, host', foreign')
  <2> DEFINE next == runs'[who]
  <2>a. ASSUME NEW hs, Begins(next, hs), There(hs.toplevels, host, foreign)
        PROVE  RunTraced(next, host', foreign')
    <3>1. RunTraced(next, host, foreign)
      BY <2>a, NothingLeft DEF Begins, RunTraced, There
    <3> QED BY <3>1, StaysTraced
  <2>1. CASE runs[who] # None /\ runs'[who] = runs[who]
    BY <2>1, StaysTraced DEF Traced
  <2>2. CASE who = "daemon" /\ Poll /\ Begins(next, memory)
    BY <2>2, <2>a DEF Traced
  <2>3. CASE who = "check" /\ Begins(next, DropSupersededParks(file))
             /\ next.own = DropSupersededParks(file)
    <3>1. DropSupersededParks(file).toplevels = file.toplevels
      BY BaselineOf DEF Inv, Types
    <3> QED BY <2>3, <2>a, <3>1, StaysTraced DEF Traced
  <2>4. CASE Task(who) /\ GoesOn(runs[who], next) /\ next.own = runs[who].own
    <3>1. runs[who] # None
      BY <2>4, TaskMoves
    <3>2. RunTraced(next, host, foreign)
      BY <2>4, <3>1, GoesOnTraced DEF Traced
    <3> QED BY <2>4, <3>1, <3>2, StaysTraced DEF Traced
  <2>5. CASE Activate(who) /\ Activated(runs[who], next)
    <3>1. runs[who] # None /\ RunTraced(runs[who], host, foreign)
      BY <2>5, ActivateIs DEF Traced
    <3>2. RunTraced(next, host, foreign) /\ next.own = runs[who].own
      BY <2>5, <3>1, NothingLeft DEF Activated, RunTraced, There
    <3> QED BY <3>1, <3>2, StaysTraced DEF Traced
  <2> QED BY <1>3, <2>1, <2>2, <2>3, <2>4, <2>5, RunMoves
<1> QED BY <1>1, <1>2, <1>3 DEF Traced

LEMMA InitTraced == Init => Traced
<1> SUFFICES ASSUME Init PROVE Traced
  OBVIOUS
<1>1. /\ foreign = {p \in Profiles : \/ host[p] \in Work
                                     \/ file.toplevels # None /\ host[p] # file.toplevels[p]}
      /\ memory = file /\ runs = [who \in Programs |-> None] /\ file \in HostState
  BY DriftAssumption DEF Init
<1>2. \A p \in Profiles : file.toplevels # None => file.toplevels[p] # None
  <2>1. file.toplevels # None => file.toplevels \in [Profiles -> Sources]
    BY <1>1, DriftAssumption DEF HostState, OptPath
  <2> QED BY <2>1, NoneIsNoSource
<1>3. There(file.toplevels, host, foreign)
  BY <1>1, <1>2 DEF There
<1> QED BY <1>1, <1>3 DEF Traced

LEMMA BudgetStep == budget \in Budget /\ [Next]_vars => (budget \in Budget)'
<1> SUFFICES ASSUME budget \in Budget, [Next]_vars PROVE budget' \in Budget
  OBVIOUS
<1>1. Fault => budget' \in Budget
  BY DEF Fault, Budget
<1>2. UNCHANGED budget => budget' \in Budget
  OBVIOUS
<1>3. Check \/ Approve \/ DeployByHand => budget' \in Budget
  BY DEF Check, Approve, DeployByHand, Budget
<1>4. Poll \/ Commit \/ UNCHANGED vars => UNCHANGED budget
  BY DEF Poll, Commit, vars
<1>5. ASSUME NEW who \in Programs, Task(who) \/ Activate(who) \/ Records(who) \/ Kill(who)
      PROVE  Fault \/ UNCHANGED budget
  BY <1>5 DEF Task, Contact, Compare, Bless, Breaks, ReadBack, Activate, Records, Kill
<1> QED BY <1>1, <1>2, <1>3, <1>4, <1>5 DEF Next

LEMMA InitBudget == Init => budget \in Budget
BY DriftAssumption DEF Init

LEMMA InvAlways == Spec => [](Inv /\ Traced /\ budget \in Budget)
BY InitInv, InvStep, InitTraced, TracedStep, InitBudget, BudgetStep, PTL DEF Spec

(* What the agent did itself never holds it back: a run that the guard ends *)
(* finds what people put there, or a newer commit (runner.rs, the drift     *)
(* guard).                                                                  *)
THEOREM OwnChangeNeverHeld == Spec => OwnChangeNotHeld
<1>1. Inv /\ Traced /\ budget \in Budget /\ [Next]_vars =>
        [\A who \in Programs : Stamped /\ HoldsForDrift(who) =>
           \/ foreign # {}
           \/ \E p \in Profiles : host[p] \in Revs /\ host[p] > runs[who].rev]_vars
  <2> SUFFICES ASSUME Inv, Traced, budget \in Budget, Next, NEW who \in Programs,
                      Stamped, HoldsForDrift(who), foreign = {}
               PROVE  \E p \in Profiles : host[p] \in Revs /\ host[p] > runs[who].rev
    OBVIOUS
  <2> DEFINE run == runs[who]
  <2>1. /\ run # None /\ run.phase = "bless" /\ runs'[who] # None
        /\ runs'[who].phase = "ended" /\ budget' = budget
    BY DEF HoldsForDrift
  <2>2. run \in RunRecord /\ run.rev \in Nat /\ "system" \in Profiles /\ host \in Content
    BY <2>1, RunOf, DriftAssumption DEF Inv, Types, RunRecord
  <2>a. ~Fault
    BY <2>1 DEF Fault, Budget
  <2>3. Bless(who)
    <3>1. Task(who)
      BY <2>1, RunMoves, ActivateIs DEF Begins
    <3> QED BY <2>1, <2>a, <3>1 DEF Task, Contact, Compare, Breaks, ReadBack
  <2>4. ~Ancestor(ConfigurationRev, run.rev)
    <3> DEFINE blessed == [Seen(run, "system") EXCEPT !.phase = "deploy", !.todo = Activation]
    <3>1. blessed.phase = "deploy"
      BY <2>2, SeenType DEF RunRecord
    <3> HIDE DEF blessed
    <3>2. CASE Advance(who, blessed)
      <4>1. runs'[who] = blessed
        BY <3>2 DEF Advance, Inv, Types
      <4> QED BY <2>1, <3>1, <4>1
    <3>3. Ancestor(ConfigurationRev, run.rev) => Advance(who, blessed)
      BY <2>3, <2>a DEF Bless, blessed
    <3> QED BY <3>2, <3>3
  <2>5. host["system"] # None /\ host["system"] \notin Work
    BY <2>1, <2>2 DEF Traced, RunTraced, There
  <2>6. host["system"] \in Revs /\ ConfigurationRev = host["system"]
    BY <2>2, <2>5 DEF Content, Sources, Work, ConfigurationRev
  <2>7. host["system"] \in Nat /\ ~(host["system"] <= run.rev)
    BY <2>4, <2>6, DriftAssumption DEF Ancestor
  <2> QED BY <2>2, <2>6, <2>7
<1> QED BY <1>1, InvAlways, PTL DEF Spec, OwnChangeNotHeld

-----------------------------------------------------------------------------
(* What the daemon believes where it deploys alone. *)

(* A host that was deployed `rev`, or adopted as it was, but for people.   *)
Holds(rev, top, on, by) ==
  \A p \in Profiles : p \in by \/ on[p] = rev \/ (top # None /\ on[p] = top[p])

(* What a run has put on the host, or found there, is there still.         *)
Follows(run, on, by) ==
  /\ run.phase \in {"contact", "read"} =>
       \A p \in Profiles : p \in Range(run.todo) \/ p \in by \/ run.left[p] = on[p]
  /\ run.phase = "deploy" => \A p \in Profiles : p \in Range(run.todo) \/ p \in by \/ on[p] = run.rev
  /\ run.phase = "read" => \A p \in Profiles : p \in by \/ on[p] = run.rev
  /\ run.phase = "ended" /\ run.outcome.kind \in Settled =>
       Holds(run.rev, run.outcome.toplevels, on, by)

(* A run deploys what is newer than the record, so that one that breaks    *)
(* off leaves a record of a commit the branch has left behind.             *)
Believes ==
  /\ runs["check"] = None /\ budget.checks = 0
  /\ file.deployed = memory.deployed /\ file.toplevels = memory.toplevels
  /\ memory.deployed # None => memory.deployed <= head
  /\ runs["daemon"] = None /\ memory.deployed = head =>
       Holds(head, memory.toplevels, host, foreign)
  /\ runs["daemon"] # None =>
       /\ runs["daemon"].rev <= head
       /\ memory.deployed # None => memory.deployed < runs["daemon"].rev
       /\ Follows(runs["daemon"], host, foreign)

Alone == budget.alone => Believes

LEMMA AloneStays == budget \in Budget /\ [Next]_vars => budget'.alone = budget.alone
<1> SUFFICES ASSUME budget \in Budget, [Next]_vars PROVE budget'.alone = budget.alone
  OBVIOUS
<1>1. Fault => budget'.alone = budget.alone
  BY DEF Fault, Budget
<1>2. UNCHANGED budget => budget'.alone = budget.alone
  OBVIOUS
<1>3. Check \/ Approve \/ DeployByHand => budget'.alone = budget.alone
  BY DEF Check, Approve, DeployByHand, Budget
<1>4. Poll \/ Commit \/ UNCHANGED vars => UNCHANGED budget
  BY DEF Poll, Commit, vars
<1>5. ASSUME NEW who \in Programs, Task(who) \/ Activate(who) \/ Records(who) \/ Kill(who)
      PROVE  Fault \/ UNCHANGED budget
  BY <1>5 DEF Task, Contact, Compare, Bless, Breaks, ReadBack, Activate, Records, Kill
<1> QED BY <1>1, <1>2, <1>3, <1>4, <1>5 DEF Next

(* Who is alone spends no checks.                                          *)
LEMMA ChecksStay ==
  ASSUME budget \in Budget, [Next]_vars, budget.checks = 0
  PROVE  ~Check /\ budget'.checks = 0
<1>1. ~Check
  BY DEF Check
<1>2. Fault => budget'.checks = 0
  BY DEF Fault, Budget
<1>3. Approve \/ DeployByHand => budget'.checks = 0
  BY DEF Approve, DeployByHand, Budget
<1>4. Poll \/ Commit \/ UNCHANGED vars => UNCHANGED budget
  BY DEF Poll, Commit, vars
<1>5. ASSUME NEW who \in Programs, Task(who) \/ Activate(who) \/ Records(who) \/ Kill(who)
      PROVE  Fault \/ UNCHANGED budget
  BY <1>5 DEF Task, Contact, Compare, Bless, Breaks, ReadBack, Activate, Records, Kill
<1> QED BY <1>1, <1>2, <1>3, <1>4, <1>5 DEF Next

(* Only an outcome that settles the host is a new record.                  *)
LEMMA RecordOf ==
  ASSUME NEW hs \in HostState, NEW o \in Outcome, NEW rev \in Revs
  PROVE  LET new == ApplyOutcome(hs, o, rev)
         IN  /\ o.kind \in Settled => new.deployed = rev /\ new.toplevels = o.toplevels
             /\ o.kind \notin Settled =>
                  new.deployed = hs.deployed /\ new.toplevels = hs.toplevels
<1>1. CASE o.kind \in Settled
  <2>1. ApplyOutcome(hs, o, rev) = Succeeded(hs, rev, o.toplevels)
    BY <1>1, KindsAssumption DEF ApplyOutcome, Settled, Unsettled
  <2> QED BY <1>1, <2>1 DEF Succeeded, HostState
<1>2. CASE o.kind = "held"
  <2>1. ApplyOutcome(hs, o, rev) = HeldAt(hs, rev)
    BY <1>2, KindsAssumption DEF ApplyOutcome, Settled, Unsettled
  <2> QED BY <1>2, <2>1 DEF HeldAt, HostState, Settled
<1>3. CASE o.kind \in Unsettled
  <2>1. ApplyOutcome(hs, o, rev) = ParkedAt(hs, rev)
    BY <1>3, KindsAssumption DEF ApplyOutcome, Settled, Unsettled
  <2> QED BY <1>3, <2>1 DEF ParkedAt, HostState, Settled, Unsettled
<1>4. CASE o.kind \in Kinds
  <2>1. ApplyOutcome(hs, o, rev) = PendingAt(hs, rev, o.kind)
    BY <1>4, KindsAssumption DEF ApplyOutcome, Settled, Unsettled
  <2> QED BY <1>4, <2>1, KindsAssumption DEF PendingAt, HostState, Settled
<1> QED BY <1>1, <1>2, <1>3, <1>4 DEF Outcome

LEMMA FullOrder == \A p \in Profiles : p \in Range(Activation)
BY OrdersAreFull

LEMMA GoesOnFollows ==
  ASSUME Inv, NEW who \in Programs, runs[who] # None, NEW next, GoesOn(runs[who], next),
         next.rev = runs[who].rev, Follows(runs[who], host, foreign)
  PROVE  Follows(next, host, foreign)
<1> DEFINE run == runs[who]
           p == Head(run.todo)
           kept == KeptOf(run)
<1>1. run \in RunRecord /\ Covered(run, host) /\ host \in Content
  BY RunOf DEF Inv, Types
<1>2. CASE Looks(run, next)
  BY <1>2, FullOrder DEF Looks, Follows
<1>3. ASSUME run.phase \in {"contact", "read"}
      PROVE  /\ kept.phase = run.phase /\ kept.rev = run.rev /\ kept.todo = Tail(run.todo)
             /\ \A q \in Profiles : q \in Range(kept.todo) \/ q \in foreign \/ kept.left[q] = host[q]
             /\ kept.left \in Content
  <2>1. kept = [run EXCEPT !.todo = Tail(@), !.left[p] = host[p]]
    BY DEF KeptOf
  <2>2. p \in Profiles /\ \A q \in Range(run.todo) : q = p \/ q \in Range(Tail(run.todo))
    BY <1>1, <1>3, HeadOrTail DEF RunRecord, Covered
  <2>3. /\ kept.phase = run.phase /\ kept.rev = run.rev /\ kept.todo = Tail(run.todo)
        /\ kept.left = [run.left EXCEPT ![p] = host[p]]
    BY <1>1, <2>1 DEF RunRecord
  <2> HIDE DEF kept
  <2>4. /\ kept.left \in Content
        /\ \A q \in Profiles : kept.left[q] = IF q = p THEN host[p] ELSE run.left[q]
    BY <1>1, <2>2, <2>3 DEF RunRecord, Content
  <2>5. \A q \in Profiles : q \in Range(kept.todo) \/ q \in foreign \/ kept.left[q] = host[q]
    BY <1>3, <2>2, <2>3, <2>4 DEF Follows
  <2> QED BY <2>3, <2>4, <2>5
<1> HIDE DEF kept
<1>4. CASE Keeps(run, next)
  <2>1. next = kept /\ run.phase \in {"contact", "read"}
    BY <1>4 DEF Keeps, kept
  <2> QED BY <1>3, <2>1 DEF Follows
<1>5. CASE Settles(run, next)
  <2>1. PICK kind \in Settled : next = With(run, [kind |-> kind, toplevels |-> kept.left])
    BY <1>5 DEF Settles, kept
  <2>2. run.phase \in {"contact", "read"} /\ kept.todo = << >>
    BY <1>5 DEF Settles, kept
  <2>3. next.phase = "ended" /\ next.outcome.toplevels = kept.left
    BY <1>1, <2>1, WithFields
  <2>4. kept.left # None
    <3>1. \A q \in Profiles : kept.left[q] # None
      BY <1>1, <1>5, <2>2, KeepsPath DEF Settles, KeptOf, kept
    <3>2. kept.left \in Paths
      BY <1>3, <2>2, <3>1, DriftAssumption DEF Content
    <3> QED BY <3>2, NoneAssumption
  <2>5. \A q \in Profiles : q \in foreign \/ kept.left[q] = host[q]
    BY <1>3, <2>2, EmptyRange
  <2> QED BY <2>3, <2>4, <2>5 DEF Follows, Holds
<1>6. CASE Stops(run, next)
  <2>1. PICK o \in Outcome : /\ next = With(run, o)
                             /\ o.kind \in Settled => run.phase = "read"
    BY <1>6 DEF Stops
  <2>2. next.phase = "ended" /\ next.outcome = o
    BY <1>1, <2>1, WithFields
  <2> QED BY <2>1, <2>2 DEF Follows, Holds
<1> QED BY <1>2, <1>4, <1>5, <1>6 DEF GoesOn

(* What people deploy by hand is theirs.                                    *)
LEMMA StaysFollowed ==
  ASSUME NEW on, NEW by, NEW later, NEW since,
         \A p \in Profiles : p \in since \/ (p \notin by /\ later[p] = on[p])
  PROVE  /\ \A rev, top : Holds(rev, top, on, by) => Holds(rev, top, later, since)
         /\ \A run : Follows(run, on, by) => Follows(run, later, since)
<1>1. ASSUME NEW rev, NEW top, Holds(rev, top, on, by) PROVE Holds(rev, top, later, since)
  BY <1>1 DEF Holds
<1>2. ASSUME NEW run, Follows(run, on, by) PROVE Follows(run, later, since)
  BY <1>1, <1>2 DEF Follows
<1> QED BY <1>1, <1>2

(* A record the branch, or a run, has left behind.                         *)
LEMMA LeftBehind ==
  ASSUME NEW deployed \in Revs \cup {None}, NEW rev \in Revs, NEW at \in Revs
  PROVE  /\ (deployed # None => deployed <= at) /\ deployed # at => (deployed # None => deployed < at)
         /\ (deployed # None => deployed < rev) /\ rev <= at =>
              /\ deployed # None => deployed < at /\ deployed <= at
              /\ deployed # at
         /\ at + 1 \in Revs /\ (deployed # None => deployed <= at) =>
              /\ deployed # None => deployed <= at + 1
              /\ deployed # at + 1
         /\ at + 1 \in Revs /\ rev <= at => rev <= at + 1
<1>1. rev \in Nat /\ at \in Nat /\ None \notin Revs
  BY DriftAssumption, NoneAssumption
<1>2. CASE deployed = None
  BY <1>1, <1>2
<1>3. CASE deployed \in Revs
  <2>1. deployed \in Nat
    BY <1>3, DriftAssumption
  <2> QED BY <1>1, <2>1
<1> QED BY <1>2, <1>3

LEMMA BelievesStep ==
  ASSUME Inv, budget \in Budget, Believes, [Next]_vars
  PROVE  Believes'
<1>1. ~Check /\ budget'.checks = 0
  BY ChecksStay DEF Believes
<1>2. /\ head \in Nat /\ host \in Content /\ file \in HostState /\ memory \in HostState
      /\ memory.deployed \in Revs \cup {None} /\ head \in Revs
      /\ DOMAIN runs = Programs /\ "check" \in Programs /\ "daemon" \in Programs
  BY DriftAssumption, NoneAssumption DEF Inv, Types, HostState, OptRev, Programs
<1>3. CASE Poll
  <2> DEFINE new == [Planned(memory) EXCEPT !.own = None]
  <2>1. runs["daemon"] = None /\ file' = memory /\ UNCHANGED << head, host, foreign, memory >>
    BY <1>3 DEF Poll
  <2>2. Begins(new, memory)
    BY PlannedBegins
  <2>3. \/ Eligible(memory, head) /\ runs' = [runs EXCEPT !["daemon"] = new]
        \/ runs' = runs
    BY <1>3 DEF Poll
  <2> HIDE DEF new
  <2>4. CASE Eligible(memory, head) /\ runs' = [runs EXCEPT !["daemon"] = new]
    <3>1. runs'["daemon"] = new /\ runs'["check"] = None
      BY <1>2, <2>4 DEF Believes
    <3>2. Follows(new, host, foreign) /\ new.rev = head
      BY <2>2, FullOrder DEF Begins, Follows
    <3>3. memory.deployed # head
      BY <2>4 DEF Eligible
    <3>4. memory.deployed # None => memory.deployed < head
      <4>1. memory.deployed # None => memory.deployed <= head
        BY DEF Believes
      <4> QED BY <1>2, <3>3, <4>1, LeftBehind
    <3>5. head <= head
      BY <1>2
    <3> QED BY <1>1, <1>2, <2>1, <3>1, <3>2, <3>3, <3>4, <3>5 DEF Believes
  <2>5. CASE runs' = runs
    BY <1>1, <2>1, <2>5 DEF Believes
  <2> QED BY <2>3, <2>4, <2>5
<1>4. CASE Commit
  <2>1. /\ head + 1 \in Revs /\ head' = head + 1
        /\ UNCHANGED << host, foreign, file, memory, runs >>
    BY <1>4 DEF Commit
  <2>2. memory.deployed # None => memory.deployed <= head
    BY DEF Believes
  <2>3. (memory.deployed # None => memory.deployed <= head') /\ memory.deployed # head'
    BY <1>2, <2>1, <2>2, LeftBehind
  <2>4. runs["daemon"] # None => runs["daemon"].rev <= head'
    <3>1. runs["daemon"] # None => runs["daemon"].rev \in Revs
      BY <1>2, RunOf DEF RunRecord
    <3>2. runs["daemon"] # None => runs["daemon"].rev <= head
      BY DEF Believes
    <3> QED BY <1>2, <2>1, <3>1, <3>2, LeftBehind
  <2> QED BY <1>1, <2>1, <2>3, <2>4 DEF Believes
<1>5. CASE DeployByHand
  <2>1. PICK p \in Profiles, source \in Sources :
          host' = [host EXCEPT ![p] = source] /\ foreign' = foreign \cup {p}
    BY <1>5, DriftAssumption DEF DeployByHand, Sources
  <2>2. UNCHANGED << head, file, memory, runs >>
    BY <1>5 DEF DeployByHand
  <2>3. \A q \in Profiles : q \in foreign' \/ (q \notin foreign /\ host'[q] = host[q])
    BY <1>2, <2>1 DEF Content
  <2>4. /\ Holds(head, memory.toplevels, host, foreign) => Holds(head, memory.toplevels, host', foreign')
        /\ Follows(runs["daemon"], host, foreign) => Follows(runs["daemon"], host', foreign')
    BY <2>3, StaysFollowed
  <2> QED BY <1>1, <2>2, <2>4 DEF Believes
<1>6. CASE Approve
  <2>1. /\ memory' = [memory EXCEPT !.approved = TRUE] /\ file' = memory'
        /\ UNCHANGED << head, host, foreign, runs >>
    BY <1>6 DEF Approve
  <2>2. memory'.deployed = memory.deployed /\ memory'.toplevels = memory.toplevels
    BY <1>2, <2>1 DEF HostState
  <2> QED BY <1>1, <2>1, <2>2 DEF Believes
<1>7. ASSUME NEW who \in Programs, Task(who)
      PROVE  Believes'
  <2>1. runs[who] # None /\ UNCHANGED host /\ TaskGoes(who)
    BY <1>7, TaskMoves
  <2>2. who = "daemon"
    BY <2>1 DEF Believes, Programs
  <2>3. UNCHANGED << head, foreign, file, memory >>
    BY <2>1 DEF TaskGoes
  <2>4. PICK next : /\ runs' = [runs EXCEPT !["daemon"] = next] /\ GoesOn(runs["daemon"], next)
                    /\ next.rev = runs["daemon"].rev
    BY <2>1, <2>2 DEF TaskGoes
  <2>5. runs'["daemon"] = next /\ runs'["check"] = None
    BY <1>2, <2>4 DEF Believes
  <2>6. Follows(next, host, foreign)
    BY <1>2, <2>1, <2>2, <2>4, GoesOnFollows DEF Believes
  <2>7. memory.deployed # None => memory.deployed < runs["daemon"].rev
    BY <2>1, <2>2 DEF Believes
  <2>8. memory.deployed # head
    <3>1. runs["daemon"].rev \in Revs /\ runs["daemon"].rev <= head
      BY <1>2, <2>1, <2>2, RunOf DEF RunRecord, Believes
    <3> QED BY <1>2, <2>7, <3>1, LeftBehind
  <2> QED BY <1>1, <2>1, <2>2, <2>3, <2>4, <2>5, <2>6, <2>8 DEF Believes
<1>8. ASSUME NEW who \in Programs, Activate(who)
      PROVE  Believes'
  <2> DEFINE run == runs["daemon"]
             p == Head(run.todo)
  <2>1. who = "daemon"
    BY <1>8, ActivateIs DEF Believes, Programs
  <2>2. /\ run # None /\ run \in RunRecord /\ run.phase = "deploy"
        /\ p \in Profiles /\ \A q \in Range(run.todo) : q = p \/ q \in Range(Tail(run.todo))
        /\ foreign' = foreign \ {p}
        /\ \A q \in Profiles : host'[q] = IF q = p THEN run.rev ELSE host[q]
        /\ UNCHANGED << head, file, memory >>
    BY <1>8, <2>1, ActivateIs
  <2>3. PICK next : runs' = [runs EXCEPT !["daemon"] = next] /\ Activated(run, next)
    BY <1>8, <2>1, ActivateIs
  <2>4. runs'["daemon"] = next /\ runs'["check"] = None /\ next.rev = run.rev
    BY <1>2, <2>3 DEF Believes, Activated
  <2>5. \A q \in Profiles : q \in Range(Tail(run.todo)) \/ q \in foreign' \/ host'[q] = run.rev
    BY <2>2 DEF Believes, Follows
  <2>6. Follows(next, host', foreign')
    <3>1. CASE Tail(run.todo) # << >>
      BY <2>3, <2>4, <2>5, <3>1 DEF Activated, Follows
    <3>2. CASE Tail(run.todo) = << >>
      BY <2>3, <2>4, <2>5, <3>2, EmptyRange, FullOrder DEF Activated, Follows
    <3> QED BY <3>1, <3>2
  <2>7. memory.deployed # head
    <3>1. run.rev \in Revs /\ run.rev <= head /\ (memory.deployed # None => memory.deployed < run.rev)
      BY <2>2 DEF RunRecord, Believes
    <3> QED BY <1>2, <3>1, LeftBehind
  <2> QED BY <1>1, <2>2, <2>4, <2>6, <2>7 DEF Believes
<1>9. ASSUME NEW who \in Programs, Records(who)
      PROVE  Believes'
  <2> DEFINE run == runs["daemon"]
             new == ApplyOutcome(memory, run.outcome, run.rev)
  <2>1. who = "daemon"
    BY <1>9 DEF Records, Believes, Programs
  <2>2. /\ run # None /\ run.phase = "ended" /\ file' = new /\ memory' = new
        /\ runs' = [runs EXCEPT !["daemon"] = None] /\ UNCHANGED << head, host, foreign >>
    BY <1>9, <2>1 DEF Records, Stamp
  <2>3. run.outcome \in Outcome /\ run.rev \in Revs
    BY <1>2, <2>2, RunOf DEF RunRecord, Covered
  <2>4. /\ run.outcome.kind \in Settled => new.deployed = run.rev /\ new.toplevels = run.outcome.toplevels
        /\ run.outcome.kind \notin Settled =>
             new.deployed = memory.deployed /\ new.toplevels = memory.toplevels
    <3> DEFINE o == run.outcome
               rev == run.rev
    <3>1. o \in Outcome /\ rev \in Revs /\ new = ApplyOutcome(memory, o, rev)
      BY <2>3
    <3> HIDE DEF o, rev, new
    <3>2. /\ o.kind \in Settled => new.deployed = rev /\ new.toplevels = o.toplevels
          /\ o.kind \notin Settled =>
               new.deployed = memory.deployed /\ new.toplevels = memory.toplevels
      BY <1>2, <3>1, RecordOf
    <3> QED BY <3>2 DEF o, rev
  <2>5. runs'["daemon"] = None /\ runs'["check"] = None
    BY <1>2, <2>2 DEF Believes
  <2>6. /\ run.rev <= head /\ (memory.deployed # None => memory.deployed < run.rev)
        /\ Follows(run, host, foreign)
    BY <2>2 DEF Believes
  <2> HIDE DEF new
  <2>7. CASE run.outcome.kind \in Settled
    <3>1. Holds(run.rev, run.outcome.toplevels, host, foreign)
      BY <2>2, <2>6, <2>7 DEF Follows
    <3> QED BY <1>1, <1>2, <2>2, <2>3, <2>4, <2>5, <2>6, <2>7, <3>1 DEF Believes
  <2>8. CASE run.outcome.kind \notin Settled
    <3>1. /\ memory.deployed # head
          /\ memory.deployed # None => memory.deployed <= head
      BY <1>2, <2>3, <2>6, LeftBehind
    <3> QED BY <1>1, <2>2, <2>4, <2>5, <2>8, <3>1 DEF Believes
  <2> QED BY <2>7, <2>8
<1>10. ASSUME NEW who \in Programs, Kill(who)
      PROVE  Believes'
  <2>1. /\ runs' = [runs EXCEPT ![who] = None] /\ UNCHANGED << head, host, foreign, file >>
        /\ memory' = (IF who = "daemon" THEN DropSupersededParks(file) ELSE memory)
        /\ who = "daemon" \/ runs[who] # None
    BY <1>10 DEF Kill
  <2>2. who = "daemon" /\ runs'["daemon"] = None /\ runs'["check"] = None
    BY <1>2, <2>1 DEF Believes, Programs
  <2>3. memory'.deployed = memory.deployed /\ memory'.toplevels = memory.toplevels
    <3>1. /\ DropSupersededParks(file).deployed = file.deployed
          /\ DropSupersededParks(file).toplevels = file.toplevels
      BY <1>2 DEF DropSupersededParks, HostState
    <3> QED BY <2>1, <2>2, <3>1 DEF Believes
  <2>4. runs["daemon"] # None => memory.deployed # head
    <3>1. runs["daemon"] # None => runs["daemon"].rev \in Revs
      BY <1>2, RunOf DEF RunRecord
    <3>2. runs["daemon"] # None =>
            /\ runs["daemon"].rev <= head
            /\ memory.deployed # None => memory.deployed < runs["daemon"].rev
      BY DEF Believes
    <3> QED BY <1>2, <3>1, <3>2, LeftBehind
  <2> QED BY <1>1, <2>1, <2>2, <2>3, <2>4 DEF Believes
<1>11. CASE UNCHANGED vars
  BY <1>1, <1>11 DEF vars, Believes
<1> QED BY <1>1, <1>3, <1>4, <1>5, <1>6, <1>7, <1>8, <1>9, <1>10, <1>11 DEF Next

LEMMA InitAlone == Init => Alone
<1> SUFFICES ASSUME Init, budget.alone PROVE Believes
  BY DEF Alone
<1>1. PICK start \in Starts : host = start.host /\ file = start.file /\ budget = start.budget
  BY DEF Init
<1>2. /\ head = 1 /\ memory = file /\ runs = [who \in Programs |-> None]
      /\ foreign = {p \in Profiles : \/ host[p] \in Work
                                     \/ file.toplevels # None /\ host[p] # file.toplevels[p]}
  BY DEF Init
<1>3. /\ budget.checks = 0 /\ file.deployed \in {None, 1}
      /\ file.deployed = 1 /\ file.toplevels = None => \A p \in Profiles : host[p] \in Work \cup {1}
  BY <1>1, StartsAssumption
<1>4. runs["daemon"] = None /\ runs["check"] = None
  BY <1>2 DEF Programs
<1>5. memory.deployed = head => Holds(head, memory.toplevels, host, foreign)
  BY <1>2, <1>3 DEF Holds
<1> QED BY <1>2, <1>3, <1>4, <1>5 DEF Believes

LEMMA AlwaysAlone == Spec => []Alone
<1>1. Inv /\ budget \in Budget /\ Alone /\ [Next]_vars => Alone'
  BY AloneStays, BelievesStep DEF Alone
<1> QED BY <1>1, InitAlone, InvAlways, PTL DEF Spec

(* Where the daemon is the only one to deploy, a host whose record says it  *)
(* is at the branch is there, or is the content that was adopted, but for   *)
(* what people changed (runner.rs, deploy_host; state.rs, apply_outcome).   *)
THEOREM RecordAlwaysTrue == Spec => []RecordIsTrue
<1>1. BaselineWhole /\ Alone => RecordIsTrue
  BY DEF RecordIsTrue, Alone, Believes, Holds
<1> QED BY <1>1, BaselinesWhole, AlwaysAlone, PTL
=============================================================================
