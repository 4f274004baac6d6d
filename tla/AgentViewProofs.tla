-------------------------- MODULE AgentViewProofs --------------------------
(* What the agent view shows is the current agent's, in order and warned   *)
(* of, for any agents, hosts, capacities and budgets of faults.            *)
EXTENDS AgentView, Integers, TLAPS, FiniteSetTheorems

-----------------------------------------------------------------------------
(* Sequences. *)

IsSequence(s) == \E S : s \in Seq(S)

LEMMA SequenceIs ==
  ASSUME NEW s, IsSequence(s)
  PROVE  Len(s) \in Nat /\ DOMAIN s = 1 .. Len(s) /\ Range(s) = {s[i] : i \in 1 .. Len(s)}
<1>1. PICK S : s \in Seq(S)
  BY DEF IsSequence
<1>2. Len(s) \in Nat /\ DOMAIN s = 1 .. Len(s)
  BY <1>1
<1> QED BY <1>2 DEF Range

LEMMA EmptySequence == IsSequence(<< >>) /\ Range(<< >>) = {} /\ Len(<< >>) = 0
BY DEF IsSequence, Range

LEMMA FunctionIsSequence ==
  ASSUME NEW s, NEW n \in Nat, s = [i \in 1 .. n |-> s[i]]
  PROVE  IsSequence(s) /\ Len(s) = n /\ Range(s) = {s[i] : i \in 1 .. n}
<1> DEFINE S == {s[i] : i \in 1 .. n}
<1>1. s \in [1 .. n -> S]
  OBVIOUS
<1> HIDE DEF S
<1>2. s \in Seq(S) /\ Len(s) = n
  BY <1>1
<1>3. DOMAIN s = 1 .. n
  BY <1>1
<1> QED BY <1>2, <1>3 DEF IsSequence, Range, S

LEMMA AppendIs ==
  ASSUME NEW s, IsSequence(s), NEW x
  PROVE  /\ IsSequence(Append(s, x))
         /\ Len(Append(s, x)) = Len(s) + 1 /\ Len(s) \in Nat
         /\ DOMAIN Append(s, x) = 1 .. Len(s) + 1
         /\ \A i \in 1 .. Len(s) : Append(s, x)[i] = s[i]
         /\ Append(s, x)[Len(s) + 1] = x
         /\ Range(Append(s, x)) = Range(s) \cup {x}
<1>1. PICK S : s \in Seq(S)
  BY DEF IsSequence
<1>2. s \in Seq(S \cup {x})
  BY <1>1
<1>3. Append(s, x) \in Seq(S \cup {x})
  BY <1>2
<1>4. /\ DOMAIN Append(s, x) = 1 .. Len(s) + 1 /\ Len(s) \in Nat /\ DOMAIN s = 1 .. Len(s)
      /\ Append(s, x)[Len(s) + 1] = x /\ Len(Append(s, x)) = Len(s) + 1
      /\ \A i \in 1 .. Len(s) : Append(s, x)[i] = s[i]
  BY <1>2
<1>5. Range(Append(s, x)) = Range(s) \cup {x}
  BY <1>4 DEF Range
<1> QED BY <1>3, <1>4, <1>5 DEF IsSequence

LEMMA TailIs ==
  ASSUME NEW s, IsSequence(s), s # << >>
  PROVE  /\ IsSequence(Tail(s)) /\ Len(s) \in Nat \ {0} /\ Len(Tail(s)) = Len(s) - 1
         /\ DOMAIN Tail(s) = 1 .. Len(s) - 1
         /\ \A i \in 1 .. Len(s) - 1 : Tail(s)[i] = s[i + 1]
         /\ Head(s) = s[1] /\ 1 \in DOMAIN s
         /\ Range(s) = {Head(s)} \cup Range(Tail(s))
<1>1. PICK S : s \in Seq(S)
  BY DEF IsSequence
<1>2. Tail(s) \in Seq(S)
  BY <1>1
<1>3. /\ Len(s) \in Nat \ {0} /\ DOMAIN s = 1 .. Len(s) /\ Head(s) = s[1]
      /\ DOMAIN Tail(s) = 1 .. Len(s) - 1 /\ Len(Tail(s)) = Len(s) - 1
      /\ \A i \in 1 .. Len(s) - 1 : Tail(s)[i] = s[i + 1]
  BY <1>1
<1>4. \A i \in DOMAIN s : i = 1 \/ (i - 1 \in DOMAIN Tail(s) /\ Tail(s)[i - 1] = s[i])
  BY <1>3
<1>5. \A i \in DOMAIN Tail(s) : i + 1 \in DOMAIN s
  BY <1>3
<1>6. Range(s) \subseteq {Head(s)} \cup Range(Tail(s))
  BY <1>3, <1>4 DEF Range
<1>7. {Head(s)} \cup Range(Tail(s)) \subseteq Range(s)
  BY <1>3, <1>5 DEF Range
<1>8. 1 \in DOMAIN s
  BY <1>3
<1> QED BY <1>2, <1>3, <1>6, <1>7, <1>8 DEF IsSequence

LEMMA ConcatIs ==
  ASSUME NEW s, NEW u, IsSequence(s), IsSequence(u)
  PROVE  /\ IsSequence(s \o u)
         /\ Len(s \o u) = Len(s) + Len(u) /\ Len(s) \in Nat /\ Len(u) \in Nat
         /\ DOMAIN (s \o u) = 1 .. Len(s) + Len(u)
         /\ \A i \in 1 .. Len(s) : (s \o u)[i] = s[i]
         /\ \A i \in Len(s) + 1 .. Len(s) + Len(u) :
              i - Len(s) \in 1 .. Len(u) /\ (s \o u)[i] = u[i - Len(s)]
         /\ Range(s \o u) = Range(s) \cup Range(u)
<1>1. PICK S, T : s \in Seq(S) /\ u \in Seq(T)
  BY DEF IsSequence
<1>2. s \in Seq(S \cup T) /\ u \in Seq(S \cup T)
  BY <1>1
<1> HIDE <1>1
<1>3. s \o u \in Seq(S \cup T)
  BY <1>2
<1>4. /\ Len(s \o u) = Len(s) + Len(u) /\ Len(s) \in Nat /\ Len(u) \in Nat
      /\ DOMAIN s = 1 .. Len(s) /\ DOMAIN u = 1 .. Len(u)
      /\ DOMAIN (s \o u) = 1 .. Len(s) + Len(u)
      /\ \A i \in 1 .. Len(s) : (s \o u)[i] = s[i]
      /\ \A i \in Len(s) + 1 .. Len(s) + Len(u) :
           i - Len(s) \in 1 .. Len(u) /\ (s \o u)[i] = u[i - Len(s)]
  BY <1>2, <1>3
<1>5. Range(s \o u) \subseteq Range(s) \cup Range(u)
  <2>1. \A i \in DOMAIN (s \o u) : i \in 1 .. Len(s) \/ i \in Len(s) + 1 .. Len(s) + Len(u)
    BY <1>4
  <2> QED BY <1>4, <2>1 DEF Range
<1>6. Range(s) \cup Range(u) \subseteq Range(s \o u)
  <2>1. \A i \in 1 .. Len(u) : Len(s) + i \in Len(s) + 1 .. Len(s) + Len(u)
                               /\ Len(s) + i - Len(s) = i
    BY <1>4
  <2>2. \A i \in 1 .. Len(u) : (s \o u)[Len(s) + i] = u[i]
    BY <1>4, <2>1
  <2>3. \A i \in 1 .. Len(u) : Len(s) + i \in DOMAIN (s \o u)
    BY <1>4
  <2>4. \A i \in 1 .. Len(s) : i \in DOMAIN (s \o u)
    BY <1>4
  <2>5. \A x \in Range(s) : x \in Range(s \o u)
    BY <1>4, <2>4 DEF Range
  <2>6. \A x \in Range(u) : x \in Range(s \o u)
    <3>1. SUFFICES ASSUME NEW i \in 1 .. Len(u) PROVE u[i] \in Range(s \o u)
      BY <1>4 DEF Range
    <3> QED BY <2>2, <2>3 DEF Range
  <2> QED BY <2>5, <2>6
<1> QED BY <1>3, <1>4, <1>5, <1>6 DEF IsSequence

(* The end of a sequence, shifted by what was cut off.                     *)
LEMMA LastOfIs ==
  ASSUME NEW s, IsSequence(s), NEW k \in Nat
  PROVE  LET q == LastOf(s, k)
         IN  /\ IsSequence(q) /\ Len(q) \in 0 .. k
             /\ Range(q) \subseteq Range(s)
             /\ \E d \in Nat : /\ Len(q) = Len(s) - d
                               /\ \A i \in 1 .. Len(q) : i + d \in 1 .. Len(s) /\ q[i] = s[i + d]
<1> DEFINE q == LastOf(s, k)
<1>1. PICK S : s \in Seq(S)
  BY DEF IsSequence
<1>2. CASE ~(Len(s) > k)
  <2>1. q = s
    BY <1>2 DEF LastOf
  <2>2. Len(s) \in 0 .. k /\ Len(q) = Len(s) - 0
    BY <1>1, <1>2, <2>1
  <2>3. \A i \in 1 .. Len(q) : i + 0 \in 1 .. Len(s) /\ q[i] = s[i + 0]
    BY <1>1, <2>1
  <2> QED BY <2>1, <2>2, <2>3
<1>3. CASE Len(s) > k
  <2> DEFINE d == Len(s) - k
  <2>1. q = SubSeq(s, d + 1, Len(s))
    BY <1>3 DEF LastOf
  <2>2. d \in Nat /\ Len(s) \in Nat /\ DOMAIN s = 1 .. Len(s)
    BY <1>1, <1>3
  <2>3. q \in Seq(S) /\ Len(q) = k /\ DOMAIN q = 1 .. k
        /\ \A i \in 1 .. k : q[i] = s[i + d] /\ i + d \in 1 .. Len(s)
    <3>1. d + 1 \in 1 .. Len(s) + 1 /\ Len(s) - (d + 1) + 1 = k
      BY <1>3, <2>2
    <3>2. SubSeq(s, d + 1, Len(s)) = [i \in 1 .. k |-> s[i + d]]
      BY <1>1, <1>3, <2>2, <3>1
    <3>3. \A i \in 1 .. k : i + d \in 1 .. Len(s) /\ s[i + d] \in S
      BY <1>1, <1>3, <2>2
    <3>4. q = [i \in 1 .. k |-> s[i + d]]
      BY <2>1, <3>2
    <3> HIDE DEF q, d
    <3>5. q \in [1 .. k -> S] /\ \A i \in 1 .. k : q[i] = s[i + d]
      BY <3>3, <3>4
    <3>6. q \in Seq(S) /\ Len(q) = k /\ DOMAIN q = 1 .. k
      BY <3>5
    <3> QED BY <3>3, <3>5, <3>6
  <2>4. Range(q) \subseteq Range(s)
    BY <2>2, <2>3 DEF Range
  <2>5. Len(q) = Len(s) - d
    BY <2>2, <2>3
  <2> HIDE DEF q, d
  <2>6. k \in 0 .. k
    OBVIOUS
  <2> QED BY <2>2, <2>3, <2>4, <2>5, <2>6 DEF IsSequence, q
<1> QED BY <1>2, <1>3, SequenceIs

-----------------------------------------------------------------------------
(* What the state is made of. *)

ViewFields == {"open", "current", "status", "error", "loading", "sel", "pending", "backfilled",
               "scanning"}

AgentFields == {"up", "running", "paused", "approved", "said", "since", "ids", "history"}

IsAgent(s) ==
  /\ DOMAIN s = AgentFields
  /\ s.said \in Nat /\ s.since \in Nat /\ s.since <= s.said
  /\ s.ids \in Int

IsTail(t, servers) ==
  /\ DOMAIN t = {"agent", "at"}
  /\ t.agent \in Agents
  /\ t.at \in Nat \cup {None}
  /\ t.at # None => t.at <= servers[t.agent].said

IsTask(t) == t.verb # "scan" => t.agent \in Agents

IsReport(r) ==
  /\ r.kind \in {"status", "op", "found", "tail", "backfill"}
  /\ r.kind = "status" => r.agent \in Agents
  /\ r.kind = "found" => r.agents \subseteq Agents
  /\ r.kind = "tail" => /\ r.line.agent \in Agents /\ r.line.n \in Nat
                        /\ r.line.live = TRUE
  /\ r.kind = "backfill" => r.agent \in Agents

ServersOk == DOMAIN server = Agents /\ \A a \in Agents : IsAgent(server[a])

(* The agent on screen is on the list once the list has any.               *)
ListOk ==
  /\ IsSequence(agents) /\ Range(agents) \subseteq Agents
  /\ DOMAIN view = ViewFields
  /\ agents = << >> => view.current = 1
  /\ agents # << >> => view.current \in DOMAIN agents

TasksOk == \A t \in DOMAIN tasks : IsTask(t)

ReportsOk ==
  /\ IsSequence(updates)
  /\ \A q, r \in reply : q = r /\ r.kind # "tail"
  /\ \A r \in reply \cup Range(updates) : IsReport(r)

(* The tail held is the only one and follows the agent on screen.          *)
TailsOk ==
  /\ DOMAIN tails = {"running", "held"}
  /\ IF view.open /\ agents # << >>
     THEN tails.running = {tails.held} /\ IsTail(tails.held, server) /\ tails.held.agent = Current
     ELSE tails.running = {} /\ tails.held = None

StatusOk == view.status # None => view.status.of = Current /\ Current # None

-----------------------------------------------------------------------------
(* Bags, and the view while something is asked for. *)

LEMMA BagAddIs ==
  ASSUME NEW B, NEW x
  PROVE  DOMAIN TaskBag!BagAdd(B, x) = DOMAIN B \cup {x}
BY DEF TaskBag!BagAdd

LEMMA BagRemoveIs ==
  ASSUME NEW B, NEW x
  PROVE  /\ DOMAIN TaskBag!BagRemove(B, x) \subseteq DOMAIN B
         /\ DOMAIN B \ {x} \subseteq DOMAIN TaskBag!BagRemove(B, x)
BY DEF TaskBag!BagRemove

LEMMA BagUnionIs ==
  ASSUME NEW B, NEW C
  PROVE  DOMAIN (B (+) C) = DOMAIN B \cup DOMAIN C
BY DEF (+)

LEMMA FetchesIs ==
  ASSUME NEW agent
  PROVE  DOMAIN Fetches(agent) = IF agent = None THEN {} ELSE {StatusTask(agent)}
BY DEF Fetches, SetToBag, EmptyBag

LEMMA BackfillsIs ==
  ASSUME NEW v, NEW agent
  PROVE  \A t \in DOMAIN Backfills(v, agent) : agent # None /\ t = HistoryTask(agent)
<1>1. CASE v.backfilled \/ agent = None
  BY <1>1 DEF Backfills, SetToBag, EmptyBag
<1>2. CASE ~(v.backfilled \/ agent = None)
  <2>1. Backfills(v, agent) = SetToBag({HistoryTask(agent)})
    BY <1>2 DEF Backfills
  <2>2. DOMAIN Backfills(v, agent) = {HistoryTask(agent)}
    BY <2>1 DEF SetToBag
  <2> QED BY <1>2, <2>2
<1> QED BY <1>1, <1>2

LEMMA ScanIs == \A t \in DOMAIN Scan : t = ScanTask
<1>1. CASE view.scanning
  BY <1>1 DEF Scan, SetToBag, EmptyBag
<1>2. CASE ~view.scanning
  <2>1. Scan = SetToBag({ScanTask})
    BY <1>2 DEF Scan
  <2>2. DOMAIN Scan = {ScanTask}
    BY <2>1 DEF SetToBag
  <2> QED BY <2>2
<1> QED BY <1>1, <1>2

LEMMA FetchIs ==
  ASSUME NEW v, NEW agent, DOMAIN v = ViewFields
  PROVE  LET w == Fetch(v, agent)
         IN  /\ DOMAIN w = ViewFields
             /\ w.open = v.open /\ w.current = v.current /\ w.status = v.status
             /\ w.pending = v.pending
             /\ agent = None => w.loading = v.loading
             /\ agent # None => w.loading
BY DEF Fetch, ViewFields

LEMMA BackfillIs ==
  ASSUME NEW v, DOMAIN v = ViewFields
  PROVE  LET w == Backfill(v)
         IN  /\ DOMAIN w = ViewFields
             /\ w.open = v.open /\ w.current = v.current /\ w.status = v.status
             /\ w.pending = v.pending /\ w.loading = v.loading
BY DEF Backfill, ViewFields

-----------------------------------------------------------------------------
(* Who changes what. *)

LEMMA ServerMoves ==
  ASSUME [Next]_vars
  PROVE  \/ UNCHANGED server
         \/ \E a \in Agents : StartRun(a) \/ Say(a) \/ EndRun(a) \/ GoDown(a) \/ ComeBack(a)
         \/ \E task \in DOMAIN tasks : Exec(task)
<1>1. CASE Keys
  BY <1>1 DEF Keys, Open, Close, Refresh, Select, Enter, Unarm, Cycle, Operate, Other
<1>2. CASE RunTask
  BY <1>2 DEF RunTask, ExecHistory, ExecLog, ExecScan, BagToSet
<1>3. CASE Deliver \/ Follow \/ TickFetch \/ TickTail \/ Apply
  BY <1>3 DEF Deliver, Follow, Hear, TickFetch, TickTail, Apply
<1> QED BY <1>1, <1>2, <1>3 DEF Next, Remote, vars

LEMMA DoesIs ==
  ASSUME NEW s, NEW t, DOMAIN s = AgentFields
  PROVE  LET w == Does(s, t)
         IN  /\ DOMAIN w = AgentFields
             /\ w.up = s.up /\ w.running = s.running /\ w.said = s.said /\ w.since = s.since
             /\ w.ids = s.ids /\ w.history = s.history
             /\ t.verb # "approve" => w.approved \subseteq s.approved
             /\ w.approved \subseteq s.approved \cup {t.host}
<1>1. CASE Refuses(s, t)
  BY <1>1 DEF Does
<1>2. CASE ~Refuses(s, t)
  <2> DEFINE p == IF t.verb = "pause" THEN s.paused \cup {t.host}
                  ELSE IF t.verb = "resume" THEN s.paused \ {t.host} ELSE s.paused
             q == IF t.verb = "approve" THEN s.approved \cup {t.host}
                  ELSE IF t.verb = "revoke" THEN s.approved \ {t.host} ELSE s.approved
  <2>1. Does(s, t) = [s EXCEPT !.paused = p, !.approved = q]
    BY <1>2 DEF Does
  <2>2. q \subseteq s.approved \cup {t.host} /\ (t.verb # "approve" => q \subseteq s.approved)
    OBVIOUS
  <2> HIDE DEF p, q
  <2> QED BY <2>1, <2>2 DEF AgentFields
<1> QED BY <1>1, <1>2

(* What a step of an agent may do.                                         *)
AgentSteps(s, w) == IsAgent(w) /\ s.said <= w.said

LEMMA ServersNext ==
  ASSUME ServersOk, TasksOk, [Next]_vars
  PROVE  ServersOk' /\ \A a \in Agents : server[a].said <= server'[a].said
<1> SUFFICES DOMAIN server' = Agents /\ \A a \in Agents : AgentSteps(server[a], server'[a])
  BY DEF ServersOk, AgentSteps
<1> USE DEF AgentSteps
<1>1. CASE UNCHANGED server
  BY <1>1 DEF ServersOk, IsAgent
<1>2. ASSUME NEW b \in Agents, StartRun(b) \/ Say(b) \/ EndRun(b) \/ ComeBack(b)
      PROVE  DOMAIN server' = Agents /\ \A a \in Agents : AgentSteps(server[a], server'[a])
  <2>1. CASE StartRun(b)
    BY <2>1 DEF ServersOk, IsAgent, StartRun, AgentFields
  <2>2. CASE Say(b)
    BY <2>2 DEF ServersOk, IsAgent, Say, AgentFields
  <2>3. CASE EndRun(b)
    BY <2>3 DEF ServersOk, IsAgent, EndRun, AgentFields
  <2>4. CASE ComeBack(b)
    BY <2>4 DEF ServersOk, IsAgent, ComeBack, AgentFields
  <2> QED BY <1>2, <2>1, <2>2, <2>3, <2>4
<1>3. ASSUME NEW b \in Agents, GoDown(b)
      PROVE  DOMAIN server' = Agents /\ \A a \in Agents : AgentSteps(server[a], server'[a])
  <2>1. PICK unsaved \in {0, 1} :
          server' = [server EXCEPT ![b].up = FALSE, ![b].running = FALSE, ![b].ids = @ - unsaved]
    BY <1>3 DEF GoDown
  <2> QED BY <2>1 DEF ServersOk, IsAgent, AgentFields
<1>4. ASSUME NEW task \in DOMAIN tasks, Exec(task)
      PROVE  DOMAIN server' = Agents /\ \A a \in Agents : AgentSteps(server[a], server'[a])
  <2>1. task.agent \in Agents
    BY <1>4 DEF TasksOk, IsTask, Exec
  <2> DEFINE w == Does(server[task.agent], task)
  <2>2. server' = server \/ server' = [server EXCEPT ![task.agent] = w]
    BY <1>4 DEF Exec
  <2>3. AgentSteps(server[task.agent], w)
    BY <2>1, DoesIs DEF ServersOk, IsAgent
  <2> HIDE DEF w
  <2> QED BY <2>1, <2>2, <2>3 DEF ServersOk, IsAgent
<1> QED BY <1>1, <1>2, <1>3, <1>4, ServerMoves

(* A sequence of a finite set.                                             *)
LEMMA SetToSeqIs ==
  ASSUME NEW S, IsFiniteSet(S)
  PROVE  IsSequence(SetToSeq(S)) /\ Range(SetToSeq(S)) \subseteq S
<1> DEFINE n == Cardinality(S)
<1>1. n \in Nat /\ ExistsBijection(1 .. n, S)
  BY FS_CardinalityType
<1>2. PICK f : f \in Bijection(1 .. n, S)
  BY <1>1 DEF ExistsBijection
<1>3. f \in [1 .. n -> S] /\ \A i, j \in 1 .. n : f[i] = f[j] => i = j
  BY <1>2 DEF Bijection, Injection, IsInjective
<1>4. SetToSeq(S) \in [1 .. n -> S]
  BY <1>3 DEF SetToSeq, IsInjective
<1> DEFINE s == SetToSeq(S)
<1> HIDE DEF s, n
<1>5. s \in Seq(S) /\ DOMAIN s = 1 .. n /\ \A i \in 1 .. n : s[i] \in S
  BY <1>1, <1>4 DEF s
<1>6. Range(s) \subseteq S
  BY <1>5 DEF Range
<1> QED BY <1>5, <1>6 DEF s, IsSequence

LEMMA OpenIs ==
  ASSUME ListOk, Open
  PROVE  /\ UNCHANGED agents /\ ~view.open /\ view'.open
         /\ DOMAIN view' = ViewFields /\ view'.current = view.current
         /\ view'.pending = view.pending /\ view'.status = view.status
         /\ Current # None => view'.loading
         /\ Current = None => view'.loading = view.loading
         /\ Current' = Current
<1>0. DOMAIN view = ViewFields
  BY DEF ListOk
<1> DEFINE shown == [view EXCEPT !.open = TRUE, !.sel = 1]
           w == Fetch(shown, Current)
<1>1. /\ DOMAIN shown = ViewFields /\ shown.current = view.current /\ shown.open
      /\ shown.pending = view.pending /\ shown.status = view.status
      /\ shown.loading = view.loading
  BY <1>0 DEF ViewFields
<1>2. /\ Current # None => view' = Backfill(w)
      /\ Current = None => view' = [shown EXCEPT !.scanning = TRUE]
      /\ UNCHANGED agents /\ ~view.open
  BY DEF Open
<1> HIDE DEF shown
<1>3. /\ DOMAIN w = ViewFields /\ w.current = view.current /\ w.open
      /\ w.pending = view.pending /\ w.status = view.status
      /\ Current # None => w.loading
  BY <1>1, FetchIs
<1> HIDE DEF w
<1>4. /\ DOMAIN view' = ViewFields /\ view'.current = view.current /\ view'.open
      /\ view'.pending = view.pending /\ view'.status = view.status
      /\ Current # None => view'.loading
      /\ Current = None => view'.loading = view.loading
  <2>1. CASE Current # None
    <3>1. view' = Backfill(w)
      BY <1>2, <2>1
    <3> QED BY <1>3, <2>1, <3>1, BackfillIs
  <2>2. CASE Current = None
    BY <1>1, <1>2, <2>2 DEF ViewFields
  <2> QED BY <2>1, <2>2
<1> QED BY <1>2, <1>4 DEF Current

(* What steps that leave the list and the choice of an agent do to the view. *)
ListKept ==
  /\ UNCHANGED agents
  /\ DOMAIN view' = ViewFields /\ view'.current = view.current
  /\ view'.open = view.open \/ Open \/ Close
  /\ view'.pending = view.pending \/ view'.pending = None \/ Enter
  /\ view'.status = view.status \/ (Apply /\ ApplyStatus(Head(updates)))

LEMMA ViewMoves ==
  ASSUME ListOk, [Next]_vars
  PROVE  \/ ListKept
         \/ \E next \in DOMAIN agents : Cycle(next)
         \/ Apply /\ ApplyFound(Head(updates))
<1>0. DOMAIN view = ViewFields
  BY DEF ListOk
<1>1. CASE Remote \/ Deliver \/ Follow \/ TickTail \/ UNCHANGED vars
  BY <1>0, <1>1 DEF Remote, StartRun, Say, EndRun, GoDown, ComeBack, Deliver, Follow, Hear,
                    TickTail, client, vars, ListKept
<1>2. CASE RunTask
  BY <1>0, <1>2 DEF RunTask, Exec, ExecHistory, ExecLog, ExecScan, ListKept
<1>3. CASE TickFetch
  BY <1>0, <1>3, FetchIs DEF TickFetch, ListKept
<1>4. CASE Open
  BY <1>4, OpenIs DEF ListKept
<1>5. CASE Close \/ Select \/ Unarm
  BY <1>0, <1>5 DEF Close, Select, Unarm, ViewFields, ListKept
<1>6. CASE Enter
  <2>1. \E x : view' = [view EXCEPT !.pending = x]
    BY <1>6 DEF Enter
  <2>2. UNCHANGED agents
    BY <1>6 DEF Enter
  <2>3. DOMAIN view' = ViewFields /\ view'.current = view.current /\ view'.open = view.open
        /\ view'.status = view.status
    BY <1>0, <2>1 DEF ViewFields
  <2> QED BY <1>6, <2>2, <2>3 DEF ListKept
<1>7. CASE Refresh
  <2>1. view' = [view EXCEPT !.scanning = TRUE] \/ view' = Fetch(view, Current)
    BY <1>7 DEF Refresh
  <2>2. UNCHANGED agents
    BY <1>7 DEF Refresh
  <2>3. DOMAIN view' = ViewFields /\ view'.current = view.current /\ view'.open = view.open
        /\ view'.status = view.status /\ view'.pending = view.pending
    <3>1. CASE view' = [view EXCEPT !.scanning = TRUE]
      BY <1>0, <3>1 DEF ViewFields
    <3>2. CASE view' = Fetch(view, Current)
      BY <1>0, <3>2, FetchIs
    <3> QED BY <2>1, <3>1, <3>2
  <2> QED BY <2>2, <2>3 DEF ListKept
<1>8. CASE \E op \in {"kick", "cancel", "host", "agent"} : Operate(op)
  BY <1>0, <1>8 DEF Operate, ListKept
<1>9. CASE Apply /\ ~ApplyFound(Head(updates))
  <2> DEFINE report == Head(updates)
  <2>1. \/ ApplyStatus(report) \/ ApplyOp(report) \/ ApplyTail(report)
        \/ ApplyBackfill(report)
    BY <1>9 DEF Apply
  <2>2. CASE ApplyStatus(report)
    <3> DEFINE w == Answered(report)
    <3>1. /\ DOMAIN w = ViewFields /\ w.current = view.current /\ w.open = view.open
          /\ w.pending = view.pending
      BY <1>0 DEF Answered, ViewFields
    <3>2. view' = w /\ UNCHANGED agents
      BY <2>2 DEF ApplyStatus
    <3> HIDE DEF w
    <3> QED BY <1>9, <2>2, <3>1, <3>2 DEF ListKept, Apply
  <2>3. CASE ApplyOp(report)
    BY <1>0, <2>3, FetchIs DEF ApplyOp, ListKept
  <2>4. CASE ApplyTail(report) \/ ApplyBackfill(report)
    BY <1>0, <2>4 DEF ApplyTail, ApplyBackfill, ListKept
  <2> QED BY <2>1, <2>2, <2>3, <2>4
<1> QED BY <1>1, <1>2, <1>3, <1>4, <1>5, <1>6, <1>7, <1>8, <1>9 DEF Next, Keys

LEMMA ApplyIs ==
  ASSUME Apply
  PROVE  updates # << >> /\ updates' = Tail(updates) /\ UNCHANGED << server, reply, budget, warned >>
BY DEF Apply

LEMMA HeadIsReport ==
  ASSUME ReportsOk, updates # << >>
  PROVE  IsReport(Head(updates))
BY TailIs DEF ReportsOk

LEMMA AgentIsCurrent ==
  ASSUME ListOk
  PROVE  /\ agents # << >> => Current \in Agents
         /\ agents = << >> => Current = None
         /\ \A i \in DOMAIN agents : agents[i] \in Agents
<1>1. \A i \in DOMAIN agents : agents[i] \in Agents
  BY DEF ListOk, Range
<1> QED BY <1>1 DEF ListOk, Current

LEMMA NoneIsEmpty ==
  ASSUME NEW s, IsSequence(s)
  PROVE  s = << >> <=> Len(s) = 0
<1>1. PICK S : s \in Seq(S)
  BY DEF IsSequence
<1> QED BY <1>1

(* What the list grows by, and whose agent is shown then.                  *)
NewOf(report) == SetToSeq(report.agents \ Range(agents))

FirstOf(report) == IF agents = << >> /\ NewOf(report) # << >> THEN NewOf(report)[1] ELSE Current

LEMMA FoundIs ==
  ASSUME ListOk, NEW report, IsReport(report), ApplyFound(report)
  PROVE  /\ ListOk' /\ agents' = agents \o NewOf(report)
         /\ Current' = FirstOf(report)
         /\ agents # << >> => Current' = Current /\ agents' # << >>
         /\ NewOf(report) = << >> => agents' = agents /\ Current' = Current
         /\ NewOf(report) # << >> => agents' # << >>
         /\ view'.open = view.open /\ view'.status = view.status /\ view'.pending = view.pending
<1> DEFINE new == NewOf(report)
           seen == [view EXCEPT !.scanning = FALSE]
<1>1. IsSequence(new) /\ Range(new) \subseteq Agents
  <2>1. IsFiniteSet(report.agents \ Range(agents)) /\ report.agents \subseteq Agents
    BY AgentsAssumption, FS_Subset DEF IsReport, ApplyFound
  <2> QED BY <2>1, SetToSeqIs DEF NewOf
<1>2. agents' = agents \o new
  BY DEF ApplyFound, NewOf
<1>3. /\ view' = seen \/ view' = Fetch(seen, FirstOf(report))
      /\ DOMAIN seen = ViewFields /\ seen.current = view.current /\ seen.open = view.open
      /\ seen.status = view.status /\ seen.pending = view.pending
  <2>1. DOMAIN view = ViewFields
    BY DEF ListOk
  <2> QED BY <2>1 DEF ApplyFound, NewOf, FirstOf, ViewFields
<1> HIDE DEF new, seen
<1>4. /\ DOMAIN view' = ViewFields /\ view'.current = view.current
      /\ view'.open = view.open /\ view'.status = view.status /\ view'.pending = view.pending
  BY <1>3, FetchIs
<1>5. IsSequence(agents) /\ Range(agents) \subseteq Agents
  BY DEF ListOk
<1>6. /\ IsSequence(agents') /\ Range(agents') \subseteq Agents
      /\ Len(agents') = Len(agents) + Len(new) /\ Len(agents) \in Nat /\ Len(new) \in Nat
      /\ DOMAIN agents' = 1 .. Len(agents) + Len(new) /\ DOMAIN agents = 1 .. Len(agents)
      /\ \A i \in 1 .. Len(agents) : agents'[i] = agents[i]
      /\ \A i \in Len(agents) + 1 .. Len(agents) + Len(new) : agents'[i] = new[i - Len(agents)]
  BY <1>1, <1>2, <1>5, ConcatIs, SequenceIs
<1>7. /\ agents = << >> <=> Len(agents) = 0 
      /\ new = << >> <=> Len(new) = 0
      /\ agents' = << >> <=> Len(agents') = 0
  BY <1>1, <1>5, <1>6, NoneIsEmpty
<1>8. CASE agents # << >>
  <2>1. Len(agents) # 0 /\ Len(agents') # 0 /\ agents' # << >>
    BY <1>6, <1>7, <1>8
  <2>2. view.current \in 1 .. Len(agents)
    BY <1>6, <1>8 DEF ListOk
  <2>3. view'.current \in DOMAIN agents' /\ agents'[view'.current] = agents[view.current]
    BY <1>4, <1>6, <2>2
  <2>4. Current' = Current
    BY <1>6, <2>2, <2>3 DEF Current
  <2>5. FirstOf(report) = Current
    BY <1>8 DEF FirstOf
  <2>6. ListOk'
    BY <1>4, <1>6, <2>1, <2>3 DEF ListOk
  <2>7. ASSUME new = << >> PROVE agents' = agents
    <3>1. Len(new) = 0 /\ DOMAIN agents' = 1 .. Len(agents)
      BY <1>6, <1>7, <2>7
    <3>2. PICK S, T : agents \in Seq(S) /\ agents' \in Seq(T)
      BY <1>5, <1>6 DEF IsSequence
    <3>3. agents = [i \in 1 .. Len(agents) |-> agents[i]] 
      BY <3>2
    <3>4. agents' = [i \in 1 .. Len(agents) |-> agents'[i]] 
      BY <3>1, <3>2
    <3> QED BY <1>6, <3>3, <3>4
  <2> QED BY <1>2, <1>4, <1>8, <2>1, <2>4, <2>5, <2>6, <2>7 DEF new
<1>9. CASE agents = << >> /\ new # << >>
  <2>1. Len(agents) = 0 /\ Len(new) # 0 /\ agents' # << >> /\ view.current = 1
    BY <1>6, <1>7, <1>9 DEF ListOk
  <2>2. 1 \in DOMAIN agents' /\ agents'[1] = new[1]
    <3>1. 1 \in Len(agents) + 1 .. Len(agents) + Len(new) /\ 1 - Len(agents) = 1
      BY <1>6, <2>1
    <3>2. agents'[1] = new[1 - Len(agents)]
      BY <1>6, <3>1
    <3>3. 1 \in 1 .. Len(agents) + Len(new)
      BY <1>6, <2>1
    <3> QED BY <1>6, <3>1, <3>2, <3>3
  <2>3. Current' = new[1]
    BY <1>4, <2>1, <2>2 DEF Current
  <2>4. FirstOf(report) = new[1]
    BY <1>9 DEF FirstOf, new
  <2>5. ListOk'
    BY <1>4, <1>6, <2>1, <2>2 DEF ListOk
  <2> QED BY <1>2, <1>4, <1>9, <2>1, <2>3, <2>4, <2>5 DEF new
<1>10. CASE agents = << >> /\ new = << >>
  <2>1. Len(agents) = 0 /\ Len(new) = 0 /\ Len(agents') = 0 /\ agents' = << >>
    BY <1>6, <1>7, <1>10
  <2>2. Current' = None /\ Current = None
    <3>1. DOMAIN agents = {} /\ DOMAIN agents' = {}
      BY <1>6, <2>1
    <3> QED BY <3>1 DEF Current
  <2>3. FirstOf(report) = Current
    BY <1>10 DEF FirstOf, new
  <2>4. view'.current = 1
    BY <1>4, <1>10 DEF ListOk
  <2>5. ListOk'
    BY <1>4, <1>6, <2>1, <2>4 DEF ListOk
  <2> QED BY <1>2, <1>4, <1>10, <2>1, <2>2, <2>3, <2>5 DEF new
<1> QED BY <1>8, <1>9, <1>10

LEMMA FirstIs ==
  ASSUME ListOk, NEW report, IsReport(report), ApplyFound(report)
  PROVE  FirstOf(report) \in Agents \cup {None}
<1>1. ListOk' /\ Current' = FirstOf(report)
  BY FoundIs
<1>2. Range(agents') \subseteq Agents
  BY <1>1 DEF ListOk
<1>3. Current' \in Range(agents') \cup {None}
  BY DEF Current, Range
<1> QED BY <1>1, <1>2, <1>3

LEMMA CycledIs ==
  ASSUME DOMAIN view = ViewFields, NEW next
  PROVE  LET w == Cycled(next)
         IN  /\ DOMAIN w = ViewFields /\ w.current = next /\ w.open = view.open
             /\ w.status = None /\ w.pending = view.pending /\ w.loading = view.loading
BY DEF Cycled, ViewFields

LEMMA CycleIs ==
  ASSUME ListOk, NEW next \in DOMAIN agents, Cycle(next)
  PROVE  /\ ListOk' /\ UNCHANGED agents /\ agents # << >> /\ Current' = agents[next]
         /\ agents[next] \in Agents /\ view.open /\ view'.open /\ view'.open = view.open
         /\ view'.status = None /\ view'.pending = view.pending
<1>1. DOMAIN view = ViewFields /\ UNCHANGED agents
  BY DEF ListOk, Cycle
<1> DEFINE c == Cycled(next)
<1>2. view' = Fetch(Backfill(c), agents[next])
  BY DEF Cycle
<1>3. /\ DOMAIN c = ViewFields /\ c.current = next /\ c.open = view.open
      /\ c.status = None /\ c.pending = view.pending
  BY <1>1, CycledIs
<1> HIDE DEF c
<1>4. /\ DOMAIN view' = ViewFields /\ view'.current = next /\ view'.open = view.open
      /\ view'.status = None /\ view'.pending = view.pending
  BY <1>2, <1>3, FetchIs, BackfillIs
<1>5. agents # << >>
  BY EmptySequence, SequenceIs DEF ListOk
<1>6. ListOk'
  BY <1>1, <1>4, <1>5 DEF ListOk
<1>7. Current' = agents[next]
  BY <1>1, <1>4 DEF Current
<1>8. view'.open = view.open
  BY <1>4
<1> QED BY <1>1, <1>4, <1>5, <1>6, <1>7, <1>8, AgentIsCurrent DEF Cycle

LEMMA ListNext ==
  ASSUME ListOk, ReportsOk, [Next]_vars
  PROVE  ListOk'
<1>1. CASE ListKept
  BY <1>1 DEF ListOk, ListKept
<1>2. CASE \E next \in DOMAIN agents : Cycle(next)
  BY <1>2, CycleIs
<1>3. CASE Apply /\ ApplyFound(Head(updates))
  BY <1>3, FoundIs, HeadIsReport, ApplyIs
<1> QED BY <1>1, <1>2, <1>3, ViewMoves

-----------------------------------------------------------------------------
(* The tail. *)

LEMMA StopTailIs ==
  ASSUME tails.running \subseteq {tails.held}
  PROVE  StopTail.running = {} /\ StopTail.held = None /\ DOMAIN StopTail = {"running", "held"}
BY DEF StopTail

LEMMA StartTailIs ==
  ASSUME tails.running \subseteq {tails.held}, ServersOk, NEW a, a \in Agents
  PROVE  LET w == StartTail(a)
         IN  /\ DOMAIN w = {"running", "held"} /\ w.running = {w.held}
             /\ DOMAIN w.held = {"agent", "at"} /\ w.held.agent = a
             /\ w.held.at = IF server[a].up THEN server[a].said ELSE None
             /\ IsTail(w.held, server)
<1> DEFINE tail == [agent |-> a, at |-> IF server[a].up THEN server[a].said ELSE None]
<1>1. a # None
  BY AgentsAssumption
<1>2. StartTail(a) = [running |-> {tail}, held |-> tail]
  BY <1>1, StopTailIs DEF StartTail, Subscribe
<1>3. server[a].said \in Nat
  BY DEF ServersOk, IsAgent
<1>4. IsTail(tail, server)
  <2>1. /\ DOMAIN tail = {"agent", "at"} /\ tail.agent = a
        /\ tail.at = IF server[a].up THEN server[a].said ELSE None
    OBVIOUS
  <2> HIDE DEF tail
  <2> QED BY <1>3, <2>1 DEF IsTail
<1>5. /\ DOMAIN tail = {"agent", "at"} /\ tail.agent = a
      /\ tail.at = IF server[a].up THEN server[a].said ELSE None
  OBVIOUS
<1> HIDE DEF tail
<1> QED BY <1>2, <1>4, <1>5

LEMMA TailMoves ==
  ASSUME ListOk, [Next]_vars
  PROVE  \/ UNCHANGED tails /\ ListKept /\ view'.open = view.open /\ Current' = Current
         \/ Open \/ Close
         \/ \E next \in DOMAIN agents : Cycle(next)
         \/ \E a \in Agents : GoDown(a)
         \/ \E tail \in tails.running : Hear(tail)
         \/ TickTail
         \/ Apply /\ ApplyFound(Head(updates))
<1>1. \/ UNCHANGED tails
      \/ Open \/ Close
      \/ \E next \in DOMAIN agents : Cycle(next)
      \/ \E a \in Agents : GoDown(a)
      \/ \E tail \in tails.running : Hear(tail)
      \/ TickTail
      \/ Apply /\ ApplyFound(Head(updates))
  <2>1. CASE Remote \/ Deliver \/ Follow \/ TickTail \/ TickFetch \/ UNCHANGED vars
    BY <2>1 DEF Remote, StartRun, Say, EndRun, ComeBack, Deliver, Follow, TickFetch, client, vars
  <2>2. CASE RunTask
    BY <2>2 DEF RunTask, Exec, ExecHistory, ExecLog, ExecScan
  <2>3. CASE Keys
    BY <2>3 DEF Keys, Refresh, Select, Enter, Unarm, Operate
  <2>4. CASE Apply
    BY <2>4 DEF Apply, ApplyStatus, ApplyOp, ApplyTail, ApplyBackfill
  <2> QED BY <2>1, <2>2, <2>3, <2>4 DEF Next
<1>2. ListKept => Current' = Current
  BY DEF ListKept, Current
<1> QED BY <1>1, <1>2, ViewMoves DEF ListKept

LEMMA TailsNext ==
  ASSUME ListOk, ServersOk, TasksOk, ReportsOk, TailsOk, StatusOk, [Next]_vars
  PROVE  TailsOk'
<1>0. /\ DOMAIN server' = Agents
      /\ \A a \in Agents : server[a].said <= server'[a].said /\ server[a].said \in Nat
                           /\ server'[a].said \in Nat
  BY ServersNext DEF ServersOk, IsAgent
<1> DEFINE Tailed == view.open /\ agents # << >>
<1>a. ASSUME NEW t, IsTail(t, server)
      PROVE  IsTail(t, server')
  BY <1>0, <1>a DEF IsTail
<1>b. tails.running \subseteq {tails.held}
  BY DEF TailsOk
<1>1. CASE UNCHANGED tails /\ ListKept /\ view'.open = view.open /\ Current' = Current
  <2>1. UNCHANGED agents
    BY <1>1 DEF ListKept
  <2>2. CASE Tailed
    <3>1. IsTail(tails.held, server) /\ tails.held.agent \in Agents
      BY <2>2 DEF TailsOk, IsTail
    <3>2. IsTail(tails.held, server)'
      BY <1>0, <1>1, <3>1 DEF IsTail
    <3> QED BY <1>1, <2>1, <2>2, <3>2 DEF TailsOk
  <2>3. CASE ~Tailed
    BY <1>1, <2>1, <2>3 DEF TailsOk
  <2> QED BY <2>2, <2>3
<1>2. CASE Open
  <2>1. ~view.open /\ tails.held = None /\ tails.running = {}
    BY <1>2 DEF Open, TailsOk
  <2>2. /\ UNCHANGED agents /\ UNCHANGED server
        /\ Current # None => tails' = StartTail(Current)
        /\ Current = None => UNCHANGED tails
    BY <1>2 DEF Open, Other
  <2>3. Current' = Current /\ view'.open
    BY <1>2, OpenIs
  <2>4. CASE agents # << >>
    <3>1. Current \in Agents /\ Current # None
      BY <2>4, AgentIsCurrent, AgentsAssumption
    <3> DEFINE w == StartTail(Current)
    <3>2. /\ DOMAIN w = {"running", "held"} /\ w.running = {w.held} /\ w.held.agent = Current
          /\ IsTail(w.held, server)
      BY <1>b, <3>1, StartTailIs
    <3>3. tails' = w
      BY <2>2, <3>1
    <3> HIDE DEF w
    <3> QED BY <2>2, <2>3, <2>4, <3>2, <3>3 DEF TailsOk
  <2>5. CASE agents = << >>
    <3>1. Current = None
      BY <2>5, AgentIsCurrent
    <3> QED BY <2>1, <2>2, <2>5, <3>1 DEF TailsOk
  <2> QED BY <2>4, <2>5
<1>3. CASE Close
  <2>1. DOMAIN view = ViewFields
    BY DEF ListOk
  <2>2. ~view'.open
    BY <1>3, <2>1 DEF Close, ViewFields
  <2>3. tails' = StopTail
    BY <1>3 DEF Close
  <2> QED BY <1>b, <2>2, <2>3, StopTailIs DEF TailsOk
(* A tail started for the agent shown.                                     *)
<1>c. ASSUME NEW a \in Agents, tails' = StartTail(a), UNCHANGED server,
             view'.open, agents' # << >>, Current' = a
      PROVE  TailsOk'
  <2> DEFINE w == StartTail(a)
  <2>1. /\ DOMAIN w = {"running", "held"} /\ w.running = {w.held} /\ w.held.agent = a
        /\ IsTail(w.held, server)
    BY <1>b, StartTailIs
  <2>2. tails' = w
    BY <1>c
  <2> HIDE DEF w
  <2> QED BY <1>c, <2>1, <2>2 DEF TailsOk
<1>4. ASSUME NEW next \in DOMAIN agents, Cycle(next) PROVE TailsOk'
  <2>1. tails' = StartTail(agents[next]) /\ UNCHANGED server
    BY <1>4 DEF Cycle, Other
  <2> QED BY <1>4, <1>c, <2>1, CycleIs
<1>5. ASSUME NEW a \in Agents, GoDown(a) PROVE TailsOk'
  <2> DEFINE Cut(t) == IF t # None /\ t.agent = a THEN [t EXCEPT !.at = None] ELSE t
  <2>1. /\ tails' = [running |-> {Cut(t) : t \in tails.running}, held |-> Cut(tails.held)]
        /\ UNCHANGED << agents, view >>
    BY <1>5 DEF GoDown
  <2>2. Current' = Current
    BY <2>1 DEF Current
  <2>3. CASE Tailed
    <3>1. IsTail(tails.held, server) /\ tails.held.agent = Current /\ tails.running = {tails.held}
      BY <2>3 DEF TailsOk
    <3> DEFINE h == Cut(tails.held)
    <3>2. IsTail(h, server) /\ h.agent = Current
      BY <3>1 DEF IsTail
    <3>3. tails'.held = h /\ tails'.running = {h} /\ DOMAIN tails' = {"running", "held"}
      BY <2>1, <3>1
    <3> HIDE DEF h
    <3>4. IsTail(h, server')
      BY <1>a, <3>2
    <3> QED BY <2>1, <2>2, <2>3, <3>2, <3>3, <3>4 DEF TailsOk
  <2>4. CASE ~Tailed
    <3>1. tails.running = {} /\ tails.held = None
      BY <2>4 DEF TailsOk
    <3> QED BY <2>1, <2>4, <3>1 DEF TailsOk
  <2> QED BY <2>3, <2>4
<1>6. ASSUME NEW tail \in tails.running, Hear(tail) PROVE TailsOk'
  <2>1. Tailed /\ tail = tails.held /\ IsTail(tail, server) /\ tail.agent = Current
        /\ tails.running = {tails.held}
    BY <1>6 DEF TailsOk
  <2>2. PICK n \in tail.at + 1 .. server[tail.agent].said :
          LET heard == [tail EXCEPT !.at = n]
          IN  tails' = [running |-> (tails.running \ {tail}) \cup {heard},
                        held |-> IF tails.held = tail THEN heard ELSE tails.held]
    BY <1>6 DEF Hear
  <2>3. UNCHANGED << server, agents, view >>
    BY <1>6 DEF Hear
  <2> DEFINE heard == [tail EXCEPT !.at = n]
  <2>4. tails'.running = {heard} /\ tails'.held = heard /\ DOMAIN tails' = {"running", "held"}
    BY <2>1, <2>2
  <2>5. IsTail(heard, server) /\ heard.agent = Current
    <3>1. tail.at \in Nat
      BY <1>6, <2>1 DEF Hear, IsTail
    <3>2. n \in Nat /\ n <= server[tail.agent].said
      BY <1>0, <2>1, <3>1 DEF IsTail
    <3> QED BY <2>1, <3>2 DEF IsTail
  <2> HIDE DEF heard
  <2>6. Current' = Current
    BY <2>3 DEF Current
  <2> QED BY <2>1, <2>3, <2>4, <2>5, <2>6 DEF TailsOk
<1>7. CASE TickTail
  <2>1. UNCHANGED << server, agents, view >> /\ tails' = StartTail(Current)
        /\ view.open /\ tails.held # None
    BY <1>7 DEF TickTail, TailDue
  <2>2. agents # << >> /\ Current \in Agents
    BY <2>1, AgentIsCurrent DEF TailsOk
  <2>3. Current' = Current
    BY <2>1 DEF Current
  <2> QED BY <1>c, <2>1, <2>2, <2>3
<1>8. ASSUME Apply, ApplyFound(Head(updates)) PROVE TailsOk'
  <2> DEFINE report == Head(updates)
  <2>1. IsReport(report) /\ ApplyFound(report) /\ UNCHANGED server
    BY <1>8, HeadIsReport, ApplyIs
  <2> HIDE DEF report
  <2>2. /\ ListOk' /\ Current' = FirstOf(report)
        /\ agents # << >> => Current' = Current /\ agents' # << >>
        /\ NewOf(report) = << >> => agents' = agents /\ Current' = Current
        /\ view'.open = view.open
    BY <2>1, FoundIs
  <2> DEFINE shown == NewOf(report) # << >> /\ view.open /\ view.status = None
  <2>3. /\ shown => tails' = StartTail(FirstOf(report))
        /\ ~shown => UNCHANGED tails
    BY <2>1 DEF ApplyFound, NewOf, FirstOf
  <2>4. CASE shown
    <3>1. agents' # << >>
      BY <2>1, <2>4, FoundIs
    <3>2. Current' \in Agents
      <4>1. Range(agents') \subseteq Agents /\ view'.current \in DOMAIN agents'
        BY <2>2, <3>1 DEF ListOk
      <4>2. Current' = agents'[view'.current]
        BY <4>1 DEF Current
      <4> QED BY <4>1, <4>2 DEF Range
    <3> QED BY <1>c, <2>1, <2>2, <2>3, <2>4, <3>1, <3>2
  <2>5. CASE ~shown
    <3>1. \/ Current' = Current /\ agents' # << >> /\ Tailed
          \/ agents' = agents /\ Current' = Current
          \/ ~view.open
      <4>1. view.status # None => agents # << >>
        BY AgentIsCurrent DEF StatusOk
      <4> QED BY <2>2, <2>5, <4>1
    <3>2. UNCHANGED << server, tails >> /\ view'.open = view.open
      BY <2>1, <2>2, <2>3, <2>5
    <3> QED BY <3>1, <3>2 DEF TailsOk
  <2> QED BY <2>4, <2>5
<1> QED BY <1>1, <1>2, <1>3, <1>4, <1>5, <1>6, <1>7, <1>8, TailMoves

-----------------------------------------------------------------------------
(* The status on screen. *)

LEMMA AnsweredIs ==
  ASSUME DOMAIN view = ViewFields, NEW report
  PROVE  LET w == Answered(report)
         IN  /\ DOMAIN w = ViewFields /\ w.current = view.current /\ w.open = view.open
             /\ w.pending = view.pending
             /\ report.agent # Current => w = view
             /\ report.agent = Current => ~w.loading
             /\ w.status = view.status \/ (w.status.of = report.agent /\ report.agent = Current)
<1>1. CASE report.agent # Current
  BY <1>1 DEF Answered
<1>2. CASE report.agent = Current /\ report.result = None
  <2>1. Answered(report) = [view EXCEPT !.loading = FALSE, !.error = TRUE]
    BY <1>2 DEF Answered
  <2> QED BY <1>2, <2>1 DEF ViewFields
<1>3. CASE report.agent = Current /\ report.result # None
  <2> DEFINE item == [of |-> report.agent, said |-> report.result]
  <2>1. Answered(report) = [view EXCEPT !.loading = FALSE, !.error = FALSE, !.status = item]
    BY <1>3 DEF Answered
  <2>2. item.of = report.agent
    OBVIOUS
  <2> HIDE DEF item
  <2> QED BY <1>3, <2>1, <2>2 DEF ViewFields
<1> QED BY <1>1, <1>2, <1>3

LEMMA StatusNext ==
  ASSUME ListOk, ReportsOk, StatusOk, [Next]_vars
  PROVE  StatusOk'
<1>1. CASE ListKept /\ view'.status = view.status
  BY <1>1 DEF ListKept, StatusOk, Current
<1>2. CASE ListKept /\ Apply /\ ApplyStatus(Head(updates))
  <2> DEFINE report == Head(updates)
  <2>1. IsReport(report) /\ ApplyStatus(report)
    BY <1>2, HeadIsReport, ApplyIs
  <2> HIDE DEF report
  <2>2. view' = Answered(report) /\ report.agent \in Agents
    BY <2>1 DEF ApplyStatus, IsReport
  <2>3. view'.status = view.status \/ (view'.status.of = report.agent /\ report.agent = Current)
    BY <2>2, AnsweredIs DEF ListOk
  <2>4. Current' = Current
    BY <1>2 DEF ListKept, Current
  <2> QED BY <2>2, <2>3, <2>4, AgentsAssumption DEF StatusOk
<1>3. CASE \E next \in DOMAIN agents : Cycle(next)
  BY <1>3, CycleIs DEF StatusOk
<1>4. CASE Apply /\ ApplyFound(Head(updates))
  <2> DEFINE report == Head(updates)
  <2>1. IsReport(report) /\ ApplyFound(report)
    BY <1>4, HeadIsReport, ApplyIs
  <2> HIDE DEF report
  <2>2. /\ agents # << >> => Current' = Current
        /\ view'.status = view.status
    BY <2>1, FoundIs
  <2> QED BY <2>2, AgentIsCurrent DEF StatusOk
<1> QED BY <1>1, <1>2, <1>3, <1>4, ViewMoves DEF ListKept

-----------------------------------------------------------------------------
(* The tasks. *)

(* What a backfill asks for next, and what it has.                         *)
Fetched(task, runs, lines) ==
  \/ /\ ExecHistory(task) /\ lines = << >>
     /\ runs = << >> \/ runs = History(server[task.agent])
  \/ /\ ExecLog(task) /\ runs = Tail(task.runs)
     /\ \E fetched : /\ fetched = << >> \/ fetched = RunLog(server[task.agent], Head(task.runs))
                     /\ lines = fetched \o task.lines

LEMMA FetchedIs ==
  ASSUME NEW task, ExecHistory(task) \/ ExecLog(task)
  PROVE  /\ \E runs, lines : Backfilling(task, runs, lines) /\ Fetched(task, runs, lines)
         /\ reply = {} /\ UNCHANGED updates
<1>1. CASE ExecHistory(task)
  <2>1. PICK answered \in BOOLEAN :
          Backfilling(task, IF answered THEN History(server[task.agent]) ELSE << >>, << >>)
    BY <1>1 DEF ExecHistory
  <2>2. Fetched(task, IF answered THEN History(server[task.agent]) ELSE << >>, << >>)
    BY <1>1 DEF Fetched
  <2>3. reply = {} /\ UNCHANGED updates
    BY <1>1 DEF ExecHistory
  <2> QED BY <2>1, <2>2, <2>3
<1>2. CASE ExecLog(task)
  <2>1. PICK answered \in BOOLEAN :
          LET fetched == IF answered THEN RunLog(server[task.agent], Head(task.runs)) ELSE << >>
          IN  Backfilling(task, Tail(task.runs), fetched \o task.lines)
    BY <1>2 DEF ExecLog, Collected
  <2> DEFINE fetched == IF answered THEN RunLog(server[task.agent], Head(task.runs)) ELSE << >>
  <2>2. fetched = << >> \/ fetched = RunLog(server[task.agent], Head(task.runs))
    OBVIOUS
  <2>3. Backfilling(task, Tail(task.runs), fetched \o task.lines)
    BY <2>1
  <2> HIDE DEF fetched
  <2>4. Fetched(task, Tail(task.runs), fetched \o task.lines)
    BY <1>2, <2>2 DEF Fetched
  <2>5. reply = {} /\ UNCHANGED updates
    BY <1>2 DEF ExecLog
  <2> QED BY <2>3, <2>4, <2>5
<1> QED BY <1>1, <1>2

NewTask(t) ==
  \/ t.verb = "scan"
  \/ /\ t.agent \in Agents
     /\ t.verb \in {"status", "history", "kick", "cancel", "pause", "resume", "revoke"}
  \/ /\ t.agent \in Agents /\ t.verb = "approve"
     /\ t.host = view.pending /\ view.pending # None
  \/ /\ t.verb = "log" /\ t.runs # << >>
     /\ \E task \in DOMAIN tasks : t.agent = task.agent /\ Fetched(task, t.runs, t.lines)

Executed(t) == Exec(t) \/ ExecHistory(t) \/ ExecLog(t) \/ ExecScan(t)

(* What is asked for is of the agent shown.                                *)
LEMMA AsksNew ==
  ASSUME NEW a, a \in Agents \cup {None}, NEW v
  PROVE  /\ \A t \in DOMAIN Fetches(a) : NewTask(t)
         /\ \A t \in DOMAIN Backfills(v, a) : NewTask(t)
         /\ \A t \in DOMAIN Scan : NewTask(t)
<1>1. \A t \in DOMAIN Fetches(a) : NewTask(t)
  <2>1. CASE a = None
    BY <2>1, FetchesIs
  <2>2. CASE a # None
    <3>1. DOMAIN Fetches(a) = {StatusTask(a)}
      BY <2>2, FetchesIs
    <3> QED BY <2>2, <3>1 DEF NewTask, StatusTask
  <2> QED BY <2>1, <2>2
<1>2. \A t \in DOMAIN Backfills(v, a) : NewTask(t)
  BY BackfillsIs DEF NewTask, HistoryTask
<1>3. \A t \in DOMAIN Scan : NewTask(t)
  BY ScanIs DEF NewTask, ScanTask
<1> QED BY <1>1, <1>2, <1>3

LEMMA SelectedIs ==
  ASSUME ListOk, StatusOk, Selected # None
  PROVE  Current \in Agents
<1>1. view.status # None
  BY DEF Selected, HostRows
<1> QED BY <1>1, AgentIsCurrent DEF StatusOk

LEMMA TaskMoves ==
  ASSUME ListOk, StatusOk, ReportsOk, TasksOk, [Next]_vars
  PROVE  /\ \A t \in DOMAIN tasks' : t \in DOMAIN tasks \/ NewTask(t)
         /\ \A t \in DOMAIN tasks : t \in DOMAIN tasks' \/ Executed(t)
<1> DEFINE Moves == /\ \A t \in DOMAIN tasks' : t \in DOMAIN tasks \/ NewTask(t)
                    /\ \A t \in DOMAIN tasks : t \in DOMAIN tasks' \/ Executed(t)
<1>0. Current \in Agents \cup {None}
  BY AgentIsCurrent
<1>a. ASSUME NEW B, \A t \in DOMAIN B : NewTask(t), tasks' = tasks (+) B
      PROVE  Moves
  <2>1. DOMAIN tasks' = DOMAIN tasks \cup DOMAIN B
    BY <1>a, BagUnionIs
  <2> QED BY <1>a, <2>1
<1>b. ASSUME NEW B, NEW C, \A t \in DOMAIN B \cup DOMAIN C : NewTask(t),
             tasks' = tasks (+) B (+) C
      PROVE  Moves
  <2>1. DOMAIN (tasks (+) B) = DOMAIN tasks \cup DOMAIN B
    BY BagUnionIs
  <2>2. DOMAIN tasks' = DOMAIN (tasks (+) B) \cup DOMAIN C
    BY <1>b, BagUnionIs
  <2> QED BY <1>b, <2>1, <2>2
<1>c. ASSUME NEW x, NewTask(x), tasks' = TaskBag!BagAdd(tasks, x)
      PROVE  Moves
  <2>1. DOMAIN tasks' = DOMAIN tasks \cup {x}
    BY <1>c, BagAddIs
  <2> QED BY <1>c, <2>1
<1>1. CASE UNCHANGED tasks
  BY <1>1
<1>2. CASE Open \/ Refresh
  <2>1. \/ tasks' = tasks (+) Fetches(Current) (+) Backfills(view, Current)
        \/ tasks' = tasks (+) Fetches(Current)
        \/ tasks' = tasks (+) Scan
    BY <1>2 DEF Open, Refresh
  <2> QED BY <1>0, <1>a, <1>b, <2>1, AsksNew
<1>3. ASSUME NEW next \in DOMAIN agents, Cycle(next) PROVE Moves
  <2>1. /\ tasks' = tasks (+) Backfills(Cycled(next), agents[next]) (+) Fetches(agents[next])
        /\ agents[next] \in Agents
    BY <1>3, CycleIs DEF Cycle
  <2> QED BY <1>b, <2>1, AsksNew
<1>4. CASE TickFetch
  <2>1. tasks' = tasks (+) Fetches(Current)
    BY <1>4 DEF TickFetch
  <2> QED BY <1>0, <1>a, <2>1, AsksNew
<1>5. ASSUME NEW op \in {"kick", "cancel", "host", "agent"}, Operate(op) PROVE Moves
  <2>1. \E verb \in {"kick", "cancel", "pause", "resume"} : \E host, args :
          tasks' = TaskBag!BagAdd(tasks, OpTask(Current, verb, host, args))
    BY <1>5 DEF Operate
  <2>a. PICK verb \in {"kick", "cancel", "pause", "resume"} : \E host, args :
          tasks' = TaskBag!BagAdd(tasks, OpTask(Current, verb, host, args))
    BY <2>1
  <2>b. PICK host, args : tasks' = TaskBag!BagAdd(tasks, OpTask(Current, verb, host, args))
    BY <2>a
  <2> DEFINE t == OpTask(Current, verb, host, args)
  <2>2. Current \in Agents
    BY <1>0, <1>5 DEF Operate
  <2>3. NewTask(t)
    BY <2>2 DEF NewTask, OpTask
  <2>4. tasks' = TaskBag!BagAdd(tasks, t)
    BY <2>b
  <2> HIDE DEF t
  <2> QED BY <1>c, <2>3, <2>4
<1>6. CASE Enter
  <2>1. Current \in Agents
    BY <1>6, SelectedIs DEF Enter
  <2>2. NewTask(EnterTask("revoke"))
    BY <2>1 DEF NewTask, EnterTask, OpTask
  <2>3. Armed(Selected) => NewTask(EnterTask("approve"))
    BY <1>6, <2>1 DEF NewTask, EnterTask, OpTask, Armed, Enter
  <2>4. \/ tasks' = TaskBag!BagAdd(tasks, EnterTask("revoke"))
        \/ Armed(Selected) /\ tasks' = TaskBag!BagAdd(tasks, EnterTask("approve"))
        \/ tasks' = tasks
    BY <1>6 DEF Enter
  <2> QED BY <1>c, <2>2, <2>3, <2>4, <1>1
<1>7. ASSUME NEW task \in DOMAIN tasks, Executed(task) PROVE Moves
  <2>1. \/ tasks' = TaskBag!BagRemove(tasks, task)
        \/ \E t : NewTask(t) /\ tasks' = TaskBag!BagAdd(TaskBag!BagRemove(tasks, task), t)
    <3>1. CASE ExecHistory(task) \/ ExecLog(task)
      <4>1. PICK runs, lines : Backfilling(task, runs, lines) /\ Fetched(task, runs, lines)
        BY <3>1, FetchedIs
      <4> DEFINE t == LogTask(task.agent, runs, lines)
      <4>2. t.verb = "log" /\ t.agent = task.agent /\ t.runs = runs /\ t.lines = lines
        BY DEF LogTask
      <4>3. \/ tasks' = TaskBag!BagRemove(tasks, task)
            \/ runs # << >> /\ tasks' = TaskBag!BagAdd(TaskBag!BagRemove(tasks, task), t)
        BY <4>1 DEF Backfilling
      <4> HIDE DEF t
      <4>4. runs # << >> => NewTask(t)
        BY <4>1, <4>2 DEF NewTask
      <4> QED BY <4>3, <4>4
    <3>2. CASE Exec(task) \/ ExecScan(task)
      BY <3>2 DEF Exec, ExecScan
    <3> QED BY <1>7, <3>1, <3>2 DEF Executed
  <2>2. DOMAIN TaskBag!BagRemove(tasks, task) \subseteq DOMAIN tasks
        /\ DOMAIN tasks \ {task} \subseteq DOMAIN TaskBag!BagRemove(tasks, task)
    BY BagRemoveIs
  <2>3. CASE tasks' = TaskBag!BagRemove(tasks, task)
    BY <1>7, <2>2, <2>3
  <2>4. ASSUME NEW t, NewTask(t), tasks' = TaskBag!BagAdd(TaskBag!BagRemove(tasks, task), t)
        PROVE  Moves
    <3>1. DOMAIN tasks' = DOMAIN TaskBag!BagRemove(tasks, task) \cup {t}
      BY <2>4, BagAddIs
    <3> QED BY <1>7, <2>2, <2>4, <3>1
  <2> QED BY <2>1, <2>3, <2>4
<1>8. CASE Apply
  <2> DEFINE report == Head(updates)
  <2>1. IsReport(report)
    BY <1>8, HeadIsReport, ApplyIs
  <2>2. \/ ApplyStatus(report) \/ ApplyOp(report) \/ ApplyFound(report) \/ ApplyTail(report)
        \/ ApplyBackfill(report)
    BY <1>8 DEF Apply
  <2> HIDE DEF report
  <2>3. CASE ApplyOp(report)
    <3>1. tasks' = tasks \/ tasks' = tasks (+) Fetches(Current)
      BY <2>3 DEF ApplyOp
    <3> QED BY <1>0, <1>1, <1>a, <3>1, AsksNew
  <2>4. CASE ApplyFound(report)
    <3>1. FirstOf(report) \in Agents \cup {None}
      BY <2>1, <2>4, FirstIs
    <3>2. tasks' = tasks \/ tasks' = tasks (+) Fetches(FirstOf(report))
      BY <2>4 DEF ApplyFound, FirstOf, NewOf
    <3> QED BY <1>1, <1>a, <3>1, <3>2, AsksNew
  <2>5. CASE ApplyStatus(report) \/ ApplyTail(report) \/ ApplyBackfill(report)
    BY <2>5, <1>1 DEF ApplyStatus, ApplyTail, ApplyBackfill
  <2> QED BY <2>2, <2>3, <2>4, <2>5
<1>9. CASE Remote \/ Deliver \/ Follow \/ TickTail \/ Close \/ Select \/ Unarm \/ UNCHANGED vars
  <2>1. UNCHANGED tasks
    BY <1>9 DEF Remote, StartRun, Say, EndRun, GoDown, ComeBack, client, Deliver, Follow, Hear,
                TickTail, Close, Select, Unarm, vars
  <2> QED BY <1>1, <2>1
<1> QED BY <1>2, <1>3, <1>4, <1>5, <1>6, <1>7, <1>8, <1>9 DEF Next, Keys, RunTask, Executed, BagToSet

LEMMA TasksNext ==
  ASSUME ListOk, StatusOk, ReportsOk, TasksOk, [Next]_vars
  PROVE  TasksOk'
<1>1. \A t \in DOMAIN tasks' : t \in DOMAIN tasks \/ NewTask(t)
  BY TaskMoves
<1>2. \A t : NewTask(t) => IsTask(t)
  BY DEF NewTask, TasksOk, IsTask, Fetched, ExecHistory, ExecLog
<1> QED BY <1>1, <1>2 DEF TasksOk

-----------------------------------------------------------------------------
(* The reports. *)

OnTheWay == reply \cup Range(updates)

(* A line that a tail brings, read where the tail has come to.             *)
Heard(tail, r) ==
  /\ r.kind = "tail" /\ r.line.agent = tail.agent /\ r.line.live = TRUE
  /\ r.line.n \in tail.at + 1 .. server[tail.agent].said

NewReport(r) ==
  \/ r.kind = "op"
  \/ \E task \in DOMAIN tasks : r.kind = "status" /\ r.agent = task.agent /\ Exec(task)
  \/ r.kind = "found" /\ r.agents \subseteq Agents
  \/ \E task \in DOMAIN tasks : /\ r.kind = "backfill" /\ r.agent = task.agent
                                /\ \E runs : Fetched(task, runs, r.lines)
  \/ \E tail \in tails.running : Hear(tail) /\ Heard(tail, r)

LEMMA HearIs ==
  ASSUME NEW tail \in tails.running, Hear(tail), IsSequence(updates)
  PROVE  /\ tail.at # None /\ UNCHANGED reply
         /\ \E r : /\ Heard(tail, r)
                   /\ UNCHANGED updates \/ updates' = Append(updates, r)
                   /\ \A t \in tails'.running :
                        t \in tails.running \ {tail} \/ t = [tail EXCEPT !.at = r.line.n]
<1>1. PICK n \in tail.at + 1 .. server[tail.agent].said :
        LET heard == [tail EXCEPT !.at = n]
            line == [kind |-> "tail", line |-> [agent |-> tail.agent, n |-> n, live |-> TRUE]]
        IN  /\ tails' = [running |-> (tails.running \ {tail}) \cup {heard},
                         held |-> IF tails.held = tail THEN heard ELSE tails.held]
            /\ updates' = IF Len(updates) < Capacity THEN Append(updates, line) ELSE updates
  BY DEF Hear
<1> DEFINE line == [kind |-> "tail", line |-> [agent |-> tail.agent, n |-> n, live |-> TRUE]]
<1>2. Heard(tail, line) /\ line.line.n = n
  BY DEF Heard
<1>3. UNCHANGED updates \/ updates' = Append(updates, line)
  BY <1>1
<1>5. \A t \in tails'.running : t \in tails.running \ {tail} \/ t = [tail EXCEPT !.at = n]
  BY <1>1
<1> HIDE DEF line
<1>4. UNCHANGED reply /\ tail.at # None
  BY DEF Hear
<1> QED BY <1>2, <1>3, <1>4, <1>5

LEMMA ReportMoves ==
  ASSUME ReportsOk, [Next]_vars
  PROVE  /\ IsSequence(updates') /\ \A q, r \in reply' : q = r /\ r.kind # "tail"
         /\ \A r \in OnTheWay' : r \in OnTheWay \/ NewReport(r)
         /\ \A r \in OnTheWay : r \in OnTheWay' \/ (Apply /\ r = Head(updates))
<1> DEFINE Moves == /\ IsSequence(updates') /\ \A q, r \in reply' : q = r /\ r.kind # "tail"
                    /\ \A r \in OnTheWay' : r \in OnTheWay \/ NewReport(r)
                    /\ \A r \in OnTheWay : r \in OnTheWay' \/ (Apply /\ r = Head(updates))
<1>0. IsSequence(updates) /\ \A q, r \in reply : q = r /\ r.kind # "tail"
  BY DEF ReportsOk
<1>1. CASE UNCHANGED << reply, updates >>
  BY <1>0, <1>1 DEF OnTheWay
<1>a. ASSUME NEW r, reply = {}, reply' = {r}, NewReport(r), r.kind # "tail", UNCHANGED updates
      PROVE  Moves
  BY <1>0, <1>a DEF OnTheWay
<1>2. ASSUME NEW task \in DOMAIN tasks, Executed(task) PROVE Moves
  <2>1. CASE Exec(task)
    <3>1. PICK answered \in BOOLEAN : reply' = {Reports(task, server[task.agent], answered)}
      BY <2>1 DEF Exec
    <3> DEFINE r == Reports(task, server[task.agent], answered)
    <3>2. r.kind = "op" \/ (r.kind = "status" /\ r.agent = task.agent)
      BY DEF Reports
    <3>3. reply' = {r} /\ reply = {} /\ UNCHANGED updates
      BY <2>1, <3>1 DEF Exec
    <3> HIDE DEF r
    <3>4. NewReport(r)
      BY <2>1, <3>2 DEF NewReport
    <3> QED BY <1>a, <3>2, <3>3, <3>4
  <2>2. CASE ExecScan(task)
    <3>1. PICK shy \in SUBSET Agents :
            reply' = {[kind |-> "found", agents |-> {a \in Agents : Probe(a, shy)}]}
      BY <2>2 DEF ExecScan
    <3> DEFINE r == [kind |-> "found", agents |-> {a \in Agents : Probe(a, shy)}]
    <3>2. r.kind = "found" /\ r.agents \subseteq Agents
      OBVIOUS
    <3>3. reply' = {r} /\ reply = {} /\ UNCHANGED updates
      BY <2>2, <3>1 DEF ExecScan
    <3> HIDE DEF r
    <3>4. NewReport(r)
      BY <3>2 DEF NewReport
    <3> QED BY <1>a, <3>2, <3>3, <3>4
  <2>3. CASE ExecHistory(task) \/ ExecLog(task)
    <3>1. PICK runs, lines : Backfilling(task, runs, lines) /\ Fetched(task, runs, lines)
      BY <2>3, FetchedIs
    <3> DEFINE r == [kind |-> "backfill", agent |-> task.agent, lines |-> lines]
    <3>2. r.kind = "backfill" /\ r.agent = task.agent /\ r.lines = lines
      OBVIOUS
    <3>3. UNCHANGED reply \/ reply' = {r}
      BY <3>1 DEF Backfilling
    <3> HIDE DEF r
    <3>4. NewReport(r)
      BY <3>1, <3>2 DEF NewReport
    <3> QED BY <1>a, <1>1, <2>3, <3>2, <3>3, <3>4, FetchedIs
  <2> QED BY <1>2, <2>1, <2>2, <2>3 DEF Executed
<1>3. CASE Deliver
  <2>1. PICK r \in reply : updates' = Append(updates, r)
    BY <1>3 DEF Deliver
  <2>2. reply' = {}
    BY <1>3 DEF Deliver
  <2>3. reply = {r}
    BY <1>0
  <2>4. IsSequence(updates') /\ Range(updates') = Range(updates) \cup {r}
    BY <1>0, <2>1, AppendIs
  <2> QED BY <2>2, <2>3, <2>4 DEF OnTheWay
<1>4. ASSUME NEW tail \in tails.running, Hear(tail) PROVE Moves
  <2>1. CASE UNCHANGED updates
    BY <1>1, <1>4, <2>1, HearIs, <1>0
  <2>2. ASSUME NEW r, Heard(tail, r), updates' = Append(updates, r) PROVE Moves
    <3>1. UNCHANGED reply /\ \A p, q \in reply' : p = q /\ q.kind # "tail"
      BY <1>0, <1>4, HearIs
    <3>2. IsSequence(updates') /\ Range(updates') = Range(updates) \cup {r}
      BY <1>0, <2>2, AppendIs
    <3>3. NewReport(r)
      BY <1>4, <2>2 DEF NewReport
    <3> QED BY <3>1, <3>2, <3>3 DEF OnTheWay
  <2> QED BY <1>0, <1>4, <2>1, <2>2, HearIs
<1>5. CASE Apply
  <2>1. /\ IsSequence(updates') /\ Range(updates) = {Head(updates)} \cup Range(updates')
        /\ UNCHANGED reply
    BY <1>0, <1>5, ApplyIs, TailIs
  <2>2. \A q, r \in reply' : q = r /\ r.kind # "tail"
    BY <1>0, <2>1
  <2>3. OnTheWay' = reply \cup Range(updates')
    BY <2>1 DEF OnTheWay
  <2> QED BY <1>5, <2>1, <2>2, <2>3 DEF OnTheWay
<1>6. CASE Remote \/ TickFetch \/ TickTail \/ Keys \/ UNCHANGED vars
  <2>1. UNCHANGED << reply, updates >>
    <3>1. CASE Remote \/ TickFetch \/ TickTail \/ UNCHANGED vars
      BY <3>1 DEF Remote, StartRun, Say, EndRun, GoDown, ComeBack, channel, TickFetch, TickTail, vars
    <3>2. CASE Keys
      BY <3>2 DEF Keys, Open, Close, Refresh, Select, Enter, Unarm, Cycle, Operate, Other, channel
    <3> QED BY <1>6, <3>1, <3>2
  <2> QED BY <1>1, <2>1
<1> QED BY <1>2, <1>3, <1>4, <1>5, <1>6 DEF Next, RunTask, Follow, Executed, BagToSet

LEMMA ReportsNext ==
  ASSUME ServersOk, TasksOk, ReportsOk, TailsOk, [Next]_vars
  PROVE  ReportsOk'
<1>1. \A r : NewReport(r) => IsReport(r)
  <2> SUFFICES ASSUME NEW r, NewReport(r) PROVE IsReport(r)
    OBVIOUS
  <2>1. CASE r.kind = "op" \/ (r.kind = "found" /\ r.agents \subseteq Agents)
    BY <2>1 DEF IsReport
  <2>2. ASSUME NEW task \in DOMAIN tasks, r.kind = "status", r.agent = task.agent, Exec(task)
        PROVE  IsReport(r)
    BY <2>2 DEF IsReport, TasksOk, IsTask, Exec
  <2>3. ASSUME NEW task \in DOMAIN tasks, r.kind = "backfill", r.agent = task.agent,
               NEW runs, Fetched(task, runs, r.lines)
        PROVE  IsReport(r)
    BY <2>3 DEF IsReport, TasksOk, IsTask, Fetched, ExecHistory, ExecLog
  <2>4. ASSUME NEW tail \in tails.running, Hear(tail), Heard(tail, r)
        PROVE  IsReport(r)
    <3>1. IsTail(tail, server) /\ tail.at # None
      BY <2>4, HearIs DEF TailsOk, ReportsOk
    <3>2. tail.at \in Nat /\ tail.agent \in Agents /\ server[tail.agent].said \in Nat
      BY <3>1 DEF IsTail, ServersOk, IsAgent
    <3>3. r.line.n \in Nat
      BY <2>4, <3>2 DEF Heard
    <3> QED BY <2>4, <3>2, <3>3 DEF IsReport, Heard
  <2> QED BY <2>1, <2>2, <2>3, <2>4 DEF NewReport
<1> QED BY <1>1, ReportMoves DEF ReportsOk, OnTheWay

-----------------------------------------------------------------------------
(* Nothing loads forever unasked. *)

LEMMA LoadingMoves ==
  ASSUME ListOk, StatusOk, ReportsOk, TasksOk, [Next]_vars, view'.loading
  PROVE  \/ Current' \in Agents /\ StatusTask(Current') \in DOMAIN tasks'
         \/ /\ view.loading /\ Current' = Current
            /\ Apply /\ Head(updates).kind = "status" => Head(updates).agent # Current
         \/ view.loading /\ agents = << >>
<1> DEFINE Asked == Current' \in Agents /\ StatusTask(Current') \in DOMAIN tasks'
           Waits == /\ view.loading /\ Current' = Current
                    /\ Apply /\ Head(updates).kind = "status" => Head(updates).agent # Current
<1>0. DOMAIN view = ViewFields
  BY DEF ListOk
<1>a. ASSUME NEW a \in Agents, NEW B, tasks' = tasks (+) Fetches(a) \/ tasks' = B (+) Fetches(a)
                                      \/ tasks' = tasks (+) Fetches(a) (+) B
      PROVE  StatusTask(a) \in DOMAIN tasks'
  <2>1. StatusTask(a) \in DOMAIN Fetches(a)
    BY FetchesIs, AgentsAssumption
  <2>2. CASE tasks' = tasks (+) Fetches(a)
    <3>1. DOMAIN tasks' = DOMAIN tasks \cup DOMAIN Fetches(a)
      BY <2>2, BagUnionIs
    <3> QED BY <2>1, <3>1
  <2>3. CASE tasks' = B (+) Fetches(a)
    <3>1. DOMAIN tasks' = DOMAIN B \cup DOMAIN Fetches(a)
      BY <2>3, BagUnionIs
    <3> QED BY <2>1, <3>1
  <2>4. CASE tasks' = tasks (+) Fetches(a) (+) B
    <3>1. DOMAIN (tasks (+) Fetches(a)) = DOMAIN tasks \cup DOMAIN Fetches(a)
      BY BagUnionIs
    <3>2. DOMAIN tasks' = DOMAIN (tasks (+) Fetches(a)) \cup DOMAIN B
      BY <2>4, BagUnionIs
    <3> QED BY <2>1, <3>1, <3>2
  <2> QED BY <1>a, <2>2, <2>3, <2>4
<1>1. CASE Open
  <2>1. Current' = Current
    BY <1>1, OpenIs
  <2>2. CASE Current = None
    <3>1. agents = << >> /\ view'.loading = view.loading
      BY <1>1, <2>2, OpenIs, AgentIsCurrent, AgentsAssumption
    <3> QED BY <3>1
  <2>3. CASE Current # None
    <3>1. Current \in Agents
      BY <2>3, AgentIsCurrent
    <3>2. tasks' = tasks (+) Fetches(Current) (+) Backfills(view, Current)
      BY <1>1, <2>3 DEF Open
    <3> QED BY <1>a, <2>1, <3>1, <3>2
  <2> QED BY <2>2, <2>3
<1>2. CASE \E next \in DOMAIN agents : Cycle(next)
  <2>1. PICK next \in DOMAIN agents : Cycle(next)
    BY <1>2
  <2>2. /\ tasks' = tasks (+) Backfills(Cycled(next), agents[next]) (+) Fetches(agents[next])
        /\ agents[next] \in Agents /\ Current' = agents[next]
    BY <2>1, CycleIs DEF Cycle
  <2> QED BY <1>a, <2>2
(* A fetch for the agent shown, while the choice stays.                    *)
<1>b. ASSUME tasks' = tasks (+) Fetches(Current), view' = Fetch(view, Current), UNCHANGED agents
      PROVE  Asked \/ (view.loading /\ agents = << >>)
  <2>1. view'.current = view.current
    BY <1>0, <1>b, FetchIs
  <2>2. Current' = Current
    BY <1>b, <2>1 DEF Current
  <2>3. CASE agents = << >>
    <3>1. view'.loading = view.loading
      BY <1>0, <1>b, <2>3, FetchIs, AgentIsCurrent
    <3> QED BY <2>3, <3>1
  <2>4. CASE agents # << >>
    BY <1>a, <1>b, <2>2, <2>4, AgentIsCurrent
  <2> QED BY <2>3, <2>4
(* The view is kept, and no report is applied.                             *)
<1>c. ASSUME view'.loading = view.loading, view'.current = view.current, UNCHANGED agents,
             ~Apply \/ Head(updates).kind # "status"
      PROVE  Waits
  BY <1>c DEF Current
<1>3. CASE Refresh \/ TickFetch
  <2>1. CASE tasks' = tasks (+) Fetches(Current) /\ view' = Fetch(view, Current)
    <3>1. UNCHANGED agents
      BY <1>3 DEF Refresh, TickFetch
    <3> QED BY <1>b, <2>1, <3>1
  <2>2. CASE agents = << >> /\ view' = [view EXCEPT !.scanning = TRUE]
    BY <1>0, <2>2 DEF ViewFields
  <2> QED BY <1>3, <2>1, <2>2 DEF Refresh, TickFetch
<1>4. CASE Apply
  <2> DEFINE report == Head(updates)
  <2>1. IsReport(report)
    BY <1>4, HeadIsReport, ApplyIs
  <2>2. \/ ApplyStatus(report) \/ ApplyOp(report) \/ ApplyFound(report) \/ ApplyTail(report)
        \/ ApplyBackfill(report)
    BY <1>4 DEF Apply
  <2>3. CASE ApplyStatus(report)
    <3>1. view' = Answered(report) /\ UNCHANGED agents
      BY <2>3 DEF ApplyStatus
    <3>2. report.agent # Current /\ view' = view
      <4> HIDE DEF report
      <4> QED BY <1>0, <3>1, AnsweredIs
    <3> QED BY <3>1, <3>2 DEF Current
  <2>4. CASE ApplyOp(report)
    <3>1. CASE report.ok
      BY <1>b, <2>4, <3>1 DEF ApplyOp
    <3>2. CASE ~report.ok
      BY <1>c, <2>4, <3>2 DEF ApplyOp
    <3> QED BY <3>1, <3>2
  <2>5. CASE ApplyFound(report)
    <3> DEFINE seen == [view EXCEPT !.scanning = FALSE]
               shown == NewOf(report) # << >> /\ view.open /\ view.status = None
    <3>1. /\ shown => /\ view' = Fetch(seen, FirstOf(report))
                      /\ tasks' = tasks (+) Fetches(FirstOf(report))
          /\ ~shown => view' = seen
      BY <2>5 DEF ApplyFound, NewOf, FirstOf
    <3>2. /\ Current' = FirstOf(report) /\ FirstOf(report) \in Agents \cup {None}
          /\ agents # << >> => Current' = Current
      BY <2>1, <2>5, FoundIs, FirstIs
    <3>3. DOMAIN seen = ViewFields /\ seen.loading = view.loading
      BY <1>0 DEF ViewFields
    <3> HIDE DEF seen
    <3>4. CASE shown /\ FirstOf(report) # None
      BY <1>a, <3>1, <3>2, <3>4
    <3>5. CASE ~(shown /\ FirstOf(report) # None)
      <4>1. view'.loading = view.loading
        <5>1. CASE ~shown
          BY <3>1, <3>3, <5>1
        <5>2. CASE shown
          <6>1. FirstOf(report) = None /\ view' = Fetch(seen, None)
            BY <3>1, <3>5, <5>2
          <6>2. Fetch(seen, None).loading = seen.loading
            BY <3>3, FetchIs
          <6> QED BY <3>3, <6>1, <6>2
        <5> QED BY <5>1, <5>2
      <4>2. report.kind = "found"
        BY <2>5 DEF ApplyFound
      <4> QED BY <3>2, <4>1, <4>2
    <3> QED BY <3>4, <3>5
  <2>6. CASE ApplyTail(report) \/ ApplyBackfill(report)
    <3>1. UNCHANGED << agents, view >> /\ report.kind # "status"
      BY <2>6 DEF ApplyTail, ApplyBackfill
    <3> QED BY <3>1 DEF Current
  <2> QED BY <2>2, <2>3, <2>4, <2>5, <2>6
<1>5. ASSUME ~(Open \/ Refresh \/ TickFetch \/ Apply), ~\E next \in DOMAIN agents : Cycle(next)
      PROVE  Waits
  <2>1. \/ Close \/ Select \/ Enter \/ Unarm
        \/ \E op \in {"kick", "cancel", "host", "agent"} : Operate(op)
        \/ Remote \/ RunTask \/ Deliver \/ Follow \/ TickTail \/ UNCHANGED vars
    BY <1>5 DEF Next, Keys
  <2>2. view'.loading = view.loading /\ view'.current = view.current /\ UNCHANGED agents
    <3>1. CASE Close \/ Select \/ Unarm
      BY <1>0, <3>1 DEF Close, Select, Unarm, ViewFields
    <3>2. CASE Enter
      <4>1. \E x : view' = [view EXCEPT !.pending = x]
        BY <3>2 DEF Enter
      <4>2. UNCHANGED agents
        BY <3>2 DEF Enter
      <4> QED BY <1>0, <4>1, <4>2 DEF ViewFields
    <3>3. CASE UNCHANGED << agents, view >>
      BY <3>3
    <3>4. CASE \/ \E op \in {"kick", "cancel", "host", "agent"} : Operate(op)
               \/ Remote \/ RunTask \/ Deliver \/ Follow \/ TickTail \/ UNCHANGED vars
      <4>1. UNCHANGED << agents, view >>
        BY <3>4 DEF Operate, Remote, StartRun, Say, EndRun, GoDown, ComeBack, client, RunTask,
                    Exec, ExecHistory, ExecLog, ExecScan, Deliver, Follow, Hear, TickTail, vars
      <4> QED BY <3>3, <4>1
    <3> QED BY <2>1, <3>1, <3>2, <3>4
  <2> QED BY <1>5, <1>c, <2>2
<1> QED BY <1>1, <1>2, <1>3, <1>4, <1>5

LEMMA FetchNext ==
  ASSUME ListOk, StatusOk, ReportsOk, TasksOk, FetchUnderWay, [Next]_vars
  PROVE  FetchUnderWay'
<1> SUFFICES ASSUME view'.loading PROVE FetchUnderWay'
  BY DEF FetchUnderWay
<1>1. CASE StatusTask(Current') \in DOMAIN tasks'
  BY <1>1 DEF FetchUnderWay, BagIn, BagToSet, StatusTask
<1>2. CASE view.loading /\ agents = << >>
  <2>1. Current = None
    BY <1>2, AgentIsCurrent
  <2>2. StatusTask(None) \notin DOMAIN tasks
    BY AgentsAssumption DEF TasksOk, IsTask, StatusTask
  <2>3. \A r \in reply \cup Range(updates) : r.kind = "status" => r.agent # None
    BY AgentsAssumption DEF ReportsOk, IsReport
  <2> QED BY <1>2, <2>1, <2>2, <2>3 DEF FetchUnderWay, BagIn, BagToSet
<1>3. CASE /\ view.loading /\ Current' = Current
           /\ Apply /\ Head(updates).kind = "status" => Head(updates).agent # Current
  <2> DEFINE t == StatusTask(Current)
  <2>0. t.verb = "status" /\ t.agent = Current
    BY DEF StatusTask
  <2>1. CASE BagIn(t, tasks)
    <3>1. t \in DOMAIN tasks' \/ Executed(t)
      BY <2>1, TaskMoves DEF BagIn, BagToSet
    <3>2. CASE t \in DOMAIN tasks'
      BY <1>3, <1>1, <3>2
    <3>3. CASE Executed(t)
      <4> HIDE DEF t
      <4>1. Exec(t)
        BY <2>0, <3>3 DEF Executed, ExecHistory, ExecLog, ExecScan
      <4>2. PICK answered \in BOOLEAN : reply' = {Reports(t, server[t.agent], answered)}
        BY <4>1 DEF Exec
      <4> DEFINE r == Reports(t, server[t.agent], answered)
      <4>3. r.kind = "status" /\ r.agent = Current
        BY <2>0 DEF Reports
      <4>4. r \in reply'
        BY <4>2
      <4> HIDE DEF r
      <4> QED BY <1>3, <4>3, <4>4 DEF FetchUnderWay
    <3> QED BY <3>1, <3>2, <3>3
  <2>2. ASSUME NEW r \in OnTheWay, r.kind = "status", r.agent = Current
        PROVE  FetchUnderWay'
    <3>1. r \in OnTheWay'
      BY <1>3, <2>2, ReportMoves
    <3> QED BY <1>3, <2>2, <3>1 DEF FetchUnderWay, OnTheWay
  <2> QED BY <1>3, <2>1, <2>2 DEF FetchUnderWay, OnTheWay
<1> QED BY <1>1, <1>2, <1>3, LoadingMoves

-----------------------------------------------------------------------------
(* Approvals. *)

(* The host an approval waits for was warned of, too.                      *)
Warned == ApprovalWarned /\ (view.pending # None => view.pending \in warned)

LEMMA WarnedMoves ==
  ASSUME [Next]_vars
  PROVE  UNCHANGED warned \/ Enter
<1>1. CASE Remote \/ Deliver \/ Follow \/ TickFetch \/ TickTail \/ Apply \/ UNCHANGED vars
  BY <1>1 DEF Remote, StartRun, Say, EndRun, GoDown, ComeBack, client, Deliver, Follow, Hear,
              TickFetch, TickTail, Apply, vars
<1>2. CASE RunTask
  BY <1>2 DEF RunTask, Exec, ExecHistory, ExecLog, ExecScan
<1>3. CASE Keys /\ ~Enter
  BY <1>3 DEF Keys, Open, Close, Refresh, Select, Unarm, Cycle, Operate, Other
<1> QED BY <1>1, <1>2, <1>3 DEF Next

LEMMA EnterIs ==
  ASSUME ListOk, Enter
  PROVE  /\ warned \subseteq warned'
         /\ view'.pending = None \/ view'.pending \in warned'
<1> DEFINE revoked   == Selected \in view.status.said.approved
           confirmed == ~revoked /\ Armed(Selected)
           x == IF revoked \/ confirmed THEN None ELSE Selected
<1>1. /\ view' = [view EXCEPT !.pending = x]
      /\ warned' = IF revoked \/ confirmed THEN warned ELSE warned \cup {Selected}
  BY DEF Enter
<1>2. x = None \/ x \in warned'
  BY <1>1
<1>3. warned \subseteq warned'
  BY <1>1
<1> HIDE DEF x
<1>4. view'.pending = x
  BY <1>1 DEF ListOk, ViewFields
<1> QED BY <1>2, <1>3, <1>4

LEMMA WarnedNext ==
  ASSUME ListOk, StatusOk, ServersOk, ReportsOk, TasksOk, Warned, [Next]_vars
  PROVE  Warned'
<1>1. warned \subseteq warned'
  BY WarnedMoves, EnterIs
<1>2. view'.pending # None => view'.pending \in warned'
  <2>1. CASE ListKept
    BY <1>1, <2>1, EnterIs DEF ListKept, Warned
  <2>2. CASE \E next \in DOMAIN agents : Cycle(next)
    BY <1>1, <2>2, CycleIs DEF Warned
  <2>3. CASE Apply /\ ApplyFound(Head(updates))
    BY <1>1, <2>3, FoundIs, HeadIsReport, ApplyIs DEF Warned
  <2> QED BY <2>1, <2>2, <2>3, ViewMoves
<1>3. \A t \in DOMAIN tasks' : t.verb = "approve" => t.host \in warned'
  <2>1. \A t \in DOMAIN tasks : t.verb = "approve" => t.host \in warned
    BY DEF Warned, ApprovalWarned, BagToSet
  <2>2. \A t : NewTask(t) /\ t.verb = "approve" => t.host \in warned
    BY DEF NewTask, Warned
  <2> QED BY <1>1, <2>1, <2>2, TaskMoves
<1>4. ASSUME NEW a \in Agents PROVE server'[a].approved \subseteq warned
  <2>0. /\ \A b \in Agents : server[b].approved \subseteq warned /\ DOMAIN server[b] = AgentFields
        /\ DOMAIN server = Agents
    BY DEF Warned, ApprovalWarned, ServersOk, IsAgent
  <2>1. CASE UNCHANGED server
    BY <2>0, <2>1
  <2>2. ASSUME NEW b \in Agents, StartRun(b) \/ Say(b) \/ ComeBack(b)
        PROVE  server'[a].approved = server[a].approved
    BY <2>0, <2>2 DEF StartRun, Say, ComeBack, AgentFields
  <2>3. ASSUME NEW b \in Agents, EndRun(b)
        PROVE  server'[a].approved \subseteq server[a].approved
    <3>1. PICK settled : server' = [server EXCEPT ![b].running = FALSE,
                                      ![b].history = Recorded(server[b]),
                                      ![b].approved = @ \ settled]
      BY <2>3 DEF EndRun
    <3> QED BY <2>0, <3>1 DEF AgentFields
  <2>4. ASSUME NEW b \in Agents, GoDown(b)
        PROVE  server'[a].approved = server[a].approved
    <3>1. PICK unsaved : server' = [server EXCEPT ![b].up = FALSE, ![b].running = FALSE,
                                                 ![b].ids = @ - unsaved]
      BY <2>4 DEF GoDown
    <3> QED BY <2>0, <3>1 DEF AgentFields
  <2>5. ASSUME NEW task \in DOMAIN tasks, Exec(task)
        PROVE  server'[a].approved \subseteq warned
    <3>1. task.agent \in Agents
      BY <2>5 DEF TasksOk, IsTask, Exec
    <3> DEFINE w == Does(server[task.agent], task)
    <3>2. server' = server \/ server' = [server EXCEPT ![task.agent] = w]
      BY <2>5 DEF Exec
    <3>3. /\ task.verb # "approve" => w.approved \subseteq server[task.agent].approved
          /\ w.approved \subseteq server[task.agent].approved \cup {task.host}
      BY <2>0, <3>1, DoesIs
    <3>4. task.verb = "approve" => task.host \in warned
      BY DEF Warned, ApprovalWarned, BagToSet
    <3>5. w.approved \subseteq warned
      BY <2>0, <3>1, <3>3, <3>4
    <3> HIDE DEF w
    <3> QED BY <2>0, <3>1, <3>2, <3>5
  <2> QED BY <2>0, <2>1, <2>2, <2>3, <2>4, <2>5, ServerMoves
<1> QED BY <1>1, <1>2, <1>3, <1>4 DEF Warned, ApprovalWarned, BagToSet

-----------------------------------------------------------------------------
(* What an agent stores of its runs. *)

LastId(s) == IF s.running THEN s.ids - 1 ELSE s.ids
LastLine(s) == IF s.running THEN s.since ELSE s.said

Below(u, w) == \A x \in Range(u), y \in Range(w) : x < y

IsLines(u) == IsSequence(u) /\ Range(u) \subseteq Int /\ Increasing(u)

InOrder(h) ==
  \A i, j \in DOMAIN h : i < j => h[i].id < h[j].id /\ Below(h[i].lines, h[j].lines)

IsRun(run, id, line) ==
  /\ run.id \in Int /\ run.id <= id
  /\ IsLines(run.lines) /\ \A x \in Range(run.lines) : x <= line

(* Ids and lines grow from run to run, and those to come are above them.   *)
HistoryOk(s) ==
  /\ IsSequence(s.history) /\ InOrder(s.history)
  /\ \A run \in Range(s.history) : IsRun(run, LastId(s), LastLine(s))

HistoriesOk == \A a \in Agents : HistoryOk(server[a])

(* What is stored later is of a later run.                                 *)
Grows(s, w) ==
  /\ LastId(s) \in Int /\ LastId(w) \in Int /\ LastId(s) <= LastId(w)
  /\ \A run \in Range(w.history) : run \in Range(s.history) \/ run.id > LastId(s)

LEMMA LastOfOrder ==
  ASSUME NEW h, IsSequence(h), InOrder(h), NEW k \in Nat
  PROVE  InOrder(LastOf(h, k))
<1> DEFINE q == LastOf(h, k)
<1>1. /\ IsSequence(q)
      /\ \E d \in Nat : /\ Len(q) = Len(h) - d
                        /\ \A i \in 1 .. Len(q) : i + d \in 1 .. Len(h) /\ q[i] = h[i + d]
  BY LastOfIs
<1> HIDE DEF q
<1>2. PICK d \in Nat : \A i \in 1 .. Len(q) : i + d \in 1 .. Len(h) /\ q[i] = h[i + d]
  BY <1>1
<1>3. DOMAIN q = 1 .. Len(q) /\ DOMAIN h = 1 .. Len(h) /\ Len(q) \in Nat /\ Len(h) \in Nat
  BY <1>1, SequenceIs
<1>4. \A i, j \in DOMAIN q : i < j => i + d < j + d
  BY <1>3
<1>5. InOrder(q)
  <2> SUFFICES ASSUME NEW i \in DOMAIN q, NEW j \in DOMAIN q, i < j
               PROVE  q[i].id < q[j].id /\ Below(q[i].lines, q[j].lines)
    BY DEF InOrder
  <2>1. i + d \in DOMAIN h /\ j + d \in DOMAIN h /\ i + d < j + d
    BY <1>2, <1>3, <1>4
  <2>2. h[i + d].id < h[j + d].id /\ Below(h[i + d].lines, h[j + d].lines)
    BY <2>1 DEF InOrder
  <2> QED BY <1>2, <1>3, <2>2
<1> QED BY <1>5 DEF q

LEMMA RunLinesAre ==
  ASSUME NEW since \in Nat, NEW said \in Nat, since <= said
  PROVE  LET lines == [i \in 1 .. said - since |-> since + i]
         IN  IsLines(lines) /\ \A x \in Range(lines) : since < x /\ x <= said
<1> DEFINE n == said - since
           lines == [i \in 1 .. n |-> since + i]
<1>1. n \in Nat
  OBVIOUS
<1>2. lines \in [1 .. n -> Int] /\ \A i \in 1 .. n : lines[i] = since + i
  BY <1>1
<1>3. \A i \in 1 .. n : since < since + i /\ since + i <= said
  OBVIOUS
<1> HIDE DEF lines, n
<1>4. lines \in Seq(Int) /\ DOMAIN lines = 1 .. n
  BY <1>1, <1>2
<1>5. Range(lines) \subseteq Int /\ \A x \in Range(lines) : since < x /\ x <= said
  BY <1>2, <1>3, <1>4 DEF Range
<1>6. Increasing(lines)
  BY <1>1, <1>2, <1>4 DEF Increasing
<1>7. IsLines(lines) /\ \A x \in Range(lines) : since < x /\ x <= said
  BY <1>4, <1>5, <1>6 DEF IsLines, IsSequence
<1> QED BY <1>7 DEF lines, n

LEMMA RecordedIs ==
  ASSUME NEW s, IsAgent(s), HistoryOk(s), s.running
  PROVE  /\ IsSequence(Recorded(s)) /\ InOrder(Recorded(s))
         /\ \A run \in Range(Recorded(s)) :
              /\ IsRun(run, s.ids, s.said)
              /\ run \in Range(s.history) \/ run.id > LastId(s)
<1> DEFINE lines == [i \in 1 .. s.said - s.since |-> s.since + i]
           r == [id |-> s.ids, lines |-> lines]
           h == Append(s.history, r)
<1>1. s.said \in Nat /\ s.since \in Nat /\ s.since <= s.said /\ s.ids \in Int
  BY DEF IsAgent
<1>2. IsLines(lines) /\ \A x \in Range(lines) : s.since < x /\ x <= s.said
  BY <1>1, RunLinesAre
<1> HIDE DEF lines
<1>3. r.id = s.ids /\ r.lines = lines
  OBVIOUS
<1>4. Recorded(s) = LastOf(h, HistoryCap)
  BY DEF Recorded, lines
<1> HIDE DEF r
<1>5. LastId(s) = s.ids - 1 /\ LastLine(s) = s.since
  BY DEF LastId, LastLine
<1>6. /\ IsSequence(s.history) /\ InOrder(s.history) /\ IsSequence(h)
      /\ DOMAIN h = 1 .. Len(s.history) + 1 /\ Len(s.history) \in Nat
      /\ DOMAIN s.history = 1 .. Len(s.history)
      /\ \A i \in 1 .. Len(s.history) : h[i] = s.history[i]
      /\ h[Len(s.history) + 1] = r
      /\ Range(h) = Range(s.history) \cup {r}
  BY AppendIs, SequenceIs DEF HistoryOk
<1> HIDE DEF h
<1>7. \A run \in Range(h) : IsRun(run, s.ids, s.said) /\ (run \in Range(s.history) \/ run.id > LastId(s))
  <2>1. ASSUME NEW run \in Range(s.history) PROVE IsRun(run, s.ids, s.said)
    <3>1. IsRun(run, s.ids - 1, s.since)
      BY <1>5 DEF HistoryOk
    <3>2. Range(run.lines) \subseteq Int
      BY <3>1 DEF IsRun, IsLines
    <3> QED BY <1>1, <3>1, <3>2 DEF IsRun
  <2>2. IsRun(r, s.ids, s.said) /\ r.id > LastId(s)
    BY <1>1, <1>2, <1>3, <1>5 DEF IsRun
  <2> QED BY <1>6, <2>1, <2>2
<1>8. InOrder(h)
  <2> SUFFICES ASSUME NEW i \in DOMAIN h, NEW j \in DOMAIN h, i < j
               PROVE  h[i].id < h[j].id /\ Below(h[i].lines, h[j].lines)
    BY DEF InOrder
  <2>1. i \in 1 .. Len(s.history) /\ h[i] = s.history[i] /\ i \in DOMAIN s.history
    BY <1>6
  <2>2. CASE j \in 1 .. Len(s.history)
    BY <1>6, <2>1, <2>2 DEF InOrder
  <2>3. CASE j = Len(s.history) + 1
    <3>1. h[j] = r /\ h[i] \in Range(s.history)
      BY <1>6, <2>1, <2>3 DEF Range
    <3>2. IsRun(h[i], s.ids - 1, s.since)
      BY <1>5, <3>1 DEF HistoryOk
    <3>3. Range(h[i].lines) \subseteq Int /\ Range(lines) \subseteq Int
      BY <1>2, <3>2 DEF IsRun, IsLines
    <3>4. Below(h[i].lines, lines)
      BY <1>1, <1>2, <3>2, <3>3 DEF Below, IsRun
    <3>5. h[i].id < r.id
      BY <1>1, <1>3, <3>2 DEF IsRun
    <3> QED BY <1>3, <3>1, <3>4, <3>5
  <2> QED BY <1>6, <2>2, <2>3
<1>9. HistoryCap \in Nat
  BY BoundsAssumption
<1> DEFINE q == LastOf(h, HistoryCap)
<1>10. IsSequence(q) /\ InOrder(q) /\ Range(q) \subseteq Range(h)
  BY <1>6, <1>8, <1>9, LastOfIs, LastOfOrder
<1> QED BY <1>4, <1>7, <1>10

LEMMA HistoriesNext ==
  ASSUME ServersOk, TasksOk, HistoriesOk, [Next]_vars
  PROVE  HistoriesOk' /\ \A a \in Agents : Grows(server[a], server'[a])
<1> DEFINE Steps(s, w) == HistoryOk(w) /\ Grows(s, w)
<1> SUFFICES \A a \in Agents : Steps(server[a], server'[a])
  BY DEF HistoriesOk
<1>0. DOMAIN server = Agents /\ \A a \in Agents : IsAgent(server[a]) /\ HistoryOk(server[a])
  BY DEF ServersOk, HistoriesOk
<1>1. \A a \in Agents : Steps(server[a], server[a])
  BY <1>0 DEF Grows, LastId, IsAgent
(* Whose history stays, and whose bounds do not sink.                      *)
<1>2. ASSUME NEW s, NEW w, IsAgent(s), IsAgent(w), HistoryOk(s), w.history = s.history,
             LastId(s) <= LastId(w), LastLine(s) <= LastLine(w)
      PROVE  Steps(s, w)
  <2>1. /\ LastId(s) \in Int /\ LastId(w) \in Int /\ LastLine(s) \in Int /\ LastLine(w) \in Int
    BY <1>2 DEF LastId, LastLine, IsAgent
  <2>2. \A run \in Range(s.history) : IsRun(run, LastId(w), LastLine(w))
    <3> TAKE run \in Range(s.history)
    <3>1. IsRun(run, LastId(s), LastLine(s))
      BY <1>2 DEF HistoryOk
    <3>2. Range(run.lines) \subseteq Int
      BY <3>1 DEF IsRun, IsLines
    <3> QED BY <1>2, <2>1, <3>1, <3>2 DEF IsRun
  <2> QED BY <1>2, <2>1, <2>2 DEF HistoryOk, Grows
<1>3. \A a \in Agents : IsAgent(server'[a])
  BY ServersNext DEF ServersOk
<1>4. CASE UNCHANGED server
  BY <1>1, <1>4
<1>5. ASSUME NEW b \in Agents, StartRun(b) \/ Say(b) \/ ComeBack(b) \/ GoDown(b)
      PROVE  \A a \in Agents : Steps(server[a], server'[a])
  <2>1. \A a \in Agents : a # b => server'[a] = server[a]
    BY <1>0, <1>5 DEF StartRun, Say, ComeBack, GoDown
  <2>2. /\ server'[b].history = server[b].history
        /\ LastId(server[b]) <= LastId(server'[b])
        /\ LastLine(server[b]) <= LastLine(server'[b])
    <3>1. CASE StartRun(b)
      BY <1>0, <3>1 DEF StartRun, IsAgent, AgentFields, LastId, LastLine
    <3>2. CASE Say(b) \/ ComeBack(b)
      BY <1>0, <3>2 DEF Say, ComeBack, IsAgent, AgentFields, LastId, LastLine
    <3>3. CASE GoDown(b)
      <4>1. PICK unsaved \in IF server[b].running THEN {0, 1} ELSE {0} :
              server' = [server EXCEPT ![b].up = FALSE, ![b].running = FALSE,
                                       ![b].ids = @ - unsaved]
        BY <3>3 DEF GoDown
      <4>2. unsaved \in {0, 1} /\ (~server[b].running => unsaved = 0)
        OBVIOUS
      <4> QED BY <1>0, <4>1, <4>2 DEF IsAgent, AgentFields, LastId, LastLine
    <3> QED BY <1>5, <3>1, <3>2, <3>3
  <2> QED BY <1>0, <1>1, <1>2, <1>3, <2>1, <2>2
<1>6. ASSUME NEW b \in Agents, EndRun(b)
      PROVE  \A a \in Agents : Steps(server[a], server'[a])
  <2>1. PICK settled : server' = [server EXCEPT ![b].running = FALSE,
                                    ![b].history = Recorded(server[b]),
                                    ![b].approved = @ \ settled]
    BY <1>6 DEF EndRun
  <2>2. \A a \in Agents : a # b => server'[a] = server[a]
    BY <1>0, <2>1
  <2> DEFINE s == server[b]
  <2>3. PICK w : w = server'[b]
    OBVIOUS
  <2>4. /\ w.history = Recorded(s) /\ ~w.running /\ w.ids = s.ids /\ w.said = s.said
        /\ s.running /\ IsAgent(s) /\ HistoryOk(s)
    BY <1>0, <1>6, <2>1, <2>3 DEF IsAgent, AgentFields, EndRun
  <2> HIDE DEF s
  <2>5. LastId(w) = s.ids /\ LastLine(w) = s.said /\ LastId(s) = s.ids - 1 /\ s.ids \in Int
    BY <2>4 DEF LastId, LastLine, IsAgent
  <2>6. /\ IsSequence(w.history) /\ InOrder(w.history)
        /\ \A run \in Range(w.history) :
              /\ IsRun(run, s.ids, s.said)
              /\ run \in Range(s.history) \/ run.id > LastId(s)
    BY <2>4, RecordedIs
  <2>7. Steps(s, w)
    BY <2>5, <2>6 DEF HistoryOk, Grows
  <2>8. Steps(server[b], server'[b])
    BY <2>3, <2>7 DEF s
  <2> QED BY <1>1, <2>2, <2>8
<1>7. ASSUME NEW task \in DOMAIN tasks, Exec(task)
      PROVE  \A a \in Agents : Steps(server[a], server'[a])
  <2>1. task.agent \in Agents
    BY <1>7 DEF TasksOk, IsTask, Exec
  <2> DEFINE w == Does(server[task.agent], task)
  <2>2. server' = server \/ server' = [server EXCEPT ![task.agent] = w]
    BY <1>7 DEF Exec
  <2>3. /\ w.history = server[task.agent].history /\ w.running = server[task.agent].running
        /\ w.ids = server[task.agent].ids /\ w.said = server[task.agent].said
        /\ w.since = server[task.agent].since /\ DOMAIN w = AgentFields
    BY <1>0, <2>1, DoesIs DEF IsAgent
  <2>4. IsAgent(w)
    BY <1>0, <2>1, <2>3 DEF IsAgent
  <2>5. LastId(w) = LastId(server[task.agent]) /\ LastLine(w) = LastLine(server[task.agent])
    BY <2>3 DEF LastId, LastLine
  <2>6. Steps(server[task.agent], w)
    <3> HIDE DEF w
    <3>1. LastId(server[task.agent]) \in Int /\ LastLine(server[task.agent]) \in Int
      BY <1>0, <2>1 DEF LastId, LastLine, IsAgent
    <3> QED BY <1>0, <1>2, <2>1, <2>3, <2>4, <2>5, <3>1
  <2> HIDE DEF w
  <2> QED BY <1>0, <1>1, <2>1, <2>2, <2>6
<1> QED BY <1>4, <1>5, <1>6, <1>7, ServerMoves

-----------------------------------------------------------------------------
(* What a backfill has collected. *)

(* The runs still to fetch are older than what is there, newest first, and *)
(* of those the agent has by now.                                          *)
PlanOk(runs, lines, s) ==
  /\ IsSequence(runs) /\ IsLines(lines)
  /\ \A i \in DOMAIN runs : runs[i] \in Int /\ runs[i] <= LastId(s)
  /\ \A i, j \in DOMAIN runs : i < j => runs[i] > runs[j]
  /\ \A i \in DOMAIN runs, run \in Range(s.history) :
       run.id = runs[i] => Below(run.lines, lines)

LogTasksOk ==
  \A t \in DOMAIN tasks :
    t.verb = "log" => t.runs # << >> /\ PlanOk(t.runs, t.lines, server[t.agent])

BackfillsOk == \A r \in OnTheWay : r.kind = "backfill" => IsLines(r.lines)

LEMMA EmptyLines == IsLines(<< >>) /\ \A u : Below(u, << >>) /\ Below(<< >>, u)
BY EmptySequence DEF IsLines, Below, Increasing

LEMMA LinesJoined ==
  ASSUME NEW u, NEW w, IsLines(u), IsLines(w), Below(u, w)
  PROVE  IsLines(u \o w) /\ Range(u \o w) = Range(u) \cup Range(w)
<1>1. IsSequence(u) /\ IsSequence(w) /\ Range(u) \subseteq Int /\ Range(w) \subseteq Int
  BY DEF IsLines
<1> DEFINE q == u \o w
           m == Len(u)
           n == Len(w)
<1>2. /\ IsSequence(q) /\ m \in Nat /\ n \in Nat /\ DOMAIN q = 1 .. m + n
      /\ \A i \in 1 .. m : q[i] = u[i]
      /\ \A i \in m + 1 .. m + n : i - m \in 1 .. n /\ q[i] = w[i - m]
      /\ Range(q) = Range(u) \cup Range(w)
  BY <1>1, ConcatIs
<1>3. DOMAIN u = 1 .. m /\ DOMAIN w = 1 .. n
  BY <1>1, SequenceIs
<1> HIDE DEF q, m, n
<1>4. Increasing(q)
  <2> SUFFICES ASSUME NEW i \in DOMAIN q, NEW j \in DOMAIN q, i < j PROVE q[i] < q[j]
    BY DEF Increasing
  <2>1. i \in 1 .. m \/ i \in m + 1 .. m + n
    BY <1>2
  <2>2. j \in 1 .. m \/ j \in m + 1 .. m + n
    BY <1>2
  <2>3. CASE i \in 1 .. m /\ j \in 1 .. m
    BY <1>2, <1>3, <2>3 DEF IsLines, Increasing
  <2>4. CASE i \in 1 .. m /\ j \in m + 1 .. m + n
    <3>1. q[i] \in Range(u) /\ q[j] \in Range(w)
      BY <1>2, <1>3, <2>4 DEF Range
    <3> QED BY <3>1 DEF Below
  <2>5. CASE i \in m + 1 .. m + n /\ j \in m + 1 .. m + n
    <3>1. i - m \in 1 .. n /\ j - m \in 1 .. n /\ i - m < j - m
      BY <1>2, <2>5
    <3>2. w[i - m] < w[j - m]
      BY <1>3, <3>1 DEF IsLines, Increasing
    <3> QED BY <1>2, <2>5, <3>2
  <2>6. ~(i \in m + 1 .. m + n /\ j \in 1 .. m)
    BY <1>2
  <2> QED BY <2>1, <2>2, <2>3, <2>4, <2>5, <2>6
<1>5. IsLines(q) /\ Range(q) = Range(u) \cup Range(w)
  BY <1>1, <1>2, <1>4 DEF IsLines
<1> QED BY <1>5 DEF q

LEMMA HistoryIs ==
  ASSUME NEW s, HistoryOk(s), IsAgent(s)
  PROVE  PlanOk(History(s), << >>, s)
<1> DEFINE h == s.history
           n == Len(h)
           ids == [i \in DOMAIN h |-> h[i].id]
           q == History(s)
<1>1. /\ n \in Nat /\ DOMAIN h = 1 .. n /\ InOrder(h)
      /\ \A i \in 1 .. n : h[i].id \in Int /\ h[i].id <= LastId(s)
  <2>1. n \in Nat /\ DOMAIN h = 1 .. n /\ Range(h) = {h[i] : i \in 1 .. n}
    BY SequenceIs DEF HistoryOk
  <2> QED BY <2>1 DEF HistoryOk, IsRun
<1>2. ids = [i \in 1 .. n |-> ids[i]]
  BY <1>1
<1>3. Len(ids) = n
  <2> HIDE DEF ids, n
  <2> QED BY <1>1, <1>2, FunctionIsSequence
<1>4. q = [i \in 1 .. n |-> h[n - i + 1].id]
  <2>1. q = [i \in 1 .. n |-> ids[n - i + 1]]
    BY <1>3 DEF History, Reverse
  <2>2. \A i \in 1 .. n : n - i + 1 \in 1 .. n
    BY <1>1
  <2> QED BY <1>1, <2>1, <2>2
<1> HIDE DEF q, n, h
<1>5. q = [i \in 1 .. n |-> q[i]] /\ \A i \in 1 .. n : q[i] = h[n - i + 1].id
  BY <1>4
<1>6. IsSequence(q) /\ Len(q) = n
  BY <1>1, <1>5, FunctionIsSequence
<1>7. DOMAIN q = 1 .. n
  BY <1>4
<1>8. \A i \in 1 .. n : n - i + 1 \in 1 .. n
  BY <1>1
<1>9. ASSUME NEW i \in DOMAIN q, NEW j \in DOMAIN q, i < j PROVE q[i] > q[j]
  <2>1. n - j + 1 < n - i + 1 /\ n - j + 1 \in DOMAIN h /\ n - i + 1 \in DOMAIN h
    BY <1>1, <1>7, <1>8, <1>9
  <2>2. h[n - j + 1].id < h[n - i + 1].id
    BY <1>1, <2>1 DEF InOrder
  <2>3. h[n - j + 1].id \in Int /\ h[n - i + 1].id \in Int
    BY <1>1, <2>1
  <2> QED BY <1>5, <1>7, <2>2, <2>3
<1>10. \A i \in DOMAIN q : q[i] \in Int /\ q[i] <= LastId(s)
  BY <1>1, <1>5, <1>7, <1>8
<1>11. PlanOk(q, << >>, s)
  BY <1>6, <1>9, <1>10, EmptyLines DEF PlanOk
<1> QED BY <1>11 DEF q

LEMMA RunLogIs ==
  ASSUME NEW s, HistoryOk(s), NEW id
  PROVE  \/ RunLog(s, id) = << >>
         \/ \E run \in Range(s.history) : run.id = id /\ RunLog(s, id) = run.lines
<1> DEFINE found == {i \in DOMAIN s.history : s.history[i].id = id}
<1>1. CASE found = {}
  BY <1>1 DEF RunLog
<1>2. CASE found # {}
  <2>1. PICK i \in found : TRUE
    BY <1>2
  <2>2. DOMAIN s.history = 1 .. Len(s.history) /\ Len(s.history) \in Nat
        /\ \A k \in DOMAIN s.history : s.history[k].id \in Int
    <3>1. DOMAIN s.history = 1 .. Len(s.history) /\ Len(s.history) \in Nat
          /\ Range(s.history) = {s.history[k] : k \in 1 .. Len(s.history)}
      BY SequenceIs DEF HistoryOk
    <3> QED BY <3>1 DEF HistoryOk, IsRun
  <2>3. \A j \in found : j = i
    <3> SUFFICES ASSUME NEW j \in found, j # i PROVE FALSE
      OBVIOUS
    <3>1. i < j \/ j < i
      BY <2>1, <2>2
    <3>2. s.history[i].id # s.history[j].id
      BY <2>1, <2>2, <3>1 DEF HistoryOk, InOrder
    <3> QED BY <2>1, <3>2
  <2>4. found = {i} /\ i \in Nat
    BY <2>1, <2>2, <2>3
  <2>5. Min(found) = i
    <3>1. \E x \in found : \A y \in found : x <= y
      BY <2>4
    <3> QED BY <2>4, <3>1 DEF Min
  <2>6. RunLog(s, id) = s.history[i].lines
    BY <1>2, <2>5 DEF RunLog
  <2> QED BY <2>1, <2>6 DEF Range
<1> QED BY <1>1, <1>2

LEMMA PlanSteps ==
  ASSUME NEW s, HistoryOk(s), NEW runs, NEW lines, PlanOk(runs, lines, s), runs # << >>,
         NEW fetched, fetched = << >> \/ fetched = RunLog(s, Head(runs))
  PROVE  PlanOk(Tail(runs), fetched \o lines, s)
<1>1. /\ IsSequence(runs) /\ IsLines(lines)
      /\ IsSequence(Tail(runs)) /\ Len(runs) \in Nat \ {0} /\ DOMAIN runs = 1 .. Len(runs)
      /\ DOMAIN Tail(runs) = 1 .. Len(runs) - 1
      /\ \A i \in 1 .. Len(runs) - 1 : Tail(runs)[i] = runs[i + 1] /\ i + 1 \in DOMAIN runs
      /\ Head(runs) = runs[1]
  BY TailIs, SequenceIs DEF PlanOk
<1>2. \/ fetched = << >>
      \/ \E run \in Range(s.history) : run.id = Head(runs) /\ fetched = run.lines
  BY RunLogIs
<1>3. IsLines(fetched)
  BY <1>2, EmptyLines DEF HistoryOk, IsRun
<1>4. Below(fetched, lines)
  BY <1>1, <1>2, EmptyLines DEF PlanOk
<1>5. IsLines(fetched \o lines) /\ Range(fetched \o lines) = Range(fetched) \cup Range(lines)
  BY <1>1, <1>3, <1>4, LinesJoined
<1>6. \A i \in DOMAIN Tail(runs) : Tail(runs)[i] \in Int /\ Tail(runs)[i] <= LastId(s)
  BY <1>1 DEF PlanOk
<1>7. ASSUME NEW i \in DOMAIN Tail(runs), NEW j \in DOMAIN Tail(runs), i < j
      PROVE  Tail(runs)[i] > Tail(runs)[j]
  <2>1. i + 1 < j + 1 /\ i + 1 \in DOMAIN runs /\ j + 1 \in DOMAIN runs
    BY <1>1, <1>7
  <2> QED BY <1>1, <2>1 DEF PlanOk
<1>8. ASSUME NEW i \in DOMAIN Tail(runs), NEW run \in Range(s.history), run.id = Tail(runs)[i]
      PROVE  Below(run.lines, fetched \o lines)
  <2>1. i + 1 \in DOMAIN runs /\ 1 \in DOMAIN runs /\ 1 < i + 1 /\ run.id = runs[i + 1]
    BY <1>1, <1>8
  <2>2. Below(run.lines, lines) /\ run.id < Head(runs)
        /\ runs[i + 1] \in Int /\ runs[1] \in Int
    BY <1>1, <2>1 DEF PlanOk
  <2>3. Below(run.lines, fetched)
    <3>1. CASE fetched = << >>
      BY <3>1, EmptyLines
    <3>2. ASSUME NEW other \in Range(s.history), other.id = Head(runs), fetched = other.lines
          PROVE  Below(run.lines, fetched)
      <4>1. PICK k \in DOMAIN s.history : run = s.history[k]
        BY DEF Range
      <4>2. PICK m \in DOMAIN s.history : other = s.history[m]
        BY DEF Range
      <4>3. k \in Nat /\ m \in Nat
        BY SequenceIs DEF HistoryOk
      <4>4. ~(m < k) /\ m # k
        BY <1>1, <2>1, <2>2, <3>2, <4>1, <4>2 DEF HistoryOk, InOrder
      <4>5. k < m
        BY <4>3, <4>4
      <4> QED BY <3>2, <4>1, <4>2, <4>5 DEF HistoryOk, InOrder
    <3> QED BY <1>2, <3>1, <3>2
  <2> QED BY <1>5, <2>2, <2>3 DEF Below
<1> QED BY <1>1, <1>5, <1>6, <1>7, <1>8 DEF PlanOk

LEMMA FetchedOk ==
  ASSUME ServersOk, TasksOk, HistoriesOk, LogTasksOk,
         NEW task \in DOMAIN tasks, NEW runs, NEW lines, Fetched(task, runs, lines)
  PROVE  /\ PlanOk(runs, lines, server[task.agent]) /\ UNCHANGED server
         /\ task.agent \in Agents
<1> DEFINE s == server[task.agent]
<1>1. task.agent \in Agents /\ UNCHANGED server
  BY DEF Fetched, ExecHistory, ExecLog, TasksOk, IsTask
<1>2. HistoryOk(s) /\ IsAgent(s)
  BY <1>1 DEF HistoriesOk, ServersOk
<1>3. CASE ExecHistory(task) /\ lines = << >> /\ (runs = << >> \/ runs = History(s))
  <2>1. PlanOk(<< >>, << >>, s)
    BY EmptyLines, EmptySequence DEF PlanOk
  <2> QED BY <1>1, <1>2, <1>3, <2>1, HistoryIs
<1>4. ASSUME NEW fetched, ExecLog(task), runs = Tail(task.runs),
             fetched = << >> \/ fetched = RunLog(s, Head(task.runs)),
             lines = fetched \o task.lines
      PROVE  PlanOk(runs, lines, s)
  <2>1. task.runs # << >> /\ PlanOk(task.runs, task.lines, s)
    BY <1>4 DEF ExecLog, LogTasksOk
  <2> HIDE DEF s
  <2> QED BY <1>2, <1>4, <2>1, PlanSteps
<1> QED BY <1>1, <1>3, <1>4 DEF Fetched

LEMMA PlanKept ==
  ASSUME NEW runs, NEW lines, NEW s, NEW w, PlanOk(runs, lines, s), Grows(s, w)
  PROVE  PlanOk(runs, lines, w)
<1>1. \A i \in DOMAIN runs : runs[i] \in Int /\ runs[i] <= LastId(w)
  BY DEF PlanOk, Grows
<1>2. ASSUME NEW i \in DOMAIN runs, NEW run \in Range(w.history), run.id = runs[i]
      PROVE  Below(run.lines, lines)
  <2>1. ~(run.id > LastId(s))
    BY <1>2 DEF PlanOk, Grows
  <2>2. run \in Range(s.history)
    BY <2>1 DEF Grows
  <2> QED BY <1>2, <2>2 DEF PlanOk
<1> QED BY <1>1, <1>2 DEF PlanOk

LEMMA BackfillsNext ==
  ASSUME ListOk, StatusOk, ServersOk, TasksOk, ReportsOk, HistoriesOk, LogTasksOk, BackfillsOk,
         [Next]_vars
  PROVE  LogTasksOk' /\ BackfillsOk'
<1>1. ASSUME NEW t \in DOMAIN tasks', t.verb = "log"
      PROVE  t.runs # << >> /\ PlanOk(t.runs, t.lines, server'[t.agent])
  <2>1. CASE t \in DOMAIN tasks
    <3>1. t.runs # << >> /\ PlanOk(t.runs, t.lines, server[t.agent]) /\ t.agent \in Agents
      BY <1>1, <2>1 DEF LogTasksOk, TasksOk, IsTask
    <3>2. Grows(server[t.agent], server'[t.agent])
      BY <3>1, HistoriesNext
    <3> QED BY <3>1, <3>2, PlanKept
  <2>2. CASE NewTask(t)
    <3>1. t.runs # << >>
      BY <1>1, <2>2 DEF NewTask
    <3>2. PICK task \in DOMAIN tasks : t.agent = task.agent /\ Fetched(task, t.runs, t.lines)
      BY <1>1, <2>2 DEF NewTask
    <3> QED BY <3>1, <3>2, FetchedOk
  <2> QED BY <2>1, <2>2, TaskMoves
<1>2. ASSUME NEW r \in OnTheWay', r.kind = "backfill"
      PROVE  IsLines(r.lines)
  <2>1. CASE r \in OnTheWay
    BY <1>2, <2>1 DEF BackfillsOk
  <2>2. CASE NewReport(r)
    <3>1. PICK task \in DOMAIN tasks : \E runs : Fetched(task, runs, r.lines)
      BY <1>2, <2>2 DEF NewReport, Heard
    <3>2. PICK runs : Fetched(task, runs, r.lines)
      BY <3>1
    <3> QED BY <3>2, FetchedOk DEF PlanOk
  <2> QED BY <1>2, <2>1, <2>2, ReportMoves
<1> QED BY <1>1, <1>2 DEF LogTasksOk, BackfillsOk

-----------------------------------------------------------------------------
(* The two logs. *)

StoredOf(report) ==
  [i \in DOMAIN report.lines |-> [agent |-> report.agent, n |-> report.lines[i], live |-> FALSE]]

LogMoves ==
  \/ AgentLog' = AgentLog /\ MainLog' = MainLog
  \/ AgentLog' = AgentLog /\ MainLog' = PushMain
  \/ AgentLog' = Capped(<< >>) /\ MainLog' = MainLog
  \/ /\ Apply /\ Head(updates).kind = "tail" /\ MainLog' = MainLog
     /\ AgentLog' = Capped(Append(AgentLog, Head(updates).line))
  \/ /\ Apply /\ Head(updates).kind = "backfill" /\ MainLog' = MainLog
     /\ AgentLog' = Capped(StoredOf(Head(updates)) \o AgentLog)

LEMMA PushLogIs ==
  ASSUME PushLog, view'.open = view.open
  PROVE  AgentLog' = AgentLog /\ MainLog' = PushMain
BY DEF PushLog, AgentLog, MainLog

LEMMA SetAgentLogIs ==
  ASSUME NEW lines, SetAgentLog(lines), view'.open = view.open
  PROVE  AgentLog' = Capped(lines) /\ MainLog' = MainLog
BY DEF SetAgentLog, AgentLog, MainLog

LEMMA LogsMove ==
  ASSUME ListOk, ReportsOk, [Next]_vars
  PROVE  LogMoves
<1>0. DOMAIN view = ViewFields
  BY DEF ListOk
<1>1. \/ view'.open = view.open
      \/ Open \/ Close
  BY ViewMoves, CycleIs, FoundIs, HeadIsReport, ApplyIs DEF ListKept
<1>a. ASSUME UNCHANGED << log, stash >>, view'.open = view.open PROVE LogMoves
  BY <1>a DEF LogMoves, AgentLog, MainLog
<1>2. CASE Open
  BY <1>2, OpenIs DEF LogMoves, AgentLog, MainLog, Open, SwapLogs
<1>3. CASE Close
  <2>1. view.open /\ ~view'.open /\ SwapLogs
    BY <1>0, <1>3 DEF Close, ViewFields
  <2> QED BY <2>1 DEF LogMoves, AgentLog, MainLog, SwapLogs
<1>4. CASE \E next \in DOMAIN agents : Cycle(next)
  <2>1. SetAgentLog(<< >>) /\ view'.open = view.open
    BY <1>4, CycleIs DEF Cycle
  <2> QED BY <2>1, SetAgentLogIs DEF LogMoves
<1>5. CASE Apply /\ view'.open = view.open
  <2> DEFINE report == Head(updates)
  <2>2. \/ ApplyStatus(report) \/ ApplyOp(report) \/ ApplyFound(report) \/ ApplyTail(report)
        \/ ApplyBackfill(report)
    BY <1>5 DEF Apply
  <2>3. CASE ApplyOp(report)
    BY <1>5, <2>3, PushLogIs DEF ApplyOp, LogMoves
  <2>4. CASE ApplyFound(report)
    <3>1. PushLog \/ UNCHANGED << log, stash >>
      BY <2>4 DEF ApplyFound
    <3> QED BY <1>5, <1>a, <3>1, PushLogIs DEF LogMoves
  <2>5. CASE ApplyTail(report)
    <3>1. SetAgentLog(Append(AgentLog, report.line)) /\ report.kind = "tail"
      BY <2>5 DEF ApplyTail
    <3> QED BY <1>5, <3>1, SetAgentLogIs DEF LogMoves
  <2>6. CASE ApplyBackfill(report)
    <3>1. SetAgentLog(StoredOf(report) \o AgentLog) /\ report.kind = "backfill"
      BY <2>6 DEF ApplyBackfill, StoredOf
    <3> QED BY <1>5, <3>1, SetAgentLogIs DEF LogMoves
  <2>7. CASE ApplyStatus(report)
    BY <1>5, <1>a, <2>7 DEF ApplyStatus
  <2> QED BY <2>2, <2>3, <2>4, <2>5, <2>6, <2>7
<1>6. ASSUME ~(Open \/ Close \/ Apply), ~\E next \in DOMAIN agents : Cycle(next)
      PROVE  LogMoves
  <2>1. UNCHANGED << log, stash >>
    <3>1. CASE Remote \/ Deliver \/ Follow \/ TickFetch \/ TickTail \/ UNCHANGED vars
      BY <3>1 DEF Remote, StartRun, Say, EndRun, GoDown, ComeBack, client, Deliver, Follow, Hear,
                  TickFetch, TickTail, vars
    <3>2. CASE RunTask
      BY <3>2 DEF RunTask, Exec, ExecHistory, ExecLog, ExecScan
    <3>3. CASE Keys
      BY <1>6, <3>3 DEF Keys, Refresh, Select, Enter, Unarm, Operate
    <3> QED BY <1>6, <3>1, <3>2, <3>3 DEF Next
  <2> QED BY <1>1, <1>6, <1>a, <2>1
<1> QED BY <1>1, <1>2, <1>3, <1>4, <1>5, <1>6

LEMMA CappedIs ==
  ASSUME NEW s, IsSequence(s)
  PROVE  /\ IsSequence(Capped(s)) /\ Len(Capped(s)) \in 0 .. LogCap
         /\ Range(Capped(s)) \subseteq Range(s)
<1>1. LogCap \in Nat
  BY BoundsAssumption
<1> QED BY <1>1, LastOfIs DEF Capped

LEMMA StoredIs ==
  ASSUME NEW report, IsSequence(report.lines)
  PROVE  /\ IsSequence(StoredOf(report))
         /\ \A e \in Range(StoredOf(report)) : e.agent = report.agent /\ ~e.live
         /\ \A i \in DOMAIN StoredOf(report) : ~StoredOf(report)[i].live
<1> DEFINE n == Len(report.lines)
           q == StoredOf(report)
<1>1. n \in Nat /\ DOMAIN report.lines = 1 .. n
  BY SequenceIs
<1>2. q = [i \in 1 .. n |-> [agent |-> report.agent, n |-> report.lines[i], live |-> FALSE]]
  BY <1>1 DEF StoredOf
<1>3. \A i \in 1 .. n : q[i].agent = report.agent /\ ~q[i].live
  BY <1>2
<1>4. q = [i \in 1 .. n |-> q[i]] /\ DOMAIN q = 1 .. n
  BY <1>2
<1> HIDE DEF q, n
<1>5. IsSequence(q) /\ Range(q) = {q[i] : i \in 1 .. n}
  BY <1>1, <1>4, FunctionIsSequence
<1> QED BY <1>3, <1>4, <1>5 DEF q

(* Both logs are sequences; LogsApart says whose lines they have.          *)
Logs ==
  /\ IsSequence(AgentLog) /\ IsSequence(MainLog)
  /\ \A e \in Range(AgentLog) : e.agent # None
  /\ \A e \in Range(MainLog) : e.agent = None
  /\ Len(AgentLog) \in 0 .. LogCap /\ Len(MainLog) \in 0 .. LogCap

LEMMA LogsNext ==
  ASSUME ListOk, ReportsOk, BackfillsOk, Logs, [Next]_vars
  PROVE  Logs'
<1>1. CASE AgentLog' = AgentLog /\ MainLog' = MainLog
  BY <1>1 DEF Logs
<1>2. CASE AgentLog' = AgentLog /\ MainLog' = PushMain
  <2> DEFINE e == [agent |-> None, n |-> 0, live |-> FALSE]
             q == Append(MainLog, e)
  <2>1. PushMain = Capped(q) /\ e.agent = None
    BY DEF PushMain
  <2> HIDE DEF e
  <2>2. IsSequence(q) /\ Range(q) = Range(MainLog) \cup {e}
    BY AppendIs DEF Logs
  <2> HIDE DEF q
  <2>3. PICK m : m = MainLog'
    OBVIOUS
  <2>4. /\ IsSequence(m) /\ Len(m) \in 0 .. LogCap /\ \A x \in Range(m) : x.agent = None
    BY <1>2, <2>1, <2>2, <2>3, CappedIs DEF Logs
  <2> QED BY <1>2, <2>3, <2>4 DEF Logs
<1>a. ASSUME NEW q, IsSequence(q), \A x \in Range(q) : x.agent # None,
             AgentLog' = Capped(q), MainLog' = MainLog
      PROVE  Logs'
  <2>1. PICK m : m = AgentLog'
    OBVIOUS
  <2>2. /\ IsSequence(m) /\ Len(m) \in 0 .. LogCap /\ \A x \in Range(m) : x.agent # None
    BY <1>a, <2>1, CappedIs
  <2> QED BY <1>a, <2>1, <2>2 DEF Logs
<1>3. CASE AgentLog' = Capped(<< >>) /\ MainLog' = MainLog
  BY <1>3, <1>a, EmptySequence
<1> DEFINE report == Head(updates)
<1>4. Apply => IsReport(report) /\ report \in OnTheWay
  BY HeadIsReport, ApplyIs, TailIs DEF ReportsOk, OnTheWay
<1>5. CASE /\ Apply /\ report.kind = "tail" /\ MainLog' = MainLog
           /\ AgentLog' = Capped(Append(AgentLog, report.line))
  <2>1. report.line.agent # None
    BY <1>4, <1>5, AgentsAssumption DEF IsReport
  <2> HIDE DEF report
  <2>2. /\ IsSequence(Append(AgentLog, report.line))
        /\ Range(Append(AgentLog, report.line)) = Range(AgentLog) \cup {report.line}
    BY AppendIs DEF Logs
  <2> QED BY <1>5, <1>a, <2>1, <2>2 DEF Logs
<1>6. CASE /\ Apply /\ report.kind = "backfill" /\ MainLog' = MainLog
           /\ AgentLog' = Capped(StoredOf(report) \o AgentLog)
  <2>1. report.agent # None /\ IsSequence(report.lines)
    BY <1>4, <1>6, AgentsAssumption DEF IsReport, BackfillsOk, IsLines
  <2> HIDE DEF report
  <2>2. /\ IsSequence(StoredOf(report))
        /\ \A e \in Range(StoredOf(report)) : e.agent # None
    BY <2>1, StoredIs
  <2>3. /\ IsSequence(StoredOf(report) \o AgentLog)
        /\ Range(StoredOf(report) \o AgentLog) = Range(StoredOf(report)) \cup Range(AgentLog)
    BY <2>2, ConcatIs DEF Logs
  <2> QED BY <1>6, <1>a, <2>2, <2>3 DEF Logs
<1> QED BY <1>1, <1>2, <1>3, <1>5, <1>6, LogsMove DEF LogMoves

LEMMA LogsAreApart ==
  ASSUME Logs
  PROVE  LogsApart
BY DEF Logs, LogsApart, AgentLog, MainLog

-----------------------------------------------------------------------------
(* The lines that came live. *)

Ahead(e, f) == e.live /\ f.live /\ e.agent = f.agent => e.n < f.n

InLine(s) == \A i, j \in DOMAIN s : i < j => Ahead(s[i], s[j])

(* A line that came was said, and no tail has still to come to it.         *)
Came(e) ==
  e.live => /\ e.agent \in Agents /\ e.n \in Nat /\ e.n <= server[e.agent].said
            /\ \A t \in tails.running : t.agent = e.agent /\ t.at # None => e.n <= t.at

(* The log's lines come before those on the way, in the order they came.   *)
Aligned(lines, sent) ==
  /\ InLine(lines)
  /\ \A e \in Range(lines), r \in Range(sent) : r.kind = "tail" => Ahead(e, r.line)
  /\ \A i, j \in DOMAIN sent :
       i < j /\ sent[i].kind = "tail" /\ sent[j].kind = "tail"
         => Ahead(sent[i].line, sent[j].line)

(* Both come before what the tail has still to read.                       *)
LiveInOrder ==
  /\ Aligned(AgentLog, updates)
  /\ \A e \in Range(AgentLog) : Came(e)
  /\ \A r \in Range(updates) : r.kind = "tail" => Came(r.line)

LEMMA LastOfInLine ==
  ASSUME NEW h, IsSequence(h), InLine(h), NEW k \in Nat
  PROVE  InLine(LastOf(h, k))
<1> DEFINE q == LastOf(h, k)
<1>1. /\ IsSequence(q)
      /\ \E d \in Nat : /\ Len(q) = Len(h) - d
                        /\ \A i \in 1 .. Len(q) : i + d \in 1 .. Len(h) /\ q[i] = h[i + d]
  BY LastOfIs
<1> HIDE DEF q
<1>2. PICK d \in Nat : \A i \in 1 .. Len(q) : i + d \in 1 .. Len(h) /\ q[i] = h[i + d]
  BY <1>1
<1>3. DOMAIN q = 1 .. Len(q) /\ DOMAIN h = 1 .. Len(h) /\ Len(q) \in Nat /\ Len(h) \in Nat
  BY <1>1, SequenceIs
<1>4. InLine(q)
  <2> SUFFICES ASSUME NEW i \in DOMAIN q, NEW j \in DOMAIN q, i < j PROVE Ahead(q[i], q[j])
    BY DEF InLine
  <2>1. i + d \in DOMAIN h /\ j + d \in DOMAIN h /\ i + d < j + d
    BY <1>2, <1>3
  <2>2. Ahead(h[i + d], h[j + d])
    BY <2>1 DEF InLine
  <2> QED BY <1>2, <1>3, <2>2
<1> QED BY <1>4 DEF q

LEMMA AppendInLine ==
  ASSUME NEW s, IsSequence(s), InLine(s), NEW x, \A e \in Range(s) : Ahead(e, x)
  PROVE  InLine(Append(s, x))
<1> DEFINE q == Append(s, x)
<1>1. /\ Len(s) \in Nat /\ DOMAIN q = 1 .. Len(s) + 1
      /\ \A i \in 1 .. Len(s) : q[i] = s[i]
      /\ q[Len(s) + 1] = x
  BY AppendIs
<1>2. DOMAIN s = 1 .. Len(s) /\ \A i \in 1 .. Len(s) : s[i] \in Range(s)
  BY SequenceIs
<1> HIDE DEF q
<1>3. InLine(q)
  <2> SUFFICES ASSUME NEW i \in DOMAIN q, NEW j \in DOMAIN q, i < j PROVE Ahead(q[i], q[j])
    BY DEF InLine
  <2>1. i \in 1 .. Len(s) /\ (j \in 1 .. Len(s) \/ j = Len(s) + 1)
    BY <1>1
  <2> QED BY <1>1, <1>2, <2>1 DEF InLine
<1> QED BY <1>3 DEF q

LEMMA StoredInLine ==
  ASSUME NEW u, NEW s, IsSequence(u), IsSequence(s), InLine(s), \A i \in DOMAIN u : ~u[i].live
  PROVE  InLine(u \o s)
<1> DEFINE q == u \o s
           m == Len(u)
           n == Len(s)
<1>1. /\ m \in Nat /\ n \in Nat /\ DOMAIN q = 1 .. m + n
      /\ \A i \in 1 .. m : q[i] = u[i]
      /\ \A i \in m + 1 .. m + n : i - m \in 1 .. n /\ q[i] = s[i - m]
  BY ConcatIs
<1>2. DOMAIN u = 1 .. m /\ DOMAIN s = 1 .. n
  BY SequenceIs
<1> HIDE DEF q, m, n
<1>3. InLine(q)
  <2> SUFFICES ASSUME NEW i \in DOMAIN q, NEW j \in DOMAIN q, i < j PROVE Ahead(q[i], q[j])
    BY DEF InLine
  <2>1. CASE i \in 1 .. m
    BY <1>1, <1>2, <2>1 DEF Ahead
  <2>2. CASE i \in m + 1 .. m + n
    <3>1. i - m \in 1 .. n /\ j - m \in 1 .. n /\ i - m < j - m
          /\ q[i] = s[i - m] /\ q[j] = s[j - m]
      BY <1>1, <2>2
    <3>2. Ahead(s[i - m], s[j - m])
      BY <1>2, <3>1 DEF InLine
    <3> QED BY <3>1, <3>2
  <2> QED BY <1>1, <2>1, <2>2
<1> QED BY <1>3 DEF q

(* A tail that follows an agent has come at least as far as one before it. *)
LEMMA TailsAdvance ==
  ASSUME ListOk, ServersOk, TasksOk, ReportsOk, TailsOk, StatusOk, [Next]_vars,
         NEW t \in tails'.running, t.at # None
  PROVE  /\ t.agent \in Agents /\ t.at \in Nat
         /\ \/ t.at >= server[t.agent].said
            \/ \E u \in tails.running : u.agent = t.agent /\ u.at # None /\ u.at <= t.at
<1>0. tails.running \subseteq {tails.held} /\ \A u \in tails.running : IsTail(u, server)
  BY DEF TailsOk
<1>1. TailsOk'
  BY TailsNext
<1>2. IsTail(t, server')
  BY <1>1 DEF TailsOk
<1>3. t.agent \in Agents /\ t.at \in Nat
  BY <1>2 DEF IsTail
<1>4. server[t.agent].said \in Nat
  BY <1>3 DEF ServersOk, IsAgent
<1>a. ASSUME NEW a \in Agents, tails' = StartTail(a)
      PROVE  t.at >= server[t.agent].said
  <2> DEFINE w == StartTail(a)
  <2>1. w.running = {w.held} /\ w.held.agent = a
        /\ w.held.at = IF server[a].up THEN server[a].said ELSE None
    BY <1>0, <1>a, StartTailIs
  <2> HIDE DEF w
  <2>2. t = w.held
    BY <1>a, <2>1 DEF w
  <2> QED BY <1>4, <2>1, <2>2
<1>5. CASE UNCHANGED tails
  BY <1>3, <1>5
<1>6. CASE Open
  <2>1. CASE Current # None
    <3>1. tails' = StartTail(Current) /\ Current \in Agents
      BY <1>6, <2>1, AgentIsCurrent DEF Open
    <3> QED BY <1>3, <1>a, <3>1
  <2>2. CASE Current = None
    BY <1>5, <1>6, <2>2 DEF Open
  <2> QED BY <2>1, <2>2
<1>7. CASE Close
  <2>1. tails' = StopTail
    BY <1>7 DEF Close
  <2> QED BY <1>0, <2>1, StopTailIs
<1>8. CASE \E next \in DOMAIN agents : Cycle(next)
  <2>1. PICK next \in DOMAIN agents : Cycle(next)
    BY <1>8
  <2>2. tails' = StartTail(agents[next]) /\ agents[next] \in Agents
    BY <2>1, CycleIs DEF Cycle
  <2> QED BY <1>3, <1>a, <2>2
<1>9. ASSUME NEW a \in Agents, GoDown(a)
      PROVE  \E u \in tails.running : u.agent = t.agent /\ u.at # None /\ u.at <= t.at
  <2> DEFINE Cut(x) == IF x # None /\ x.agent = a THEN [x EXCEPT !.at = None] ELSE x
  <2>1. tails'.running = {Cut(x) : x \in tails.running}
    BY <1>9 DEF GoDown
  <2>2. PICK u \in tails.running : t = Cut(u)
    BY <2>1
  <2>3. DOMAIN u = {"agent", "at"}
    BY <1>0 DEF IsTail
  <2>4. t = u
    BY <2>2, <2>3
  <2> QED BY <1>3, <2>4
<1>10. ASSUME NEW tail \in tails.running, Hear(tail)
      PROVE  \E u \in tails.running : u.agent = t.agent /\ u.at # None /\ u.at <= t.at
  <2>1. PICK r : /\ Heard(tail, r)
                 /\ t \in tails.running \ {tail} \/ t = [tail EXCEPT !.at = r.line.n]
    BY <1>10, HearIs DEF ReportsOk
  <2>2. CASE t \in tails.running
    BY <1>3, <2>2
  <2>3. CASE t = [tail EXCEPT !.at = r.line.n]
    <3>1. DOMAIN tail = {"agent", "at"} /\ tail.at \in Nat /\ tail.at # None
          /\ server[tail.agent].said \in Nat
      BY <1>0, <1>10, HearIs DEF IsTail, ReportsOk, ServersOk, IsAgent
    <3>2. t.agent = tail.agent /\ t.at = r.line.n
      BY <2>3, <3>1
    <3>3. tail.at <= r.line.n
      BY <2>1, <3>1 DEF Heard
    <3> QED BY <3>1, <3>2, <3>3
  <2> QED BY <2>1, <2>2, <2>3
<1>11. CASE TickTail
  <2>1. tails' = StartTail(Current) /\ view.open /\ tails.held # None
    BY <1>11 DEF TickTail, TailDue
  <2>2. Current \in Agents
    BY <2>1, AgentIsCurrent DEF TailsOk
  <2> QED BY <1>3, <1>a, <2>1, <2>2
<1>12. CASE Apply /\ ApplyFound(Head(updates))
  <2> DEFINE report == Head(updates)
  <2>1. IsReport(report) /\ ApplyFound(report)
    BY <1>12, HeadIsReport, ApplyIs
  <2> HIDE DEF report
  <2>2. UNCHANGED tails \/ (tails' = StartTail(FirstOf(report)))
    BY <2>1 DEF ApplyFound, FirstOf, NewOf
  <2>3. FirstOf(report) \in Agents \cup {None}
    BY <2>1, FirstIs
  <2>4. CASE FirstOf(report) = None /\ ~UNCHANGED tails
    <3>1. tails' = StopTail
      BY <2>2, <2>4 DEF StartTail
    <3> QED BY <1>0, <3>1, StopTailIs
  <2> QED BY <1>3, <1>5, <1>a, <2>2, <2>3, <2>4
<1> QED BY <1>3, <1>5, <1>6, <1>7, <1>8, <1>9, <1>10, <1>11, <1>12, TailMoves

LEMMA UpdatesMove ==
  ASSUME ReportsOk, [Next]_vars
  PROVE  \/ UNCHANGED updates
         \/ Apply
         \/ \E r \in reply : updates' = Append(updates, r)
         \/ \E tail \in tails.running : \E r :
              /\ Hear(tail) /\ Heard(tail, r) /\ updates' = Append(updates, r)
              /\ \A t \in tails'.running :
                   t \in tails.running \ {tail} \/ t = [tail EXCEPT !.at = r.line.n]
<1>1. CASE Remote \/ TickFetch \/ TickTail \/ UNCHANGED vars
  BY <1>1 DEF Remote, StartRun, Say, EndRun, GoDown, ComeBack, channel, TickFetch, TickTail, vars
<1>2. CASE Keys
  BY <1>2 DEF Keys, Open, Close, Refresh, Select, Enter, Unarm, Cycle, Operate, Other, channel
<1>3. CASE RunTask
  BY <1>3 DEF RunTask, Exec, ExecHistory, ExecLog, ExecScan
<1>4. CASE Deliver
  BY <1>4 DEF Deliver
<1>5. ASSUME NEW tail \in tails.running, Hear(tail)
      PROVE  \/ UNCHANGED updates
             \/ \E r : /\ Hear(tail) /\ Heard(tail, r) /\ updates' = Append(updates, r)
                       /\ \A t \in tails'.running :
                            t \in tails.running \ {tail} \/ t = [tail EXCEPT !.at = r.line.n]
  BY <1>5, HearIs DEF ReportsOk
<1> QED BY <1>1, <1>2, <1>3, <1>4, <1>5 DEF Next, Follow

LEMMA CappedInLine ==
  ASSUME NEW s, IsSequence(s), InLine(s)
  PROVE  InLine(Capped(s))
<1>1. LogCap \in Nat
  BY BoundsAssumption
<1> QED BY <1>1, LastOfInLine DEF Capped

LEMMA AlignedTail ==
  ASSUME NEW lines, NEW sent, Aligned(lines, sent), IsSequence(sent), sent # << >>
  PROVE  /\ Aligned(lines, Tail(sent))
         /\ \A r \in Range(Tail(sent)) :
              Head(sent).kind = "tail" /\ r.kind = "tail" => Ahead(Head(sent).line, r.line)
<1> DEFINE q == Tail(sent)
           n == Len(sent)
<1>1. /\ n \in Nat \ {0} /\ DOMAIN q = 1 .. n - 1 /\ IsSequence(q)
      /\ \A i \in 1 .. n - 1 : q[i] = sent[i + 1]
      /\ Head(sent) = sent[1] /\ Range(q) \subseteq Range(sent)
  BY TailIs
<1>2. DOMAIN sent = 1 .. n
  BY SequenceIs
<1>3. Range(q) = {q[i] : i \in DOMAIN q}
  BY DEF Range
<1> HIDE DEF q, n
<1>4. ASSUME NEW i \in DOMAIN q, NEW j \in DOMAIN q, i < j, q[i].kind = "tail", q[j].kind = "tail"
      PROVE  Ahead(q[i].line, q[j].line)
  <2>1. i + 1 \in DOMAIN sent /\ j + 1 \in DOMAIN sent /\ i + 1 < j + 1
        /\ q[i] = sent[i + 1] /\ q[j] = sent[j + 1]
    BY <1>1, <1>2, <1>4
  <2> QED BY <1>4, <2>1 DEF Aligned
<1>5. ASSUME NEW r \in Range(q), Head(sent).kind = "tail", r.kind = "tail"
      PROVE  Ahead(Head(sent).line, r.line)
  <2>1. PICK i \in DOMAIN q : r = q[i]
    BY <1>3
  <2>2. i + 1 \in DOMAIN sent /\ 1 \in DOMAIN sent /\ 1 < i + 1 /\ r = sent[i + 1]
    BY <1>1, <1>2, <2>1
  <2> QED BY <1>1, <1>5, <2>2 DEF Aligned
<1>6. Aligned(lines, q)
  BY <1>1, <1>4 DEF Aligned
<1> QED BY <1>5, <1>6 DEF q

LEMMA AlignedAppend ==
  ASSUME NEW lines, NEW sent, Aligned(lines, sent), IsSequence(sent), NEW r,
         r.kind = "tail" => /\ \A e \in Range(lines) : Ahead(e, r.line)
                            /\ \A q \in Range(sent) : q.kind = "tail" => Ahead(q.line, r.line)
  PROVE  Aligned(lines, Append(sent, r))
<1> DEFINE q == Append(sent, r)
           n == Len(sent)
<1>1. /\ n \in Nat /\ DOMAIN q = 1 .. n + 1 /\ \A i \in 1 .. n : q[i] = sent[i]
      /\ q[n + 1] = r /\ Range(q) = Range(sent) \cup {r}
  BY AppendIs
<1>2. DOMAIN sent = 1 .. n /\ \A i \in 1 .. n : sent[i] \in Range(sent)
  BY SequenceIs
<1> HIDE DEF q, n
<1>3. ASSUME NEW i \in DOMAIN q, NEW j \in DOMAIN q, i < j, q[i].kind = "tail", q[j].kind = "tail"
      PROVE  Ahead(q[i].line, q[j].line)
  <2>1. i \in 1 .. n /\ (j \in 1 .. n \/ j = n + 1)
    BY <1>1, <1>3
  <2>2. CASE j \in 1 .. n
    BY <1>1, <1>2, <1>3, <2>1, <2>2 DEF Aligned
  <2>3. CASE j = n + 1
    BY <1>1, <1>2, <1>3, <2>1, <2>3
  <2> QED BY <2>1, <2>2, <2>3
<1>4. Aligned(lines, q)
  BY <1>1, <1>3 DEF Aligned
<1> QED BY <1>4 DEF q

LEMMA AlignedLog ==
  ASSUME NEW lines, NEW sent, Aligned(lines, sent), NEW s, InLine(s),
         \A e \in Range(s) :
           e \in Range(lines) \/ \A r \in Range(sent) : r.kind = "tail" => Ahead(e, r.line)
  PROVE  Aligned(s, sent)
BY DEF Aligned

(* What came has come.                                                     *)
LEMMA CameStays ==
  ASSUME ListOk, ServersOk, TasksOk, ReportsOk, TailsOk, StatusOk, [Next]_vars, NEW e, Came(e)
  PROVE  Came(e)'
<1> SUFFICES ASSUME e.live PROVE Came(e)'
  BY DEF Came
<1>1. e.agent \in Agents /\ e.n \in Nat /\ e.n <= server[e.agent].said
  BY DEF Came
<1>2. server[e.agent].said <= server'[e.agent].said /\ server[e.agent].said \in Nat
      /\ server'[e.agent].said \in Nat
  BY <1>1, ServersNext DEF ServersOk, IsAgent
<1>3. ASSUME NEW t \in tails'.running, t.agent = e.agent, t.at # None
      PROVE  e.n <= t.at
  <2>1. /\ t.at \in Nat
        /\ \/ t.at >= server[t.agent].said
           \/ \E u \in tails.running : u.agent = t.agent /\ u.at # None /\ u.at <= t.at
    BY <1>3, TailsAdvance
  <2>2. CASE t.at >= server[t.agent].said
    BY <1>1, <1>2, <1>3, <2>1, <2>2
  <2>3. CASE \E u \in tails.running : u.agent = t.agent /\ u.at # None /\ u.at <= t.at
    <3>1. PICK u \in tails.running : u.agent = t.agent /\ u.at # None /\ u.at <= t.at
      BY <2>3
    <3>2. u.at \in Nat /\ e.n <= u.at
      BY <1>3, <3>1 DEF Came, TailsOk, IsTail
    <3> QED BY <1>1, <2>1, <3>1, <3>2
  <2> QED BY <2>1, <2>2, <2>3
<1>4. e.n <= server'[e.agent].said
  BY <1>1, <1>2
<1> QED BY <1>1, <1>3, <1>4 DEF Came

(* A line heard comes after all that came.                                 *)
LEMMA HeardComes ==
  ASSUME ListOk, ServersOk, TasksOk, ReportsOk, TailsOk, StatusOk, [Next]_vars,
         NEW tail \in tails.running, Hear(tail), NEW r, Heard(tail, r),
         \A t \in tails'.running : t \in tails.running \ {tail} \/ t = [tail EXCEPT !.at = r.line.n]
  PROVE  Came(r.line)' /\ \A e : Came(e) => Ahead(e, r.line)
<1>1. /\ IsTail(tail, server) /\ tails.running = {tail} /\ tail.at # None
  BY HearIs DEF TailsOk, ReportsOk
<1>2. tail.agent \in Agents /\ tail.at \in Nat /\ DOMAIN tail = {"agent", "at"}
  BY <1>1 DEF IsTail
<1>3. /\ server[tail.agent].said <= server'[tail.agent].said
      /\ server[tail.agent].said \in Nat /\ server'[tail.agent].said \in Nat
  BY <1>2, ServersNext DEF ServersOk, IsAgent
<1>4. r.line.agent = tail.agent /\ r.line.n \in Nat /\ r.line.n > tail.at
      /\ r.line.n <= server[tail.agent].said
  BY <1>2, <1>3 DEF Heard
<1>5. \A e : Came(e) => Ahead(e, r.line)
  <2> SUFFICES ASSUME NEW e, Came(e), e.live, e.agent = r.line.agent PROVE e.n < r.line.n
    BY DEF Ahead
  <2>1. e.n \in Nat /\ e.n <= tail.at
    BY <1>1, <1>4 DEF Came
  <2> QED BY <1>2, <1>4, <2>1
<1>6. ASSUME NEW t \in tails'.running PROVE r.line.n <= t.at
  <2>1. t = [tail EXCEPT !.at = r.line.n]
    BY <1>1, <1>6
  <2> QED BY <1>2, <1>4, <2>1
<1>7. r.line.n <= server'[r.line.agent].said
  BY <1>3, <1>4
<1>8. Came(r.line)'
  BY <1>2, <1>4, <1>6, <1>7 DEF Came
<1> QED BY <1>5, <1>8

LEMMA LiveNext ==
  ASSUME ListOk, ServersOk, TasksOk, ReportsOk, TailsOk, StatusOk, BackfillsOk, Logs, LiveInOrder,
         [Next]_vars
  PROVE  LiveInOrder'
<1>1. /\ IsSequence(updates) /\ IsSequence(AgentLog) /\ Aligned(AgentLog, updates)
      /\ InLine(AgentLog)
  BY DEF ReportsOk, Logs, LiveInOrder, Aligned
<1>2. PICK lines, sent : lines = AgentLog' /\ sent = updates'
  OBVIOUS
<1>a. ASSUME Aligned(lines, sent),
             \A e \in Range(lines) : Came(e)',
             \A r \in Range(sent) : r.kind = "tail" => Came(r.line)'
      PROVE  LiveInOrder'
  BY <1>2, <1>a DEF LiveInOrder
<1>3. \A e : Came(e) => Came(e)'
  BY CameStays
<1>4. CASE Apply
  <2> DEFINE report == Head(updates)
  <2>1. updates # << >> /\ sent = Tail(updates)
    BY <1>2, <1>4, ApplyIs
  <2>2. /\ report \in Range(updates) /\ Range(sent) \subseteq Range(updates)
        /\ IsReport(report) /\ report \in OnTheWay
    BY <1>1, <2>1, TailIs, HeadIsReport DEF OnTheWay
  <2>3. /\ Aligned(AgentLog, sent)
        /\ \A r \in Range(sent) :
             report.kind = "tail" /\ r.kind = "tail" => Ahead(report.line, r.line)
    BY <1>1, <2>1, AlignedTail
  <2>4. \A r \in Range(sent) : r.kind = "tail" => Came(r.line)'
    BY <1>3, <2>2 DEF LiveInOrder
  <2> HIDE DEF report
  <2>b. ASSUME NEW s, IsSequence(s), InLine(s), lines = Capped(s),
               \A e \in Range(s) :
                  \/ e \in Range(AgentLog)
                  \/ Came(e) /\ \A r \in Range(sent) : r.kind = "tail" => Ahead(e, r.line)
        PROVE  LiveInOrder'
    <3>1. InLine(lines) /\ Range(lines) \subseteq Range(s)
      BY <2>b, CappedIs, CappedInLine
    <3>2. Aligned(lines, sent)
      BY <2>3, <2>b, <3>1, AlignedLog
    <3>3. \A e \in Range(lines) : Came(e)'
      BY <1>3, <2>b, <3>1 DEF LiveInOrder
    <3> QED BY <1>a, <2>4, <3>2, <3>3
  <2>5. CASE AgentLog' = AgentLog
    <3>1. \A e \in Range(lines) : Came(e)'
      BY <1>2, <1>3, <2>5 DEF LiveInOrder
    <3> QED BY <1>2, <1>a, <2>3, <2>4, <2>5, <3>1
  <2>6. CASE AgentLog' = Capped(<< >>)
    <3>1. InLine(<< >>)
      BY DEF InLine
    <3> QED BY <1>2, <2>6, <2>b, <3>1, EmptySequence
  <2>7. CASE report.kind = "tail" /\ AgentLog' = Capped(Append(AgentLog, report.line))
    <3> DEFINE s == Append(AgentLog, report.line)
    <3>1. IsSequence(s) /\ Range(s) = Range(AgentLog) \cup {report.line}
      BY <1>1, AppendIs
    <3>2. \A e \in Range(AgentLog) : Ahead(e, report.line)
      BY <1>1, <2>2, <2>7 DEF Aligned
    <3>3. InLine(s)
      BY <1>1, <3>2, AppendInLine
    <3>4. Came(report.line)
      BY <2>2, <2>7 DEF LiveInOrder
    <3> HIDE DEF s
    <3>5. lines = Capped(s)
      BY <1>2, <2>7 DEF s
    <3> QED BY <2>3, <2>7, <2>b, <3>1, <3>3, <3>4, <3>5
  <2>8. CASE report.kind = "backfill" /\ AgentLog' = Capped(StoredOf(report) \o AgentLog)
    <3> DEFINE s == StoredOf(report) \o AgentLog
    <3>1. IsSequence(report.lines)
      BY <2>2, <2>8 DEF BackfillsOk, IsLines
    <3>2. /\ IsSequence(StoredOf(report))
          /\ \A e \in Range(StoredOf(report)) : e.agent = report.agent /\ ~e.live
          /\ \A i \in DOMAIN StoredOf(report) : ~StoredOf(report)[i].live
      BY <3>1, StoredIs
    <3>3. IsSequence(s) /\ Range(s) = Range(StoredOf(report)) \cup Range(AgentLog)
      BY <1>1, <3>2, ConcatIs
    <3>4. InLine(s)
      BY <1>1, <3>2, StoredInLine
    <3>5. \A e : ~e.live => Came(e) /\ \A f : Ahead(e, f)
      BY DEF Came, Ahead
    <3> HIDE DEF s
    <3>6. lines = Capped(s)
      BY <1>2, <2>8 DEF s
    <3> QED BY <2>b, <3>2, <3>3, <3>4, <3>5, <3>6
  <2> QED BY <2>5, <2>6, <2>7, <2>8, LogsMove DEF LogMoves, report
<1>5. CASE ~Apply
  <2>1. AgentLog' = AgentLog \/ AgentLog' = Capped(<< >>)
    BY <1>5, LogsMove DEF LogMoves
  <2>2. InLine(lines) /\ Range(lines) \subseteq Range(AgentLog)
    <3>1. InLine(<< >>)
      BY DEF InLine
    <3> QED BY <1>1, <1>2, <2>1, <3>1, EmptySequence, CappedIs, CappedInLine
  <2>3. \A e \in Range(lines) : Came(e)'
    BY <1>3, <2>2 DEF LiveInOrder
  <2>b. ASSUME Aligned(AgentLog, sent), \A r \in Range(sent) : r.kind = "tail" => Came(r.line)'
        PROVE  LiveInOrder'
    <3>1. Aligned(lines, sent)
      BY <2>2, <2>b, AlignedLog
    <3> QED BY <1>a, <2>3, <2>b, <3>1
  <2>4. CASE UNCHANGED updates
    BY <1>1, <1>2, <1>3, <2>4, <2>b DEF LiveInOrder
  <2>c. ASSUME NEW r, sent = Append(updates, r),
               r.kind = "tail" => Came(r.line)' /\ \A e : Came(e) => Ahead(e, r.line)
        PROVE  LiveInOrder'
    <3>1. Aligned(AgentLog, sent)
      BY <1>1, <2>c, AlignedAppend DEF LiveInOrder
    <3>2. Range(sent) = Range(updates) \cup {r}
      BY <1>1, <2>c, AppendIs
    <3> QED BY <1>3, <2>b, <2>c, <3>1, <3>2 DEF LiveInOrder
  <2>5. CASE \E r \in reply : updates' = Append(updates, r)
    <3>1. PICK r \in reply : updates' = Append(updates, r)
      BY <2>5
    <3>2. r.kind # "tail"
      BY DEF ReportsOk
    <3> QED BY <1>2, <2>c, <3>1, <3>2
  <2>6. ASSUME NEW tail \in tails.running, NEW r, Hear(tail), Heard(tail, r),
               updates' = Append(updates, r),
               \A t \in tails'.running :
                 t \in tails.running \ {tail} \/ t = [tail EXCEPT !.at = r.line.n]
        PROVE  LiveInOrder'
    <3>1. Came(r.line)' /\ \A e : Came(e) => Ahead(e, r.line)
      BY <2>6, HeardComes
    <3> QED BY <1>2, <2>6, <2>c, <3>1
  <2> QED BY <1>5, <2>4, <2>5, <2>6, UpdatesMove
<1> QED BY <1>4, <1>5

-----------------------------------------------------------------------------
(* The invariant, and what it says of the view. *)

(* What everything is made of, what it is shown with, and in which order   *)
(* the lines stand, on the agent, on the way and in the log: each part     *)
(* needs others to be kept.                                                *)
Types == ServersOk /\ ListOk /\ TasksOk /\ ReportsOk /\ TailsOk /\ StatusOk

ViewInv ==
  /\ Types
  /\ FetchUnderWay /\ Warned
  /\ HistoriesOk /\ LogTasksOk /\ BackfillsOk
  /\ Logs /\ LiveInOrder

LEMMA InitTypes == Init => Types
<1> SUFFICES ASSUME Init PROVE Types
  OBVIOUS
<1>1. /\ server = [a \in Agents |->
                     [up |-> TRUE, running |-> FALSE, paused |-> {}, approved |-> {},
                      said |-> 0, since |-> 0, ids |-> 0, history |-> << >>]]
      /\ view = [open |-> FALSE, current |-> 1, status |-> None, error |-> FALSE,
                 loading |-> FALSE, sel |-> 1, pending |-> None, backfilled |-> FALSE,
                 scanning |-> FALSE]
      /\ tails = [running |-> {}, held |-> None]
      /\ tasks = EmptyBag /\ reply = {} /\ updates = << >>
  BY DEF Init
<1>2. ServersOk
  BY <1>1 DEF ServersOk, IsAgent, AgentFields
<1>3. agents \in Seq(Agents)
  BY BoundsAssumption DEF Init
<1>4. ListOk
  <2>1. IsSequence(agents) /\ Range(agents) \subseteq Agents
    BY <1>3 DEF IsSequence, Range
  <2>2. agents # << >> => 1 \in DOMAIN agents
    BY <1>3
  <2> QED BY <1>1, <2>1, <2>2 DEF ListOk, ViewFields
<1>5. TasksOk
  BY <1>1 DEF TasksOk, EmptyBag, SetToBag
<1>6. ReportsOk
  BY <1>1, EmptySequence DEF ReportsOk
<1>7. TailsOk /\ StatusOk
  BY <1>1 DEF TailsOk, StatusOk
<1> QED BY <1>2, <1>4, <1>5, <1>6, <1>7 DEF Types

LEMMA InitView == Init => ViewInv
<1> SUFFICES ASSUME Init PROVE ViewInv
  OBVIOUS
<1>1. Types
  BY InitTypes
<1>2. /\ \A a \in Agents : server[a].approved = {} /\ server[a].history = << >>
      /\ ~view.loading /\ view.pending = None
      /\ log = << >> /\ stash = << >> /\ reply = {} /\ updates = << >>
      /\ tasks = EmptyBag
  BY DEF Init
<1>3. DOMAIN tasks = {}
  BY <1>2 DEF EmptyBag, SetToBag
<1>4. FetchUnderWay /\ Warned
  BY <1>2, <1>3 DEF FetchUnderWay, Warned, ApprovalWarned, BagToSet
<1>5. HistoriesOk
  <2>1. InOrder(<< >>) /\ Range(<< >>) = {} /\ IsSequence(<< >>)
    BY EmptySequence DEF InOrder
  <2> QED BY <1>2, <2>1 DEF HistoriesOk, HistoryOk
<1>6. LogTasksOk
  BY <1>3 DEF LogTasksOk
<1>7. OnTheWay = {}
  BY <1>2, EmptySequence DEF OnTheWay
<1>8. BackfillsOk
  BY <1>7 DEF BackfillsOk
<1>9. LogCap \in Nat
  BY BoundsAssumption
<1>10. Logs
  BY <1>2, <1>9, EmptySequence DEF Logs, AgentLog, MainLog
<1>11. LiveInOrder
  <2>1. Aligned(<< >>, << >>)
    BY EmptySequence DEF Aligned, InLine
  <2>2. AgentLog = << >>
    BY <1>2 DEF AgentLog
  <2> QED BY <1>2, <2>1, <2>2, EmptySequence DEF LiveInOrder
<1> QED BY <1>1, <1>4, <1>5, <1>6, <1>8, <1>10, <1>11 DEF ViewInv

LEMMA ViewNext == ViewInv /\ [Next]_vars => ViewInv'
<1> SUFFICES ASSUME ViewInv, [Next]_vars PROVE ViewInv'
  OBVIOUS
<1>1. /\ ServersOk /\ ListOk /\ TasksOk /\ ReportsOk /\ TailsOk /\ StatusOk
      /\ FetchUnderWay /\ Warned /\ HistoriesOk /\ LogTasksOk /\ BackfillsOk
      /\ Logs /\ LiveInOrder
  BY DEF ViewInv, Types
<1>2. ServersOk' /\ TasksOk' /\ TailsOk'
  BY <1>1, ServersNext, TasksNext, TailsNext
<1>3. ListOk' /\ ReportsOk' /\ StatusOk'
  BY <1>1, ListNext, ReportsNext, StatusNext
<1>4. FetchUnderWay' /\ Warned'
  BY <1>1, FetchNext, WarnedNext
<1>5. HistoriesOk' /\ LogTasksOk' /\ BackfillsOk'
  BY <1>1, HistoriesNext, BackfillsNext
<1>6. Logs' /\ LiveInOrder'
  BY <1>1, LogsNext, LiveNext
<1> QED BY <1>2, <1>3, <1>4, <1>5, <1>6 DEF ViewInv, Types

LEMMA ViewInvAlways == Spec => []ViewInv
BY InitView, ViewNext, PTL DEF Spec

(* Whatever answers, comes late, is lost or is pressed, the state of the   *)
(* view is well-formed: the agent on screen is on the list, every task and *)
(* report is of an agent there is, and no tail is ahead of its agent.      *)
THEOREM TypesAlways == Spec => []Types
BY ViewInvAlways, PTL DEF ViewInv

(* The lines of the application stay in the main log, the agent's in the   *)
(* agent's, and both under the cap, over any exchanges of the two          *)
(* (swap_log_state).                                                       *)
THEOREM LogsAlwaysApart == Spec => []LogsApart
<1>1. ViewInv => LogsApart
  BY LogsAreApart DEF ViewInv
<1> QED BY <1>1, ViewInvAlways, PTL

(* No late answer of an agent left puts its status under another's name,   *)
(* and the only tail that runs is the held one, of the agent on screen     *)
(* (apply_status, start_agent_tail).                                       *)
THEOREM ShownAlwaysCurrent == Spec => []ShownIsCurrent
<1>1. ViewInv => ShownIsCurrent
  BY DEF ViewInv, Types, TailsOk, StatusOk, ShownIsCurrent
<1> QED BY <1>1, ViewInvAlways, PTL

(* While "loading" stands there is an answer to come that will clear it:   *)
(* a failure reports too, and a change of agent asks again                *)
(* (fetch_agent_status).                                                   *)
THEOREM FetchAlwaysUnderWay == Spec => []FetchUnderWay
<1>1. ViewInv => FetchUnderWay
  BY DEF ViewInv
<1> QED BY <1>1, ViewInvAlways, PTL

(* The tail's lines stand in the log as the agent said them, each once,    *)
(* and the runs of a backfill are collected from the oldest to the newest, *)
(* over reconnects, lost and dropped lines, and histories that move while  *)
(* they are fetched.                                                       *)
THEOREM LinesAlwaysInOrder == Spec => []LinesInOrder
<1>1. ASSUME LiveInOrder, BackfillsOk PROVE LinesInOrder
  <2>1. \A i, j \in DOMAIN AgentLog : i < j => Ahead(AgentLog[i], AgentLog[j])
    BY <1>1 DEF LiveInOrder, Aligned, InLine
  <2>2. \A r \in OnTheWay : r.kind = "backfill" => Increasing(r.lines)
    BY <1>1 DEF BackfillsOk, IsLines
  <2> QED BY <2>1, <2>2 DEF LinesInOrder, Ahead, OnTheWay
<1>2. ViewInv => LinesInOrder
  BY <1>1 DEF ViewInv
<1> QED BY <1>2, ViewInvAlways, PTL

(* A host is approved at an agent, or about to be, only if its warning was *)
(* on screen: the second Enter counts for the host of the first            *)
(* (handle_key_agent).                                                     *)
THEOREM ApprovalAlwaysWarned == Spec => []ApprovalWarned
<1>1. ViewInv => ApprovalWarned
  BY DEF ViewInv, Warned
<1> QED BY <1>1, ViewInvAlways, PTL
=============================================================================
