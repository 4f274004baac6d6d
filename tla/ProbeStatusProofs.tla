------------------------- MODULE ProbeStatusProofs -------------------------
(* What the status pane says is justified, for any profiles, versions,     *)
(* caches and number of keys.                                              *)
EXTENDS ProbeStatus, TLAPS, FiniteSetTheorems, WellFoundedInduction

Kinds == {"reach", "update", "size", "pkg", "plan", "drift"}

(* What a check compares: a profile of the flake with what a host may run. *)
RemotePaths == {Toplevel(p, v) : p \in Profiles, v \in Versions} \cup {Foreign}
Pairs == ProfilePaths \X RemotePaths
Sites == {"remote", "local"}

(* A probe of a kind is about a profile, paths or the whole host.          *)
IsTask(t) ==
  /\ t \in [key : Nat, kind : Kinds, profile : Profiles \cup {None},
            paths : Pairs \cup {None}, site : Sites \cup {None},
            found : Versions \cup {None}]
  /\ t.profile = None <=> t.kind \in {"reach", "drift"}
  /\ t.kind \in {"size", "pkg"} => t.paths \in Pairs

(* What a check says, and is so.                                           *)
DiffIsTrue(said) == said.changes = {} <=> Resolved(said.of[1], said.of[2]) = said.of[2]

PlanIsTrue(said) ==
  /\ Range(said.toBuild) \cup Range(said.toFetch) = said.missing
  /\ Range(said.toBuild) \cap Range(said.toFetch) = {}

DriftIsTrue(said) ==
  /\ Urls(said.added) = Urls(Range(said.declared)) \ Urls(said.there)
  /\ Cardinality(Urls(said.added)) = Cardinality(said.added)

(* What an answer says of the question.                                    *)
Fits(t, result) ==
  /\ t.kind = "update" => result.state = "notDeployed" \/ result.paths \in Pairs
  /\ t.kind = "size" => DOMAIN result = {"of"} /\ result.of = t.paths
  /\ t.kind = "pkg" =>
       DOMAIN result = {"of", "changes"} /\ result.of = t.paths /\ DiffIsTrue(result)
  /\ t.kind = "plan" => PlanIsTrue(result)
  /\ t.kind = "drift" => DriftIsTrue(result)

IsReport(m) == IsTask(m.task) /\ (m.result # None => Fits(m.task, m.result))

IsProfileStatus(ps) ==
  /\ DOMAIN ps =
       {"update", "checking", "plan", "paths", "sizes", "checkingSize", "diff", "checkingPkg"}
  /\ ps.paths \in Pairs \cup {None}

IsHostStatus(h) ==
  DOMAIN h = {"online", "checkingReach", "drift", "checkingCache", "checkingPlan"}

IsSequence(s) == \E S : s \in Seq(S)

Types ==
  /\ flake \in Versions
  /\ remote \in [Profiles -> RemotePaths \cup {None}]
  /\ \A t \in tasks : IsTask(t)
  /\ IsSequence(reports)
  /\ \A m \in Range(reports) : IsReport(m)
  /\ DOMAIN profile = Profiles
  /\ \A p \in Profiles : IsProfileStatus(profile[p])
  /\ IsHostStatus(host)
  /\ deploy # None => deploy.version \in Versions /\ DOMAIN deploy = {"version", "site", "done"}
  /\ keys \in Nat /\ wiped \in Nat /\ wiped <= keys

-----------------------------------------------------------------------------
(* Sequences of reports. *)

LEMMA RangeOfAppend ==
  ASSUME NEW s, IsSequence(s), NEW x
  PROVE  IsSequence(Append(s, x)) /\ Range(Append(s, x)) = Range(s) \cup {x}
<1>1. PICK S : s \in Seq(S)
  BY DEF IsSequence
<1>2. s \in Seq(S \cup {x})
  BY <1>1
<1>3. Append(s, x) \in Seq(S \cup {x})
  BY <1>2
<1>4. /\ DOMAIN Append(s, x) = 1 .. Len(s) + 1 /\ Len(s) \in Nat /\ DOMAIN s = 1 .. Len(s)
      /\ Append(s, x)[Len(s) + 1] = x
      /\ \A i \in 1 .. Len(s) : Append(s, x)[i] = s[i]
  BY <1>2
<1>5. Range(Append(s, x)) = Range(s) \cup {x}
  BY <1>4 DEF Range
<1> QED BY <1>3, <1>5 DEF IsSequence

LEMMA RangeOfTail ==
  ASSUME NEW s, IsSequence(s), s # << >>
  PROVE  IsSequence(Tail(s)) /\ Range(s) = {Head(s)} \cup Range(Tail(s))
<1>1. PICK S : s \in Seq(S)
  BY DEF IsSequence
<1>2. Tail(s) \in Seq(S)
  BY <1>1
<1>3. /\ Len(s) \in Nat \ {0} /\ DOMAIN s = 1 .. Len(s) /\ Head(s) = s[1]
      /\ DOMAIN Tail(s) = 1 .. Len(s) - 1
      /\ \A i \in 1 .. Len(s) - 1 : Tail(s)[i] = s[i + 1]
  BY <1>1
<1>4. \A i \in DOMAIN s : i = 1 \/ (i - 1 \in DOMAIN Tail(s) /\ Tail(s)[i - 1] = s[i])
  BY <1>3
<1>5. \A i \in DOMAIN Tail(s) : i + 1 \in DOMAIN s
  BY <1>3
<1>6. Range(s) \subseteq {Head(s)} \cup Range(Tail(s))
  BY <1>3, <1>4 DEF Range
<1>7. {Head(s)} \cup Range(Tail(s)) \subseteq Range(s)
  BY <1>3, <1>5 DEF Range
<1> QED BY <1>2, <1>6, <1>7 DEF IsSequence

LEMMA EmptySequence == IsSequence(<< >>) /\ Range(<< >>) = {}
BY DEF IsSequence, Range

-----------------------------------------------------------------------------
(* Induction over the naturals, from sets of them.                         *)

Smaller == {ss \in Nat \X Nat : ss[1] < ss[2]}

LEMMA LessWF == IsWellFoundedOn(Smaller, Nat)
  BY NatLessThanWellFounded DEF OpToRel, Smaller

LEMMA LeastElement ==
  ASSUME NEW S \in SUBSET Nat, S # {}
  PROVE  \E m \in S : \A k \in S : m <= k
<1>1. PICK m \in S : \A k \in S : ~ (<< k, m >> \in Smaller)
  BY LessWF, WFMin
<1>2. \A k \in S : k < m => << k, m >> \in Smaller
  BY DEF Smaller
<1>3. \A k \in S : ~ (k < m)
  BY <1>1, <1>2
<1>4. m \in Nat /\ \A k \in S : k \in Nat
  OBVIOUS
<1>5. \A k \in S : m <= k
  BY <1>3, <1>4
<1> QED BY <1>5

LEMMA Induction ==
  ASSUME NEW S \in SUBSET Nat, 0 \in S, \A n \in S : n + 1 \in S
  PROVE  S = Nat
<1> SUFFICES ASSUME Nat \ S # {} PROVE FALSE OBVIOUS
<1>1. PICK m \in Nat \ S : \A k \in Nat \ S : m <= k BY LeastElement
<1>2. m # 0 /\ m - 1 \in Nat OBVIOUS
<1>3. m - 1 \in S BY <1>1, <1>2
<1>4. m - 1 + 1 = m OBVIOUS
<1> QED BY <1>1, <1>3, <1>4

-----------------------------------------------------------------------------
(* Closures and caches compared. *)

(* A package diff is empty only of equal closures.                         *)
LEMMA EmptyDiff ==
  ASSUME NEW local, NEW remotely
  PROVE  VersionDiff(local, remotely) = {} <=> local = remotely
<1> DEFINE changed == {key \in Names(local) \cup Names(remotely) :
                         VersionsOf(local, key) # VersionsOf(remotely, key)}
           Change(key) == [key |-> key, from |-> VersionsOf(remotely, key),
                           to |-> VersionsOf(local, key)]
           changes == {Change(key) : key \in changed}
           rebuilt == {[rebuilt |-> << local \ remotely, remotely \ local >>]}
<1>1. CASE changed # {}
  <2>1. VersionDiff(local, remotely) = changes
    BY <1>1 DEF VersionDiff
  <2>2. changes # {}
    BY <1>1
  <2>3. local # remotely
    BY <1>1
  <2> QED BY <2>1, <2>2, <2>3
<1>2. CASE changed = {} /\ local # remotely
  <2>1. VersionDiff(local, remotely) = rebuilt
    BY <1>2 DEF VersionDiff
  <2> QED BY <1>2, <2>1
<1>3. CASE changed = {} /\ local = remotely
  <2>1. VersionDiff(local, remotely) = {}
    BY <1>3 DEF VersionDiff
  <2> QED BY <1>3, <2>1
<1> QED BY <1>1, <1>2, <1>3

LEMMA ClosureIsIdentity ==
  ASSUME NEW a \in ProfilePaths, NEW b \in RemotePaths
  PROVE  Closure(a) = Closure(b) <=> a = b
<1> SUFFICES ASSUME Closure(a) = Closure(b) PROVE a = b
  OBVIOUS
<1>1. a # Foreign /\ a \in Closure(a)
  BY ClosuresAssumption DEF Closure
<1>2. b # Foreign
  <2> SUFFICES ASSUME b = Foreign PROVE FALSE
    OBVIOUS
  <2> QED BY <1>1 DEF Closure
<1>3. PICK p \in Profiles, v \in Versions : b = Toplevel(p, v)
  BY <1>2 DEF RemotePaths
<1>4. b.hash = v /\ [b EXCEPT !.wrapper = FALSE] = b
  BY <1>3 DEF Toplevel, Wrapper
<1>5. Closure(b) = {b} \cup Packages[v]
  BY <1>2, <1>4 DEF Closure
<1>6. a \notin Packages[v]
  BY ClosuresAssumption
<1> QED BY <1>1, <1>5, <1>6

LEMMA FiniteImage ==
  ASSUME NEW S, NEW T, IsFiniteSet(S), NEW f \in Surjection(S, T)
  PROVE  IsFiniteSet(T)
BY FS_Surjection

(* Of several caches with a url the first is added, so each url once.      *)
LEMMA AddedIsReal ==
  ASSUME NEW declared, NEW S, declared \in Seq(S), NEW there
  PROVE  LET added == AddedEntries(declared, there)
         IN  /\ Urls(added) = Urls(Range(declared)) \ Urls(there)
             /\ Cardinality(Urls(added)) = Cardinality(added)
<1> DEFINE n == Len(declared)
           New(i) == /\ declared[i].url \notin Urls(there)
                     /\ \A j \in 1 .. i - 1 : declared[j].url # declared[i].url
           new == {i \in 1 .. n : New(i)}
           added == {declared[i] : i \in new}
<1>1. n \in Nat /\ DOMAIN declared = 1 .. n
  OBVIOUS
<1>2. AddedEntries(declared, there) = added
  BY <1>1 DEF AddedEntries
<1>3. Range(declared) = {declared[i] : i \in 1 .. n}
  BY <1>1 DEF Range
<1>4. Urls(added) \subseteq Urls(Range(declared)) \ Urls(there)
  BY <1>3 DEF Urls
<1>5. ASSUME NEW url \in Urls(Range(declared)) \ Urls(there)
      PROVE  url \in Urls(added)
  <2> DEFINE having == {i \in 1 .. n : declared[i].url = url}
  <2>1. having # {} /\ having \in SUBSET Nat
    BY <1>3 DEF Urls
  <2>2. PICK i \in having : \A j \in having : i <= j
    BY <2>1, LeastElement
  <2>3. New(i)
    BY <1>1, <1>5, <2>2
  <2>4. declared[i] \in added /\ declared[i].url = url
    BY <2>2, <2>3
  <2> QED BY <2>4 DEF Urls
<1>6. \A i, j \in new : declared[i].url = declared[j].url => i = j
  <2> SUFFICES ASSUME NEW i \in new, NEW j \in new, declared[i].url = declared[j].url, i # j
               PROVE  FALSE
    OBVIOUS
  <2>1. i < j \/ j < i
    BY <1>1
  <2>2. CASE i < j
    <3>1. i \in 1 .. j - 1
      BY <1>1, <2>2
    <3> QED BY <3>1
  <2>3. CASE j < i
    <3>1. j \in 1 .. i - 1
      BY <1>1, <2>3
    <3> QED BY <3>1
  <2> QED BY <2>1, <2>2, <2>3
<1>7. Cardinality(Urls(added)) = Cardinality(added)
  <2> DEFINE entry == [i \in new |-> declared[i]]
             url == [c \in added |-> c.url]
  <2>1. IsFiniteSet(new)
    <3>1. IsFiniteSet(1 .. n)
      BY <1>1, FS_Interval
    <3> QED BY <3>1, FS_Subset
  <2>2. entry \in Surjection(new, added)
    BY DEF Surjection
  <2>3. IsFiniteSet(added)
    BY <2>1, <2>2, FiniteImage
  <2>4. url \in [added -> Urls(added)] /\ \A u \in Urls(added) : \E c \in added : url[c] = u
    BY DEF Urls
  <2>5. \A c, d \in added : url[c] = url[d] => c = d
    BY <1>6
  <2>6. url \in Bijection(added, Urls(added))
    BY <2>4, <2>5 DEF Bijection, Injection, Surjection, IsInjective
  <2> QED BY <2>3, <2>6, FS_Bijection DEF ExistsBijection
<1> HIDE DEF added
<1> QED BY <1>2, <1>4, <1>5, <1>7

-----------------------------------------------------------------------------
(* Dry runs read. *)

(* The plans that reading each line of a dry run leads to.                 *)
Reads(f, lines, n) ==
  f = [i \in 0 .. n |-> IF i = 0 THEN EmptyPlan ELSE ReadLine(f[i - 1], lines[i])]

LEMMA ReadsExists ==
  ASSUME NEW lines, NEW n \in Nat
  PROVE  \E f : Reads(f, lines, n)
<1> DEFINE S == {k \in Nat : \E f : Reads(f, lines, k)}
<1>1. 0 \in S
  <2> DEFINE f == [i \in 0 .. 0 |-> EmptyPlan]
  <2>1. Reads(f, lines, 0)
    BY DEF Reads
  <2> QED BY <2>1
<1>2. ASSUME NEW k \in S PROVE k + 1 \in S
  <2>1. PICK f : Reads(f, lines, k)
    OBVIOUS
  <2> DEFINE g == [i \in 0 .. k + 1 |->
                     IF i = k + 1 THEN ReadLine(f[k], lines[k + 1]) ELSE f[i]]
  <2>2. \A i \in 0 .. k : g[i] = f[i]
    OBVIOUS
  <2>3. \A i \in 0 .. k : f[i] = IF i = 0 THEN EmptyPlan ELSE ReadLine(f[i - 1], lines[i])
    BY <2>1 DEF Reads
  <2>4. \A i \in 0 .. k + 1 : g[i] = IF i = 0 THEN EmptyPlan ELSE ReadLine(g[i - 1], lines[i])
    <3> TAKE i \in 0 .. k + 1
    <3>1. CASE i = k + 1
      <4>1. g[i - 1] = f[k] /\ g[i] = ReadLine(f[k], lines[k + 1])
        BY <3>1, <2>2
      <4> QED BY <3>1, <4>1
    <3>2. CASE i # k + 1
      <4>1. i \in 0 .. k /\ (i = 0 \/ i - 1 \in 0 .. k)
        BY <3>2
      <4> QED BY <4>1, <2>2, <2>3
    <3> QED BY <3>1, <3>2
  <2>5. g = [i \in 0 .. k + 1 |-> g[i]]
    OBVIOUS
  <2> HIDE DEF g
  <2>6. g = [i \in 0 .. k + 1 |-> IF i = 0 THEN EmptyPlan ELSE ReadLine(g[i - 1], lines[i])]
    BY <2>4, <2>5
  <2> QED BY <2>6 DEF Reads
<1>3. S \in SUBSET Nat
  OBVIOUS
<1> HIDE DEF S
<1>4. S = Nat
  BY <1>1, <1>2, <1>3, Induction
<1> QED BY <1>4 DEF S

LEMMA ParseReads ==
  ASSUME NEW lines, Len(lines) \in Nat
  PROVE  \E f : Reads(f, lines, Len(lines)) /\ ParseDryRun(lines) = f[Len(lines)]
<1> DEFINE f == CHOOSE g : Reads(g, lines, Len(lines))
<1>1. Reads(f, lines, Len(lines))
  BY ReadsExists
<1>2. ParseDryRun(lines) = f[Len(lines)]
  BY DEF ParseDryRun, Reads
<1> QED BY <1>1, <1>2

LEMMA AddPathRange ==
  ASSUME NEW s, IsSequence(s), NEW x
  PROVE  IsSequence(AddPath(s, x)) /\ Range(AddPath(s, x)) = Range(s) \cup {x}
<1>1. CASE Contains(s, x)
  <2>1. PICK S : s \in Seq(S)
    BY DEF IsSequence
  <2>2. DOMAIN s = 1 .. Len(s)
    BY <2>1
  <2>3. x \in Range(s)
    BY <1>1, <2>2 DEF Contains, Range
  <2> QED BY <1>1, <2>3 DEF AddPath
<1>2. CASE ~Contains(s, x)
  BY <1>2, RangeOfAppend DEF AddPath
<1> QED BY <1>1, <1>2

(* The section each line is in: that of the last header.                   *)
Sectioned(sec, lines) ==
  \A i \in 1 .. Len(lines) :
    sec[i] = IF lines[i].kind = "header" THEN lines[i].header ELSE sec[i - 1]

PathsIn(header, sec, lines, n) ==
  {lines[i].path : i \in {j \in 1 .. n : lines[j].kind # "header" /\ sec[j] = header}}

IsPlan(plan) ==
  /\ DOMAIN plan = {"section", "toBuild", "toFetch"}
  /\ IsSequence(plan.toBuild) /\ IsSequence(plan.toFetch)

LEMMA ReadLineFields ==
  ASSUME NEW plan, IsPlan(plan), NEW line
  PROVE  LET q == ReadLine(plan, line)
         IN  /\ IsPlan(q)
             /\ line.kind = "header" =>
                  q.section = line.header /\ q.toBuild = plan.toBuild /\ q.toFetch = plan.toFetch
             /\ line.kind # "header" =>
                  /\ q.section = plan.section
                  /\ Range(q.toBuild) =
                       Range(plan.toBuild) \cup IF plan.section = "built" THEN {line.path} ELSE {}
                  /\ Range(q.toFetch) =
                       Range(plan.toFetch) \cup IF plan.section = "fetched" THEN {line.path} ELSE {}
<1>1. CASE line.kind = "header"
  <2>1. ReadLine(plan, line) = [plan EXCEPT !.section = line.header]
    BY <1>1 DEF ReadLine
  <2> QED BY <1>1, <2>1 DEF IsPlan
<1>2. CASE line.kind # "header"
  <2> DEFINE build == IF plan.section = "built" THEN AddPath(plan.toBuild, line.path) ELSE plan.toBuild
             fetch == IF plan.section = "fetched" THEN AddPath(plan.toFetch, line.path) ELSE plan.toFetch
  <2>1. ReadLine(plan, line) = [plan EXCEPT !.toBuild = build, !.toFetch = fetch]
    BY <1>2 DEF ReadLine, IsPlan
  <2>2. /\ IsSequence(build)
        /\ Range(build) =
             Range(plan.toBuild) \cup IF plan.section = "built" THEN {line.path} ELSE {}
    BY AddPathRange DEF IsPlan
  <2>3. /\ IsSequence(fetch)
        /\ Range(fetch) =
             Range(plan.toFetch) \cup IF plan.section = "fetched" THEN {line.path} ELSE {}
    BY AddPathRange DEF IsPlan
  <2> HIDE DEF build, fetch
  <2> QED BY <1>2, <2>1, <2>2, <2>3 DEF IsPlan
<1> QED BY <1>1, <1>2

(* Reading a dry run collects the paths of its two sections, whatever its  *)
(* lines.                                                                  *)
LEMMA ParseCollects ==
  ASSUME NEW lines, Len(lines) \in Nat, NEW sec, sec[0] = "none", Sectioned(sec, lines)
  PROVE  LET plan == ParseDryRun(lines)
             n == Len(lines)
         IN  /\ Range(plan.toBuild) = PathsIn("built", sec, lines, n)
             /\ Range(plan.toFetch) = PathsIn("fetched", sec, lines, n)
<1> DEFINE n == Len(lines)
<1>1. PICK f : Reads(f, lines, n) /\ ParseDryRun(lines) = f[n]
  BY ParseReads
<1>2. \A i \in 0 .. n : f[i] = IF i = 0 THEN EmptyPlan ELSE ReadLine(f[i - 1], lines[i])
  BY <1>1 DEF Reads
<1> DEFINE Collects(plan, i) ==
             /\ IsPlan(plan) /\ plan.section = sec[i]
             /\ Range(plan.toBuild) = PathsIn("built", sec, lines, i)
             /\ Range(plan.toFetch) = PathsIn("fetched", sec, lines, i)
           S == {i \in Nat : i <= n => Collects(f[i], i)}
<1>3. 0 \in S
  <2>1. f[0] = EmptyPlan
    BY <1>2
  <2>2. PathsIn("built", sec, lines, 0) = {} /\ PathsIn("fetched", sec, lines, 0) = {}
    BY DEF PathsIn
  <2>3. /\ IsPlan(EmptyPlan) /\ EmptyPlan.section = "none"
        /\ Range(EmptyPlan.toBuild) = {} /\ Range(EmptyPlan.toFetch) = {}
    BY EmptySequence DEF EmptyPlan, IsPlan
  <2>4. Collects(f[0], 0)
    BY <2>1, <2>2, <2>3
  <2> QED BY <2>4
<1>4. ASSUME NEW i \in S PROVE i + 1 \in S
  <2> SUFFICES ASSUME i + 1 <= n PROVE Collects(f[i + 1], i + 1)
    OBVIOUS
  <2>1. Collects(f[i], i) /\ i \in Nat /\ i + 1 \in 1 .. n
    OBVIOUS
  <2>2. f[i + 1] = ReadLine(f[i], lines[i + 1])
    <3>1. i + 1 \in 0 .. n /\ i + 1 # 0 /\ i + 1 - 1 = i
      BY <2>1
    <3> QED BY <1>2, <3>1
  <2>3. sec[i + 1] = IF lines[i + 1].kind = "header" THEN lines[i + 1].header ELSE sec[i]
    BY <2>1 DEF Sectioned
  <2>4. \A header : PathsIn(header, sec, lines, i + 1) =
          PathsIn(header, sec, lines, i) \cup
            IF lines[i + 1].kind # "header" /\ sec[i + 1] = header
            THEN {lines[i + 1].path} ELSE {}
    <3>1. 1 .. i + 1 = (1 .. i) \cup {i + 1}
      BY <2>1
    <3> QED BY <3>1 DEF PathsIn
  <2> DEFINE plan == f[i]
             line == lines[i + 1]
             next == ReadLine(plan, line)
  <2>5. IsPlan(plan) /\ IsPlan(next)
    BY <2>1, ReadLineFields
  <2>6. next.section = IF line.kind = "header" THEN line.header ELSE plan.section
    BY <2>1, ReadLineFields
  <2>7. plan.section = sec[i]
    BY <2>1
  <2>8. /\ Range(next.toBuild) = PathsIn("built", sec, lines, i + 1)
        /\ Range(next.toFetch) = PathsIn("fetched", sec, lines, i + 1)
    <3>1. CASE line.kind = "header"
      <4>1. next.toBuild = plan.toBuild /\ next.toFetch = plan.toFetch
        BY <2>1, <3>1, ReadLineFields
      <4> QED BY <2>1, <2>4, <3>1, <4>1
    <3>2. CASE line.kind # "header"
      <4>1. sec[i + 1] = plan.section
        BY <2>1, <2>3, <3>2
      <4>2. /\ Range(next.toBuild) =
                 Range(plan.toBuild) \cup IF plan.section = "built" THEN {line.path} ELSE {}
            /\ Range(next.toFetch) =
                 Range(plan.toFetch) \cup IF plan.section = "fetched" THEN {line.path} ELSE {}
        BY <2>1, <3>2, ReadLineFields
      <4> QED BY <2>1, <2>4, <3>2, <4>1, <4>2
    <3> QED BY <3>1, <3>2
  <2> QED BY <2>2, <2>3, <2>5, <2>6, <2>7, <2>8
<1>5. S \in SUBSET Nat
  OBVIOUS
<1>6. S = Nat
  <2> HIDE DEF S
  <2> QED BY <1>3, <1>4, <1>5, Induction
<1>7. Collects(f[n], n)
  BY <1>6
<1> QED BY <1>1, <1>7

LEMMA SetToSeqCovers ==
  ASSUME NEW S, IsFiniteSet(S)
  PROVE  /\ Cardinality(S) \in Nat
         /\ S = {SetToSeq(S)[i] : i \in 1 .. Cardinality(S)}
<1> DEFINE n == Cardinality(S)
           f == SetToSeq(S)
<1>1. n \in Nat /\ ExistsBijection(1 .. n, S)
  BY FS_CardinalityType
<1>2. \E g \in [1 .. n -> S] : IsInjective(g)
  BY <1>1 DEF ExistsBijection, Bijection, Injection
<1>3. f \in [1 .. n -> S] /\ IsInjective(f)
  BY <1>2 DEF SetToSeq
<1>4. f \in Injection(1 .. n, S)
  BY <1>3 DEF Injection
<1>5. IsFiniteSet(1 .. n) /\ Cardinality(1 .. n) = n
  BY <1>1, FS_Interval
<1>6. f \in Surjection(1 .. n, S)
  BY <1>4, <1>5, FS_Injection
<1> QED BY <1>1, <1>3, <1>6 DEF Surjection

LEMMA Appended ==
  ASSUME NEW s, NEW u, IsSequence(s), IsSequence(u)
  PROVE  /\ IsSequence(s \o u)
         /\ Len(s \o u) = Len(s) + Len(u) /\ Len(s) \in Nat /\ Len(u) \in Nat
         /\ \A i \in 1 .. Len(s) : (s \o u)[i] = s[i]
         /\ \A i \in 1 .. Len(u) : (s \o u)[Len(s) + i] = u[i]
<1>1. PICK S, T : s \in Seq(S) /\ u \in Seq(T)
  BY DEF IsSequence
<1>2. s \in Seq(S \cup T) /\ u \in Seq(S \cup T)
  BY <1>1
<1> HIDE <1>1
<1>3. s \o u \in Seq(S \cup T)
  BY <1>2
<1> QED BY <1>2, <1>3 DEF IsSequence

LEMMA Prefixed ==
  ASSUME NEW x, NEW u, IsSequence(u)
  PROVE  /\ IsSequence(<< x >> \o u)
         /\ Len(<< x >> \o u) = Len(u) + 1 /\ Len(u) \in Nat
         /\ (<< x >> \o u)[1] = x
         /\ \A i \in 1 .. Len(u) : (<< x >> \o u)[1 + i] = u[i]
<1>1. IsSequence(<< x >>)
  <2>1. << x >> \in Seq({x})
    OBVIOUS
  <2> QED BY <2>1 DEF IsSequence
<1>2. Len(<< x >>) = 1 /\ << x >>[1] = x /\ 1 \in 1 .. 1
  OBVIOUS
<1> QED BY <1>1, <1>2, Appended

(* A section is its header and then its paths.                             *)
IsSection(s, header, paths) ==
  /\ IsSequence(s) /\ Len(s) \in Nat
  /\ \A i \in 1 .. Len(s) : s[i].kind = "header" <=> i = 1
  /\ Len(s) # 0 => s[1].header = header
  /\ {s[i].path : i \in 2 .. Len(s)} = paths

LEMMA SectionIs ==
  ASSUME NEW header, NEW paths, IsFiniteSet(paths)
  PROVE  IsSection(Section(header, paths), header, paths)
<1>1. CASE paths = {}
  BY <1>1, EmptySequence DEF Section, IsSection
<1>2. CASE paths # {}
  <2> DEFINE n == Cardinality(paths)
             head == [kind |-> "header", header |-> header]
             of == PathLines(paths)
             s == << head >> \o of
             path(i) == SetToSeq(paths)[i]
  <2>1. n \in Nat /\ paths = {path(i) : i \in 1 .. n}
    BY SetToSeqCovers
  <2> HIDE DEF path
  <2>2. /\ of = [i \in 1 .. n |-> [kind |-> "path", path |-> path(i)]]
        /\ \A i \in 1 .. n : of[i].kind = "path" /\ of[i].path = path(i)
    BY DEF PathLines, path
  <2>3. IsSequence(of) /\ Len(of) = n
    <3> DEFINE S == {[kind |-> "path", path |-> path(i)] : i \in 1 .. n}
    <3>1. of \in [1 .. n -> S]
      BY <2>2
    <3> HIDE DEF S, of
    <3>2. of \in Seq(S) /\ Len(of) = n
      BY <2>1, <3>1
    <3> QED BY <3>2 DEF IsSequence
  <2>4. head.kind = "header" /\ head.header = header
    OBVIOUS
  <2>5. Section(header, paths) = s
    BY <1>2 DEF Section
  <2> HIDE DEF head, of
  <2>6. /\ IsSequence(s) /\ Len(s) = n + 1 /\ s[1] = head
        /\ \A i \in 1 .. n : s[1 + i] = of[i]
    BY <2>3, Prefixed
  <2> HIDE DEF s
  <2>7. \A i \in 2 .. n + 1 : i - 1 \in 1 .. n /\ s[i].kind = "path" /\ s[i].path = path(i - 1)
    <3> TAKE i \in 2 .. n + 1
    <3>1. i - 1 \in 1 .. n /\ 1 + (i - 1) = i
      BY <2>1
    <3> QED BY <2>2, <2>6, <3>1
  <2>8. {s[i].path : i \in 2 .. n + 1} = {path(i) : i \in 1 .. n}
    <3>1. \A i \in 1 .. n : i + 1 \in 2 .. n + 1 /\ i + 1 - 1 = i
      BY <2>1
    <3>2. \A i \in 1 .. n : s[i + 1].path = path(i)
      BY <2>7, <3>1
    <3> QED BY <2>7, <3>1, <3>2
  <2>9. \A i \in 1 .. n + 1 : s[i].kind = "header" <=> i = 1
    <3>1. \A i \in 1 .. n + 1 : i = 1 \/ i \in 2 .. n + 1
      BY <2>1
    <3>2. ~ (1 \in 2 .. n + 1)
      BY <2>1
    <3> QED BY <2>4, <2>6, <2>7, <3>1, <3>2
  <2>10. n + 1 \in Nat
    BY <2>1
  <2> QED BY <2>1, <2>4, <2>5, <2>6, <2>8, <2>9, <2>10 DEF IsSection
<1> QED BY <1>1, <1>2

(* What nix says it would build and fetch is what is read of it.           *)
LEMMA DryRunIsRead ==
  ASSUME NEW missing, IsFiniteSet(missing), NEW fetched
  PROVE  LET plan == ParseDryRun(DryRunLines(missing, fetched))
         IN  Range(plan.toBuild) = missing \ fetched /\ Range(plan.toFetch) = missing \cap fetched
<1> DEFINE A == Section("built", missing \ fetched)
           B == Section("fetched", missing \cap fetched)
           C == Section("other", {Foreign})
           a == Len(A)
           b == Len(B)
           c == Len(C)
           lines == (A \o B) \o C
           sec == [i \in 0 .. a + b + c |-> IF i = 0 THEN "none"
                                            ELSE IF i <= a THEN "built"
                                            ELSE IF i <= a + b THEN "fetched" ELSE "other"]
<1>1. IsFiniteSet(missing \ fetched) /\ IsFiniteSet(missing \cap fetched) /\ IsFiniteSet({Foreign})
  BY FS_Subset, FS_Singleton
<1>2. /\ IsSection(A, "built", missing \ fetched)
      /\ IsSection(B, "fetched", missing \cap fetched)
      /\ IsSection(C, "other", {Foreign})
  BY <1>1, SectionIs
<1>3. DryRunLines(missing, fetched) = lines
  BY DEF DryRunLines
<1> HIDE DEF A, B, C
<1>4. a \in Nat /\ b \in Nat /\ c \in Nat
  BY <1>2 DEF IsSection
<1>6. IsSequence(A \o B) /\ Len(A \o B) = a + b
  BY <1>2, Appended DEF IsSection
<1>7. /\ Len(lines) = a + b + c
      /\ \A i \in 1 .. a + b : lines[i] = (A \o B)[i]
      /\ \A i \in 1 .. c : lines[a + b + i] = C[i]
  BY <1>2, <1>6, Appended DEF IsSection
<1>8. /\ \A i \in 1 .. a : (A \o B)[i] = A[i]
      /\ \A i \in 1 .. b : (A \o B)[a + i] = B[i]
  BY <1>2, Appended DEF IsSection
<1> HIDE DEF lines, a, b, c
<1>9. /\ \A i \in 1 .. a : lines[i] = A[i]
      /\ \A i \in 1 .. b : lines[a + i] = B[i]
  <2>1. \A i \in 1 .. a : i \in 1 .. a + b
    BY <1>4
  <2>2. \A i \in 1 .. b : a + i \in 1 .. a + b
    BY <1>4
  <2> QED BY <1>7, <1>8, <2>1, <2>2
<1>10. ASSUME NEW i \in 1 .. a + b + c
       PROVE  \/ i \in 1 .. a /\ lines[i] = A[i] /\ sec[i] = "built"
              \/ i - a \in 1 .. b /\ lines[i] = B[i - a] /\ sec[i] = "fetched"
              \/ i - a - b \in 1 .. c /\ lines[i] = C[i - a - b] /\ sec[i] = "other"
  <2>1. CASE i <= a
    BY <1>4, <1>9, <2>1
  <2>2. CASE i > a /\ i <= a + b
    <3>1. i - a \in 1 .. b /\ a + (i - a) = i /\ i # 0
      BY <1>4, <2>2
    <3>2. lines[i] = B[i - a]
      BY <1>9, <3>1
    <3> QED BY <1>4, <2>2, <3>1, <3>2
  <2>3. CASE i > a + b
    <3>1. i - a - b \in 1 .. c /\ a + b + (i - a - b) = i /\ i # 0 /\ ~(i <= a)
      BY <1>4, <2>3
    <3>2. lines[i] = C[i - a - b]
      BY <1>7, <3>1
    <3> QED BY <1>4, <2>3, <3>1, <3>2
  <2> QED BY <1>4, <2>1, <2>2, <2>3
<1>11. sec[0] = "none"
  BY <1>4
<1>12. Sectioned(sec, lines)
  <2> SUFFICES ASSUME NEW i \in 1 .. a + b + c
               PROVE  sec[i] = IF lines[i].kind = "header" THEN lines[i].header ELSE sec[i - 1]
    BY <1>7 DEF Sectioned
  <2>1. CASE i \in 1 .. a /\ lines[i] = A[i] /\ sec[i] = "built"
    <3>1. i # 1 => sec[i - 1] = "built"
      BY <1>4, <2>1
    <3> QED BY <1>2, <2>1, <3>1 DEF IsSection, a
  <2>2. CASE i - a \in 1 .. b /\ lines[i] = B[i - a] /\ sec[i] = "fetched"
    <3>1. i - a # 1 => sec[i - 1] = "fetched"
      BY <1>4, <2>2
    <3> QED BY <1>2, <2>2, <3>1 DEF IsSection, b
  <2>3. CASE i - a - b \in 1 .. c /\ lines[i] = C[i - a - b] /\ sec[i] = "other"
    <3>1. i - a - b # 1 => sec[i - 1] = "other"
      BY <1>4, <2>3
    <3> QED BY <1>2, <2>3, <3>1 DEF IsSection, c
  <2> QED BY <1>10, <2>1, <2>2, <2>3
<1> HIDE DEF sec
<1>13. PathsIn("built", sec, lines, a + b + c) = {A[i].path : i \in 2 .. a}
  <2> DEFINE J == {j \in 1 .. a + b + c : lines[j].kind # "header" /\ sec[j] = "built"}
  <2>1. \A j \in J : j \in 2 .. a /\ lines[j] = A[j]
    BY <1>2, <1>4, <1>10 DEF IsSection, a
  <2>2. \A j \in 2 .. a : j \in J /\ lines[j] = A[j]
    <3> SUFFICES ASSUME NEW j \in 2 .. a PROVE j \in J /\ lines[j] = A[j]
      OBVIOUS
    <3>1. j \in 1 .. a + b + c /\ j \in 1 .. a /\ j # 1
      BY <1>4
    <3>2. sec[j] = "built"
      BY <1>4, <3>1 DEF sec
    <3> QED BY <1>2, <1>9, <3>1, <3>2 DEF IsSection, a
  <2> QED BY <2>1, <2>2 DEF PathsIn
<1>14. PathsIn("fetched", sec, lines, a + b + c) = {B[i].path : i \in 2 .. b}
  <2> DEFINE J == {j \in 1 .. a + b + c : lines[j].kind # "header" /\ sec[j] = "fetched"}
  <2>1. \A j \in J : j - a \in 2 .. b /\ lines[j] = B[j - a]
    BY <1>2, <1>4, <1>10 DEF IsSection, b
  <2>2. \A j \in 2 .. b : a + j \in J /\ lines[a + j] = B[j]
    <3> SUFFICES ASSUME NEW j \in 2 .. b PROVE a + j \in J /\ lines[a + j] = B[j]
      OBVIOUS
    <3>1. a + j \in 1 .. a + b + c /\ j \in 1 .. b /\ j # 1
      BY <1>4
    <3>2. sec[a + j] = "fetched"
      BY <1>4, <3>1 DEF sec
    <3> QED BY <1>2, <1>9, <3>1, <3>2 DEF IsSection, b
  <2> HIDE DEF J
  <2>3. {lines[j].path : j \in J} = {B[i].path : i \in 2 .. b}
    BY <2>1, <2>2
  <2> QED BY <2>3 DEF PathsIn, J
<1>15. Len(lines) \in Nat
  BY <1>4, <1>7
<1>16. /\ {A[i].path : i \in 2 .. a} = missing \ fetched
       /\ {B[i].path : i \in 2 .. b} = missing \cap fetched
  BY <1>2 DEF IsSection, a, b
<1> QED BY <1>3, <1>7, <1>11, <1>12, <1>13, <1>14, <1>15, <1>16, ParseCollects

-----------------------------------------------------------------------------
(* The questions that have not been answered to the App yet.               *)
OutstandingOf(ts, rs) == ts \cup {m.task : m \in Range(rs)}

LEMMA OutstandingIs == Outstanding = OutstandingOf(tasks, reports)
BY DEF Outstanding, OutstandingOf, Range

LEMMA OutstandingIsNext == Outstanding' = OutstandingOf(tasks', reports')
BY DEF Outstanding, OutstandingOf, Range

-----------------------------------------------------------------------------
(* Probes and what they answer. *)

LEMMA ProbeIsTask ==
  ASSUME NEW key \in Nat, NEW kind \in Kinds, NEW p \in Profiles \cup {None},
         NEW paths \in Pairs \cup {None}, NEW site \in Sites \cup {None},
         p = None <=> kind \in {"reach", "drift"},
         kind \in {"size", "pkg"} => paths \in Pairs
  PROVE  IsTask(Probe(key, kind, p, paths, site))
BY DEF IsTask, Probe

LEMMA ProbeFields ==
  ASSUME NEW key, NEW kind, NEW p, NEW paths, NEW site
  PROVE  LET t == Probe(key, kind, p, paths, site)
         IN  t.key = key /\ t.kind = kind /\ t.profile = p /\ t.paths = paths
BY DEF Probe

LEMMA FoundIsTask ==
  ASSUME NEW t, IsTask(t), NEW v \in Versions
  PROVE  LET u == [t EXCEPT !.found = v]
         IN  IsTask(u) /\ u.key = t.key /\ u.kind = t.kind /\ u.profile = t.profile
               /\ u.paths = t.paths
BY DEF IsTask

LEMMA PathFields ==
  ASSUME NEW p, NEW v
  PROVE  /\ Wrapper(p, v).hash = v /\ Wrapper(p, v).wrapper
         /\ Toplevel(p, v).hash = v /\ ~Toplevel(p, v).wrapper
         /\ Wrapper(p, v).name = p /\ Toplevel(p, v).name = p
BY DEF Wrapper, Toplevel

LEMMA LocalCases ==
  ASSUME NEW path \in ProfilePaths
  PROVE  \E p \in Profiles, v \in Versions : path = Wrapper(p, v) \/ path = Toplevel(p, v)
BY DEF ProfilePaths

LEMMA HashOfLocal ==
  ASSUME NEW path \in ProfilePaths
  PROVE  path.hash \in Versions
<1>1. PICK p \in Profiles, v \in Versions : path = Wrapper(p, v) \/ path = Toplevel(p, v)
  BY LocalCases
<1>2. Wrapper(p, v).hash = v /\ Toplevel(p, v).hash = v
  BY PathFields
<1> QED BY <1>1, <1>2

LEMMA ResolvedIsLocal ==
  ASSUME NEW path \in ProfilePaths, NEW there
  PROVE  Resolved(path, there) \in ProfilePaths
<1>1. CASE ~path.wrapper
  BY <1>1 DEF Resolved
<1>2. CASE path.wrapper
  <2>1. PICK p \in Profiles, v \in Versions : path = Wrapper(p, v)
    <3>1. PICK p \in Profiles, v \in Versions : path = Wrapper(p, v) \/ path = Toplevel(p, v)
      BY LocalCases
    <3>2. ~Toplevel(p, v).wrapper
      BY PathFields
    <3> QED BY <1>2, <3>1, <3>2
  <2>2. References(path) = {Toplevel(p, v)}
    BY <2>1 DEF References, Toplevel
  <2>3. ResolveToplevel(path, References(path), there) \in {path, Toplevel(p, v)}
    BY <2>2 DEF ResolveToplevel
  <2>4. Toplevel(p, v) \in ProfilePaths
    BY DEF ProfilePaths
  <2> QED BY <1>2, <2>3, <2>4 DEF Resolved
<1> QED BY <1>1, <1>2

-----------------------------------------------------------------------------
(* What the App's bookkeeping does to the status of a profile. *)

LEMMA QuietFields ==
  ASSUME NEW ps, IsProfileStatus(ps)
  PROVE  LET q == Quiet(ps)
         IN  /\ IsProfileStatus(q)
             /\ ~q.checking /\ ~q.checkingSize /\ ~q.checkingPkg
             /\ q.paths = ps.paths /\ q.sizes = ps.sizes /\ q.diff = ps.diff
             /\ q.plan = ps.plan /\ q.update = ps.update
BY DEF Quiet, IsProfileStatus

LEMMA UpdatedFields ==
  ASSUME NEW ps, IsProfileStatus(ps), NEW t, t.kind = "update", NEW key, NEW result,
         result # None => Fits(t, result)
  PROVE  LET q == Updated(ps, key, result)
         IN  /\ IsProfileStatus(q)
             /\ ~q.checking
             /\ q.checkingSize = ps.checkingSize /\ q.checkingPkg = ps.checkingPkg
             /\ q.sizes = None /\ q.diff = None /\ q.plan = ps.plan
             /\ q.update.key = key
<1> DEFINE found == IF result = None \/ result.state = "notDeployed" THEN None ELSE result.paths
<1>1. found \in Pairs \cup {None}
  BY DEF Fits
<1>2. Updated(ps, key, result) =
        [ps EXCEPT !.update = [key |-> key,
                               state |-> IF result = None THEN "error" ELSE result.state],
                   !.checking = FALSE, !.paths = found, !.sizes = None, !.diff = None]
  BY DEF Updated
<1> HIDE DEF found
<1> QED BY <1>1, <1>2 DEF IsProfileStatus

LEMMA SizedFields ==
  ASSUME NEW ps, IsProfileStatus(ps), NEW t, t.kind = "size", NEW key, NEW result,
         result # None => Fits(t, result)
  PROVE  LET q == Sized(ps, key, result)
         IN  /\ IsProfileStatus(q)
             /\ ~q.checkingSize
             /\ q.checking = ps.checking
             /\ q.checkingPkg => ps.checkingPkg \/ (result # None /\ ps.paths # None)
             /\ q.paths = ps.paths /\ q.diff = ps.diff
             /\ q.plan = ps.plan /\ q.update = ps.update
             /\ q.sizes # None => q.sizes.key = key /\ q.sizes.said.of = t.paths
<1> DEFINE sizes == IF result = None THEN None ELSE [key |-> key, said |-> result]
           pkg == ps.checkingPkg \/ (result # None /\ ps.paths # None)
<1>1. sizes # None => sizes.key = key /\ sizes.said.of = t.paths
  BY DEF Fits
<1>2. Sized(ps, key, result) =
        [ps EXCEPT !.checkingSize = FALSE, !.sizes = sizes, !.checkingPkg = pkg]
  BY DEF Sized, IsProfileStatus
<1>3. pkg => ps.checkingPkg \/ (result # None /\ ps.paths # None)
  OBVIOUS
<1> HIDE DEF sizes, pkg
<1> QED BY <1>1, <1>2, <1>3 DEF IsProfileStatus

LEMMA DiffedFields ==
  ASSUME NEW ps, IsProfileStatus(ps), NEW t, t.kind = "pkg", NEW key, NEW result,
         result # None => Fits(t, result)
  PROVE  LET q == Diffed(ps, key, result)
         IN  /\ IsProfileStatus(q)
             /\ ~q.checkingPkg
             /\ q.checking = ps.checking /\ q.checkingSize = ps.checkingSize
             /\ q.paths = ps.paths /\ q.sizes = ps.sizes
             /\ q.plan = ps.plan /\ q.update = ps.update
             /\ q.diff # None =>
                  q.diff.key = key /\ q.diff.said.of = t.paths /\ DiffIsTrue(q.diff.said)
<1> DEFINE diff == IF result = None THEN None ELSE [key |-> key, said |-> result]
<1>1. diff # None => diff.key = key /\ diff.said.of = t.paths /\ DiffIsTrue(diff.said)
  BY DEF Fits
<1>2. Diffed(ps, key, result) = [ps EXCEPT !.checkingPkg = FALSE, !.diff = diff]
  BY DEF Diffed
<1> HIDE DEF diff
<1> QED BY <1>1, <1>2 DEF IsProfileStatus

LEMMA PlannedFields ==
  ASSUME NEW ps, IsProfileStatus(ps), NEW key, NEW result
  PROVE  LET q == Planned(ps, key, result)
         IN  /\ IsProfileStatus(q)
             /\ q.checking = ps.checking /\ q.checkingSize = ps.checkingSize
             /\ q.checkingPkg = ps.checkingPkg
             /\ q.paths = ps.paths /\ q.sizes = ps.sizes
             /\ q.diff = ps.diff /\ q.update = ps.update
             /\ q.plan = ps.plan \/ (result # None /\ q.plan.key = key /\ q.plan.said = result)
<1> DEFINE plan == IF result = None THEN ps.plan ELSE [key |-> key, said |-> result]
<1>1. plan = ps.plan \/ (result # None /\ plan.key = key /\ plan.said = result)
  OBVIOUS
<1>2. Planned(ps, key, result) = [ps EXCEPT !.plan = plan]
  BY DEF Planned, IsProfileStatus
<1> HIDE DEF plan
<1> QED BY <1>1, <1>2 DEF IsProfileStatus

LEMMA UnknownFields ==
  /\ IsProfileStatus(UnknownProfile)
  /\ ~UnknownProfile.checking /\ ~UnknownProfile.checkingSize /\ ~UnknownProfile.checkingPkg
  /\ UnknownProfile.sizes = None /\ UnknownProfile.diff = None
  /\ UnknownProfile.plan = None /\ UnknownProfile.update = None
BY DEF UnknownProfile, IsProfileStatus

LEMMA WipedFields ==
  ASSUME NEW ps
  PROVE  LET q == WipedProfile(ps)
         IN  /\ IsProfileStatus(q)
             /\ q.checking = ps.checking /\ ~q.checkingSize /\ ~q.checkingPkg
             /\ q.sizes = None /\ q.diff = None /\ q.plan = None /\ q.update = None
BY UnknownFields DEF WipedProfile, IsProfileStatus

LEMMA DriftedFields ==
  ASSUME NEW h, IsHostStatus(h), NEW key, NEW result
  PROVE  LET q == Drifted(h, key, result)
         IN  /\ IsHostStatus(q)
             /\ ~q.checkingCache
             /\ q.checkingReach = h.checkingReach
             /\ q.checkingPlan => h.checkingPlan \/ HasDrift(result)
             /\ q.drift # None => result # None /\ q.drift.key = key /\ q.drift.said = result
<1> DEFINE drift == IF result = None THEN None ELSE [key |-> key, said |-> result]
           plan == h.checkingPlan \/ HasDrift(result)
<1>1. drift # None => result # None /\ drift.key = key /\ drift.said = result
  OBVIOUS
<1>2. Drifted(h, key, result) =
        [h EXCEPT !.checkingCache = FALSE, !.drift = drift, !.checkingPlan = plan]
  BY DEF Drifted, IsHostStatus
<1>3. plan => h.checkingPlan \/ HasDrift(result)
  OBVIOUS
<1> HIDE DEF drift, plan, HasDrift
<1> QED BY <1>1, <1>2, <1>3 DEF IsHostStatus

-----------------------------------------------------------------------------
(* Steps of the probes. *)

LEMMA ProfileCheckFits ==
  ASSUME NEW t, IsTask(t), t.kind = "update", t.found # None,
         remote \in [Profiles -> RemotePaths \cup {None}]
  PROVE  Fits(t, ProfileCheck(t))
<1> DEFINE there == remote[t.profile]
           wrapper == Wrapper(t.profile, t.found)
           exact == Resolved(wrapper, there)
           check == ProfileCheck(t)
<1>1. t.profile \in Profiles /\ t.found \in Versions
  BY DEF IsTask
<1>2. wrapper \in ProfilePaths
  BY <1>1 DEF ProfilePaths
<1>3. exact \in ProfilePaths
  BY <1>2, ResolvedIsLocal
<1>4. CASE there = None
  <2>1. check.state = "notDeployed"
    BY <1>4 DEF ProfileCheck
  <2> QED BY <2>1 DEF Fits
<1>5. CASE there # None
  <2>1. there \in RemotePaths
    BY <1>1, <1>5
  <2>2. check.paths = << exact, there >> \/ check.paths = << wrapper, there >>
    BY <1>5 DEF ProfileCheck
  <2>3. check.paths \in Pairs
    BY <1>2, <1>3, <2>1, <2>2 DEF Pairs
  <2> QED BY <2>3 DEF Fits
<1> QED BY <1>4, <1>5

LEMMA PkgIsTrue ==
  ASSUME NEW t, IsTask(t), t.kind = "pkg", NEW changes,
         changes = VersionDiff(Closure(Resolved(t.paths[1], t.paths[2])), Closure(t.paths[2]))
  PROVE  DiffIsTrue([of |-> t.paths, changes |-> changes])
<1>1. t.paths[1] \in ProfilePaths /\ t.paths[2] \in RemotePaths
  BY DEF IsTask, Pairs
<1>2. Resolved(t.paths[1], t.paths[2]) \in ProfilePaths
  BY <1>1, ResolvedIsLocal
<1> QED BY <1>1, <1>2, ClosureIsIdentity, EmptyDiff DEF DiffIsTrue

LEMMA BuildPlanIsTrue ==
  ASSUME NEW t, IsTask(t), t.kind = "plan", t.found # None, NEW fetched
  PROVE  PlanIsTrue(BuildPlan(t, fetched))
<1> DEFINE closure == Closure(Wrapper(t.profile, t.found))
           missing == closure \ StorePaths(StoreOf(t.site))
           plan == ParseDryRun(DryRunLines(missing, fetched))
<1>1. t.found \in Versions
  BY DEF IsTask
<1>2. IsFiniteSet(closure)
  <2> DEFINE w == Wrapper(t.profile, t.found)
             top == [w EXCEPT !.wrapper = FALSE]
             rest == Packages[w.hash]
  <2>1. IsFiniteSet(rest)
    BY <1>1, PathFields, ClosuresAssumption
  <2>2. IsFiniteSet({w} \cup {top}) /\ IsFiniteSet({w})
    BY FS_Singleton, FS_AddElement
  <2>3. closure = {w} \/ closure = ({w} \cup {top}) \cup rest
    BY DEF Closure
  <2> HIDE DEF closure, w, top, rest
  <2> QED BY <2>1, <2>2, <2>3, FS_Union
<1>3. IsFiniteSet(missing)
  BY <1>2, FS_Subset
<1>4. Range(plan.toBuild) = missing \ fetched /\ Range(plan.toFetch) = missing \cap fetched
  BY <1>3, DryRunIsRead
<1>5. /\ BuildPlan(t, fetched).missing = missing
      /\ BuildPlan(t, fetched).toBuild = plan.toBuild
      /\ BuildPlan(t, fetched).toFetch = plan.toFetch
  BY DEF BuildPlan
<1> HIDE DEF missing, plan
<1> QED BY <1>4, <1>5 DEF PlanIsTrue

LEMMA CacheDriftIsTrue ==
  ASSUME NEW t, IsTask(t), t.found # None
  PROVE  DriftIsTrue(CacheDrift(t))
<1> DEFINE declared == Caches[t.found]
           there == CachesAt(t.site)
           added == AddedEntries(declared, there)
<1>1. declared \in Seq(Range(declared))
  BY CachesAssumption DEF IsTask
<1>2. /\ Urls(added) = Urls(Range(declared)) \ Urls(there)
      /\ Cardinality(Urls(added)) = Cardinality(added)
  BY <1>1, AddedIsReal
<1>3. /\ CacheDrift(t).declared = declared /\ CacheDrift(t).there = there
      /\ CacheDrift(t).added = added
  BY DEF CacheDrift
<1> HIDE DEF declared, there, added
<1> QED BY <1>2, <1>3 DEF DriftIsTrue

LEMMA AnswersFit ==
  ASSUME Types, NEW t \in tasks, Answers(t) \/ Fails(t)
  PROVE  \E result : Report(t, result) /\ (result # None => Fits(t, result))
<1>1. IsTask(t)
  BY DEF Types
<1>2. CASE Fails(t)
  BY <1>2 DEF Fails
<1>3. CASE t.kind = "reach" /\ \E up \in BOOLEAN : Report(t, up)
  BY <1>3 DEF Fits
<1>4. CASE t.found # None /\ t.kind = "update" /\ Report(t, ProfileCheck(t))
  BY <1>1, <1>4, ProfileCheckFits DEF Types
<1>5. CASE t.kind = "size" /\ Report(t, [of |-> t.paths])
  <2>1. Fits(t, [of |-> t.paths])
    BY <1>5 DEF Fits
  <2> QED BY <1>5, <2>1
<1>6. ASSUME NEW changes,
             changes = VersionDiff(Closure(Resolved(t.paths[1], t.paths[2])), Closure(t.paths[2])),
             t.kind = "pkg", Report(t, [of |-> t.paths, changes |-> changes])
      PROVE  \E result : Report(t, result) /\ (result # None => Fits(t, result))
  <2>1. DiffIsTrue([of |-> t.paths, changes |-> changes])
    BY <1>1, <1>6, PkgIsTrue
  <2>2. Fits(t, [of |-> t.paths, changes |-> changes])
    BY <1>6, <2>1 DEF Fits
  <2> QED BY <1>6, <2>2
<1>7. CASE /\ t.found # None /\ t.kind = "plan"
           /\ \E fetched \in {{}, Packages[t.found]} : Report(t, BuildPlan(t, fetched))
  <2>1. \A fetched : Fits(t, BuildPlan(t, fetched))
    BY <1>1, <1>7, BuildPlanIsTrue DEF Fits
  <2> QED BY <1>7, <2>1
<1>8. CASE t.found # None /\ t.kind = "drift" /\ Report(t, CacheDrift(t))
  <2>1. Fits(t, CacheDrift(t))
    BY <1>1, <1>8, CacheDriftIsTrue DEF Fits
  <2> QED BY <1>8, <2>1
<1> QED BY <1>2, <1>3, <1>4, <1>5, <1>6, <1>7, <1>8 DEF Answers

LEMMA ReportKeepsTypes ==
  ASSUME Types, NEW t \in tasks, NEW result, result # None => Fits(t, result),
         Report(t, result)
  PROVE  Types'
<1> DEFINE m == [task |-> t, result |-> result]
<1>1. IsReport(m)
  BY DEF IsReport, Types
<1>2. reports' = Append(reports, m) /\ tasks' \subseteq tasks
  BY DEF Report
<1>3. IsSequence(reports') /\ Range(reports') = Range(reports) \cup {m}
  BY <1>2, RangeOfAppend DEF Types
<1>4. \A n \in Range(reports') : IsReport(n)
  BY <1>1, <1>3 DEF Types
<1>5. UNCHANGED << flake, remote, profile, host, deploy, keys, wiped >>
  BY DEF Report, world, status, history
<1> QED BY <1>2, <1>3, <1>4, <1>5 DEF Types

LEMMA FirstHalfKeepsTypes ==
  ASSUME Types, NEW t \in tasks, FirstHalf(t)
  PROVE  Types'
<1> DEFINE version == IF t.kind \in {"size", "pkg"} THEN t.paths[1].hash ELSE flake
<1>1. IsTask(t)
  BY DEF Types
<1>2. version \in Versions
  <2>1. CASE t.kind \in {"size", "pkg"}
    <3>1. t.paths[1] \in ProfilePaths
      BY <1>1, <2>1 DEF IsTask, Pairs
    <3> QED BY <2>1, <3>1, HashOfLocal
  <2>2. CASE t.kind \notin {"size", "pkg"}
    BY <2>2 DEF Types
  <2> QED BY <2>1, <2>2
<1>3. IsTask([t EXCEPT !.found = version])
  BY <1>1, <1>2, FoundIsTask
<1>4. tasks' = (tasks \ {t}) \cup {[t EXCEPT !.found = version]}
  BY DEF FirstHalf
<1>5. \A u \in tasks' : IsTask(u)
  BY <1>3, <1>4 DEF Types
<1>6. UNCHANGED << flake, remote, reports, profile, host, deploy, keys, wiped >>
  BY DEF FirstHalf, status, history
<1> QED BY <1>5, <1>6 DEF Types

-----------------------------------------------------------------------------
(* Steps of the keys. *)

LEMMA SiteType == Site \in Sites
BY DEF Site, Sites

LEMMA PlanProbesAreTasks ==
  ASSUME NEW key \in Nat, NEW t \in PlanProbes(key)
  PROVE  IsTask(t) /\ t.key = key /\ t.kind = "plan" /\ t.profile \in Profiles
<1>1. PICK p \in Profiles : t = Probe(key, "plan", p, None, Site)
  BY DEF PlanProbes
<1>2. IsTask(Probe(key, "plan", p, None, Site))
  BY SiteType, ProbeIsTask, ProfilesAssumption DEF Kinds
<1> QED BY <1>1, <1>2, ProbeFields

(* A key counts, and asks only of the status and the probes.               *)
LEMMA PressLeaves ==
  ASSUME Types, Press
  PROVE  /\ keys' \in Nat /\ keys' = keys + 1 /\ wiped' <= keys' /\ wiped' < keys'
         /\ UNCHANGED << flake, remote, reports, wiped, late >>
BY DEF Types, Press, world, history

LEMMA KeysKeepTypes ==
  ASSUME Types, Keys
  PROVE  Types'
<1>1. CASE RefreshReachability
  <2> DEFINE t == Probe(keys + 1, "reach", None, None, None)
  <2>1. IsTask(t)
    BY ProbeIsTask DEF Kinds, Types
  <2>2. tasks' = tasks \cup {t} /\ UNCHANGED << profile, deploy >>
    BY <1>1 DEF RefreshReachability, Spawn
  <2>3. IsHostStatus(host')
    BY <1>1 DEF RefreshReachability, IsHostStatus, Types
  <2>4. Press
    BY <1>1 DEF RefreshReachability
  <2> HIDE DEF t
  <2> QED BY <2>1, <2>2, <2>3, <2>4, PressLeaves DEF Types
<1>2. CASE RefreshUpdates
  <2>1. \A p \in Profiles : IsTask(Probe(keys + 1, "update", p, None, None))
    <3> TAKE p \in Profiles
    <3>1. keys + 1 \in Nat /\ "update" \in Kinds /\ p # None
      BY ProfilesAssumption DEF Kinds, Types
    <3> QED BY <3>1, ProbeIsTask
  <2>2. /\ tasks' = tasks \cup {Probe(keys + 1, "update", p, None, None) : p \in Profiles}
        /\ UNCHANGED << host, deploy >>
    BY <1>2 DEF RefreshUpdates, Spawn
  <2>3. DOMAIN profile' = Profiles /\ \A p \in Profiles : IsProfileStatus(profile'[p])
    BY <1>2 DEF RefreshUpdates, IsProfileStatus, Types
  <2>4. Press
    BY <1>2 DEF RefreshUpdates
  <2>5. \A u \in tasks' : IsTask(u)
    BY <2>1, <2>2 DEF Types
  <2> QED BY <2>2, <2>3, <2>4, <2>5, PressLeaves DEF Types
<1>3. CASE RefreshSizes
  <2> DEFINE known == {p \in Profiles : profile[p].paths # None}
  <2>1. \A p \in known : IsTask(Probe(keys + 1, "size", p, profile[p].paths, None))
    <3> TAKE p \in known
    <3>1. profile[p].paths \in Pairs /\ p \in Profiles
      BY DEF Types, IsProfileStatus
    <3> QED BY <3>1, ProbeIsTask, ProfilesAssumption DEF Kinds, Types
  <2>2. /\ tasks' = tasks \cup {Probe(keys + 1, "size", p, profile[p].paths, None) : p \in known}
        /\ UNCHANGED << host, deploy >>
    BY <1>3 DEF RefreshSizes, Spawn
  <2>3. DOMAIN profile' = Profiles /\ \A p \in Profiles : IsProfileStatus(profile'[p])
    BY <1>3 DEF RefreshSizes, IsProfileStatus, Types
  <2>4. Press
    BY <1>3 DEF RefreshSizes
  <2>5. \A u \in tasks' : IsTask(u)
    BY <2>1, <2>2 DEF Types
  <2> QED BY <2>2, <2>3, <2>4, <2>5, PressLeaves DEF Types
<1>4. CASE RefreshBuildPlan
  <2>1. tasks' = tasks \cup PlanProbes(keys + 1) /\ UNCHANGED << profile, deploy >>
    BY <1>4 DEF RefreshBuildPlan, Spawn
  <2>2. IsHostStatus(host')
    BY <1>4 DEF RefreshBuildPlan, IsHostStatus, Types
  <2>3. Press
    BY <1>4 DEF RefreshBuildPlan
  <2>4. \A u \in tasks' : IsTask(u)
    BY <2>1, PlanProbesAreTasks DEF Types
  <2> QED BY <2>1, <2>2, <2>3, <2>4, PressLeaves DEF Types
<1>5. CASE RefreshCacheDrift
  <2> DEFINE t == Probe(keys + 1, "drift", None, None, Site)
  <2>1. IsTask(t)
    BY ProbeIsTask, SiteType DEF Kinds, Types
  <2>2. tasks' = tasks \cup {t} /\ UNCHANGED << profile, deploy >>
    BY <1>5 DEF RefreshCacheDrift, Spawn
  <2>3. IsHostStatus(host')
    BY <1>5 DEF RefreshCacheDrift, IsHostStatus, Types
  <2>4. Press
    BY <1>5 DEF RefreshCacheDrift
  <2> HIDE DEF t
  <2> QED BY <2>1, <2>2, <2>3, <2>4, PressLeaves DEF Types
<1>6. CASE ToggleRemoteBuild
  <2>1. Press /\ UNCHANGED << tasks, profile, host, deploy >>
    BY <1>6 DEF ToggleRemoteBuild, status
  <2> QED BY <2>1, PressLeaves DEF Types
<1>7. CASE Cancel
  <2>1. Press /\ tasks' = {} /\ deploy' = None
    BY <1>7 DEF Cancel
  <2>2. IsHostStatus(host')
    BY <1>7 DEF Cancel, QuietHost, IsHostStatus, Types
  <2>3. profile' = [p \in Profiles |-> Quiet(profile[p])]
    BY <1>7 DEF Cancel
  <2>4. DOMAIN profile' = Profiles /\ \A p \in Profiles : IsProfileStatus(profile'[p])
    BY <2>3, QuietFields DEF Types
  <2> QED BY <2>1, <2>2, <2>4, PressLeaves DEF Types
<1>8. CASE StartDeploy
  <2>1. Press /\ UNCHANGED << tasks, profile, host >>
    BY <1>8 DEF StartDeploy, status
  <2>2. deploy' = [version |-> flake, site |-> Site, done |-> {}]
    BY <1>8 DEF StartDeploy
  <2>3. deploy'.version \in Versions /\ DOMAIN deploy' = {"version", "site", "done"}
    BY <2>2 DEF Types
  <2> QED BY <2>1, <2>3, PressLeaves DEF Types
<1> QED
  BY <1>1, <1>2, <1>3, <1>4, <1>5, <1>6, <1>7, <1>8 DEF Keys

-----------------------------------------------------------------------------
(* Steps of the App's loop, of the deploy and of the world. *)

(* The report at the head of the channel.                                  *)
LEMMA HeadIsReport ==
  ASSUME Types, reports # << >>
  PROVE  /\ IsTask(Head(reports).task)
         /\ Head(reports).result # None => Fits(Head(reports).task, Head(reports).result)
         /\ Head(reports).task \in Outstanding
         /\ IsSequence(Tail(reports)) /\ \A m \in Range(Tail(reports)) : IsReport(m)
<1>1. IsSequence(Tail(reports)) /\ Range(reports) = {Head(reports)} \cup Range(Tail(reports))
  BY RangeOfTail DEF Types
<1>2. IsReport(Head(reports))
  BY <1>1 DEF Types
<1>3. Head(reports).task \in Outstanding
  BY <1>1, OutstandingIs DEF OutstandingOf
<1> QED BY <1>1, <1>2, <1>3 DEF IsReport, Types

LEMMA DiffProbesAreTasks ==
  ASSUME Types, NEW t, IsTask(t), t.kind = "size", NEW result, NEW u \in DiffProbes(t, result)
  PROVE  /\ IsTask(u) /\ u.key = t.key /\ u.kind = "pkg" /\ u.profile = t.profile
         /\ u.paths = profile[t.profile].paths
<1>1. t.profile \in Profiles /\ t.key \in Nat
  BY DEF IsTask
<1>2. /\ u = Probe(t.key, "pkg", t.profile, profile[t.profile].paths, None)
      /\ profile[t.profile].paths # None
  BY DEF DiffProbes
<1>3. profile[t.profile].paths \in Pairs
  BY <1>1, <1>2 DEF Types, IsProfileStatus
<1>4. "pkg" \in Kinds
  BY DEF Kinds
<1>5. IsTask(Probe(t.key, "pkg", t.profile, profile[t.profile].paths, None))
  BY <1>1, <1>3, <1>4, ProbeIsTask, ProfilesAssumption
<1> QED BY <1>2, <1>5, ProbeFields

LEMMA ApplyReportKeepsTypes ==
  ASSUME Types, ApplyReport
  PROVE  Types'
<1> DEFINE t == Head(reports).task
           result == Head(reports).result
           p == t.profile
<1>1. reports # << >> /\ reports' = Tail(reports)
  BY DEF ApplyReport
<1>2. IsTask(t) /\ (result # None => Fits(t, result))
  BY <1>1, HeadIsReport
<1>3. IsSequence(reports') /\ \A m \in Range(reports') : IsReport(m)
  BY <1>1, HeadIsReport
<1>4. UNCHANGED << flake, remote, deploy, keys, wiped >>
  BY DEF ApplyReport, world
<1> SUFFICES /\ \A u \in tasks' : IsTask(u)
             /\ DOMAIN profile' = Profiles
             /\ \A q \in Profiles : IsProfileStatus(profile'[q])
             /\ IsHostStatus(host')
  BY <1>3, <1>4 DEF Types
<1>5. CASE /\ t.kind = "reach"
           /\ host' = [host EXCEPT !.online = result, !.checkingReach = FALSE]
           /\ UNCHANGED << tasks, profile, late >>
  BY <1>5 DEF Types, IsHostStatus
<1>6. CASE /\ t.kind = "update"
           /\ profile' = [profile EXCEPT ![p] = Updated(@, t.key, result)]
           /\ UNCHANGED << tasks, host >>
  <2>1. p \in Profiles
    BY <1>2, <1>6 DEF IsTask
  <2>2. IsProfileStatus(Updated(profile[p], t.key, result))
    BY <1>2, <1>6, <2>1, UpdatedFields DEF Types
  <2> QED BY <1>6, <2>1, <2>2 DEF Types
<1>7. CASE /\ t.kind = "size"
           /\ profile' = [profile EXCEPT ![p] = Sized(@, t.key, result)]
           /\ Spawn(DiffProbes(t, result))
           /\ UNCHANGED << host, late >>
  <2>1. p \in Profiles
    BY <1>2, <1>7 DEF IsTask
  <2>2. IsProfileStatus(Sized(profile[p], t.key, result))
    BY <1>2, <1>7, <2>1, SizedFields DEF Types
  <2>3. \A u \in DiffProbes(t, result) : IsTask(u)
    BY <1>2, <1>7, DiffProbesAreTasks
  <2>4. \A u \in tasks' : IsTask(u)
    BY <1>7, <2>3 DEF Types, Spawn
  <2> QED BY <1>7, <2>1, <2>2, <2>4 DEF Types
<1>8. CASE /\ t.kind = "pkg"
           /\ profile' = [profile EXCEPT ![p] = Diffed(@, t.key, result)]
           /\ UNCHANGED << tasks, host, late >>
  <2>1. p \in Profiles
    BY <1>2, <1>8 DEF IsTask
  <2>2. IsProfileStatus(Diffed(profile[p], t.key, result))
    BY <1>2, <1>8, <2>1, DiffedFields DEF Types
  <2> QED BY <1>8, <2>1, <2>2 DEF Types
<1>9. CASE /\ t.kind = "plan"
           /\ profile' = [profile EXCEPT ![p] = Planned(@, t.key, result)]
           /\ host' = [host EXCEPT !.checkingPlan = FALSE]
           /\ UNCHANGED << tasks, late >>
  <2>1. p \in Profiles
    BY <1>2, <1>9 DEF IsTask
  <2>2. IsProfileStatus(Planned(profile[p], t.key, result))
    BY <2>1, PlannedFields DEF Types
  <2>3. IsHostStatus(host')
    BY <1>9 DEF Types, IsHostStatus
  <2> QED BY <1>9, <2>1, <2>2, <2>3 DEF Types
<1>10. CASE /\ t.kind = "drift"
            /\ host' = Drifted(host, t.key, result)
            /\ IF HasDrift(result) THEN Spawn(PlanProbes(t.key)) ELSE UNCHANGED tasks
            /\ UNCHANGED << profile, late >>
  <2>1. IsHostStatus(host')
    BY <1>10, DriftedFields DEF Types
  <2>2. t.key \in Nat
    BY <1>2 DEF IsTask
  <2>3. \A u \in PlanProbes(t.key) : IsTask(u)
    BY <2>2, PlanProbesAreTasks
  <2>4. \A u \in tasks' : IsTask(u)
    BY <1>10, <2>3 DEF Types, Spawn
  <2> QED BY <1>10, <2>1, <2>4 DEF Types
<1> QED
  BY <1>5, <1>6, <1>7, <1>8, <1>9, <1>10 DEF ApplyReport

LEMMA WorldKeepsTypes ==
  ASSUME Types, DeployEnds \/ EditFlake \/ \E p \in Profiles : Activate(p)
  PROVE  Types'
<1>1. CASE DeployEnds
  <2>1. deploy' = None /\ UNCHANGED << flake, remote, tasks, reports, keys >>
    BY <1>1 DEF DeployEnds, world, probes
  <2>2. CASE UNCHANGED << status, history >>
    BY <2>1, <2>2 DEF Types, status, history
  <2>3. CASE /\ profile' = [p \in Profiles |-> WipedProfile(profile[p])]
             /\ host' = WipedHost(host) /\ wiped' = keys
    <3>1. DOMAIN profile' = Profiles /\ \A p \in Profiles : IsProfileStatus(profile'[p])
      BY <2>3, WipedFields
    <3>2. IsHostStatus(host')
      BY <2>3 DEF WipedHost, IsHostStatus, Types
    <3>3. wiped' \in Nat /\ wiped' <= keys
      BY <2>3 DEF Types
    <3> QED BY <2>1, <3>1, <3>2, <3>3 DEF Types
  <2> QED BY <1>1, <2>2, <2>3 DEF DeployEnds
<1>2. CASE EditFlake
  <2>1. flake' \in Versions
    BY <1>2 DEF EditFlake
  <2>2. UNCHANGED << remote, tasks, reports, profile, host, deploy, keys, wiped >>
    BY <1>2 DEF EditFlake, probes, status, history
  <2> QED BY <2>1, <2>2 DEF Types
<1>3. ASSUME NEW p \in Profiles, Activate(p)
      PROVE  Types'
  <2>1. UNCHANGED << flake, tasks, reports, profile, host, keys, wiped >>
    BY <1>3 DEF Activate, probes, status, history
  <2>2. deploy # None /\ remote' = [remote EXCEPT ![p] = Toplevel(p, deploy.version)]
        /\ deploy' = [deploy EXCEPT !.done = @ \cup {p}]
    BY <1>3 DEF Activate
  <2>3. Toplevel(p, deploy.version) \in RemotePaths
    BY <2>2 DEF Types, RemotePaths
  <2>4. remote' \in [Profiles -> RemotePaths \cup {None}]
    BY <2>2, <2>3 DEF Types
  <2>5. deploy'.version \in Versions /\ DOMAIN deploy' = {"version", "site", "done"}
    BY <2>2 DEF Types
  <2> QED BY <2>1, <2>4, <2>5 DEF Types
<1> QED BY <1>1, <1>2, <1>3

LEMMA InitTypes ==
  ASSUME Init
  PROVE  Types
<1>1. flake \in Versions
  BY VersionsAssumption DEF Init, Versions
<1>2. remote \in [Profiles -> RemotePaths \cup {None}]
  <2>1. PICK r \in [Profiles -> Paths \cup {None}] :
          /\ remote = r
          /\ \A p \in Profiles : r[p] \in {None, Foreign, Toplevel(p, 0)}
    BY DEF Init
  <2>2. \A p \in Profiles : Toplevel(p, 0) \in RemotePaths
    BY <1>1 DEF Init, RemotePaths
  <2>3. Foreign \in RemotePaths
    BY DEF RemotePaths
  <2> QED BY <2>1, <2>2, <2>3
<1>3. IsHostStatus(host)
  BY DEF Init, UnknownHost, IsHostStatus
<1>4. DOMAIN profile = Profiles /\ \A p \in Profiles : IsProfileStatus(profile[p])
  BY UnknownFields DEF Init
<1> QED BY <1>1, <1>2, <1>3, <1>4, EmptySequence DEF Init, Types

LEMMA NextKeepsTypes == Types /\ [Next]_vars => Types'
<1> SUFFICES ASSUME Types, [Next]_vars
             PROVE  Types'
  OBVIOUS
<1>1. CASE Keys
  BY <1>1, KeysKeepTypes
<1>2. CASE RunProbe
  BY <1>2, AnswersFit, ReportKeepsTypes, FirstHalfKeepsTypes DEF RunProbe
<1>3. CASE ApplyReport
  BY <1>3, ApplyReportKeepsTypes
<1>4. CASE DeployEnds \/ EditFlake \/ \E p \in Profiles : Activate(p)
  BY <1>4, WorldKeepsTypes
<1>5. CASE UNCHANGED vars
  BY <1>5 DEF vars, world, probes, status, history, Types
<1> QED BY <1>1, <1>2, <1>3, <1>4, <1>5 DEF Next

(* Probes, reports and what is shown have the shapes the handlers rely on. *)
THEOREM TypesAlways == Spec => []Types
<1>1. Init => Types
  BY InitTypes
<1> QED BY <1>1, NextKeepsTypes, PTL DEF Spec

-----------------------------------------------------------------------------
(* What the steps do to the questions under way. *)

Alike(t, u) ==
  t.key = u.key /\ t.kind = u.kind /\ t.profile = u.profile /\ t.paths = u.paths

(* A probe that runs keeps its question; what the App knows waits.         *)
LEMMA RunProbeKeepsQuestions ==
  ASSUME Types, RunProbe
  PROVE  /\ \A u \in Outstanding' : \E t \in Outstanding : Alike(t, u)
         /\ \A t \in Outstanding : \E u \in Outstanding' : Alike(t, u)
         /\ UNCHANGED << profile, host, deploy, keys, wiped, late >>
<1>1. PICK t \in tasks : FirstHalf(t) \/ Answers(t) \/ Fails(t)
  BY DEF RunProbe
<1>2. CASE FirstHalf(t)
  <2> DEFINE v == IF t.kind \in {"size", "pkg"} THEN t.paths[1].hash ELSE flake
             found == [t EXCEPT !.found = v]
  <2>1. IsTask(t)
    BY DEF Types
  <2>2. Alike(t, found)
    BY <2>1 DEF Alike, IsTask
  <2>3. tasks' = (tasks \ {t}) \cup {found} /\ UNCHANGED reports
    BY <1>2 DEF FirstHalf
  <2> HIDE DEF found
  <2>4. UNCHANGED << profile, host, deploy, keys, wiped, late >>
    BY <1>2 DEF FirstHalf, status, history
  <2>5. \A u : Alike(u, u)
    BY DEF Alike
  <2>6. \A u \in Outstanding' : u \in Outstanding \/ u = found
    BY <2>3, OutstandingIs, OutstandingIsNext DEF OutstandingOf
  <2>7. \A u \in Outstanding : u \in Outstanding' \/ u = t
    BY <2>3, OutstandingIs, OutstandingIsNext DEF OutstandingOf
  <2>8. found \in Outstanding' /\ t \in Outstanding
    BY <2>3, OutstandingIs, OutstandingIsNext DEF OutstandingOf
  <2> QED BY <2>2, <2>4, <2>5, <2>6, <2>7, <2>8
<1>3. CASE Answers(t) \/ Fails(t)
  <2>1. PICK result : Report(t, result)
    BY <1>3, AnswersFit
  <2>2. /\ tasks' = tasks \ {t}
        /\ reports' = Append(reports, [task |-> t, result |-> result])
        /\ UNCHANGED << profile, host, deploy, keys, wiped, late >>
    BY <2>1 DEF Report, status, history
  <2>3. Range(reports') = Range(reports) \cup {[task |-> t, result |-> result]}
    BY <2>2, RangeOfAppend DEF Types
  <2>4. Outstanding' = Outstanding
    BY <2>2, <2>3, OutstandingIs, OutstandingIsNext DEF OutstandingOf
  <2>5. \A u : Alike(u, u)
    BY DEF Alike
  <2> QED BY <2>2, <2>4, <2>5
<1> QED BY <1>1, <1>2, <1>3

LEMMA SpawnAdds ==
  ASSUME NEW new, Spawn(new), UNCHANGED reports
  PROVE  Outstanding' = Outstanding \cup new
BY OutstandingIs, OutstandingIsNext DEF OutstandingOf, Spawn

LEMMA CancelLeavesReports ==
  ASSUME tasks' = {}, UNCHANGED reports
  PROVE  Outstanding' \subseteq Outstanding
BY OutstandingIs, OutstandingIsNext DEF OutstandingOf

(* A report that is applied leaves the channel, and what it leads to       *)
(* begins.                                                                 *)
LEMMA AppliedLeaves ==
  ASSUME Types, reports # << >>, reports' = Tail(reports), NEW new, tasks' = tasks \cup new
  PROVE  /\ Outstanding' \subseteq Outstanding \cup new
         /\ new \subseteq Outstanding'
         /\ Outstanding \subseteq Outstanding' \cup {Head(reports).task}
<1>1. Range(reports) = {Head(reports)} \cup Range(reports')
  BY RangeOfTail DEF Types
<1> QED BY <1>1, OutstandingIs, OutstandingIsNext DEF OutstandingOf

(* A key says nothing of the host; what it asks is about the paths shown.  *)
Told(ps) == << ps.paths, ps.sizes, ps.diff, ps.plan, ps.update >>

AboutPathsShown(t) == t.kind \in {"size", "pkg"} => t.paths = profile[t.profile].paths

LEMMA KeysOnlyAsk ==
  ASSUME Types, Keys
  PROVE  /\ \A p \in Profiles : Told(profile'[p]) = Told(profile[p])
         /\ host'.drift = host.drift
         /\ \A u \in Outstanding' :
              u \in Outstanding \/ (u.key = keys + 1 /\ AboutPathsShown(u))
         /\ keys' = keys + 1 /\ UNCHANGED << wiped, late >>
<1>0. Press
  BY DEF Keys, RefreshReachability, RefreshUpdates, RefreshSizes, RefreshBuildPlan,
         RefreshCacheDrift, ToggleRemoteBuild, Cancel, StartDeploy
<1>1. keys' = keys + 1 /\ UNCHANGED << wiped, late, reports >>
  BY <1>0, PressLeaves
<1> SUFFICES /\ \A p \in Profiles : Told(profile'[p]) = Told(profile[p])
             /\ host'.drift = host.drift
             /\ \A u \in Outstanding' :
                  u \in Outstanding \/ (u.key = keys + 1 /\ AboutPathsShown(u))
  BY <1>1
<1>2. CASE RefreshReachability
  <2> DEFINE t == Probe(keys + 1, "reach", None, None, None)
  <2>1. Spawn({t}) /\ profile' = profile /\ host' = [host EXCEPT !.checkingReach = TRUE]
    BY <1>2 DEF RefreshReachability
  <2>2. t.key = keys + 1 /\ t.kind = "reach"
    BY ProbeFields
  <2> HIDE DEF t
  <2>3. Outstanding' = Outstanding \cup {t}
    BY <1>1, <2>1, SpawnAdds
  <2>4. host'.drift = host.drift
    BY <2>1 DEF Types, IsHostStatus
  <2> QED BY <2>1, <2>2, <2>3, <2>4 DEF AboutPathsShown
<1>3. CASE RefreshUpdates
  <2> DEFINE new == {Probe(keys + 1, "update", p, None, None) : p \in Profiles}
  <2>1. /\ Spawn(new) /\ host' = host
        /\ profile' = [p \in Profiles |-> [profile[p] EXCEPT !.checking = TRUE]]
    BY <1>3 DEF RefreshUpdates
  <2>2. \A t \in new : t.key = keys + 1 /\ t.kind = "update"
    BY ProbeFields
  <2> HIDE DEF new
  <2>3. Outstanding' = Outstanding \cup new
    BY <1>1, <2>1, SpawnAdds
  <2>4. \A p \in Profiles : Told(profile'[p]) = Told(profile[p])
    BY <2>1 DEF Told, Types, IsProfileStatus
  <2> QED BY <2>1, <2>2, <2>3, <2>4 DEF AboutPathsShown
<1>4. CASE RefreshSizes
  <2> DEFINE known == {p \in Profiles : profile[p].paths # None}
             new == {Probe(keys + 1, "size", p, profile[p].paths, None) : p \in known}
  <2>1. /\ Spawn(new) /\ host' = host
        /\ profile' = [p \in Profiles |->
                         IF p \in known THEN [profile[p] EXCEPT !.checkingSize = TRUE]
                                        ELSE profile[p]]
    BY <1>4 DEF RefreshSizes
  <2>2. \A t \in new : t.key = keys + 1 /\ t.paths = profile[t.profile].paths
    BY ProbeFields
  <2> HIDE DEF new
  <2>3. Outstanding' = Outstanding \cup new
    BY <1>1, <2>1, SpawnAdds
  <2>4. \A p \in Profiles : Told(profile'[p]) = Told(profile[p])
    BY <2>1 DEF Told, Types, IsProfileStatus
  <2> QED BY <2>1, <2>2, <2>3, <2>4 DEF AboutPathsShown
<1>5. CASE RefreshBuildPlan
  <2>1. /\ Spawn(PlanProbes(keys + 1)) /\ profile' = profile
        /\ host' = [host EXCEPT !.checkingPlan = TRUE]
    BY <1>5 DEF RefreshBuildPlan
  <2>2. \A t \in PlanProbes(keys + 1) : t.key = keys + 1 /\ t.kind = "plan"
    BY PlanProbesAreTasks DEF Types
  <2>3. Outstanding' = Outstanding \cup PlanProbes(keys + 1)
    BY <1>1, <2>1, SpawnAdds
  <2>4. host'.drift = host.drift
    BY <2>1 DEF Types, IsHostStatus
  <2> QED BY <2>1, <2>2, <2>3, <2>4 DEF AboutPathsShown
<1>6. CASE RefreshCacheDrift
  <2> DEFINE t == Probe(keys + 1, "drift", None, None, Site)
  <2>1. Spawn({t}) /\ profile' = profile /\ host' = [host EXCEPT !.checkingCache = TRUE]
    BY <1>6 DEF RefreshCacheDrift
  <2>2. t.key = keys + 1 /\ t.kind = "drift"
    BY ProbeFields
  <2> HIDE DEF t
  <2>3. Outstanding' = Outstanding \cup {t}
    BY <1>1, <2>1, SpawnAdds
  <2>4. host'.drift = host.drift
    BY <2>1 DEF Types, IsHostStatus
  <2> QED BY <2>1, <2>2, <2>3, <2>4 DEF AboutPathsShown
<1>7. CASE ToggleRemoteBuild \/ StartDeploy
  <2>1. UNCHANGED << tasks, profile, host >>
    BY <1>7 DEF ToggleRemoteBuild, StartDeploy, status
  <2>2. Outstanding' = Outstanding
    BY <1>1, <2>1, OutstandingIs, OutstandingIsNext
  <2> QED BY <2>1, <2>2
<1>8. CASE Cancel
  <2>1. /\ tasks' = {} /\ host' = QuietHost(host)
        /\ profile' = [p \in Profiles |-> Quiet(profile[p])]
    BY <1>8 DEF Cancel
  <2>2. Outstanding' \subseteq Outstanding
    BY <1>1, <2>1, CancelLeavesReports
  <2>3. \A p \in Profiles : Told(profile'[p]) = Told(profile[p])
    BY <2>1, QuietFields DEF Told, Types
  <2>4. host'.drift = host.drift
    BY <2>1 DEF QuietHost, Types, IsHostStatus
  <2> QED BY <2>2, <2>3, <2>4
<1> QED BY <1>2, <1>3, <1>4, <1>5, <1>6, <1>7, <1>8 DEF Keys

-----------------------------------------------------------------------------
(* Sizes and diffs are those of the paths beside them: so are the measure- *)
(* ments under way, unless the paths were replaced since they began.       *)

Measuring(t) ==
  t.kind \in {"size", "pkg"} =>
    t.paths = profile[t.profile].paths \/ << t.key, t.profile >> \in late

MeasuredInv == MeasuredAsShown /\ \A t \in Outstanding : Measuring(t)

(* Measured, of one profile's numbers.                                     *)
Beside(item, p) == item # None => item.said.of = profile[p].paths \/ << item.key, p >> \in late

LEMMA MeasuredIs ==
  MeasuredAsShown <=>
    \A p \in Profiles : Beside(profile[p].sizes, p) /\ Beside(profile[p].diff, p)
BY DEF MeasuredAsShown, Beside

LEMMA MeasuredIsNext ==
  MeasuredAsShown' <=>
    \A p \in Profiles : /\ Beside(profile[p].sizes, p)'
                        /\ Beside(profile[p].diff, p)'
BY DEF MeasuredAsShown, Beside

LEMMA TaskProfile ==
  ASSUME Types, NEW t \in Outstanding
  PROVE  IsTask(t) /\ (t.kind \in {"update", "size", "pkg", "plan"} => t.profile \in Profiles)
<1>1. IsTask(t)
  BY OutstandingIs DEF OutstandingOf, Types, IsReport
<1> QED BY <1>1 DEF IsTask

(* Steps that tell nothing new and ask only about what is shown.           *)
LEMMA AskingKeepsMeasured ==
  ASSUME Types, MeasuredInv, UNCHANGED late,
         \A p \in Profiles : Told(profile'[p]) = Told(profile[p]),
         \A u \in Outstanding' :
            \/ \E t \in Outstanding : Alike(t, u)
            \/ IsTask(u) /\ AboutPathsShown(u)
  PROVE  MeasuredInv'
<1>1. \A p \in Profiles :
        /\ profile'[p].paths = profile[p].paths
        /\ profile'[p].sizes = profile[p].sizes /\ profile'[p].diff = profile[p].diff
  BY DEF Told
<1>2. MeasuredAsShown'
  BY <1>1, MeasuredIs, MeasuredIsNext DEF Beside, MeasuredInv
<1>3. ASSUME NEW u \in Outstanding', u.kind \in {"size", "pkg"}
      PROVE  Measuring(u)'
  <2>1. CASE \E t \in Outstanding : Alike(t, u)
    <3>1. PICK t \in Outstanding : Alike(t, u)
      BY <2>1
    <3>2. t.kind \in {"size", "pkg"} /\ t.profile \in Profiles /\ Measuring(t)
      BY <1>3, <3>1, TaskProfile DEF Alike, MeasuredInv
    <3> QED BY <1>1, <3>1, <3>2 DEF Alike, Measuring
  <2>2. CASE IsTask(u) /\ AboutPathsShown(u)
    <3>1. u.profile \in Profiles
      BY <1>3, <2>2 DEF IsTask
    <3> QED BY <1>1, <1>3, <2>2, <3>1 DEF AboutPathsShown, Measuring
  <2> QED BY <2>1, <2>2
<1>4. \A u \in Outstanding' : Measuring(u)'
  BY <1>3 DEF Measuring
<1> QED BY <1>2, <1>4 DEF MeasuredInv

(* A step that tells something of one profile, on the same paths.          *)
LEMMA TellingKeepsMeasured ==
  ASSUME Types, MeasuredInv, UNCHANGED late, NEW p \in Profiles, NEW ps,
         profile' = [profile EXCEPT ![p] = ps],
         ps.paths = profile[p].paths,
         Beside(ps.sizes, p), Beside(ps.diff, p),
         \A u \in Outstanding' : u \in Outstanding \/ (IsTask(u) /\ AboutPathsShown(u))
  PROVE  MeasuredInv'
<1>1. \A q \in Profiles : profile'[q] = IF q = p THEN ps ELSE profile[q]
  BY DEF Types
<1>2. \A q \in Profiles : profile'[q].paths = profile[q].paths
  BY <1>1
<1>3. MeasuredAsShown'
  BY <1>1, <1>2, MeasuredIs, MeasuredIsNext DEF Beside, MeasuredInv
<1>4. \A u \in Outstanding' : Measuring(u)'
  <2> SUFFICES ASSUME NEW u \in Outstanding', u.kind \in {"size", "pkg"}
               PROVE  Measuring(u)'
    BY DEF Measuring
  <2>1. Measuring(u)
    BY DEF MeasuredInv, AboutPathsShown, Measuring
  <2>2. u.profile \in Profiles
    BY TaskProfile DEF IsTask
  <2> QED BY <1>2, <2>1, <2>2 DEF Measuring
<1> QED BY <1>3, <1>4 DEF MeasuredInv

LEMMA ApplyReportKeepsMeasured ==
  ASSUME Types, MeasuredInv, ApplyReport
  PROVE  MeasuredInv'
<1> DEFINE t == Head(reports).task
           result == Head(reports).result
           p == t.profile
<1>1. reports # << >> /\ reports' = Tail(reports)
  BY DEF ApplyReport
<1>2. IsTask(t) /\ (result # None => Fits(t, result)) /\ t \in Outstanding
  BY <1>1, HeadIsReport
<1>3. ASSUME UNCHANGED tasks
      PROVE  \A u \in Outstanding' : u \in Outstanding
  <2>1. tasks' = tasks \cup {}
    BY <1>3
  <2>2. Outstanding' \subseteq Outstanding \cup {}
    BY <1>1, <2>1, AppliedLeaves
  <2> QED BY <2>2
<1>4. \A u \in Outstanding : Alike(u, u)
  BY DEF Alike
<1>5. CASE t.kind = "reach" /\ UNCHANGED << tasks, profile, late >>
  <2>1. \A u \in Outstanding' : \E v \in Outstanding : Alike(v, u)
    BY <1>3, <1>4, <1>5
  <2>2. \A q \in Profiles : Told(profile'[q]) = Told(profile[q])
    BY <1>5
  <2> QED BY <1>5, <2>1, <2>2, AskingKeepsMeasured
<1>6. CASE /\ t.kind = "update"
           /\ profile' = [profile EXCEPT ![p] = Updated(@, t.key, result)]
           /\ late' = late \cup OvertakenBy(p, {"size", "pkg"}, Outstanding)
           /\ UNCHANGED << tasks, host >>
  <2>1. p \in Profiles
    BY <1>2, <1>6 DEF IsTask
  <2> DEFINE ps == Updated(profile[p], t.key, result)
  <2>2. ps.sizes = None /\ ps.diff = None
    BY <1>2, <1>6, <2>1, UpdatedFields DEF Types
  <2> HIDE DEF ps
  <2>3. \A q \in Profiles : profile'[q] = IF q = p THEN ps ELSE profile[q]
    BY <1>6, <2>1 DEF Types, ps
  <2>4. late \subseteq late'
    BY <1>6
  <2>5. MeasuredAsShown'
    BY <2>2, <2>3, <2>4, MeasuredIs, MeasuredIsNext DEF Beside, MeasuredInv
  <2>6. \A u \in Outstanding' : Measuring(u)'
    <3> SUFFICES ASSUME NEW u \in Outstanding', u.kind \in {"size", "pkg"}
                 PROVE  Measuring(u)'
      BY DEF Measuring
    <3>1. u \in Outstanding
      BY <1>3, <1>6
    <3>2. u.profile \in Profiles /\ Measuring(u)
      BY <3>1, TaskProfile DEF MeasuredInv
    <3>3. CASE u.profile = p
      <4>1. << u.key, p >> \in late'
        BY <1>6, <3>1, <3>3 DEF OvertakenBy
      <4> QED BY <3>3, <4>1 DEF Measuring
    <3>4. CASE u.profile # p
      BY <2>3, <2>4, <3>2, <3>4 DEF Measuring
    <3> QED BY <3>3, <3>4
  <2> QED BY <2>5, <2>6 DEF MeasuredInv
<1>7. CASE /\ t.kind = "size"
           /\ profile' = [profile EXCEPT ![p] = Sized(@, t.key, result)]
           /\ Spawn(DiffProbes(t, result))
           /\ UNCHANGED << host, late >>
  <2>1. p \in Profiles /\ Measuring(t)
    BY <1>2, <1>7 DEF IsTask, MeasuredInv
  <2> DEFINE ps == Sized(profile[p], t.key, result)
  <2>2. /\ ps.paths = profile[p].paths /\ ps.diff = profile[p].diff
        /\ ps.sizes # None => ps.sizes.key = t.key /\ ps.sizes.said.of = t.paths
    BY <1>2, <1>7, <2>1, SizedFields DEF Types
  <2> HIDE DEF ps
  <2>3. Beside(ps.sizes, p)
    BY <1>7, <2>1, <2>2 DEF Beside, Measuring
  <2>4. Beside(ps.diff, p)
    BY <2>1, <2>2, MeasuredIs DEF MeasuredInv
  <2>5. Outstanding' \subseteq Outstanding \cup DiffProbes(t, result)
    BY <1>1, <1>7, AppliedLeaves DEF Spawn
  <2>6. \A u \in DiffProbes(t, result) : IsTask(u) /\ AboutPathsShown(u)
    BY <1>2, <1>7, DiffProbesAreTasks DEF AboutPathsShown
  <2>7. profile' = [profile EXCEPT ![p] = ps]
    BY <1>7 DEF ps
  <2> QED BY <1>7, <2>1, <2>2, <2>3, <2>4, <2>5, <2>6, <2>7, TellingKeepsMeasured
<1>8. CASE /\ t.kind = "pkg"
           /\ profile' = [profile EXCEPT ![p] = Diffed(@, t.key, result)]
           /\ UNCHANGED << tasks, host, late >>
  <2>1. p \in Profiles /\ Measuring(t)
    BY <1>2, <1>8 DEF IsTask, MeasuredInv
  <2> DEFINE ps == Diffed(profile[p], t.key, result)
  <2>2. /\ ps.paths = profile[p].paths /\ ps.sizes = profile[p].sizes
        /\ ps.diff # None => ps.diff.key = t.key /\ ps.diff.said.of = t.paths
    BY <1>2, <1>8, <2>1, DiffedFields DEF Types
  <2> HIDE DEF ps
  <2>3. Beside(ps.diff, p)
    BY <1>8, <2>1, <2>2 DEF Beside, Measuring
  <2>4. Beside(ps.sizes, p)
    BY <2>1, <2>2, MeasuredIs DEF MeasuredInv
  <2>5. profile' = [profile EXCEPT ![p] = ps]
    BY <1>8 DEF ps
  <2> QED BY <1>3, <1>8, <2>1, <2>2, <2>3, <2>4, <2>5, TellingKeepsMeasured
<1>9. CASE /\ t.kind = "plan"
           /\ profile' = [profile EXCEPT ![p] = Planned(@, t.key, result)]
           /\ UNCHANGED << tasks, late >>
  <2>1. p \in Profiles
    BY <1>2, <1>9 DEF IsTask
  <2> DEFINE ps == Planned(profile[p], t.key, result)
  <2>2. ps.paths = profile[p].paths /\ ps.sizes = profile[p].sizes /\ ps.diff = profile[p].diff
    BY <2>1, PlannedFields DEF Types
  <2> HIDE DEF ps
  <2>3. Beside(ps.diff, p) /\ Beside(ps.sizes, p)
    BY <2>1, <2>2, MeasuredIs DEF MeasuredInv
  <2>4. profile' = [profile EXCEPT ![p] = ps]
    BY <1>9 DEF ps
  <2> QED BY <1>3, <1>9, <2>1, <2>2, <2>3, <2>4, TellingKeepsMeasured
<1>10. CASE /\ t.kind = "drift"
            /\ IF HasDrift(result) THEN Spawn(PlanProbes(t.key)) ELSE UNCHANGED tasks
            /\ UNCHANGED << profile, late >>
  <2> DEFINE new == IF HasDrift(result) THEN PlanProbes(t.key) ELSE {}
  <2>1. \A u \in new : IsTask(u) /\ u.kind = "plan"
    BY <1>2, PlanProbesAreTasks DEF IsTask
  <2>2. tasks' = tasks \cup new
    BY <1>10 DEF Spawn
  <2> HIDE DEF new
  <2>3. Outstanding' \subseteq Outstanding \cup new
    BY <1>1, <2>2, AppliedLeaves
  <2>4. \A u \in Outstanding' :
           (\E v \in Outstanding : Alike(v, u)) \/ (IsTask(u) /\ AboutPathsShown(u))
    BY <1>4, <2>1, <2>3 DEF AboutPathsShown
  <2>5. \A q \in Profiles : Told(profile'[q]) = Told(profile[q])
    BY <1>10
  <2> QED BY <1>10, <2>4, <2>5, AskingKeepsMeasured
<1> QED
  BY <1>5, <1>6, <1>7, <1>8, <1>9, <1>10 DEF ApplyReport

(* Steps of the deploy and of the world leave the questions alone.         *)
LEMMA WorldLeavesQuestions ==
  ASSUME DeployEnds \/ EditFlake \/ \E p \in Profiles : Activate(p)
  PROVE  Outstanding' = Outstanding /\ UNCHANGED << tasks, reports, keys >>
<1>1. UNCHANGED << tasks, reports, keys >>
  BY DEF DeployEnds, EditFlake, Activate, probes
<1> QED BY <1>1, OutstandingIs, OutstandingIsNext

LEMMA WorldKeepsMeasured ==
  ASSUME Types, MeasuredInv, DeployEnds \/ EditFlake \/ \E p \in Profiles : Activate(p)
  PROVE  MeasuredInv'
<1>1. Outstanding' = Outstanding
  BY WorldLeavesQuestions
<1>2. CASE UNCHANGED << profile, late >>
  <2>1. \A u \in Outstanding' : \E t \in Outstanding : Alike(t, u)
    BY <1>1 DEF Alike
  <2>2. \A p \in Profiles : Told(profile'[p]) = Told(profile[p])
    BY <1>2
  <2> QED BY <1>2, <2>1, <2>2, AskingKeepsMeasured
<1>3. CASE /\ profile' = [p \in Profiles |-> WipedProfile(profile[p])]
           /\ late' = late \cup {t.key : t \in Outstanding} \X (Profiles \cup {None})
  <2>1. \A p \in Profiles : profile'[p].sizes = None /\ profile'[p].diff = None
    BY <1>3, WipedFields
  <2>2. MeasuredAsShown'
    BY <2>1, MeasuredIsNext DEF Beside
  <2>3. \A u \in Outstanding' : Measuring(u)'
    <3> SUFFICES ASSUME NEW u \in Outstanding', u.kind \in {"size", "pkg"}
                 PROVE  Measuring(u)'
      BY DEF Measuring
    <3>1. u \in Outstanding /\ u.profile \in Profiles
      BY <1>1, TaskProfile
    <3>2. << u.key, u.profile >> \in late'
      BY <1>3, <3>1
    <3> QED BY <3>2 DEF Measuring
  <2> QED BY <2>2, <2>3 DEF MeasuredInv
<1> QED
  BY <1>2, <1>3 DEF DeployEnds, EditFlake, Activate, status, history

(* Numbers on the screen are of the paths beside them, unless the paths    *)
(* were replaced while they were measured (apply_probe).                   *)
THEOREM MeasuredAlwaysAsShown == Spec => []MeasuredAsShown
<1>1. Init => MeasuredInv
  <2> SUFFICES ASSUME Init PROVE MeasuredInv
    OBVIOUS
  <2>1. Outstanding = {}
    BY OutstandingIs, EmptySequence DEF OutstandingOf, Init
  <2>2. \A p \in Profiles : profile[p].sizes = None /\ profile[p].diff = None
    BY UnknownFields DEF Init
  <2> QED BY <2>1, <2>2, MeasuredIs DEF Beside, MeasuredInv
<1>2. Types /\ MeasuredInv /\ [Next]_vars => MeasuredInv'
  <2> SUFFICES ASSUME Types, MeasuredInv, [Next]_vars PROVE MeasuredInv'
    OBVIOUS
  <2>1. CASE Keys
    <3>1. \A u \in Outstanding' : u \in Outstanding \/ AboutPathsShown(u)
      BY <2>1, KeysOnlyAsk
    <3>2. \A u \in Outstanding' : IsTask(u)
      <4>1. Types'
        BY <2>1, KeysKeepTypes
      <4> QED BY <4>1, OutstandingIsNext DEF OutstandingOf, Types, IsReport
    <3>3. \A u \in Outstanding : Alike(u, u)
      BY DEF Alike
    <3> QED BY <2>1, <3>1, <3>2, <3>3, KeysOnlyAsk, AskingKeepsMeasured
  <2>2. CASE RunProbe
    <3>1. \A p \in Profiles : Told(profile'[p]) = Told(profile[p])
      BY <2>2, RunProbeKeepsQuestions
    <3> QED BY <2>2, <3>1, RunProbeKeepsQuestions, AskingKeepsMeasured
  <2>3. CASE ApplyReport
    BY <2>3, ApplyReportKeepsMeasured
  <2>4. CASE DeployEnds \/ EditFlake \/ \E p \in Profiles : Activate(p)
    BY <2>4, WorldKeepsMeasured
  <2>5. CASE UNCHANGED vars
    <3>1. UNCHANGED << tasks, reports, profile, late >>
      BY <2>5 DEF vars, probes, status, history
    <3>2. Outstanding' = Outstanding
      BY <3>1, OutstandingIs, OutstandingIsNext
    <3>3. \A u \in Outstanding' : \E t \in Outstanding : Alike(t, u)
      BY <3>2 DEF Alike
    <3>4. \A p \in Profiles : Told(profile'[p]) = Told(profile[p])
      BY <3>1
    <3> QED BY <3>1, <3>3, <3>4, AskingKeepsMeasured
  <2> QED BY <2>1, <2>2, <2>3, <2>4, <2>5 DEF Next
<1>3. MeasuredInv => MeasuredAsShown
  BY DEF MeasuredInv
<1> QED BY <1>1, <1>2, <1>3, TypesAlways, PTL DEF Spec

-----------------------------------------------------------------------------
(* What is said was asked for after the last deploy, or was under way when *)
(* it ended: so is what is asked.                                          *)

Recent(key, p) == key > wiped \/ << key, p >> \in late

Asked(t) == \A p \in Profiles \cup {None} : Recent(t.key, p)

Said(item, p) == item = None \/ Recent(item.key, p)

SinceInv == SaidSinceDeploy /\ \A t \in Outstanding : Asked(t)

LEMMA SinceIs ==
  SaidSinceDeploy <=>
    /\ Said(host.drift, None)
    /\ \A p \in Profiles :
         /\ Said(profile[p].update, p) /\ Said(profile[p].sizes, p)
         /\ Said(profile[p].diff, p) /\ Said(profile[p].plan, p)
BY DEF SaidSinceDeploy, Said, Recent

LEMMA SinceIsNext ==
  SaidSinceDeploy' <=>
    /\ Said(host.drift, None)'
    /\ \A p \in Profiles :
         /\ Said(profile[p].update, p)' /\ Said(profile[p].sizes, p)'
         /\ Said(profile[p].diff, p)' /\ Said(profile[p].plan, p)'
BY DEF SaidSinceDeploy, Said, Recent

(* Steps that wipe nothing: every item that is new on the screen is recent,*)
(* and so is every question.                                               *)
LEMMA TellingKeepsSince ==
  ASSUME SinceInv, UNCHANGED wiped, late \subseteq late',
         host'.drift = host.drift \/ Said(host'.drift, None),
         \A p \in Profiles :
            /\ profile'[p].update = profile[p].update \/ Said(profile'[p].update, p)
            /\ profile'[p].sizes = profile[p].sizes \/ Said(profile'[p].sizes, p)
            /\ profile'[p].diff = profile[p].diff \/ Said(profile'[p].diff, p)
            /\ profile'[p].plan = profile[p].plan \/ Said(profile'[p].plan, p),
         \A u \in Outstanding' : Asked(u)
  PROVE  SinceInv'
<1>1. \A key, p : Recent(key, p) => Recent(key, p)'
  BY DEF Recent
<1>2. SaidSinceDeploy'
  BY <1>1, SinceIs, SinceIsNext DEF Said, SinceInv
<1>3. \A u \in Outstanding' : Asked(u)'
  BY <1>1 DEF Asked
<1> QED BY <1>2, <1>3 DEF SinceInv

LEMMA AskingKeepsSince ==
  ASSUME SinceInv, UNCHANGED << wiped, late >>, host'.drift = host.drift,
         \A p \in Profiles : Told(profile'[p]) = Told(profile[p]),
         \A u \in Outstanding' : (\E t \in Outstanding : u.key = t.key) \/ u.key > wiped
  PROVE  SinceInv'
<1>1. \A u \in Outstanding' : Asked(u)
  BY DEF Asked, Recent, SinceInv
<1>2. \A p \in Profiles :
        /\ profile'[p].update = profile[p].update /\ profile'[p].sizes = profile[p].sizes
        /\ profile'[p].diff = profile[p].diff /\ profile'[p].plan = profile[p].plan
  BY DEF Told
<1> QED BY <1>1, <1>2, TellingKeepsSince

LEMMA ApplyReportKeepsSince ==
  ASSUME Types, SinceInv, ApplyReport
  PROVE  SinceInv'
<1> DEFINE t == Head(reports).task
           result == Head(reports).result
           p == t.profile
<1>1. reports # << >> /\ reports' = Tail(reports) /\ UNCHANGED wiped
  BY DEF ApplyReport
<1>2. IsTask(t) /\ (result # None => Fits(t, result)) /\ t \in Outstanding
  BY <1>1, HeadIsReport
<1>3. Asked(t)
  BY <1>2 DEF SinceInv
<1>4. ASSUME NEW new, tasks' = tasks \cup new, \A u \in new : u.key = t.key
      PROVE  \A u \in Outstanding' : Asked(u)
  <2>1. \A u \in Outstanding' : u \in Outstanding \/ u.key = t.key
    BY <1>1, <1>4, AppliedLeaves
  <2> QED BY <1>3, <2>1 DEF Asked, SinceInv
<1>5. ASSUME UNCHANGED tasks
      PROVE  \A u \in Outstanding' : Asked(u)
  <2> DEFINE new == {}
  <2>1. tasks' = tasks \cup new /\ \A u \in new : u.key = t.key
    BY <1>5
  <2> HIDE DEF new
  <2> QED BY <1>4, <2>1
<1>6. CASE /\ t.kind = "reach" /\ UNCHANGED << tasks, profile, late >>
           /\ host' = [host EXCEPT !.online = result, !.checkingReach = FALSE]
  <2>1. host'.drift = host.drift
    BY <1>6 DEF Types, IsHostStatus
  <2> QED BY <1>1, <1>5, <1>6, <2>1, TellingKeepsSince
<1>7. CASE /\ t.kind = "update"
           /\ profile' = [profile EXCEPT ![p] = Updated(@, t.key, result)]
           /\ late' = late \cup OvertakenBy(p, {"size", "pkg"}, Outstanding)
           /\ UNCHANGED << tasks, host >>
  <2>1. p \in Profiles
    BY <1>2, <1>7 DEF IsTask
  <2> DEFINE ps == Updated(profile[p], t.key, result)
  <2>2. /\ ps.sizes = None /\ ps.diff = None /\ ps.plan = profile[p].plan
        /\ ps.update.key = t.key
    BY <1>2, <1>7, <2>1, UpdatedFields DEF Types
  <2> HIDE DEF ps
  <2>3. \A q \in Profiles : profile'[q] = IF q = p THEN ps ELSE profile[q]
    BY <1>7, <2>1 DEF Types, ps
  <2>4. Said(ps.update, p) /\ Said(ps.sizes, p) /\ Said(ps.diff, p)
    BY <1>3, <2>1, <2>2 DEF Said, Asked
  <2>5. late \subseteq late'
    BY <1>7
  <2> QED BY <1>1, <1>5, <1>7, <2>2, <2>3, <2>4, <2>5, TellingKeepsSince
<1>8. CASE /\ t.kind = "size"
           /\ profile' = [profile EXCEPT ![p] = Sized(@, t.key, result)]
           /\ Spawn(DiffProbes(t, result))
           /\ UNCHANGED << host, late >>
  <2>1. p \in Profiles
    BY <1>2, <1>8 DEF IsTask
  <2> DEFINE ps == Sized(profile[p], t.key, result)
  <2>2. /\ ps.update = profile[p].update /\ ps.diff = profile[p].diff
        /\ ps.plan = profile[p].plan
        /\ ps.sizes # None => ps.sizes.key = t.key
    BY <1>2, <1>8, <2>1, SizedFields DEF Types
  <2> HIDE DEF ps
  <2>3. \A q \in Profiles : profile'[q] = IF q = p THEN ps ELSE profile[q]
    BY <1>8, <2>1 DEF Types, ps
  <2>4. Said(ps.sizes, p)
    BY <1>3, <2>1, <2>2 DEF Said, Asked
  <2>5. \A u \in DiffProbes(t, result) : u.key = t.key
    BY <1>2, <1>8, DiffProbesAreTasks
  <2>6. \A u \in Outstanding' : Asked(u)
    BY <1>4, <1>8, <2>5 DEF Spawn
  <2> QED BY <1>1, <1>8, <2>2, <2>3, <2>4, <2>6, TellingKeepsSince
<1>9. CASE /\ t.kind = "pkg"
           /\ profile' = [profile EXCEPT ![p] = Diffed(@, t.key, result)]
           /\ UNCHANGED << tasks, host, late >>
  <2>1. p \in Profiles
    BY <1>2, <1>9 DEF IsTask
  <2> DEFINE ps == Diffed(profile[p], t.key, result)
  <2>2. /\ ps.update = profile[p].update /\ ps.sizes = profile[p].sizes
        /\ ps.plan = profile[p].plan
        /\ ps.diff # None => ps.diff.key = t.key
    BY <1>2, <1>9, <2>1, DiffedFields DEF Types
  <2> HIDE DEF ps
  <2>3. \A q \in Profiles : profile'[q] = IF q = p THEN ps ELSE profile[q]
    BY <1>9, <2>1 DEF Types, ps
  <2>4. Said(ps.diff, p)
    BY <1>3, <2>1, <2>2 DEF Said, Asked
  <2> QED BY <1>1, <1>5, <1>9, <2>2, <2>3, <2>4, TellingKeepsSince
<1>10. CASE /\ t.kind = "plan"
            /\ profile' = [profile EXCEPT ![p] = Planned(@, t.key, result)]
            /\ host' = [host EXCEPT !.checkingPlan = FALSE]
            /\ UNCHANGED << tasks, late >>
  <2>1. p \in Profiles
    BY <1>2, <1>10 DEF IsTask
  <2> DEFINE ps == Planned(profile[p], t.key, result)
  <2>2. /\ ps.update = profile[p].update /\ ps.sizes = profile[p].sizes
        /\ ps.diff = profile[p].diff
        /\ ps.plan = profile[p].plan \/ ps.plan.key = t.key
    BY <2>1, PlannedFields DEF Types
  <2> HIDE DEF ps
  <2>3. \A q \in Profiles : profile'[q] = IF q = p THEN ps ELSE profile[q]
    BY <1>10, <2>1 DEF Types, ps
  <2>4. ps.plan = profile[p].plan \/ Said(ps.plan, p)
    BY <1>3, <2>1, <2>2 DEF Said, Asked
  <2>5. host'.drift = host.drift
    BY <1>10 DEF Types, IsHostStatus
  <2> QED BY <1>1, <1>5, <1>10, <2>2, <2>3, <2>4, <2>5, TellingKeepsSince
<1>11. CASE /\ t.kind = "drift"
            /\ host' = Drifted(host, t.key, result)
            /\ IF HasDrift(result) THEN Spawn(PlanProbes(t.key)) ELSE UNCHANGED tasks
            /\ UNCHANGED << profile, late >>
  <2>1. Said(host'.drift, None)
    BY <1>3, <1>11, DriftedFields DEF Said, Asked, Types
  <2>2. \A u \in PlanProbes(t.key) : u.key = t.key
    BY <1>2, PlanProbesAreTasks DEF IsTask
  <2>3. CASE HasDrift(result)
    <3> DEFINE new == PlanProbes(t.key)
    <3>1. tasks' = tasks \cup new /\ \A u \in new : u.key = t.key
      BY <1>11, <2>2, <2>3 DEF Spawn
    <3> HIDE DEF new
    <3>2. \A u \in Outstanding' : Asked(u)
      BY <1>4, <3>1
    <3> QED BY <1>1, <1>11, <2>1, <3>2, TellingKeepsSince
  <2>4. CASE ~HasDrift(result)
    BY <1>1, <1>5, <1>11, <2>1, <2>4, TellingKeepsSince
  <2> QED BY <2>3, <2>4
<1> QED
  BY <1>6, <1>7, <1>8, <1>9, <1>10, <1>11 DEF ApplyReport

LEMMA WorldKeepsSince ==
  ASSUME Types, SinceInv, DeployEnds \/ EditFlake \/ \E p \in Profiles : Activate(p)
  PROVE  SinceInv'
<1>1. Outstanding' = Outstanding
  BY WorldLeavesQuestions
<1>2. CASE UNCHANGED << profile, host, wiped, late >>
  <2>1. \A u \in Outstanding' : \E t \in Outstanding : u.key = t.key
    BY <1>1
  <2>2. \A p \in Profiles : Told(profile'[p]) = Told(profile[p])
    BY <1>2
  <2> QED BY <1>2, <2>1, <2>2, AskingKeepsSince
<1>3. CASE /\ profile' = [p \in Profiles |-> WipedProfile(profile[p])]
           /\ host' = WipedHost(host)
           /\ late' = late \cup {t.key : t \in Outstanding} \X (Profiles \cup {None})
  <2>1. \A p \in Profiles :
          /\ profile'[p].update = None /\ profile'[p].sizes = None
          /\ profile'[p].diff = None /\ profile'[p].plan = None
    BY <1>3, WipedFields
  <2>2. host'.drift = None
    BY <1>3 DEF WipedHost, Types, IsHostStatus
  <2>3. SaidSinceDeploy'
    BY <2>1, <2>2, SinceIsNext DEF Said
  <2>4. \A u \in Outstanding' : Asked(u)'
    BY <1>1, <1>3 DEF Asked, Recent
  <2> QED BY <2>3, <2>4 DEF SinceInv
<1> QED
  BY <1>2, <1>3 DEF DeployEnds, EditFlake, Activate, status, history

(* After a deploy that went well nothing older is said of the host, but for*)
(* what was on its way when it ended (handle_deploy_line's wipe).          *)
THEOREM AlwaysSaidSinceDeploy == Spec => []SaidSinceDeploy
<1>1. Init => SinceInv
  <2> SUFFICES ASSUME Init PROVE SinceInv
    OBVIOUS
  <2>1. Outstanding = {}
    BY OutstandingIs, EmptySequence DEF OutstandingOf, Init
  <2>2. \A p \in Profiles :
          /\ profile[p].sizes = None /\ profile[p].diff = None
          /\ profile[p].plan = None /\ profile[p].update = None
    BY UnknownFields DEF Init
  <2>3. host.drift = None
    BY DEF Init, UnknownHost
  <2> QED BY <2>1, <2>2, <2>3, SinceIs DEF Said, SinceInv
<1>2. Types /\ SinceInv /\ [Next]_vars => SinceInv'
  <2> SUFFICES ASSUME Types, SinceInv, [Next]_vars PROVE SinceInv'
    OBVIOUS
  <2>1. CASE Keys
    <3>1. keys + 1 > wiped
      BY DEF Types
    <3>2. \A u \in Outstanding' : u \in Outstanding \/ u.key > wiped
      BY <2>1, <3>1, KeysOnlyAsk
    <3> QED BY <2>1, <3>2, KeysOnlyAsk, AskingKeepsSince
  <2>2. CASE RunProbe
    <3>1. \A u \in Outstanding' : \E t \in Outstanding : u.key = t.key
      BY <2>2, RunProbeKeepsQuestions DEF Alike
    <3>2. \A p \in Profiles : Told(profile'[p]) = Told(profile[p])
      BY <2>2, RunProbeKeepsQuestions
    <3> QED BY <2>2, <3>1, <3>2, RunProbeKeepsQuestions, AskingKeepsSince
  <2>3. CASE ApplyReport
    BY <2>3, ApplyReportKeepsSince
  <2>4. CASE DeployEnds \/ EditFlake \/ \E p \in Profiles : Activate(p)
    BY <2>4, WorldKeepsSince
  <2>5. CASE UNCHANGED vars
    <3>1. UNCHANGED << tasks, reports, profile, host, wiped, late >>
      BY <2>5 DEF vars, probes, status, history
    <3>2. Outstanding' = Outstanding
      BY <3>1, OutstandingIs, OutstandingIsNext
    <3>3. \A p \in Profiles : Told(profile'[p]) = Told(profile[p])
      BY <3>1
    <3> QED BY <3>1, <3>2, <3>3, AskingKeepsSince
  <2> QED BY <2>1, <2>2, <2>3, <2>4, <2>5 DEF Next
<1>3. SinceInv => SaidSinceDeploy
  BY DEF SinceInv
<1> QED BY <1>1, <1>2, <1>3, TypesAlways, PTL DEF Spec

-----------------------------------------------------------------------------
(* Spinners. *)

(* A step that loses no question, and turns on only the spinners of        *)
(* questions it asks.                                                      *)
LEMMA AskingKeepsSpinners ==
  ASSUME SpinnerJustified,
         \A t \in Outstanding : \E u \in Outstanding' : Alike(t, u),
         host'.checkingReach => host.checkingReach \/ UnderWay("reach", None)',
         host'.checkingCache => host.checkingCache \/ UnderWay("drift", None)',
         host'.checkingPlan =>
           host.checkingPlan \/ (\E p \in Profiles : UnderWay("plan", p)'),
         \A p \in Profiles :
           /\ profile'[p].checking => profile[p].checking \/ UnderWay("update", p)'
           /\ profile'[p].checkingSize => profile[p].checkingSize \/ UnderWay("size", p)'
           /\ profile'[p].checkingPkg => profile[p].checkingPkg \/ UnderWay("pkg", p)'
  PROVE  SpinnerJustified'
<1>1. \A kind, p : UnderWay(kind, p) => UnderWay(kind, p)'
  BY DEF UnderWay, Alike
<1>2. /\ host'.checkingReach => UnderWay("reach", None)'
      /\ host'.checkingCache => UnderWay("drift", None)'
      /\ host'.checkingPlan => \E p \in Profiles : UnderWay("plan", p)'
  BY <1>1 DEF SpinnerJustified
<1>3. \A p \in Profiles :
        /\ profile'[p].checking => UnderWay("update", p)'
        /\ profile'[p].checkingSize => UnderWay("size", p)'
        /\ profile'[p].checkingPkg => UnderWay("pkg", p)'
  BY <1>1 DEF SpinnerJustified
<1> QED BY <1>2, <1>3 DEF SpinnerJustified

LEMMA KeysKeepSpinners ==
  ASSUME Types, SpinnerJustified, Keys
  PROVE  SpinnerJustified'
<1>0. Press
  BY DEF Keys, RefreshReachability, RefreshUpdates, RefreshSizes, RefreshBuildPlan,
         RefreshCacheDrift, ToggleRemoteBuild, Cancel, StartDeploy
<1>1. UNCHANGED reports
  BY <1>0, PressLeaves
<1>2. ASSUME NEW new, Spawn(new)
      PROVE  /\ \A t \in Outstanding : \E u \in Outstanding' : Alike(t, u)
             /\ new \subseteq Outstanding'
  BY <1>1, <1>2, SpawnAdds DEF Alike
<1>3. ASSUME NEW t \in Outstanding', NEW kind, NEW p, t.kind = kind, t.profile = p
      PROVE  UnderWay(kind, p)'
  BY <1>3 DEF UnderWay
<1>4. CASE RefreshReachability
  <2> DEFINE t == Probe(keys + 1, "reach", None, None, None)
  <2>1. Spawn({t}) /\ profile' = profile /\ host' = [host EXCEPT !.checkingReach = TRUE]
    BY <1>4 DEF RefreshReachability
  <2>2. t.kind = "reach" /\ t.profile = None
    BY ProbeFields
  <2> HIDE DEF t
  <2>3. UnderWay("reach", None)'
    BY <1>2, <1>3, <2>1, <2>2
  <2>4. host'.checkingCache = host.checkingCache /\ host'.checkingPlan = host.checkingPlan
    BY <2>1 DEF Types, IsHostStatus
  <2> QED BY <1>2, <2>1, <2>3, <2>4, AskingKeepsSpinners
<1>5. CASE RefreshUpdates
  <2> DEFINE new == {Probe(keys + 1, "update", p, None, None) : p \in Profiles}
  <2>1. /\ Spawn(new) /\ host' = host
        /\ profile' = [p \in Profiles |-> [profile[p] EXCEPT !.checking = TRUE]]
    BY <1>5 DEF RefreshUpdates
  <2>2. \A p \in Profiles : \E t \in new : t.kind = "update" /\ t.profile = p
    <3> TAKE p \in Profiles
    <3>1. Probe(keys + 1, "update", p, None, None) \in new
      OBVIOUS
    <3> QED BY <3>1, ProbeFields
  <2> HIDE DEF new
  <2>3. \A p \in Profiles : UnderWay("update", p)'
    BY <1>2, <1>3, <2>1, <2>2
  <2>4. \A p \in Profiles : /\ profile'[p].checkingSize = profile[p].checkingSize
                            /\ profile'[p].checkingPkg = profile[p].checkingPkg
    BY <2>1 DEF Types, IsProfileStatus
  <2> QED BY <1>2, <2>1, <2>3, <2>4, AskingKeepsSpinners
<1>6. CASE RefreshSizes
  <2> DEFINE known == {p \in Profiles : profile[p].paths # None}
             new == {Probe(keys + 1, "size", p, profile[p].paths, None) : p \in known}
  <2>1. /\ Spawn(new) /\ host' = host
        /\ profile' = [p \in Profiles |->
                         IF p \in known THEN [profile[p] EXCEPT !.checkingSize = TRUE]
                                        ELSE profile[p]]
    BY <1>6 DEF RefreshSizes
  <2>2. \A p \in known : \E t \in new : t.kind = "size" /\ t.profile = p
    <3> TAKE p \in known
    <3>1. Probe(keys + 1, "size", p, profile[p].paths, None) \in new
      OBVIOUS
    <3> QED BY <3>1, ProbeFields
  <2> HIDE DEF new
  <2>3. \A p \in known : UnderWay("size", p)'
    BY <1>2, <1>3, <2>1, <2>2
  <2>4. \A p \in Profiles : /\ profile'[p].checking = profile[p].checking
                            /\ profile'[p].checkingPkg = profile[p].checkingPkg
                            /\ p \in known \/ profile'[p].checkingSize = profile[p].checkingSize
    BY <2>1 DEF Types, IsProfileStatus
  <2> QED BY <1>2, <2>1, <2>3, <2>4, AskingKeepsSpinners
<1>7. CASE RefreshBuildPlan
  <2>1. /\ Spawn(PlanProbes(keys + 1)) /\ profile' = profile /\ ~host.checkingPlan
        /\ host' = [host EXCEPT !.checkingPlan = TRUE]
    BY <1>7 DEF RefreshBuildPlan
  <2>2. PICK p \in Profiles : Probe(keys + 1, "plan", p, None, Site) \in PlanProbes(keys + 1)
    BY <2>1, ProfilesAssumption DEF PlanProbes
  <2>3. UnderWay("plan", p)'
    BY <1>2, <1>3, <2>1, <2>2, ProbeFields
  <2>4. host'.checkingReach = host.checkingReach /\ host'.checkingCache = host.checkingCache
    BY <2>1 DEF Types, IsHostStatus
  <2> QED BY <1>2, <2>1, <2>3, <2>4, AskingKeepsSpinners
<1>8. CASE RefreshCacheDrift
  <2> DEFINE t == Probe(keys + 1, "drift", None, None, Site)
  <2>1. Spawn({t}) /\ profile' = profile /\ host' = [host EXCEPT !.checkingCache = TRUE]
    BY <1>8 DEF RefreshCacheDrift
  <2>2. t.kind = "drift" /\ t.profile = None
    BY ProbeFields
  <2> HIDE DEF t
  <2>3. UnderWay("drift", None)'
    BY <1>2, <1>3, <2>1, <2>2
  <2>4. host'.checkingReach = host.checkingReach /\ host'.checkingPlan = host.checkingPlan
    BY <2>1 DEF Types, IsHostStatus
  <2> QED BY <1>2, <2>1, <2>3, <2>4, AskingKeepsSpinners
<1>9. CASE ToggleRemoteBuild \/ StartDeploy
  <2>1. UNCHANGED << tasks, profile, host >>
    BY <1>9 DEF ToggleRemoteBuild, StartDeploy, status
  <2>2. Outstanding' = Outstanding
    BY <1>1, <2>1, OutstandingIs, OutstandingIsNext
  <2>3. \A t \in Outstanding : \E u \in Outstanding' : Alike(t, u)
    BY <2>2 DEF Alike
  <2> QED BY <2>1, <2>3, AskingKeepsSpinners
<1>10. CASE Cancel
  <2>1. host' = QuietHost(host) /\ profile' = [p \in Profiles |-> Quiet(profile[p])]
    BY <1>10 DEF Cancel
  <2>2. ~host'.checkingReach /\ ~host'.checkingCache /\ ~host'.checkingPlan
    BY <2>1 DEF QuietHost, Types, IsHostStatus
  <2>3. \A p \in Profiles : /\ ~profile'[p].checking /\ ~profile'[p].checkingSize
                            /\ ~profile'[p].checkingPkg
    BY <2>1, QuietFields DEF Types
  <2> QED BY <2>2, <2>3 DEF SpinnerJustified
<1> QED
  BY <1>4, <1>5, <1>6, <1>7, <1>8, <1>9, <1>10 DEF Keys

(* A report that is applied turns off the spinner of its question, and no  *)
(* other one's question goes with it.                                      *)
LEMMA ApplyReportKeepsSpinners ==
  ASSUME Types, SpinnerJustified, ApplyReport
  PROVE  SpinnerJustified'
<1> DEFINE t == Head(reports).task
           result == Head(reports).result
           p == t.profile
<1>1. reports # << >> /\ reports' = Tail(reports)
  BY DEF ApplyReport
<1>2. IsTask(t) /\ (result # None => Fits(t, result))
  BY <1>1, HeadIsReport
<1>3. ASSUME NEW new, tasks' = tasks \cup new
      PROVE  /\ \A u \in Outstanding : u = t \/ u \in Outstanding'
             /\ new \subseteq Outstanding'
  BY <1>1, <1>3, AppliedLeaves
<1>4. \A u \in Outstanding : u = t \/ u \in Outstanding'
  <2>1. \E new : tasks' = tasks \cup new
    <3>1. CASE UNCHANGED tasks
      BY <3>1
    <3>2. ASSUME NEW new, Spawn(new)
          PROVE  \E n : tasks' = tasks \cup n
      BY <3>2 DEF Spawn
    <3> QED BY <3>1, <3>2 DEF ApplyReport
  <2> QED BY <1>3, <2>1
<1>5. ASSUME NEW kind, NEW q, UnderWay(kind, q), t.kind # kind \/ p # q
      PROVE  UnderWay(kind, q)'
  BY <1>4, <1>5 DEF UnderWay
<1>6. CASE /\ t.kind = "reach"
           /\ host' = [host EXCEPT !.online = result, !.checkingReach = FALSE]
           /\ UNCHANGED << tasks, profile, late >>
  <2>1. /\ ~host'.checkingReach /\ host'.checkingCache = host.checkingCache
        /\ host'.checkingPlan = host.checkingPlan
    BY <1>6 DEF Types, IsHostStatus
  <2> QED BY <1>5, <1>6, <2>1 DEF SpinnerJustified
<1>7. CASE /\ t.kind = "update"
           /\ profile' = [profile EXCEPT ![p] = Updated(@, t.key, result)]
           /\ UNCHANGED << tasks, host >>
  <2>1. p \in Profiles
    BY <1>2, <1>7 DEF IsTask
  <2> DEFINE ps == Updated(profile[p], t.key, result)
  <2>2. /\ ~ps.checking /\ ps.checkingSize = profile[p].checkingSize
        /\ ps.checkingPkg = profile[p].checkingPkg
    BY <1>2, <1>7, <2>1, UpdatedFields DEF Types
  <2> HIDE DEF ps
  <2>3. \A q \in Profiles : profile'[q] = IF q = p THEN ps ELSE profile[q]
    BY <1>7, <2>1 DEF Types, ps
  <2> QED BY <1>5, <1>7, <2>2, <2>3 DEF SpinnerJustified
<1>8. CASE /\ t.kind = "size"
           /\ profile' = [profile EXCEPT ![p] = Sized(@, t.key, result)]
           /\ Spawn(DiffProbes(t, result))
           /\ UNCHANGED << host, late >>
  <2>1. p \in Profiles
    BY <1>2, <1>8 DEF IsTask
  <2> DEFINE ps == Sized(profile[p], t.key, result)
             new == DiffProbes(t, result)
  <2>2. /\ ~ps.checkingSize /\ ps.checking = profile[p].checking
        /\ ps.checkingPkg =>
             profile[p].checkingPkg \/ (result # None /\ profile[p].paths # None)
    BY <1>2, <1>8, <2>1, SizedFields DEF Types
  <2>3. result # None /\ profile[p].paths # None =>
          \E u \in new : u.kind = "pkg" /\ u.profile = p
    BY ProbeFields DEF DiffProbes
  <2>4. tasks' = tasks \cup new
    BY <1>8 DEF Spawn
  <2> HIDE DEF ps, new
  <2>5. \A q \in Profiles : profile'[q] = IF q = p THEN ps ELSE profile[q]
    BY <1>8, <2>1 DEF Types, ps
  <2>6. PICK r \in Profiles : r = p
    BY <2>1
  <2>7. ps.checkingPkg => UnderWay("pkg", r)'
    <3>1. ASSUME profile[p].checkingPkg PROVE UnderWay("pkg", r)'
      <4>1. UnderWay("pkg", r)
        BY <2>6, <3>1 DEF SpinnerJustified
      <4> QED BY <1>5, <1>8, <4>1
    <3>2. ASSUME NEW u \in new, u.kind = "pkg", u.profile = p PROVE UnderWay("pkg", r)'
      <4>1. u \in Outstanding'
        BY <1>3, <2>4
      <4> QED BY <2>6, <3>2, <4>1 DEF UnderWay
    <3> QED BY <2>2, <2>3, <3>1, <3>2
  <2>8. \A q \in Profiles :
          /\ profile'[q].checking => UnderWay("update", q)'
          /\ profile'[q].checkingSize => UnderWay("size", q)'
          /\ profile'[q].checkingPkg => UnderWay("pkg", q)'
    <3> TAKE q \in Profiles
    <3>1. CASE q = r
      BY <1>5, <1>8, <2>2, <2>5, <2>6, <2>7, <3>1 DEF SpinnerJustified
    <3>2. CASE q # r
      BY <1>5, <2>5, <2>6, <3>2 DEF SpinnerJustified
    <3> QED BY <3>1, <3>2
  <2> QED BY <1>5, <1>8, <2>8 DEF SpinnerJustified
<1>9. CASE /\ t.kind = "pkg"
           /\ profile' = [profile EXCEPT ![p] = Diffed(@, t.key, result)]
           /\ UNCHANGED << tasks, host, late >>
  <2>1. p \in Profiles
    BY <1>2, <1>9 DEF IsTask
  <2> DEFINE ps == Diffed(profile[p], t.key, result)
  <2>2. /\ ~ps.checkingPkg /\ ps.checking = profile[p].checking
        /\ ps.checkingSize = profile[p].checkingSize
    BY <1>2, <1>9, <2>1, DiffedFields DEF Types
  <2> HIDE DEF ps
  <2>3. \A q \in Profiles : profile'[q] = IF q = p THEN ps ELSE profile[q]
    BY <1>9, <2>1 DEF Types, ps
  <2> QED BY <1>5, <1>9, <2>2, <2>3 DEF SpinnerJustified
<1>10. CASE /\ t.kind = "plan"
            /\ profile' = [profile EXCEPT ![p] = Planned(@, t.key, result)]
            /\ host' = [host EXCEPT !.checkingPlan = FALSE]
            /\ UNCHANGED << tasks, late >>
  <2>1. p \in Profiles
    BY <1>2, <1>10 DEF IsTask
  <2> DEFINE ps == Planned(profile[p], t.key, result)
  <2>2. /\ ps.checkingPkg = profile[p].checkingPkg /\ ps.checking = profile[p].checking
        /\ ps.checkingSize = profile[p].checkingSize
    BY <2>1, PlannedFields DEF Types
  <2> HIDE DEF ps
  <2>3. \A q \in Profiles : profile'[q] = IF q = p THEN ps ELSE profile[q]
    BY <1>10, <2>1 DEF Types, ps
  <2>4. /\ ~host'.checkingPlan /\ host'.checkingReach = host.checkingReach
        /\ host'.checkingCache = host.checkingCache
    BY <1>10 DEF Types, IsHostStatus
  <2> QED BY <1>5, <1>10, <2>2, <2>3, <2>4 DEF SpinnerJustified
<1>11. CASE /\ t.kind = "drift"
            /\ host' = Drifted(host, t.key, result)
            /\ IF HasDrift(result) THEN Spawn(PlanProbes(t.key)) ELSE UNCHANGED tasks
            /\ UNCHANGED << profile, late >>
  <2>1. /\ ~host'.checkingCache /\ host'.checkingReach = host.checkingReach
        /\ host'.checkingPlan => host.checkingPlan \/ HasDrift(result)
    BY <1>11, DriftedFields DEF Types
  <2>2. host'.checkingPlan => \E q \in Profiles : UnderWay("plan", q)'
    <3>1. CASE host.checkingPlan
      BY <1>5, <1>11, <3>1 DEF SpinnerJustified
    <3>2. CASE HasDrift(result) /\ ~host.checkingPlan
      <4> DEFINE new == PlanProbes(t.key)
      <4>1. PICK q \in Profiles : Probe(t.key, "plan", q, None, Site) \in new
        BY <3>2, ProfilesAssumption DEF PlanProbes
      <4>2. tasks' = tasks \cup new
        BY <1>11, <3>2 DEF Spawn
      <4> HIDE DEF new
      <4>3. Probe(t.key, "plan", q, None, Site) \in Outstanding'
        BY <1>3, <4>1, <4>2
      <4> QED BY <4>3, ProbeFields DEF UnderWay
    <3> QED BY <2>1, <3>1, <3>2
  <2> QED BY <1>5, <1>11, <2>1, <2>2 DEF SpinnerJustified
<1> QED
  BY <1>6, <1>7, <1>8, <1>9, <1>10, <1>11 DEF ApplyReport

(* A spinner turns only while its probe runs or has reported               *)
(* (cancel_probes, apply_probe and the wipe after a deploy).               *)
THEOREM SpinnerAlwaysJustified == Spec => []SpinnerJustified
<1>1. Init => SpinnerJustified
  BY UnknownFields DEF Init, UnknownHost, SpinnerJustified
<1>2. Types /\ SpinnerJustified /\ [Next]_vars => SpinnerJustified'
  <2> SUFFICES ASSUME Types, SpinnerJustified, [Next]_vars PROVE SpinnerJustified'
    OBVIOUS
  <2>1. CASE Keys
    BY <2>1, KeysKeepSpinners
  <2>2. CASE RunProbe
    BY <2>2, RunProbeKeepsQuestions, AskingKeepsSpinners
  <2>3. CASE ApplyReport
    BY <2>3, ApplyReportKeepsSpinners
  <2>4. CASE DeployEnds \/ EditFlake \/ \E p \in Profiles : Activate(p)
    <3>1. \A t \in Outstanding : \E u \in Outstanding' : Alike(t, u)
      BY <2>4, WorldLeavesQuestions DEF Alike
    <3>2. CASE UNCHANGED << profile, host >>
      BY <3>1, <3>2, AskingKeepsSpinners
    <3>3. CASE /\ profile' = [p \in Profiles |-> WipedProfile(profile[p])]
               /\ host' = WipedHost(host)
      <4>1. \A p \in Profiles : /\ profile'[p].checking = profile[p].checking
                                /\ ~profile'[p].checkingSize /\ ~profile'[p].checkingPkg
        BY <3>3, WipedFields
      <4>2. /\ host'.checkingReach = host.checkingReach
            /\ host'.checkingCache = host.checkingCache
            /\ host'.checkingPlan = host.checkingPlan
        BY <3>3 DEF WipedHost, Types, IsHostStatus
      <4> QED BY <3>1, <4>1, <4>2, AskingKeepsSpinners
    <3> QED BY <2>4, <3>2, <3>3 DEF DeployEnds, EditFlake, Activate, status
  <2>5. CASE UNCHANGED vars
    <3>1. UNCHANGED << tasks, reports, profile, host >>
      BY <2>5 DEF vars, probes, status
    <3>2. Outstanding' = Outstanding
      BY <3>1, OutstandingIs, OutstandingIsNext
    <3>3. \A t \in Outstanding : \E u \in Outstanding' : Alike(t, u)
      BY <3>2 DEF Alike
    <3> QED BY <3>1, <3>3, AskingKeepsSpinners
  <2> QED BY <2>1, <2>2, <2>3, <2>4, <2>5 DEF Next
<1> QED BY <1>1, <1>2, TypesAlways, PTL DEF Spec
-----------------------------------------------------------------------------
(* What the checks say is so, of every answer and so of what is shown. *)

LEMMA ChecksSayIs ==
  ChecksSayTrue <=>
    /\ host.drift # None => DriftIsTrue(host.drift.said)
    /\ \A p \in Profiles :
         /\ profile[p].diff # None => DiffIsTrue(profile[p].diff.said)
         /\ profile[p].plan # None => PlanIsTrue(profile[p].plan.said)
BY DEF ChecksSayTrue, EmptyDiffIsIdentity, PlanAccounts, DriftIsReal,
       DiffIsTrue, PlanIsTrue, DriftIsTrue

LEMMA ChecksSayIsNext ==
  ChecksSayTrue' <=>
    /\ host'.drift # None => DriftIsTrue(host'.drift.said)
    /\ \A p \in Profiles :
         /\ profile'[p].diff # None => DiffIsTrue(profile'[p].diff.said)
         /\ profile'[p].plan # None => PlanIsTrue(profile'[p].plan.said)
BY DEF ChecksSayTrue, EmptyDiffIsIdentity, PlanAccounts, DriftIsReal,
       DiffIsTrue, PlanIsTrue, DriftIsTrue

LEMMA ToldKeepsChecks ==
  ASSUME ChecksSayTrue, host'.drift = host.drift,
         \A p \in Profiles : Told(profile'[p]) = Told(profile[p])
  PROVE  ChecksSayTrue'
<1>1. \A p \in Profiles : profile'[p].diff = profile[p].diff /\ profile'[p].plan = profile[p].plan
  BY DEF Told
<1> QED BY <1>1, ChecksSayIs, ChecksSayIsNext

LEMMA ApplyReportKeepsChecks ==
  ASSUME Types, ChecksSayTrue, ApplyReport
  PROVE  ChecksSayTrue'
<1> DEFINE t == Head(reports).task
           result == Head(reports).result
           p == t.profile
<1>1. reports # << >>
  BY DEF ApplyReport
<1>2. IsTask(t) /\ (result # None => Fits(t, result))
  BY <1>1, HeadIsReport
<1>3. ASSUME NEW ps, p \in Profiles, profile' = [profile EXCEPT ![p] = ps],
             host'.drift = host.drift,
             ps.diff = profile[p].diff \/ (ps.diff # None => DiffIsTrue(ps.diff.said)),
             ps.plan = profile[p].plan \/ (ps.plan # None => PlanIsTrue(ps.plan.said))
      PROVE  ChecksSayTrue'
  <2>1. \A q \in Profiles : profile'[q] = IF q = p THEN ps ELSE profile[q]
    BY <1>3 DEF Types
  <2> QED BY <1>3, <2>1, ChecksSayIs, ChecksSayIsNext
<1>4. CASE /\ t.kind = "reach" /\ UNCHANGED << tasks, profile, late >>
           /\ host' = [host EXCEPT !.online = result, !.checkingReach = FALSE]
  <2>1. host'.drift = host.drift
    BY <1>4 DEF Types, IsHostStatus
  <2> QED BY <1>4, <2>1, ToldKeepsChecks
<1>5. CASE /\ t.kind = "update" /\ UNCHANGED << tasks, host >>
           /\ profile' = [profile EXCEPT ![p] = Updated(@, t.key, result)]
  <2>1. p \in Profiles
    BY <1>2, <1>5 DEF IsTask
  <2> DEFINE ps == Updated(profile[p], t.key, result)
  <2>2. ps.diff = None /\ ps.plan = profile[p].plan
    BY <1>2, <1>5, <2>1, UpdatedFields DEF Types
  <2>3. profile' = [profile EXCEPT ![p] = ps] /\ host'.drift = host.drift
    BY <1>5
  <2> HIDE DEF ps
  <2> QED BY <1>3, <2>1, <2>2, <2>3
<1>6. CASE /\ t.kind = "size" /\ UNCHANGED host
           /\ profile' = [profile EXCEPT ![p] = Sized(@, t.key, result)]
  <2>1. p \in Profiles
    BY <1>2, <1>6 DEF IsTask
  <2> DEFINE ps == Sized(profile[p], t.key, result)
  <2>2. ps.diff = profile[p].diff /\ ps.plan = profile[p].plan
    BY <1>2, <1>6, <2>1, SizedFields DEF Types
  <2>3. profile' = [profile EXCEPT ![p] = ps] /\ host'.drift = host.drift
    BY <1>6
  <2> HIDE DEF ps
  <2> QED BY <1>3, <2>1, <2>2, <2>3
<1>7. CASE /\ t.kind = "pkg" /\ UNCHANGED host
           /\ profile' = [profile EXCEPT ![p] = Diffed(@, t.key, result)]
  <2>1. p \in Profiles
    BY <1>2, <1>7 DEF IsTask
  <2> DEFINE ps == Diffed(profile[p], t.key, result)
  <2>2. ps.plan = profile[p].plan /\ (ps.diff # None => DiffIsTrue(ps.diff.said))
    BY <1>2, <1>7, <2>1, DiffedFields DEF Types
  <2>3. profile' = [profile EXCEPT ![p] = ps] /\ host'.drift = host.drift
    BY <1>7
  <2> HIDE DEF ps
  <2> QED BY <1>3, <2>1, <2>2, <2>3
<1>8. CASE /\ t.kind = "plan"
           /\ profile' = [profile EXCEPT ![p] = Planned(@, t.key, result)]
           /\ host' = [host EXCEPT !.checkingPlan = FALSE]
  <2>1. p \in Profiles
    BY <1>2, <1>8 DEF IsTask
  <2> DEFINE ps == Planned(profile[p], t.key, result)
  <2>2. /\ ps.diff = profile[p].diff
        /\ ps.plan = profile[p].plan \/ (result # None /\ ps.plan.said = result)
    BY <2>1, PlannedFields DEF Types
  <2>3. profile' = [profile EXCEPT ![p] = ps] /\ host'.drift = host.drift
    BY <1>8 DEF Types, IsHostStatus
  <2>4. result # None => PlanIsTrue(result)
    BY <1>2, <1>8 DEF Fits
  <2> HIDE DEF ps
  <2> QED BY <1>3, <2>1, <2>2, <2>3, <2>4
<1>9. CASE /\ t.kind = "drift" /\ UNCHANGED << profile, late >>
           /\ host' = Drifted(host, t.key, result)
  <2>1. host'.drift # None => result # None /\ host'.drift.said = result
    BY <1>9, DriftedFields DEF Types
  <2>2. result # None => DriftIsTrue(result)
    BY <1>2, <1>9 DEF Fits
  <2> QED BY <1>9, <2>1, <2>2, ChecksSayIs, ChecksSayIsNext
<1> QED
  BY <1>4, <1>5, <1>6, <1>7, <1>8, <1>9 DEF ApplyReport

(* An empty diff means the host runs that very closure, a plan accounts for*)
(* every path that is missing and no other, and drift is reported exactly  *)
(* for the caches that are not there (compute_version_diff, parse_dry_run, *)
(* added_entries).                                                         *)
THEOREM ChecksAlwaysSayTrue == Spec => []ChecksSayTrue
<1>1. Init => ChecksSayTrue
  BY UnknownFields, ChecksSayIs DEF Init, UnknownHost
<1>2. Types /\ ChecksSayTrue /\ [Next]_vars => ChecksSayTrue'
  <2> SUFFICES ASSUME Types, ChecksSayTrue, [Next]_vars PROVE ChecksSayTrue'
    OBVIOUS
  <2>1. CASE Keys
    BY <2>1, KeysOnlyAsk, ToldKeepsChecks
  <2>2. CASE RunProbe
    BY <2>2, RunProbeKeepsQuestions, ToldKeepsChecks
  <2>3. CASE ApplyReport
    BY <2>3, ApplyReportKeepsChecks
  <2>4. CASE DeployEnds \/ EditFlake \/ \E p \in Profiles : Activate(p)
    <3>1. CASE UNCHANGED << profile, host >>
      BY <3>1, ToldKeepsChecks
    <3>2. CASE /\ profile' = [p \in Profiles |-> WipedProfile(profile[p])]
               /\ host' = WipedHost(host)
      <4>1. \A p \in Profiles : profile'[p].diff = None /\ profile'[p].plan = None
        BY <3>2, WipedFields
      <4>2. host'.drift = None
        BY <3>2 DEF WipedHost, Types, IsHostStatus
      <4> QED BY <4>1, <4>2, ChecksSayIsNext
    <3> QED BY <2>4, <3>1, <3>2 DEF DeployEnds, EditFlake, Activate, status
  <2>5. CASE UNCHANGED vars
    <3>1. UNCHANGED << profile, host >>
      BY <2>5 DEF vars, status
    <3> QED BY <3>1, ToldKeepsChecks
  <2> QED BY <2>1, <2>2, <2>3, <2>4, <2>5 DEF Next
<1> QED BY <1>1, <1>2, TypesAlways, PTL DEF Spec
=============================================================================
