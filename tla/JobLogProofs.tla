---------------------------- MODULE JobLogProofs ----------------------------
(* What the pane of the job log shows, for any lines, panes, buffers and   *)
(* number of keys.                                                         *)
EXTENDS JobLog, Integers, TLAPS, WellFoundedInduction

(* Lines of deploys and of the application.                                *)
Entry == [host : Hosts \cup {None}, rows : Nat \ {0}, hits : Nat]

-----------------------------------------------------------------------------
(* Induction over the naturals, from sets of them. *)

Smaller == {ss \in Nat \X Nat : ss[1] < ss[2]}

LEMMA LessWF == IsWellFoundedOn(Smaller, Nat)
BY NatLessThanWellFounded DEF OpToRel, Smaller

LEMMA LeastElement ==
  ASSUME NEW S \in SUBSET Nat, S # {}
  PROVE  \E m \in S : \A k \in S : m <= k
<1>1. PICK m \in S : \A k \in S : ~ (<< k, m >> \in Smaller)
  BY LessWF, WFMin
<1>2. \A k \in S : k < m => << k, m >> \in Smaller
  BY DEF Smaller
<1>3. m \in Nat /\ \A k \in S : k \in Nat /\ ~ (k < m)
  BY <1>1, <1>2
<1> QED BY <1>3

LEMMA Induction ==
  ASSUME NEW S \in SUBSET Nat, 0 \in S, \A n \in S : n + 1 \in S
  PROVE  S = Nat
<1> SUFFICES ASSUME Nat \ S # {} PROVE FALSE
  OBVIOUS
<1>1. PICK m \in Nat \ S : \A k \in Nat \ S : m <= k
  BY LeastElement
<1>2. m # 0 /\ m - 1 \in Nat
  OBVIOUS
<1>3. m - 1 \in S
  BY <1>1, <1>2
<1>4. m - 1 + 1 = m
  OBVIOUS
<1> QED BY <1>1, <1>3, <1>4

-----------------------------------------------------------------------------
(* The rows and the matches of the first lines. *)

Counts(f, of, n) == f = [i \in 0..n |-> IF i = 0 THEN 0 ELSE f[i - 1] + of[i]]

LEMMA CountsExist ==
  ASSUME NEW of, NEW n \in Nat
  PROVE  \E f : Counts(f, of, n)
<1> DEFINE S == {k \in Nat : \E f : Counts(f, of, k)}
<1>1. 0 \in S
  <2> DEFINE f == [i \in 0..0 |-> 0]
  <2>1. Counts(f, of, 0)
    BY DEF Counts
  <2> QED BY <2>1
<1>2. ASSUME NEW k \in S PROVE k + 1 \in S
  <2>1. PICK f : Counts(f, of, k)
    OBVIOUS
  <2> DEFINE g == [i \in 0..(k + 1) |-> IF i = k + 1 THEN f[k] + of[k + 1] ELSE f[i]]
  <2>2. \A i \in 0..k : g[i] = f[i]
    OBVIOUS
  <2>3. \A i \in 0..k : f[i] = IF i = 0 THEN 0 ELSE f[i - 1] + of[i]
    BY <2>1 DEF Counts
  <2>4. \A i \in 0..(k + 1) : g[i] = IF i = 0 THEN 0 ELSE g[i - 1] + of[i]
    <3> TAKE i \in 0..(k + 1)
    <3>1. CASE i = k + 1
      BY <3>1, <2>2
    <3>2. CASE i # k + 1
      <4>1. i \in 0..k /\ (i = 0 \/ i - 1 \in 0..k)
        BY <3>2
      <4> QED BY <4>1, <2>2, <2>3
    <3> QED BY <3>1, <3>2
  <2>5. g = [i \in 0..(k + 1) |-> g[i]]
    OBVIOUS
  <2> HIDE DEF g
  <2>6. g = [i \in 0..(k + 1) |-> IF i = 0 THEN 0 ELSE g[i - 1] + of[i]]
    BY <2>4, <2>5
  <2> QED BY <2>6 DEF Counts
<1>3. S \in SUBSET Nat
  OBVIOUS
<1> HIDE DEF S
<1>4. S = Nat
  BY <1>1, <1>2, <1>3, Induction
<1> QED BY <1>4 DEF S

(* What is counted is a number, and grows.                                 *)
LEMMA CountsGrow ==
  ASSUME NEW of, NEW n \in Nat, NEW f, Counts(f, of, n),
         \A i \in 1..n : of[i] \in Nat
  PROVE  /\ f[0] = 0
         /\ \A i \in 1..n : f[i] = f[i - 1] + of[i]
         /\ \A i \in 0..n : f[i] \in Nat
         /\ \A i, j \in 0..n : i <= j => f[i] <= f[j]
<1>1. f[0] = 0 /\ \A i \in 1..n : f[i] = f[i - 1] + of[i]
  <2>1. \A i \in 0..n : f[i] = IF i = 0 THEN 0 ELSE f[i - 1] + of[i]
    BY DEF Counts
  <2> QED BY <2>1
<1>2. \A i \in 0..n : f[i] \in Nat
  <2> DEFINE S == {k \in Nat : k \in 0..n => f[k] \in Nat}
  <2>1. 0 \in S
    BY <1>1
  <2>2. ASSUME NEW k \in S PROVE k + 1 \in S
    <3>1. k + 1 \in 0..n => k \in 0..n /\ k + 1 \in 1..n /\ (k + 1) - 1 = k
      OBVIOUS
    <3> QED BY <1>1, <3>1
  <2>3. S \in SUBSET Nat
    OBVIOUS
  <2> HIDE DEF S
  <2>4. S = Nat
    BY <2>1, <2>2, <2>3, Induction
  <2> QED BY <2>4 DEF S
<1>3. ASSUME NEW i \in 0..n, NEW j \in 0..n, i <= j PROVE f[i] <= f[j]
  <2> DEFINE S == {k \in Nat : i + k \in 0..n => f[i] <= f[i + k]}
  <2>1. 0 \in S
    BY <1>2
  <2>2. ASSUME NEW k \in S PROVE k + 1 \in S
    <3>1. i + (k + 1) \in 0..n =>
            i + k \in 0..n /\ i + (k + 1) \in 1..n /\ (i + (k + 1)) - 1 = i + k
      OBVIOUS
    <3>2. i + (k + 1) \in 0..n => f[i + (k + 1)] = f[i + k] + of[i + (k + 1)]
      BY <1>1, <3>1
    <3> QED BY <1>2, <3>1, <3>2
  <2>3. S \in SUBSET Nat
    OBVIOUS
  <2> HIDE DEF S
  <2>4. S = Nat
    BY <2>1, <2>2, <2>3, Induction
  <2>5. j - i \in S /\ i + (j - i) = j
    BY <1>3, <2>4
  <2> QED BY <2>5 DEF S
<1> QED BY <1>1, <1>2, <1>3

LEMMA CountsRise ==
  ASSUME NEW of, NEW n \in Nat, NEW f, Counts(f, of, n),
         \A i \in 1..n : of[i] \in Nat /\ of[i] # 0
  PROVE  \A i, j \in 0..n : i <= j => f[i] + (j - i) <= f[j]
<1>1. \A i \in 1..n : f[i] = f[i - 1] + of[i] /\ of[i] \in Nat /\ of[i] # 0
  BY CountsGrow
<1>2. \A i \in 0..n : f[i] \in Nat
  BY CountsGrow
<1>4. ASSUME NEW i \in 0..n, NEW j \in 0..n, i <= j
      PROVE  f[i] + (j - i) <= f[j]
  <2> DEFINE S == {k \in Nat : i + k \in 0..n => f[i] + k <= f[i + k]}
  <2>1. 0 \in S
    BY <1>2
  <2>2. ASSUME NEW k \in S PROVE k + 1 \in S
    <3>1. i + (k + 1) \in 0..n =>
            i + k \in 0..n /\ i + (k + 1) \in 1..n /\ (i + (k + 1)) - 1 = i + k
      OBVIOUS
    <3>2. i + (k + 1) \in 0..n => f[i + (k + 1)] = f[i + k] + of[i + (k + 1)]
      BY <1>1, <3>1
    <3> QED BY <1>2, <1>4, <3>1, <3>2
  <2>3. S \in SUBSET Nat
    OBVIOUS
  <2> HIDE DEF S
  <2>4. S = Nat
    BY <2>1, <2>2, <2>3, Induction
  <2>5. j - i \in S /\ i + (j - i) = j
    BY <1>4, <2>4
  <2> QED BY <2>5 DEF S
<1> QED BY <1>4

(* Every line has a row.                                                   *)
Rises(to, n) == \A i, j \in 0..n : i <= j => to[i] + (j - i) <= to[j]

LEMMA RowsAre ==
  ASSUME NEW lines \in Seq(Entry)
  PROVE  LET n == Len(lines)
             to == RowsTo(lines)
         IN  /\ n \in Nat /\ to[0] = 0
             /\ \A i \in 1..n : to[i] = to[i - 1] + lines[i].rows
             /\ to \in [0..n -> Nat]
             /\ Rises(to, n)
<1> DEFINE n == Len(lines)
           to == RowsTo(lines)
           of == [i \in 1..n |-> lines[i].rows]
<1>1. n \in Nat /\ \A i \in 1..n : lines[i] \in Entry
  OBVIOUS
<1>2. \A i \in 1..n : of[i] = lines[i].rows /\ of[i] \in Nat /\ of[i] # 0
  BY <1>1 DEF Entry
<1>3. \E f : Counts(f, of, n)
  BY <1>1, CountsExist
<1> HIDE DEF n, of
<1>4. ASSUME NEW f
      PROVE  Counts(f, of, n) <=>
               f = [i \in 0..n |-> IF i = 0 THEN 0 ELSE f[i - 1] + lines[i].rows]
  <2>1. \A i \in 0..n : (IF i = 0 THEN 0 ELSE f[i - 1] + of[i]) =
                         (IF i = 0 THEN 0 ELSE f[i - 1] + lines[i].rows)
    BY <1>1, <1>2
  <2> QED BY <2>1 DEF Counts
<1>5. \E f : f = [i \in 0..n |-> IF i = 0 THEN 0 ELSE f[i - 1] + lines[i].rows]
  BY <1>3, <1>4
<1>6. to = [i \in 0..n |-> IF i = 0 THEN 0 ELSE to[i - 1] + lines[i].rows]
  BY <1>5 DEF RowsTo, n
<1>7. Counts(to, of, n)
  BY <1>4, <1>6
<1> HIDE DEF to
<1>8. /\ to[0] = 0 /\ \A i \in 1..n : to[i] = to[i - 1] + of[i]
      /\ \A i \in 0..n : to[i] \in Nat
  BY <1>1, <1>2, <1>7, CountsGrow
<1>9. \A i, j \in 0..n : i <= j => to[i] + (j - i) <= to[j]
  BY <1>1, <1>2, <1>7, CountsRise
<1>10. to \in [0..n -> Nat]
  <2>1. DOMAIN to = 0..n /\ to = [k \in DOMAIN to |-> to[k]]
    BY <1>7 DEF Counts
  <2> QED BY <1>8, <2>1
<1> QED BY <1>1, <1>2, <1>8, <1>9, <1>10 DEF to, n, Rises

LEMMA HitsAre ==
  ASSUME NEW lines \in Seq(Entry)
  PROVE  LET n == Len(lines)
             to == HitsTo(lines)
         IN  /\ n \in Nat /\ to[0] = 0
             /\ \A i \in 1..n : to[i] = to[i - 1] + lines[i].hits
             /\ \A i \in 0..n : to[i] \in Nat
             /\ \A i, j \in 0..n : i <= j => to[i] <= to[j]
<1> DEFINE n == Len(lines)
           to == HitsTo(lines)
           of == [i \in 1..n |-> lines[i].hits]
<1>1. n \in Nat /\ \A i \in 1..n : lines[i] \in Entry
  OBVIOUS
<1>2. \A i \in 1..n : of[i] = lines[i].hits /\ of[i] \in Nat
  BY <1>1 DEF Entry
<1>3. \E f : Counts(f, of, n)
  BY <1>1, CountsExist
<1> HIDE DEF n, of
<1>4. ASSUME NEW f
      PROVE  Counts(f, of, n) <=>
               f = [i \in 0..n |-> IF i = 0 THEN 0 ELSE f[i - 1] + lines[i].hits]
  <2>1. \A i \in 0..n : (IF i = 0 THEN 0 ELSE f[i - 1] + of[i]) =
                         (IF i = 0 THEN 0 ELSE f[i - 1] + lines[i].hits)
    BY <1>1, <1>2
  <2> QED BY <2>1 DEF Counts
<1>5. \E f : f = [i \in 0..n |-> IF i = 0 THEN 0 ELSE f[i - 1] + lines[i].hits]
  BY <1>3, <1>4
<1>6. to = [i \in 0..n |-> IF i = 0 THEN 0 ELSE to[i - 1] + lines[i].hits]
  BY <1>5 DEF HitsTo, n
<1>7. Counts(to, of, n)
  BY <1>4, <1>6
<1> HIDE DEF to
<1>8. /\ to[0] = 0 /\ \A i \in 1..n : to[i] = to[i - 1] + of[i]
      /\ \A i \in 0..n : to[i] \in Nat
      /\ \A i, j \in 0..n : i <= j => to[i] <= to[j]
  BY <1>1, <1>2, <1>7, CountsGrow
<1> QED BY <1>1, <1>2, <1>8 DEF to, n

-----------------------------------------------------------------------------
(* The layout of the tail: `to` are the rows of the first lines. *)

LEMMA RisesAt ==
  ASSUME NEW n \in Nat, NEW to \in [0..n -> Nat], Rises(to, n),
         NEW i \in 0..n, NEW j \in 0..n, i <= j
  PROVE  to[i] \in Nat /\ to[j] \in Nat /\ to[i] + (j - i) <= to[j] /\ to[i] <= to[j]
<1>1. PICK a \in Nat, b \in Nat : a = to[i] /\ b = to[j]
  OBVIOUS
<1>2. PICK d \in Nat : d = j - i
  OBVIOUS
<1>3. a + d <= b
  BY <1>1, <1>2 DEF Rises
<1> QED BY <1>1, <1>2, <1>3

IsFirst(to, n, y, i) == i \in 1..n /\ to[i] > y /\ to[i - 1] <= y

LEMMA FirstExists ==
  ASSUME NEW n \in Nat, NEW to \in [0..n -> Nat], to[0] = 0, NEW y \in Nat, y < to[n]
  PROVE  \E i : IsFirst(to, n, y, i)
<1> DEFINE S == {i \in 0..n : to[i] > y}
<1>1. S \in SUBSET Nat /\ n \in S
  OBVIOUS
<1>2. PICK i \in S : \A k \in S : i <= k
  BY <1>1, LeastElement
<1>3. i \in 1..n /\ to[i] > y
  BY <1>2
<1>4. i - 1 \in 0..n /\ ~ (to[i - 1] > y)
  BY <1>2, <1>3
<1>5. PICK b \in Nat : b = to[i - 1]
  BY <1>4
<1>6. to[i - 1] <= y
  BY <1>4, <1>5
<1>7. IsFirst(to, n, y, i)
  BY <1>3, <1>6 DEF IsFirst
<1> QED BY <1>7

LEMMA FirstIsOne ==
  ASSUME NEW n \in Nat, NEW to \in [0..n -> Nat], Rises(to, n), NEW y \in Nat, NEW i, NEW j,
         IsFirst(to, n, y, i), IsFirst(to, n, y, j)
  PROVE  i = j
<1>1. ASSUME NEW k \in 1..n, NEW l \in 1..n, to[k] > y, to[l - 1] <= y
      PROVE  ~ (k < l)
  <2> SUFFICES ASSUME k < l PROVE FALSE
    OBVIOUS
  <2>1. k \in 0..n /\ l - 1 \in 0..n /\ k <= l - 1
    OBVIOUS
  <2>2. to[k] \in Nat /\ to[l - 1] \in Nat /\ to[k] <= to[l - 1]
    BY <2>1, RisesAt
  <2> QED BY <1>1, <2>2
<1>2. i \in 1..n /\ j \in 1..n /\ ~ (i < j) /\ ~ (j < i)
  BY <1>1 DEF IsFirst
<1> QED BY <1>2

LEMMA CapExists ==
  ASSUME NEW n \in Nat, NEW to \in [0..n -> Nat], to[0] = 0, Rises(to, n), NEW height \in Nat,
         NEW rest, rest = Minus(to[n], height)
  PROVE  /\ rest # 0 => \E k \in 1..n : /\ to[n] - to[n - k] >= rest
                                       /\ to[n] - to[n - k + 1] < rest
         /\ rest = 0 => to[n] <= height
         /\ \A k \in 0..n : rest # 0 /\ to[n] - to[n - k] >= rest => to[n - k] <= height
<1>1. PICK all \in Nat : all = to[n]
  OBVIOUS
<1>2. rest \in Nat /\ (rest # 0 => rest = all - height) /\ (rest = 0 => all <= height)
  BY <1>1 DEF Minus
<1>3. ASSUME rest # 0, NEW k \in 0..n, to[n] - to[n - k] >= rest
      PROVE  to[n - k] <= height
  <2>1. n - k \in 0..n
    OBVIOUS
  <2>2. PICK c \in Nat : c = to[n - k]
    BY <2>1
  <2> QED BY <1>1, <1>2, <1>3, <2>2
<1>4. ASSUME rest # 0
      PROVE  \E k \in 1..n : to[n] - to[n - k] >= rest /\ to[n] - to[n - k + 1] < rest
  <2> DEFINE S == {k \in 0..n : all - to[n - k] >= rest}
  <2>1. S \in SUBSET Nat /\ n \in S
    <3>1. n \in 0..n /\ n - n = 0 /\ all - 0 >= rest
      BY <1>1, <1>2, <1>4
    <3> QED BY <3>1
  <2>2. PICK k \in S : \A l \in S : k <= l
    BY <2>1, LeastElement
  <2>3. k \in 0..n /\ all - to[n - k] >= rest
    BY <2>2
  <2>4. k # 0
    <3>1. k = 0 => n - k = n
      OBVIOUS
    <3> QED BY <1>1, <1>2, <1>4, <2>3, <3>1
  <2>5. k - 1 \in 0..n /\ n - (k - 1) = n - k + 1 /\ n - k + 1 \in 0..n /\ k \in 1..n
    BY <2>3, <2>4
  <2>6. ~ (all - to[n - k + 1] >= rest)
    <3>1. k \in Nat /\ ~ (k <= k - 1)
      BY <2>5
    <3>2. k - 1 \notin S
      <4> HIDE DEF S
      <4> QED BY <2>2, <3>1
    <3> QED BY <2>5, <3>2
  <2>7. PICK b \in Nat : b = to[n - k + 1]
    BY <2>5
  <2>8. all - to[n - k + 1] < rest
    BY <1>1, <1>2, <2>6, <2>7
  <2> QED BY <1>1, <2>3, <2>5, <2>8
<1> QED BY <1>1, <1>2, <1>3, <1>4

(* The first row of the pane when its bottom is `at` entries from the tail. *)
RowAt(to, n, at) == Minus(to[n - at], Height)

LEMMA RowAtIs ==
  ASSUME NEW n \in Nat, n # 0, NEW to \in [0..n -> Nat], to[0] = 0, Rises(to, n), NEW at \in 0..n,
         NEW rest, rest = Minus(to[n], Height), rest = 0 => at = 0
  PROVE  /\ Minus(rest, to[n] - to[n - at]) = RowAt(to, n, at)
         /\ RowAt(to, n, at) \in Nat /\ RowAt(to, n, at) < to[n]
         /\ to[n - at] \in Nat /\ to[n] \in Nat
<1>1. n - at \in 0..n /\ n - at <= n /\ 0 \in 0..n /\ n \in 0..n /\ Height \in Nat \ {0}
  BY JobLogAssumption
<1>2. PICK all \in Nat : all = to[n]
  OBVIOUS
<1>3. PICK b \in Nat : b = to[n - at]
  BY <1>1
<1>4. b <= all /\ all # 0
  <2>1. b <= all
    BY <1>1, <1>2, <1>3, RisesAt
  <2>2. 0 + (n - 0) <= to[n]
    BY <1>1 DEF Rises
  <2> QED BY <1>2, <2>1, <2>2
<1>5. at = 0 => b = all
  BY <1>2, <1>3
<1>6. /\ Minus(Minus(all, Height), all - b) = Minus(b, Height)
      /\ Minus(b, Height) \in Nat /\ Minus(b, Height) < all
  BY <1>1, <1>4, <1>5 DEF Minus
<1> QED BY <1>2, <1>3, <1>6 DEF RowAt

(* What an offset clamps to: never beyond the offset, and short of it only *)
(* where the pane is at the oldest line.                                   *)
Capped(to, n, offset, at) ==
  /\ at \in 0..n /\ at <= offset
  /\ at = offset \/ to[n - at] <= Height

LEMMA OffsetsAre ==
  ASSUME NEW lines \in Seq(Entry), Len(lines) # 0, NEW offset \in Nat
  PROVE  LET n == Len(lines)
             to == RowsTo(lines)
             o == Offsets(lines, offset)
             y == RowAt(to, n, o.scroll)
         IN  /\ Capped(to, n, offset, o.scroll)
             /\ o.first \in Nat /\ IsFirst(to, n, y, o.first + 1)
             /\ o = [scroll |-> o.scroll, first |-> o.first, below |-> to[n] - y]
             /\ Offsets(lines, o.scroll) = o
<1> DEFINE n == Len(lines)
           to == RowsTo(lines)
           rest == Minus(to[n], Height)
           cap == IF rest = 0 THEN 0
                  ELSE CHOOSE k \in 1..n : /\ to[n] - to[n - k] >= rest
                                           /\ to[n] - to[n - k + 1] < rest
           at(off) == Least(off, cap)
           y(off) == Minus(rest, to[n] - to[n - at(off)])
           first(off) == CHOOSE i \in 1..n : to[i] > y(off) /\ to[i - 1] <= y(off)
<1>1. n \in Nat /\ n # 0 /\ to \in [0..n -> Nat] /\ to[0] = 0 /\ Rises(to, n) /\ Height \in Nat
  BY RowsAre, JobLogAssumption
<1>2. \A off : Offsets(lines, off) =
         [scroll |-> at(off), first |-> first(off) - 1, below |-> to[n] - y(off)]
  BY DEF Offsets
<1> HIDE DEF n, to
<1>3. rest = 0 => cap = 0
  OBVIOUS
<1> DEFINE isRest == rest = Minus(to[n], Height)
<1>4. isRest
  OBVIOUS
<1> HIDE DEF rest
<1>5. cap \in 0..n /\ to[n - cap] <= Height
  <2>1. /\ rest # 0 => \E k \in 1..n : /\ to[n] - to[n - k] >= rest
                                      /\ to[n] - to[n - k + 1] < rest
        /\ rest = 0 => to[n] <= Height
        /\ \A k \in 0..n : rest # 0 /\ to[n] - to[n - k] >= rest => to[n - k] <= Height
    BY <1>1, <1>4, CapExists DEF isRest
  <2>2. rest # 0 => cap \in 1..n /\ to[n] - to[n - cap] >= rest
    BY <2>1
  <2> HIDE DEF cap
  <2>3. CASE rest = 0
    <3>1. cap = 0 /\ n - 0 = n
      BY <1>1, <1>3, <2>3
    <3> QED BY <1>1, <2>1, <2>3, <3>1
  <2>4. CASE rest # 0
    <3>1. cap \in 0..n /\ to[n] - to[n - cap] >= rest
      BY <1>1, <2>2, <2>4
    <3> QED BY <2>1, <2>4, <3>1
  <2> QED BY <2>3, <2>4
<1> HIDE DEF cap
<1>6. ASSUME NEW off \in Nat
      PROVE  Capped(to, n, off, at(off)) /\ at(at(off)) = at(off) /\ (rest = 0 => at(off) = 0)
  <2>1. CASE off > cap
    <3>1. at(off) = cap
      BY <1>5, <2>1 DEF Least
    <3>2. at(cap) = cap
      BY DEF Least
    <3> QED BY <1>1, <1>3, <1>5, <2>1, <3>1, <3>2 DEF Capped
  <2>2. CASE ~ (off > cap)
    <3>1. at(off) = off /\ off <= cap
      BY <1>5, <2>2 DEF Least
    <3>2. off \in 0..n /\ (rest = 0 => off = 0)
      BY <1>1, <1>3, <1>5, <3>1
    <3> QED BY <3>1, <3>2 DEF Capped
  <2> QED BY <2>1, <2>2
<1>7. ASSUME NEW off \in Nat
      PROVE  y(off) = RowAt(to, n, at(off)) /\ y(off) \in Nat /\ y(off) < to[n]
  <2> DEFINE a == at(off)
  <2>1. a \in 0..n /\ (rest = 0 => a = 0)
    BY <1>6 DEF Capped
  <2> HIDE DEF a
  <2>2. /\ Minus(rest, to[n] - to[n - a]) = RowAt(to, n, a)
        /\ RowAt(to, n, a) \in Nat /\ RowAt(to, n, a) < to[n]
    BY <1>1, <1>4, <2>1, RowAtIs DEF isRest
  <2> QED BY <2>2 DEF a
<1>8. at(offset) \in Nat /\ at(at(offset)) = at(offset) /\ Capped(to, n, offset, at(offset))
  <2>1. Capped(to, n, offset, at(offset)) /\ at(at(offset)) = at(offset)
    BY <1>6
  <2> QED BY <1>1, <2>1 DEF Capped
<1>9. y(at(offset)) = y(offset) /\ first(at(offset)) = first(offset)
  BY <1>8
<1>10. Offsets(lines, at(offset)) = Offsets(lines, offset)
  BY <1>2, <1>8, <1>9
<1> HIDE DEF at
<1>11. y(offset) = RowAt(to, n, at(offset)) /\ y(offset) \in Nat /\ y(offset) < to[n]
  BY <1>7 DEF at
<1> HIDE DEF y
<1>12. IsFirst(to, n, y(offset), first(offset))
  <2>1. PICK i : IsFirst(to, n, y(offset), i)
    BY <1>1, <1>11, FirstExists
  <2>2. i \in 1..n /\ to[i] > y(offset) /\ to[i - 1] <= y(offset)
    BY <2>1 DEF IsFirst
  <2>3. first(offset) \in 1..n /\ to[first(offset)] > y(offset) /\ to[first(offset) - 1] <= y(offset)
    BY <2>2
  <2> HIDE DEF first
  <2> QED BY <2>3 DEF IsFirst
<1> HIDE DEF first
<1>13. first(offset) - 1 \in Nat /\ (first(offset) - 1) + 1 = first(offset)
  BY <1>1, <1>12 DEF IsFirst
<1> DEFINE o == Offsets(lines, offset)
<1>14. /\ o.scroll = at(offset) /\ o.first = first(offset) - 1
       /\ o = [scroll |-> at(offset), first |-> first(offset) - 1, below |-> to[n] - y(offset)]
  BY <1>2
<1> HIDE DEF o
<1>15. /\ Capped(to, n, offset, o.scroll)
       /\ o.first \in Nat /\ IsFirst(to, n, RowAt(to, n, o.scroll), o.first + 1)
       /\ o = [scroll |-> o.scroll, first |-> o.first, below |-> to[n] - RowAt(to, n, o.scroll)]
       /\ Offsets(lines, o.scroll) = o
  BY <1>8, <1>10, <1>11, <1>12, <1>13, <1>14 DEF o
<1> QED BY <1>15 DEF o, n, to

-----------------------------------------------------------------------------
(* The window the pane is built from. *)

LEMMA WindowRows ==
  ASSUME NEW lines \in Seq(Entry), NEW start \in Nat, start < Len(lines)
  PROVE  LET n == Len(lines)
             shown == SubSeq(lines, start + 1, n)
         IN  /\ shown \in Seq(Entry) /\ Len(shown) = n - start
             /\ \A i \in 0..(n - start) :
                  RowsTo(shown)[i] = RowsTo(lines)[start + i] - RowsTo(lines)[start]
<1> DEFINE n == Len(lines)
           shown == SubSeq(lines, start + 1, n)
           to == RowsTo(lines)
           part == RowsTo(shown)
<1>1. n \in Nat /\ start < n /\ \A i \in 1..n : lines[i].rows \in Nat
  <2>1. \A i \in 1..n : lines[i] \in Entry
    OBVIOUS
  <2> QED BY <2>1 DEF Entry
<1>2. /\ shown \in Seq(Entry) /\ Len(shown) = n - start
      /\ \A i \in 1..(n - start) : shown[i] = lines[start + i]
  BY <1>1
<1>3. to \in [0..n -> Nat] /\ \A i \in 1..n : to[i] = to[i - 1] + lines[i].rows
  BY RowsAre
<1> HIDE DEF shown
<1>4. /\ part[0] = 0 /\ \A i \in 1..(n - start) : part[i] = part[i - 1] + shown[i].rows
      /\ part \in [0..(n - start) -> Nat]
  BY <1>2, RowsAre
<1> HIDE DEF to, part, n
<1> DEFINE S == {k \in Nat : k \in 0..(n - start) => part[k] + to[start] = to[start + k]}
<1>5. 0 \in S
  <2>1. start \in 0..n /\ start + 0 = start
    BY <1>1
  <2>2. PICK a \in Nat : a = to[start]
    BY <1>3, <2>1
  <2>3. part[0] + to[start] = to[start + 0]
    BY <1>4, <2>1, <2>2
  <2> QED BY <2>3
<1>6. ASSUME NEW k \in S PROVE k + 1 \in S
  <2> SUFFICES ASSUME k + 1 \in 0..(n - start) PROVE part[k + 1] + to[start] = to[start + (k + 1)]
    OBVIOUS
  <2>1. /\ k \in 0..(n - start) /\ k + 1 \in 1..(n - start) /\ (k + 1) - 1 = k
        /\ start + (k + 1) \in 1..n /\ (start + (k + 1)) - 1 = start + k
        /\ start + k \in 0..n /\ start \in 0..n
    BY <1>1
  <2>2. PICK r \in Nat : r = lines[start + (k + 1)].rows
    BY <1>1, <2>1
  <2>3. PICK a \in Nat, b \in Nat, c \in Nat : a = to[start] /\ b = to[start + k] /\ c = part[k]
    BY <1>3, <1>4, <2>1
  <2>4. part[k + 1] = c + r
    BY <1>2, <1>4, <2>1, <2>2, <2>3
  <2>5. to[start + (k + 1)] = b + r
    BY <1>3, <2>1, <2>2, <2>3
  <2>6. c + a = b
    BY <2>1, <2>3
  <2>7. part[k + 1] + to[start] = (c + r) + a
    BY <2>3, <2>4
  <2>8. (c + r) + a = b + r
    BY <2>6
  <2> QED BY <2>5, <2>7, <2>8
<1>7. S \in SUBSET Nat
  OBVIOUS
<1> HIDE DEF S
<1>8. S = Nat
  BY <1>5, <1>6, <1>7, Induction
<1>9. ASSUME NEW i \in 0..(n - start) PROVE part[i] = to[start + i] - to[start]
  <2>1. part[i] + to[start] = to[start + i]
    BY <1>1, <1>8 DEF S
  <2>2. start \in 0..n
    BY <1>1
  <2>3. PICK a \in Nat, c \in Nat : a = to[start] /\ c = part[i]
    BY <1>3, <1>4, <2>2
  <2>4. (c + a) - a = c
    OBVIOUS
  <2> QED BY <2>1, <2>3, <2>4
<1> QED BY <1>2, <1>9 DEF n, to, part, shown

(* As far as the offset reaches no line before the window matters.         *)
LEMMA WindowOffsets ==
  ASSUME NEW lines \in Seq(Entry), NEW offset \in Nat, NEW start \in Nat,
         Len(lines) = start + (offset + Height + 2)
  PROVE  LET n == Len(lines)
             o == Offsets(lines, offset)
             shown == Offsets(SubSeq(lines, start + 1, n), offset)
         IN  shown.scroll = o.scroll /\ shown.below = o.below /\ start + shown.first = o.first
<1> DEFINE n == Len(lines)
           w == SubSeq(lines, start + 1, n)
           to == RowsTo(lines)
           part == RowsTo(w)
           m == offset + Height + 2
           o == Offsets(lines, offset)
           shown == Offsets(w, offset)
<1>1. Height \in Nat /\ n \in Nat /\ start < n /\ n - start = m /\ m \in Nat /\ m # 0 /\ n # 0
  BY JobLogAssumption
<1>2. /\ w \in Seq(Entry) /\ Len(w) = m
      /\ \A i \in 0..m : part[i] = to[start + i] - to[start]
  BY <1>1, WindowRows
<1>3. to \in [0..n -> Nat] /\ Rises(to, n)
  BY RowsAre
<1>4. /\ Capped(to, n, offset, o.scroll)
      /\ o.first \in Nat /\ IsFirst(to, n, RowAt(to, n, o.scroll), o.first + 1)
      /\ o = [scroll |-> o.scroll, first |-> o.first, below |-> to[n] - RowAt(to, n, o.scroll)]
  BY <1>1, OffsetsAre
<1> HIDE DEF w, n
<1>5. part \in [0..m -> Nat] /\ part[0] = 0 /\ Rises(part, m)
  BY <1>2, RowsAre
<1>6. /\ Capped(part, m, offset, shown.scroll)
      /\ shown.first \in Nat
      /\ IsFirst(part, m, RowAt(part, m, shown.scroll), shown.first + 1)
      /\ shown = [scroll |-> shown.scroll, first |-> shown.first,
                  below |-> part[m] - RowAt(part, m, shown.scroll)]
  BY <1>1, <1>2, OffsetsAre
<1> HIDE DEF to, part, o, shown, m
<1>7. shown.scroll = offset /\ m - offset = Height + 2 /\ part[m - offset] > Height
  <2>1. shown.scroll \in 0..m /\ m - shown.scroll \in 0..m /\ m - shown.scroll >= Height + 2 /\ m - offset = Height + 2
    BY <1>1, <1>6 DEF Capped, m
  <2>2. part[m - shown.scroll] >= 0 + (m - shown.scroll)
    <3>1. 0 \in 0..m /\ 0 <= m - shown.scroll
      BY <1>1, <2>1
    <3>2. part[0] + ((m - shown.scroll) - 0) <= part[m - shown.scroll]
      BY <1>1, <1>5, <2>1, <3>1, RisesAt
    <3>3. PICK b \in Nat : b = part[m - shown.scroll]
      BY <1>5, <2>1
    <3> QED BY <1>5, <2>1, <3>2, <3>3
  <2>3. part[m - shown.scroll] > Height
    <3>1. PICK b \in Nat : b = part[m - shown.scroll]
      BY <1>5, <2>1
    <3> QED BY <1>1, <2>1, <2>2, <3>1
  <2>4. shown.scroll = offset
    <3>1. PICK b \in Nat : b = part[m - shown.scroll]
      BY <1>5, <2>1
    <3> QED BY <1>1, <1>6, <2>3, <3>1 DEF Capped
  <2> QED BY <2>1, <2>3, <2>4
<1>8. PICK base \in Nat : base = to[start]
  BY <1>1, <1>3
<1>9. PICK b \in Nat : b = part[m - offset] /\ b > Height
  BY <1>1, <1>5, <1>7
<1>10. n - offset \in 0..n /\ start + (m - offset) = n - offset /\ m - offset \in 0..m
  BY <1>1, <1>7 DEF m
<1>11. to[n - offset] = b + base
  <2>1. PICK c \in Nat : c = to[n - offset]
    BY <1>3, <1>10
  <2>2. b = c - base
    BY <1>2, <1>8, <1>9, <1>10, <2>1
  <2> QED BY <2>1, <2>2
<1>12. o.scroll = offset
  <2>1. o.scroll \in 0..n /\ n - o.scroll \in 0..n /\ n - offset <= n - o.scroll
    <3>1. o.scroll \in 0..n /\ o.scroll <= offset
      BY <1>4 DEF Capped
    <3> QED BY <1>1, <3>1
  <2>2. PICK c \in Nat : c = to[n - o.scroll]
    BY <1>3, <2>1
  <2>3. to[n - offset] <= to[n - o.scroll]
    BY <1>1, <1>3, <1>10, <2>1, RisesAt
  <2>4. ~ (to[n - o.scroll] <= Height)
    BY <1>1, <1>9, <1>11, <2>2, <2>3
  <2> QED BY <1>4, <2>4 DEF Capped
<1>13. RowAt(part, m, offset) = b - Height /\ RowAt(to, n, offset) = (b - Height) + base
  BY <1>1, <1>9, <1>11 DEF RowAt, Minus
<1>14. PICK y \in Nat : y = b - Height
  BY <1>1, <1>9
<1>15. start + shown.first = o.first
  <2> DEFINE i == shown.first + 1
  <2>1. i \in 1..m /\ part[i] > y /\ part[i - 1] <= y
    BY <1>6, <1>7, <1>13, <1>14 DEF IsFirst
  <2>2. /\ i \in 0..m /\ i - 1 \in 0..m /\ start + i \in 1..n
        /\ start + (i - 1) = (start + i) - 1
        /\ start + i \in 0..n /\ start + (i - 1) \in 0..n
    BY <1>1, <2>1 DEF m
  <2> HIDE DEF i
  <2>3. PICK p \in Nat, q \in Nat, c \in Nat, d \in Nat :
          p = part[i] /\ q = part[i - 1] /\ c = to[start + i] /\ d = to[start + (i - 1)]
    BY <1>3, <1>5, <2>2
  <2>4. p = c - base /\ q = d - base
    BY <1>2, <1>8, <2>2, <2>3
  <2>5. c > y + base /\ d <= y + base
    <3>1. p > y /\ q <= y
      BY <2>1, <2>3
    <3> QED BY <2>4, <3>1
  <2>6. IsFirst(to, n, y + base, start + i)
    BY <2>2, <2>3, <2>5 DEF IsFirst
  <2>7. IsFirst(to, n, y + base, o.first + 1)
    BY <1>4, <1>12, <1>13, <1>14
  <2>8. start + i = o.first + 1
    BY <1>1, <1>3, <2>6, <2>7, FirstIsOne
  <2> QED BY <1>4, <1>6, <2>8 DEF i
<1>16. part[m] - y = to[n] - (y + base)
  <2>1. m \in 0..m /\ start + m = n /\ n \in 0..n
    BY <1>1
  <2>2. PICK p \in Nat, c \in Nat : p = part[m] /\ c = to[n]
    BY <1>3, <1>5, <2>1
  <2>3. p = c - base
    BY <1>2, <1>8, <2>1, <2>2
  <2> QED BY <2>2, <2>3
<1>17. shown.below = o.below
  <2>1. shown.below = part[m] - RowAt(part, m, shown.scroll)
    BY <1>6
  <2>2. o.below = to[n] - RowAt(to, n, o.scroll)
    BY <1>4
  <2> QED BY <1>7, <1>12, <1>13, <1>14, <1>16, <2>1, <2>2
<1> QED BY <1>7, <1>12, <1>15, <1>17 DEF o, shown, w, n

PaintedAs(lines, o) ==
  [scroll |-> o.scroll, top |-> Len(lines) - 1 - o.first, below |-> o.below]

LEMMA PaintedIs ==
  ASSUME NEW lines \in Seq(Entry), Len(lines) # 0, NEW offset \in Nat
  PROVE  /\ Painted(lines, offset, WindowLen(offset)) = PaintedAs(lines, Offsets(lines, offset))
         /\ Painted(lines, offset, Len(lines)) = PaintedAs(lines, Offsets(lines, offset))
<1> DEFINE n == Len(lines)
           o == Offsets(lines, offset)
<1>1. n \in Nat /\ n # 0 /\ Height \in Nat
  BY JobLogAssumption
<1>2. SubSeq(lines, 1, n) = lines
  OBVIOUS
<1>3. o.first \in Nat
  BY <1>1, OffsetsAre
<1>4. ASSUME NEW length, Minus(n, length) = 0
      PROVE  Painted(lines, offset, length) = PaintedAs(lines, o)
  <2>1. n - 1 - (0 + o.first) = n - 1 - o.first
    BY <1>1, <1>3
  <2>2. SubSeq(lines, Minus(n, length) + 1, n) = lines
    BY <1>2, <1>4
  <2> QED BY <1>1, <1>4, <2>1, <2>2 DEF Painted, PaintedAs
<1>5. Minus(n, n) = 0
  BY <1>1 DEF Minus
<1>6. CASE Minus(n, WindowLen(offset)) = 0
  BY <1>4, <1>5, <1>6
<1>7. CASE Minus(n, WindowLen(offset)) # 0
  <2> DEFINE start == Minus(n, WindowLen(offset))
             shown == Offsets(SubSeq(lines, start + 1, n), offset)
  <2>1. start \in Nat /\ n = start + (offset + Height + 2)
    <3>1. WindowLen(offset) = offset + Height + 2
      BY DEF WindowLen
    <3>2. PICK w \in Nat : w = WindowLen(offset)
      BY <1>1, <3>1
    <3>3. Minus(n, w) # 0
      BY <1>7, <3>2
    <3>4. Minus(n, w) \in Nat /\ n = Minus(n, w) + w
      BY <1>1, <3>3 DEF Minus
    <3> QED BY <3>1, <3>2, <3>4
  <2>2. Painted(lines, offset, WindowLen(offset)) =
          [scroll |-> shown.scroll, top |-> n - 1 - (start + shown.first), below |-> shown.below]
    BY <1>1 DEF Painted
  <2> HIDE DEF start
  <2>3. shown.scroll = o.scroll /\ shown.below = o.below /\ start + shown.first = o.first
    BY <2>1, WindowOffsets
  <2> HIDE DEF shown, o
  <2>4. Painted(lines, offset, WindowLen(offset)) = PaintedAs(lines, o)
    BY <2>2, <2>3 DEF PaintedAs
  <2> QED BY <1>4, <1>5, <2>4 DEF o
<1> QED BY <1>6, <1>7

-----------------------------------------------------------------------------
(* Frames. *)

LEMMA TopIs ==
  ASSUME NEW n \in Nat, NEW to \in [0..n -> Nat], to[0] = 0, Rises(to, n), NEW at \in 0..n,
         NEW i, IsFirst(to, n, RowAt(to, n, at), i)
  PROVE  n - i \in Nat /\ n - i < at + Height
<1>1. i \in 1..n /\ i \in 0..n /\ i - 1 \in 0..n /\ n - at \in 0..n /\ Height \in Nat \ {0} /\ 0 \in 0..n
  BY JobLogAssumption DEF IsFirst
<1>2. PICK a \in Nat, b \in Nat, c \in Nat : a = to[i - 1] /\ b = to[i] /\ c = to[n - at]
  BY <1>1
<1>3. b > Minus(c, Height) /\ a <= Minus(c, Height)
  BY <1>2 DEF IsFirst, RowAt
<1>4. CASE c <= Height
  <2>1. a <= 0
    BY <1>1, <1>2, <1>3, <1>4 DEF Minus
  <2>2. 0 + ((i - 1) - 0) <= a
    BY <1>1, <1>2 DEF Rises
  <2>3. 0 + ((n - at) - 0) <= c
    BY <1>1, <1>2 DEF Rises
  <2> QED BY <1>1, <1>4, <2>1, <2>2, <2>3
<1>5. CASE ~ (c <= Height)
  <2>1. b > c - Height /\ a < c
    BY <1>1, <1>2, <1>3, <1>5 DEF Minus
  <2>2. i <= n - at
    <3>1. n - at <= i - 1 => c <= a
      BY <1>1, <1>2, RisesAt
    <3> QED BY <1>1, <2>1, <3>1
  <2>3. b + ((n - at) - i) <= c
    BY <1>1, <1>2, <2>2 DEF Rises
  <2> QED BY <1>1, <2>1, <2>2, <2>3
<1> QED BY <1>4, <1>5

LEMMA FrameIs ==
  ASSUME NEW lines \in Seq(Entry), NEW offset \in Nat
  PROVE  LET n == Len(lines)
             to == RowsTo(lines)
             f == Frame(lines, offset)
             c == Clamped(lines, offset)
         IN  /\ f.scroll \in Nat /\ f.top \in Nat /\ f.top < f.scroll + Height
             /\ c \in Nat
             /\ n # 0 => /\ c \in 0..(n - 1) /\ (offset < n => c = offset)
                         /\ Capped(to, n, c, f.scroll)
                         /\ to[n] - f.below = RowAt(to, n, f.scroll)
                         /\ Frame(lines, f.scroll) = f
<1> DEFINE n == Len(lines)
           to == RowsTo(lines)
           f == Frame(lines, offset)
           c == Clamped(lines, offset)
<1>1. n \in Nat /\ Height \in Nat \ {0}
  BY JobLogAssumption
<1>2. CASE n = 0
  <2>1. f = [scroll |-> 0, top |-> 0, below |-> 0]
    BY <1>2 DEF Frame, Painted
  <2>2. c \in Nat
    BY <1>2 DEF Clamped, Minus
  <2> HIDE DEF f, c
  <2> QED BY <1>1, <1>2, <2>1, <2>2 DEF f, c, n
<1>3. CASE n # 0
  <2> DEFINE o == Offsets(lines, c)
             y == RowAt(to, n, o.scroll)
  <2>1. c \in 0..(n - 1) /\ (offset < n => c = offset)
    BY <1>1, <1>3 DEF Clamped, Minus
  <2> HIDE DEF c
  <2>2. c \in Nat /\ f = PaintedAs(lines, o)
    BY <1>3, <2>1, PaintedIs DEF Frame, c
  <2>3. /\ Capped(to, n, c, o.scroll) /\ o.first \in Nat /\ IsFirst(to, n, y, o.first + 1)
        /\ o = [scroll |-> o.scroll, first |-> o.first, below |-> to[n] - y]
        /\ Offsets(lines, o.scroll) = o
    BY <1>3, <2>2, OffsetsAre
  <2>4. to \in [0..n -> Nat] /\ to[0] = 0 /\ Rises(to, n)
    BY RowsAre
  <2> HIDE DEF o, to
  <2>5. f.scroll = o.scroll /\ f.top = n - 1 - o.first /\ f.below = to[n] - y
    BY <2>2, <2>3 DEF PaintedAs
  <2>6. o.scroll \in 0..n /\ o.scroll <= c
    BY <2>3 DEF Capped
  <2>7. n - (o.first + 1) \in Nat /\ n - (o.first + 1) < o.scroll + Height
    BY <1>1, <2>3, <2>4, <2>6, TopIs
  <2>8. f.top \in Nat /\ f.top < f.scroll + Height
    BY <1>1, <2>3, <2>5, <2>6, <2>7
  <2>9. to[n] - f.below = y
    <3>1. n - o.scroll \in 0..n /\ n \in 0..n
      BY <1>1, <2>6
    <3>2. PICK a \in Nat, b \in Nat : a = to[n] /\ b = to[n - o.scroll]
      BY <2>4, <3>1
    <3>3. y \in Nat
      BY <1>1, <3>2 DEF RowAt, Minus
    <3> HIDE DEF y
    <3> QED BY <2>5, <3>2, <3>3
  <2>10. Frame(lines, f.scroll) = f
    <3>1. o.scroll \in Nat /\ o.scroll < n
      BY <1>1, <2>1, <2>6
    <3>2. Clamped(lines, o.scroll) = o.scroll
      BY <1>1, <3>1 DEF Clamped
    <3>3. Frame(lines, o.scroll) = PaintedAs(lines, Offsets(lines, o.scroll))
      BY <1>3, <3>1, <3>2, PaintedIs DEF Frame
    <3> QED BY <2>2, <2>3, <2>5, <3>3
  <2> HIDE DEF f
  <2>11. /\ f.scroll \in Nat /\ f.top \in Nat /\ f.top < f.scroll + Height /\ c \in Nat
         /\ c \in 0..(n - 1) /\ (offset < n => c = offset)
         /\ Capped(to, n, c, f.scroll)
         /\ to[n] - f.below = RowAt(to, n, f.scroll)
         /\ Frame(lines, f.scroll) = f
    BY <2>1, <2>2, <2>3, <2>5, <2>6, <2>8, <2>9, <2>10
  <2> QED BY <2>11 DEF f, c, to, n
<1> QED BY <1>2, <1>3

(* What a line must be like to be on the pane of a frame.                  *)
LEMMA OnScreenIs ==
  ASSUME NEW lines \in Seq(Entry), NEW offset \in Nat, NEW i \in 0..(Len(lines) - 1),
         RowsTo(lines)[i] < RowAt(RowsTo(lines), Len(lines), Frame(lines, offset).scroll) + Height,
         RowsTo(lines)[i + 1] > RowAt(RowsTo(lines), Len(lines), Frame(lines, offset).scroll)
  PROVE  OnScreen(lines, Frame(lines, offset).scroll, i)
<1> DEFINE f == Frame(lines, offset)
<1>1. Len(lines) # 0
  OBVIOUS
<1>2. /\ Frame(lines, f.scroll) = f
      /\ RowsTo(lines)[Len(lines)] - f.below = RowAt(RowsTo(lines), Len(lines), f.scroll)
  BY <1>1, FrameIs
<1> HIDE DEF f
<1>3. OnScreen(lines, f.scroll, i)
  BY <1>2 DEF OnScreen, f
<1> QED BY <1>3 DEF f

(* The line an offset counts to is on the pane, whatever wraps.            *)
LEMMA OffsetOnScreen ==
  ASSUME NEW lines \in Seq(Entry), NEW offset \in Nat, Len(lines) # 0
  PROVE  OnScreen(lines, Frame(lines, offset).scroll, Len(lines) - 1 - Clamped(lines, offset))
<1> DEFINE n == Len(lines)
           to == RowsTo(lines)
           at == Frame(lines, offset).scroll
           c == Clamped(lines, offset)
           i == n - 1 - c
           y == RowAt(to, n, at)
<1>1. n \in Nat /\ Height \in Nat \ {0} /\ to \in [0..n -> Nat] /\ to[0] = 0 /\ Rises(to, n)
  BY RowsAre, JobLogAssumption
<1>2. c \in 0..(n - 1) /\ Capped(to, n, c, at)
  BY FrameIs
<1> HIDE DEF n, to, at, c
<1>3. /\ i \in 0..(n - 1) /\ i \in 0..n /\ i + 1 \in 0..n /\ i + 1 = n - c
      /\ at \in 0..n /\ at <= c /\ n - at \in 0..n /\ i + 1 <= n - at /\ 0 \in 0..n
  BY <1>1, <1>2 DEF Capped
<1>4. PICK p \in Nat, q \in Nat, b \in Nat : p = to[i] /\ q = to[i + 1] /\ b = to[n - at]
  BY <1>1, <1>3
<1>5. p + 1 <= q /\ q <= b /\ q > 0
  <2>1. p + ((i + 1) - i) <= q
    <3>1. i <= i + 1
      BY <1>3
    <3> QED BY <1>3, <1>1, <1>4, <3>1 DEF Rises
  <2>2. to[i + 1] <= to[n - at]
    BY <1>1, <1>3, RisesAt
  <2> QED BY <1>3, <1>4, <2>1, <2>2
<1>6. b = q \/ b <= Height
  <2>1. at = c => b = q
    BY <1>3, <1>4
  <2> QED BY <1>2, <1>4, <2>1 DEF Capped
<1>7. p < Minus(b, Height) + Height /\ q > Minus(b, Height)
  BY <1>1, <1>5, <1>6 DEF Minus
<1>8. to[i] < y + Height /\ to[i + 1] > y
  BY <1>4, <1>7 DEF RowAt
<1> QED BY <1>3, <1>8, OnScreenIs DEF n, to, at, c

(* Where no line wraps the pane is `Height` lines.                         *)
LEMMA UnwrappedOnScreen ==
  ASSUME NEW lines \in Seq({e \in Entry : e.rows = 1}), NEW offset \in Nat,
         NEW d \in 0..(Len(lines) - 1), offset <= d, d < offset + Height
  PROVE  OnScreen(lines, Frame(lines, offset).scroll, Len(lines) - 1 - d)
<1> DEFINE n == Len(lines)
           to == RowsTo(lines)
           at == Frame(lines, offset).scroll
           c == Clamped(lines, offset)
           i == n - 1 - d
           y == RowAt(to, n, at)
<1>1. /\ lines \in Seq(Entry) /\ n \in Nat /\ n # 0 /\ Height \in Nat \ {0}
      /\ \A k \in 1..n : lines[k].rows = 1
  BY JobLogAssumption
<1>2. to[0] = 0 /\ \A k \in 1..n : to[k] = to[k - 1] + 1
  BY <1>1, RowsAre
<1>3. c \in 0..(n - 1) /\ (offset < n => c = offset) /\ Capped(to, n, c, at)
  BY <1>1, FrameIs
<1> HIDE DEF n, to, at, c
<1>4. \A k \in 0..n : to[k] = k
  <2> DEFINE S == {k \in Nat : k \in 0..n => to[k] = k}
  <2>1. 0 \in S
    BY <1>2
  <2>2. ASSUME NEW k \in S PROVE k + 1 \in S
    <3>1. k + 1 \in 0..n => k \in 0..n /\ k + 1 \in 1..n /\ (k + 1) - 1 = k
      BY <1>1
    <3> QED BY <1>2, <3>1
  <2>3. S \in SUBSET Nat
    OBVIOUS
  <2> HIDE DEF S
  <2>4. S = Nat
    BY <2>1, <2>2, <2>3, Induction
  <2> QED BY <2>4 DEF S
<1>5. d \in 0..(n - 1) /\ offset < n /\ c = offset
  BY <1>1, <1>3 DEF n
<1>6. /\ i \in 0..(n - 1) /\ i \in 0..n /\ i + 1 \in 0..n /\ at \in 0..n /\ n - at \in 0..n
      /\ at <= offset
  BY <1>1, <1>3, <1>5 DEF Capped
<1>7. to[i] = i /\ to[i + 1] = i + 1 /\ y = Minus(n - at, Height)
  BY <1>4, <1>6 DEF RowAt
<1>8. at = offset \/ n - at <= Height
  BY <1>3, <1>4, <1>5, <1>6 DEF Capped
<1>9. i < Minus(n - at, Height) + Height /\ i + 1 > Minus(n - at, Height)
  BY <1>1, <1>5, <1>6, <1>8 DEF Minus
<1>10. to[i] < y + Height /\ to[i + 1] > y
  BY <1>7, <1>9
<1> QED BY <1>1, <1>6, <1>10, OnScreenIs DEF n, to, at

-----------------------------------------------------------------------------
(* What is shown of the buffer. *)

Shows(f, lines, hosts, n) ==
  f = [i \in 0..n |-> IF i = 0 THEN << >>
                      ELSE IF lines[i].host \in hosts \cup {None} THEN Append(f[i - 1], lines[i])
                      ELSE f[i - 1]]

LEMMA ShowsExist ==
  ASSUME NEW lines, NEW hosts, NEW n \in Nat
  PROVE  \E f : Shows(f, lines, hosts, n)
<1> DEFINE S == {k \in Nat : \E f : Shows(f, lines, hosts, k)}
           Add(shown, i) == IF lines[i].host \in hosts \cup {None} THEN Append(shown, lines[i])
                            ELSE shown
<1>0. \A f, k : Shows(f, lines, hosts, k) <=>
                  f = [i \in 0..k |-> IF i = 0 THEN << >> ELSE Add(f[i - 1], i)]
  BY DEF Shows
<1> HIDE DEF Add
<1>1. 0 \in S
  <2> DEFINE f == [i \in 0..0 |-> << >>]
  <2>1. f = [i \in 0..0 |-> IF i = 0 THEN << >> ELSE Add(f[i - 1], i)]
    OBVIOUS
  <2> HIDE DEF f
  <2>2. Shows(f, lines, hosts, 0)
    BY <1>0, <2>1
  <2> QED BY <2>2
<1>2. ASSUME NEW k \in S PROVE k + 1 \in S
  <2>1. PICK f : Shows(f, lines, hosts, k)
    OBVIOUS
  <2> DEFINE g == [i \in 0..(k + 1) |-> IF i = k + 1 THEN Add(f[k], k + 1) ELSE f[i]]
  <2>2. \A i \in 0..k : g[i] = f[i]
    OBVIOUS
  <2>3. \A i \in 0..k : f[i] = IF i = 0 THEN << >> ELSE Add(f[i - 1], i)
    <3>1. f = [i \in 0..k |-> IF i = 0 THEN << >> ELSE Add(f[i - 1], i)]
      BY <1>0, <2>1
    <3> QED BY <3>1
  <2>4. \A i \in 0..(k + 1) : g[i] = IF i = 0 THEN << >> ELSE Add(g[i - 1], i)
    <3> TAKE i \in 0..(k + 1)
    <3>1. CASE i = k + 1
      BY <3>1, <2>2
    <3>2. CASE i # k + 1
      <4>1. i \in 0..k /\ (i = 0 \/ i - 1 \in 0..k)
        BY <3>2
      <4> QED BY <4>1, <2>2, <2>3
    <3> QED BY <3>1, <3>2
  <2>5. g = [i \in 0..(k + 1) |-> g[i]]
    OBVIOUS
  <2> HIDE DEF g
  <2>6. g = [i \in 0..(k + 1) |-> IF i = 0 THEN << >> ELSE Add(g[i - 1], i)]
    BY <2>4, <2>5
  <2>7. Shows(g, lines, hosts, k + 1)
    BY <1>0, <2>6
  <2> QED BY <2>7
<1>3. S \in SUBSET Nat
  OBVIOUS
<1> HIDE DEF S
<1>4. S = Nat
  BY <1>1, <1>2, <1>3, Induction
<1> QED BY <1>4 DEF S

(* What is shown are lines of the buffer.                                  *)
LEMMA ViewIs ==
  ASSUME NEW E, NEW lines \in Seq(E), NEW hosts
  PROVE  View(lines, hosts) \in Seq(E)
<1> DEFINE n == Len(lines)
           f == CHOOSE g : Shows(g, lines, hosts, n)
<1>1. n \in Nat /\ \A i \in 1..n : lines[i] \in E
  OBVIOUS
<1>2. Shows(f, lines, hosts, n)
  BY <1>1, ShowsExist
<1>3. View(lines, hosts) = f[n]
  BY DEF View, Shows
<1> HIDE DEF f, n
<1>4. f[0] = << >>
  BY <1>1, <1>2 DEF Shows
<1>5. \A i \in 1..n : f[i] = f[i - 1] \/ f[i] = Append(f[i - 1], lines[i])
  <2>1. \A i \in 1..n : i \in 0..n /\ i # 0
    BY <1>1
  <2>2. \A i \in 0..n : f[i] = IF i = 0 THEN << >>
                               ELSE IF lines[i].host \in hosts \cup {None} THEN Append(f[i - 1], lines[i])
                               ELSE f[i - 1]
    BY <1>2 DEF Shows
  <2> QED BY <2>1, <2>2
<1> DEFINE S == {k \in Nat : k \in 0..n => f[k] \in Seq(E)}
<1>6. 0 \in S
  <2>1. << >> \in Seq(E)
    OBVIOUS
  <2> QED BY <1>4, <2>1
<1>7. ASSUME NEW k \in S PROVE k + 1 \in S
  <2> SUFFICES ASSUME k + 1 \in 0..n PROVE f[k + 1] \in Seq(E)
    OBVIOUS
  <2>1. k \in 0..n /\ k + 1 \in 1..n /\ (k + 1) - 1 = k
    BY <1>1
  <2>2. PICK shown \in Seq(E), line \in E : shown = f[k] /\ line = lines[k + 1]
    BY <1>1, <2>1
  <2>3. f[k + 1] = shown \/ f[k + 1] = Append(shown, line)
    BY <1>5, <2>1, <2>2
  <2>4. Append(shown, line) \in Seq(E)
    OBVIOUS
  <2> QED BY <2>3, <2>4
<1>8. S \in SUBSET Nat
  OBVIOUS
<1> HIDE DEF S
<1>9. S = Nat
  BY <1>6, <1>7, <1>8, Induction
<1>10. n \in S /\ n \in 0..n
  BY <1>1, <1>9
<1> QED BY <1>3, <1>10 DEF S

LEMMA PushedIs ==
  ASSUME NEW lines \in Seq(Entry), NEW line \in Entry
  PROVE  Pushed(lines, line) \in Seq(Entry)
<1> DEFINE all == Append(lines, line)
           k == Least(Len(all), LogCap)
<1>1. all \in Seq(Entry) /\ LogCap \in Nat
  BY JobLogAssumption
<1> HIDE DEF all
<1>2. k \in Nat /\ k <= Len(all)
  BY <1>1 DEF Least
<1> HIDE DEF k
<1>3. SubSeq(all, Len(all) - k + 1, Len(all)) \in Seq(Entry)
  BY <1>1, <1>2
<1> QED BY <1>3 DEF Pushed, LastOf, all, k

-----------------------------------------------------------------------------
(* The matches. *)

(* The line a match is on, found from the top of the view.                 *)
LEMMA MatchIs ==
  ASSUME NEW lines \in Seq(Entry), NEW number \in 1..Hits(lines)
  PROVE  LET hit == {i \in 1..Len(lines) : lines[i].hits > 0 /\ HitsTo(lines)[i] >= number}
             i == CHOOSE i \in hit : \A j \in hit : i <= j
         IN  hit # {} /\ i \in 1..Len(lines) /\ i = MatchLine(lines, number)
<1> DEFINE n == Len(lines)
           to == HitsTo(lines)
           hit == {i \in 1..n : lines[i].hits > 0 /\ to[i] >= number}
           IsMatch(i) == i \in 1..n /\ to[i] >= number /\ to[i - 1] < number
<1>1. /\ n \in Nat /\ to[0] = 0 /\ \A i \in 0..n : to[i] \in Nat
      /\ \A i \in 1..n : to[i] = to[i - 1] + lines[i].hits
      /\ \A i, j \in 0..n : i <= j => to[i] <= to[j]
      /\ number \in Nat \ {0} /\ number <= to[n]
  BY HitsAre DEF Hits
<1>2. \A i \in 1..n : lines[i].hits \in Nat
  <2>1. \A i \in 1..n : lines[i] \in Entry
    OBVIOUS
  <2> QED BY <2>1 DEF Entry
<1>a. MatchLine(lines, number) = CHOOSE i \in 1..n : to[i] >= number /\ to[i - 1] < number
  BY DEF MatchLine
<1> HIDE DEF n, to
<1>3. PICK m : IsMatch(m) /\ m \in hit
  <2> DEFINE S == {i \in 0..n : to[i] >= number}
  <2>1. S \in SUBSET Nat /\ n \in S
    BY <1>1
  <2>2. PICK m \in S : \A k \in S : m <= k
    BY <2>1, LeastElement
  <2>3. m \in 1..n /\ to[m] >= number
    BY <1>1, <2>2
  <2>4. m - 1 \in 0..n /\ ~ (m <= m - 1)
    BY <1>1, <2>3
  <2>5. m - 1 \notin S
    <3> HIDE DEF S
    <3> QED BY <2>2, <2>4
  <2>6. PICK a \in Nat : a = to[m - 1]
    BY <1>1, <2>4
  <2>7. to[m - 1] < number
    BY <1>1, <2>4, <2>5, <2>6
  <2>8. lines[m].hits > 0
    BY <1>1, <1>2, <2>3, <2>6, <2>7
  <2> QED BY <2>3, <2>7, <2>8
<1>4. ASSUME NEW i \in 1..n, to[i] >= number PROVE m <= i
  <2> SUFFICES ASSUME i < m PROVE FALSE
    BY <1>1, <1>3
  <2>1. i \in 0..n /\ m - 1 \in 0..n /\ i <= m - 1
    BY <1>1, <1>3
  <2>2. PICK a \in Nat, b \in Nat : a = to[i] /\ b = to[m - 1]
    BY <1>1, <2>1
  <2>3. a <= b
    BY <1>1, <2>1, <2>2
  <2> QED BY <1>1, <1>3, <1>4, <2>2, <2>3
<1>5. \A i : IsMatch(i) => i = m
  <2> SUFFICES ASSUME NEW i, IsMatch(i) PROVE i = m
    OBVIOUS
  <2>1. m <= i /\ i \in 1..n /\ m \in 1..n
    BY <1>3, <1>4
  <2> SUFFICES ASSUME m < i PROVE FALSE
    BY <1>1, <2>1
  <2>2. m \in 0..n /\ i - 1 \in 0..n /\ m <= i - 1
    BY <1>1, <2>1
  <2>3. PICK a \in Nat, b \in Nat : a = to[m] /\ b = to[i - 1]
    BY <1>1, <2>2
  <2>4. a <= b
    BY <1>1, <2>2, <2>3
  <2> QED BY <1>1, <1>3, <2>3, <2>4
<1>6. (CHOOSE i \in 1..n : to[i] >= number /\ to[i - 1] < number) = m
  BY <1>3, <1>5
<1>7. \A i \in hit : m <= i
  BY <1>4
<1>8. \A i \in hit : i \in 1..n
  OBVIOUS
<1>9. hit # {} /\ m \in hit /\ m \in 1..n
  BY <1>3
<1> DEFINE least == CHOOSE i \in hit : \A j \in hit : i <= j
<1> HIDE DEF hit
<1>10. least \in hit /\ \A j \in hit : least <= j
  BY <1>3, <1>7
<1>11. least = m
  <2>1. least <= m /\ m <= least /\ least \in 1..n /\ m \in 1..n
    BY <1>7, <1>8, <1>9, <1>10
  <2> HIDE DEF least
  <2> QED BY <1>1, <2>1
<1> HIDE DEF least
<1>12. hit # {} /\ least \in 1..n /\ least = MatchLine(lines, number)
  BY <1>a, <1>6, <1>9, <1>11
<1> QED BY <1>12 DEF least, hit, n, to

-----------------------------------------------------------------------------
(* The pane from frame to frame. *)

Visuals == [anchor : Nat, cursor : Nat]

(* The buffer holds lines, the offsets are numbers, and the top of the     *)
(* pane is less than its height above the bottom.                          *)
PaneInv ==
  /\ log \in Seq(Entry) /\ selected \in Hosts
  /\ scroll \in Nat /\ top \in Nat /\ top < scroll + Height
  /\ match \in Nat
  /\ visual # None => visual \in Visuals

LEMMA LogOnly ==
  ASSUME NEW hosts, NEW lines \in Seq(Entry)
  PROVE  View(lines, hosts) \in Seq(Entry) /\ Len(View(lines, hosts)) \in Nat
<1>1. View(lines, hosts) \in Seq(Entry)
  BY ViewIs
<1> QED BY <1>1

LEMMA FilteredIs ==
  ASSUME PaneInv
  PROVE  Filtered \in Seq(Entry) /\ Len(Filtered) \in Nat
BY LogOnly DEF PaneInv, Filtered

LEMMA FilteredNext ==
  ASSUME (log \in Seq(Entry))'
  PROVE  (Filtered \in Seq(Entry))'
BY ViewIs DEF Filtered

LEMMA DrawIs ==
  ASSUME (log \in Seq(Entry))', NEW offset \in Nat, Draw(offset)
  PROVE  /\ scroll' = Frame(Filtered', offset).scroll
         /\ scroll' \in Nat /\ top' \in Nat /\ top' < scroll' + Height
<1> DEFINE shown == Filtered'
<1>1. shown \in Seq(Entry)
  BY FilteredNext
<1>2. scroll' = Frame(shown, offset).scroll /\ top' = Frame(shown, offset).top
  BY DEF Draw
<1> HIDE DEF shown
<1>3. /\ Frame(shown, offset).scroll \in Nat /\ Frame(shown, offset).top \in Nat
      /\ Frame(shown, offset).top < Frame(shown, offset).scroll + Height
  BY <1>1, FrameIs
<1> QED BY <1>2, <1>3 DEF shown

LEMMA Numbers ==
  ASSUME NEW a \in Nat, NEW b \in Nat
  PROVE  Minus(a, b) \in Nat /\ Least(a, b) \in Nat /\ Most(a, b) \in Nat
BY DEF Minus, Least, Most

LEMMA HitsNumber == ASSUME PaneInv PROVE Hits(Filtered) \in Nat
<1>1. Filtered \in Seq(Entry) /\ Len(Filtered) \in Nat
  BY FilteredIs
<1>2. \A i \in 0..Len(Filtered) : HitsTo(Filtered)[i] \in Nat
  BY <1>1, HitsAre
<1> QED BY <1>1, <1>2 DEF Hits

(* The match a key goes to, and the offset that puts it at the bottom.     *)
LEMMA MatchOffset ==
  ASSUME PaneInv, NEW number \in 1..Hits(Filtered)
  PROVE  LET i == MatchLine(Filtered, number)
         IN  i \in 1..Len(Filtered) /\ ScrollToMatch(number) = Len(Filtered) - i
<1> DEFINE shown == Filtered
           hit == {i \in 1..Len(shown) : shown[i].hits > 0 /\ HitsTo(shown)[i] >= number}
           i == CHOOSE i \in hit : \A j \in hit : i <= j
<1>1. shown \in Seq(Entry)
  BY FilteredIs
<1>2. ScrollToMatch(number) = IF hit = {} THEN scroll ELSE Len(shown) - i
  BY DEF ScrollToMatch
<1>3. number \in 1..Hits(shown)
  OBVIOUS
<1> HIDE DEF shown
<1>4. hit # {} /\ i \in 1..Len(shown) /\ i = MatchLine(shown, number)
  BY <1>1, <1>3, MatchIs
<1> HIDE DEF hit, i
<1> QED BY <1>2, <1>4 DEF shown

LEMMA AdvancedIs ==
  ASSUME PaneInv, Hits(Filtered) # 0, NEW forth \in BOOLEAN
  PROVE  Advanced(forth) \in 1..Hits(Filtered)
<1> DEFINE total == Hits(Filtered)
           next == IF forth THEN match + 1 ELSE Minus(match, 1)
<1>1. total \in Nat /\ total # 0 /\ match \in Nat
  BY HitsNumber DEF PaneInv
<1>2. next \in Nat
  BY <1>1 DEF Minus
<1>3. Advanced(forth) = IF next < 1 THEN total ELSE IF next > total THEN 1 ELSE next
  BY DEF Advanced
<1> HIDE DEF next, total
<1>4. Advanced(forth) \in 1..total
  BY <1>1, <1>2, <1>3
<1> QED BY <1>4 DEF total

(* Where n, N and a committed query go.                                    *)
Goes ==
  \E number \in 1..Hits(Filtered) :
    match' = number /\ Draw(ScrollToMatch(number))
    /\ UNCHANGED << log, marked, selected, visual >>

LEMMA SearchIs ==
  ASSUME PaneInv, Search
  PROVE  /\ UNCHANGED << log, marked, selected, visual >>
         /\ Goes \/ (match' \in {0, match} /\ \E offset \in {0, scroll} : Draw(offset))
<1>1. UNCHANGED << log, marked, selected, visual >>
  BY DEF Search
<1>2. \/ match' = Hits(Filtered) /\ Draw(IF Hits(Filtered) = 0 THEN 0 ELSE ScrollToMatch(match'))
      \/ match' = match /\ Draw(scroll)
  BY DEF Search
<1>3. CASE Hits(Filtered) = 0
  <2>1. \/ match' = 0 /\ Draw(0)
        \/ match' = match /\ Draw(scroll)
    BY <1>2, <1>3
  <2> QED BY <1>1, <2>1
<1>4. CASE Hits(Filtered) # 0
  <2>1. Hits(Filtered) \in 1..Hits(Filtered)
    BY <1>4, HitsNumber
  <2>2. \/ match' = Hits(Filtered) /\ Draw(ScrollToMatch(Hits(Filtered)))
        \/ match' = match /\ Draw(scroll)
    <3>1. ASSUME match' = Hits(Filtered),
                 Draw(IF Hits(Filtered) = 0 THEN 0 ELSE ScrollToMatch(match'))
          PROVE  Draw(ScrollToMatch(Hits(Filtered)))
      BY <1>4, <3>1
    <3> QED BY <1>2, <3>1
  <2> QED BY <1>1, <2>1, <2>2 DEF Goes
<1> QED BY <1>3, <1>4

LEMMA NextMatchIs ==
  ASSUME PaneInv, NextMatch
  PROVE  /\ UNCHANGED << log, marked, selected, visual >>
         /\ Goes \/ (match' = match /\ Draw(scroll))
<1>1. UNCHANGED << log, marked, selected, visual >>
  BY DEF NextMatch
<1>2. CASE Hits(Filtered) = 0
  BY <1>1, <1>2 DEF NextMatch
<1>3. CASE Hits(Filtered) # 0
  <2>1. PICK forth \in BOOLEAN : match' = Advanced(forth) /\ Draw(ScrollToMatch(match'))
    BY <1>3 DEF NextMatch
  <2>2. Advanced(forth) \in 1..Hits(Filtered)
    BY <1>3, AdvancedIs
  <2>3. Draw(ScrollToMatch(Advanced(forth)))
    BY <2>1
  <2> QED BY <1>1, <2>1, <2>2, <2>3 DEF Goes
<1> QED BY <1>2, <1>3

-----------------------------------------------------------------------------
(* Every step keeps the pane as it should be. *)

LEMMA SeamIs ==
  ASSUME PaneInv
  PROVE  /\ [host |-> selected, rows |-> 1, hits |-> 0] \in Entry
         /\ [host |-> None, rows |-> 1, hits |-> 0] \in Entry
BY DEF PaneInv, Entry

LEMMA PaneDrawn ==
  ASSUME (log \in Seq(Entry))', (selected \in Hosts)', (match \in Nat)',
         (visual # None => visual \in Visuals)', NEW offset \in Nat, Draw(offset)
  PROVE  PaneInv'
<1>1. scroll' \in Nat /\ top' \in Nat /\ top' < scroll' + Height
  BY DrawIs
<1> QED BY <1>1 DEF PaneInv

LEMMA InitPane == Init => PaneInv
<1> SUFFICES ASSUME Init PROVE PaneInv
  OBVIOUS
<1>1. log \in Seq(Entry)
  <2>1. PICK start \in Starts : log = start.log
    BY DEF Init
  <2>2. start.log \in Seq(Lines) /\ Lines \subseteq Entry
    BY JobLogAssumption DEF Entry
  <2> QED BY <2>1, <2>2
<1>2. Filtered \in Seq(Entry)
  BY <1>1, LogOnly DEF Filtered
<1>3. scroll = Frame(Filtered, 0).scroll /\ top = Frame(Filtered, 0).top
  BY DEF Init
<1> DEFINE shown == Filtered
<1>4. shown \in Seq(Entry) /\ 0 \in Nat
  BY <1>2
<1> HIDE DEF shown
<1>5. /\ Frame(shown, 0).scroll \in Nat /\ Frame(shown, 0).top \in Nat
      /\ Frame(shown, 0).top < Frame(shown, 0).scroll + Height
  BY <1>4, FrameIs
<1>6. scroll \in Nat /\ top \in Nat /\ top < scroll + Height
  BY <1>3, <1>5 DEF shown
<1>7. selected \in Hosts /\ match = 0 /\ visual = None
  BY DEF Init
<1> QED BY <1>1, <1>6, <1>7 DEF PaneInv

(* A key that moves the cursor of a selection: the line it comes to and    *)
(* where the view follows it.                                              *)
LEMMA MovedIs ==
  ASSUME PaneInv, visual # None, Filtered # << >>, NEW up \in BOOLEAN
  PROVE  /\ Moved(up) \in 0..(Len(Filtered) - 1)
         /\ Len(Filtered) - 1 - Moved(up) \in 0..(Len(Filtered) - 1)
         /\ Followed(Len(Filtered) - 1 - Moved(up)) \in Nat
         /\ Followed(Len(Filtered) - 1 - Moved(up)) <= Len(Filtered) - 1 - Moved(up)
         /\ Len(Filtered) - 1 - Moved(up) < Followed(Len(Filtered) - 1 - Moved(up)) + Height
<1> DEFINE n == Len(Filtered)
           c == visual.cursor
<1>1. n \in Nat /\ n # 0 /\ c \in Nat
  <2>1. Filtered \in Seq(Entry) /\ Len(Filtered) \in Nat
    BY FilteredIs
  <2>2. visual \in Visuals
    BY DEF PaneInv
  <2> QED BY <2>1, <2>2 DEF Visuals
<1>2. Moved(up) = Least(IF up THEN Minus(c, 1) ELSE c + 1, n - 1)
  BY DEF Moved
<1> HIDE DEF n, c
<1>3. Moved(up) \in 0..(n - 1)
  BY <1>1, <1>2 DEF Least, Minus
<1>4. PICK d \in Nat : d = n - 1 - Moved(up) /\ d <= n - 1
  BY <1>1, <1>3
<1>5. scroll \in Nat /\ top \in Nat /\ top < scroll + Height /\ Height \in Nat /\ Height # 0
  BY JobLogAssumption DEF PaneInv
<1>6. Followed(d) \in Nat /\ Followed(d) <= d /\ d < Followed(d) + Height
  BY <1>5 DEF Followed, Most, Least
<1>7. n - 1 - Moved(up) \in 0..(n - 1)
  BY <1>1, <1>4
<1> QED BY <1>3, <1>4, <1>6, <1>7 DEF n

LEMMA ScrolledIs ==
  ASSUME PaneInv, NEW up \in BOOLEAN, NEW by \in Nat
  PROVE  Scrolled(up, by) \in Nat
<1>1. scroll \in Nat /\ Len(Filtered) \in Nat
  BY FilteredIs DEF PaneInv
<1> QED BY <1>1 DEF Scrolled, Least, Minus

LEMMA BottomLineIs ==
  ASSUME PaneInv
  PROVE  BottomLine \in Nat
<1>1. scroll \in Nat /\ Len(Filtered) \in Nat
  BY FilteredIs DEF PaneInv
<1> QED BY <1>1 DEF BottomLine, Minus

LEMMA PaneStep == PaneInv /\ [Next]_vars => PaneInv'
<1> SUFFICES ASSUME PaneInv, [Next]_vars PROVE PaneInv'
  OBVIOUS
<1> DEFINE Same == UNCHANGED << log, selected >>
           Kept == UNCHANGED << match, visual >>
<1>1. scroll \in Nat /\ 0 \in Nat /\ log \in Seq(Entry) /\ selected \in Hosts /\ match \in Nat
  BY DEF PaneInv
<1>2. /\ Same => (log \in Seq(Entry))' /\ (selected \in Hosts)'
      /\ Kept => (match \in Nat)' /\ (visual # None => visual \in Visuals)'
  BY DEF PaneInv
<1>3. CASE Log
  <2>1. PICK line \in Lines :
          /\ log' = Pushed(log, line) /\ UNCHANGED << selected, visual, match >>
          /\ Draw(scroll) \/ UNCHANGED << scroll, top >>
    BY <1>3 DEF Log
  <2>2. line \in Entry
    BY JobLogAssumption DEF Entry
  <2>3. (log \in Seq(Entry))' /\ (selected \in Hosts)'
    BY <1>1, <2>1, <2>2, PushedIs
  <2>4. (match \in Nat)' /\ (visual # None => visual \in Visuals)'
    BY <1>2, <2>1
  <2>5. CASE Draw(scroll)
    BY <1>1, <2>3, <2>4, <2>5, PaneDrawn
  <2>6. CASE UNCHANGED << scroll, top >>
    BY <2>3, <2>4, <2>6 DEF PaneInv
  <2> QED BY <2>1, <2>5, <2>6
<1>4. CASE Tick
  <2>1. Same /\ Kept /\ Draw(scroll)
    BY <1>4 DEF Tick
  <2> QED BY <1>1, <1>2, <2>1, PaneDrawn
<1>5. CASE SelectHost
  <2>1. (selected \in Hosts)' /\ UNCHANGED log /\ Kept /\ Draw(scroll)
    BY <1>5 DEF SelectHost
  <2>2. (log \in Seq(Entry))'
    BY <1>1, <2>1
  <2> QED BY <1>1, <1>2, <2>1, <2>2, PaneDrawn
<1>6. CASE Mark
  <2>1. /\ log' = Pushed(log, [host |-> selected, rows |-> 1, hits |-> 0])
        /\ UNCHANGED selected /\ Kept /\ Draw(scroll)
    BY <1>6 DEF Mark
  <2>2. (log \in Seq(Entry))' /\ (selected \in Hosts)'
    BY <1>1, <2>1, SeamIs, PushedIs
  <2> QED BY <1>1, <1>2, <2>1, <2>2, PaneDrawn
<1>7. CASE MarkAll
  <2>1. /\ log' = Pushed(log, [host |-> None, rows |-> 1, hits |-> 0])
        /\ UNCHANGED selected /\ Kept /\ Draw(scroll)
    BY <1>7 DEF MarkAll
  <2>2. (log \in Seq(Entry))' /\ (selected \in Hosts)'
    BY <1>1, <2>1, SeamIs, PushedIs
  <2> QED BY <1>1, <1>2, <2>1, <2>2, PaneDrawn
<1>8. CASE Focus
  <2>1. Same /\ Kept /\ Draw(scroll)
    BY <1>8 DEF Focus
  <2> QED BY <1>1, <1>2, <2>1, PaneDrawn
<1>9. CASE Scroll
  <2>1. PICK up \in BOOLEAN : Draw(Scrolled(up, 1)) \/ Draw(Scrolled(up, 3))
    BY <1>9 DEF Scroll
  <2>2. Scrolled(up, 1) \in Nat /\ Scrolled(up, 3) \in Nat
    BY ScrolledIs
  <2>3. Same /\ Kept
    BY <1>9 DEF Scroll
  <2>4. \E offset \in Nat : Draw(offset)
    BY <2>1, <2>2
  <2> QED BY <1>2, <2>3, <2>4, PaneDrawn
<1>10. CASE Jump
  <2>1. Same /\ Kept /\ (Draw(Minus(Len(Filtered), 1)) \/ Draw(0))
    BY <1>10 DEF Jump
  <2>2. Minus(Len(Filtered), 1) \in Nat
    BY FilteredIs DEF Minus
  <2>3. \E offset \in Nat : Draw(offset)
    BY <1>1, <2>1, <2>2
  <2> QED BY <1>2, <2>1, <2>3, PaneDrawn
<1>11. CASE Visual
  <2>1. Same /\ UNCHANGED match /\ Draw(scroll)
    BY <1>11 DEF Visual
  <2>2. visual' = visual \/ visual' = [anchor |-> BottomLine, cursor |-> BottomLine]
    BY <1>11 DEF Visual
  <2>3. (visual # None => visual \in Visuals)'
    BY <2>2, BottomLineIs DEF PaneInv, Visuals
  <2>4. (match \in Nat)'
    BY <1>1, <2>1
  <2> QED BY <1>1, <1>2, <2>1, <2>3, <2>4, PaneDrawn
<1>12. CASE MoveCursor
  <2>1. Same /\ UNCHANGED match /\ visual # None
    BY <1>12 DEF MoveCursor
  <2>2. (match \in Nat)'
    BY <1>1, <2>1
  <2>3. CASE Filtered = << >>
    <3>1. Kept /\ Draw(scroll)
      BY <1>12, <2>1, <2>3 DEF MoveCursor
    <3> QED BY <1>1, <1>2, <2>1, <3>1, PaneDrawn
  <2>4. CASE Filtered # << >>
    <3>1. PICK up \in BOOLEAN :
            /\ visual' = [visual EXCEPT !.cursor = Moved(up)]
            /\ Draw(Followed(Len(Filtered) - 1 - Moved(up)))
      BY <1>12, <2>4 DEF MoveCursor
    <3>2. /\ Moved(up) \in 0..(Len(Filtered) - 1)
          /\ Followed(Len(Filtered) - 1 - Moved(up)) \in Nat
      BY <2>1, <2>4, MovedIs
    <3>3. (visual # None => visual \in Visuals)'
      <4>1. Moved(up) \in Nat
        BY <3>2
      <4> QED BY <2>1, <3>1, <4>1 DEF PaneInv, Visuals
    <3>4. \E offset \in Nat : Draw(offset)
      BY <3>1, <3>2
    <3> QED BY <1>2, <2>1, <2>2, <3>3, <3>4, PaneDrawn
  <2> QED BY <2>3, <2>4
<1>13. CASE Yank
  <2>1. /\ log' = Pushed(log, [host |-> None, rows |-> 1, hits |-> 0])
        /\ UNCHANGED << selected, match >> /\ visual' = None /\ Draw(scroll)
    BY <1>13 DEF Yank
  <2>2. (log \in Seq(Entry))' /\ (selected \in Hosts)' /\ (match \in Nat)'
    BY <1>1, <2>1, SeamIs, PushedIs
  <2> QED BY <1>1, <2>1, <2>2, PaneDrawn
<1>14. CASE Search
  <2>1. UNCHANGED << log, marked, selected, visual >>
    BY <1>14, SearchIs
  <2>2. (match \in Nat)' /\ \E offset \in Nat : Draw(offset)
    <3>1. CASE Goes
      <4>1. PICK number \in 1..Hits(Filtered) : match' = number /\ Draw(ScrollToMatch(number))
        BY <3>1 DEF Goes
      <4>2. ScrollToMatch(number) \in Nat
        BY FilteredIs, MatchOffset
      <4>3. number \in Nat
        BY HitsNumber
      <4> QED BY <4>1, <4>2, <4>3
    <3>2. CASE match' \in {0, match} /\ \E offset \in {0, scroll} : Draw(offset)
      BY <1>1, <3>2
    <3> QED BY <1>14, <3>1, <3>2, SearchIs
  <2>3. Same /\ (visual # None => visual \in Visuals)'
    BY <2>1 DEF PaneInv
  <2> QED BY <1>2, <2>2, <2>3, PaneDrawn
<1>15. CASE NextMatch
  <2>1. UNCHANGED << log, marked, selected, visual >>
    BY <1>15, NextMatchIs
  <2>2. (match \in Nat)' /\ \E offset \in Nat : Draw(offset)
    <3>1. CASE Goes
      <4>1. PICK number \in 1..Hits(Filtered) : match' = number /\ Draw(ScrollToMatch(number))
        BY <3>1 DEF Goes
      <4>2. ScrollToMatch(number) \in Nat
        BY FilteredIs, MatchOffset
      <4>3. number \in Nat
        BY HitsNumber
      <4> QED BY <4>1, <4>2, <4>3
    <3>2. CASE match' = match /\ Draw(scroll)
      BY <1>1, <3>2
    <3> QED BY <1>15, <3>1, <3>2, NextMatchIs
  <2>3. Same /\ (visual # None => visual \in Visuals)'
    BY <2>1 DEF PaneInv
  <2> QED BY <1>2, <2>2, <2>3, PaneDrawn
<1>16. CASE Escape
  <2>1. Same /\ Draw(scroll)
    BY <1>16 DEF Escape
  <2>2. (match' = match \/ match' = 0) /\ (visual' = None \/ visual' = visual)
    BY <1>16 DEF Escape
  <2>3. (match \in Nat)' /\ (visual # None => visual \in Visuals)'
    BY <1>1, <2>2 DEF PaneInv
  <2> QED BY <1>1, <1>2, <2>1, <2>3, PaneDrawn
<1>17. CASE Deploy
  <2> DEFINE seam == [host |-> None, rows |-> 1, hits |-> 0]
  <2>1. /\ log' = Pushed(Pushed(log, seam), seam)
        /\ UNCHANGED << selected, match >> /\ visual' = None /\ Draw(0)
    BY <1>17 DEF Deploy
  <2>2. seam \in Entry
    BY SeamIs
  <2> HIDE DEF seam
  <2>3. (log \in Seq(Entry))' /\ (selected \in Hosts)' /\ (match \in Nat)'
    BY <1>1, <2>1, <2>2, PushedIs
  <2> QED BY <1>1, <2>1, <2>3, PaneDrawn
<1>18. CASE UNCHANGED vars
  BY <1>18 DEF PaneInv, vars
<1> QED
  BY <1>3, <1>4, <1>5, <1>6, <1>7, <1>8, <1>9, <1>10, <1>11, <1>12, <1>13, <1>14, <1>15,
     <1>16, <1>17, <1>18 DEF Next

LEMMA PaneAlways == Spec => []PaneInv
BY InitPane, PaneStep, PTL DEF Spec

(* "running it over the window yields the same offset it would over the    *)
(* full list" (ui.rs 1726): wherever the pane is put, the few entries the  *)
(* renderer builds give the frame that all of them would give, however     *)
(* they wrap and however high the pane is.                                 *)
THEOREM WindowAlwaysSuffices == Spec => []WindowSuffices
<1>1. PaneInv => WindowSuffices
  <2> SUFFICES ASSUME PaneInv, NEW offset \in 0..Minus(Len(Filtered), 1)
               PROVE  Painted(Filtered, offset, WindowLen(offset))
                        = Painted(Filtered, offset, Len(Filtered))
    BY DEF WindowSuffices
  <2>1. Filtered \in Seq(Entry) /\ Len(Filtered) \in Nat
    BY FilteredIs
  <2>2. offset \in Nat
    BY <2>1 DEF Minus
  <2>3. CASE Len(Filtered) = 0
    BY <2>3 DEF Painted
  <2>4. CASE Len(Filtered) # 0
    BY <2>1, <2>2, <2>4, PaintedIs
  <2> QED BY <2>3, <2>4
<1> QED BY <1>1, PaneAlways, PTL

-----------------------------------------------------------------------------
(* The match the search goes to. *)

(* Every other step leaves the number of the match, or clears it.          *)
LEMMA MatchGoes ==
  ASSUME PaneInv, [Next]_vars, match' # match, match' # 0
  PROVE  Goes
<1>1. CASE Search
  BY <1>1, SearchIs
<1>2. CASE NextMatch
  BY <1>2, NextMatchIs
<1>3. Escape => match' = match \/ match' = 0
  BY DEF Escape
<1>4. UNCHANGED vars => match' = match
  BY DEF vars
<1>5. Log \/ Tick \/ SelectHost \/ Mark \/ MarkAll \/ Focus \/ Scroll => match' = match
  BY DEF Log, Tick, SelectHost, Mark, MarkAll, Focus, Scroll
<1>6. Jump \/ Visual \/ MoveCursor \/ Yank \/ Deploy => match' = match
  BY DEF Jump, Visual, MoveCursor, Yank, Deploy
<1> QED BY <1>1, <1>2, <1>3, <1>4, <1>5, <1>6 DEF Next

LEMMA ShownSame ==
  ASSUME UNCHANGED << log, marked, selected >>
  PROVE  Filtered' = Filtered
BY DEF Filtered, Active

LEMMA GoesOnScreen ==
  ASSUME PaneInv, Goes
  PROVE  /\ match' \in 1..Hits(Filtered)
         /\ OnScreen(Filtered', scroll', MatchLine(Filtered, match') - 1)
<1>1. PICK number \in 1..Hits(Filtered) :
        match' = number /\ Draw(ScrollToMatch(number)) /\ UNCHANGED << log, marked, selected >>
  BY DEF Goes
<1> DEFINE shown == Filtered
           i == MatchLine(shown, number)
           offset == Len(shown) - i
<1>2. /\ shown \in Seq(Entry) /\ Len(shown) \in Nat
      /\ i \in 1..Len(shown) /\ ScrollToMatch(number) = offset
  BY FilteredIs, MatchOffset
<1>3. Filtered' = shown /\ (log \in Seq(Entry))'
  BY <1>1, ShownSame DEF PaneInv
<1> HIDE DEF shown, i
<1>4. offset \in Nat /\ offset < Len(shown) /\ Len(shown) # 0 /\ Len(shown) - 1 - offset = i - 1
  BY <1>2
<1>5. Clamped(shown, offset) = offset
  BY <1>2, <1>4 DEF Clamped
<1> HIDE DEF offset
<1>6. Draw(offset)
  BY <1>1, <1>2
<1>7. scroll' = Frame(shown, offset).scroll
  BY <1>3, <1>4, <1>6, DrawIs
<1>8. OnScreen(shown, Frame(shown, offset).scroll, i - 1)
  BY <1>2, <1>4, <1>5, OffsetOnScreen
<1>9. OnScreen(Filtered', scroll', MatchLine(shown, number) - 1)
  BY <1>3, <1>7, <1>8 DEF i
<1> QED BY <1>1, <1>9 DEF shown

(* The search keys (app.rs, search_job_log_jump_initial, advance_match and *)
(* scroll_to_match): the match they go to is one of those shown by now,    *)
(* and it is on the pane, whatever was logged, dropped or filtered away    *)
(* since the last key.                                                     *)
THEOREM MatchAlwaysOnScreen == Spec => MatchOnScreen
<1>1. ASSUME PaneInv, [Next]_vars, match' # match, match' # 0
      PROVE  /\ match' \in 1..Hits(Filtered)
             /\ OnScreen(Filtered', scroll', MatchLine(Filtered, match') - 1)
  BY <1>1, MatchGoes, GoesOnScreen
<1>2. PaneInv /\ [Next]_vars =>
        [match' # match /\ match' # 0 =>
           /\ match' \in 1..Hits(Filtered)
           /\ OnScreen(Filtered', scroll', MatchLine(Filtered, match') - 1)]_vars
  BY <1>1
<1> QED BY <1>2, PaneAlways, PTL DEF Spec, MatchOnScreen

-----------------------------------------------------------------------------
(* The cursor of a selection. *)

(* Where it starts and where j and k take it, when no line wraps.          *)
LEMMA StartOnScreen ==
  ASSUME PaneInv, Visual, visual' # None, visual' # visual
  PROVE  OnScreen(Filtered', scroll', visual'.cursor)
<1> DEFINE shown == Filtered
           c == Clamped(shown, scroll)
<1>1. /\ Filtered' = shown /\ (log \in Seq(Entry))' /\ Draw(scroll)
      /\ shown # << >> /\ visual' = [anchor |-> BottomLine, cursor |-> BottomLine]
  BY ShownSame DEF Visual, PaneInv
<1>2. scroll \in Nat /\ shown \in Seq(Entry) /\ Len(shown) \in Nat
  BY FilteredIs DEF PaneInv
<1>3. BottomLine = Minus(Minus(Len(shown), 1), scroll)
  BY DEF BottomLine
<1> HIDE DEF shown
<1>4. Len(shown) # 0
  BY <1>1, <1>2
<1>5. BottomLine = Len(shown) - 1 - c
  <2>1. PICK n \in Nat : n = Len(shown) /\ n # 0
    BY <1>2, <1>4
  <2>2. c = IF scroll >= n THEN Minus(n, 1) ELSE scroll
    BY <2>1 DEF Clamped
  <2>3. BottomLine = Minus(Minus(n, 1), scroll)
    BY <1>3, <2>1
  <2> HIDE DEF c
  <2>4. n \in Nat \ {0} /\ scroll \in Nat
    BY <1>2, <2>1
  <2>5. Minus(n, 1) = n - 1
    BY <2>4 DEF Minus
  <2>6. c = (IF scroll >= n THEN n - 1 ELSE scroll) /\ BottomLine = Minus(n - 1, scroll)
    BY <2>2, <2>3, <2>5
  <2>7. BottomLine = n - 1 - c
    <3>1. CASE scroll >= n
      BY <2>4, <2>6, <3>1 DEF Minus
    <3>2. CASE ~ (scroll >= n)
      BY <2>4, <2>6, <3>2 DEF Minus
    <3> QED BY <3>1, <3>2
  <2> QED BY <2>1, <2>7
<1>6. scroll' = Frame(shown, scroll).scroll
  BY <1>1, <1>2, DrawIs
<1>7. OnScreen(shown, Frame(shown, scroll).scroll, Len(shown) - 1 - c)
  BY <1>2, <1>4, OffsetOnScreen
<1>8. visual'.cursor = BottomLine
  BY <1>1
<1> HIDE DEF c
<1> QED BY <1>1, <1>5, <1>6, <1>7, <1>8

LEMMA MovedOnScreen ==
  ASSUME PaneInv, MoveCursor, visual' # None, visual' # visual,
         \A i \in 1..Len(log) : log[i].rows = 1
  PROVE  OnScreen(Filtered', scroll', visual'.cursor)
<1> DEFINE shown == Filtered
           Unwrapped == {e \in Entry : e.rows = 1}
<1>1. Filtered' = shown /\ (log \in Seq(Entry))' /\ visual # None
  BY ShownSame DEF MoveCursor, PaneInv
<1>2. Filtered # << >>
  BY DEF MoveCursor
<1>3. PICK up \in BOOLEAN :
        /\ visual' = [visual EXCEPT !.cursor = Moved(up)]
        /\ Draw(Followed(Len(Filtered) - 1 - Moved(up)))
  BY <1>2 DEF MoveCursor
<1> DEFINE d == Len(shown) - 1 - Moved(up)
           offset == Followed(d)
<1>4. /\ Moved(up) \in 0..(Len(shown) - 1) /\ d \in 0..(Len(shown) - 1)
      /\ offset \in Nat /\ offset <= d /\ d < offset + Height
  BY <1>1, <1>2, MovedIs
<1>5. shown \in Seq(Unwrapped) /\ Len(shown) \in Nat
  <2>1. log \in Seq(Entry)
    BY DEF PaneInv
  <2>2. \A i \in 1..Len(log) : log[i] \in Unwrapped
    BY <2>1
  <2>3. log \in Seq(Unwrapped)
    BY <2>1, <2>2
  <2> HIDE DEF Unwrapped
  <2>4. View(log, Active) \in Seq(Unwrapped)
    BY <2>3, ViewIs
  <2> QED BY <2>4, FilteredIs DEF Filtered
<1>6. Draw(offset)
  BY <1>3
<1>7. visual'.cursor = Moved(up)
  <2>1. visual \in Visuals
    BY <1>1 DEF PaneInv
  <2> QED BY <1>3, <2>1 DEF Visuals
<1>8. Len(shown) - 1 - d = Moved(up)
  BY <1>4, <1>5
<1> HIDE DEF shown, offset, d
<1>9. scroll' = Frame(shown, offset).scroll
  BY <1>1, <1>4, <1>6, DrawIs
<1>10. OnScreen(shown, Frame(shown, offset).scroll, Len(shown) - 1 - d)
  BY <1>4, <1>5, UnwrappedOnScreen
<1> QED BY <1>1, <1>7, <1>8, <1>9, <1>10

(* v, j and k of a selection (app.rs, enter_visual_mode and                *)
(* visual_move_cursor): where no line wraps, a selection starts on a line  *)
(* that is on the pane, and the view follows its cursor, since the top     *)
(* drawn last, where the code scrolls, is less than a pane above the       *)
(* bottom.                                                                 *)
THEOREM CursorAlwaysOnScreen == Spec => CursorOnScreen
<1>1. ASSUME PaneInv, [Next]_vars, visual' # None, visual' # visual,
             \A i \in 1..Len(log) : log[i].rows = 1
      PROVE  OnScreen(Filtered', scroll', visual'.cursor)
  <2>1. CASE Visual
    BY <1>1, <2>1, StartOnScreen
  <2>2. CASE MoveCursor
    BY <1>1, <2>2, MovedOnScreen
  <2>3. Log \/ Tick \/ SelectHost \/ Mark \/ MarkAll \/ Focus \/ Scroll => visual' = visual
    BY DEF Log, Tick, SelectHost, Mark, MarkAll, Focus, Scroll
  <2>4. Jump \/ Search \/ NextMatch => visual' = visual
    BY DEF Jump, Search, NextMatch
  <2>5. Yank \/ Escape \/ Deploy => visual' = None \/ visual' = visual
    BY DEF Yank, Escape, Deploy
  <2>6. UNCHANGED vars => visual' = visual
    BY DEF vars
  <2> QED BY <1>1, <2>1, <2>2, <2>3, <2>4, <2>5, <2>6 DEF Next
<1>2. PaneInv /\ [Next]_vars =>
        [/\ visual' # None /\ visual' # visual
         /\ \A i \in 1..Len(log) : log[i].rows = 1
         => OnScreen(Filtered', scroll', visual'.cursor)]_vars
  BY <1>1
<1> QED BY <1>2, PaneAlways, PTL DEF Spec, CursorOnScreen
=============================================================================
