---------------------------- MODULE LsShowProofs ----------------------------
(***************************************************************************)
(* What ls.c computes, for all inputs: shellsort sorts, the listing has    *)
(* every file once at its place, and the conversions can be read back.     *)
(*                                                                         *)
(* The loops of the program are runs of Repeat.  What a loop does is proved*)
(* by induction on its rounds, in lemmas that take the set of states where *)
(* something holds instead of a predicate (RepeatKeeps, RepeatIndexed and  *)
(* RepeatEnds): the provers can instantiate a set.                         *)
(***************************************************************************)
EXTENDS LsShow, WellFoundedInduction, SequenceTheorems, FiniteSetTheorems, TLAPS

-----------------------------------------------------------------------------
(* Induction, and loops.                                                   *)

Below == OpToRel(<, Nat)

\* The order of the natural numbers is well-founded.
LEMMA BelowWF == IsWellFoundedOn(Below, Nat)
BY NatLessThanWellFounded DEF Below

\* It holds of the numbers that < relates.
LEMMA BelowDef == \A a, b \in Nat : a < b => <<a, b>> \in Below
BY DEF OpToRel, Below

\* Some naturals have a least one among them.
LEMMA MinNat ==
  ASSUME NEW S \in SUBSET Nat, S # {}
  PROVE  \E n \in S : \A m \in S : n <= m
<1>3. \E n \in S : \A m \in S : <<m, n>> \notin Below
  BY BelowWF, WFMin
<1>1. PICK n \in S : \A m \in S : <<m, n>> \notin Below BY <1>3
<1>4. \A m \in S : ~(m < n) BY <1>1, BelowDef
<1>5. n \in Nat /\ \A m \in S : m \in Nat OBVIOUS
<1>6. \A m \in S : n <= m BY <1>4, <1>5
<1> QED BY <1>6

\* Induction, for sets of numbers instead of predicates.
LEMMA FromMin ==
  ASSUME NEW S \in SUBSET Nat, 0 \in S, \A n \in S : n + 1 \in S
  PROVE  S = Nat
<1>1. SUFFICES ASSUME Nat \ S # {} PROVE FALSE OBVIOUS
<1>2. PICK n \in Nat \ S : \A m \in Nat \ S : n <= m BY <1>1, MinNat
<1>3. n # 0 BY <1>2
<1>4. n - 1 \in S BY <1>2, <1>3
<1>5. (n-1)+1 = n BY <1>2
<1> QED BY <1>4, <1>5, <1>2

IsRun(r, f, n, x) == r = [k \in 0..n |-> IF k = 0 THEN x ELSE f[r[k - 1]]]

\* A loop has a run of any length;
LEMMA RunExists ==
  ASSUME NEW f, NEW x
  PROVE  \A n \in Nat : \E r : IsRun(r, f, n, x)
<1> DEFINE S == {n \in Nat : \E r : IsRun(r, f, n, x)}
<1>1. 0 \in S
  <2>1. IsRun([k \in 0..0 |-> x], f, 0, x) BY DEF IsRun
  <2> QED BY <2>1
<1>2. ASSUME NEW n \in S PROVE n + 1 \in S
  <2>1. PICK r : IsRun(r, f, n, x) OBVIOUS
  <2> DEFINE q == [k \in 0..(n + 1) |-> IF k = n + 1 THEN f[r[n]] ELSE r[k]]
  <2>2. n \in Nat /\ n + 1 \in Nat OBVIOUS
  <2>3. \A k \in 0..n : q[k] = r[k] BY <2>2
  <2>4. \A k \in 0..n : r[k] = IF k = 0 THEN x ELSE f[r[k - 1]] BY <2>1 DEF IsRun
  <2>5. ASSUME NEW k \in 0..(n + 1) PROVE q[k] = IF k = 0 THEN x ELSE f[q[k - 1]]
    <3>1. CASE k = n + 1
      <4>1. q[n] = r[n] BY <2>2, <2>3
      <4>2. q[k] = f[r[n]] /\ k # 0 /\ k - 1 = n BY <3>1, <2>2
      <4> QED BY <4>1, <4>2
    <3>2. CASE k \in 0..n
      <4>1. q[k] = r[k] BY <3>2, <2>3
      <4>2. k # 0 => k - 1 \in 0..n BY <3>2, <2>2
      <4>3. k # 0 => q[k-1] = r[k-1] BY <4>2, <2>3
      <4> HIDE DEF q
      <4> QED BY <3>2, <4>1, <4>2, <4>3, <2>4
    <3>3. k = n + 1 \/ k \in 0..n BY <2>2
    <3> QED BY <3>1, <3>2, <3>3
  <2>6. IsRun(q, f, n + 1, x) 
     BY <2>5, Zenon DEF IsRun
  <2> QED BY <2>6, <2>2
<1>3. S = Nat BY <1>1, <1>2, FromMin
<1> QED BY <1>3

\* runs of one loop agree as far as both go;
LEMMA RunUnique ==
  ASSUME NEW f, NEW x, NEW n \in Nat, NEW m \in Nat, m <= n, NEW q, NEW r, IsRun(r,
         f, n, x), IsRun(q, f, m, x)
  PROVE  \A k \in 0..m : r[k] = q[k]
<1> DEFINE S == {k \in Nat : k <= m => r[k] = q[k]}
<1>0. \A k \in 0..n : r[k] = IF k = 0 THEN x ELSE f[r[k - 1]] BY Zenon DEF IsRun
<1>00. \A k \in 0..m : q[k] = IF k = 0 THEN x ELSE f[q[k - 1]] BY Zenon DEF IsRun
<1>1. 0 \in S BY <1>0, <1>00
<1>2. ASSUME NEW k \in S PROVE k + 1 \in S
  <2>1. k \in Nat /\ k + 1 # 0 /\ k + 1 \in Nat /\ (k+1) - 1 = k OBVIOUS
  <2>2. CASE k + 1 <= m
     BY <1>0, <1>00, <2>1, <2>2
  <2> QED BY <2>1, <2>2
<1>3. S = Nat BY <1>1, <1>2, FromMin
<1> QED BY <1>3

\* and Repeat is where a run ends.
LEMMA RepeatIsRun ==
  ASSUME NEW f, NEW x, NEW n \in Nat
  PROVE  \E r : IsRun(r, f, n, x) /\ Repeat(f, n, x) = r[n]
<1> DEFINE r == CHOOSE r : r = [k \in 0..n |-> IF k = 0 THEN x ELSE f[r[k - 1]]]
<1>1. Repeat(f, n, x) = r[n] BY DEF Repeat
<1>3. \E q : IsRun(q, f, n, x) BY RunExists
<1>2. IsRun(r, f, n, x) BY <1>3, Zenon DEF IsRun
<1> QED BY <1>1, <1>2

\* No round changes nothing.
LEMMA RepeatZero == ASSUME NEW f, NEW x PROVE Repeat(f, 0, x) = x
BY RepeatIsRun DEF IsRun

\* One more round is one more time the body.
LEMMA RepeatStep ==
  ASSUME NEW f, NEW x, NEW n \in Nat
  PROVE  Repeat(f, n + 1, x) = f[Repeat(f, n, x)]
<1>1. PICK q : IsRun(q, f, n, x) /\ Repeat(f, n, x) = q[n] BY RepeatIsRun
<1>2. PICK r : IsRun(r, f, n + 1, x) /\ Repeat(f, n + 1, x) = r[n + 1] BY RepeatIsRun
<1>3. r[n] = q[n] BY <1>1, <1>2, RunUnique
<1>4. r[n + 1] = f[r[n]] BY <1>2 DEF IsRun
<1> QED BY <1>1, <1>2, <1>3, <1>4

\* What the body preserves holds after the loop: P is the set of states
\* where it does.
LEMMA RepeatKeeps ==
  ASSUME NEW f, NEW P, NEW x \in P, \A v \in P : f[v] \in P
  PROVE  \A n \in Nat : Repeat(f, n, x) \in P
<1> DEFINE S == {n \in Nat : Repeat(f, n, x) \in P}
<1>1. 0 \in S BY RepeatZero
<1>2. ASSUME NEW k \in S PROVE k + 1 \in S BY RepeatStep
<1>3. S = Nat BY <1>1, <1>2, FromMin
<1> QED BY <1>3

\* The same when it is something else at each round.
LEMMA RepeatIndexed ==
  ASSUME NEW f, NEW n \in Nat, NEW Q, NEW x \in Q[0],
         \A k \in 0..(n - 1) : \A v \in Q[k] : f[v] \in Q[k + 1]
  PROVE  Repeat(f, n, x) \in Q[n]
<1> DEFINE S == {k \in Nat : k <= n => Repeat(f, k, x) \in Q[k]}
<1>1. 0 \in S BY RepeatZero
<1>2. ASSUME NEW k \in S PROVE k + 1 \in S
  <2>1. k \in Nat /\ k + 1 \in Nat OBVIOUS
  <2>2. CASE k + 1 <= n
    <3>1. k \in 0..(n - 1) /\ k <= n BY <2>1, <2>2
    <3>2. Repeat(f, k, x) \in Q[k] BY <3>1
    <3>3. Repeat(f, k + 1, x) = f[Repeat(f, k, x)] BY <2>1, RepeatStep
    <3>4. f[Repeat(f, k, x)] \in Q[k + 1] BY <3>1, <3>2
    <3> QED BY <2>1, <3>3, <3>4
  <2> QED BY <2>1, <2>2
<1>3. S = Nat BY <1>1, <1>2, FromMin
<1>4. n \in S BY <1>3
<1> QED BY <1>4

\* A number that falls at each round reaches 0, given enough rounds.
LEMMA RepeatEnds ==
  ASSUME NEW f, NEW P, NEW x \in P, \A v \in P : f[v] \in P,
         NEW rank, \A v \in P : rank[v] \in Nat,
         \A v \in P : rank[v] = 0 => rank[f[v]] = 0,
         \A v \in P : rank[v] > 0 => rank[f[v]] < rank[v],
         NEW n \in Nat, rank[x] <= n
  PROVE  rank[Repeat(f, n, x)] = 0
<1> DEFINE Q == [k \in 0..n |-> {v \in P : rank[v] <= n - k}]
<1>1. x \in Q[0] OBVIOUS
<1>2. ASSUME NEW k \in 0..(n - 1), NEW v \in Q[k] PROVE f[v] \in Q[k + 1]
  <2>1. v \in P /\ rank[v] <= n - k /\ k \in Nat /\ k + 1 \in 0..n BY <1>2
  <2>2. f[v] \in P /\ rank[v] \in Nat /\ rank[f[v]] \in Nat BY <2>1
  <2>3. rank[f[v]] <= n - (k + 1)
    <3>1. CASE rank[v] = 0 BY <3>1, <2>1, <2>2
    <3>2. CASE rank[v] > 0 BY <3>2, <2>1, <2>2
    <3> QED BY <3>1, <3>2, <2>2
  <2> QED BY <2>1, <2>2, <2>3
<1>3. Repeat(f, n, x) \in Q[n]
  <2> HIDE DEF Q
  <2> QED BY <1>1, <1>2, RepeatIndexed
<1>4. Repeat(f, n, x) \in P /\ rank[Repeat(f, n, x)] <= n - n BY <1>3
<1> QED BY <1>4

-----------------------------------------------------------------------------
(* shellsort.                                                              *)

Le(x, y, file, c) == Sortcmp(file[x], file[y], c) <= 0
Ranked(S, file, c) ==
  \A x, y, z \in S : /\ Le(x, y, file, c) \/ Le(y, x, file, c)
                     /\ Le(x, y, file, c) /\ Le(y, z, file, c) => Le(x, z, file, c)
OrderedTo(dn, m, file, c) == \A p, q \in 1..m : p < q => Le(dn[p], dn[q], file, c)
Once(dn) == \A p, q \in DOMAIN dn : dn[p] = dn[q] => p = q
Shuffles(dn) == {a \in Arrays(dn) : ToSet(a) = ToSet(dn) /\ (Once(dn) => Once(a))}

\* Arrays of the same nodes have the same arrays.
LEMMA SameArrays ==
  ASSUME NEW dn, NEW a \in Shuffles(dn)
  PROVE  Arrays(a) = Arrays(dn) /\ Shuffles(a) \subseteq Shuffles(dn) /\ DOMAIN a = DOMAIN dn
<1>1. DOMAIN a = DOMAIN dn /\ ToSet(a) = ToSet(dn) BY DEF Shuffles, Arrays
<1>2. Arrays(a) = Arrays(dn) BY <1>1 DEF Arrays
<1> QED BY <1>1, <1>2 DEF Shuffles

\* An array is one of its own shuffles,
LEMMA SelfShuffle ==
  ASSUME NEW dn, dn = [k \in DOMAIN dn |-> dn[k]] PROVE dn \in Shuffles(dn) 
<1>1. \A k \in DOMAIN dn : dn[k] \in ToSet(dn) BY DEF ToSet
<1>2. dn \in Arrays(dn) BY <1>1, Zenon DEF Arrays
<1> QED BY <1>2 DEF Shuffles

\* and a swap leads to another.
LEMMA SwapShuffles ==
  ASSUME NEW dn, NEW a \in Shuffles(dn), NEW j \in DOMAIN dn, NEW k \in DOMAIN dn
  PROVE  Swapped(a, j, k) \in Shuffles(dn)
<1> DEFINE b == Swapped(a, j, k)
<1>1. a \in Arrays(dn) /\ DOMAIN a = DOMAIN dn /\ ToSet(a) = ToSet(dn) BY DEF Shuffles, Arrays
<1>2. b \in Arrays(dn) BY <1>1 DEF Arrays, Swapped
<1>3. \A p \in DOMAIN dn : b[p] = IF p = k THEN a[j] ELSE IF p = j THEN a[k] ELSE a[p]
  BY <1>1 DEF Swapped
<1>4. DOMAIN b = DOMAIN dn BY <1>2 DEF Arrays
<1>5. ToSet(b) = ToSet(a)
  <2>1. \A v : v \in ToSet(b) <=> \E p \in DOMAIN dn : b[p] = v BY <1>4 DEF ToSet
  <2>2. \A v : v \in ToSet(a) <=> \E p \in DOMAIN dn : a[p] = v BY <1>1 DEF ToSet
  <2> HIDE DEF b
  <2> QED BY <2>1, <2>2, <1>3
<1>6. Once(dn) => Once(b)
  <2> HIDE DEF b
  <2>1. Once(dn) => Once(a) BY DEF Shuffles
  <2> QED BY <2>1, <1>1, <1>3, <1>4 DEF Once
<1> HIDE DEF b
<1>7. b \in Shuffles(dn) BY <1>1, <1>2, <1>5, <1>6 DEF Shuffles
<1> QED BY <1>7 DEF b

-----------------------------------------------------------------------------
SinkBody(dn, gap, file, c) ==
  [s \in [dn : Arrays(dn), j : Int] |->
        IF s.j < 1 \/ Sortcmp(file[s.dn[s.j]], file[s.dn[s.j + gap]], c) <= 0
          THEN [s EXCEPT !.j = 0]
          ELSE [dn |-> Swapped(s.dn, s.j, s.j + gap), j |-> s.j - gap]]

SinkStates(dn, gap, i) == [dn : Shuffles(dn), j : {k \in Int : k <= i - gap}]

SinkStep(s, t, gap, file, c) ==
  /\ s.j < 1 => t = [dn |-> s.dn, j |-> 0]
  /\ s.j >= 1 /\ Le(s.dn[s.j], s.dn[s.j + gap], file, c) => t = [dn |-> s.dn, j |-> 0]
  /\ s.j >= 1 /\ ~Le(s.dn[s.j], s.dn[s.j + gap], file, c) =>
       t = [dn |-> Swapped(s.dn, s.j, s.j + gap), j |-> s.j - gap]

\* A round of the innermost loop of shellsort.
LEMMA SinkRound ==
  ASSUME NEW dn, NEW n \in Nat, DOMAIN dn = 1..n, NEW gap \in Nat \ {0}, NEW i \in 1..n,
         gap < i, NEW file, NEW c, NEW s \in SinkStates(dn, gap, i)
  PROVE  /\ SinkBody(dn, gap, file, c)[s] \in SinkStates(dn, gap, i)
         /\ SinkStep(s, SinkBody(dn, gap, file, c)[s], gap, file, c)
<1> DEFINE t == SinkBody(dn, gap, file, c)[s]
<1>1. /\ s.dn \in Shuffles(dn) /\ s.j \in Int /\ s.j <= i - gap
      /\ s = [dn |-> s.dn, j |-> s.j]
  BY DEF SinkStates
<1>2. s \in [dn : Arrays(dn), j : Int] BY <1>1, Zenon DEF Shuffles
<1>3. t = IF s.j < 1 \/ Sortcmp(file[s.dn[s.j]], file[s.dn[s.j + gap]], c) <= 0
            THEN [s EXCEPT !.j = 0]
            ELSE [dn |-> Swapped(s.dn, s.j, s.j + gap), j |-> s.j - gap]
  BY <1>2, Zenon DEF SinkBody
<1>4. [s EXCEPT !.j = 0] = [dn |-> s.dn, j |-> 0] BY <1>1
<1>5. s.j >= 1 => ~(s.j < 1) BY <1>1
<1>6. s.j < 1 => t = [dn |-> s.dn, j |-> 0] BY <1>3, <1>4, Zenon
<1>7. s.j >= 1 /\ Le(s.dn[s.j], s.dn[s.j + gap], file, c) => t = [dn |-> s.dn, j |-> 0]
  BY <1>3, <1>4, Zenon DEF Le
<1>8. s.j >= 1 /\ ~Le(s.dn[s.j], s.dn[s.j + gap], file, c) =>
               t = [dn |-> Swapped(s.dn, s.j, s.j + gap), j |-> s.j - gap]
  BY <1>3, <1>5, Zenon DEF Le
<1> HIDE DEF t
<1>9. t \in SinkStates(dn, gap, i)
  <2>1. ASSUME t = [dn |-> s.dn, j |-> 0] PROVE t \in SinkStates(dn, gap, i)
    <3>1. 0 <= i - gap OBVIOUS
    <3> QED BY <2>1, <3>1, <1>1 DEF SinkStates
  <2>2. ASSUME s.j >= 1, t = [dn |-> Swapped(s.dn, s.j, s.j + gap), j |-> s.j - gap]
        PROVE  t \in SinkStates(dn, gap, i)
    <3>1. s.j \in DOMAIN dn /\ s.j + gap \in DOMAIN dn BY <2>2, <1>1
    <3>2. Swapped(s.dn, s.j, s.j + gap) \in Shuffles(dn) BY <3>1, <1>1, SwapShuffles
    <3>3. s.j - gap \in Int /\ s.j - gap <= i - gap BY <1>1
    <3> QED BY <2>2, <3>2, <3>3 DEF SinkStates
  <2>3. s.j < 1 \/ s.j >= 1 BY <1>1
  <2> QED BY <2>1, <2>2, <2>3, <1>6, <1>7, <1>8
<1> QED BY <1>6, <1>7, <1>8, <1>9, Zenon DEF t, SinkStep

\* That loop, by its body.
LEMMA SinkIs ==
  ASSUME NEW dn, NEW gap, NEW i, NEW file, NEW c
  PROVE  Sink(dn, gap, i, file, c)
         = Repeat(SinkBody(dn, gap, file, c), i, [dn |-> dn, j |-> i - gap]).dn
BY DEF Sink, SinkBody

\* It moves nodes about, and no more.
LEMMA SinkShuffles ==
  ASSUME NEW dn, NEW n \in Nat, DOMAIN dn = 1..n, dn \in Shuffles(dn), NEW gap \in Nat \ {0},
         NEW i \in 1..n, gap < i, NEW file, NEW c
  PROVE  Sink(dn, gap, i, file, c) \in Shuffles(dn)
<1> DEFINE f == SinkBody(dn, gap, file, c)
           P == SinkStates(dn, gap, i)
           x == [dn |-> dn, j |-> i - gap]
<1>1. x \in P BY DEF SinkStates
<1>2. ASSUME NEW v \in P PROVE f[v] \in P BY SinkRound
<1> HIDE DEF P, f, x
<1>3. Repeat(f, i, x) \in P BY <1>1, <1>2, RepeatKeeps
<1> QED BY <1>3, SinkIs DEF P, f, x, SinkStates

\* What the innermost loop has achieved when the gap is 1.
SunkTo(t, j, i, file, c) ==
  \A p, q \in 1..i : p < q /\ q # j + 1 => Le(t[p], t[q], file, c)

\* With a gap of 1 it puts the node at i where it belongs.
LEMMA SinkSorts ==
  ASSUME NEW dn, NEW n \in Nat, DOMAIN dn = 1..n, dn \in Shuffles(dn),
         NEW i \in 2..n, NEW file, NEW c, Ranked(ToSet(dn), file, c),
         OrderedTo(dn, i - 1, file, c)
  PROVE  OrderedTo(Sink(dn, 1, i, file, c), i, file, c)
<1> DEFINE f == SinkBody(dn, 1, file, c)
           P == {s \in SinkStates(dn, 1, i) : s.j >= 0 /\ SunkTo(s.dn, s.j, i, file, c)}
           x == [dn |-> dn, j |-> i - 1]
           rank == [s \in P |-> s.j]
<1>0. i \in 1..n /\ 1 < i OBVIOUS
<1>1. x \in P
  <2>1. x \in SinkStates(dn, 1, i) BY DEF SinkStates
  <2>2. SunkTo(dn, i - 1, i, file, c) BY DEF SunkTo, OrderedTo
  <2> QED BY <2>1, <2>2
<1>2. ASSUME NEW s \in P PROVE f[s] \in P /\ f[s].j <= s.j /\ (s.j > 0 => f[s].j < s.j)
  <2> DEFINE t == f[s]
             a == s.dn
  <2>1. s \in SinkStates(dn, 1, i) /\ s.j \in Int /\ s.j >= 0 /\ s.j <= i - 1
        /\ SunkTo(a, s.j, i, file, c) /\ a \in Shuffles(dn)
    BY DEF SinkStates
  <2>2. DOMAIN a = 1..n /\ \A p \in 1..n : a[p] \in ToSet(dn)
    BY <2>1 DEF Shuffles, Arrays
  <2>r. t \in SinkStates(dn, 1, i) /\ SinkStep(s, t, 1, file, c)
    BY <1>0, <2>1, SinkRound
  <2>s. /\ s.j < 1 => t = [dn |-> a, j |-> 0]
        /\ s.j >= 1 /\ Le(a[s.j], a[s.j + 1], file, c) => t = [dn |-> a, j |-> 0]
        /\ s.j >= 1 /\ ~Le(a[s.j], a[s.j + 1], file, c) =>
              t = [dn |-> Swapped(a, s.j, s.j + 1), j |-> s.j - 1]
    BY <2>r, Zenon DEF SinkStep
  <2>3. t \in SinkStates(dn, 1, i) BY <2>r
  <2>4. CASE s.j < 1
    <3>1. t = [dn |-> a, j |-> 0] BY <2>4, <2>s
    <3>2. s.j = 0 BY <2>1, <2>4
    <3>3. t.dn = a /\ t.j = 0
      <4> HIDE DEF t
      <4> QED BY <3>1
    <3> QED BY <3>3, <3>2, <2>1, <2>3
  <2>5. CASE s.j >= 1 /\ Le(a[s.j], a[s.j + 1], file, c)
    <3>1. t = [dn |-> a, j |-> 0] BY <2>5, <2>s
    <3>2. SunkTo(a, 0, i, file, c)
      <4> SUFFICES ASSUME NEW p \in 1..i, NEW q \in 1..i, p < q PROVE Le(a[p], a[q], file, c)
        BY DEF SunkTo
      <4>1. CASE q # s.j + 1 BY <4>1, <2>1 DEF SunkTo
      <4>2. CASE q = s.j + 1 /\ p = s.j BY <4>2, <2>5
      <4>3. CASE q = s.j + 1 /\ p < s.j
        <5>1. Le(a[p], a[s.j], file, c) BY <4>3, <2>1 DEF SunkTo
        <5>2. a[p] \in ToSet(dn) /\ a[q] \in ToSet(dn) /\ a[s.j] \in ToSet(dn)
          BY <2>1, <2>2, <2>5
        <5> QED BY <5>1, <5>2, <4>3, <2>5 DEF Ranked
      <4> QED BY <4>1, <4>2, <4>3, <2>1
    <3>3. t.dn = a /\ t.j = 0
      <4> HIDE DEF t
      <4> QED BY <3>1
    <3> QED BY <3>3, <3>2, <2>1, <2>3, <2>5
  <2>6. CASE s.j >= 1 /\ ~Le(a[s.j], a[s.j + 1], file, c)
    <3> DEFINE j == s.j
               b == Swapped(a, j, j + 1)
    <3>1. t = [dn |-> b, j |-> j - 1] BY <2>6, <2>s
    <3>2. j \in 1..n /\ j + 1 \in 1..n /\ j \in 1..i /\ j + 1 \in 1..i BY <2>1, <2>6
    <3>3. \A p \in 1..n : b[p] = IF p = j + 1 THEN a[j] ELSE IF p = j THEN a[j + 1] ELSE a[p]
      BY <2>2, <3>2 DEF Swapped
    <3>4. Le(a[j + 1], a[j], file, c)
      BY <2>2, <2>6, <3>2 DEF Ranked
    <3>5. SunkTo(b, j - 1, i, file, c)
      <4> SUFFICES ASSUME NEW p \in 1..i, NEW q \in 1..i, p < q, q # j PROVE Le(b[p], b[q], file, c)
        BY <3>2 DEF SunkTo
      <4> HIDE DEF b, j
      <4>0. p \in 1..n /\ q \in 1..n OBVIOUS
      <4>a. \A u, w \in 1..i : u < w /\ w # j + 1 => Le(a[u], a[w], file, c)
        BY <2>1 DEF SunkTo, j
      <4>1. CASE q = j + 1 /\ p = j BY <4>1, <4>0, <3>2, <3>3, <3>4
      <4>2. CASE q = j + 1 /\ p < j
        <5>1. b[p] = a[p] /\ b[q] = a[j] BY <4>2, <4>0, <3>2, <3>3
        <5>2. Le(a[p], a[j], file, c) BY <4>a, <4>2, <3>2
        <5> QED BY <5>1, <5>2
      <4>3. CASE q # j + 1
        <5>1. b[q] = a[q] BY <4>3, <4>0, <3>2, <3>3
        <5>2. \A u \in 1..i : u < q => Le(a[u], a[q], file, c) BY <4>a, <4>3
        <5>3. PICK u \in 1..i : b[p] = a[u] /\ u < q
          <6>1. CASE p = j + 1 BY <6>1, <3>2, <3>3
          <6>2. CASE p = j BY <6>2, <4>3, <3>2, <3>3
          <6>3. CASE p # j /\ p # j + 1 BY <6>3, <4>0, <3>2, <3>3
          <6> QED BY <6>1, <6>2, <6>3
        <5> QED BY <5>1, <5>2, <5>3
      <4> QED BY <4>1, <4>2, <4>3, <3>2
    <3>6. t.j = j - 1 /\ t.dn = b
      <4> HIDE DEF t, b
      <4> QED BY <3>1
    <3> HIDE DEF t, b
    <3> QED BY <3>5, <3>6, <3>2, <2>1, <2>3, <2>6 DEF t
  <2> QED BY <2>1, <2>4, <2>5, <2>6
<1>3. Repeat(f, i, x) \in P /\ Repeat(f, i, x).j = 0
  <2>1. \A s \in P : rank[s] = s.j /\ s.j \in Nat BY DEF SinkStates
  <2>2. x.j = i - 1 OBVIOUS
  <2> HIDE DEF P, f, x, rank
  <2>3. Repeat(f, i, x) \in P BY <1>1, <1>2, RepeatKeeps
  <2>4. rank[x] <= i BY <2>1, <2>2, <1>1
  <2>5. \A v \in P : f[v] \in P BY <1>2
  <2>6. \A v \in P : rank[v] \in Nat BY <2>1
  <2>7. \A v \in P : rank[v] = 0 => rank[f[v]] = 0 BY <2>1, <1>2
  <2>8. \A v \in P : rank[v] > 0 => rank[f[v]] < rank[v] BY <2>1, <1>2
  <2>9. i \in Nat OBVIOUS
  <2>10. rank[Repeat(f, i, x)] = 0 BY <1>1, <2>4, <2>5, <2>6, <2>7, <2>8, <2>9, RepeatEnds
  <2> QED BY <2>1, <2>3, <2>10
<1>4. SunkTo(Repeat(f, i, x).dn, 0, i, file, c) BY <1>3
<1>5. Sink(dn, 1, i, file, c) = Repeat(f, i, x).dn BY SinkIs
<1> HIDE DEF f, x
<1> QED BY <1>4, <1>5 DEF SunkTo, OrderedTo

-----------------------------------------------------------------------------
PassBody(dn, gap, file, c) ==
  [s \in [dn : Arrays(dn), i : Nat] |-> [dn |-> Sink(s.dn, gap, s.i, file, c), i |-> s.i + 1]]

\* The middle loop, by its body.
LEMMA PassIs ==
  ASSUME NEW dn, NEW gap, NEW file, NEW c
  PROVE  Pass(dn, gap, file, c)
         = Repeat(PassBody(dn, gap, file, c), Len(dn) - gap, [dn |-> dn, i |-> gap + 1]).dn
BY DEF Pass, PassBody

\* Shuffles of shuffles.
LEMMA ShuffleOf ==
  ASSUME NEW dn, NEW a \in Shuffles(dn)
  PROVE  /\ a \in Shuffles(a) /\ DOMAIN a = DOMAIN dn /\ ToSet(a) = ToSet(dn)
         /\ Shuffles(a) \subseteq Shuffles(dn)
<1>1. a \in Arrays(dn) BY DEF Shuffles
<1>2. a = [k \in DOMAIN a |-> a[k]] BY <1>1 DEF Arrays
<1>3. a \in Shuffles(a) BY <1>2, SelfShuffle
<1> QED BY <1>3, SameArrays DEF Shuffles

\* The states of the middle loop before round k, with and without an order.
PassStates(dn, gap, k, ordered, file, c) ==
  {s \in [dn : Shuffles(dn), i : Nat] :
     s.i = gap + 1 + k /\ (ordered => OrderedTo(s.dn, s.i - 1, file, c))}

\* A round of the middle loop.
LEMMA PassRound ==
  ASSUME NEW dn, NEW n \in Nat, DOMAIN dn = 1..n, NEW gap \in Nat \ {0}, NEW file, NEW c,
         NEW ordered \in BOOLEAN, ordered => gap = 1 /\ Ranked(ToSet(dn), file, c),
         NEW k \in 0..(n - gap - 1), NEW s \in PassStates(dn, gap, k, ordered, file, c)
  PROVE  PassBody(dn, gap, file, c)[s] \in PassStates(dn, gap, k + 1, ordered, file, c)
<1> DEFINE t == Sink(s.dn, gap, s.i, file, c)
<1>1. /\ s.dn \in Shuffles(dn) /\ s.i \in Nat /\ s.i = gap + 1 + k
      /\ ordered => OrderedTo(s.dn, s.i - 1, file, c)
  BY DEF PassStates
<1>2. s.i \in 1..n /\ gap < s.i BY <1>1
<1>3. /\ s.dn \in Shuffles(s.dn) /\ DOMAIN (s.dn) = 1..n /\ ToSet(s.dn) = ToSet(dn)
      /\ Shuffles(s.dn) \subseteq Shuffles(dn)
  BY <1>1, ShuffleOf
<1>4. t \in Shuffles(dn)
  <2>1. t \in Shuffles(s.dn) BY <1>2, <1>3, SinkShuffles
  <2> QED BY <1>3, <2>1
<1>5. ordered => OrderedTo(t, s.i, file, c)
  <2> SUFFICES ASSUME ordered PROVE OrderedTo(t, s.i, file, c) OBVIOUS
  <2>1. gap = 1 /\ Ranked(ToSet(s.dn), file, c) BY <1>3
  <2>2. s.i \in 2..n BY <1>1, <1>2, <2>1
  <2>3. OrderedTo(Sink(s.dn, 1, s.i, file, c), s.i, file, c)
    BY <1>1, <1>3, <2>1, <2>2, SinkSorts
  <2> QED BY <2>1, <2>3
<1>6. PassBody(dn, gap, file, c)[s] = [dn |-> t, i |-> s.i + 1]
  <2>1. s \in [dn : Arrays(dn), i : Nat] BY DEF PassStates, Shuffles
  <2> QED BY <2>1, Zenon DEF PassBody
<1> HIDE DEF t
<1>7. s.i + 1 = gap + 1 + (k + 1) /\ (s.i + 1) - 1 = s.i /\ s.i + 1 \in Nat BY <1>1
<1> QED BY <1>4, <1>5, <1>6, <1>7 DEF PassStates

\* All of them: with a gap of 1 the array is in order.
LEMMA PassEnd ==
  ASSUME NEW dn, NEW n \in Nat, DOMAIN dn = 1..n, Len(dn) = n, dn \in Shuffles(dn),
         NEW gap \in 1..n, NEW file, NEW c,
         NEW ordered \in BOOLEAN, ordered => gap = 1 /\ Ranked(ToSet(dn), file, c)
  PROVE  /\ Pass(dn, gap, file, c) \in Shuffles(dn)
         /\ ordered => OrderedTo(Pass(dn, gap, file, c), n, file, c)
<1> DEFINE f == PassBody(dn, gap, file, c)
           m == n - gap
           Q == [k \in 0..m |-> PassStates(dn, gap, k, ordered, file, c)]
           x == [dn |-> dn, i |-> gap + 1]
           y == Repeat(f, m, x)
<1>0. m \in Nat /\ gap \in Nat \ {0} OBVIOUS
<1>1. x \in Q[0]
  <2>1. ordered => OrderedTo(dn, 1, file, c) BY DEF OrderedTo
  <2>2. x \in PassStates(dn, gap, 0, ordered, file, c)
    <3>1. ordered => OrderedTo(dn, (gap + 1) - 1, file, c) BY <2>1
    <3>2. gap + 1 \in Nat /\ gap + 1 = gap + 1 + 0 OBVIOUS
    <3> QED BY <3>1, <3>2 DEF PassStates
  <2> QED BY <1>0, <2>2
<1>2. ASSUME NEW k \in 0..(m - 1), NEW v \in Q[k] PROVE f[v] \in Q[k + 1]
  <2>1. k \in 0..(n - gap - 1) /\ k \in 0..m /\ k + 1 \in 0..m OBVIOUS
  <2>2. v \in PassStates(dn, gap, k, ordered, file, c) BY <2>1
  <2>3. f[v] \in PassStates(dn, gap, k + 1, ordered, file, c) BY <1>0, <2>1, <2>2, PassRound
  <2> HIDE DEF f
  <2> QED BY <2>1, <2>3
<1>3. y \in PassStates(dn, gap, m, ordered, file, c)
  <2> HIDE DEF Q, f, x, m
  <2>1. y \in Q[m] BY <1>0, <1>1, <1>2, RepeatIndexed
  <2> QED BY <1>0, <2>1 DEF Q
<1>4. Pass(dn, gap, file, c) = y.dn BY PassIs
<1> HIDE DEF f, x, y
<1>5. y.dn \in Shuffles(dn) /\ y.i = gap + 1 + m BY <1>3 DEF PassStates
<1>6. ordered => OrderedTo(y.dn, y.i - 1, file, c) BY <1>3 DEF PassStates
<1>7. y.i - 1 = n BY <1>5
<1> QED BY <1>4, <1>5, <1>6, <1>7

-----------------------------------------------------------------------------
SortBody(dn, file, c) ==
  [s \in [dn : Arrays(dn), gap : Nat] |->
        IF s.gap = 0 THEN s ELSE [dn |-> Pass(s.dn, s.gap, file, c), gap |-> NextGap(s.gap)]]

\* The outermost loop, by its body.
LEMMA SortIs ==
  ASSUME NEW dn, NEW file, NEW c
  PROVE  Shellsort(dn, file, c)
         = Repeat(SortBody(dn, file, c), Len(dn), [dn |-> dn, gap |-> Len(dn) \div 2]).dn
BY DEF Shellsort, SortBody

\* shellsort returns the nodes that it is given, and none twice that was not
\* there twice.  Where sortcmp is a total order, they are in that order.
THEOREM ShellsortSorts ==
  ASSUME NEW S, NEW dn \in Seq(S), NEW file, NEW c
  PROVE  /\ Shellsort(dn, file, c) \in Shuffles(dn)
         /\ Ranked(ToSet(dn), file, c) => OrderedTo(Shellsort(dn, file, c), Len(dn), file, c)
<1> DEFINE n == Len(dn)
           ordered == Ranked(ToSet(dn), file, c)
           f == SortBody(dn, file, c)
           P == {s \in [dn : Shuffles(dn), gap : Nat] :
                   s.gap <= n /\ (ordered /\ s.gap = 0 => OrderedTo(s.dn, n, file, c))}
           x == [dn |-> dn, gap |-> n \div 2]
           rank == [s \in P |-> s.gap]
           y == Repeat(f, n, x)
<1>0. n \in Nat /\ DOMAIN dn = 1..n /\ dn = [k \in DOMAIN dn |-> dn[k]] OBVIOUS
<1>1. x \in P
  <2>1. dn \in Shuffles(dn) BY <1>0, SelfShuffle
  <2>2. n \div 2 \in Nat /\ n \div 2 <= n BY <1>0
  <2>3. n \div 2 = 0 => OrderedTo(dn, n, file, c)
    <3> SUFFICES ASSUME n \div 2 = 0 PROVE n <= 1 BY <1>0 DEF OrderedTo
    <3> QED BY <1>0
  <2> QED BY <2>1, <2>2, <2>3
<1>2. ASSUME NEW s \in P
      PROVE  /\ f[s] \in P
             /\ s.gap = 0 => f[s].gap = 0
             /\ s.gap > 0 => f[s].gap < s.gap
  <2>1. /\ s.dn \in Shuffles(dn) /\ s.gap \in Nat /\ s.gap <= n
        /\ s = [dn |-> s.dn, gap |-> s.gap]
    OBVIOUS
  <2>2. s \in [dn : Arrays(dn), gap : Nat] BY <2>1, Zenon DEF Shuffles
  <2>3. f[s] = IF s.gap = 0 THEN s
               ELSE [dn |-> Pass(s.dn, s.gap, file, c), gap |-> NextGap(s.gap)]
    BY <2>2, Zenon DEF SortBody
  <2>4. CASE s.gap = 0
    <3>1. f[s] = s BY <2>3, <2>4, Zenon
    <3>2. s.gap = 0 /\ ~(s.gap > 0) BY <2>4
    <3> HIDE DEF f, P
    <3> QED BY <3>1, <3>2, Zenon
  <2>5. CASE s.gap # 0
    <3> DEFINE t == Pass(s.dn, s.gap, file, c)
               g == NextGap(s.gap)
               one == ordered /\ s.gap = 1
    <3>1. f[s] = [dn |-> t, gap |-> g] BY <2>3, <2>5, Zenon
    <3>2. g \in Nat /\ g < s.gap /\ (g = 0 => s.gap = 1) BY <2>1, <2>5 DEF NextGap
    <3>3. /\ s.dn \in Shuffles(s.dn) /\ DOMAIN (s.dn) = 1..n /\ ToSet(s.dn) = ToSet(dn)
          /\ Shuffles(s.dn) \subseteq Shuffles(dn)
      BY <1>0, <2>1, ShuffleOf
    <3>4. Len(s.dn) = n
      <4>1. s.dn = [k \in 1..n |-> s.dn[k]] BY <3>3, <2>1 DEF Shuffles, Arrays
      <4> QED BY <4>1, <1>0, <3>3
    <3>5. one \in BOOLEAN /\ (one => s.gap = 1 /\ Ranked(ToSet(s.dn), file, c)) BY <3>3
    <3>6. s.gap \in 1..n BY <2>1, <2>5, <1>0
    <3>7. t \in Shuffles(s.dn) /\ (one => OrderedTo(t, n, file, c))
      <4> HIDE DEF n, one
      <4> QED BY <1>0, <3>3, <3>4, <3>5, <3>6, PassEnd
    <3>8. t \in Shuffles(dn) BY <3>3, <3>7
    <3>9. ordered /\ g = 0 => OrderedTo(t, n, file, c) BY <3>2, <3>7
    <3> HIDE DEF t, g, f, ordered
    <3> QED BY <3>1, <3>2, <3>8, <3>9, <2>1, <2>5
  <2> QED BY <2>4, <2>5
<1>3. y \in P /\ y.gap = 0
  <2>1. \A v \in P : rank[v] = v.gap /\ v.gap \in Nat OBVIOUS
  <2>2. x.gap <= n BY <1>0
  <2> HIDE DEF P, f, x, rank, n
  <2>3. \A v \in P : f[v] \in P BY <1>2
  <2>4. \A v \in P : rank[v] \in Nat BY <2>1
  <2>5. \A v \in P : rank[v] = 0 => rank[f[v]] = 0 BY <2>1, <2>3, <1>2
  <2>6. \A v \in P : rank[v] > 0 => rank[f[v]] < rank[v] BY <2>1, <2>3, <1>2
  <2>7. rank[x] <= n BY <1>1, <2>1, <2>2
  <2>0. n \in Nat BY <1>0
  <2>8. rank[y] = 0 BY <2>0, <1>1, <2>3, <2>4, <2>5, <2>6, <2>7, RepeatEnds
  <2>9. y \in P BY <1>0, <1>1, <2>3, RepeatKeeps
  <2> QED BY <2>1, <2>8, <2>9
<1>4. Shellsort(dn, file, c) = y.dn BY SortIs
<1> HIDE DEF y, ordered
<1> QED BY <1>3, <1>4 DEF ordered

-----------------------------------------------------------------------------
(* Arithmetic, and the size of the table.                                  *)

\* Division with a remainder.
LEMMA Quotient ==
  ASSUME NEW a \in Nat, NEW b \in Nat, b > 0
  PROVE  /\ a \div b \in Nat /\ a % b \in 0..(b - 1)
         /\ b * (a \div b) \in Nat /\ b * (a \div b) <= a /\ a < b * (a \div b) + b
         /\ a = b * (a \div b) + (a % b)
<1>1. a \div b \in Int /\ a % b \in 0..(b - 1) /\ a \div b >= 0 OBVIOUS
<1>2. b * (a \div b) \in Nat BY <1>1
<1>3. b * (a \div b) <= a /\ a < b * (a \div b) + b OBVIOUS
<1>4. a % b = a - b * (a \div b) OBVIOUS
<1> QED BY <1>1, <1>2, <1>3, <1>4

\* A number below the divisor is its own remainder.
LEMMA SmallRemainder ==
  ASSUME NEW a \in Nat, NEW b \in Nat, a < b
  PROVE  a % b = a
<1> DEFINE q == a \div b
<1>1. q \in Nat /\ b * q <= a /\ a = b * q + (a % b) BY Quotient
<1> HIDE DEF q
<1>2. q = 0
  <2>1. q >= 1 => b * q >= b BY <1>1
  <2>2. b * q \in Nat BY <1>1
  <2> QED BY <2>1, <2>2, <1>1
<1>3. b * q = 0 BY <1>2
<1>4. a % b \in 0..(b - 1) BY Quotient
<1> QED BY <1>1, <1>3, <1>4

\* One more, or less, of a factor.
LEMMA ByParts ==
  ASSUME NEW a \in Int, NEW t \in Int
  PROVE  (a + 1) * t = a * t + t /\ (a - 1) * t = a * t - t
OBVIOUS

\* In rows of t, whatever is in an earlier row comes first.
LEMMA RowsFollow ==
  ASSUME NEW a \in Nat, NEW b \in Nat, NEW t \in Nat, NEW u \in 0..(t - 1), NEW v \in Nat, a < b
  PROVE  a * t + u < b * t + v
<1>1. a + 1 <= b OBVIOUS
<1>2. (a + 1) * t <= b * t BY <1>1
<1> QED BY <1>2, ByParts

\* A factor that multiplies to less is less.
LEMMA Multiple ==
  ASSUME NEW a \in Nat, NEW b \in Nat, NEW t \in Nat, a * t < b * t
  PROVE  a < b
OBVIOUS

\* The larger of 1 and a number.
LEMMA MaxOfTwo ==
  ASSUME NEW b \in Int
  PROVE  Max({1, b}) = IF b >= 1 THEN b ELSE 1
<1> DEFINE m == IF b >= 1 THEN b ELSE 1
<1>1. m \in {1, b} /\ \A y \in {1, b} : m >= y OBVIOUS
<1>2. \A x \in {1, b} : (\A y \in {1, b} : x >= y) => x = m OBVIOUS
<1> HIDE DEF m
<1>3. Max({1, b}) \in {1, b} /\ \A y \in {1, b} : Max({1, b}) >= y BY <1>1 DEF Max
<1>4. Max({1, b}) = m BY <1>2, <1>3
<1> QED BY <1>4 DEF m

\* Some of finitely many numbers is the largest;
LEMMA SomeLargest ==
  ASSUME NEW n \in Nat \ {0}, NEW g, \A i \in 1..n : g[i] \in Int
  PROVE  \E m \in 1..n : \A i \in 1..n : g[m] >= g[i]
<1> DEFINE S == {k \in Nat : k = 0 \/ k > n \/ \E m \in 1..k : \A i \in 1..k : g[m] >= g[i]}
<1>1. 0 \in S OBVIOUS
<1>2. ASSUME NEW k \in S PROVE k + 1 \in S
  <2>1. k \in Nat /\ k + 1 \in Nat /\ k + 1 # 0 OBVIOUS
  <2>2. CASE k = 0
    <3>1. k + 1 = 1 /\ n >= 1 BY <2>2
    <3>2. \A i \in 1..1 : g[1] >= g[i] BY <3>1
    <3> QED BY <3>1, <3>2
  <2>3. CASE k > 0 /\ k + 1 <= n
    <3>1. PICK m \in 1..k : \A i \in 1..k : g[m] >= g[i] BY <2>3
    <3>2. g[m] \in Int /\ g[k + 1] \in Int /\ \A i \in 1..(k + 1) : g[i] \in Int BY <2>1, <2>3
    <3>3. CASE g[m] >= g[k + 1]
      <4>1. \A i \in 1..(k + 1) : g[m] >= g[i] BY <3>1, <3>3, <2>1
      <4>2. m \in 1..(k + 1) BY <2>1
      <4> QED BY <2>1, <4>1, <4>2
    <3>4. CASE g[k + 1] >= g[m]
      <4>1. \A i \in 1..(k + 1) : g[k + 1] >= g[i] BY <3>1, <3>2, <3>4, <2>1
      <4>2. k + 1 \in 1..(k + 1) BY <2>1
      <4> QED BY <2>1, <4>1, <4>2
    <3> QED BY <3>2, <3>3, <3>4
  <2>4. CASE k > n BY <2>4, <2>1
  <2>5. CASE k + 1 > n BY <2>5, <2>1
  <2> QED BY <2>1, <2>2, <2>3, <2>4, <2>5
<1>3. S = Nat BY <1>1, <1>2, FromMin
<1>4. n \in S BY <1>3
<1> QED BY <1>4

\* Max is that one.
LEMMA MaxOfAll ==
  ASSUME NEW n \in Nat \ {0}, NEW g, \A i \in 1..n : g[i] \in Int
  PROVE  /\ Max({g[i] : i \in 1..n}) \in {g[k] : k \in 1..n}
         /\ \A k \in 1..n : Max({g[i] : i \in 1..n}) >= g[k]
<1> DEFINE T == {g[i] : i \in 1..n}
<1>1. PICK m \in 1..n : \A i \in 1..n : g[m] >= g[i] BY SomeLargest
<1>2. \E x \in T : \A y \in T : x >= y
  <2>1. g[m] \in T /\ \A y \in T : g[m] >= y BY <1>1
  <2> QED BY <2>1
<1>3. Max(T) \in T /\ \A y \in T : Max(T) >= y BY <1>2 DEF Max
<1> QED BY <1>3
-----------------------------------------------------------------------------
\* Files as showfiles takes them.
Listable(d) == d.name \in DOMAIN NameLen /\ (d.dstat.type = "lnk" => d.dstat.size \in Nat)
Showable(files, c) ==
  /\ files # << >> /\ \A d \in ToSet(files) : Listable(d)
  /\ c.width \in Nat

Extra(c) == (IF "INO" \in c.list THEN 8 ELSE 0) + (IF "BLOCKS" \in c.list THEN 5 ELSE 0)

\* The column width leaves room for every file.
LEMMA WidthOf ==
  ASSUME NEW S, NEW files \in Seq(S), NEW c, Showable(files, c)
  PROVE  /\ ColumnWidth(files, c) \in Nat \ {0}
         /\ \A d \in ToSet(files) : NameLen[d.name] + Extra(c) <= ColumnWidth(files, c)
         /\ ColumnWidth(files, c) + 2 < ShortHalf
<1> DEFINE n == Len(files)
           g == [i \in 1..n |-> NameLen[files[i].name] + (IF "INO" \in c.list THEN 8 ELSE 0)
                              + (IF "BLOCKS" \in c.list THEN 5 ELSE 0)]
<1>1. n \in Nat \ {0} /\ DOMAIN files = 1..n BY DEF Showable
<1>2. \A i \in 1..n : files[i] \in ToSet(files) BY <1>1 DEF ToSet
<1>3. \A i \in 1..n : NameLen[files[i].name] \in Nat \ {0}
  BY <1>2, ShowConstants DEF Showable, Listable
<1>4. \A i \in 1..n : g[i] = NameLen[files[i].name] + Extra(c) /\ g[i] \in Nat \ {0}
  <2> SUFFICES ASSUME NEW i \in 1..n
               PROVE  g[i] = NameLen[files[i].name] + Extra(c) /\ g[i] \in Nat \ {0}
    OBVIOUS
  <2> DEFINE z == NameLen[files[i].name]
  <2>1. g[i] = z + (IF "INO" \in c.list THEN 8 ELSE 0) + (IF "BLOCKS" \in c.list THEN 5 ELSE 0)
    OBVIOUS
  <2>2. z \in Nat \ {0} BY <1>3
  <2> HIDE DEF z, g, n
  <2>3. g[i] = z + Extra(c) /\ g[i] \in Nat \ {0} BY <2>1, <2>2 DEF Extra
  <2> QED BY <2>3 DEF z
<1>9. \A i \in 1..n : g[i] + 2 < ShortHalf
  <2> SUFFICES ASSUME NEW i \in 1..n PROVE g[i] + 2 < ShortHalf OBVIOUS
  <2> DEFINE z == NameLen[files[i].name]
  <2>1. z \in Nat /\ z + 15 < ShortHalf /\ ShortHalf \in Nat
    BY <1>2, <1>3, ShowConstants, ShortNames DEF Showable, Listable
  <2>2. g[i] = z + Extra(c) BY <1>4
  <2>3. Extra(c) \in Nat /\ Extra(c) <= 13 BY DEF Extra
  <2> HIDE DEF z, g, n
  <2> QED BY <2>1, <2>2, <2>3
<1>5. ColumnWidth(files, c) = Max({g[i] : i \in 1..n})
  <2> DEFINE e(i) == NameLen[files[i].name] + (IF "INO" \in c.list THEN 8 ELSE 0)
                              + (IF "BLOCKS" \in c.list THEN 5 ELSE 0)
  <2>1. ColumnWidth(files, c) = Max({e(i) : i \in DOMAIN files}) BY DEF ColumnWidth
  <2>2. \A i \in 1..n : g[i] = e(i) OBVIOUS
  <2>3. DOMAIN files = 1..n BY <1>1
  <2> HIDE DEF e, g, n
  <2>4. {e(i) : i \in DOMAIN files} = {g[i] : i \in 1..n} BY <2>2, <2>3
  <2> QED BY <2>1, <2>4
<1> HIDE DEF g, n
<1>6. \A i \in 1..n : g[i] \in Int BY <1>4
<1>7. /\ Max({g[i] : i \in 1..n}) \in {g[k] : k \in 1..n}
      /\ \A k \in 1..n : Max({g[i] : i \in 1..n}) >= g[k]
  BY <1>1, <1>6, MaxOfAll
<1>8. \A d \in ToSet(files) : \E i \in 1..n : d = files[i] BY <1>1 DEF ToSet
<1> QED BY <1>4, <1>5, <1>7, <1>8, <1>9

\* There are columns and rows enough, in a terminal wide enough, and no
\* empty row.
LEMMA ColumnsAndRows ==
  ASSUME NEW S, NEW files \in Seq(S), NEW c, Showable(files, c)
  PROVE  /\ NCols(files, c) \in Nat \ {0}
         /\ NCols(files, c) = 1 \/ NCols(files, c) * (ColumnWidth(files, c) + 2) <= c.width
         /\ NRows(files, c) \in Nat \ {0}
         /\ Len(files) <= NRows(files, c) * NCols(files, c)
         /\ (NRows(files, c) - 1) * NCols(files, c) < Len(files)
<1> DEFINE W == ColumnWidth(files, c) + 2
           N == NCols(files, c)
           R == NRows(files, c)
           n == Len(files)
<1>1. W \in Nat /\ W > 0 BY WidthOf
<1>2. n \in Nat \ {0} BY DEF Showable
<1>3. c.width \div W \in Nat /\ W * (c.width \div W) <= c.width BY <1>1, Quotient DEF Showable
<1>4. N \in Nat \ {0} /\ (N = 1 \/ N = c.width \div W)
  <2>1. CASE c.style \in {"LONG", "SINGLE"} BY <2>1 DEF NCols
  <2>2. CASE c.style \notin {"LONG", "SINGLE"}
    <3>1. N = Max({1, c.width \div W}) BY <2>2 DEF NCols, COLUMN_GAP
    <3>2. c.width \div W \in Int BY <1>3
    <3>3. N = IF c.width \div W >= 1 THEN c.width \div W ELSE 1 BY <3>1, <3>2, MaxOfTwo
    <3> HIDE DEF N, W
    <3> QED BY <3>3, <1>3
  <2> QED BY <2>1, <2>2
<1>5. R = (n + N - 1) \div N BY DEF NRows
<1> HIDE DEF W, N, R, n
<1>6. N = 1 \/ N * W <= c.width
  <2>1. CASE N = c.width \div W
    <3>1. N * W = W * N BY <1>1, <1>4
    <3> QED BY <2>1, <3>1, <1>3
  <2> QED BY <2>1, <1>4
<1>7. n + N - 1 \in Nat /\ N \in Nat /\ N > 0 BY <1>2, <1>4
<1>8. R \in Nat /\ N * R \in Nat /\ N * R <= n + N - 1 /\ n + N - 1 < N * R + N
  BY <1>5, <1>7, Quotient
<1>9. R # 0
  <2>1. R = 0 => N * R = 0 BY <1>7
  <2> QED BY <2>1, <1>8, <1>2, <1>7
<1>10. R * N = N * R /\ (R - 1) * N = N * R - N BY <1>7, <1>8
<1> QED BY <1>2, <1>4, <1>6, <1>7, <1>8, <1>9, <1>10 DEF W, N, R, n

-----------------------------------------------------------------------------
(* The fields of a file, and its place on a line.                          *)

Counts(dn, c) == Columns([f \in Fields |-> Counted(f, dn, c)], c)
Prints(dn, c) == Columns([f \in Fields |-> Printed(f, dn, c)], c)

\* The widths of fields,
LEMMA FieldWidths ==
  ASSUME NEW dn, Listable(dn), NEW c, NEW f \in Fields
  PROVE  Counted(f, dn, c) \in Nat /\ Printed(f, dn, c) \in Nat
<1>1. NameLen[dn.name] \in Nat BY ShowConstants DEF Listable
<1>2. dn.dstat.type = "lnk" => dn.dstat.size + 4 \in Nat BY DEF Listable
<1>3. Counted(f, dn, c) \in Nat
  <2>1. CASE f = "INO" BY <2>1 DEF Counted
  <2>2. CASE f = "BLOCKS" BY <2>2 DEF Counted
  <2>3. CASE f \in {"MODEBITS", "NLINKS", "SIZE"} BY <2>3 DEF Counted
  <2>4. CASE f \in {"ID_NAME", "ID_NUMERIC"} BY <2>4 DEF Counted
  <2>5. CASE f \in {"DATE_TIME", "FULLTIME"} BY <2>5 DEF Counted
  <2>6. CASE f = "FILENAME" BY <2>6, <1>1 DEF Counted
  <2>7. CASE f = "SYMLINK" BY <2>7, <1>2 DEF Counted
  <2>8. CASE f = "FILETYPE" BY <2>8 DEF Counted
  <2> QED BY <2>1, <2>2, <2>3, <2>4, <2>5, <2>6, <2>7, <2>8 DEF Fields
<1> QED BY <1>3 DEF Printed

\* their sum,
LEMMA ColumnsNat ==
  ASSUME NEW w, \A f \in Fields : w[f] \in Nat, NEW c
  PROVE  Columns(w, c) \in Nat
<1> DEFINE W(f) == IF f \in c.list THEN w[f] ELSE 0
<1>1. \A f \in Fields : W(f) \in Nat OBVIOUS
<1>2. Columns(w, c) = W("INO") + W("BLOCKS") + W("MODEBITS") + W("NLINKS") + W("ID_NAME")
        + W("ID_NUMERIC") + W("SIZE") + W("DATE_TIME") + W("FULLTIME") + W("FILENAME")
        + W("SYMLINK") + W("FILETYPE")
  BY DEF Columns
<1> HIDE DEF W
<1> QED BY <1>1, <1>2 DEF Fields

\* and what list_single counts and prints are numbers.
LEMMA CountsNat ==
  ASSUME NEW dn, Listable(dn), NEW c
  PROVE  Counts(dn, c) \in Nat /\ Prints(dn, c) \in Nat
<1> DEFINE v == [f \in Fields |-> Counted(f, dn, c)]
           w == [f \in Fields |-> Printed(f, dn, c)]
<1>1. \A f \in Fields : v[f] \in Nat /\ w[f] \in Nat BY FieldWidths
<1> HIDE DEF v, w
<1>2. Columns(v, c) \in Nat /\ Columns(w, c) \in Nat BY <1>1, ColumnsNat
<1> QED BY <1>2 DEF v, w, Counts, Prints

\* Names, with or without inode numbers and type marks.
Plain(c) == "FILENAME" \in c.list /\ c.list \subseteq {"INO", "FILENAME", "FILETYPE", "EXEC"}

\* The sum of the fields when only names are printed,
LEMMA PlainColumns ==
  ASSUME NEW w, NEW c, Plain(c), \A f \in Fields : w[f] \in Nat
  PROVE  Columns(w, c) = (IF "INO" \in c.list THEN w["INO"] ELSE 0) + w["FILENAME"]
                         + (IF "FILETYPE" \in c.list THEN w["FILETYPE"] ELSE 0)
<1> DEFINE W(f) == IF f \in c.list THEN w[f] ELSE 0
<1>1. \A f \in Fields : W(f) \in Nat OBVIOUS
<1>2. Columns(w, c) = W("INO") + W("BLOCKS") + W("MODEBITS") + W("NLINKS") + W("ID_NAME")
        + W("ID_NUMERIC") + W("SIZE") + W("DATE_TIME") + W("FULLTIME") + W("FILENAME")
        + W("SYMLINK") + W("FILETYPE")
  BY DEF Columns
<1>3. \A f \in Fields \ {"INO", "FILENAME", "FILETYPE"} : W(f) = 0 BY DEF Plain, Fields
<1>4. W("FILENAME") = w["FILENAME"] BY DEF Plain
<1> HIDE DEF W
<1>5. W("BLOCKS") = 0 /\ W("MODEBITS") = 0 /\ W("NLINKS") = 0 /\ W("ID_NAME") = 0
      /\ W("ID_NUMERIC") = 0 /\ W("SIZE") = 0 /\ W("DATE_TIME") = 0 /\ W("FULLTIME") = 0
      /\ W("SYMLINK") = 0
  BY <1>3 DEF Fields
<1>6. W("INO") \in Nat /\ W("FILENAME") \in Nat /\ W("FILETYPE") \in Nat BY <1>1 DEF Fields
<1>7. Columns(w, c) = W("INO") + W("FILENAME") + W("FILETYPE") BY <1>2, <1>5, <1>6
<1> QED BY <1>4, <1>7 DEF W

\* which fits the column; what is counted is what is printed.
LEMMA PlainCounts ==
  ASSUME NEW dn, Listable(dn), NEW c, Plain(c)
  PROVE  /\ NameLen[dn.name] + Extra(c) <= Counts(dn, c)
         /\ Counts(dn, c) <= NameLen[dn.name] + Extra(c) + 1
         /\ Prints(dn, c) = Counts(dn, c)
<1> DEFINE v == [f \in Fields |-> Counted(f, dn, c)]
           w == [f \in Fields |-> Printed(f, dn, c)]
           z == NameLen[dn.name]
<1>1. \A f \in Fields : v[f] \in Nat /\ w[f] \in Nat BY FieldWidths
<1>2. v["INO"] = 8 /\ v["FILENAME"] = z /\ v["FILETYPE"] \in {0, 1} BY DEF Fields, Counted
<1>3. w["INO"] = v["INO"] /\ w["FILENAME"] = v["FILENAME"] /\ w["FILETYPE"] = v["FILETYPE"]
  BY DEF Fields, Printed
<1>4. z \in Nat BY ShowConstants DEF Listable
<1>5. Extra(c) = IF "INO" \in c.list THEN 8 ELSE 0 BY DEF Extra, Plain
<1>6. Counts(dn, c) = Columns(v, c) /\ Prints(dn, c) = Columns(w, c) BY DEF Counts, Prints
<1> HIDE DEF v, w, z
<1>7. Columns(v, c) = (IF "INO" \in c.list THEN v["INO"] ELSE 0) + v["FILENAME"]
                      + (IF "FILETYPE" \in c.list THEN v["FILETYPE"] ELSE 0)
  BY <1>1, PlainColumns
<1>8. Columns(w, c) = (IF "INO" \in c.list THEN w["INO"] ELSE 0) + w["FILENAME"]
                      + (IF "FILETYPE" \in c.list THEN w["FILETYPE"] ELSE 0)
  BY <1>1, PlainColumns
<1>9. Columns(w, c) = Columns(v, c) BY <1>3, <1>7, <1>8
<1>10. z + Extra(c) <= Columns(v, c) /\ Columns(v, c) <= z + Extra(c) + 1
  <2> DEFINE a == IF "INO" \in c.list THEN 8 ELSE 0
             b == IF "FILETYPE" \in c.list THEN v["FILETYPE"] ELSE 0
  <2>1. Columns(v, c) = a + z + b BY <1>7, <1>2
  <2>2. a \in Nat /\ b \in {0, 1} BY <1>2
  <2>3. Extra(c) = a BY <1>5
  <2> HIDE DEF a, b
  <2> QED BY <2>1, <2>2, <2>3, <1>4
<1> QED BY <1>6, <1>9, <1>10 DEF z
-----------------------------------------------------------------------------
\* The places of a row follow each other in the array.
LEMMA Indices ==
  ASSUME NEW S, NEW files \in Seq(S), NEW c, Showable(files, c), NEW row \in Nat, NEW j \in Nat
  PROVE  /\ Index(files, c, row, j) \in Nat
         /\ \A i \in 0..(j - 1) : /\ Index(files, c, row, i) \in Nat
                                 /\ Index(files, c, row, i) < Index(files, c, row, j)
<1> DEFINE R == NRows(files, c)
           N == NCols(files, c)
<1>1. R \in Nat \ {0} /\ N \in Nat \ {0} BY ColumnsAndRows
<1>2. Index(files, c, row, j) = IF "ROWS" \in c.disp THEN row * N + j ELSE j * R + row BY DEF Index
<1>3. \A i : Index(files, c, row, i) = IF "ROWS" \in c.disp THEN row * N + i ELSE i * R + row
  BY DEF Index
<1> HIDE DEF R, N
<1>4. row * N \in Nat /\ j * R \in Nat BY <1>1
<1>5. Index(files, c, row, j) \in Nat BY <1>2, <1>4
<1>6. ASSUME NEW i \in 0..(j - 1) 
      PROVE  /\ Index(files, c, row, i) \in Nat
             /\ Index(files, c, row, i) < Index(files, c, row, j)
  <2>1. i \in Nat /\ i < j OBVIOUS
  <2>2. i * R < j * R /\ i * R \in Nat BY <1>1, <2>1
  <2> QED BY <1>2, <1>3, <1>4, <2>1, <2>2
<1> QED BY <1>5, <1>6

\* Place, in one piece.
Gap(line) == IF line.column = 0 THEN 0 ELSE Max({1, line.nexttab - line.column})

\* Numbers of 16 bits.
LEMMA ShortTyped ==
  ASSUME NEW d \in Nat
  PROVE  ToUshort(d) \in Nat /\ ToShort(d) \in Int
<1> DEFINE S == 2 * ShortHalf
<1>1. S \in Nat /\ S > 0 /\ ShortHalf \in Nat BY ShowConstants
<1>2. ToUshort(d) = d % S /\ ToShort(d) = ((d + ShortHalf) % S) - ShortHalf BY DEF ToUshort, ToShort
<1> HIDE DEF S
<1>3. d + ShortHalf \in Nat BY <1>1
<1>4. d % S \in Nat /\ (d + ShortHalf) % S \in Nat BY <1>1, <1>3, Quotient
<1> QED BY <1>1, <1>2, <1>4

\* A number below half of what a short holds is one.
LEMMA ShortExact ==
  ASSUME NEW d \in Nat, d < ShortHalf
  PROVE  ToUshort(d) = d /\ ToShort(d) = d
<1> DEFINE S == 2 * ShortHalf
           e == d + ShortHalf
<1>1. S \in Nat /\ S > 0 /\ ShortHalf \in Nat BY ShowConstants
<1>2. ToUshort(d) = d % S /\ ToShort(d) = (e % S) - ShortHalf BY DEF ToUshort, ToShort
<1>3. d < S /\ e < S /\ e \in Nat BY <1>1
<1> HIDE DEF S, e
<1>4. d % S = d /\ e % S = e BY <1>1, <1>3, SmallRemainder
<1> QED BY <1>1, <1>2, <1>4 DEF e

\* Place, by its parts.
LEMMA PlaceIs ==
  ASSUME NEW line, NEW dn, NEW width, NEW c
  PROVE  Place(line, dn, width, c) =
         [column |-> ToUshort(ToUshort(line.column + Gap(line)) + Counts(dn, c)),
          nexttab |-> ToShort(ToUshort(line.column + Gap(line)) + width + 2),
          real |-> line.real + Gap(line) + Prints(dn, c),
          cells |-> Append(line.cells, [dn |-> dn, at |-> line.real + Gap(line),
                                        to |-> line.real + Gap(line) + Prints(dn, c)])]
BY DEF Place, Gap, Counts, Prints, COLUMN_GAP

\* The gap that nexttabstop prints is a number.
LEMMA GapNat ==
  ASSUME NEW line, line.column \in Nat, line.nexttab \in Int
  PROVE  /\ Gap(line) \in Nat
         /\ line.column # 0 => Gap(line) = IF line.nexttab - line.column >= 1
                                             THEN line.nexttab - line.column ELSE 1
<1> DEFINE b == line.nexttab - line.column
<1>1. b \in Int OBVIOUS
<1>2. Max({1, b}) = IF b >= 1 THEN b ELSE 1 BY <1>1, MaxOfTwo
<1>3. Gap(line) = IF line.column = 0 THEN 0 ELSE Max({1, b}) BY DEF Gap
<1> HIDE DEF b
<1> QED BY <1>1, <1>2, <1>3 DEF b

\* Place leaves a line.
LEMMA PlaceTyped ==
  ASSUME NEW files, NEW line \in LinesOf(files), NEW dn \in ToSet(files), Listable(dn), NEW c,
         NEW width \in Nat
  PROVE  Place(line, dn, width, c) \in LinesOf(files)
<1>1. /\ line.column \in Nat /\ line.nexttab \in Int /\ line.real \in Nat
      /\ line.cells \in Seq([dn : ToSet(files), at : Nat, to : Nat])
  BY DEF LinesOf
<1>2. Gap(line) \in Nat BY <1>1, GapNat
<1>3. Counts(dn, c) \in Nat /\ Prints(dn, c) \in Nat BY CountsNat
<1>4. line.real + Gap(line) \in Nat /\ line.real + Gap(line) + Prints(dn, c) \in Nat
  BY <1>1, <1>2, <1>3
<1>5. [dn |-> dn, at |-> line.real + Gap(line), to |-> line.real + Gap(line) + Prints(dn, c)]
      \in [dn : ToSet(files), at : Nat, to : Nat]
  BY <1>4
<1>6. Append(line.cells, [dn |-> dn, at |-> line.real + Gap(line),
                          to |-> line.real + Gap(line) + Prints(dn, c)])
      \in Seq([dn : ToSet(files), at : Nat, to : Nat])
  BY <1>1, <1>5
<1> DEFINE u == ToUshort(line.column + Gap(line))
<1>7. line.column + Gap(line) \in Nat BY <1>1, <1>2
<1>8. u \in Nat BY <1>7, ShortTyped
<1>9. Place(line, dn, width, c) =
      [column |-> ToUshort(u + Counts(dn, c)), nexttab |-> ToShort(u + width + 2),
       real |-> line.real + Gap(line) + Prints(dn, c),
       cells |-> Append(line.cells, [dn |-> dn, at |-> line.real + Gap(line),
                                     to |-> line.real + Gap(line) + Prints(dn, c)])]
  BY PlaceIs
<1> HIDE DEF u
<1>10. u + Counts(dn, c) \in Nat /\ u + width + 2 \in Nat BY <1>3, <1>8
<1>11. ToUshort(u + Counts(dn, c)) \in Nat /\ ToShort(u + width + 2) \in Int BY <1>10, ShortTyped
<1> QED BY <1>4, <1>6, <1>9, <1>11 DEF LinesOf

-----------------------------------------------------------------------------
(* A row.                                                                  *)

\* A row after k of its columns: it has the files of those columns that have one,
Filled(cells, k, files, c, row) ==
  /\ Len(cells) <= k
  /\ \A j \in 0..(k - 1) : Index(files, c, row, j) < Len(files) <=> j < Len(cells)
  /\ \A j \in 1..Len(cells) : cells[j].dn = files[Index(files, c, row, j - 1) + 1]

\* and when only names are printed it stands at the next column.
Reached(line, W) ==
  /\ line.real = line.column
  /\ Len(line.cells) = 0 => line.column = 0
  /\ Len(line.cells) > 0 => /\ line.nexttab = Len(line.cells) * W
                            /\ (Len(line.cells) - 1) * W < line.column
                            /\ line.column < Len(line.cells) * W
CellsAligned(cells, W) ==
  \A j \in 1..Len(cells) : cells[j].at = (j - 1) * W /\ cells[j].to < j * W

\* An element appended to a sequence.
LEMMA Appended ==
  ASSUME NEW T, NEW s \in Seq(T), NEW x \in T
  PROVE  /\ Len(Append(s, x)) = Len(s) + 1 /\ Append(s, x)[Len(s) + 1] = x
         /\ \A j \in 1..Len(s) : Append(s, x)[j] = s[j]
BY AppendProperties

\* Products with one more, or less.
LEMMA Products ==
  ASSUME NEW L \in Nat, NEW W \in Nat
  PROVE  /\ L * W \in Nat /\ (L + 1) * W = L * W + W /\ (L - 1) * W = L * W - W
         /\ ((L + 1) - 1) * W = L * W /\ (L = 0 => L * W = 0)
         /\ (L > 0 => (L - 1) * W \in Nat)
OBVIOUS

\* One more column of a row.
LEMMA Fill ==
  ASSUME NEW S, NEW files \in Seq(S), NEW c, Showable(files, c), NEW row \in Nat, NEW k \in Nat,
         NEW T, NEW cells \in Seq(T), Filled(cells, k, files, c, row), NEW x \in T
  PROVE  /\ Index(files, c, row, k) < Len(files) /\ x.dn = files[Index(files, c, row, k) + 1]
              => Len(cells) = k /\ Filled(Append(cells, x), k + 1, files, c, row)
         /\ ~(Index(files, c, row, k) < Len(files)) => Filled(cells, k + 1, files, c, row)
<1> DEFINE L == Len(cells)
           n == Len(files)
           At(j) == Index(files, c, row, j)
<1>1. L \in Nat /\ n \in Nat OBVIOUS
<1>2. /\ L <= k
      /\ \A j \in 0..(k - 1) : At(j) < n <=> j < L
      /\ \A j \in 1..L : cells[j].dn = files[At(j - 1) + 1]
  BY DEF Filled
<1>3. At(k) \in Nat /\ \A i \in 0..(k - 1) : At(i) \in Nat /\ At(i) < At(k) BY Indices
<1>4. ASSUME At(k) < n, x.dn = files[At(k) + 1]
      PROVE  L = k /\ Filled(Append(cells, x), k + 1, files, c, row)
  <2> DEFINE d == Append(cells, x)
  <2>1. L = k
    <3>1. CASE k = 0 BY <3>1, <1>1, <1>2
    <3>2. CASE k > 0
      <4>1. k - 1 \in 0..(k - 1) BY <3>2
      <4>2. At(k - 1) < n BY <4>1, <1>1, <1>3, <1>4
      <4> QED BY <4>1, <4>2, <1>1, <1>2
    <3> QED BY <3>1, <3>2
  <2>2. Len(d) = k + 1 /\ d[k + 1] = x /\ \A j \in 1..k : d[j] = cells[j] BY <2>1, Appended
  <2>3. ASSUME NEW j \in 0..k PROVE At(j) < n <=> j < k + 1
    <3>1. CASE j = k BY <3>1, <1>4
    <3>2. CASE j \in 0..(k - 1) BY <3>2, <1>2, <2>1
    <3> QED BY <3>1, <3>2
  <2>4. ASSUME NEW j \in 1..(k + 1) PROVE d[j].dn = files[At(j - 1) + 1]
    <3>1. CASE j = k + 1
      <4>1. j - 1 = k BY <3>1
      <4> QED BY <3>1, <4>1, <2>2, <1>4
    <3>2. CASE j \in 1..k BY <3>2, <1>2, <2>1, <2>2
    <3>3. j = k + 1 \/ j \in 1..k OBVIOUS
    <3> QED BY <3>1, <3>2, <3>3
  <2>5. (k + 1) - 1 = k OBVIOUS
  <2> HIDE DEF d
  <2> QED BY <2>1, <2>2, <2>3, <2>4, <2>5 DEF Filled, d
<1>5. ASSUME ~(At(k) < n) PROVE Filled(cells, k + 1, files, c, row)
  <2>1. ASSUME NEW j \in 0..k PROVE At(j) < n <=> j < L
    <3>1. CASE j = k BY <3>1, <1>1, <1>2, <1>5
    <3>2. CASE j \in 0..(k - 1) BY <3>2, <1>2
    <3> QED BY <3>1, <3>2
  <2>2. (k + 1) - 1 = k /\ L <= k + 1 BY <1>1, <1>2
  <2> QED BY ONLY <1>2, <2>1, <2>2 DEF Filled
<1> QED BY <1>4, <1>5

\* One more name on a line that is aligned.
LEMMA Advance ==
  ASSUME NEW files, NEW line \in LinesOf(files), NEW dn \in ToSet(files), Listable(dn), NEW c,
         Plain(c), NEW width \in Nat, NameLen[dn.name] + Extra(c) <= width,
         Reached(line, width + 2), CellsAligned(line.cells, width + 2),
         (Len(line.cells) + 1) * (width + 2) < ShortHalf
  PROVE  LET next == Place(line, dn, width, c)
         IN Reached(next, width + 2) /\ CellsAligned(next.cells, width + 2)
<1> DEFINE W == width + 2
           L == Len(line.cells)
           m == Counts(dn, c)
           T == [dn : ToSet(files), at : Nat, to : Nat]
           x == [dn |-> dn, at |-> line.real + Gap(line), to |-> line.real + Gap(line) + m]
           next == Place(line, dn, width, c)
<1>1. /\ line.column \in Nat /\ line.nexttab \in Int /\ line.real \in Nat
      /\ line.cells \in Seq(T) /\ L \in Nat
  BY DEF LinesOf
<1>2. m \in Nat /\ 0 < m /\ m < W
  <2>1. NameLen[dn.name] \in Nat \ {0} BY ShowConstants DEF Listable
  <2>2. Extra(c) \in Nat BY DEF Extra
  <2>3. m \in Nat /\ NameLen[dn.name] + Extra(c) <= m /\ m <= NameLen[dn.name] + Extra(c) + 1
    BY CountsNat, PlainCounts
  <2> HIDE DEF m
  <2> QED BY <2>1, <2>2, <2>3
<1>3. next = [column |-> ToUshort(ToUshort(line.column + Gap(line)) + m),
              nexttab |-> ToShort(ToUshort(line.column + Gap(line)) + width + 2),
              real |-> line.real + Gap(line) + m, cells |-> Append(line.cells, x)]
  BY PlaceIs, PlainCounts
<1>4. line.column + Gap(line) = L * W /\ Gap(line) \in Nat
  <2> DEFINE y == L * W
  <2>1. W \in Nat OBVIOUS
  <2>2. L = 0 => line.column = 0 BY DEF Reached
  <2>3. L > 0 => line.nexttab = y /\ (L - 1) * W < line.column /\ line.column < y
    BY DEF Reached
  <2> HIDE DEF L, W
  <2>4. y \in Nat /\ (L - 1) * W = y - W /\ (L = 0 => y = 0) /\ (L > 0 => (L - 1) * W \in Nat)
    BY <1>1, <2>1, Products
  <2> HIDE DEF y
  <2>5. CASE L = 0
    <3>1. Gap(line) = 0 BY <2>2, <2>5 DEF Gap
    <3>2. line.column + Gap(line) = y BY <2>2, <2>4, <2>5, <3>1
    <3> QED BY <3>1, <3>2 DEF y
  <2>6. CASE L > 0
    <3>1. line.column # 0 /\ line.nexttab - line.column >= 1 BY <1>1, <2>1, <2>3, <2>4, <2>6
    <3>2. Gap(line) \in Nat /\ Gap(line) = line.nexttab - line.column BY <3>1, <1>1, GapNat
    <3>3. line.column + Gap(line) = y BY <1>1, <2>3, <2>4, <2>6, <3>2
    <3> QED BY <3>2, <3>3 DEF y
  <2>7. L = 0 \/ L > 0 BY <1>1
  <2> QED BY <2>5, <2>6, <2>7
<1>5. line.real = line.column BY DEF Reached
<1>13. x \in T BY <1>1, <1>2, <1>4
<1>14. (L + 1) * W < ShortHalf OBVIOUS
<1> HIDE DEF m, next, L
<1>6. W \in Nat /\ L * W \in Nat /\ (L + 1) * W = L * W + W /\ ((L + 1) - 1) * W = L * W
      /\ (L + 1) - 1 = L
  <2>1. W \in Nat OBVIOUS
  <2> HIDE DEF W
  <2> QED BY <1>1, <2>1, Products
<1> HIDE DEF W
<1>15. ToUshort(L * W) = L * W /\ ToUshort(L * W + m) = L * W + m /\ ToShort(L * W + W) = L * W + W
  <2>1. ShortHalf \in Nat BY ShowConstants
  <2> DEFINE y == L * W
  <2>2. y \in Nat /\ y + W < ShortHalf BY <1>6, <1>14
  <2> HIDE DEF y
  <2>3. y < ShortHalf /\ y + m < ShortHalf /\ y + m \in Nat /\ y + W \in Nat
    BY <2>1, <2>2, <1>2, <1>6
  <2>4. ToUshort(y) = y /\ ToUshort(y + m) = y + m /\ ToShort(y + W) = y + W
    BY <2>2, <2>3, ShortExact
  <2> QED BY <2>4 DEF y
<1>7. /\ next.column = L * W + m /\ next.real = L * W + m
      /\ next.cells = Append(line.cells, x)
      /\ x.at = L * W /\ x.to = L * W + m
  BY <1>1, <1>3, <1>4, <1>5, <1>15
<1>8. next.nexttab = L * W + W
  <2>1. next.nexttab = ToShort(L * W + width + 2) BY <1>3, <1>4, <1>15
  <2>2. L * W + width + 2 = L * W + W
    <3> DEFINE y == L * W
    <3>1. y \in Nat BY <1>6
    <3> HIDE DEF y
    <3>2. y + width + 2 = y + W BY <3>1 DEF W
    <3> QED BY <3>2 DEF y
  <2> QED BY <2>1, <2>2, <1>15
<1> HIDE DEF x
<1>9. Len(next.cells) = L + 1 /\ next.cells[L + 1] = x
      /\ \A j \in 1..L : next.cells[j] = line.cells[j]
  <2>1. Len(line.cells) = L BY DEF L
  <2>2. x \in T BY <1>13
  <2> HIDE DEF T
  <2> QED BY <1>1, <1>7, <2>1, <2>2, Appended
<1>10. Reached(next, W)
  <2>1. L + 1 > 0 /\ L + 1 # 0 BY <1>1
  <2>2. next.nexttab = (L + 1) * W BY <1>6, <1>8
  <2>3. ((L + 1) - 1) * W < next.column /\ next.column < (L + 1) * W BY <1>2, <1>6, <1>7
  <2>4. next.real = next.column BY <1>7
  <2>5. Len(next.cells) = L + 1 BY <1>9
  <2> HIDE DEF W, L
  <2> QED BY ONLY <2>1, <2>2, <2>3, <2>4, <2>5 DEF Reached
<1>11. CellsAligned(next.cells, W)
  <2>1. ASSUME NEW j \in 1..(L + 1) PROVE next.cells[j].at = (j - 1) * W /\ next.cells[j].to < j * W
    <3>1. CASE j = L + 1
      <4>1. next.cells[j] = x BY <3>1, <1>9
      <4>2. (j - 1) * W = L * W /\ j * W = L * W + W BY <3>1, <1>6
      <4>3. L * W + m < L * W + W BY <1>2, <1>6
      <4> QED BY <4>1, <4>2, <4>3, <1>7
    <3>2. CASE j \in 1..L BY <3>2, <1>9 DEF CellsAligned, L, W
    <3> QED BY <3>1, <3>2, <1>1
  <2> QED BY <2>1, <1>9 DEF CellsAligned
<1> QED BY <1>10, <1>11 DEF next, W

CellsOf(files) == [dn : ToSet(files), at : Nat, to : Nat]
RowBody(files, c, row) ==
  [s \in [line : LinesOf(files), nc : Nat] |->
     [nc |-> s.nc + 1,
      line |-> IF Index(files, c, row, s.nc) < Len(files)
                 THEN Place(s.line, files[Index(files, c, row, s.nc) + 1],
                            ColumnWidth(files, c), c)
                 ELSE s.line]]

\* The loop over the columns, by its body.
LEMMA RowIs ==
  ASSUME NEW files, NEW c, NEW row
  PROVE  Row(files, c, row)
         = Repeat(RowBody(files, c, row), NCols(files, c), [nc |-> 0, line |-> NewLine]).line.cells
BY DEF Row, RowBody

RowGoes(line, k, files, c, row) ==
  /\ Filled(line.cells, k, files, c, row)
  /\ Plain(c) /\ c.width < ShortHalf =>
                 /\ Reached(line, ColumnWidth(files, c) + 2)
                 /\ CellsAligned(line.cells, ColumnWidth(files, c) + 2)

\* One of its rounds.
LEMMA RowRound ==
  ASSUME NEW S, NEW files \in Seq(S), NEW c, Showable(files, c), NEW row \in Nat, NEW k \in Nat,
         k < NCols(files, c), NEW line \in LinesOf(files), RowGoes(line, k, files, c, row)
  PROVE  LET next == RowBody(files, c, row)[[nc |-> k, line |-> line]]
         IN /\ next = [nc |-> k + 1, line |-> next.line] /\ next.line \in LinesOf(files)
            /\ RowGoes(next.line, k + 1, files, c, row)
<1> DEFINE s == [nc |-> k, line |-> line]
           at == Index(files, c, row, k)
           W == ColumnWidth(files, c)
           there == at < Len(files)
           new == IF there THEN Place(line, files[at + 1], W, c) ELSE line
<1>1. RowBody(files, c, row)[s] = [nc |-> k + 1, line |-> new] BY DEF RowBody
<1>2. at \in Nat BY Indices
<1>3. /\ W \in Nat /\ W + 2 < ShortHalf
      /\ \A d \in ToSet(files) : NameLen[d.name] + Extra(c) <= W
  BY WidthOf
<1>4. line.cells \in Seq(CellsOf(files)) BY DEF LinesOf, CellsOf
<1> HIDE DEF W
<1>5. CASE there
  <2> DEFINE dn == files[at + 1]
             x == [dn |-> dn, at |-> line.real + Gap(line),
                   to |-> line.real + Gap(line) + Prints(dn, c)]
  <2>1. dn \in ToSet(files)
    <3>1. at + 1 \in 1..Len(files) BY <1>2, <1>5
    <3> QED BY <3>1 DEF ToSet
  <2>2. Listable(dn) /\ NameLen[dn.name] + Extra(c) <= W BY <1>3, <2>1 DEF Showable
  <2>3. new = Place(line, dn, W, c) BY <1>5
  <2> HIDE DEF dn
  <2>4. new \in LinesOf(files) BY <1>3, <2>1, <2>2, <2>3, PlaceTyped
  <2>5. new.cells = Append(line.cells, x) BY <2>3, PlaceIs
  <2>6. x \in CellsOf(files)
    <3>1. line.real \in Nat /\ line.column \in Nat /\ line.nexttab \in Int BY DEF LinesOf
    <3>2. Gap(line) \in Nat BY <3>1, GapNat
    <3>3. Prints(dn, c) \in Nat BY <2>2, CountsNat
    <3> QED BY <2>1, <3>1, <3>2, <3>3 DEF CellsOf
  <2>7. x.dn = dn OBVIOUS
  <2> HIDE DEF x, new
  <2>8. Filled(new.cells, k + 1, files, c, row)
    <3>1. Filled(line.cells, k, files, c, row) BY DEF RowGoes
    <3>2. Filled(Append(line.cells, x), k + 1, files, c, row)
      BY <1>4, <1>5, <2>6, <2>7, <3>1, Fill DEF dn
    <3> QED BY <3>2, <2>5
  <2>9. ASSUME Plain(c), c.width < ShortHalf
        PROVE  Reached(new, W + 2) /\ CellsAligned(new.cells, W + 2)
    <3>1. Reached(line, W + 2) /\ CellsAligned(line.cells, W + 2) BY <2>9 DEF RowGoes, W
    <3>2. (Len(line.cells) + 1) * (W + 2) < ShortHalf
      <4> DEFINE N == NCols(files, c)
                 L == Len(line.cells)
                 V == W + 2
      <4>1. N \in Nat \ {0} /\ (N = 1 \/ N * V <= c.width) BY ColumnsAndRows DEF W
      <4>2. L \in Nat /\ L <= k BY <1>4 DEF RowGoes, Filled
      <4>3. V \in Nat /\ V < ShortHalf BY <2>9, <1>3 DEF W
      <4>4. c.width \in Nat /\ ShortHalf \in Nat BY ShowConstants DEF Showable
      <4> HIDE DEF N, L, V
      <4>5. L + 1 \in Nat /\ L + 1 <= N BY <4>1, <4>2 DEF N
      <4>6. CASE N = 1
        <5>1. L + 1 = 1 BY <4>2, <4>5, <4>6
        <5>2. (L + 1) * V = V BY <5>1, <4>3
        <5> QED BY <5>2, <4>3 DEF L, V
      <4>7. CASE N * V <= c.width
        <5>1. (L + 1) * V <= N * V /\ N * V \in Nat /\ (L + 1) * V \in Nat BY <4>1, <4>3, <4>5
        <5>2. (L + 1) * V < ShortHalf BY <5>1, <4>4, <4>7, <2>9
        <5> QED BY <5>2 DEF L, V
      <4> QED BY <4>1, <4>6, <4>7
    <3> QED BY <1>3, <2>1, <2>2, <2>3, <2>9, <3>1, <3>2, Advance
  <2> QED BY <1>1, <2>4, <2>8, <2>9 DEF RowGoes, W
<1>6. CASE ~there
  <2>1. new = line BY <1>6
  <2> HIDE DEF new
  <2>2. Filled(line.cells, k, files, c, row) BY DEF RowGoes
  <2>3. Filled(line.cells, k + 1, files, c, row)
    <3>1. CASE \E x : x \in CellsOf(files) BY <3>1, <1>4, <1>6, <2>2, Fill
    <3>2. 0 \in Nat /\ files # << >> /\ Len(files) \in Nat \ {0} BY DEF Showable
    <3>3. files[1] \in ToSet(files) BY <3>2 DEF ToSet
    <3>4. [dn |-> files[1], at |-> 0, to |-> 0] \in CellsOf(files) BY <3>2, <3>3 DEF CellsOf
    <3> QED BY <3>1, <3>4
  <2> QED BY <1>1, <2>1, <2>3 DEF RowGoes
<1> QED BY <1>5, <1>6

\* A row of the listing.
LEMMA RowHas ==
  ASSUME NEW S, NEW files \in Seq(S), NEW c, Showable(files, c), NEW row \in Nat
  PROVE  /\ Row(files, c, row) \in Seq(CellsOf(files))
         /\ Filled(Row(files, c, row), NCols(files, c), files, c, row)
         /\ Plain(c) /\ c.width < ShortHalf
              => CellsAligned(Row(files, c, row), ColumnWidth(files, c) + 2)
<1> DEFINE f == RowBody(files, c, row)
           N == NCols(files, c)
           Q == [k \in 0..N |-> {s \in [nc : {k}, line : LinesOf(files)] :
                                   RowGoes(s.line, k, files, c, row)}]
           x == [nc |-> 0, line |-> NewLine]
<1>1. N \in Nat BY ColumnsAndRows
<1>2. x \in Q[0]
  <2>1. NewLine \in LinesOf(files) BY DEF NewLine, LinesOf
  <2>2. NewLine.cells = << >> /\ NewLine.real = 0 /\ NewLine.column = 0 BY DEF NewLine
  <2>3. Filled(<< >>, 0, files, c, row) BY DEF Filled
  <2>4. RowGoes(NewLine, 0, files, c, row) BY <2>2, <2>3 DEF RowGoes, Reached, CellsAligned
  <2>5. 0 \in 0..N BY <1>1
  <2> HIDE DEF N
  <2> QED BY <2>1, <2>4, <2>5
<1>3. ASSUME NEW k \in 0..(N - 1), NEW v \in Q[k] PROVE f[v] \in Q[k + 1]
  <2> HIDE DEF f, N
  <2>1. k \in Nat /\ k \in 0..N /\ k + 1 \in 0..N /\ k < N BY <1>1
  <2>2. /\ v = [nc |-> k, line |-> v.line] /\ v.line \in LinesOf(files)
        /\ RowGoes(v.line, k, files, c, row)
    BY <2>1
  <2>3. /\ f[v] = [nc |-> k + 1, line |-> f[v].line] /\ f[v].line \in LinesOf(files)
        /\ RowGoes(f[v].line, k + 1, files, c, row)
    BY <2>1, <2>2, RowRound DEF f, N
  <2>4. f[v] \in [nc : {k + 1}, line : LinesOf(files)] BY <2>3
  <2> QED BY <2>1, <2>3, <2>4
<1> HIDE DEF f, Q, x, N
<1>4. Repeat(f, N, x) \in Q[N] BY <1>1, <1>2, <1>3, RepeatIndexed
<1>5. N \in 0..N BY <1>1
<1>6. /\ Repeat(f, N, x).line \in LinesOf(files)
      /\ RowGoes(Repeat(f, N, x).line, N, files, c, row)
  BY <1>4, <1>5 DEF Q
<1>7. Row(files, c, row) = Repeat(f, N, x).line.cells BY RowIs DEF f, N, x
<1> QED BY <1>6, <1>7 DEF RowGoes, LinesOf, CellsOf, N

-----------------------------------------------------------------------------
(* The whole listing.                                                      *)

\* The index of the file in row r and column n of the listing, from 1.
PlaceOf(files, c, r, n) == Index(files, c, r - 1, n - 1) + 1

\* What a position of the listing has.
LEMMA CellHas ==
  ASSUME NEW S, NEW files \in Seq(S), NEW c, Showable(files, c),
         NEW r \in DOMAIN Showfiles(files, c), NEW n \in DOMAIN Showfiles(files, c)[r]
  PROVE  /\ r \in 1..NRows(files, c) /\ n \in 1..NCols(files, c)
         /\ PlaceOf(files, c, r, n) \in 1..Len(files)
         /\ Showfiles(files, c)[r][n].dn = files[PlaceOf(files, c, r, n)]
         /\ Showfiles(files, c)[r][n] \in CellsOf(files)
<1> DEFINE cells == Row(files, c, r - 1)
           N == NCols(files, c)
           at == Index(files, c, r - 1, n - 1)
<1>1. r \in 1..NRows(files, c) /\ Showfiles(files, c)[r] = cells BY DEF Showfiles
<1>2. r - 1 \in Nat BY <1>1, ColumnsAndRows
<1>3. cells \in Seq(CellsOf(files)) /\ Filled(cells, N, files, c, r - 1) BY <1>2, RowHas
<1>4. n \in 1..Len(cells) /\ Len(cells) \in Nat BY <1>1, <1>3
<1>5. N \in Nat BY ColumnsAndRows
<1>6. Len(cells) <= N BY <1>3 DEF Filled
<1>7. n - 1 \in Nat /\ n - 1 \in 0..(N - 1) /\ n - 1 < Len(cells) /\ n \in 1..N
  <2> HIDE DEF cells, N
  <2> QED BY <1>4, <1>5, <1>6
<1>8. at < Len(files) BY <1>3, <1>7 DEF Filled
<1>9. at \in Nat BY <1>2, <1>7, Indices
<1>10. cells[n].dn = files[at + 1] BY <1>3, <1>4 DEF Filled
<1>11. cells[n] \in CellsOf(files) BY <1>3, <1>4
<1>12. at + 1 \in 1..Len(files)
  <2> HIDE DEF at
  <2> QED BY <1>8, <1>9
<1> QED BY <1>1, <1>7, <1>10, <1>11, <1>12 DEF PlaceOf

\* The grid of showfiles has a place for every file, for any number of files and
\* either direction.
THEOREM EveryFilePlaced ==
  ASSUME NEW S, NEW files \in Seq(S), NEW c, Showable(files, c), NEW i \in DOMAIN files
  PROVE  \E r \in DOMAIN Showfiles(files, c) : \E n \in DOMAIN Showfiles(files, c)[r] :
           Showfiles(files, c)[r][n].dn = files[i]
<1> DEFINE N == NCols(files, c)
           R == NRows(files, c)
           m == Len(files)
<1>1. N \in Nat \ {0} /\ R \in Nat \ {0} /\ m <= R * N BY ColumnsAndRows
<1>2. i \in 1..m /\ m \in Nat OBVIOUS
<1>3. \E row \in 0..(R - 1), nc \in 0..(N - 1) : Index(files, c, row, nc) = i - 1
  <2>1. \A row, nc : Index(files, c, row, nc)
                     = IF "ROWS" \in c.disp THEN row * N + nc ELSE nc * R + row
    BY DEF Index
  <2> HIDE DEF N, R, m
  <2>2. i - 1 \in Nat /\ i - 1 < m BY <1>2
  <2>3. CASE "ROWS" \in c.disp
    <3> DEFINE row == (i - 1) \div N
               nc == (i - 1) % N
    <3>0. N \in Nat /\ N > 0 BY <1>1
    <3>1. /\ row \in Nat /\ nc \in 0..(N - 1) /\ N * row \in Nat /\ N * row <= i - 1
          /\ i - 1 = N * row + nc
      BY <2>2, <3>0, Quotient
    <3> HIDE DEF row, nc
    <3>2. row * N = N * row BY <1>1, <3>1
    <3>3. row * N < R * N
      <4>1. R * N \in Int BY <1>1
      <4> QED BY <1>1, <1>2, <2>2, <3>1, <3>2, <4>1
    <3>4. row < R BY <1>1, <3>1, <3>3, Multiple
    <3>7. row \in Nat /\ R \in Nat BY <1>1, <3>1
    <3>5. row \in 0..(R - 1) BY ONLY <3>4, <3>7
    <3>6. Index(files, c, row, nc) = i - 1 BY <2>1, <2>3, <3>1, <3>2
    <3> QED BY <3>1, <3>5, <3>6
  <2>4. CASE "ROWS" \notin c.disp
    <3> DEFINE nc == (i - 1) \div R
               row == (i - 1) % R
    <3>0. R \in Nat /\ R > 0 BY <1>1
    <3>1. /\ nc \in Nat /\ row \in 0..(R - 1) /\ R * nc \in Nat /\ R * nc <= i - 1
          /\ i - 1 = R * nc + row
      BY <2>2, <3>0, Quotient
    <3> HIDE DEF row, nc
    <3>2. nc * R = R * nc BY <1>1, <3>1
    <3>3. nc * R < N * R
      <4>1. R * N \in Int /\ R * N = N * R BY <1>1
      <4> QED BY <1>1, <1>2, <2>2, <3>1, <3>2, <4>1
    <3>4. nc < N BY <1>1, <3>1, <3>3, Multiple
    <3>7. nc \in Nat /\ N \in Nat BY <1>1, <3>1
    <3>5. nc \in 0..(N - 1) BY ONLY <3>4, <3>7
    <3>6. Index(files, c, row, nc) = i - 1 BY <2>1, <2>4, <3>1, <3>2
    <3> QED BY <3>1, <3>5, <3>6
  <2> QED BY <2>3, <2>4
<1>4. PICK row \in 0..(R - 1), nc \in 0..(N - 1) : Index(files, c, row, nc) = i - 1 BY <1>3
<1> DEFINE cells == Row(files, c, row)
<1>5. row \in Nat /\ row + 1 \in 1..R /\ nc \in Nat /\ (row + 1) - 1 = row /\ (nc + 1) - 1 = nc
  <2> HIDE DEF N, R
  <2> QED BY <1>1
<1>6. cells \in Seq(CellsOf(files)) /\ Filled(cells, N, files, c, row) BY <1>5, RowHas
<1>7. nc < Len(cells)
  <2>1. i - 1 < m BY <1>2
  <2> QED BY <1>4, <1>6, <2>1 DEF Filled
<1>8. nc + 1 \in 1..Len(cells) BY <1>5, <1>6, <1>7
<1>9. cells[nc + 1].dn = files[(i - 1) + 1] BY <1>4, <1>5, <1>6, <1>8 DEF Filled
<1>10. (i - 1) + 1 = i BY <1>2
<1>11. DOMAIN Showfiles(files, c) = 1..R /\ Showfiles(files, c)[row + 1] = cells
  BY <1>5 DEF Showfiles
<1>12. DOMAIN cells = 1..Len(cells) BY <1>6
<1> HIDE DEF cells, R
<1> QED BY <1>5, <1>8, <1>9, <1>10, <1>11, <1>12

\* Down the columns, or across the rows.
Earlier(c, r, n, s, m) ==
  IF "ROWS" \in c.disp THEN r < s \/ (r = s /\ n < m) ELSE n < m \/ (n = m /\ r < s)

\* Reading order is the order of the array.
LEMMA EarlierPlaced ==
  ASSUME NEW S, NEW files \in Seq(S), NEW c, Showable(files, c),
         NEW r \in DOMAIN Showfiles(files, c), NEW n \in DOMAIN Showfiles(files, c)[r],
         NEW s \in DOMAIN Showfiles(files, c), NEW m \in DOMAIN Showfiles(files, c)[s],
         Earlier(c, r, n, s, m)
  PROVE  PlaceOf(files, c, r, n) < PlaceOf(files, c, s, m)
<1> DEFINE N == NCols(files, c)
           R == NRows(files, c)
           a == r - 1
           b == n - 1
           d == s - 1
           e == m - 1
<1>1. N \in Nat \ {0} /\ R \in Nat \ {0} BY ColumnsAndRows
<1>2. r \in 1..R /\ n \in 1..N /\ s \in 1..R /\ m \in 1..N BY CellHas
<1>3. \A row, nc : Index(files, c, row, nc)
                   = IF "ROWS" \in c.disp THEN row * N + nc ELSE nc * R + row
  BY DEF Index
<1> HIDE DEF N, R
<1>4. a \in 0..(R - 1) /\ b \in 0..(N - 1) /\ d \in 0..(R - 1) /\ e \in 0..(N - 1)
  BY <1>1, <1>2
<1>5. IF "ROWS" \in c.disp THEN a < d \/ (a = d /\ b < e) ELSE b < e \/ (b = e /\ a < d)
  BY <1>1, <1>2 DEF Earlier
<1> HIDE DEF a, b, d, e
<1>6. a \in Nat /\ b \in Nat /\ d \in Nat /\ e \in Nat BY <1>1, <1>4
<1>7. Index(files, c, a, b) < Index(files, c, d, e)
  <2>1. CASE "ROWS" \in c.disp
    <3>1. a < d => a * N + b < d * N + e BY <1>1, <1>4, <1>6, RowsFollow
    <3>2. a = d /\ b < e => a * N + b < d * N + e
      <4>1. a * N \in Nat BY <1>1, <1>6
      <4> QED BY <4>1, <1>6
    <3> QED BY <2>1, <1>3, <1>5, <3>1, <3>2
  <2>2. CASE "ROWS" \notin c.disp
    <3>1. b < e => b * R + a < e * R + d BY <1>1, <1>4, <1>6, RowsFollow
    <3>2. b = e /\ a < d => b * R + a < e * R + d
      <4>1. b * R \in Nat BY <1>1, <1>6
      <4> QED BY <4>1, <1>6
    <3> QED BY <2>2, <1>3, <1>5, <3>1, <3>2
  <2> QED BY <2>1, <2>2
<1>8. Index(files, c, a, b) \in Nat /\ Index(files, c, d, e) \in Nat BY <1>6, Indices
<1> QED BY <1>7, <1>8 DEF a, b, d, e, PlaceOf

\* Columns of names line up, do not overlap, and fit the terminal if there are several.
LEMMA CellsInColumns ==
  ASSUME NEW S, NEW files \in Seq(S), NEW c, Showable(files, c), Plain(c), c.width < ShortHalf,
         NEW r \in DOMAIN Showfiles(files, c), NEW n \in DOMAIN Showfiles(files, c)[r]
  PROVE  LET W == ColumnWidth(files, c) + 2
             cell == Showfiles(files, c)[r][n]
         IN /\ W \in Nat /\ n \in Nat \ {0}
            /\ cell.at = (n - 1) * W /\ cell.to < n * W
            /\ cell.to \in Nat
            /\ n > 1 => cell.to <= c.width
<1> DEFINE W == ColumnWidth(files, c) + 2
           N == NCols(files, c)
           cells == Row(files, c, r - 1)
<1>1. W \in Nat BY WidthOf
<1>2. N \in Nat \ {0} /\ (N = 1 \/ N * W <= c.width) BY ColumnsAndRows
<1>3. r \in 1..NRows(files, c) /\ n \in 1..N /\ Showfiles(files, c)[r][n] \in CellsOf(files)
  BY CellHas
<1>4. Showfiles(files, c)[r] = cells BY <1>3 DEF Showfiles
<1>5. r - 1 \in Nat BY <1>3, ColumnsAndRows
<1>6. cells \in Seq(CellsOf(files)) /\ CellsAligned(cells, W) BY <1>5, RowHas
<1>7. n \in 1..Len(cells) BY <1>4, <1>6
<1>8. cells[n].at = (n - 1) * W /\ cells[n].to < n * W BY <1>6, <1>7 DEF CellsAligned
<1>9. cells[n].to \in Nat BY <1>3, <1>4 DEF CellsOf
<1>10. c.width \in Nat BY DEF Showable
<1>11. n > 1 => cells[n].to <= c.width
  <2> DEFINE to == cells[n].to
  <2>1. to \in Nat /\ to < n * W BY <1>8, <1>9
  <2> HIDE DEF N, W, cells, to
  <2>2. SUFFICES ASSUME n > 1 PROVE to <= c.width BY DEF to
  <2>3. n \in Nat /\ n <= N /\ N \in Nat /\ N # 1 BY <1>2, <1>3, <2>2
  <2>4. n * W \in Nat /\ N * W \in Nat /\ n * W <= N * W BY <1>1, <2>3
  <2>5. N * W <= c.width BY <1>2, <2>3
  <2> QED BY <1>10, <2>1, <2>4, <2>5
<1>12. n \in Nat \ {0} BY <1>2, <1>3
<1> QED BY <1>1, <1>4, <1>8, <1>9, <1>11, <1>12

-----------------------------------------------------------------------------
(* sortcmp, and what it has to do with the order of files.                 *)

SortKey(d, c) == IF c.sort = "name" THEN 0 ELSE d.dstat[c.sort]
Leads(a, b, c) ==
  SortKey(a, c) > SortKey(b, c) \/ (SortKey(a, c) = SortKey(b, c) /\ a.name < b.name)
Sortable(d, c) == d.name \in Int /\ SortKey(d, c) \in Int
Near(d1, d2, c) == SortKey(d1, c) - SortKey(d2, c) < IntHalf

\* A difference that fits is not changed by the cast.
LEMMA ToIntExact ==
  ASSUME NEW d \in Int, -IntHalf < d, d < IntHalf
  PROVE  ToInt(d) = d
<1>1. IntHalf \in Nat \ {0} BY ShowConstants
<1> DEFINE e == d + IntHalf
           m == 2 * IntHalf
<1>2. e \in Nat /\ m \in Nat \ {0} /\ e < m BY <1>1
<1>3. ToInt(d) = (e % m) - IntHalf BY DEF ToInt
<1> HIDE DEF m
<1>4. e % m = e
  <2> HIDE DEF e
  <2> QED BY ONLY <1>2
<1> QED BY <1>1, <1>3, <1>4

\* What sortcmp says of two files that are not too far apart.
LEMMA SortcmpIs ==
  ASSUME NEW d1, NEW d2, NEW c, Sortable(d1, c), Sortable(d2, c), Near(d1, d2, c), Near(d2, d1, c)
  PROVE  Sortcmp(d1, d2, c) <= 0 <=> ~(IF c.reverse THEN Leads(d1, d2, c) ELSE Leads(d2, d1, c))
<1> DEFINE k1 == SortKey(d1, c)
           k2 == SortKey(d2, c)
           dif == IF c.sort = "name" THEN 0 ELSE ToInt(d1.dstat[c.sort] - d2.dstat[c.sort])
           cmp == IF dif # 0 THEN -Sign(dif) ELSE Sign(d1.name - d2.name)
<1>1. k1 \in Int /\ k2 \in Int /\ d1.name \in Int /\ d2.name \in Int BY DEF Sortable
<1>2. k1 - k2 \in Int /\ -IntHalf < k1 - k2 /\ k1 - k2 < IntHalf
  <2>1. IntHalf \in Nat BY ShowConstants
  <2>2. k1 - k2 < IntHalf /\ k2 - k1 < IntHalf BY DEF Near
  <2> HIDE DEF k1, k2
  <2> QED BY <1>1, <2>1, <2>2
<1>3. dif = k1 - k2
  <2>1. CASE c.sort = "name" BY <2>1 DEF SortKey
  <2>2. CASE c.sort # "name"
    <3>1. dif = ToInt(k1 - k2) BY <2>2 DEF SortKey
    <3> HIDE DEF k1, k2, dif
    <3> QED BY <3>1, <1>2, ToIntExact
  <2> QED BY <2>1, <2>2
<1>4. Sortcmp(d1, d2, c) = IF c.reverse THEN -cmp ELSE cmp BY DEF Sortcmp
<1> HIDE DEF k1, k2, dif
<1>5. cmp \in Int /\ (cmp <= 0 <=> ~Leads(d2, d1, c)) /\ (-cmp <= 0 <=> ~Leads(d1, d2, c))
  <2> DEFINE n1 == d1.name
             n2 == d2.name
  <2>1. /\ Leads(d2, d1, c) <=> k2 > k1 \/ (k2 = k1 /\ n2 < n1)
        /\ Leads(d1, d2, c) <=> k1 > k2 \/ (k1 = k2 /\ n1 < n2)
    BY DEF Leads, k1, k2
  <2>2. n1 \in Int /\ n2 \in Int BY <1>1
  <2> HIDE DEF n1, n2
  <2>3. cmp = IF k1 > k2 THEN -1 ELSE IF k1 < k2 THEN 1
              ELSE IF n1 > n2 THEN 1 ELSE IF n1 < n2 THEN -1 ELSE 0
    <3>1. cmp = IF dif # 0 THEN -Sign(dif) ELSE Sign(n1 - n2) BY DEF n1, n2
    <3> HIDE DEF cmp
    <3> QED BY <3>1, <1>1, <1>3, <2>2 DEF Sign
  <2> HIDE DEF cmp
  <2> QED BY <1>1, <2>1, <2>2, <2>3
<1> HIDE DEF cmp
<1> QED BY <1>4, <1>5

\* Files are ranked by sortcmp when no two of their keys are too far apart.
LEMMA NearRanked ==
  ASSUME NEW S, NEW file, NEW c, \A x \in S : Sortable(file[x], c),
         \A x, y \in S : Near(file[x], file[y], c)
  PROVE  Ranked(S, file, c)
<1>1. \A x, y \in S : Le(x, y, file, c) <=>
        ~(IF c.reverse THEN Leads(file[x], file[y], c) ELSE Leads(file[y], file[x], c))
  <2>1. ASSUME NEW x \in S, NEW y \in S
        PROVE  Sortcmp(file[x], file[y], c) <= 0 <=>
               ~(IF c.reverse THEN Leads(file[x], file[y], c) ELSE Leads(file[y], file[x], c))
    BY SortcmpIs
  <2> QED BY <2>1 DEF Le
<1>2. \A x \in S : file[x].name \in Int /\ SortKey(file[x], c) \in Int BY DEF Sortable
<1> SUFFICES ASSUME NEW x \in S, NEW y \in S, NEW z \in S
             PROVE  /\ Le(x, y, file, c) \/ Le(y, x, file, c)
                    /\ Le(x, y, file, c) /\ Le(y, z, file, c) => Le(x, z, file, c)
  BY DEF Ranked
<1>3. CASE c.reverse
  <2>1. \A u, v \in S : Le(u, v, file, c) <=> ~Leads(file[u], file[v], c) BY <1>1, <1>3
  <2> QED BY <2>1, <1>2 DEF Leads
<1>4. CASE ~c.reverse
  <2>1. \A u, v \in S : Le(u, v, file, c) <=> ~Leads(file[v], file[u], c) BY <1>1, <1>4
  <2> QED BY <2>1, <1>2 DEF Leads
<1> QED BY <1>3, <1>4

-----------------------------------------------------------------------------
(* Conversions.                                                            *)

\* xreadlink: the buffer is the first multiple of GROWBY beyond the text.
LEMMA ReadlinkBufferFits ==
  ASSUME NEW len \in Nat
  PROVE  /\ ReadlinkBuffer(len) \in Nat
         /\ ReadlinkBuffer(len) > len /\ ReadlinkBuffer(len) - GROWBY <= len
<1> DEFINE q == len \div GROWBY
           r(buf) == Min({len, buf})
           J == {j \in 1..(q + 2) : Enough(j * GROWBY, r(j * GROWBY))}
           B == {k * GROWBY : k \in J}
<1>1. q \in Nat /\ 80 * q <= len /\ len < 80 * q + 80
  BY Quotient DEF GROWBY
<1>2. ReadlinkBuffer(len) = Min(B) BY DEF ReadlinkBuffer
<1>3. \A buf \in Nat : r(buf) = IF len <= buf THEN len ELSE buf
  <2> SUFFICES ASSUME NEW buf \in Nat PROVE r(buf) = IF len <= buf THEN len ELSE buf OBVIOUS
  <2> DEFINE m == IF len <= buf THEN len ELSE buf
  <2>1. m \in {len, buf} /\ \A y \in {len, buf} : m <= y OBVIOUS
  <2>2. \A x \in {len, buf} : (\A y \in {len, buf} : x <= y) => x = m OBVIOUS
  <2> HIDE DEF m
  <2>3. Min({len, buf}) \in {len, buf} /\ \A y \in {len, buf} : Min({len, buf}) <= y
    BY <2>1 DEF Min
  <2>4. Min({len, buf}) = m BY <2>2, <2>3
  <2> QED BY <2>4 DEF m
<1> HIDE DEF r, q
<1>4. \A j \in 1..(q + 2) : j \in J <=> j >= q + 1
  <2> SUFFICES ASSUME NEW j \in 1..(q + 2) PROVE Enough(j * 80, r(j * 80)) <=> j >= q + 1
    BY DEF GROWBY
  <2>1. j * 80 \in Nat BY <1>1
  <2>2. r(j * 80) = IF len <= j * 80 THEN len ELSE j * 80 BY <1>3, <2>1
  <2> QED BY <1>1, <2>1, <2>2 DEF Enough
<1> HIDE DEF J
<1>5. J = {q + 1, q + 2}
  <2>1. J \subseteq 1..(q + 2) BY DEF J
  <2>2. q + 1 \in 1..(q + 2) /\ q + 2 \in 1..(q + 2) BY <1>1
  <2>3. \A j \in 1..(q + 2) : j >= q + 1 <=> j \in {q + 1, q + 2} BY <1>1
  <2> QED BY <1>4, <2>1, <2>2, <2>3
<1>6. B = {(q + 1) * 80, (q + 2) * 80} BY <1>5 DEF GROWBY
<1> DEFINE m == (q + 1) * 80
<1>7. m \in B /\ \A y \in B : m <= y BY <1>1, <1>6
<1>8. \A x \in B : (\A y \in B : x <= y) => x = m BY <1>1, <1>6
<1> HIDE DEF B, m
<1>9. Min(B) \in B /\ \A y \in B : Min(B) <= y BY <1>7 DEF Min
<1>10. Min(B) = m BY <1>8, <1>9
<1> QED BY <1>1, <1>2, <1>10 DEF m, GROWBY

-----------------------------------------------------------------------------
(* Conversions.                                                            *)

\* Each unit is Kilo of the one before.
LEMMA UnitStep ==
  ASSUME NEW u \in Nat
  PROVE  Unit(u) \in Nat \ {0} /\ Unit(0) = 1 /\ Unit(u + 1) = Unit(u) * Kilo
<1> DEFINE f == [p \in Nat |-> p * Kilo]
           P == Nat \ {0}
<1>1. Kilo \in Nat \ {0} BY ShowConstants
<1>2. \A v \in P : f[v] \in P BY <1>1
<1>3. Unit(u) = Repeat(f, u, 1) /\ Unit(0) = Repeat(f, 0, 1) /\ Unit(u + 1) = Repeat(f, u + 1, 1)
  BY DEF Unit
<1>4. 1 \in P OBVIOUS
<1>5. \A p \in Nat : f[p] = p * Kilo OBVIOUS
<1> HIDE DEF f
<1>6. Repeat(f, u, 1) \in P
  <2> HIDE DEF P
  <2> QED BY <1>2, <1>4, RepeatKeeps
<1>7. Repeat(f, 0, 1) = 1 BY RepeatZero
<1>8. Repeat(f, u + 1, 1) = f[Repeat(f, u, 1)] BY RepeatStep
<1> QED BY <1>3, <1>5, <1>6, <1>7, <1>8

\* A number that has been divided r.units times by Kilo: what it was a multiple of
\* before the last division, and the tenths rounded from that.
Rounds(n, r, w, U) ==
  /\ w * U <= n /\ n < (w + 1) * U
  /\ -Kilo <= 2 * (10 * w - Kilo * (10 * r.val + r.frac))
  /\ 2 * (10 * w - Kilo * (10 * r.val + r.frac)) <= Kilo
Short(n, r) ==
  /\ r = [val |-> r.val, units |-> r.units, frac |-> r.frac]
  /\ r.val \in Nat /\ r.units \in Nat /\ r.frac \in 0..10
  /\ r.val * Unit(r.units) <= n /\ n < (r.val + 1) * Unit(r.units)
  /\ r.units = 0 => r.val = n /\ r.frac = 0
  /\ r.units > 0 => \E w \in Nat : Rounds(n, r, w, Unit(r.units - 1))

\* What one division does to the error.
LEMMA DivideOnce ==
  ASSUME NEW v \in Nat, NEW K \in Nat \ {0}
  PROVE  LET q == v \div K
             t == ((v % K) * 10 + K \div 2) \div K
         IN /\ q \in Nat /\ t \in 0..10
            /\ q * K <= v /\ v + 1 <= (q + 1) * K
            /\ -K <= 2 * (10 * v - K * (10 * q + t)) /\ 2 * (10 * v - K * (10 * q + t)) <= K
<1> DEFINE q == v \div K
           x == v % K
           h == K \div 2
           y == x * 10 + h
           t == y \div K
<1>1. q \in Nat /\ x \in 0..(K - 1) /\ K * q \in Nat /\ v = K * q + x BY Quotient
<1>2. h \in Nat /\ 2 * h <= K /\ K <= 2 * h + 1
  <2>1. 2 * (K \div 2) <= K /\ K < 2 * (K \div 2) + 2 /\ K \div 2 \in Nat BY Quotient
  <2> QED BY <2>1
<1> HIDE DEF q, x, h
<1>3. y \in Nat BY <1>1, <1>2
<1> HIDE DEF y
<1>4. t \in Nat /\ K * t \in Nat /\ K * t <= y /\ y < K * t + K BY <1>3, Quotient
<1> HIDE DEF t
<1>5. y = x * 10 + h BY DEF y
<1>6. t <= 10
  <2> SUFFICES ASSUME t >= 11 PROVE FALSE BY <1>4
  <2>1. K * 11 <= K * t BY <1>4
  <2>2. K * 11 = 11 * K BY <1>4
  <2> QED BY <1>1, <1>2, <1>4, <1>5, <2>1, <2>2
<1>7. q * K = K * q /\ (q + 1) * K = K * q + K BY <1>1
<1>8. K * (10 * q + t) = 10 * (K * q) + K * t BY <1>1, <1>4
<1> DEFINE a == K * q
           b == K * t
<1>9. a \in Nat /\ b \in Nat BY <1>1, <1>4
<1>10. v = a + x /\ b <= y /\ y < b + K BY <1>1, <1>4
<1> HIDE DEF a, b
<1>11. -K <= 2 * (10 * v - (10 * a + b)) /\ 2 * (10 * v - (10 * a + b)) <= K
  BY <1>1, <1>2, <1>5, <1>9, <1>10
<1>12. K * (10 * q + t) = 10 * a + b BY <1>8 DEF a, b
<1>13. t \in 0..10 BY <1>4, <1>6
<1>14. q * K <= v /\ v + 1 <= (q + 1) * K BY <1>1, <1>7, <1>9, <1>10 DEF a
<1> QED BY <1>1, <1>11, <1>12, <1>13, <1>14 DEF q, t, y, x, h

\* All four divisions.
LEMMA ShortenRounds ==
  ASSUME NEW n \in Nat, NEW r, Short(n, r)
  PROVE  /\ Short(n, Shorten(r))
         /\ r.val < Kilo => Shorten(r) = r
         /\ r.val >= Kilo => Shorten(r).units = r.units + 1
<1> DEFINE K == Kilo
           v == r.val
           u == r.units
           q == v \div K
           t == ((v % K) * 10 + K \div 2) \div K
           U == Unit(u)
           s == Shorten(r)
<1>1. v \in Nat /\ u \in Nat /\ v * U <= n /\ n < (v + 1) * U BY DEF Short
<1>2. K \in Nat \ {0} BY ShowConstants
<1>3. CASE v < K
  <2>1. s = r BY <1>3 DEF Shorten
  <2> QED BY <2>1, <1>1, <1>2, <1>3
<1>4. CASE ~(v < K)
  <2>1. s = [val |-> q, units |-> u + 1, frac |-> t] BY <1>4 DEF Shorten
  <2>2. /\ q \in Nat /\ t \in 0..10 /\ q * K <= v /\ v + 1 <= (q + 1) * K
        /\ -K <= 2 * (10 * v - K * (10 * q + t)) /\ 2 * (10 * v - K * (10 * q + t)) <= K
    BY <1>1, <1>2, DivideOnce
  <2>3. U \in Nat \ {0} /\ Unit(u + 1) = U * K BY <1>1, UnitStep
  <2> HIDE DEF q, t, s, U, v, u, K
  <2>4. q * (U * K) <= n /\ n < (q + 1) * (U * K)
    <3>1. (q * K) * U <= v * U /\ (v + 1) * U <= ((q + 1) * K) * U
      <4>1. q * K \in Nat /\ (q + 1) * K \in Nat /\ v + 1 \in Nat BY <1>1, <1>2, <2>2
      <4> DEFINE a == q * K
                 b == (q + 1) * K
      <4>2. a <= v /\ v + 1 <= b /\ a \in Nat /\ b \in Nat BY <2>2, <4>1
      <4> HIDE DEF a, b
      <4>3. a * U <= v * U /\ (v + 1) * U <= b * U BY <1>1, <2>3, <4>2
      <4> QED BY <4>3 DEF a, b
    <3>2. (q * K) * U = q * (U * K) /\ ((q + 1) * K) * U = (q + 1) * (U * K)
      BY <1>2, <2>2, <2>3
    <3>3. v * U \in Nat /\ (v + 1) * U \in Nat /\ q * (U * K) \in Nat /\ (q + 1) * (U * K) \in Nat
      BY <1>1, <1>2, <2>2, <2>3
    <3> QED BY <1>1, <3>1, <3>2, <3>3
  <2>5. s.val = q /\ s.units = u + 1 /\ s.frac = t BY <2>1
  <2>6. Rounds(n, s, v, U) BY <1>1, <2>2, <2>5 DEF Rounds, K
  <2>7. (u + 1) - 1 = u /\ u + 1 \in Nat /\ u + 1 # 0 BY <1>1
  <2>8. Short(n, s)
    <3>1. s = [val |-> s.val, units |-> s.units, frac |-> s.frac] BY <2>1
    <3>2. \E w \in Nat : Rounds(n, s, w, Unit(s.units - 1)) BY <1>1, <2>5, <2>6, <2>7 DEF U
    <3>3. s.val \in Nat /\ s.units \in Nat /\ s.frac \in 0..10 /\ s.units # 0
      BY <2>2, <2>5, <2>7
    <3>4. s.val * Unit(s.units) <= n /\ n < (s.val + 1) * Unit(s.units)
      BY <2>3, <2>4, <2>5
    <3> QED BY <3>1, <3>2, <3>3, <3>4 DEF Short
  <2>9. v >= K BY <1>1, <1>2, <1>4
  <2> QED BY <1>4, <2>5, <2>8 DEF v, K, s, u
<1> QED BY <1>3, <1>4

\* The error of tenths.
LEMMA ErrorOf ==
  ASSUME NEW n \in Nat, NEW w \in Nat, NEW U \in Nat, NEW K \in Nat, NEW z \in Nat,
         w * U <= n, n < (w + 1) * U,
         -K <= 2 * (10 * w - K * z), 2 * (10 * w - K * z) <= K
  PROVE  LET error == 10 * n - z * (U * K)
         IN -(U * K) <= 2 * error /\ 2 * error <= U * K + 20 * (U - 1)
<1> DEFINE d == 2 * (10 * w - K * z)
           b == w * U
           e == U * K
           g == z * (U * K)
<1>1. d \in Int /\ b \in Nat /\ e \in Nat /\ g \in Nat /\ (w + 1) * U = b + U OBVIOUS
<1>2. d * U = 20 * b - 2 * g
  <2>1. d = 20 * w - 2 * (K * z) OBVIOUS
  <2>2. K * z \in Nat /\ (K * z) * U = g OBVIOUS
  <2> DEFINE f == K * z
  <2> HIDE DEF d, f, g
  <2>3. d * U = 20 * (w * U) - 2 * (f * U) BY <2>1, <2>2 DEF f
  <2> QED BY <2>2, <2>3 DEF f
<1>3. -e <= d * U /\ d * U <= e
  <2>1. -K <= d /\ d <= K OBVIOUS
  <2> HIDE DEF d
  <2>2. (-K) * U <= d * U /\ d * U <= K * U BY <1>1, <2>1
  <2>3. (-K) * U = -e /\ K * U = e OBVIOUS
  <2> QED BY <2>2, <2>3
<1>4. b <= n /\ n < b + U BY <1>1
<1> HIDE DEF b, d, e, g
<1>5. -e <= 2 * (10 * n - g) /\ 2 * (10 * n - g) <= e + 20 * (U - 1)
  <2> DEFINE h == d * U
  <2>1. h \in Int BY <1>1
  <2> HIDE DEF h
  <2>2. h = 20 * b - 2 * g /\ -e <= h /\ h <= e BY <1>2, <1>3 DEF h
  <2> QED BY <1>1, <1>4, <2>1, <2>2
<1> QED BY <1>5 DEF e, g

\* make_human_readable_str, for every size.
LEMMA SizeReadable ==
  ASSUME NEW n \in Nat
  PROVE  LET r == HumanReadable(n, 0)
             error == 10 * n - (10 * r.val + r.frac) * Unit(r.units)
             cut == Unit(r.units - 1) - 1
         IN /\ r.frac \in 0..9
            /\ r.units < 4 => r.val <= Kilo
            /\ r.units = 0 => error = 0
            /\ r.units > 0 => /\ -Unit(r.units) <= 2 * error
                              /\ 2 * error <= Unit(r.units) + 20 * cut
<1> DEFINE r0 == [val |-> n, units |-> 0, frac |-> 0]
           r1 == Shorten(r0)
           r2 == Shorten(r1)
           r3 == Shorten(r2)
           r4 == Shorten(r3)
           r == HumanReadable(n, 0)
           z == 10 * r.val + r.frac
<1>1. Short(n, r0)
  <2>1. Unit(0) = 1 BY UnitStep
  <2>2. r0.val = n /\ r0.units = 0 /\ r0.frac = 0 OBVIOUS
  <2>3. n * 1 <= n /\ n < (n + 1) * 1 OBVIOUS
  <2>4. r0 = [val |-> r0.val, units |-> r0.units, frac |-> r0.frac] OBVIOUS
  <2> HIDE DEF r0
  <2> QED BY <2>1, <2>2, <2>3, <2>4 DEF Short
<1>2. r0.units = 0 OBVIOUS
<1>3. r = Carry(r4) BY DEF HumanReadable
<1> HIDE DEF r0
<1>4. Short(n, r1) /\ (r0.val < Kilo => r1 = r0) /\ (r0.val >= Kilo => r1.units = r0.units + 1)
  BY <1>1, ShortenRounds
<1> HIDE DEF r1
<1>5. Short(n, r2) /\ (r1.val < Kilo => r2 = r1) /\ (r1.val >= Kilo => r2.units = r1.units + 1)
  BY <1>4, ShortenRounds
<1> HIDE DEF r2
<1>6. Short(n, r3) /\ (r2.val < Kilo => r3 = r2) /\ (r2.val >= Kilo => r3.units = r2.units + 1)
  BY <1>5, ShortenRounds
<1> HIDE DEF r3
<1>7. Short(n, r4) /\ (r3.val < Kilo => r4 = r3) /\ (r3.val >= Kilo => r4.units = r3.units + 1)
  BY <1>6, ShortenRounds
<1> HIDE DEF r4, r
<1>8. Kilo \in Nat \ {0} BY ShowConstants
<1>9. r4.units < 4 => r4.val < Kilo
  <2>1. r0.val \in Nat /\ r1.val \in Nat /\ r2.val \in Nat /\ r3.val \in Nat
    BY <1>1, <1>4, <1>5, <1>6 DEF Short
  <2>2. r0.val < Kilo => r4.val < Kilo BY <1>4, <1>5, <1>6, <1>7
  <2>3. r1.val < Kilo => r4.val < Kilo BY <1>5, <1>6, <1>7
  <2>4. r2.val < Kilo => r4.val < Kilo BY <1>6, <1>7
  <2>5. r3.val < Kilo => r4.val < Kilo BY <1>7
  <2>6. /\ r0.val < Kilo \/ r0.val >= Kilo
        /\ r1.val < Kilo \/ r1.val >= Kilo
        /\ r2.val < Kilo \/ r2.val >= Kilo
        /\ r3.val < Kilo \/ r3.val >= Kilo
    BY <1>8, <2>1
  <2>7. CASE r0.val >= Kilo /\ r1.val >= Kilo /\ r2.val >= Kilo /\ r3.val >= Kilo
    <3>1. r1.units = 1 /\ r2.units = 2 /\ r3.units = 3 /\ r4.units = 4
      BY <1>2, <1>4, <1>5, <1>6, <1>7, <2>7
    <3> QED BY <3>1
  <2> QED BY <2>2, <2>3, <2>4, <2>5, <2>6, <2>7
<1>10. /\ r4 = [val |-> r4.val, units |-> r4.units, frac |-> r4.frac]
       /\ r4.val \in Nat /\ r4.units \in Nat /\ r4.frac \in 0..10
       /\ r4.units = 0 => r4.val = n /\ r4.frac = 0
  BY <1>7 DEF Short
<1>11. /\ r.units = r4.units /\ r.val \in Nat /\ r.frac \in 0..9
       /\ 10 * r.val + r.frac = 10 * r4.val + r4.frac
       /\ r.val <= r4.val + 1
       /\ r.units = 0 => r.val = n /\ r.frac = 0
  <2>1. CASE r4.frac >= 10
    <3>1. r.val = r4.val + 1 /\ r.units = r4.units /\ r.frac = 0
      BY <1>3, <1>10, <2>1 DEF Carry
    <3>2. r4.frac = 10 /\ r4.units # 0 BY <1>10, <2>1
    <3> QED BY <1>10, <3>1, <3>2
  <2>2. CASE ~(r4.frac >= 10)
    <3>1. r = r4 BY <1>3, <2>2 DEF Carry
    <3> QED BY <1>10, <2>2, <3>1
  <2> QED BY <2>1, <2>2
<1>12. r.units < 4 => r.val <= Kilo BY <1>8, <1>9, <1>10, <1>11
<1>13. r.units = 0 => 10 * n - z * Unit(r.units) = 0
  <2>1. Unit(0) = 1 BY UnitStep
  <2> QED BY <1>11, <2>1
<1>14. ASSUME r.units > 0
       PROVE  /\ -Unit(r.units) <= 2 * (10 * n - z * Unit(r.units))
              /\ 2 * (10 * n - z * Unit(r.units)) <= Unit(r.units) + 20 * (Unit(r.units - 1) - 1)
  <2> DEFINE U == Unit(r.units - 1)
  <2>1. r.units - 1 \in Nat /\ (r.units - 1) + 1 = r.units BY <1>10, <1>11, <1>14
  <2>2. U \in Nat \ {0} /\ Unit(r.units) = U * Kilo BY <2>1, UnitStep
  <2>3. \E w \in Nat : Rounds(n, r4, w, U) BY <1>7, <1>11, <1>14 DEF Short
  <2>4. PICK w \in Nat : Rounds(n, r4, w, U) BY <2>3
  <2>5. z \in Nat /\ z = 10 * r4.val + r4.frac BY <1>11
  <2> HIDE DEF U, z
  <2>6. /\ w * U <= n /\ n < (w + 1) * U
        /\ -Kilo <= 2 * (10 * w - Kilo * z) /\ 2 * (10 * w - Kilo * z) <= Kilo
    BY <2>4, <2>5 DEF Rounds
  <2>7. /\ -(U * Kilo) <= 2 * (10 * n - z * (U * Kilo))
        /\ 2 * (10 * n - z * (U * Kilo)) <= U * Kilo + 20 * (U - 1)
    BY <1>8, <2>2, <2>5, <2>6, ErrorOf
  <2> QED BY <2>2, <2>7 DEF U
<1> QED BY <1>11, <1>12, <1>13, <1>14 DEF r, z

\* With a unit to display it in, it is the nearest number of units.
LEMMA BlockReadable ==
  ASSUME NEW n \in Nat
  PROVE  LET error == n - HumanReadable(n, Kilo).val * Kilo
         IN -Kilo <= 2 * error /\ 2 * error <= Kilo
<1> DEFINE K == Kilo
           h == K \div 2
           y == n + h
           q == y \div K
<1>1. K \in Nat /\ K > 0 BY ShowConstants
<1>2. HumanReadable(n, Kilo).val = q BY <1>1 DEF HumanReadable
<1> HIDE DEF K
<1>3. h \in Nat /\ 2 * h <= K /\ K < 2 * h + 2 BY <1>1, Quotient
<1> HIDE DEF h
<1>4. y \in Nat /\ y = n + h BY <1>3
<1> HIDE DEF y
<1>5. q \in Nat /\ K * q <= y /\ y < K * q + K BY <1>1, <1>4, Quotient
<1> HIDE DEF q
<1>6. q * K = K * q /\ K * q \in Nat BY <1>1, <1>5
<1>7. -K <= 2 * (n - q * K) /\ 2 * (n - q * K) <= K BY <1>1, <1>3, <1>4, <1>5, <1>6
<1> QED BY <1>2, <1>7 DEF K

-----------------------------------------------------------------------------

\* mode_string: the type can be read off its first letter,
LEMMA TypeTold ==
  ASSUME NEW t \in {"reg", "dir", "lnk"}, NEW u \in {"reg", "dir", "lnk"}, TypeChar(t) = TypeChar(u)
  PROVE  t = u
BY DEF TypeChar

\* and the bits off the others.
LEMMA ModesTold ==
  ASSUME NEW t \in {"reg", "dir", "lnk"}, NEW u \in {"reg", "dir", "lnk"},
         NEW p \in SUBSET (1..9), NEW q \in SUBSET (1..9),
         NEW s \in SUBSET {3, 6, 9}, NEW r \in SUBSET {3, 6, 9},
         ModeString(t, p, s) = ModeString(u, q, r)
  PROVE  t = u /\ p = q /\ s = r
<1> DEFINE Bit(i, a, b) == IF i \in b THEN (IF i \in a THEN SMODE1[i] ELSE SMODE0[i])
                           ELSE IF i \in a THEN MODE1[i] ELSE "-"
<1>1. ModeString(t, p, s)[0] = TypeChar(t) /\ ModeString(u, q, r)[0] = TypeChar(u)
  BY DEF ModeString
<1>2. t = u BY <1>1, TypeTold
<1>3. \A i \in 1..9 : ModeString(t, p, s)[i] = Bit(i, p, s) /\ ModeString(u, q, r)[i] = Bit(i, q, r)
  BY DEF ModeString
<1>4. \A i \in 1..9 : Bit(i, p, s) = Bit(i, q, r) BY <1>3
<1>5. \A i \in {3, 6, 9} : SMODE1[i] \in {"s", "t"} /\ SMODE0[i] \in {"S", "T"}
  BY DEF SMODE1, SMODE0
<1>6. \A i \in 1..9 : MODE1[i] \in {"r", "w", "x"} BY DEF MODE1
<1>7. ASSUME NEW i \in 1..9 PROVE (i \in p <=> i \in q) /\ (i \in s <=> i \in r)
  <2>1. (i \in s => i \in {3, 6, 9}) /\ (i \in r => i \in {3, 6, 9}) OBVIOUS
  <2>2. Bit(i, p, s) = Bit(i, q, r) BY <1>4
  <2>3. MODE1[i] \in {"r", "w", "x"} BY <1>6
  <2> QED BY <2>1, <2>2, <2>3, <1>5
<1>8. p = q BY <1>7
<1>9. s = r
  <2>1. s \subseteq 1..9 /\ r \subseteq 1..9 OBVIOUS
  <2> QED BY <1>7, <2>1
<1> QED BY <1>2, <1>8, <1>9

\* There are finitely many modes.
LEMMA ModesFinite == IsFiniteSet(Modes)
<1> DEFINE A == {"reg", "dir", "lnk"}
           B == SUBSET (1..9)
           C == SUBSET {3, 6, 9}
           D == A \X (B \X C)
           f == [d \in D |-> <<d[1], d[2][1], d[2][2]>>]
<1>1. IsFiniteSet(A)
  <2>1. A = (({} \cup {"reg"}) \cup {"dir"}) \cup {"lnk"} OBVIOUS
  <2>2. IsFiniteSet((({} \cup {"reg"}) \cup {"dir"}) \cup {"lnk"}) BY FS_EmptySet, FS_AddElement
  <2> QED BY <2>1, <2>2
<1>2. IsFiniteSet(1..9)
  <2>1. 1 \in Int /\ 9 \in Int OBVIOUS
  <2> QED BY <2>1, FS_Interval, Zenon
<1>3. {3, 6, 9} \subseteq 1..9 OBVIOUS
<1>4. IsFiniteSet({3, 6, 9}) BY <1>2, <1>3, FS_Subset
<1>5. IsFiniteSet(B) /\ IsFiniteSet(C) BY <1>2, <1>4, FS_SUBSET
<1>6. IsFiniteSet(D)
  <2> HIDE DEF A, B, C
  <2>1. IsFiniteSet(B \X C) BY <1>5, FS_Product
  <2> QED BY <1>1, <2>1, FS_Product
<1>7. f \in Surjection(D, Modes)
  <2>1. f \in [D -> Modes] BY DEF Modes
  <2>2. ASSUME NEW m \in Modes PROVE \E d \in D : f[d] = m
    <3>1. PICK t \in A, p \in B, s \in C : m = <<t, p, s>> BY DEF Modes
    <3>2. <<t, <<p, s>>>> \in D /\ f[<<t, <<p, s>>>>] = <<t, p, s>> OBVIOUS
    <3> QED BY <3>1, <3>2
  <2> QED BY <2>1, <2>2 DEF Surjection
<1> QED
  <2> HIDE DEF f, D
  <2> QED BY <1>6, <1>7, FS_Surjection

\* So there are as many strings as modes.
LEMMA ModesApart == Cardinality({ModeString(m[1], m[2], m[3]) : m \in Modes}) = Cardinality(Modes)
<1> DEFINE T == {ModeString(m[1], m[2], m[3]) : m \in Modes}
           f == [m \in Modes |-> ModeString(m[1], m[2], m[3])]
<1>1. f \in Surjection(Modes, T) BY DEF Surjection
<1>2. f \in Injection(Modes, T)
  <2>1. f \in [Modes -> T] OBVIOUS
  <2>2. ASSUME NEW m \in Modes, NEW k \in Modes, f[m] = f[k] PROVE m = k
    <3>1. PICK t \in {"reg", "dir", "lnk"}, p \in SUBSET (1..9), s \in SUBSET {3, 6, 9} :
            m = <<t, p, s>>
      BY DEF Modes
    <3>2. PICK u \in {"reg", "dir", "lnk"}, q \in SUBSET (1..9), r \in SUBSET {3, 6, 9} :
            k = <<u, q, r>>
      BY DEF Modes
    <3>3. ModeString(t, p, s) = ModeString(u, q, r)
      <4>1. f[m] = ModeString(m[1], m[2], m[3]) /\ f[k] = ModeString(k[1], k[2], k[3]) OBVIOUS
      <4> HIDE DEF f
      <4> QED BY <2>2, <3>1, <3>2, <4>1
    <3>4. t = u /\ p = q /\ s = r BY <3>3, ModesTold
    <3> QED BY <3>1, <3>2, <3>4
  <2>3. DOMAIN f = Modes OBVIOUS
  <2> HIDE DEF f, T
  <2>4. IsInjective(f) BY ONLY <2>2, <2>3 DEF IsInjective
  <2> QED BY <2>1, <2>4 DEF Injection
<1> HIDE DEF f, T
<1>3. Cardinality(T) = Cardinality(Modes) BY <1>1, <1>2, ModesFinite, FS_Surjection
<1> QED BY <1>3 DEF T
=============================================================================
