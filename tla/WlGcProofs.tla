---------------------------- MODULE WlGcProofs -----------------------------
(***************************************************************************)
(* Theorems about module WlGc, for all blocks, hashes and capacities: the  *)
(* hash table is kept in order, a collection frees what cannot be reached  *)
(* and nothing else, except for blocks that were passed to gc_realloc.     *)
(***************************************************************************)
EXTENDS WlGcProps, FiniteSetTheorems, SequenceTheorems, WellFoundedInduction, TLAPS

-----------------------------------------------------------------------------
(* The invariant.                                                          *)

\* The j-th entry of chain i is there, and block o has an entry.
In(t, i, j) == i \in DOMAIN t /\ j \in 1..Len(t[i])
Has(t, o) == \E i, j \in Nat : In(t, i, j) /\ t[i][j].p = o

Table(t, cap, lost) ==
  /\ t \in [0..(cap - 1) -> Seq(Entry)]
  /\ \A i, j \in Nat : In(t, i, j) => Hash[t[i][j].p] % cap = i
  /\ \A i, j, k \in Nat : In(t, i, j) /\ In(t, i, k) /\ t[i][j].p = t[i][k].p
                          /\ t[i][j].p \notin lost => j = k
  /\ IsFiniteSet(Slots(t))

TypeOK ==
  /\ capacity \in Nat \ {0} /\ size \in Nat
  /\ {heap, stack, todo, left} \subseteq SUBSET Obj
  /\ words \in [Obj -> SUBSET Obj] /\ junk \in [Obj -> SUBSET Obj]
  /\ pc \in {"run", "mark", "sweep", "resize", "alloc"}
  /\ at \in Nat \X (Nat \ {0})
  /\ call \in {"none", "malloc", "calloc", "realloc", "collect"} \X (Obj \cup {NULL})
  /\ pc # "run" /\ call[1] = "realloc" => call[2] \in stack
  /\ fate \in {"ok", "double free"}

Owners ==
  /\ \A o \in Obj \ left : Has(allocs, o) <=> o \in heap
  /\ \A o \in heap : Has(allocs, o)
  /\ left = {} => fate = "ok"

LoadOK ==
  /\ size <= (capacity \div 2) + 1
  /\ pc = "alloc" => size <= capacity \div 2

\* The blocks that the words of a set lead to, in two memories: what the
\* program stored, and what the collector goes by.
Led(s, mem) ==
  {o \in Obj : \A S \in SUBSET Obj : s \subseteq S /\ (\A q \in S : mem[q] \subseteq S) => o \in S}
Scan(t, w, u) == [o \in Obj |-> IF Has(t, o) THEN w[o] \cup u[o] ELSE {}]
Used == Led(stack, words)
Live == Led(stack, Scan(allocs, words, junk))

\* Marks: on the entry that search finds, the first of the block.
Clean(t) == \A i, j \in Nat : In(t, i, j) => ~t[i][j].mark
MarkedIn(t, o) ==
  \E i, j \in Nat : /\ In(t, i, j) /\ t[i][j].p = o /\ t[i][j].mark
                    /\ \A k \in Nat : In(t, i, k) /\ t[i][k].p = o => j <= k

\* What gc_mark has marked, and has still to look up, can be reached; and it
\* forgets nothing that a marked block leads to.
Marking ==
  /\ todo \subseteq Live
  /\ \A i, j \in Nat : In(allocs, i, j) /\ allocs[i][j].mark => allocs[i][j].p \in Live
  /\ \A o \in Obj : 
       /\ Has(allocs, o)
       /\ o \in stack \/ \E q \in Obj : MarkedIn(allocs, q) /\ o \in words[q] \cup junk[q]
       => MarkedIn(allocs, o) \/ o \in todo

\* What gc_sweep has kept or will keep is what can be reached.
Before(i, j, a) == i < a[1] \/ (i = a[1] /\ j < a[2])
Kept(t, a, o) ==
  \E i, j \in Nat : In(t, i, j) /\ t[i][j].p = o /\ (Before(i, j, a) \/ t[i][j].mark)
Sweep ==
  /\ at[1] <= capacity
  /\ \A o \in Obj : Kept(allocs, at, o) <=> o \in Live /\ Has(allocs, o)
  /\ \A i, j \in Nat : In(allocs, i, j) /\ Before(i, j, at) => ~allocs[i][j].mark

\* The new table has the entries that gc_hash_resize has passed.
Passed(t, a) == {s \in Slots(t) : Before(s[1], s[2], a)}
Past(t, a, o) == \E i, j \in Nat : In(t, i, j) /\ Before(i, j, a) /\ t[i][j].p = o
Resizing ==
  /\ at[1] <= capacity
  /\ Table(new_allocs, 2 * capacity, left) /\ Clean(new_allocs)
  /\ Cardinality(Slots(new_allocs)) = Cardinality(Passed(allocs, at))
  /\ \A o \in Obj : Has(new_allocs, o) <=> Past(allocs, at, o)

GInv ==
  /\ TypeOK
  /\ Table(allocs, capacity, left) /\ size = Cardinality(Slots(allocs))
  /\ Owners /\ LoadOK
  /\ \A o \in Used : Has(allocs, o)
  /\ pc \in {"run", "resize", "alloc"} => Clean(allocs)
  /\ pc = "mark" => Marking
  /\ pc = "sweep" => Sweep
  /\ pc = "resize" => Resizing

-----------------------------------------------------------------------------
(* Chains.                                                                 *)

LEMMA EntryAt ==
  ASSUME NEW s \in Seq(Entry), NEW j \in 1..Len(s)
  PROVE  s[j] \in Entry /\ s[j].p \in Obj /\ s[j].mark \in BOOLEAN
<1>1. s[j] \in Entry
  BY ElementOfSeq
<1> QED
  BY <1>1 DEF Entry

LEMMA InFront ==
  ASSUME NEW s \in Seq(Entry), NEW e \in Entry
  PROVE  /\ <<e>> \o s \in Seq(Entry) /\ Len(<<e>> \o s) = Len(s) + 1
         /\ (<<e>> \o s)[1] = e
         /\ \A j \in 2..(Len(s) + 1) : (<<e>> \o s)[j] = s[j - 1]
<1>1. <<e>> \in Seq(Entry) /\ Len(<<e>>) = 1 /\ <<e>>[1] = e /\ Len(s) \in Nat
  BY LenProperties
<1> DEFINE x == <<e>>
<1> HIDE DEF x
<1>2. x \o s \in Seq(Entry) /\ Len(x \o s) = Len(s) + 1
  <2>1. x \o s \in Seq(Entry) /\ Len(x \o s) = Len(x) + Len(s)
    BY <1>1, ConcatProperties DEF x
  <2> QED
    BY <1>1, <2>1 DEF x
<1>3. \A j \in 1..(Len(s) + 1) : (x \o s)[j] = IF j <= 1 THEN x[j] ELSE s[j - 1]
  BY <1>1, ConcatProperties DEF x
<1> QED
  BY <1>1, <1>2, <1>3 DEF x

LEMMA Removed ==
  ASSUME NEW s \in Seq(Entry), NEW m \in 1..Len(s)
  PROVE  /\ RemoveAt(s, m) \in Seq(Entry) /\ Len(RemoveAt(s, m)) = Len(s) - 1
         /\ \A j \in 1..(Len(s) - 1) : RemoveAt(s, m)[j] = IF j < m THEN s[j] ELSE s[j + 1]
<1> DEFINE x == SubSeq(s, 1, m - 1)
           y == SubSeq(s, m + 1, Len(s))
<1>0. Len(s) \in Nat /\ \A j \in 1..Len(s) : s[j] \in Entry
  BY LenProperties, ElementOfSeq
<1>1. x \in Seq(Entry) /\ Len(x) = m - 1 /\ \A j \in 1..(m - 1) : x[j] = s[j]
  OBVIOUS
<1>2. y \in Seq(Entry) /\ Len(y) = Len(s) - m /\ \A j \in 1..(Len(s) - m) : y[j] = s[j + m]
  OBVIOUS
<1> HIDE DEF x, y
<1>3. x \o y \in Seq(Entry) /\ Len(x \o y) = Len(s) - 1
  <2>1. x \o y \in Seq(Entry) /\ Len(x \o y) = Len(x) + Len(y)
    BY ONLY <1>1, <1>2, ConcatProperties
  <2> QED
    BY <1>0, <1>1, <1>2, <2>1
<1>4. ASSUME NEW j \in 1..(Len(s) - 1)
      PROVE  (x \o y)[j] = IF j < m THEN s[j] ELSE s[j + 1]
  <2>1. (x \o y)[j] = IF j <= Len(x) THEN x[j] ELSE y[j - Len(x)]
    BY <1>0, <1>1, <1>2, ConcatProperties
  <2> QED
    BY <1>0, <1>1, <1>2, <2>1
<1> QED
  BY <1>3, <1>4 DEF RemoveAt, x, y

-----------------------------------------------------------------------------
(* Tables.                                                                 *)

Tables(cap) == [0..(cap - 1) -> Seq(Entry)]
Pushed(t, k, e) == [t EXCEPT ![k] = <<e>> \o @]
Pulled(t, k, m) == [t EXCEPT ![k] = RemoveAt(@, m)]
Set(t, k, m, b) == [t EXCEPT ![k][m].mark = b]

LEMMA InTable ==
  ASSUME NEW cap \in Nat, NEW t \in Tables(cap), NEW i, NEW j, In(t, i, j)
  PROVE  /\ i \in Nat /\ i < cap /\ j \in Nat \ {0} /\ t[i] \in Seq(Entry)
         /\ t[i][j] \in Entry /\ t[i][j].p \in Obj /\ t[i][j].mark \in BOOLEAN
<1>1. i \in 0..(cap - 1) /\ t[i] \in Seq(Entry) /\ j \in 1..Len(t[i])
  BY DEF In, Tables
<1> QED
  BY <1>1, EntryAt, LenProperties

LEMMA SlotsAre ==
  ASSUME NEW cap \in Nat, NEW t \in Tables(cap)
  PROVE  /\ \A i, j : <<i, j>> \in Slots(t) <=> In(t, i, j)
         /\ \A s : s \in Slots(t) <=> \E i, j : s = <<i, j>> /\ In(t, i, j)
BY DEF Slots, In

\* What putting entry e in front of chain k of table t does.
PushOK(t, u, cap, k, e) ==
  /\ u \in Tables(cap)
  /\ In(u, k, 1) /\ u[k][1] = e
  /\ \A i, j \in Nat : In(t, i, j) => \E h \in Nat : In(u, i, h) /\ u[i][h] = t[i][j]
  /\ \A i, j \in Nat : In(u, i, j) /\ ~(i = k /\ j = 1) =>
       \E h \in Nat : /\ In(t, i, h) /\ u[i][j] = t[i][h]
                      /\ j = IF i = k THEN h + 1 ELSE h
  /\ IsFiniteSet(Slots(t)) => /\ IsFiniteSet(Slots(u))
                              /\ Cardinality(Slots(u)) = Cardinality(Slots(t)) + 1

LEMMA Push ==
  ASSUME NEW cap \in Nat, NEW t \in Tables(cap), NEW k \in 0..(cap - 1), NEW e \in Entry
  PROVE  PushOK(t, Pushed(t, k, e), cap, k, e)
<1> DEFINE u == Pushed(t, k, e)
<1> DEFINE n == Len(t[k])
<1>1. t[k] \in Seq(Entry) /\ n \in Nat /\ DOMAIN t = 0..(cap - 1)
  BY LenProperties DEF Tables
<1>2. /\ u[k] = <<e>> \o t[k] /\ DOMAIN u = DOMAIN t /\ \A i \in DOMAIN t : i # k => u[i] = t[i]
      /\ u \in Tables(cap)
  BY <1>1, InFront DEF Tables, Pushed
<1>3. Len(u[k]) = n + 1 /\ u[k][1] = e /\ \A j \in 2..(n + 1) : u[k][j] = t[k][j - 1]
  BY <1>1, <1>2, InFront
<1> HIDE DEF n, u
<1>4. In(u, k, 1)
  BY <1>1, <1>2, <1>3 DEF In
<1>5. ASSUME NEW i \in Nat, NEW j \in Nat, In(t, i, j)
      PROVE  \E h \in Nat : In(u, i, h) /\ u[i][h] = t[i][j]
  <2>1. CASE i = k
    <3>1. j + 1 \in Nat /\ In(u, i, j + 1) /\ u[i][j + 1] = t[i][j]
      BY <1>1, <1>2, <1>3, <1>5, <2>1 DEF In, n
    <3> QED
      BY <3>1
  <2>2. CASE i # k
    BY <1>2, <1>5, <2>2 DEF In
  <2> QED
    BY <2>1, <2>2
<1>6. ASSUME NEW i \in Nat, NEW j \in Nat, In(u, i, j), ~(i = k /\ j = 1)
      PROVE  \E h \in Nat : /\ In(t, i, h) /\ u[i][j] = t[i][h]
                            /\ j = IF i = k THEN h + 1 ELSE h
  <2>1. CASE i = k
    <3>1. j - 1 \in Nat /\ In(t, i, j - 1) /\ u[i][j] = t[i][j - 1] /\ j = (j - 1) + 1
      BY <1>1, <1>2, <1>3, <1>6, <2>1 DEF In, n
    <3> QED
      BY <2>1, <3>1
  <2>2. CASE i # k
    BY <1>2, <1>6, <2>2 DEF In
  <2> QED
    BY <2>1, <2>2
<1>7. <<k, n + 1>> \notin Slots(t)
  BY <1>1, SlotsAre DEF In, n
<1>8. Slots(u) = Slots(t) \cup {<<k, n + 1>>}
  <2>1. \A i, j : In(u, i, j) <=> In(t, i, j) \/ (i = k /\ j = n + 1)
    <3> SUFFICES ASSUME NEW i, NEW j
                 PROVE  In(u, i, j) <=> In(t, i, j) \/ (i = k /\ j = n + 1)
      OBVIOUS
    <3>1. CASE i = k
      BY <1>1, <1>2, <1>3, <3>1 DEF In, n
    <3>2. CASE i # k
      BY <1>2, <3>2 DEF In
    <3> QED
      BY <3>1, <3>2
  <2>2. \A x : x \in Slots(u) <=> \E i, j : x = <<i, j>> /\ In(u, i, j)
    BY <1>2, SlotsAre
  <2>3. \A x : x \in Slots(t) <=> \E i, j : x = <<i, j>> /\ In(t, i, j)
    BY SlotsAre
  <2>4. \A x : x \in Slots(u) <=> x \in Slots(t) \/ x = <<k, n + 1>>
    BY <2>1, <2>2, <2>3
  <2> QED
    BY <2>4
<1>9. IsFiniteSet(Slots(t)) => /\ IsFiniteSet(Slots(u))
                               /\ Cardinality(Slots(u)) = Cardinality(Slots(t)) + 1
  BY <1>7, <1>8, FS_AddElement
<1> QED
  BY <1>2, <1>3, <1>4, <1>5, <1>6, <1>9 DEF u, PushOK

\* What taking entry m out of chain k of table t does.
PullOK(t, u, cap, k, m) ==
  /\ u \in Tables(cap)
  /\ \A i, j \in Nat : In(t, i, j) /\ ~(i = k /\ j = m) =>
       \E h \in Nat : /\ In(u, i, h) /\ u[i][h] = t[i][j]
                      /\ h = IF i = k /\ j > m THEN j - 1 ELSE j
  /\ \A i, j \in Nat : In(u, i, j) =>
       \E h \in Nat : /\ In(t, i, h) /\ ~(i = k /\ h = m) /\ u[i][j] = t[i][h]
                      /\ j = IF i = k /\ h > m THEN h - 1 ELSE h
  /\ IsFiniteSet(Slots(t)) => /\ IsFiniteSet(Slots(u))
                              /\ Cardinality(Slots(u)) = Cardinality(Slots(t)) - 1
                              /\ Cardinality(Slots(t)) \in Nat \ {0}

LEMMA Pull ==
  ASSUME NEW cap \in Nat, NEW t \in Tables(cap), NEW k \in Nat, NEW m \in Nat, In(t, k, m)
  PROVE  PullOK(t, Pulled(t, k, m), cap, k, m)
<1> DEFINE u == Pulled(t, k, m)
<1> DEFINE n == Len(t[k])
<1>1. /\ t[k] \in Seq(Entry) /\ n \in Nat /\ DOMAIN t = 0..(cap - 1) /\ k \in DOMAIN t
      /\ m \in 1..n
  BY LenProperties DEF Tables, In
<1>2. /\ u[k] = RemoveAt(t[k], m) /\ DOMAIN u = DOMAIN t
      /\ \A i \in DOMAIN t : i # k => u[i] = t[i]
      /\ u \in Tables(cap)
  BY <1>1, Removed DEF Tables, Pulled
<1>3. Len(u[k]) = n - 1 /\ \A j \in 1..(n - 1) : u[k][j] = IF j < m THEN t[k][j] ELSE t[k][j + 1]
  BY <1>1, <1>2, Removed
<1> HIDE DEF n, u
<1>5. ASSUME NEW i \in Nat, NEW j \in Nat, In(t, i, j), ~(i = k /\ j = m)
      PROVE  \E h \in Nat : /\ In(u, i, h) /\ u[i][h] = t[i][j]
                            /\ h = IF i = k /\ j > m THEN j - 1 ELSE j
  <2> DEFINE h == IF i = k /\ j > m THEN j - 1 ELSE j
  <2>1. i = k => h \in Nat /\ In(u, i, h) /\ u[i][h] = t[i][j]
    BY <1>1, <1>2, <1>3, <1>5 DEF In, n
  <2>2. i # k => h \in Nat /\ In(u, i, h) /\ u[i][h] = t[i][j]
    BY <1>2, <1>5 DEF In
  <2>3. h \in Nat /\ In(u, i, h) /\ u[i][h] = t[i][j]
    BY <2>1, <2>2
  <2> QED
    BY <2>3
<1>6. ASSUME NEW i \in Nat, NEW j \in Nat, In(u, i, j)
      PROVE  \E h \in Nat : /\ In(t, i, h) /\ ~(i = k /\ h = m) /\ u[i][j] = t[i][h]
                            /\ j = IF i = k /\ h > m THEN h - 1 ELSE h
  <2> DEFINE h == IF i = k /\ j >= m THEN j + 1 ELSE j
  <2>1. i = k => h \in Nat /\ In(t, i, h) /\ ~(i = k /\ h = m) /\ u[i][j] = t[i][h]
    BY <1>1, <1>2, <1>3, <1>6 DEF In, n
  <2>2. i # k => h \in Nat /\ In(t, i, h) /\ ~(i = k /\ h = m) /\ u[i][j] = t[i][h]
    BY <1>2, <1>6 DEF In
  <2>3. /\ h \in Nat /\ In(t, i, h) /\ ~(i = k /\ h = m) /\ u[i][j] = t[i][h]
        /\ j = IF i = k /\ h > m THEN h - 1 ELSE h
    BY <2>1, <2>2
  <2> QED
    BY <2>3
<1>7. <<k, n>> \in Slots(t)
  BY <1>1, SlotsAre DEF In, n
<1>8. Slots(u) = Slots(t) \ {<<k, n>>}
  <2>1. \A i, j : In(u, i, j) <=> In(t, i, j) /\ ~(i = k /\ j = n)
    <3> SUFFICES ASSUME NEW i, NEW j
                 PROVE  In(u, i, j) <=> In(t, i, j) /\ ~(i = k /\ j = n)
      OBVIOUS
    <3>1. CASE i = k
      BY <1>1, <1>2, <1>3, <3>1 DEF In, n
    <3>2. CASE i # k
      BY <1>2, <3>2 DEF In
    <3> QED
      BY <3>1, <3>2
  <2>2. \A x : x \in Slots(u) <=> \E i, j : x = <<i, j>> /\ In(u, i, j)
    BY <1>2, SlotsAre
  <2>3. \A x : x \in Slots(t) <=> \E i, j : x = <<i, j>> /\ In(t, i, j)
    BY SlotsAre
  <2>4. ASSUME NEW x
        PROVE  x \in Slots(u) <=> x \in Slots(t) /\ x # <<k, n>>
    <3>1. ASSUME NEW i, NEW j, x = <<i, j>>
          PROVE  In(u, i, j) <=> In(t, i, j) /\ x # <<k, n>>
      <4>1. x = <<k, n>> <=> i = k /\ j = n
        BY <3>1
      <4> QED
        BY <2>1, <4>1
    <3>2. ASSUME x \in Slots(u)
          PROVE  x \in Slots(t) /\ x # <<k, n>>
      <4>1. PICK i, j : x = <<i, j>> /\ In(u, i, j)
        BY <2>2, <3>2
      <4> QED
        BY <2>3, <3>1, <4>1
    <3>3. ASSUME x \in Slots(t), x # <<k, n>>
          PROVE  x \in Slots(u)
      <4>1. PICK i, j : x = <<i, j>> /\ In(t, i, j)
        BY <2>3, <3>3
      <4> QED
        BY <2>2, <3>1, <3>3, <4>1
    <3> QED
      BY <3>2, <3>3
  <2> QED
    BY <2>4
<1>9. ASSUME IsFiniteSet(Slots(t))
      PROVE  /\ IsFiniteSet(Slots(u)) /\ Cardinality(Slots(u)) = Cardinality(Slots(t)) - 1
             /\ Cardinality(Slots(t)) \in Nat \ {0}
  <2>1. /\ IsFiniteSet(Slots(u)) /\ Cardinality(Slots(u)) = Cardinality(Slots(t)) - 1
        /\ Cardinality(Slots(t)) \in Nat /\ Cardinality(Slots(u)) \in Nat
    <3> DEFINE S == Slots(t)
               x == <<k, n>>
    <3>1. IsFiniteSet(S) /\ x \in S /\ Slots(u) = S \ {x}
      BY <1>7, <1>8, <1>9
    <3> HIDE DEF S, x
    <3>2. IsFiniteSet(S \ {x}) /\ Cardinality(S \ {x}) = Cardinality(S) - 1
      BY <3>1, FS_RemoveElement
    <3>3. Cardinality(S) \in Nat /\ Cardinality(S \ {x}) \in Nat
      BY <3>1, <3>2, FS_CardinalityType
    <3> QED
      BY <3>1, <3>2, <3>3 DEF S
  <2> QED
    BY <2>1
<1> QED
  BY <1>2, <1>5, <1>6, <1>9 DEF u, PullOK

LEMMA SetMark ==
  ASSUME NEW cap \in Nat, NEW t \in Tables(cap), NEW k \in Nat, NEW m \in Nat, In(t, k, m),
         NEW b \in BOOLEAN
  PROVE  LET u == Set(t, k, m, b) IN
         /\ u \in Tables(cap) /\ Slots(u) = Slots(t)
         /\ \A i, j : In(u, i, j) <=> In(t, i, j)
         /\ \A i, j \in Nat : In(t, i, j) =>
              /\ u[i][j].p = t[i][j].p
              /\ u[i][j].mark = IF i = k /\ j = m THEN b ELSE t[i][j].mark
<1> DEFINE u == Set(t, k, m, b)
<1>1. t[k] \in Seq(Entry) /\ m \in 1..Len(t[k]) /\ k \in DOMAIN t /\ DOMAIN t = 0..(cap - 1)
  BY DEF In, Tables
<1> DEFINE s == t[k]
           e == [s[m] EXCEPT !.mark = b]
           v == [s EXCEPT ![m] = e]
<1>2. e \in Entry /\ e.p = s[m].p /\ e.mark = b
  BY <1>1, EntryAt DEF Entry
<1>3. u = [t EXCEPT ![k] = v]
  BY DEF Set
<1> HIDE DEF e
<1>4. v \in Seq(Entry) /\ Len(v) = Len(s) /\ \A j \in 1..Len(s) : v[j] = IF j = m THEN e ELSE s[j]
  BY <1>1, <1>2, ExceptSeq
<1> HIDE DEF v, u
<1>5. u \in Tables(cap) /\ DOMAIN u = DOMAIN t /\ u[k] = v /\ \A i \in DOMAIN t : i # k => u[i] = t[i]
  BY <1>1, <1>3, <1>4 DEF Tables
<1>6. \A i, j : In(u, i, j) <=> In(t, i, j)
  BY <1>4, <1>5 DEF In
<1>7. \A i \in DOMAIN t : Len(u[i]) = Len(t[i])
  BY <1>4, <1>5
<1>8. Slots(u) = Slots(t)
  BY <1>5, <1>7 DEF Slots
<1>9. ASSUME NEW i \in Nat, NEW j \in Nat, In(t, i, j)
      PROVE  /\ u[i][j].p = t[i][j].p
             /\ u[i][j].mark = IF i = k /\ j = m THEN b ELSE t[i][j].mark
  <2>1. CASE i = k
    BY <1>2, <1>4, <1>5, <1>9, <2>1 DEF In
  <2>2. CASE i # k
    BY <1>5, <1>9, <2>2 DEF In
  <2> QED
    BY <2>1, <2>2
<1> QED
  BY <1>5, <1>6, <1>8, <1>9 DEF u

-----------------------------------------------------------------------------
(* The collector's table.                                                  *)

\* Every non-empty set of numbers has a least one.
LEMMA LeastNat ==
  ASSUME NEW S \in SUBSET Nat, S # {}
  PROVE  \E m \in S : \A k \in S : m <= k
<1> DEFINE R == OpToRel(<, Nat)
<1>1. IsWellFoundedOn(R, Nat)
  BY NatLessThanWellFounded
<1>2. \A a, b \in Nat : a < b => <<a, b>> \in R
  BY DEF OpToRel
<1> HIDE DEF R
<1>3. PICK m \in S : \A k \in S : ~(<<k, m>> \in R)
  BY <1>1, WFMin
<1>4. \A k \in S : ~(k < m)
  BY <1>2, <1>3
<1>5. \A k \in S : m <= k
  BY <1>4
<1> QED
  BY <1>5

LEMMA IndexIn ==
  ASSUME capacity \in Nat \ {0}, NEW o \in Obj
  PROVE  Index(o) \in 0..(capacity - 1) /\ NewIndex(o) \in 0..(2 * capacity - 1)
<1>1. Hash[o] \in Nat
  BY GcConstants
<1> QED
  BY <1>1 DEF Index, NewIndex

\* search finds the entry of a block that has one.
LEMMA SearchFinds ==
  ASSUME TypeOK, Table(allocs, capacity, left), NEW o \in Obj
  PROVE  /\ Known(o) <=> Has(allocs, o)
         /\ Known(o) => /\ Index(o) \in Nat /\ Found(o) \in Nat
                        /\ In(allocs, Index(o), Found(o))
                        /\ allocs[Index(o)][Found(o)].p = o
                        /\ \A k \in Nat : In(allocs, Index(o), k) /\ allocs[Index(o)][k].p = o
                                          => Found(o) <= k
<1>1. Index(o) \in 0..(capacity - 1) /\ DOMAIN allocs = 0..(capacity - 1)
      /\ allocs[Index(o)] \in Seq(Entry)
  BY IndexIn DEF TypeOK, Table
<1>2. \A j : j \in Places(o) <=> j \in Nat /\ In(allocs, Index(o), j) /\ allocs[Index(o)][j].p = o
  BY <1>1, LenProperties DEF Places, Chain, In
<1>3. Has(allocs, o) => Known(o)
  <2> SUFFICES ASSUME NEW i \in Nat, NEW j \in Nat, In(allocs, i, j), allocs[i][j].p = o
               PROVE  j \in Places(o)
    BY DEF Has, Known
  <2>1. i = Index(o)
    BY DEF Table, Index
  <2> QED
    BY <1>2, <2>1
<1>4. ASSUME Known(o)
      PROVE  Found(o) \in Places(o) /\ \A k \in Places(o) : Found(o) <= k
  <2>1. Places(o) \in SUBSET Nat /\ Places(o) # {}
    BY <1>2, <1>4 DEF Known
  <2>2. \E m \in Places(o) : \A k \in Places(o) : m <= k
    BY <2>1, LeastNat
  <2> DEFINE Least(m) == m \in Places(o) /\ \A k \in Places(o) : m <= k
  <2>3. Found(o) = CHOOSE m : Least(m)
    BY DEF Found
  <2>4. \E m : Least(m)
    BY <2>2
  <2> HIDE DEF Least
  <2>5. Least(CHOOSE m : Least(m))
    BY <2>4
  <2> QED
    BY <2>3, <2>5 DEF Least
<1> QED
  BY <1>1, <1>2, <1>3, <1>4 DEF Has

\* An entry in front of its chain.
LEMMA PushTable ==
  ASSUME NEW cap \in Nat, NEW lost, NEW t, Table(t, cap, lost), NEW e \in Entry,
         NEW k \in 0..(cap - 1), Hash[e.p] % cap = k, e.p \notin lost => ~Has(t, e.p),
         NEW u, u = Pushed(t, k, e)
  PROVE  /\ Table(u, cap, lost)
         /\ Cardinality(Slots(u)) = Cardinality(Slots(t)) + 1
         /\ \A q : Has(u, q) <=> Has(t, q) \/ q = e.p
         /\ Clean(t) /\ ~e.mark => Clean(u)
<1>0. t \in Tables(cap) /\ IsFiniteSet(Slots(t))
  BY DEF Table, Tables
<1>a. PushOK(t, u, cap, k, e)
  BY <1>0, Push
<1>1. /\ u \in Tables(cap)
      /\ In(u, k, 1) /\ u[k][1] = e
      /\ IsFiniteSet(Slots(u)) /\ Cardinality(Slots(u)) = Cardinality(Slots(t)) + 1
  BY <1>0, <1>a DEF PushOK
<1>2. \A i, j \in Nat : In(t, i, j) => \E h \in Nat : In(u, i, h) /\ u[i][h] = t[i][j]
  BY <1>a DEF PushOK
<1>3. \A i, j \in Nat : In(u, i, j) /\ ~(i = k /\ j = 1) =>
        \E h \in Nat : In(t, i, h) /\ u[i][j] = t[i][h] /\ j = IF i = k THEN h + 1 ELSE h
  BY <1>a DEF PushOK
<1>4. ASSUME NEW i \in Nat, NEW j \in Nat, In(u, i, j)
      PROVE  Hash[u[i][j].p] % cap = i
  <2>1. CASE i = k /\ j = 1
    BY <1>1, <2>1
  <2>2. CASE ~(i = k /\ j = 1)
    <3>1. PICK h \in Nat : In(t, i, h) /\ u[i][j] = t[i][h]
      BY <1>3, <1>4, <2>2
    <3> QED
      BY <3>1 DEF Table
  <2> QED
    BY <2>1, <2>2
<1>5. \A i, j \in Nat : In(u, i, j) /\ u[i][j].p = e.p /\ e.p \notin lost => i = k /\ j = 1
  BY <1>3 DEF Has
<1>6. ASSUME NEW i \in Nat, NEW j \in Nat, NEW h \in Nat, In(u, i, j), In(u, i, h),
             u[i][j].p = u[i][h].p, u[i][j].p \notin lost
      PROVE  j = h
  <2>1. CASE u[i][j].p = e.p
    BY <1>5, <1>6, <2>1
  <2>2. CASE u[i][j].p # e.p
    <3>1. ~(i = k /\ j = 1) /\ ~(i = k /\ h = 1)
      BY <1>1, <1>6, <2>2
    <3>2. PICK x \in Nat : In(t, i, x) /\ u[i][j] = t[i][x] /\ j = IF i = k THEN x + 1 ELSE x
      BY <1>3, <1>6, <3>1
    <3>3. PICK y \in Nat : In(t, i, y) /\ u[i][h] = t[i][y] /\ h = IF i = k THEN y + 1 ELSE y
      BY <1>3, <1>6, <3>1
    <3>4. x = y
      BY <1>6, <3>2, <3>3 DEF Table
    <3> QED
      BY <3>2, <3>3, <3>4
  <2> QED
    BY <2>1, <2>2
<1>7. Table(u, cap, lost)
  BY <1>1, <1>4, <1>6 DEF Table, Tables
<1>8. ASSUME NEW q
      PROVE  Has(u, q) <=> Has(t, q) \/ q = e.p
  <2>1. k \in Nat /\ 1 \in Nat
    OBVIOUS
  <2>2. Has(u, q) => Has(t, q) \/ q = e.p
    BY <1>1, <1>3 DEF Has
  <2>3. Has(t, q) => Has(u, q)
    BY <1>2 DEF Has
  <2>4. q = e.p => Has(u, q)
    BY <1>1, <2>1 DEF Has
  <2> QED
    BY <2>2, <2>3, <2>4
<1>9. Clean(t) /\ ~e.mark => Clean(u)
  BY <1>1, <1>3 DEF Clean
<1> QED
  BY <1>1, <1>7, <1>8, <1>9

\* An entry leaves its chain.
LEMMA PullTable ==
  ASSUME NEW cap \in Nat, NEW lost, NEW t, Table(t, cap, lost),
         NEW k \in Nat, NEW m \in Nat, In(t, k, m),
         NEW u, u = Pulled(t, k, m)
  PROVE  /\ Table(u, cap, lost)
         /\ Cardinality(Slots(u)) = Cardinality(Slots(t)) - 1
         /\ Cardinality(Slots(t)) \in Nat \ {0}
         /\ \A q : q # t[k][m].p => (Has(u, q) <=> Has(t, q))
         /\ \A q : Has(u, q) => Has(t, q)
         /\ t[k][m].p \notin lost => ~Has(u, t[k][m].p)
         /\ Clean(t) => Clean(u)
<1>0. t \in Tables(cap) /\ IsFiniteSet(Slots(t))
  BY DEF Table, Tables
<1>a. PullOK(t, u, cap, k, m)
  BY <1>0, Pull
<1>1. /\ u \in Tables(cap)
      /\ IsFiniteSet(Slots(u)) /\ Cardinality(Slots(u)) = Cardinality(Slots(t)) - 1
      /\ Cardinality(Slots(t)) \in Nat \ {0}
  BY <1>0, <1>a DEF PullOK
<1>2. \A i, j \in Nat : In(t, i, j) /\ ~(i = k /\ j = m) =>
        \E h \in Nat : /\ In(u, i, h) /\ u[i][h] = t[i][j]
                       /\ h = IF i = k /\ j > m THEN j - 1 ELSE j
  BY <1>a DEF PullOK
<1>3. \A i, j \in Nat : In(u, i, j) =>
        \E h \in Nat : /\ In(t, i, h) /\ ~(i = k /\ h = m) /\ u[i][j] = t[i][h]
                       /\ j = IF i = k /\ h > m THEN h - 1 ELSE h
  BY <1>a DEF PullOK
<1>4. \A i, j \in Nat : In(u, i, j) => Hash[u[i][j].p] % cap = i
  BY <1>3 DEF Table
<1>5. ASSUME NEW i \in Nat, NEW j \in Nat, NEW h \in Nat, In(u, i, j), In(u, i, h),
             u[i][j].p = u[i][h].p, u[i][j].p \notin lost
      PROVE  j = h
  <2>1. PICK x \in Nat : In(t, i, x) /\ u[i][j] = t[i][x]
                         /\ j = IF i = k /\ x > m THEN x - 1 ELSE x
    BY <1>3, <1>5
  <2>2. PICK y \in Nat : In(t, i, y) /\ u[i][h] = t[i][y]
                         /\ h = IF i = k /\ y > m THEN y - 1 ELSE y
    BY <1>3, <1>5
  <2>3. x = y
    BY <1>5, <2>1, <2>2 DEF Table
  <2> QED
    BY <2>1, <2>2, <2>3
<1>6. Table(u, cap, lost)
  BY <1>1, <1>4, <1>5 DEF Table, Tables
<1>7. \A q : Has(u, q) => Has(t, q)
  BY <1>3 DEF Has
<1>8. \A q : q # t[k][m].p /\ Has(t, q) => Has(u, q)
  BY <1>2 DEF Has
<1>9. ASSUME t[k][m].p \notin lost
      PROVE  ~Has(u, t[k][m].p)
  <2> SUFFICES ASSUME NEW i \in Nat, NEW j \in Nat, In(u, i, j), u[i][j].p = t[k][m].p
               PROVE  FALSE
    BY DEF Has
  <2>1. PICK h \in Nat : In(t, i, h) /\ ~(i = k /\ h = m) /\ u[i][j] = t[i][h]
    BY <1>3
  <2>2. i = k
    <3>1. Hash[t[i][h].p] % cap = i
      BY <2>1 DEF Table
    <3>2. Hash[t[k][m].p] % cap = k
      BY DEF Table
    <3>3. t[i][h].p = t[k][m].p
      BY <2>1
    <3> QED
      BY <3>1, <3>2, <3>3
  <2>3. In(t, k, h) /\ t[k][h].p = t[k][m].p /\ h # m
    BY <2>1, <2>2
  <2>4. \A x, y \in Nat : In(t, k, x) /\ In(t, k, y) /\ t[k][x].p = t[k][y].p
                             /\ t[k][x].p \notin lost => x = y
    BY DEF Table
  <2>5. t[k][h].p \notin lost /\ In(t, k, m)
    BY <1>9, <2>3
  <2> QED
    BY ONLY <2>3, <2>4, <2>5, h \in Nat, m \in Nat
<1>10. Clean(t) => Clean(u)
  BY <1>3 DEF Clean
<1> QED
  BY <1>1, <1>6, <1>7, <1>8, <1>9, <1>10

\* A set that is closed bounds what is reached, and what is reached is closed.
LEMMA LedClosed ==
  ASSUME NEW s \in SUBSET Obj, NEW mem \in [Obj -> SUBSET Obj]
  PROVE  /\ Led(s, mem) \subseteq Obj /\ s \subseteq Led(s, mem)
         /\ \A q \in Led(s, mem) : mem[q] \subseteq Led(s, mem)
<1>1. Led(s, mem) \subseteq Obj /\ s \subseteq Led(s, mem)
  BY DEF Led
<1>2. ASSUME NEW q \in Led(s, mem), NEW o \in mem[q]
      PROVE  o \in Led(s, mem)
  <2>1. q \in Obj /\ o \in Obj
    BY DEF Led
  <2>2. ASSUME NEW S \in SUBSET Obj, s \subseteq S, \A x \in S : mem[x] \subseteq S
        PROVE  o \in S
    <3>1. q \in S
      BY <2>2 DEF Led
    <3> QED
      BY <2>2, <3>1
  <2> QED
    BY <2>1, <2>2 DEF Led
<1> QED
  BY <1>1, <1>2

LEMMA LedLeast ==
  ASSUME NEW s, NEW mem, NEW S \in SUBSET Obj, s \subseteq S, \A q \in S : mem[q] \subseteq S
  PROVE  Led(s, mem) \subseteq S
BY DEF Led

\* Only the words of the blocks that are reached count.
LEMMA LedSame ==
  ASSUME NEW s \in SUBSET Obj, NEW mem \in [Obj -> SUBSET Obj], NEW new \in [Obj -> SUBSET Obj],
         \A q \in Led(s, mem) : new[q] = mem[q]
  PROVE  Led(s, new) = Led(s, mem)
<1> DEFINE R == Led(s, mem)
           N == Led(s, new)
<1>1. R \subseteq Obj /\ s \subseteq R /\ \A q \in R : mem[q] \subseteq R
  BY LedClosed
<1>2. N \subseteq Obj /\ s \subseteq N /\ \A q \in N : new[q] \subseteq N
  BY LedClosed
<1>3. \A q \in R : new[q] = mem[q]
  OBVIOUS
<1> HIDE DEF R, N
<1>4. N \subseteq R
  <2>1. R \in SUBSET Obj /\ s \subseteq R /\ \A q \in R : new[q] \subseteq R
    BY <1>1, <1>3
  <2> QED
    BY <2>1, LedLeast DEF N
<1>5. R \subseteq R \cap N
  <2>1. R \cap N \in SUBSET Obj /\ s \subseteq R \cap N
    BY <1>1, <1>2
  <2>2. \A q \in R \cap N : mem[q] \subseteq R \cap N
    BY <1>1, <1>2, <1>3
  <2> QED
    BY <2>1, <2>2, LedLeast DEF R
<1> QED
  BY <1>4, <1>5 DEF R, N

\* The operators of the model, in terms of the ones above.
LEMMA ReachIsLed == \A mem : Reach(mem) = Led(stack, mem)
BY DEF Reach, Closed, Led

LEMMA MarkedIsMarkedIn ==
  ASSUME TypeOK, Table(allocs, capacity, left)
  PROVE  /\ Tracked = {o \in Obj : Has(allocs, o)}
         /\ Marked = {o \in Obj : MarkedIn(allocs, o)}
         /\ Scanned = Scan(allocs, words, junk)
<1>1. \A o \in Obj : Known(o) <=> Has(allocs, o)
  BY SearchFinds
<1>2. ASSUME NEW o \in Obj, Known(o)
      PROVE  Chain(o)[Found(o)].mark <=> MarkedIn(allocs, o)
  <2> DEFINE i == Index(o)
             f == Found(o)
  <2>1. i \in Nat /\ f \in Nat /\ In(allocs, i, f) /\ allocs[i][f].p = o
    BY <1>2, SearchFinds
  <2>2. \A k \in Nat : In(allocs, i, k) /\ allocs[i][k].p = o => f <= k
    BY <1>2, SearchFinds
  <2>3. \A x, y \in Nat : In(allocs, x, y) /\ allocs[x][y].p = o => x = i
    BY DEF Table, Index
  <2>4. Chain(o)[Found(o)] = allocs[i][f]
    BY DEF Chain
  <2> HIDE DEF i, f
  <2>5. ASSUME NEW x \in Nat, NEW y \in Nat, In(allocs, x, y), allocs[x][y].p = o,
               \A k \in Nat : In(allocs, x, k) /\ allocs[x][k].p = o => y <= k
        PROVE  x = i /\ y = f
    <3>1. x = i
      BY <2>3, <2>5
    <3>2. y <= f /\ f <= y
      BY <2>1, <2>2, <2>5, <3>1
    <3> QED
      BY <2>1, <2>5, <3>1, <3>2
  <2> QED
    BY <2>1, <2>2, <2>4, <2>5 DEF MarkedIn
<1>3. \A o \in Obj : MarkedIn(allocs, o) => Has(allocs, o)
  BY DEF MarkedIn, Has
<1> QED
  BY <1>1, <1>2, <1>3 DEF Tracked, Marked, Scanned, Scan

\* A mark changes nothing else.
LEMMA MarkTable ==
  ASSUME NEW cap \in Nat, NEW lost, NEW t, Table(t, cap, lost), NEW b \in BOOLEAN,
         NEW k \in Nat, NEW m \in Nat, In(t, k, m), NEW u, u = Set(t, k, m, b)
  PROVE  /\ Table(u, cap, lost) /\ Slots(u) = Slots(t)
         /\ \A i, j : In(u, i, j) <=> In(t, i, j)
         /\ \A i, j \in Nat : In(t, i, j) =>
              /\ u[i][j].p = t[i][j].p
              /\ u[i][j].mark = IF i = k /\ j = m THEN b ELSE t[i][j].mark
         /\ \A q : Has(u, q) <=> Has(t, q)
<1>0. t \in Tables(cap) /\ IsFiniteSet(Slots(t))
  BY DEF Table, Tables
<1>1. /\ u \in Tables(cap) /\ Slots(u) = Slots(t)
      /\ \A i, j : In(u, i, j) <=> In(t, i, j)
  BY <1>0, SetMark
<1>2. \A i, j \in Nat : In(t, i, j) =>
        /\ u[i][j].p = t[i][j].p
        /\ u[i][j].mark = IF i = k /\ j = m THEN b ELSE t[i][j].mark
  BY <1>0, SetMark
<1>3. Table(u, cap, lost)
  <2>1. \A i, j \in Nat : In(u, i, j) => Hash[u[i][j].p] % cap = i
    BY <1>1, <1>2 DEF Table
  <2>2. \A i, x, y \in Nat : In(u, i, x) /\ In(u, i, y) /\ u[i][x].p = u[i][y].p
                                /\ u[i][x].p \notin lost => x = y
    <3> SUFFICES ASSUME NEW i \in Nat, NEW x \in Nat, NEW y \in Nat, In(u, i, x), In(u, i, y),
                        u[i][x].p = u[i][y].p, u[i][x].p \notin lost
                 PROVE  x = y
      OBVIOUS
    <3>1. /\ In(t, i, x) /\ In(t, i, y) /\ t[i][x].p = t[i][y].p /\ t[i][x].p \notin lost
      BY <1>1, <1>2
    <3> QED
      BY <3>1 DEF Table
  <2> QED
    BY <1>0, <1>1, <2>1, <2>2 DEF Table, Tables
<1>4. \A q : Has(u, q) <=> Has(t, q)
  BY <1>1, <1>2 DEF Has
<1> QED
  BY <1>1, <1>2, <1>3, <1>4

-----------------------------------------------------------------------------
(* The program's steps.                                                    *)

LEMMA InvInit == Init => GInv
<1> SUFFICES ASSUME Init PROVE GInv
  OBVIOUS
<1>0. Capacity \in Nat \ {0}
  BY GcConstants
<1>1. DOMAIN allocs = 0..(capacity - 1) /\ \A i \in DOMAIN allocs : allocs[i] = << >>
  BY DEF Init, Empty
<1>2. \A i, j : ~In(allocs, i, j)
  BY <1>1 DEF In
<1>3. allocs \in Tables(capacity)
  BY DEF Init, Empty, Tables
<1>4. Slots(allocs) = {}
  BY <1>0, <1>2, <1>3, SlotsAre DEF Init
<1>5. IsFiniteSet(Slots(allocs)) /\ Cardinality(Slots(allocs)) = 0
  BY <1>4, FS_EmptySet
<1>6. TypeOK
  BY <1>0 DEF Init, TypeOK
<1>7. Table(allocs, capacity, left)
  BY <1>2, <1>3, <1>5 DEF Table, Tables
<1>8. \A o : ~Has(allocs, o)
  BY <1>2 DEF Has
<1>9. Owners /\ LoadOK /\ Clean(allocs)
  BY <1>0, <1>2, <1>8 DEF Init, Owners, LoadOK, Clean
<1>10. Used \subseteq {}
  BY LedLeast DEF Init, Used
<1> QED
  BY <1>5, <1>6, <1>7, <1>9, <1>10 DEF GInv, Init

LEMMA UsedClosed ==
  ASSUME TypeOK
  PROVE  /\ Used \subseteq Obj /\ stack \subseteq Used
         /\ \A q \in Used : words[q] \subseteq Used
BY LedClosed DEF TypeOK, Used

LEMMA ProgramInv ==
  ASSUME GInv, Running, UNCHANGED <<gcvars, heap, pc, todo, at, call, left, fate>>,
         stack' \in SUBSET Obj, words' \in [Obj -> SUBSET Obj], junk' \in [Obj -> SUBSET Obj],
         stack' \subseteq Used, \A q \in Used : words'[q] \subseteq Used
  PROVE  GInv'
<1>1. TypeOK'
  BY DEF GInv, TypeOK, gcvars, Running
<1>2. Table(allocs, capacity, left)' /\ size' = Cardinality(Slots(allocs))'
  BY DEF GInv, gcvars
<1>3. Owners' /\ LoadOK' /\ Clean(allocs)'
  BY DEF GInv, Owners, LoadOK, gcvars, Running
<1>4. Used' \subseteq Used
  <2>1. Used \in SUBSET Obj
    BY UsedClosed DEF GInv
  <2> DEFINE U == Used
  <2>2. Used' = Led(stack', words')
    BY DEF Used
  <2>3. U \in SUBSET Obj /\ stack' \subseteq U /\ \A q \in U : words'[q] \subseteq U
    BY <2>1
  <2> HIDE DEF U
  <2>4. Led(stack', words') \subseteq U
    BY <2>3, LedLeast
  <2> QED
    BY <2>2, <2>4 DEF U
<1>5. \A o \in Used' : Has(allocs, o)'
  BY <1>4 DEF GInv, gcvars
<1> QED
  BY <1>1, <1>2, <1>3, <1>5 DEF GInv, Running

LEMMA LoadInv == ASSUME GInv, NEW o \in Obj, Load(o) PROVE GInv'
<1>1. /\ Used \subseteq Obj /\ stack \subseteq Used
      /\ \A q \in Used : words[q] \subseteq Used
  BY UsedClosed DEF GInv
<1>2. stack' \subseteq Used
  BY <1>1 DEF Load
<1>3. UNCHANGED <<gcvars, heap, words, junk, pc, todo, at, call, left, fate>> /\ Running
  BY DEF Load
<1> QED
  BY <1>1, <1>2, <1>3, ProgramInv DEF GInv, TypeOK

LEMMA DropInv == ASSUME GInv, NEW o \in Obj, Drop(o) PROVE GInv'
<1>1. /\ Used \subseteq Obj /\ stack \subseteq Used
      /\ \A q \in Used : words[q] \subseteq Used
  BY UsedClosed DEF GInv
<1>2. stack' \subseteq Used
  BY <1>1 DEF Drop
<1>3. UNCHANGED <<gcvars, heap, words, junk, pc, todo, at, call, left, fate>> /\ Running
  BY DEF Drop
<1> QED
  BY <1>1, <1>2, <1>3, ProgramInv DEF GInv, TypeOK

LEMMA StoreInv == ASSUME GInv, NEW q \in Obj, NEW o \in Obj, Store(q, o) PROVE GInv'
<1>1. /\ Used \subseteq Obj /\ stack \subseteq Used
      /\ \A x \in Used : words[x] \subseteq Used
  BY UsedClosed DEF GInv
<1>2. words \in [Obj -> SUBSET Obj] /\ junk \in [Obj -> SUBSET Obj] /\ stack \in SUBSET Obj
  BY DEF GInv, TypeOK
<1>3. words' \in [Obj -> SUBSET Obj] /\ \A x \in Used : words'[x] \subseteq Used
  BY <1>1, <1>2 DEF Store
<1>4. UNCHANGED <<gcvars, heap, stack, junk, pc, todo, at, call, left, fate>> /\ Running
  BY DEF Store
<1> QED
  BY <1>1, <1>2, <1>3, <1>4, ProgramInv

LEMMA WipeInv == ASSUME GInv, NEW q \in Obj, Wipe(q) PROVE GInv'
<1>1. /\ Used \subseteq Obj /\ stack \subseteq Used
      /\ \A x \in Used : words[x] \subseteq Used
  BY UsedClosed DEF GInv
<1>2. words \in [Obj -> SUBSET Obj] /\ junk \in [Obj -> SUBSET Obj] /\ stack \in SUBSET Obj
  BY DEF GInv, TypeOK
<1>3. /\ words' \in [Obj -> SUBSET Obj] /\ junk' \in [Obj -> SUBSET Obj]
      /\ \A x \in Used : words'[x] \subseteq Used
  BY <1>1, <1>2 DEF Wipe
<1>4. UNCHANGED <<gcvars, heap, stack, pc, todo, at, call, left, fate>> /\ Running
  BY DEF Wipe
<1> QED
  BY <1>1, <1>2, <1>3, <1>4, ProgramInv

LEMMA LiveClosed ==
  ASSUME TypeOK
  PROVE  /\ Scan(allocs, words, junk) \in [Obj -> SUBSET Obj]
         /\ Live \subseteq Obj /\ stack \subseteq Live
         /\ \A q \in Live : Has(allocs, q) => words[q] \cup junk[q] \subseteq Live
<1> DEFINE mem == Scan(allocs, words, junk)
<1>1. mem \in [Obj -> SUBSET Obj] /\ \A q \in Obj : Has(allocs, q) => mem[q] = words[q] \cup junk[q]
  BY DEF TypeOK, Scan
<1>2. Live = Led(stack, mem) /\ stack \in SUBSET Obj
  BY DEF TypeOK, Live
<1> HIDE DEF mem
<1>3. /\ Live \subseteq Obj /\ stack \subseteq Live
      /\ \A q \in Live : mem[q] \subseteq Live
  BY <1>1, <1>2, LedClosed
<1> QED
  BY <1>1, <1>3 DEF mem

\* A call starts: a collection has nothing marked.
LEMMA BeginInv ==
  ASSUME GInv, NEW name \in {"malloc", "calloc", "realloc", "collect"}, NEW o \in Obj \cup {NULL},
         name = "realloc" => o \in stack, Begin(name, o)
  PROVE  GInv'
<1>1. UNCHANGED <<gcvars, heap, progvars, at, left, fate>> /\ pc = "run" /\ call' = <<name, o>>
      /\ pc' \in {"mark", "alloc"} /\ todo' \in {stack, todo}
  BY DEF Begin, Running
<1>2. TypeOK'
  BY <1>1 DEF GInv, TypeOK, gcvars, progvars
<1>3. Table(allocs, capacity, left)' /\ size' = Cardinality(Slots(allocs))'
  BY <1>1 DEF GInv, gcvars
<1>4. Owners' /\ Clean(allocs) /\ Clean(allocs)'
  BY <1>1 DEF GInv, Owners, gcvars
<1>5. LoadOK'
  <2>1. size \in Nat /\ capacity \in Nat /\ size <= (capacity \div 2) + 1
    BY DEF GInv, TypeOK, LoadOK
  <2>2. (capacity \div 2) \in Nat
    BY <2>1
  <2>3. pc' = "alloc" => ~(size > capacity \div 2)
    BY DEF Begin, NeedCollect
  <2>4. size' = size /\ capacity' = capacity
    BY <1>1 DEF gcvars
  <2> QED
    BY <2>1, <2>2, <2>3, <2>4 DEF LoadOK
<1>6. Used' = Used
  BY <1>1 DEF Used, progvars
<1>7. \A x \in Used' : Has(allocs, x)'
  BY <1>1, <1>6 DEF GInv, gcvars
<1>8. ASSUME pc' = "mark"
      PROVE  Marking'
  <2>1. todo' = stack
    BY <1>8 DEF Begin
  <2>2. Live' = Live
    BY <1>1 DEF Live, gcvars, progvars
  <2>3. stack \subseteq Live
    BY LiveClosed DEF GInv
  <2>4. allocs' = allocs /\ stack' = stack
    BY <1>1 DEF gcvars, progvars
  <2>5. \A q : ~MarkedIn(allocs, q)
    BY <1>4 DEF MarkedIn, Clean
  <2>6. todo' \subseteq Live'
    BY <2>1, <2>2, <2>3
  <2>7. \A i, j \in Nat : In(allocs', i, j) => ~allocs'[i][j].mark
    BY <1>4, <2>4 DEF Clean
  <2>8. \A q : ~MarkedIn(allocs', q)
    BY <2>4, <2>5
  <2> QED
    BY <2>1, <2>4, <2>6, <2>7, <2>8 DEF Marking
<1> QED
  BY <1>1, <1>2, <1>3, <1>4, <1>5, <1>7, <1>8 DEF GInv

LEMMA StartAllocInv ==
  ASSUME GInv, NEW name \in {"malloc", "calloc"}, StartAlloc(name)
  PROVE  GInv'
BY BeginInv DEF StartAlloc

LEMMA StartReallocInv == ASSUME GInv, NEW o \in Obj, StartRealloc(o) PROVE GInv'
BY BeginInv DEF StartRealloc

LEMMA CollectInv == ASSUME GInv, Begin("collect", NULL) PROVE GInv'
BY BeginInv

\* A new entry for block o.
LEMMA RegisterTable ==
  ASSUME TypeOK, NEW lost, Table(allocs, capacity, lost), size = Cardinality(Slots(allocs)),
         NEW o \in Obj, o \notin lost => ~Has(allocs, o), Register(o)
  PROVE  /\ Table(allocs', capacity', lost) /\ size' = Cardinality(Slots(allocs'))
         /\ \A q : Has(allocs', q) <=> Has(allocs, q) \/ q = o
         /\ Clean(allocs) => Clean(allocs')
<1> DEFINE e == [p |-> o, mark |-> FALSE]
<1>1. e \in Entry /\ e.p = o /\ ~e.mark
  BY DEF Entry
<1>2. capacity \in Nat /\ Index(o) \in 0..(capacity - 1) /\ Hash[o] % capacity = Index(o)
  BY IndexIn DEF TypeOK, Index
<1>3. allocs' = Pushed(allocs, Index(o), e) /\ size' = size + 1 /\ capacity' = capacity
  BY DEF Register, Pushed
<1> HIDE DEF e
<1>4. /\ Table(allocs', capacity, lost)
      /\ Cardinality(Slots(allocs')) = Cardinality(Slots(allocs)) + 1
      /\ \A q : Has(allocs', q) <=> Has(allocs, q) \/ q = e.p
      /\ Clean(allocs) /\ ~e.mark => Clean(allocs')
  BY <1>1, <1>2, <1>3, PushTable
<1> QED
  BY <1>1, <1>3, <1>4

LEMMA MoreLost ==
  ASSUME NEW t, NEW cap, NEW lost, NEW more, Table(t, cap, lost), lost \subseteq more
  PROVE  Table(t, cap, more)
BY DEF Table

LEMMA LoadStep ==
  ASSUME GInv, pc' = "run", capacity' = capacity,
         (size' = size + 1 /\ pc = "alloc") \/ size' = size - 1
  PROVE  LoadOK'
<1> DEFINE h == capacity \div 2
<1>1. capacity \in Nat /\ size \in Nat
  BY DEF GInv, TypeOK
<1>2. h \in Nat
  BY <1>1
<1>3. size <= h + 1 /\ (pc = "alloc" => size <= h)
  BY DEF GInv, LoadOK
<1> HIDE DEF h
<1>4. size' <= h + 1
  BY <1>1, <1>2, <1>3
<1>5. size' <= (capacity' \div 2) + 1 /\ pc' # "alloc"
  BY <1>4 DEF h
<1> QED
  BY <1>5 DEF LoadOK

\* The last step of a call that gives the program block o.
LEMMA AllocInv == ASSUME GInv, NEW o \in Obj, Alloc(o) PROVE GInv'
<1>0. /\ pc = "alloc" /\ fate = "ok" /\ o \notin heap /\ heap' = heap \cup {o}
      /\ Register(o) /\ stack' = stack \cup {o} /\ pc' = "run" /\ call' = <<"none", NULL>>
      /\ UNCHANGED <<todo, at, fate, left>>
      /\ size' = size + 1 /\ capacity' = capacity
  BY DEF Alloc, Finish, Register
<1>1. words \in [Obj -> SUBSET Obj] /\ junk \in [Obj -> SUBSET Obj] /\ size \in Nat
  BY DEF GInv, TypeOK
<1>2. /\ words' \in [Obj -> SUBSET Obj] /\ words'[o] = {}
      /\ \A q \in Obj : q # o => words'[q] = words[q]
  BY <1>1 DEF Alloc
<1>3. junk' \in [Obj -> SUBSET Obj]
  BY <1>1 DEF Alloc
<1>4. TypeOK'
  BY <1>0, <1>1, <1>2, <1>3 DEF GInv, TypeOK
<1>5. o \notin left => ~Has(allocs, o)
  BY <1>0 DEF GInv, Owners
<1>6. /\ Table(allocs', capacity', left') /\ size' = Cardinality(Slots(allocs'))
      /\ \A q : Has(allocs', q) <=> Has(allocs, q) \/ q = o
      /\ Clean(allocs')
  BY <1>0, <1>5, RegisterTable DEF GInv
<1>7. Owners'
  BY <1>0, <1>6 DEF GInv, Owners
<1>8. LoadOK'
  BY <1>0, LoadStep
<1>9. Used' \subseteq Used \cup {o}
  <2> DEFINE U == Used \cup {o}
  <2>1. /\ Used \subseteq Obj /\ stack \subseteq Used
        /\ \A q \in Used : words[q] \subseteq Used
    BY UsedClosed DEF GInv
  <2>2. U \in SUBSET Obj /\ stack' \subseteq U /\ \A q \in U : words'[q] \subseteq U
    BY <1>0, <1>2, <2>1
  <2>3. Used' = Led(stack', words')
    BY DEF Used
  <2> HIDE DEF U
  <2>4. Led(stack', words') \subseteq U
    BY <2>2, LedLeast
  <2> QED
    BY <2>3, <2>4 DEF U
<1>10. \A q \in Used' : Has(allocs', q)
  BY <1>6, <1>9 DEF GInv
<1> QED
  BY <1>0, <1>4, <1>6, <1>7, <1>8, <1>10 DEF GInv

LEMMA ReallocInPlaceInv == ASSUME GInv, ReallocInPlace PROVE GInv'
<1> DEFINE o == call[2]
<1>0. /\ pc = "alloc" /\ fate = "ok" /\ left' = left \cup {o}
      /\ Register(o) /\ stack' = stack \cup {o} /\ pc' = "run" /\ call' = <<"none", NULL>>
      /\ UNCHANGED <<todo, at, fate, heap, words, junk>>
      /\ size' = size + 1 /\ capacity' = capacity /\ o \in stack
  BY DEF ReallocInPlace, Finish, Register, GInv, TypeOK
<1>1. o \in Obj /\ stack' = stack
  BY <1>0 DEF GInv, TypeOK
<1> HIDE DEF o
<1>2. TypeOK'
  BY <1>0, <1>1 DEF GInv, TypeOK
<1>3. Table(allocs, capacity, left')
  BY <1>0, MoreLost DEF GInv
<1>4. /\ Table(allocs', capacity', left') /\ size' = Cardinality(Slots(allocs'))
      /\ \A q : Has(allocs', q) <=> Has(allocs, q) \/ q = o
      /\ Clean(allocs')
  BY <1>0, <1>1, <1>3, RegisterTable DEF GInv
<1>5. Owners'
  BY <1>0, <1>4 DEF GInv, Owners
<1>6. LoadOK'
  BY <1>0, LoadStep
<1>7. Used' = Used
  BY <1>0, <1>1 DEF Used
<1>8. \A q \in Used' : Has(allocs', q)
  BY <1>4, <1>7 DEF GInv
<1> QED
  BY <1>0, <1>2, <1>4, <1>5, <1>6, <1>8 DEF GInv

LEMMA ReallocMoveInv == ASSUME GInv, NEW o \in Obj, ReallocMove(o) PROVE GInv'
<1> DEFINE old == call[2]
<1>0. /\ pc = "alloc" /\ fate = "ok" /\ o \notin heap /\ heap' = (heap \cup {o}) \ {old}
      /\ Register(o) /\ stack' = (stack \cup {o}) \ {old}
      /\ pc' = "run" /\ call' = <<"none", NULL>> /\ left' = left \cup {old}
      /\ UNCHANGED <<todo, at, fate>>
      /\ size' = size + 1 /\ capacity' = capacity /\ old \in stack
  BY DEF ReallocMove, Register, GInv, TypeOK
<1>1. words \in [Obj -> SUBSET Obj] /\ junk \in [Obj -> SUBSET Obj] /\ old \in Obj
  BY <1>0 DEF GInv, TypeOK
<1>2. /\ words' \in [Obj -> SUBSET Obj]
      /\ \A q \in Obj : words'[q] = (IF q = o THEN words[old] ELSE words[q]) \ {old}
  BY <1>1 DEF ReallocMove
<1>3. junk' \in [Obj -> SUBSET Obj]
  BY <1>1 DEF ReallocMove
<1> HIDE DEF old
<1>4. TypeOK'
  BY <1>0, <1>1, <1>2, <1>3 DEF GInv, TypeOK
<1>5. o \notin left => ~Has(allocs, o)
  BY <1>0 DEF GInv, Owners
<1>6. Table(allocs, capacity, left')
  BY <1>0, MoreLost DEF GInv
<1>7. /\ Table(allocs', capacity', left') /\ size' = Cardinality(Slots(allocs'))
      /\ \A q : Has(allocs', q) <=> Has(allocs, q) \/ q = o
      /\ Clean(allocs')
  BY <1>0, <1>5, <1>6, RegisterTable DEF GInv
<1>8. Owners'
  BY <1>0, <1>7 DEF GInv, Owners
<1>9. LoadOK'
  BY <1>0, LoadStep
<1>10. Used' \subseteq Used \cup {o}
  <2> DEFINE U == (Used \cup {o}) \ {old}
  <2>1. /\ Used \subseteq Obj /\ stack \subseteq Used
        /\ \A q \in Used : words[q] \subseteq Used
    BY UsedClosed DEF GInv
  <2>2. U \in SUBSET Obj /\ stack' \subseteq U
    BY <1>0, <2>1
  <2>3. ASSUME NEW q \in U
        PROVE  words'[q] \subseteq U
    <3>1. (IF q = o THEN words[old] ELSE words[q]) \subseteq Used
      BY <1>0, <2>1
    <3> QED
      BY <1>2, <2>1, <3>1
  <2>4. Used' = Led(stack', words') /\ U \subseteq Used \cup {o}
    BY DEF Used
  <2> HIDE DEF U
  <2>5. Led(stack', words') \subseteq U
    BY <2>2, <2>3, LedLeast
  <2> QED
    BY <2>4, <2>5
<1>11. \A q \in Used' : Has(allocs', q)
  BY <1>7, <1>10 DEF GInv
<1> QED
  BY <1>0, <1>4, <1>7, <1>8, <1>9, <1>11 DEF GInv

\* An entry goes, and its block with it.
LEMMA FreeTable ==
  ASSUME TypeOK, Table(allocs, capacity, left), size = Cardinality(Slots(allocs)), Owners,
         NEW i \in Nat, NEW j \in Nat, In(allocs, i, j), FreeAlloc(i, j),
         left' = left, capacity' = capacity
  PROVE  /\ allocs' = Pulled(allocs, i, j)
         /\ Table(allocs', capacity', left') /\ size' = Cardinality(Slots(allocs'))
         /\ size' = size - 1 /\ size' \in Nat
         /\ Owners' /\ fate' \in {"ok", "double free"}
         /\ \A q : q # allocs[i][j].p => (Has(allocs', q) <=> Has(allocs, q))
         /\ Clean(allocs) => Clean(allocs')
<1> DEFINE o == allocs[i][j].p
<1>1. /\ allocs' = Pulled(allocs, i, j) /\ size' = size - 1 /\ heap' = heap \ {o}
      /\ fate' = IF o \in heap THEN fate ELSE "double free"
  BY DEF FreeAlloc, Pulled
<1>2. capacity \in Nat /\ size \in Nat /\ fate \in {"ok", "double free"} /\ heap \subseteq Obj
  BY DEF TypeOK
<1>3. allocs \in Tables(capacity)
  BY DEF Table, Tables
<1>4. o \in Obj
  BY <1>2, <1>3, InTable
<1>5. /\ Table(allocs', capacity, left)
      /\ Cardinality(Slots(allocs')) = Cardinality(Slots(allocs)) - 1
      /\ Cardinality(Slots(allocs)) \in Nat \ {0}
      /\ \A q : q # o => (Has(allocs', q) <=> Has(allocs, q))
      /\ o \notin left => ~Has(allocs', o)
      /\ Clean(allocs) => Clean(allocs')
  <2>1. allocs' = Pulled(allocs, i, j) /\ capacity \in Nat
    BY <1>1, <1>2
  <2>2. /\ Table(allocs', capacity, left)
        /\ Cardinality(Slots(allocs')) = Cardinality(Slots(allocs)) - 1
        /\ Cardinality(Slots(allocs)) \in Nat \ {0}
        /\ allocs[i][j].p \notin left => ~Has(allocs', allocs[i][j].p)
        /\ Clean(allocs) => Clean(allocs')
    BY <2>1, PullTable
  <2>3. ASSUME NEW q, q # allocs[i][j].p
        PROVE  Has(allocs', q) <=> Has(allocs, q)
    BY <2>1, <2>3, PullTable
  <2> QED
    BY <2>2, <2>3
<1> HIDE DEF o
<1>6. Has(allocs, o)
  BY DEF Has, o
<1>7. Owners'
  BY <1>1, <1>2, <1>4, <1>5, <1>6 DEF Owners
<1> QED
  <2>1. size' \in Nat /\ size' = Cardinality(Slots(allocs'))
    <3>1. size = Cardinality(Slots(allocs)) /\ size \in Nat \ {0}
      BY <1>5
    <3>2. size' = size - 1 /\ Cardinality(Slots(allocs')) = Cardinality(Slots(allocs)) - 1
      BY <1>1, <1>5
    <3> QED
      BY ONLY <3>1, <3>2
  <2>2. fate' \in {"ok", "double free"}
    BY <1>1, <1>2
  <2> QED
    BY <1>1, <1>5, <1>7, <2>1, <2>2 DEF o

LEMMA GcFreeInv == ASSUME GInv, NEW o \in Obj, GcFree(o) PROVE GInv'
<1> DEFINE i == Index(o)
           j == Found(o)
<1>0. /\ pc = "run" /\ pc' = pc /\ UNCHANGED <<capacity, words, junk, todo, at, call, left>>
      /\ stack' = stack \ {o} /\ FreeAlloc(i, j) /\ heap' \subseteq heap
  BY DEF GcFree, FreeAlloc, Running
<1>1. i \in Nat /\ j \in Nat /\ In(allocs, i, j) /\ allocs[i][j].p = o
  BY SearchFinds DEF GInv, GcFree
<1> HIDE DEF i, j
<1>2. /\ Table(allocs', capacity', left') /\ size' = Cardinality(Slots(allocs'))
      /\ size' = size - 1 /\ size' \in Nat
      /\ Owners' /\ fate' \in {"ok", "double free"}
      /\ \A q : q # o => (Has(allocs', q) <=> Has(allocs, q))
      /\ Clean(allocs')
  BY <1>0, <1>1, FreeTable DEF GInv
<1>3. TypeOK'
  BY <1>0, <1>2 DEF GInv, TypeOK
<1>4. LoadOK'
  BY <1>0, <1>2, LoadStep
<1>5. Used' \subseteq Used \ {o}
  <2> DEFINE U == Used \ {o}
  <2>1. /\ Used \subseteq Obj /\ stack \subseteq Used
        /\ \A q \in Used : words[q] \subseteq Used
    BY UsedClosed DEF GInv
  <2>2. \A q \in Obj : o \notin words[q]
    BY DEF GcFree
  <2>3. U \in SUBSET Obj /\ stack' \subseteq U /\ \A q \in U : words'[q] \subseteq U
    BY <1>0, <2>1, <2>2
  <2>4. Used' = Led(stack', words')
    BY DEF Used
  <2> HIDE DEF U
  <2>5. Led(stack', words') \subseteq U
    BY <2>3, LedLeast
  <2> QED
    BY <2>4, <2>5 DEF U
<1>6. \A q \in Used' : Has(allocs', q)
  BY <1>2, <1>5 DEF GInv
<1> QED
  BY <1>0, <1>2, <1>3, <1>4, <1>6 DEF GInv

-----------------------------------------------------------------------------
(* The collector's steps.                                                  *)

\* What a step of the collector leaves as it is.
LEMMA SameHas ==
  ASSUME \A o : Has(allocs', o) <=> Has(allocs, o), UNCHANGED <<progvars, heap, left, fate>>
  PROVE  /\ Live' = Live /\ Used' = Used
         /\ Owners => Owners'
<1>1. Scan(allocs', words', junk') = Scan(allocs, words, junk)
  BY DEF Scan, progvars
<1>2. Live' = Live /\ Used' = Used
  BY <1>1 DEF Live, Used, progvars
<1>3. Owners => Owners'
  BY DEF Owners
<1> QED
  BY <1>2, <1>3

LEMMA MarkInv == ASSUME GInv, NEW o \in Obj, Mark(o) PROVE GInv'
<1>0. /\ pc = "mark" /\ pc' = "mark" /\ o \in todo
      /\ UNCHANGED <<capacity, size, new_allocs, heap, progvars, at, call, left, fate>>
  BY DEF Mark
<1>1. Marking
  BY <1>0 DEF GInv
<1>2. CASE ~(Known(o) /\ ~Chain(o)[Found(o)].mark)
  <2>1. allocs' = allocs /\ todo' = todo \ {o}
    BY <1>2 DEF Mark
  <2>2. Has(allocs, o) => MarkedIn(allocs, o)
    <3>1. Known(o) <=> Has(allocs, o)
      BY SearchFinds DEF GInv
    <3>2. Tracked = {q \in Obj : Has(allocs, q)} /\ Marked = {q \in Obj : MarkedIn(allocs, q)}
      BY MarkedIsMarkedIn DEF GInv
    <3>3. Known(o) => o \in Marked
      BY <1>2 DEF Marked, Tracked
    <3> QED
      BY <3>1, <3>2, <3>3
  <2>3. TypeOK'
    BY <1>0, <2>1 DEF GInv, TypeOK, progvars
  <2>4. Live' = Live /\ Used' = Used /\ Owners'
    BY <1>0, <2>1, SameHas DEF GInv
  <2>5. Marking'
    BY <1>0, <1>1, <2>1, <2>2, <2>4 DEF Marking, progvars
  <2>6. LoadOK' /\ Table(allocs, capacity, left)' /\ size' = Cardinality(Slots(allocs'))
    BY <1>0, <2>1 DEF GInv, LoadOK
  <2>7. \A q \in Used' : Has(allocs', q)
    BY <2>1, <2>4 DEF GInv
  <2> QED
    BY <1>0, <2>3, <2>4, <2>5, <2>6, <2>7 DEF GInv
<1>3. CASE Known(o) /\ ~Chain(o)[Found(o)].mark
  <2> DEFINE i == Index(o)
             j == Found(o)
  <2>1. /\ i \in Nat /\ j \in Nat /\ In(allocs, i, j) /\ allocs[i][j].p = o
        /\ \A k \in Nat : In(allocs, i, k) /\ allocs[i][k].p = o => j <= k
    BY <1>3, SearchFinds DEF GInv
  <2>2. allocs' = Set(allocs, i, j, TRUE) /\ todo' = (todo \ {o}) \cup words[o] \cup junk[o]
    BY <1>3 DEF Mark, Set
  <2> HIDE DEF i, j
  <2>3. /\ Table(allocs', capacity, left) /\ Slots(allocs') = Slots(allocs)
        /\ \A x, y : In(allocs', x, y) <=> In(allocs, x, y)
        /\ \A x, y \in Nat : In(allocs, x, y) =>
             /\ allocs'[x][y].p = allocs[x][y].p
             /\ allocs'[x][y].mark = IF x = i /\ y = j THEN TRUE ELSE allocs[x][y].mark
        /\ \A q : Has(allocs', q) <=> Has(allocs, q)
    <3> DEFINE b == TRUE
    <3>1. Table(allocs, capacity, left) /\ capacity \in Nat /\ b \in BOOLEAN
          /\ allocs' = Set(allocs, i, j, b)
      BY <2>2 DEF GInv, TypeOK
    <3> HIDE DEF b
    <3>2. /\ Table(allocs', capacity, left) /\ Slots(allocs') = Slots(allocs)
          /\ \A x, y : In(allocs', x, y) <=> In(allocs, x, y)
      BY <2>1, <3>1, MarkTable
    <3>3. ASSUME NEW x \in Nat, NEW y \in Nat, In(allocs, x, y)
          PROVE  /\ allocs'[x][y].p = allocs[x][y].p
                 /\ allocs'[x][y].mark = IF x = i /\ y = j THEN b ELSE allocs[x][y].mark
      BY <2>1, <3>1, <3>3, MarkTable
    <3>4. ASSUME NEW q
          PROVE  Has(allocs', q) <=> Has(allocs, q)
      BY <2>1, <3>1, MarkTable
    <3> QED
      BY <3>2, <3>3, <3>4 DEF b
  <2>4. words \in [Obj -> SUBSET Obj] /\ junk \in [Obj -> SUBSET Obj]
    BY DEF GInv, TypeOK
  <2>5. TypeOK'
    BY <1>0, <2>2, <2>4 DEF GInv, TypeOK, progvars
  <2>6. Live' = Live /\ Used' = Used /\ Owners'
    BY <1>0, <2>3, SameHas DEF GInv
  <2>7. LoadOK' /\ Table(allocs', capacity', left') /\ size' = Cardinality(Slots(allocs'))
    BY <1>0, <2>3 DEF GInv, LoadOK
  <2>8. \A q \in Used' : Has(allocs', q)
    BY <2>3, <2>6 DEF GInv
  <2>9. o \in Live /\ Has(allocs, o)
    BY <1>0, <1>1, <2>1 DEF Marking, Has
  <2>10. todo' \subseteq Live
    BY <1>1, <2>2, <2>9, LiveClosed DEF GInv, Marking
  <2>11. \A x, y \in Nat : In(allocs', x, y) /\ allocs'[x][y].mark => allocs'[x][y].p \in Live
    BY <1>1, <2>1, <2>3, <2>9 DEF Marking
  <2>12. MarkedIn(allocs', o)
    BY <2>1, <2>3 DEF MarkedIn
  <2>13. ASSUME NEW q, q # o
         PROVE  MarkedIn(allocs', q) <=> MarkedIn(allocs, q)
    <3>1. ASSUME MarkedIn(allocs', q) PROVE MarkedIn(allocs, q)
      <4>1. PICK x \in Nat, y \in Nat :
              /\ In(allocs', x, y) /\ allocs'[x][y].p = q /\ allocs'[x][y].mark
              /\ \A k \in Nat : In(allocs', x, k) /\ allocs'[x][k].p = q => y <= k
        BY <3>1 DEF MarkedIn
      <4>2. In(allocs, x, y) /\ allocs[x][y].p = q /\ allocs[x][y].mark
        BY <2>1, <2>3, <2>13, <4>1
      <4>3. \A k \in Nat : In(allocs, x, k) /\ allocs[x][k].p = q => y <= k
        BY <2>3, <4>1
      <4> QED
        BY <4>2, <4>3 DEF MarkedIn
    <3>2. ASSUME MarkedIn(allocs, q) PROVE MarkedIn(allocs', q)
      <4>1. PICK x \in Nat, y \in Nat :
              /\ In(allocs, x, y) /\ allocs[x][y].p = q /\ allocs[x][y].mark
              /\ \A k \in Nat : In(allocs, x, k) /\ allocs[x][k].p = q => y <= k
        BY <3>2 DEF MarkedIn
      <4>2. In(allocs', x, y) /\ allocs'[x][y].p = q /\ allocs'[x][y].mark
        BY <2>3, <4>1
      <4>3. \A k \in Nat : In(allocs', x, k) /\ allocs'[x][k].p = q => y <= k
        BY <2>3, <4>1
      <4> QED
        BY <4>2, <4>3 DEF MarkedIn
    <3> QED
      BY <3>1, <3>2
  <2>14. \A x \in Obj :
           /\ Has(allocs', x)
           /\ x \in stack' \/ \E q \in Obj : MarkedIn(allocs', q) /\ x \in words'[q] \cup junk'[q]
           => MarkedIn(allocs', x) \/ x \in todo'
    <3> SUFFICES ASSUME NEW x \in Obj, Has(allocs, x), x # o,
                        \/ x \in stack
                        \/ \E q \in Obj : MarkedIn(allocs', q) /\ x \in words[q] \cup junk[q]
                 PROVE  MarkedIn(allocs, x) \/ x \in todo'
      BY <1>0, <2>3, <2>12, <2>13 DEF progvars
    <3>1. CASE \/ x \in stack
               \/ \E q \in Obj : MarkedIn(allocs, q) /\ x \in words[q] \cup junk[q]
      BY <1>1, <2>2, <3>1 DEF Marking
    <3>2. CASE \E q \in Obj : /\ MarkedIn(allocs', q) /\ ~MarkedIn(allocs, q)
                              /\ x \in words[q] \cup junk[q]
      BY <2>2, <2>13, <3>2
    <3> QED
      BY <3>1, <3>2
  <2>15. Marking'
    BY <2>6, <2>10, <2>11, <2>14 DEF Marking
  <2> QED
    BY <1>0, <2>5, <2>6, <2>7, <2>8, <2>15 DEF GInv
<1> QED
  BY <1>2, <1>3

\* The words of the program are among those that the collector sees.
LEMMA UsedLive ==
  ASSUME GInv
  PROVE  Used \subseteq Live
<1> DEFINE U == Used \cap Live
<1>1. /\ Used \subseteq Obj /\ stack \subseteq Used
      /\ \A q \in Used : words[q] \subseteq Used
  BY UsedClosed DEF GInv
<1>2. /\ Live \subseteq Obj /\ stack \subseteq Live
      /\ \A q \in Live : Has(allocs, q) => words[q] \cup junk[q] \subseteq Live
  BY LiveClosed DEF GInv
<1>3. \A q \in Used : Has(allocs, q)
  BY DEF GInv
<1>4. U \in SUBSET Obj /\ stack \subseteq U
  BY <1>1, <1>2
<1>5. \A q \in U : words[q] \subseteq U
  BY <1>1, <1>2, <1>3
<1> HIDE DEF U
<1>6. Led(stack, words) \subseteq U
  BY <1>4, <1>5, LedLeast
<1> QED
  BY <1>6 DEF U, Used

\* When gc_mark has nothing left to look up, all that can be reached has a mark.
LEMMA AllMarked ==
  ASSUME GInv, pc = "mark", todo = {}, NEW o \in Live, Has(allocs, o)
  PROVE  MarkedIn(allocs, o)
<1> DEFINE M == {q \in Obj : Has(allocs, q) => MarkedIn(allocs, q)}
           mem == Scan(allocs, words, junk)
<1>1. \A x \in Obj :
        /\ Has(allocs, x)
        /\ x \in stack \/ \E q \in Obj : MarkedIn(allocs, q) /\ x \in words[q] \cup junk[q]
        => MarkedIn(allocs, x)
  BY DEF GInv, Marking
<1>2. M \in SUBSET Obj /\ stack \subseteq M
  BY <1>1 DEF GInv, TypeOK
<1>3. \A q \in M : mem[q] \subseteq M
  <2> SUFFICES ASSUME NEW q \in M, NEW x \in mem[q]
               PROVE  x \in M
    OBVIOUS
  <2>1. q \in Obj /\ mem[q] = IF Has(allocs, q) THEN words[q] \cup junk[q] ELSE {}
    BY DEF Scan
  <2>2. Has(allocs, q) /\ x \in words[q] \cup junk[q] /\ MarkedIn(allocs, q)
    BY <2>1
  <2>3. x \in Obj
    BY <2>1, <2>2 DEF GInv, TypeOK
  <2> QED
    BY <1>1, <2>1, <2>2, <2>3
<1> HIDE DEF M, mem
<1>4. Led(stack, mem) \subseteq M
  BY <1>2, <1>3, LedLeast
<1>5. o \in M
  BY <1>4 DEF Live, mem
<1> QED
  BY <1>5 DEF M

LEMMA MarkDoneInv == ASSUME GInv, MarkDone PROVE GInv'
<1>0. /\ pc = "mark" /\ todo = {} /\ at' = <<0, 1>>
      /\ UNCHANGED <<gcvars, heap, progvars, todo, call, left, fate>>
      /\ pc' = IF size = 0 THEN Resume(call[1]) ELSE "sweep"
      /\ Resume(call[1]) \in {"run", "alloc"}
  BY DEF MarkDone, Resume
<1>1. /\ allocs' = allocs /\ capacity' = capacity /\ size' = size /\ stack' = stack
      /\ words' = words /\ junk' = junk /\ heap' = heap /\ left' = left
  BY <1>0 DEF gcvars, progvars
<1>2. TypeOK'
  <2>1. pc' \in {"run", "alloc", "sweep"} /\ call' = call /\ todo' = todo /\ fate' = fate
    BY <1>0
  <2>2. at' \in Nat \X (Nat \ {0})
    BY <1>0
  <2>3. pc # "run" /\ TypeOK
    BY <1>0 DEF GInv
  <2> QED
    BY <1>1, <2>1, <2>2, <2>3 DEF TypeOK
<1>3. Live' = Live /\ Used' = Used /\ Owners'
  BY <1>0, <1>1, SameHas DEF GInv
<1>4. Table(allocs, capacity, left)' /\ size' = Cardinality(Slots(allocs'))
      /\ \A q \in Used' : Has(allocs', q)
  BY <1>1, <1>3 DEF GInv
<1>5. CASE size = 0
  <2>1. LoadOK'
    <3>1. (capacity \div 2) \in Nat
      <4>1. capacity \in Nat
        BY DEF GInv, TypeOK
      <4> QED
        BY <4>1
    <3>2. 0 <= capacity \div 2 /\ 0 <= (capacity \div 2) + 1
      BY <3>1
    <3> QED
      BY <1>1, <1>5, <3>2 DEF LoadOK
  <2>2. capacity \in Nat /\ allocs \in Tables(capacity) /\ IsFiniteSet(Slots(allocs))
    BY DEF GInv, TypeOK, Table, Tables
  <2>3. Slots(allocs) = {}
    BY <1>5, <2>2, FS_EmptySet DEF GInv
  <2>4. \A i, j : ~In(allocs, i, j)
    BY <2>2, <2>3, SlotsAre
  <2>5. Clean(allocs')
    BY <1>1, <2>4 DEF Clean
  <2>6. pc' \in {"run", "alloc"}
    BY <1>0, <1>5
  <2> QED
    BY <1>2, <1>3, <1>4, <2>1, <2>5, <2>6 DEF GInv
<1>6. CASE size # 0
  <2>1. pc' = "sweep"
    BY <1>0, <1>6
  <2>2. LoadOK'
    BY <1>1, <2>1 DEF GInv, LoadOK
  <2>3. at'[1] = 0 /\ at'[2] = 1 /\ \A i, j \in Nat : Before(i, j, at') => j = 0
    BY <1>0 DEF Before
  <2>4. capacity \in Nat /\ allocs \in Tables(capacity)
    BY DEF GInv, TypeOK, Table, Tables
  <2>5. \A i, j : In(allocs, i, j) => j # 0
    BY <2>4, InTable
  <2>6. \A i, j \in Nat : In(allocs, i, j) => ~Before(i, j, at')
    BY <2>3, <2>5
  <2>7. ASSUME NEW o \in Obj
        PROVE  Kept(allocs', at', o) <=> o \in Live' /\ Has(allocs', o)
    <3>1. Kept(allocs', at', o) => Has(allocs, o) /\ o \in Live
      BY <1>0, <1>1, <2>6 DEF Kept, Has, GInv, Marking
    <3>2. MarkedIn(allocs, o) => Kept(allocs', at', o)
      BY <1>1 DEF MarkedIn, Kept
    <3> QED
      BY <1>0, <1>1, <1>3, <3>1, <3>2, AllMarked
  <2>8. at'[1] <= capacity'
    BY <1>1, <2>3, <2>4
  <2>9. Sweep'
    BY <1>1, <2>6, <2>7, <2>8 DEF Sweep
  <2> QED
    BY <1>2, <1>3, <1>4, <2>1, <2>2, <2>9 DEF GInv
<1> QED
  BY <1>5, <1>6

LEMMA SweepKeepInv == ASSUME GInv, SweepKeep PROVE GInv'
<1> DEFINE i == at[1]
           j == at[2]
           b == FALSE
<1>0. /\ pc = "sweep" /\ pc' = "sweep" /\ i < capacity /\ j <= Len(allocs[i]) /\ allocs[i][j].mark
      /\ allocs' = Set(allocs, i, j, b) /\ at' = <<i, j + 1>>
      /\ UNCHANGED <<capacity, size, new_allocs, heap, progvars, todo, call, left, fate>>
  BY DEF SweepKeep, Sweeping, Walking, AtEntry, Set
<1>1. i \in Nat /\ j \in Nat /\ j # 0 /\ capacity \in Nat /\ allocs \in Tables(capacity) /\ b \in BOOLEAN
      /\ Table(allocs, capacity, left) /\ at = <<i, j>>
  <2>1. Table(allocs, capacity, left) /\ capacity \in Nat /\ at \in Nat \X (Nat \ {0})
    BY DEF GInv, TypeOK
  <2>2. allocs \in Tables(capacity)
    BY <2>1 DEF Table, Tables
  <2>3. i \in Nat /\ j \in Nat /\ j # 0 /\ at = <<i, j>>
    BY <2>1
  <2>4. b \in BOOLEAN
    OBVIOUS
  <2> QED
    BY <2>1, <2>2, <2>3, <2>4
<1>2. In(allocs, i, j)
  <2>1. i \in DOMAIN allocs /\ allocs[i] \in Seq(Entry)
    BY <1>0, <1>1 DEF Tables
  <2> QED
    BY <1>0, <1>1, <2>1, LenProperties DEF In
<1>3. Sweep
  BY <1>0 DEF GInv
<1>4. at' \in Nat \X (Nat \ {0}) /\ at'[1] = i /\ at'[2] = j + 1
  BY <1>0, <1>1
<1>5. \A x, y \in Nat : Before(x, y, at') <=> Before(x, y, at) \/ (x = i /\ y = j)
  BY <1>1, <1>4 DEF Before
<1> HIDE DEF i, j, b
<1>6. /\ Table(allocs', capacity, left) /\ Slots(allocs') = Slots(allocs)
      /\ \A x, y : In(allocs', x, y) <=> In(allocs, x, y)
  BY <1>0, <1>1, <1>2, MarkTable
<1>7. ASSUME NEW x \in Nat, NEW y \in Nat, In(allocs, x, y)
      PROVE  /\ allocs'[x][y].p = allocs[x][y].p
             /\ (x = i /\ y = j) => ~allocs'[x][y].mark
             /\ ~(x = i /\ y = j) => allocs'[x][y].mark = allocs[x][y].mark
  <2>1. /\ allocs'[x][y].p = allocs[x][y].p
        /\ allocs'[x][y].mark = IF x = i /\ y = j THEN b ELSE allocs[x][y].mark
    BY <1>0, <1>1, <1>2, <1>7, MarkTable
  <2> QED
    BY <2>1 DEF b
<1>8. \A q : Has(allocs', q) <=> Has(allocs, q)
  <2> SUFFICES ASSUME NEW q PROVE Has(allocs', q) <=> Has(allocs, q)
    OBVIOUS
  <2> QED
    BY <1>0, <1>1, <1>2, MarkTable
<1>9. TypeOK'
  BY <1>0, <1>4 DEF GInv, TypeOK, progvars
<1>10. Live' = Live /\ Used' = Used /\ Owners'
  BY <1>0, <1>8, SameHas DEF GInv
<1>11. LoadOK' /\ Table(allocs', capacity', left') /\ size' = Cardinality(Slots(allocs'))
  BY <1>0, <1>6 DEF GInv, LoadOK
<1>12. \A q \in Used' : Has(allocs', q)
  BY <1>8, <1>10 DEF GInv
<1>13. ASSUME NEW q \in Obj
       PROVE  Kept(allocs', at', q) <=> Kept(allocs, at, q)
  <2>1. ASSUME NEW x \in Nat, NEW y \in Nat, In(allocs, x, y)
        PROVE  Before(x, y, at') \/ allocs'[x][y].mark <=> Before(x, y, at) \/ allocs[x][y].mark
    BY <1>0, <1>5, <1>7, <2>1
  <2> QED
    BY <1>6, <1>7, <2>1 DEF Kept
<1>14. \A x, y \in Nat : In(allocs', x, y) /\ Before(x, y, at') => ~allocs'[x][y].mark
  BY <1>3, <1>5, <1>6, <1>7 DEF Sweep
<1>15. Sweep'
  <2>1. at'[1] <= capacity'
    BY <1>0, <1>1, <1>4
  <2>2. ASSUME NEW q \in Obj
        PROVE  Kept(allocs', at', q) <=> q \in Live' /\ Has(allocs', q)
    BY <1>3, <1>8, <1>10, <1>13 DEF Sweep
  <2> QED
    BY <1>14, <2>1, <2>2 DEF Sweep
<1> QED
  BY <1>0, <1>9, <1>10, <1>11, <1>12, <1>15 DEF GInv

\* The entry that gc_sweep is about to free, of a block that is not to be kept
\* for another entry's sake.
LEMMA SweepFreeEntry ==
  ASSUME GInv, SweepFree
  PROVE  LET i == at[1]
             j == at[2]
             o == allocs[i][j].p
         IN /\ i \in Nat /\ j \in Nat /\ In(allocs, i, j) /\ o \in Obj
            /\ ~Before(i, j, at) /\ ~allocs[i][j].mark
            /\ o \in Live => \E x, y \in Nat : /\ In(allocs, x, y) /\ allocs[x][y].p = o
                                              /\ ~(x = i /\ y = j)
            /\ o \in Live => o \in left
<1> DEFINE i == at[1]
           j == at[2]
           o == allocs[i][j].p
<1>0. /\ pc = "sweep" /\ i < capacity /\ j <= Len(allocs[i]) /\ ~allocs[i][j].mark
  BY DEF SweepFree, Sweeping, Walking, AtEntry
<1>1. i \in Nat /\ j \in Nat /\ j # 0 /\ capacity \in Nat /\ allocs \in Tables(capacity)
      /\ Table(allocs, capacity, left)
  BY DEF GInv, TypeOK, Table, Tables
<1>2. In(allocs, i, j)
  <2>1. i \in DOMAIN allocs /\ allocs[i] \in Seq(Entry)
    BY <1>0, <1>1 DEF Tables
  <2> QED
    BY <1>0, <1>1, <2>1, LenProperties DEF In
<1>3. ~Before(i, j, at)
  BY <1>1 DEF Before
<1>4. o \in Obj
  BY <1>1, <1>2, InTable
<1>5. \A q \in Obj : Kept(allocs, at, q) <=> q \in Live /\ Has(allocs, q)
  BY <1>0 DEF GInv, Sweep
<1> HIDE DEF i, j
<1>6. ASSUME o \in Live
      PROVE  \E x, y \in Nat : In(allocs, x, y) /\ allocs[x][y].p = o /\ ~(x = i /\ y = j)
  <2>1. Kept(allocs, at, o)
    BY <1>1, <1>2, <1>4, <1>5, <1>6 DEF Has
  <2>2. PICK x \in Nat, y \in Nat : /\ In(allocs, x, y) /\ allocs[x][y].p = o
                                    /\ Before(x, y, at) \/ allocs[x][y].mark
    BY <2>1 DEF Kept
  <2> QED
    BY <1>0, <1>3, <2>2
<1>7. ASSUME o \in Live
      PROVE  o \in left
  <2>1. PICK x \in Nat, y \in Nat : /\ In(allocs, x, y) /\ allocs[x][y].p = o
                                    /\ ~(x = i /\ y = j)
    BY <1>6, <1>7
  <2>2. Hash[allocs[x][y].p] % capacity = x /\ Hash[o] % capacity = i
    BY <1>1, <1>2, <2>1 DEF Table
  <2>3. x = i
    BY <2>1, <2>2
  <2>4. In(allocs, i, y) /\ allocs[i][y].p = allocs[i][j].p /\ y # j
    BY <2>1, <2>3
  <2>5. allocs[i][j].p \notin left => y = j
    BY <1>1, <1>2, <2>4 DEF Table
  <2> QED
    BY <2>4, <2>5
<1> QED
  BY <1>0, <1>1, <1>2, <1>3, <1>4, <1>6, <1>7 DEF i, j

\* Freeing an unmarked entry leaves what can be reached as it is.
LEMMA SweepFreeInv == ASSUME GInv, SweepFree PROVE GInv'
<1> DEFINE i == at[1]
           j == at[2]
           o == allocs[i][j].p
<1>0. /\ pc = "sweep" /\ pc' = "sweep" /\ FreeAlloc(i, j)
      /\ UNCHANGED <<capacity, progvars, todo, at, call, left>>
      /\ heap' \subseteq heap
  BY DEF SweepFree, Sweeping, Walking, FreeAlloc
<1>1. /\ i \in Nat /\ j \in Nat /\ In(allocs, i, j) /\ o \in Obj
      /\ ~Before(i, j, at) /\ ~allocs[i][j].mark
      /\ o \in Live => \E x, y \in Nat : In(allocs, x, y) /\ allocs[x][y].p = o /\ ~(x = i /\ y = j)
  BY SweepFreeEntry
<1>2. \A x, y \in Nat : Before(x, y, at) <=> x < i \/ (x = i /\ y < j)
  BY DEF Before
<1>3. Sweep /\ capacity \in Nat /\ allocs \in Tables(capacity)
  BY <1>0 DEF GInv, TypeOK, Table, Tables
<1> HIDE DEF i, j
<1>4. /\ allocs' = Pulled(allocs, i, j)
      /\ Table(allocs', capacity', left') /\ size' = Cardinality(Slots(allocs'))
      /\ size' = size - 1 /\ size' \in Nat
      /\ Owners' /\ fate' \in {"ok", "double free"}
      /\ \A q : q # o => (Has(allocs', q) <=> Has(allocs, q))
  BY <1>0, <1>1, FreeTable DEF GInv
<1>5. PullOK(allocs, allocs', capacity, i, j)
  BY <1>1, <1>3, <1>4, Pull
\* Every other entry stays, with its mark and its side of the place.
<1>6. ASSUME NEW x \in Nat, NEW y \in Nat, In(allocs, x, y), ~(x = i /\ y = j)
      PROVE  \E h \in Nat : /\ In(allocs', x, h) /\ allocs'[x][h] = allocs[x][y]
                            /\ Before(x, h, at) <=> Before(x, y, at)
  <2>1. PICK h \in Nat : /\ In(allocs', x, h) /\ allocs'[x][h] = allocs[x][y]
                         /\ h = IF x = i /\ y > j THEN y - 1 ELSE y
    BY <1>5, <1>6 DEF PullOK
  <2>2. Before(x, h, at) <=> Before(x, y, at)
    BY <1>1, <1>2, <1>6, <2>1
  <2> QED
    BY <2>1, <2>2
<1>7. ASSUME NEW x \in Nat, NEW y \in Nat, In(allocs', x, y)
      PROVE  \E h \in Nat : /\ In(allocs, x, h) /\ allocs'[x][y] = allocs[x][h]
                            /\ Before(x, y, at) <=> Before(x, h, at)
  <2>1. PICK h \in Nat : /\ In(allocs, x, h) /\ ~(x = i /\ h = j) /\ allocs'[x][y] = allocs[x][h]
                         /\ y = IF x = i /\ h > j THEN h - 1 ELSE h
    BY <1>5, <1>7 DEF PullOK
  <2>2. Before(x, y, at) <=> Before(x, h, at)
    BY <1>1, <1>2, <1>7, <2>1
  <2> QED
    BY <2>1, <2>2
<1>8. \A q \in Live : Has(allocs, q) <=> Has(allocs', q)
  <2> SUFFICES ASSUME NEW q \in Live
               PROVE  Has(allocs, q) <=> Has(allocs', q)
    OBVIOUS
  <2>1. CASE q # o
    BY <1>4, <2>1
  <2>2. CASE q = o
    <3>1. PICK x \in Nat, y \in Nat : In(allocs, x, y) /\ allocs[x][y].p = o /\ ~(x = i /\ y = j)
      BY <1>1, <2>2
    <3>2. PICK h \in Nat : In(allocs', x, h) /\ allocs'[x][h] = allocs[x][y]
      BY <1>6, <3>1
    <3> QED
      BY <2>2, <3>1, <3>2 DEF Has
  <2> QED
    BY <2>1, <2>2
<1>9. Live' = Live
  <2> DEFINE mem == Scan(allocs, words, junk)
             new == Scan(allocs', words', junk')
  <2>1. words \in [Obj -> SUBSET Obj] /\ junk \in [Obj -> SUBSET Obj] /\ stack \in SUBSET Obj
        /\ words' = words /\ junk' = junk /\ stack' = stack
    BY <1>0 DEF GInv, TypeOK, progvars
  <2>2. mem \in [Obj -> SUBSET Obj] /\ new \in [Obj -> SUBSET Obj]
    BY <2>1 DEF Scan
  <2>3. Live \subseteq Obj
    BY LiveClosed DEF GInv
  <2>4. \A q \in Live : new[q] = mem[q]
    BY <1>8, <2>1, <2>3 DEF Scan
  <2>5. Live = Led(stack, mem) /\ Live' = Led(stack, new)
    BY <2>1 DEF Live
  <2> HIDE DEF mem, new
  <2> QED
    BY <2>1, <2>2, <2>4, <2>5, LedSame
<1>10. Used' = Used
  BY <1>0 DEF Used, progvars
<1>11. \A q \in Used' : Has(allocs', q)
  BY <1>8, <1>10, UsedLive DEF GInv
<1>12. TypeOK'
  BY <1>0, <1>4 DEF GInv, TypeOK, progvars
<1>13. LoadOK'
  <2> DEFINE h == capacity \div 2
  <2>1. size \in Nat /\ h \in Nat /\ size <= h + 1
    <3>1. size \in Nat /\ capacity \in Nat /\ size <= h + 1
      BY DEF GInv, TypeOK, LoadOK
    <3> QED
      BY <3>1
  <2>2. size' = size - 1 /\ pc' # "alloc" /\ capacity' = capacity
    BY <1>0, <1>4
  <2> HIDE DEF h
  <2>3. size' <= h + 1
    BY <2>1, <2>2
  <2>4. size' <= (capacity' \div 2) + 1
    BY <2>2, <2>3 DEF h
  <2> QED
    BY <2>2, <2>4 DEF LoadOK
<1>14. ASSUME NEW q \in Obj
       PROVE  Kept(allocs', at', q) <=> q \in Live' /\ Has(allocs', q)
  <2>1. at' = at
    BY <1>0
  <2>2. ASSUME Kept(allocs', at, q)
        PROVE  q \in Live /\ Has(allocs', q)
    <3>1. PICK x \in Nat, y \in Nat : /\ In(allocs', x, y) /\ allocs'[x][y].p = q
                                      /\ Before(x, y, at) \/ allocs'[x][y].mark
      BY <2>2 DEF Kept
    <3>2. PICK h \in Nat : /\ In(allocs, x, h) /\ allocs'[x][y] = allocs[x][h]
                           /\ Before(x, y, at) <=> Before(x, h, at)
      BY <1>7, <3>1
    <3>3. Kept(allocs, at, q)
      BY <3>1, <3>2 DEF Kept
    <3> QED
      BY <1>3, <3>1, <3>3 DEF Sweep, Has
  <2>3. ASSUME q \in Live, Has(allocs', q)
        PROVE  Kept(allocs', at, q)
    <3>1. Kept(allocs, at, q)
      BY <1>3, <1>8, <2>3 DEF Sweep
    <3>2. PICK x \in Nat, y \in Nat : /\ In(allocs, x, y) /\ allocs[x][y].p = q
                                      /\ Before(x, y, at) \/ allocs[x][y].mark
      BY <3>1 DEF Kept
    <3>3. ~(x = i /\ y = j)
      BY <1>1, <3>2
    <3>4. PICK h \in Nat : /\ In(allocs', x, h) /\ allocs'[x][h] = allocs[x][y]
                           /\ Before(x, h, at) <=> Before(x, y, at)
      BY <1>6, <3>2, <3>3
    <3> QED
      BY <3>2, <3>4 DEF Kept
  <2> QED
    BY <1>9, <2>1, <2>2, <2>3
<1>15. \A x, y \in Nat : In(allocs', x, y) /\ Before(x, y, at') => ~allocs'[x][y].mark
  BY <1>0, <1>3, <1>7 DEF Sweep
<1>16. Sweep'
  BY <1>0, <1>3, <1>14, <1>15 DEF Sweep
<1> QED
  BY <1>0, <1>4, <1>11, <1>12, <1>13, <1>16 DEF GInv

LEMMA NextChainInv == ASSUME GInv, NextChain PROVE GInv'
<1> DEFINE i == at[1]
           j == at[2]
<1>0. /\ pc \in {"sweep", "resize"} /\ pc' = pc /\ i < capacity /\ ~(j <= Len(allocs[i]))
      /\ at' = <<i + 1, 1>>
      /\ UNCHANGED <<gcvars, heap, progvars, todo, call, left, fate>>
  BY DEF NextChain, Sweeping, Walking, AtEntry
<1>1. /\ allocs' = allocs /\ capacity' = capacity /\ size' = size /\ new_allocs' = new_allocs
      /\ words' = words /\ junk' = junk /\ heap' = heap /\ left' = left /\ stack' = stack
      /\ todo' = todo /\ call' = call /\ fate' = fate
  BY <1>0 DEF gcvars, progvars
<1>2. i \in Nat /\ j \in Nat /\ capacity \in Nat /\ allocs \in Tables(capacity)
  BY DEF GInv, TypeOK, Table, Tables
<1>3. at' \in Nat \X (Nat \ {0}) /\ at'[1] = i + 1 /\ at'[2] = 1
  BY <1>0, <1>2
<1> HIDE DEF i, j
<1>4. ASSUME NEW x \in Nat, NEW y \in Nat, In(allocs, x, y)
      PROVE  Before(x, y, at') <=> Before(x, y, at)
  <2>1. y \in Nat \ {0} /\ y <= Len(allocs[x]) /\ Len(allocs[x]) \in Nat
    <3>1. y \in 1..Len(allocs[x]) /\ allocs[x] \in Seq(Entry)
      BY <1>2, <1>4, InTable DEF In
    <3> QED
      BY <3>1, LenProperties
  <2>2. x = i => y < j
    BY <1>0, <1>2, <2>1
  <2> QED
    BY <1>2, <1>3, <2>1, <2>2 DEF Before, i, j
<1>5. TypeOK'
  <2>1. TypeOK
    BY DEF GInv
  <2> QED
    BY <1>0, <1>1, <1>3, <2>1 DEF TypeOK
<1>6. Live' = Live /\ Used' = Used /\ Owners'
  BY <1>0, <1>1, SameHas DEF GInv
<1>7. LoadOK' /\ Table(allocs, capacity, left)' /\ size' = Cardinality(Slots(allocs'))
      /\ \A q \in Used' : Has(allocs', q)
  BY <1>0, <1>1, <1>6 DEF GInv, LoadOK
<1>8. at'[1] <= capacity'
  BY <1>0, <1>1, <1>2, <1>3
<1>9. pc = "sweep" => Sweep'
  <2> SUFFICES ASSUME pc = "sweep"
               PROVE  Sweep'
    OBVIOUS
  <2>1. Sweep
    BY DEF GInv
  <2>2. \A q \in Obj : Kept(allocs, at', q) <=> Kept(allocs, at, q)
    BY <1>4 DEF Kept
  <2>3. \A x, y \in Nat : In(allocs, x, y) /\ Before(x, y, at') => ~allocs[x][y].mark
    BY <1>4, <2>1 DEF Sweep
  <2> QED
    BY <1>1, <1>6, <1>8, <2>1, <2>2, <2>3 DEF Sweep
<1>10. pc = "resize" => Resizing'
  <2> SUFFICES ASSUME pc = "resize"
               PROVE  Resizing'
    OBVIOUS
  <2>1. Resizing
    BY DEF GInv
  <2>2. \A q \in Obj : Past(allocs, at', q) <=> Past(allocs, at, q)
    BY <1>4 DEF Past
  <2>3. Passed(allocs, at') = Passed(allocs, at)
    <3>1. ASSUME NEW s \in Slots(allocs)
          PROVE  Before(s[1], s[2], at') <=> Before(s[1], s[2], at)
      <4>1. PICK x, y : s = <<x, y>> /\ In(allocs, x, y)
        BY <1>2, SlotsAre
      <4>2. x \in Nat /\ y \in Nat
        BY <1>2, <4>1, InTable
      <4> QED
        BY <1>4, <4>1, <4>2
    <3> QED
      BY <3>1 DEF Passed
  <2> QED
    BY <1>1, <1>8, <2>1, <2>2, <2>3 DEF Resizing
<1> QED
  BY <1>0, <1>1, <1>5, <1>6, <1>7, <1>9, <1>10 DEF GInv

\* At the end of the table, all of it is behind.
LEMMA AllBefore ==
  ASSUME TypeOK, Table(allocs, capacity, left), at[1] = capacity,
         NEW i \in Nat, NEW j \in Nat, In(allocs, i, j)
  PROVE  Before(i, j, at)
<1>1. capacity \in Nat /\ allocs \in Tables(capacity)
  BY DEF TypeOK, Table, Tables
<1>2. i < capacity
  BY <1>1, InTable
<1> QED
  BY <1>2 DEF Before

LEMMA EmptyTable ==
  ASSUME NEW cap \in Nat, NEW lost
  PROVE  /\ Table(Empty(cap), cap, lost) /\ Clean(Empty(cap)) /\ Slots(Empty(cap)) = {}
         /\ \A o : ~Has(Empty(cap), o)
<1> DEFINE t == Empty(cap)
<1>1. t \in Tables(cap) /\ DOMAIN t = 0..(cap - 1) /\ \A i \in DOMAIN t : t[i] = << >>
  BY DEF Empty, Tables
<1> HIDE DEF t
<1>2. \A i, j : ~In(t, i, j)
  BY <1>1 DEF In
<1>3. Slots(t) = {}
  BY <1>1, <1>2, SlotsAre
<1>4. Table(t, cap, lost)
  BY <1>1, <1>2, <1>3, FS_EmptySet DEF Table, Tables
<1>5. Clean(t) /\ \A o : ~Has(t, o)
  BY <1>2 DEF Clean, Has
<1> QED
  BY <1>3, <1>4, <1>5 DEF t

LEMMA SweepDoneInv == ASSUME GInv, SweepDone PROVE GInv'
<1>0. /\ pc = "sweep" /\ at[1] = capacity /\ at' = <<0, 1>>
      /\ UNCHANGED <<allocs, capacity, size, heap, progvars, todo, call, left, fate>>
      /\ IF MustGrow THEN pc' = "resize" /\ new_allocs' = Empty(2 * capacity)
                     ELSE pc' = Resume(call[1])
      /\ Resume(call[1]) \in {"run", "alloc"}
  BY DEF SweepDone, Resume
<1>1. /\ allocs' = allocs /\ capacity' = capacity /\ size' = size
      /\ words' = words /\ junk' = junk /\ heap' = heap /\ left' = left /\ stack' = stack
      /\ todo' = todo /\ call' = call /\ fate' = fate
  BY <1>0 DEF progvars
<1>2. TypeOK /\ Table(allocs, capacity, left) /\ Sweep
  BY <1>0 DEF GInv
<1>3. capacity \in Nat \ {0} /\ size \in Nat /\ allocs \in Tables(capacity)
  BY <1>2 DEF TypeOK, Table, Tables
<1>4. pc' \in {"run", "alloc", "resize"} /\ at' \in Nat \X (Nat \ {0}) /\ pc # "run"
  BY <1>0
<1>5. TypeOK'
  BY <1>1, <1>2, <1>4 DEF TypeOK
<1>6. Live' = Live /\ Used' = Used /\ Owners'
  BY <1>0, <1>1, SameHas DEF GInv
<1>7. Table(allocs, capacity, left)' /\ size' = Cardinality(Slots(allocs'))
      /\ \A q \in Used' : Has(allocs', q)
  BY <1>1, <1>6 DEF GInv
<1>8. Clean(allocs')
  BY <1>0, <1>1, <1>2, AllBefore DEF Clean, Sweep
<1>9. LoadOK'
  <2> DEFINE h == capacity \div 2
  <2>1. h \in Nat
    BY <1>3
  <2>2. size <= h + 1
    BY DEF GInv, LoadOK
  <2>3. pc' = "alloc" => ~(size > h)
    BY <1>0 DEF MustGrow, NeedCollect
  <2> HIDE DEF h
  <2>4. size <= h + 1 /\ (pc' = "alloc" => size <= h)
    BY <1>3, <2>1, <2>2, <2>3
  <2> QED
    BY <1>1, <2>4 DEF LoadOK, h
<1>10. ASSUME pc' = "resize"
       PROVE  Resizing'
  <2>1. new_allocs' = Empty(2 * capacity) /\ 2 * capacity \in Nat
    BY <1>0, <1>3, <1>10
  <2>2. /\ Table(new_allocs', 2 * capacity, left) /\ Clean(new_allocs') /\ Slots(new_allocs') = {}
        /\ \A o : ~Has(new_allocs', o)
    BY <2>1, EmptyTable
  <2>3. at'[1] = 0 /\ at'[2] = 1
    BY <1>0
  <2>4. \A x, y : In(allocs, x, y) => x \in Nat /\ y \in Nat \ {0}
    BY <1>3, InTable
  <2>5. \A x, y \in Nat : In(allocs, x, y) => ~Before(x, y, at')
    BY <2>3, <2>4 DEF Before
  <2>6. \A o : ~Past(allocs', at', o)
    BY <1>1, <2>5 DEF Past
  <2>7. Passed(allocs', at') = {}
    <3>1. ASSUME NEW s \in Slots(allocs)
          PROVE  ~Before(s[1], s[2], at')
      <4>1. PICK x, y : s = <<x, y>> /\ In(allocs, x, y)
        BY <1>3, SlotsAre
      <4> QED
        BY <2>4, <2>5, <4>1
    <3> QED
      BY <1>1, <3>1 DEF Passed
  <2>8. at'[1] <= capacity' /\ capacity' = capacity /\ left' = left
    BY <1>1, <1>3, <2>3
  <2> QED
    BY <2>2, <2>6, <2>7, <2>8 DEF Resizing
<1> QED
  BY <1>4, <1>5, <1>6, <1>7, <1>8, <1>9, <1>10 DEF GInv

LEMMA RehashInv == ASSUME GInv, Rehash PROVE GInv'
<1> DEFINE i == at[1]
           j == at[2]
           e == allocs[i][j]
           k == NewIndex(e.p)
<1>0. /\ pc = "resize" /\ pc' = "resize" /\ i < capacity /\ j <= Len(allocs[i])
      /\ new_allocs' = Pushed(new_allocs, k, e) /\ at' = <<i, j + 1>>
      /\ UNCHANGED <<allocs, capacity, size, heap, progvars, todo, call, left, fate>>
  BY DEF Rehash, Walking, AtEntry, Pushed
<1>1. /\ allocs' = allocs /\ capacity' = capacity /\ size' = size
      /\ words' = words /\ junk' = junk /\ heap' = heap /\ left' = left /\ stack' = stack
      /\ todo' = todo /\ call' = call /\ fate' = fate
  BY <1>0 DEF progvars
<1>2. TypeOK /\ Table(allocs, capacity, left) /\ Resizing /\ Clean(allocs)
  BY <1>0 DEF GInv
<1>3. i \in Nat /\ j \in Nat /\ j # 0 /\ capacity \in Nat \ {0} /\ allocs \in Tables(capacity)
  BY <1>2 DEF TypeOK, Table, Tables
<1>4. In(allocs, i, j)
  <2>1. i \in DOMAIN allocs /\ allocs[i] \in Seq(Entry)
    BY <1>0, <1>3 DEF Tables
  <2> QED
    BY <1>0, <1>3, <2>1, LenProperties DEF In
<1>5. at' \in Nat \X (Nat \ {0}) /\ at'[1] = i /\ at'[2] = j + 1
  BY <1>0, <1>3
<1>6. \A x, y \in Nat : Before(x, y, at') <=> Before(x, y, at) \/ (x = i /\ y = j)
  BY <1>3, <1>5 DEF Before
<1>7. ~Before(i, j, at)
  BY <1>3 DEF Before
<1>8. e \in Entry /\ e.p \in Obj /\ ~e.mark
  BY <1>2, <1>3, <1>4, InTable DEF Clean
<1>9. k \in 0..(2 * capacity - 1) /\ Hash[e.p] % (2 * capacity) = k /\ 2 * capacity \in Nat
  BY <1>3, <1>8, IndexIn DEF NewIndex
<1> HIDE DEF i, j, k
<1>10. ASSUME Has(new_allocs, e.p)
       PROVE  e.p \in left
  <2>1. Past(allocs, at, e.p)
    BY <1>2, <1>8, <1>10 DEF Resizing
  <2>2. PICK x \in Nat, y \in Nat : In(allocs, x, y) /\ Before(x, y, at) /\ allocs[x][y].p = e.p
    BY <2>1 DEF Past
  <2>3. Hash[allocs[x][y].p] % capacity = x /\ Hash[e.p] % capacity = i
    BY <1>2, <1>3, <1>4, <2>2 DEF Table
  <2>4. x = i
    BY <2>2, <2>3
  <2>5. In(allocs, i, y) /\ allocs[i][y].p = allocs[i][j].p /\ y # j
    BY <1>7, <2>2, <2>4
  <2>6. allocs[i][j].p \notin left => y = j
    BY <1>2, <1>3, <1>4, <2>5 DEF Table
  <2> QED
    BY <2>5, <2>6
<1> DEFINE u == new_allocs'
<1>11. /\ Table(u, 2 * capacity, left)
       /\ Cardinality(Slots(u)) = Cardinality(Slots(new_allocs)) + 1
       /\ \A q : Has(u, q) <=> Has(new_allocs, q) \/ q = e.p
       /\ Clean(u)
  <2> HIDE DEF e
  <2>1. Table(new_allocs, 2 * capacity, left) /\ Clean(new_allocs)
    BY <1>2 DEF Resizing
  <2>2. u = Pushed(new_allocs, k, e) /\ (e.p \notin left => ~Has(new_allocs, e.p))
    BY <1>0, <1>10
  <2> HIDE DEF u
  <2>3. /\ Table(u, 2 * capacity, left)
        /\ Cardinality(Slots(u)) = Cardinality(Slots(new_allocs)) + 1
        /\ Clean(new_allocs) /\ ~e.mark => Clean(u)
    BY <1>8, <1>9, <2>1, <2>2, PushTable
  <2>4. ASSUME NEW q
        PROVE  Has(u, q) <=> Has(new_allocs, q) \/ q = e.p
    BY <1>8, <1>9, <2>1, <2>2, PushTable
  <2> QED
    BY <1>8, <2>1, <2>3, <2>4
<1>12. Cardinality(Passed(allocs, at')) = Cardinality(Passed(allocs, at)) + 1
  <2> DEFINE P == Passed(allocs, at)
             s == <<i, j>>
  <2>1. s \in Slots(allocs) /\ s[1] = i /\ s[2] = j
    BY <1>3, <1>4, SlotsAre
  <2>2. ASSUME NEW r \in Slots(allocs)
        PROVE  Before(r[1], r[2], at') <=> Before(r[1], r[2], at) \/ r = s
    <3>1. PICK x, y : r = <<x, y>> /\ In(allocs, x, y)
      BY <1>3, SlotsAre
    <3>2. x \in Nat /\ y \in Nat /\ r[1] = x /\ r[2] = y
      BY <1>3, <3>1, InTable
    <3>3. r = s <=> x = i /\ y = j
      BY <3>1
    <3> QED
      BY <1>6, <3>2, <3>3
  <2>3. Passed(allocs, at') = P \cup {s} /\ s \notin P
    BY <1>7, <2>1, <2>2 DEF Passed
  <2>4. IsFiniteSet(P)
    <3>1. IsFiniteSet(Slots(allocs)) /\ P \subseteq Slots(allocs)
      BY <1>2 DEF Table, Passed
    <3> QED
      BY <3>1, FS_Subset
  <2> HIDE DEF P, s
  <2>5. Cardinality(P \cup {s}) = Cardinality(P) + 1
    BY <2>3, <2>4, FS_AddElement
  <2> QED
    BY <2>3, <2>5 DEF P
<1>13. Resizing'
  <2>1. at'[1] <= capacity' /\ capacity' = capacity /\ left' = left /\ allocs' = allocs
    BY <1>0, <1>1, <1>3, <1>5
  <2>2. Cardinality(Slots(u)) = Cardinality(Passed(allocs, at'))
    BY <1>2, <1>11, <1>12 DEF Resizing
  <2>3. ASSUME NEW o \in Obj
        PROVE  Has(u, o) <=> Past(allocs, at', o)
    <3>1. Past(allocs, at', o) <=> Past(allocs, at, o) \/ o = e.p
      BY <1>3, <1>4, <1>6 DEF Past
    <3> QED
      BY <1>2, <1>11, <3>1 DEF Resizing
  <2> QED
    BY <1>11, <2>1, <2>2, <2>3 DEF Resizing
<1>14. TypeOK'
  BY <1>0, <1>1, <1>2, <1>5 DEF TypeOK
<1>15. Live' = Live /\ Used' = Used /\ Owners'
  BY <1>0, <1>1, SameHas DEF GInv
<1>16. LoadOK' /\ Table(allocs, capacity, left)' /\ size' = Cardinality(Slots(allocs'))
       /\ Clean(allocs') /\ \A q \in Used' : Has(allocs', q)
  BY <1>0, <1>1, <1>2, <1>15 DEF GInv, LoadOK
<1> QED
  BY <1>0, <1>13, <1>14, <1>15, <1>16 DEF GInv

LEMMA ResizeDoneInv == ASSUME GInv, ResizeDone PROVE GInv'
<1>0. /\ pc = "resize" /\ at[1] = capacity /\ allocs' = new_allocs /\ capacity' = 2 * capacity
      /\ pc' = Resume(call[1]) /\ at' = <<0, 1>>
      /\ UNCHANGED <<size, heap, progvars, todo, call, left, fate>>
      /\ Resume(call[1]) \in {"run", "alloc"}
  BY DEF ResizeDone, Resume
<1>1. /\ size' = size /\ words' = words /\ junk' = junk /\ heap' = heap /\ left' = left
      /\ stack' = stack /\ todo' = todo /\ call' = call /\ fate' = fate
  BY <1>0 DEF progvars
<1>2. TypeOK /\ Table(allocs, capacity, left) /\ Resizing /\ size = Cardinality(Slots(allocs))
  BY <1>0 DEF GInv
<1>3. capacity \in Nat \ {0} /\ 2 * capacity \in Nat \ {0} /\ size \in Nat
      /\ allocs \in Tables(capacity)
  <2>1. capacity \in Nat \ {0} /\ size \in Nat
    BY <1>2 DEF TypeOK
  <2>2. allocs \in Tables(capacity)
    BY <1>2 DEF Table, Tables
  <2> QED
    BY <2>1, <2>2
<1>4. pc' \in {"run", "alloc"} /\ at' \in Nat \X (Nat \ {0}) /\ pc # "run"
  BY <1>0
<1>5. TypeOK'
  BY <1>0, <1>1, <1>2, <1>3, <1>4 DEF TypeOK
<1>6. \A x, y \in Nat : In(allocs, x, y) => Before(x, y, at)
  BY <1>0, <1>2, AllBefore
<1>7. ASSUME NEW o
      PROVE  Has(allocs', o) <=> Has(allocs, o)
  <2>1. Past(allocs, at, o) <=> Has(allocs, o)
    BY <1>6 DEF Past, Has
  <2>2. Has(allocs, o) => o \in Obj
    BY <1>3, InTable DEF Has
  <2>3. Has(new_allocs, o) => o \in Obj
    <3>1. new_allocs \in Tables(2 * capacity)
      BY <1>2 DEF Resizing, Table, Tables
    <3> QED
      BY <1>3, <3>1, InTable DEF Has
  <2>4. o \in Obj => (Has(new_allocs, o) <=> Past(allocs, at, o))
    BY <1>2 DEF Resizing
  <2> QED
    BY <1>0, <2>1, <2>2, <2>3, <2>4
<1>8. Passed(allocs, at) = Slots(allocs)
  <2>1. ASSUME NEW s \in Slots(allocs)
        PROVE  Before(s[1], s[2], at)
    <3>1. PICK x, y : s = <<x, y>> /\ In(allocs, x, y)
      BY <1>3, SlotsAre
    <3>2. x \in Nat /\ y \in Nat
      BY <1>3, <3>1, InTable
    <3> QED
      BY <1>6, <3>1, <3>2
  <2> QED
    BY <2>1 DEF Passed
<1>9. /\ Table(allocs', capacity', left') /\ size' = Cardinality(Slots(allocs'))
      /\ Clean(allocs')
  BY <1>0, <1>1, <1>2, <1>8 DEF Resizing
<1>10. Used' = Used /\ Owners'
  BY <1>0, <1>7, SameHas DEF GInv
<1>11. \A q \in Used' : Has(allocs', q)
  BY <1>7, <1>10 DEF GInv
<1>12. LoadOK'
  <2> DEFINE h == capacity \div 2
  <2>1. h \in Nat /\ h + 1 <= capacity /\ (2 * capacity) \div 2 = capacity
    BY <1>3
  <2>2. size <= h + 1
    BY DEF GInv, LoadOK
  <2> HIDE DEF h
  <2>3. size <= capacity
    BY <1>3, <2>1, <2>2
  <2>4. capacity' \div 2 = capacity
    BY <1>0, <2>1
  <2> QED
    BY <1>1, <1>3, <2>3, <2>4 DEF LoadOK
<1> QED
  BY <1>4, <1>5, <1>9, <1>10, <1>11, <1>12 DEF GInv

-----------------------------------------------------------------------------
(* Theorems.                                                               *)

LEMMA InvNext == GInv /\ [Next]_vars => GInv'
<1> SUFFICES ASSUME GInv, [Next]_vars PROVE GInv'
  OBVIOUS
<1>1. ASSUME Collector PROVE GInv'
  <2>1. ASSUME NEW o \in Obj, Mark(o) PROVE GInv'
    BY <2>1, MarkInv
  <2>2. CASE MarkDone
    BY <2>2, MarkDoneInv
  <2>3. CASE SweepKeep
    BY <2>3, SweepKeepInv
  <2>4. CASE SweepFree
    BY <2>4, SweepFreeInv
  <2>5. CASE NextChain
    BY <2>5, NextChainInv
  <2>6. CASE SweepDone
    BY <2>6, SweepDoneInv
  <2>7. CASE Rehash
    BY <2>7, RehashInv
  <2>8. CASE ResizeDone
    BY <2>8, ResizeDoneInv
  <2> QED
    BY <1>1, <2>1, <2>2, <2>3, <2>4, <2>5, <2>6, <2>7, <2>8 DEF Collector
<1>2. ASSUME NEW o \in Obj,
             \/ Load(o) \/ Drop(o) \/ Wipe(o) \/ GcFree(o)
             \/ \E q \in Obj : Store(q, o)
             \/ Alloc(o) \/ StartRealloc(o) \/ ReallocMove(o)
      PROVE  GInv'
  BY <1>2, LoadInv, DropInv, WipeInv, GcFreeInv, StoreInv, AllocInv, StartReallocInv,
     ReallocMoveInv
<1>3. ASSUME NEW name \in {"malloc", "calloc"}, StartAlloc(name) PROVE GInv'
  BY <1>3, StartAllocInv
<1>4. CASE ReallocInPlace
  BY <1>4, ReallocInPlaceInv
<1>5. CASE Begin("collect", NULL)
  BY <1>5, CollectInv
<1>6. CASE UNCHANGED vars
  <2>1. /\ allocs' = allocs /\ capacity' = capacity /\ size' = size /\ new_allocs' = new_allocs
        /\ heap' = heap /\ stack' = stack /\ words' = words /\ junk' = junk /\ pc' = pc
        /\ todo' = todo /\ at' = at /\ call' = call /\ left' = left /\ fate' = fate
    BY <1>6 DEF vars, gcvars, progvars
  <2>2. TypeOK' /\ LoadOK' /\ Owners' /\ Used' = Used /\ Live' = Live
    BY <2>1 DEF GInv, TypeOK, LoadOK, Owners, Used, Live
  <2>3. (Marking => Marking') /\ (Sweep => Sweep') /\ (Resizing => Resizing')
    BY <2>1, <2>2 DEF Marking, Sweep, Resizing
  <2> QED
    BY <2>1, <2>2, <2>3 DEF GInv
<1> QED
  BY <1>1, <1>2, <1>3, <1>4, <1>5, <1>6 DEF Next

THEOREM InvAlways == Spec => []GInv
<1> QED
  BY InvInit, InvNext, PTL DEF Spec

\* Each entry is in the chain that search looks in, and gc.size is how many
\* there are, whatever gc_hash_resize has moved.
THEOREM TableStaysOK == Spec => []TableOK
<1>1. ASSUME GInv PROVE TableOK
  <2>1. /\ capacity \in Nat /\ allocs \in Tables(capacity) /\ Table(allocs, capacity, left)
        /\ size = Cardinality(Slots(allocs)) /\ fate \in {"ok", "double free"}
    BY <1>1 DEF GInv, TypeOK, Table, Tables
  <2>2. ASSUME NEW s \in Slots(allocs)
        PROVE  Index(At(allocs, s).p) = s[1]
    <3>1. PICK i, j : s = <<i, j>> /\ In(allocs, i, j)
      BY <2>1, SlotsAre
    <3>2. i \in Nat /\ j \in Nat
      BY <2>1, <3>1, InTable
    <3>3. Hash[allocs[i][j].p] % capacity = i
      BY <2>1, <3>1, <3>2 DEF Table
    <3> QED
      BY <3>1, <3>3 DEF At, Index
  <2> QED
    BY <2>1, <2>2 DEF TableOK, Tables
<1> QED
  BY <1>1, InvAlways, PTL

\* Between calls the table has at most one entry more than sweep_limit.
THEOREM LoadStaysBounded == Spec => []LoadBounded
<1>1. GInv => LoadBounded
  BY DEF GInv, LoadOK, LoadBounded
<1> QED
  BY <1>1, InvAlways, PTL

\* The entries are those of the blocks in use, one each, but for blocks that
\* were passed to gc_realloc.
THEOREM OneEntryAlways == Spec => []OneEntryEach
<1>1. ASSUME GInv PROVE OneEntryEach
  <2>1. /\ TypeOK /\ Table(allocs, capacity, left) /\ Owners
        /\ capacity \in Nat /\ allocs \in Tables(capacity)
    BY <1>1 DEF GInv, TypeOK, Table, Tables
  <2>2. ASSUME NEW o \in Obj \ left
        PROVE  Cardinality(Places(o)) <= 1
    <3>1. \A j \in Places(o) : j \in Nat /\ In(allocs, Index(o), j) /\ allocs[Index(o)][j].p = o
      <4>1. Index(o) \in DOMAIN allocs
        BY <2>1, IndexIn DEF TypeOK, Tables
      <4>2. allocs[Index(o)] \in Seq(Entry)
        BY <2>1, <4>1 DEF Tables
      <4> QED
        BY <4>1, <4>2, LenProperties DEF Places, Chain, In
    <3>2. Index(o) \in Nat
      <4>1. capacity \in Nat \ {0}
        BY <2>1 DEF TypeOK
      <4>2. Index(o) \in 0..(capacity - 1)
        BY <4>1, IndexIn
      <4> QED
        BY <4>1, <4>2
    <3>3. ASSUME NEW j \in Places(o), NEW k \in Places(o)
          PROVE  j = k
      <4> DEFINE i == Index(o)
      <4>1. /\ i \in Nat /\ j \in Nat /\ k \in Nat /\ In(allocs, i, j) /\ In(allocs, i, k)
            /\ allocs[i][j].p = o /\ allocs[i][k].p = o /\ o \notin left
        BY <2>2, <3>1, <3>2
      <4> HIDE DEF i
      <4> QED
        BY <2>1, <4>1 DEF Table
    <3>4. CASE Places(o) = {}
      BY <3>4, FS_EmptySet
    <3>5. CASE Places(o) # {}
      <4>1. PICK j \in Places(o) : TRUE
        BY <3>5
      <4>2. Places(o) = {j}
        BY <3>3, <4>1
      <4>3. Cardinality({j}) = 1
        BY FS_Singleton
      <4> QED
        BY <4>2, <4>3
    <3> QED
      BY <3>4, <3>5
  <2>3. Tracked \ left = heap \ left
    <3>1. Tracked = {o \in Obj : Has(allocs, o)} /\ heap \subseteq Obj
      BY <2>1, MarkedIsMarkedIn DEF TypeOK
    <3> QED
      BY <2>1, <3>1 DEF Owners
  <2> QED
    BY <2>1, <2>2, <2>3 DEF OneEntryEach, Owners
<1> QED
  BY <1>1, InvAlways, PTL

\* gc_mark forgets nothing that the stack or a marked block leads to, and
\* starts without marks.
THEOREM MarksStayRight == Spec => []MarksRight
<1>1. ASSUME GInv PROVE MarksRight
  <2>1. /\ Tracked = {o \in Obj : Has(allocs, o)}
        /\ Marked = {o \in Obj : MarkedIn(allocs, o)}
    BY <1>1, MarkedIsMarkedIn DEF GInv
  <2>2. ASSUME pc = "mark", NEW o \in Tracked,
               o \in stack \/ (\E q \in Marked : o \in words[q] \cup junk[q])
        PROVE  o \in Marked \cup todo
    <3>1. o \in Obj /\ Has(allocs, o)
      BY <2>1
    <3>2. o \in stack \/ \E q \in Obj : MarkedIn(allocs, q) /\ o \in words[q] \cup junk[q]
      BY <2>1, <2>2
    <3>3. MarkedIn(allocs, o) \/ o \in todo
      BY <1>1, <2>2, <3>1, <3>2 DEF GInv, Marking
    <3> QED
      BY <2>1, <3>1, <3>3
  <2>3. ASSUME pc \in {"run", "alloc"}
        PROVE  Marked = {}
    <3>1. Clean(allocs)
      BY <1>1, <2>3 DEF GInv
    <3> QED
      BY <2>1, <3>1 DEF Clean, MarkedIn
  <2> QED
    BY <2>2, <2>3 DEF MarksRight
<1> QED
  BY <1>1, InvAlways, PTL

LEMMA SweepStep ==
  ASSUME Next, pc = "sweep"
  PROVE  SweepKeep \/ SweepFree \/ NextChain \/ SweepDone
<1>1. pc # "run" /\ pc # "alloc" /\ pc # "mark" /\ pc # "resize"
  OBVIOUS
<1>2. \A o \in Obj : /\ ~Load(o) /\ ~Drop(o) /\ ~Wipe(o) /\ ~GcFree(o)
                     /\ \A q \in Obj : ~Store(q, o)
  BY <1>1 DEF Load, Drop, Wipe, GcFree, Store, Running
<1>3. \A o \in Obj : ~Alloc(o) /\ ~StartRealloc(o) /\ ~ReallocMove(o)
  BY <1>1 DEF Alloc, StartRealloc, ReallocMove, Begin, Running
<1>4. ~ReallocInPlace /\ \A name, o : ~Begin(name, o)
  BY <1>1 DEF ReallocInPlace, Begin, Running
<1>5. \A name : ~StartAlloc(name)
  BY <1>4 DEF StartAlloc
<1>6. Collector
  BY <1>2, <1>3, <1>4, <1>5, Zenon DEF Next
<1>7. ~MarkDone /\ ~Rehash /\ ~ResizeDone /\ \A o \in Obj : ~Mark(o)
  BY <1>1 DEF MarkDone, Rehash, ResizeDone, Mark, Walking
<1> QED
  BY <1>6, <1>7, Zenon DEF Collector

\* gc_sweep frees no block that the program can reach, but for blocks that
\* were passed to gc_realloc.
THEOREM SweepsSafelyAlways == Spec => SweepsSafely
<1>1. ASSUME GInv, [Next]_vars, pc = "sweep", NEW o \in (heap \ heap') \ left
      PROVE  o \notin Reach(words)
  <2>1. SweepFree
    <3>1. Next
      BY <1>1 DEF vars
    <3>2. heap' # heap
      BY <1>1
    <3>3. ~SweepKeep /\ ~NextChain /\ ~SweepDone
      BY <3>2 DEF SweepKeep, NextChain, SweepDone
    <3> QED
      BY <1>1, <3>1, <3>3, SweepStep
  <2>2. o = allocs[at[1]][at[2]].p
    BY <1>1, <2>1 DEF SweepFree, FreeAlloc
  <2>3. o \in Live => o \in left
    BY <1>1, <2>1, <2>2, SweepFreeEntry
  <2>4. Used \subseteq Live /\ Used = Reach(words)
    BY <1>1, UsedLive, ReachIsLed DEF Used
  <2>5. o \notin left
    BY <1>1
  <2> QED
    BY ONLY <2>3, <2>4, <2>5
<1>2. GInv /\ [Next]_vars => [pc = "sweep" => \A o \in (heap \ heap') \ left : o \notin Reach(words)]_vars
  BY <1>1
<1> QED
  BY <1>2, InvAlways, PTL DEF Spec, SweepsSafely

\* When a sweep is over, every block in use can be reached from the stack.
THEOREM CollectsAll == Spec => CollectsAllGarbage
<1>1. ASSUME GInv, [Next]_vars, pc = "sweep", pc' # "sweep", NEW o \in heap
      PROVE  o \in Reach(Scanned)
  <2>1. SweepDone
    <3>1. Next
      BY <1>1 DEF vars
    <3>2. ~SweepKeep /\ ~SweepFree /\ ~NextChain
      BY <1>1 DEF SweepKeep, SweepFree, NextChain
    <3> QED
      BY <1>1, <3>1, <3>2, SweepStep
  <2>2. /\ TypeOK /\ Table(allocs, capacity, left) /\ Sweep /\ Owners /\ at[1] = capacity
    BY <1>1, <2>1 DEF GInv, SweepDone
  <2>3. Has(allocs, o) /\ o \in Obj
    BY <1>1, <2>2 DEF Owners, TypeOK
  <2>4. PICK i \in Nat, j \in Nat : In(allocs, i, j) /\ allocs[i][j].p = o
    BY <2>3 DEF Has
  <2>5. Kept(allocs, at, o)
    BY <2>2, <2>4, AllBefore DEF Kept
  <2>6. o \in Live
    BY <2>2, <2>3, <2>5 DEF Sweep
  <2>7. Scanned = Scan(allocs, words, junk)
    BY <2>2, MarkedIsMarkedIn
  <2>8. Live = Reach(Scanned)
    BY <2>7, ReachIsLed DEF Live
  <2> QED
    BY ONLY <2>6, <2>8
<1>2. GInv /\ [Next]_vars => [pc = "sweep" /\ pc' # "sweep" => heap \subseteq Reach(Scanned)]_vars
  BY <1>1
<1> QED
  BY <1>2, InvAlways, PTL DEF Spec, CollectsAllGarbage

-----------------------------------------------------------------------------
=============================================================================
