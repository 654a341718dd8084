-------------------------- MODULE WlRegionsProofs ---------------------------
(***************************************************************************)
(* Theorems about module WlRegions, for all sizes of pages, headers, spans *)
(* and classes, and all requests: the pool stays one aligned region, a     *)
(* block is recognised by its address, and has the bytes that were asked   *)
(* for.  Every page goes back, as long as no request reaches 2^32.         *)
(***************************************************************************)
EXTENDS WlRegionsProps, WellFoundedInduction, TLAPS

-----------------------------------------------------------------------------
(* The invariant.                                                          *)

Fates == {"ok", "refused", "exit", "fault", "overrun"}

TypeOK ==
  /\ mapped \in SUBSET Nat
  /\ start \in Nat /\ end \in Nat /\ free_start \in Nat
  /\ Carved \in SUBSET Nat /\ span \in [Carved -> Classes]
  /\ live \in SUBSET Block
  /\ fate \in Fates

\* Before global_init there is nothing, nor after it has failed.
Fresh == mapped = {} /\ Carved = {} /\ live = {} /\ fate \in {"ok", "exit"}

PoolPages == Pages(start, end - start)

Pool ==
  /\ start % SpanSize = 0 /\ (free_start - start) % SpanSize = 0
  /\ start <= free_start /\ free_start <= end
  /\ start < end /\ end % Page = 0
  /\ Carved = {s \in start..(free_start - 1) : (s - start) % SpanSize = 0}
  /\ PoolPages \subseteq mapped

\* A block of a span.
Small(b) ==
  /\ b.req <= b.blk
  /\ \E s \in Carved : b.p \in Slots(s) /\ b.blk = span[s]

\* A block with a mapping of its own, which begins with its header.
Shape(b) ==
  /\ Hdr <= b.p /\ (b.p - Hdr) % Page = 0
  /\ b.len > DataSize /\ b.req <= b.len /\ b.blk = b.len % BlkMod

Large(b) == Shape(b) /\ Mapping(b) \subseteq mapped /\ Mapping(b) \cap PoolPages = {}

Blocks ==
  /\ \A b \in live : IF b.len = 0 THEN Small(b) ELSE Large(b)
  /\ \A b, c \in live : b # c => b.p # c.p /\ Mapping(b) \cap Mapping(c) = {}

RInv ==
  /\ TypeOK
  /\ start = 0 => Fresh
  /\ start # 0 => Pool /\ Blocks

\* The requests that blk_size can hold.
SmallRequests ==
  /\ \A sz \in Sizes : sz < BlkMod
  /\ \A sz \in Sizes, num \in Counts : (num * sz) % SizeMod < BlkMod

\* What the first mapping of the pool began with is mapped, too.
From(first) ==
  /\ first + SpanSize > start /\ first <= start
  /\ \A b \in LargeLive : Mapping(b) \cap Pages(first, end - first) = {}
  /\ mapped = Pages(first, end - first) \cup UNION {Mapping(b) : b \in LargeLive}

PInv ==
  /\ \A b \in LargeLive : b.len < BlkMod
  /\ start # 0 /\ Ready => \E first \in Nat : From(first)

-----------------------------------------------------------------------------
(* Division.                                                               *)

LEMMA Quotient ==
  ASSUME NEW x \in Int, NEW P \in Nat \ {0}
  PROVE  /\ x \div P \in Int /\ x % P \in Int
         /\ x = P * (x \div P) + (x % P)
         /\ 0 <= x % P /\ x % P < P
<1>1. x \div P \in Int /\ x % P \in Int /\ P * (x \div P) \in Int
  OBVIOUS
<1>2. x % P = x - P * (x \div P)
  OBVIOUS
<1>3. 0 <= x % P /\ x % P < P
  OBVIOUS
<1> QED
  BY <1>1, <1>2, <1>3

LEMMA DivMonotone ==
  ASSUME NEW x \in Int, NEW y \in Int, NEW P \in Nat \ {0}, x <= y
  PROVE  x \div P <= y \div P
OBVIOUS

\* At a multiple of P a new quotient begins.
LEMMA DivBoundary ==
  ASSUME NEW x \in Int, NEW P \in Nat \ {0}, x % P = 0
  PROVE  (x - 1) \div P = (x \div P) - 1
<1>1. (x - 1) \div P + 1 = x \div P
  OBVIOUS
<1>2. (x - 1) \div P \in Int /\ x \div P \in Int
  BY Quotient
<1> QED
  BY <1>1, <1>2

LEMMA DivShift ==
  ASSUME NEW a \in Int, NEW n \in Int, NEW P \in Nat \ {0}, a % P = 0
  PROVE  (a + n) \div P = a \div P + n \div P
OBVIOUS

LEMMA Multiple ==
  ASSUME NEW k \in Int, NEW P \in Nat \ {0}
  PROVE  (P * k) % P = 0
OBVIOUS

LEMMA Remainder ==
  ASSUME NEW k \in Int, NEW P \in Nat \ {0}, NEW r \in Int, 0 <= r, r < P
  PROVE  (P * k + r) % P = r
OBVIOUS

LEMMA MultiplesAdd ==
  ASSUME NEW x \in Int, NEW y \in Int, NEW P \in Nat \ {0}, x % P = 0, y % P = 0
  PROVE  (x + y) % P = 0 /\ (x - y) % P = 0
<1> DEFINE i == x \div P
           j == y \div P
<1>1. i \in Int /\ j \in Int /\ x = P * i /\ y = P * j
  BY Quotient
<1> HIDE DEF i, j
<1>2. x + y = P * (i + j) /\ x - y = P * (i - j) /\ i + j \in Int /\ i - j \in Int
  BY <1>1
<1> QED
  BY <1>2, Multiple

LEMMA MultipleFrom ==
  ASSUME NEW x \in Int, NEW y \in Int, NEW P \in Nat \ {0}, x % P = 0, (y - x) % P = 0
  PROVE  y % P = 0
<1> DEFINE d == y - x
<1>1. d \in Int /\ d % P = 0 /\ x + d = y
  OBVIOUS
<1> HIDE DEF d
<1>2. (x + d) % P = 0
  BY <1>1, MultiplesAdd
<1> QED
  BY <1>1, <1>2

\* A multiple and a little more.
LEMMA RoundDown ==
  ASSUME NEW x \in Int, NEW r \in Int, NEW P \in Nat \ {0}, x % P = 0, 0 <= r, r < P
  PROVE  (x + r) % P = r
<1> DEFINE i == x \div P
<1>1. i \in Int /\ x = P * i
  BY Quotient
<1> HIDE DEF i
<1> QED
  BY <1>1, Remainder

\* The first multiple.
LEMMA RoundUp ==
  ASSUME NEW x \in Int, NEW P \in Nat \ {0}
  PROVE  LET q == ((x + P - 1) \div P) * P
         IN  q \in Int /\ x <= q /\ q < x + P /\ q % P = 0
<1> DEFINE y == x + P - 1
           i == y \div P
           r == y % P
<1>1. i \in Int /\ r \in Int /\ y \in Int /\ y = P * i + r /\ 0 <= r /\ r < P /\ i * P = P * i
  BY Quotient
<1>2. (P * i) % P = 0
  BY <1>1, Multiple
<1>3. y = x + P - 1 /\ P * i \in Int
  BY <1>1
<1> HIDE DEF i, r, y
<1>4. x <= P * i /\ P * i < x + P
  BY <1>1, <1>3
<1> QED
  BY <1>1, <1>2, <1>3, <1>4 DEF i, y

\* Two multiples that differ by less than P are one.
LEMMA MultiplesApart ==
  ASSUME NEW x \in Int, NEW y \in Int, NEW P \in Nat \ {0}, x % P = 0, y % P = 0,
         x <= y, y < x + P
  PROVE  x = y
<1>1. (y - x) % P = 0
  BY MultiplesAdd
<1>2. (0 + (y - x)) % P = y - x
  BY RoundDown, 0 % P = 0
<1>3. 0 + (y - x) = y - x
  OBVIOUS
<1> QED
  BY <1>1, <1>2, <1>3

\* A product that survives its division has not wrapped around.
LEMMA NoWrap ==
  ASSUME NEW n \in Nat \ {0}, NEW m \in Nat, NEW M \in Nat \ {0}, ((n * m) % M) \div n = m
  PROVE  (n * m) % M = n * m
OBVIOUS

\* Every non-empty set of numbers has a least one.
LEMMA LeastNat ==
  ASSUME NEW S \in SUBSET Nat, S # {}
  PROVE  \E m \in S : \A k \in S : m <= k
<1> DEFINE R == OpToRel(<, Nat)
<1>1. IsWellFoundedOn(R, Nat)
  BY NatLessThanWellFounded
<1>2. \A a, b \in Nat : a < b => <<a, b>> \in R
  BY DEF OpToRel
<1> HIDE DEF R
<1>3. PICK m \in S : \A k \in S : ~(<<k, m>> \in R)
  BY <1>1, WFMin
<1>4. \A k \in S : ~(k < m)
  BY <1>2, <1>3
<1>5. \A k \in S : m <= k
  BY <1>4
<1> QED
  BY <1>5

-----------------------------------------------------------------------------
(* Pages.                                                                  *)

LEMMA Sizes0 ==
  /\ Page \in Nat \ {0} /\ Hdr \in Nat \ {0} /\ DataSize \in Nat \ {0}
  /\ AllocUnit \in Nat \ {0} /\ BlkMod \in Nat \ {0} /\ SizeMod \in Nat \ {0}
  /\ SpanSize \in Nat \ {0} /\ SpanSize = DataSize + Hdr /\ AllocUnit >= 2 * SpanSize
BY RegionConstants DEF SpanSize

LEMMA PagesOf ==
  ASSUME NEW a \in Nat, NEW n \in Int, n # 0
  PROVE  \A x : x \in Pages(a, n) <=>
           x \in Int /\ a \div Page <= x /\ x <= (a + n - 1) \div Page
<1>1. a \div Page \in Int /\ (a + n - 1) \div Page \in Int
  BY Sizes0, Quotient
<1> QED
  BY <1>1 DEF Pages

LEMMA PagesNat ==
  ASSUME NEW a \in Nat, NEW n \in Int
  PROVE  Pages(a, n) \in SUBSET Nat
<1>1. CASE n = 0
  BY <1>1 DEF Pages
<1>2. CASE n # 0
  <2>1. 0 \div Page <= a \div Page /\ 0 \div Page = 0
    BY Sizes0, DivMonotone
  <2>2. a \div Page \in Int
    BY Sizes0, Quotient
  <2> QED
    BY <1>2, <2>1, <2>2, PagesOf
<1> QED
  BY <1>1, <1>2

\* A part of a region is on pages of the region.
LEMMA PagesWithin ==
  ASSUME NEW a \in Nat, NEW n \in Nat \ {0}, NEW b \in Nat, NEW m \in Int,
         a <= b, b + m <= a + n
  PROVE  Pages(b, m) \subseteq Pages(a, n)
<1>1. CASE m = 0
  BY <1>1 DEF Pages
<1>2. CASE m # 0
  <2>1. a \div Page <= b \div Page
    BY Sizes0, DivMonotone
  <2>2. (b + m - 1) \div Page <= (a + n - 1) \div Page
    <3>1. b + m - 1 \in Int /\ a + n - 1 \in Int /\ b + m - 1 <= a + n - 1
      OBVIOUS
    <3> QED
      BY <3>1, Sizes0, DivMonotone
  <2>3. /\ a \div Page \in Int /\ b \div Page \in Int
        /\ (b + m - 1) \div Page \in Int /\ (a + n - 1) \div Page \in Int
    BY Sizes0, Quotient
  <2>4. \A x \in Pages(b, m) : x \in Int /\ b \div Page <= x /\ x <= (b + m - 1) \div Page
    BY <1>2, PagesOf
  <2>5. \A x \in Pages(b, m) : x \in Int /\ a \div Page <= x /\ x <= (a + n - 1) \div Page
    BY <2>1, <2>2, <2>3, <2>4
  <2> QED
    BY <2>5, PagesOf
<1> QED
  BY <1>1, <1>2

\* A region has a page.
LEMMA PageOfByte ==
  ASSUME NEW a \in Nat, NEW n \in Nat \ {0}, NEW x \in Nat, a <= x, x < a + n
  PROVE  x \div Page \in Pages(a, n)
<1>1. Pages(x, 1) \subseteq Pages(a, n)
  BY PagesWithin
<1>2. x \div Page \in Pages(x, 1)
  <2>1. x + 1 - 1 = x /\ x \div Page \in Int /\ x \div Page <= x \div Page
    BY Sizes0, Quotient
  <2> QED
    BY <2>1, PagesOf
<1> QED
  BY <1>1, <1>2

\* Regions on different pages do not overlap.
LEMMA PagesApart ==
  ASSUME NEW a \in Nat, NEW n \in Nat \ {0}, NEW b \in Nat, NEW m \in Nat \ {0},
         Pages(a, n) \cap Pages(b, m) = {}
  PROVE  a + n <= b \/ b + m <= a
<1> SUFFICES ASSUME b < a + n, a < b + m
             PROVE  FALSE
  OBVIOUS
<1>1. CASE a <= b
  BY <1>1, PageOfByte, b < b + m
<1>2. CASE b <= a
  BY <1>2, PageOfByte, a < a + n
<1> QED
  BY <1>1, <1>2

\* A region is continued at the boundary e of a page.
LEMMA PagesContinued ==
  ASSUME NEW a \in Nat, NEW e \in Nat, NEW n \in Nat \ {0}, a < e, e % Page = 0
  PROVE  Pages(a, e + n - a) = Pages(a, e - a) \cup Pages(e, n)
<1> DEFINE i == a \div Page
           j == e \div Page
           k == (e + n - 1) \div Page
<1>0. (e - 1) \div Page = j - 1
  <2>1. e \in Int /\ Page \in Nat \ {0}
    BY Sizes0
  <2> QED
    BY ONLY <2>1, e % Page = 0, DivBoundary
<1>1. i \in Int /\ j \in Int /\ k \in Int /\ i <= j - 1 /\ j <= k
  <2>2. a \div Page <= (e - 1) \div Page
    BY Sizes0, DivMonotone
  <2>3. e \div Page <= (e + n - 1) \div Page
    BY Sizes0, DivMonotone
  <2> QED
    BY <1>0, <2>2, <2>3, Sizes0, Quotient
<1>2. \A x : x \in Pages(a, e - a) <=> x \in Int /\ i <= x /\ x <= j - 1
  <2> DEFINE d == e - a
  <2>1. d \in Int /\ d # 0 /\ a + d - 1 = e - 1
    OBVIOUS
  <2> HIDE DEF d, j
  <2>3. \A x : x \in Pages(a, d) <=> x \in Int /\ i <= x /\ x <= (a + d - 1) \div Page
    BY <2>1, PagesOf
  <2> QED
    BY <1>0, <2>1, <2>3 DEF d
<1>3. \A x : x \in Pages(e, n) <=> x \in Int /\ j <= x /\ x <= k
  BY PagesOf
<1>4. \A x : x \in Pages(a, e + n - a) <=> x \in Int /\ i <= x /\ x <= k
  <2> DEFINE d == e + n - a
  <2>1. d \in Int /\ d # 0 /\ a + d - 1 = e + n - 1
    OBVIOUS
  <2> HIDE DEF d
  <2>2. \A x : x \in Pages(a, d) <=> x \in Int /\ i <= x /\ x <= (a + d - 1) \div Page
    BY <2>1, PagesOf
  <2> QED
    BY <2>1, <2>2 DEF d
<1> HIDE DEF i, j, k
<1>5. \A x : x \in Int => (i <= x /\ x <= k <=> (i <= x /\ x <= j - 1) \/ (j <= x /\ x <= k))
  BY <1>1
<1> QED
  BY <1>2, <1>3, <1>4, <1>5

\* Where mmap puts a mapping.
LEMMA PlacesFree ==
  ASSUME NEW n \in Nat, NEW a \in Places(n)
  PROVE  a \in Nat \ {0} /\ a % Page = 0 /\ Pages(a, n) \cap mapped = {}
<1>1. PICK k \in 1..(Top - 1) : a = Page * k
  BY DEF Places
<1>2. k \in Nat \ {0}
  BY <1>1
<1> QED
  BY <1>1, <1>2, Sizes0, Multiple DEF Places

-----------------------------------------------------------------------------
(* Where blocks are.                                                       *)

LEMMA PoolFacts ==
  ASSUME TypeOK, Pool
  PROVE  /\ start \in Nat /\ end \in Nat /\ free_start \in Nat
         /\ end - start \in Nat \ {0} /\ start + (end - start) = end
         /\ PoolPages \in SUBSET Nat
         /\ \A s \in Carved : /\ s \in Nat /\ s % SpanSize = 0 /\ start <= s
                              /\ s + SpanSize <= free_start /\ span[s] \in 1..DataSize
         /\ free_start % SpanSize = 0 /\ free_start \notin Carved
<1>1. start \in Nat /\ end \in Nat /\ free_start \in Nat /\ start < end /\ start <= free_start
  BY DEF TypeOK, Pool
<1>2. end - start \in Nat \ {0} /\ start + (end - start) = end
  BY <1>1
<1>0. start % SpanSize = 0 /\ (free_start - start) % SpanSize = 0
  BY DEF Pool
<1>3. free_start % SpanSize = 0
  <2>1. start \in Int /\ free_start \in Int /\ SpanSize \in Nat \ {0}
    BY <1>1, Sizes0
  <2> QED
    BY ONLY <2>1, <1>0, MultipleFrom
<1>4. ASSUME NEW s \in Carved
      PROVE  s \in Nat /\ s % SpanSize = 0 /\ start <= s /\ s < free_start
             /\ s + SpanSize <= free_start /\ span[s] \in 1..DataSize
  <2>1. s \in start..(free_start - 1) /\ (s - start) % SpanSize = 0
    BY DEF Pool
  <2>2. s \in Nat /\ start <= s /\ s < free_start /\ s - start \in Int /\ start + (s - start) = s
    BY <1>1, <2>1
  <2>3. start \in Int /\ s \in Int /\ SpanSize \in Nat \ {0}
    BY <1>1, <2>2, Sizes0
  <2>4. s % SpanSize = 0
    BY ONLY <2>1, <2>3, <1>0, MultipleFrom
  <2>5. ~(free_start < s + SpanSize)
    <3> SUFFICES ASSUME free_start < s + SpanSize
                 PROVE  FALSE
      OBVIOUS
    <3>1. s \in Int /\ free_start \in Int /\ SpanSize \in Nat \ {0} /\ s <= free_start
      BY <1>1, <2>2, Sizes0
    <3>2. s = free_start
      BY ONLY <3>1, <1>3, <2>4, free_start < s + SpanSize, MultiplesApart
    <3> QED
      BY <2>2, <3>2
  <2>6. span[s] \in 1..DataSize
    BY RegionConstants DEF TypeOK
  <2> QED
    BY <1>1, <2>2, <2>4, <2>5, <2>6, Sizes0
<1>5. free_start \notin Carved
  BY <1>1, <1>4
<1> QED
  BY <1>1, <1>2, <1>3, <1>4, <1>5, PagesNat DEF PoolPages

\* GET_HEADER finds the span of a block, which is in the pool.
LEMMA SmallPlace ==
  ASSUME TypeOK, Pool, NEW s \in Carved, NEW p \in Slots(s)
  PROVE  p \in Nat /\ ~Outside(p) /\ GetHeader(p) = s /\ s < p /\ p < s + SpanSize
<1> DEFINE c == span[s]
           q == DataSize \div c
<1>1. PICK k \in 0..(q - 1) : p = s + Hdr + k * c
  BY DEF Slots
<1>2. /\ s \in Nat /\ s % SpanSize = 0 /\ start <= s /\ s + SpanSize <= free_start
      /\ c \in Nat \ {0} /\ c <= DataSize
  BY PoolFacts
<1>3. q \in Int /\ c * q <= DataSize
  <2>1. c \in Nat \ {0} /\ DataSize \in Int
    BY <1>2, Sizes0
  <2> HIDE DEF c
  <2>2. /\ DataSize \div c \in Int /\ DataSize % c \in Int /\ 0 <= DataSize % c
        /\ DataSize = c * (DataSize \div c) + (DataSize % c)
    BY ONLY <2>1, Quotient
  <2> HIDE DEF q
  <2>3. q \in Int /\ c * q \in Int /\ DataSize = c * q + (DataSize % c)
    BY <2>1, <2>2 DEF q
  <2> QED
    BY <2>1, <2>2, <2>3
<1>4. k \in Nat /\ k * c = c * k /\ c * k \in Nat
  BY <1>1, <1>2, <1>3
<1>5. c * k <= c * q - c
  <2>1. k <= q - 1
    BY <1>1, <1>3
  <2> HIDE DEF c, q
  <2>2. c * k <= c * (q - 1) /\ c * (q - 1) = c * q - c
    BY <1>2, <1>3, <1>4, <2>1
  <2> QED
    BY <2>2
<1> DEFINE r == Hdr + k * c
<1>6. r \in Nat /\ 0 < r /\ r < SpanSize /\ p = s + r
  <2> HIDE DEF c, q
  <2>1. c * q \in Int
    BY <1>2, <1>3
  <2> QED
    BY <1>1, <1>2, <1>3, <1>4, <1>5, <2>1, Sizes0
<1> HIDE DEF r
<1>7. p % SpanSize = r
  BY <1>2, <1>6, Sizes0, RoundDown
<1>8. p \in Nat /\ s < p /\ p < s + SpanSize /\ GetHeader(p) = s
  BY <1>2, <1>6, <1>7, Sizes0 DEF GetHeader
<1>9. start <= p /\ p <= end
  BY <1>2, <1>8, Sizes0 DEF TypeOK, Pool
<1> QED
  BY <1>8, <1>9 DEF Outside, TypeOK

\* A mapping that is not on the pool's pages begins and ends outside the pool.
LEMMA LargePlace ==
  ASSUME TypeOK, Pool, NEW b \in Block, Shape(b), Mapping(b) \cap PoolPages = {}
  PROVE  Outside(b.p)
<1> DEFINE a == b.p - Hdr
           d == end - start
<1>1. a \in Nat /\ b.p = a + Hdr /\ b.len \in Nat \ {0} /\ b.len > Hdr
  BY Sizes0, RegionConstants DEF Shape, Block
<1>2. start \in Nat /\ d \in Nat \ {0} /\ start + d = end
  BY PoolFacts
<1>3. Pages(a, b.len) \cap Pages(start, d) = {}
  BY DEF Mapping, PoolPages
<1> HIDE DEF a, d
<1>4. a + b.len <= start \/ start + d <= a
  BY <1>1, <1>2, <1>3, PagesApart
<1> QED
  BY <1>1, <1>2, <1>4, Sizes0 DEF Outside

\* The smallest class that is large enough.
LEMMA ClassFits ==
  ASSUME NEW sz \in Nat, sz <= DataSize
  PROVE  Cls(sz) \in Classes /\ sz <= Cls(sz)
<1> DEFINE S == {c \in Classes : sz <= c}
<1>1. S \in SUBSET Nat /\ S # {}
  <2>1. Classes \in SUBSET Nat /\ DataSize \in Classes
    BY RegionConstants
  <2> QED
    BY <2>1
<1>2. \E m \in S : \A k \in S : m <= k
  BY <1>1, LeastNat
<1>3. Min(S) \in S
  BY <1>2 DEF Min
<1> QED
  BY <1>3 DEF Cls

\* A block of a call is not one of those in use, and takes no page of them.
LEMMA NewBlock ==
  ASSUME TypeOK, Pool, Blocks, NEW sz \in Nat \ {0}, NEW n \in NewBlocks(sz)
  PROVE  /\ n \in Block /\ n.req = sz /\ n.len \in {0, sz}
         /\ IF n.len = 0 THEN Small(n) ELSE Shape(n)
         /\ Mapping(n) \cap mapped = {}
         /\ \A b \in live : n.p # b.p
<1>1. CASE sz <= DataSize
  <2>0. PICK s \in Carved : \E p \in Slots(s) :
          /\ span[s] = Cls(sz) /\ p \notin {b.p : b \in live}
          /\ n = [p |-> p, req |-> sz, blk |-> Cls(sz), len |-> 0]
    <3> DEFINE T == {t \in Carved : span[t] = Cls(sz)}
               Q == {b.p : b \in live}
    <3>0. n \in SmallBlocks(sz)
      BY <1>1 DEF NewBlocks
    <3>1. PICK p \in (UNION {Slots(t) : t \in T}) \ Q :
            n = [p |-> p, req |-> sz, blk |-> Cls(sz), len |-> 0]
      BY <3>0 DEF SmallBlocks
    <3>2. PICK t \in T : p \in Slots(t)
      BY <3>1
    <3>3. t \in Carved /\ span[t] = Cls(sz) /\ p \notin Q
      BY <3>1, <3>2
    <3> HIDE DEF T, Q
    <3>4. p \notin {b.p : b \in live}
      BY <3>3 DEF Q
    <3> QED
      BY <3>1, <3>2, <3>3, <3>4
  <2>1. PICK p \in Slots(s) :
          /\ span[s] = Cls(sz) /\ p \notin {b.p : b \in live}
          /\ n = [p |-> p, req |-> sz, blk |-> Cls(sz), len |-> 0]
    BY <2>0
  <2>2. p \in Nat
    BY SmallPlace
  <2>3. Cls(sz) \in Nat /\ sz <= Cls(sz)
    <3>1. Classes \in SUBSET Nat
      BY RegionConstants
    <3> QED
      BY <1>1, <3>1, ClassFits
  <2>4. n \in Block /\ n.p = p /\ n.req = sz /\ n.len = 0 /\ n.blk = span[s]
    BY <2>1, <2>2, <2>3 DEF Block
  <2>5. Small(n)
    BY <2>1, <2>3, <2>4 DEF Small
  <2>6. Mapping(n) = {}
    BY <2>4 DEF Mapping, Pages
  <2> QED
    BY <2>1, <2>4, <2>5, <2>6
<1>2. CASE ~(sz <= DataSize)
  <2>1. PICK a \in Places(sz) :
          n = [p |-> a + Hdr, req |-> sz, blk |-> sz % BlkMod, len |-> sz]
    BY <1>2 DEF NewBlocks, LargeBlocks
  <2>2. a \in Nat \ {0} /\ a % Page = 0 /\ Pages(a, sz) \cap mapped = {}
    BY PlacesFree
  <2>3. sz % BlkMod \in Nat
    BY Sizes0
  <2>4. /\ n \in Block /\ n.p = a + Hdr /\ n.p - Hdr = a /\ n.req = sz /\ n.len = sz
        /\ n.blk = sz % BlkMod
    BY <2>1, <2>2, <2>3, Sizes0 DEF Block
  <2>5. Shape(n)
    BY <1>2, <2>2, <2>4, Sizes0 DEF Shape
  <2>6. Mapping(n) = Pages(a, sz) /\ Mapping(n) \cap mapped = {}
    BY <2>2, <2>4 DEF Mapping
  <2>7. ASSUME NEW b \in live, n.p = b.p
        PROVE  FALSE
    <3>0. b \in Block
      BY DEF TypeOK
    <3>1. CASE b.len = 0
      <4>1. ~Outside(b.p)
        BY <3>1, SmallPlace DEF Blocks, Small
      <4>2. Mapping(n) \cap PoolPages = {}
        BY <2>6 DEF Pool
      <4> QED
        BY <2>4, <2>5, <2>7, <4>1, <4>2, LargePlace
    <3>2. CASE b.len # 0
      <4>1. Mapping(b) = Pages(a, b.len) /\ Mapping(b) \subseteq mapped
        BY <2>4, <2>7, <3>2 DEF Blocks, Large, Mapping
      <4>2. b.len \in Nat \ {0}
        BY <3>0, <3>2 DEF Block
      <4>3. a \div Page \in Pages(a, b.len) /\ a \div Page \in Pages(a, sz)
        BY <2>2, <4>2, PageOfByte
      <4> QED
        BY <2>2, <4>1, <4>3
    <3> QED
      BY <3>1, <3>2
  <2> QED
    BY <1>2, <2>4, <2>5, <2>6, <2>7, Sizes0
<1> QED
  BY <1>1, <1>2

-----------------------------------------------------------------------------
(* Steps that exchange blocks.                                             *)

LEMMA SamePool ==
  ASSUME UNCHANGED <<pool, span>>, TypeOK, Pool, PoolPages \subseteq mapped',
         mapped' \in SUBSET Nat, live' \in SUBSET Block, fate' \in Fates
  PROVE  /\ TypeOK' /\ Pool' /\ PoolPages' = PoolPages
         /\ \A b : Small(b) => Small(b)'
<1>1. start' = start /\ end' = end /\ free_start' = free_start /\ span' = span
  BY DEF pool
<1>2. PoolPages' = PoolPages
  BY <1>1 DEF PoolPages
<1>3. Pool'
  BY <1>1, <1>2 DEF Pool, Carved
<1>4. TypeOK'
  BY <1>1 DEF TypeOK, Carved
<1>5. \A b : Small(b) => Small(b)'
  BY <1>1 DEF Small, Carved, Slots
<1> QED
  BY <1>2, <1>3, <1>4, <1>5

\* A block goes away (those of D), or comes (those of A), or both; of the
\* pages that go away all were its own.
LEMMA Exchange ==
  ASSUME UNCHANGED <<pool, span>>, TypeOK, Pool, Blocks, fate' \in Fates,
         NEW D \in SUBSET live, NEW A \in SUBSET Block, NEW U,
         \A m, n \in A : m = n,
         \A n \in A : /\ IF n.len = 0 THEN Small(n) ELSE Shape(n)
                      /\ Mapping(n) \cap mapped = {}
                      /\ \A b \in live : n.p # b.p,
         live' = (live \ D) \cup A,
         mapped' = (mapped \cup UNION {Mapping(n) : n \in A}) \ U,
         U \subseteq UNION {Mapping(d) : d \in D}
  PROVE  TypeOK' /\ Pool' /\ Blocks'
<1>0. \A b \in live : b \in Block
  BY DEF TypeOK
<1>1. \A b \in live : Mapping(b) \subseteq mapped /\ Mapping(b) \cap PoolPages = {}
  <2> SUFFICES ASSUME NEW b \in live
               PROVE  Mapping(b) \subseteq mapped /\ Mapping(b) \cap PoolPages = {}
    OBVIOUS
  <2>1. CASE b.len = 0
    BY <2>1 DEF Mapping, Pages
  <2>2. CASE b.len # 0
    BY <2>2 DEF Blocks, Large
  <2> QED
    BY <2>1, <2>2
<1>2. PoolPages \subseteq mapped
  BY DEF Pool
<1>3. U \subseteq mapped /\ U \cap PoolPages = {}
  BY <1>1
<1>4. \A n \in A : Mapping(n) \in SUBSET Nat
  <2> SUFFICES ASSUME NEW n \in A
               PROVE  Pages(n.p - Hdr, n.len) \in SUBSET Nat
    BY DEF Mapping
  <2>1. CASE n.len = 0
    BY <2>1 DEF Pages
  <2>2. CASE n.len # 0
    <3>1. n.p - Hdr \in Nat /\ n.len \in Int
      BY <2>2, Sizes0 DEF Shape, Block
    <3> QED
      BY <3>1, PagesNat
  <2> QED
    BY <2>1, <2>2
<1>5. mapped' \in SUBSET Nat /\ live' \in SUBSET Block /\ PoolPages \subseteq mapped'
  BY <1>0, <1>2, <1>3, <1>4 DEF TypeOK
<1>6. TypeOK' /\ Pool' /\ PoolPages' = PoolPages /\ \A b : Small(b) => Small(b)'
  BY <1>5, SamePool
<1>7. \A b, c \in live' : b # c => b.p # c.p /\ Mapping(b) \cap Mapping(c) = {}
  <2> SUFFICES ASSUME NEW b \in live', NEW c \in live', b # c
               PROVE  b.p # c.p /\ Mapping(b) \cap Mapping(c) = {}
    OBVIOUS
  <2>1. CASE b \in live /\ c \in live
    BY <2>1 DEF Blocks
  <2>2. CASE b \in A /\ c \in live
    BY <1>1, <2>2
  <2>3. CASE b \in live /\ c \in A
    BY <1>1, <2>3
  <2> QED
    BY <2>1, <2>2, <2>3
<1>8. ASSUME NEW b \in live'
      PROVE  IF b.len = 0 THEN Small(b)' ELSE Large(b)'
  <2>1. IF b.len = 0 THEN Small(b) ELSE Shape(b)
    BY DEF Blocks, Large
  <2>2. Mapping(b) \cap U = {}
    <3>1. CASE b \in A
      BY <1>3, <3>1
    <3>2. CASE b \in live \ D
      BY <3>2 DEF Blocks
    <3> QED
      BY <3>1, <3>2
  <2>3. Mapping(b) \subseteq mapped' /\ Mapping(b) \cap PoolPages = {}
    BY <1>1, <1>2, <2>2
  <2> QED
    BY <1>6, <2>1, <2>3 DEF Large, Shape, Mapping
<1>9. Blocks'
  BY <1>7, <1>8 DEF Blocks, Mapping
<1> QED
  BY <1>6, <1>9

\* The same, for the pages: those that go away are all those of D.
LEMMA ExchangePages ==
  ASSUME UNCHANGED <<pool, span>>, TypeOK, Pool, Blocks,
         NEW first \in Nat, From(first),
         NEW D \in SUBSET live, NEW A \in SUBSET Block,
         \A n \in A : Mapping(n) \cap mapped = {},
         live' = (live \ D) \cup A,
         mapped' = (mapped \cup UNION {Mapping(n) : n \in A}) \ UNION {Mapping(d) : d \in D}
  PROVE  From(first)'
<1> DEFINE R == Pages(first, end - first)
           M == UNION {Mapping(b) : b \in LargeLive}
<1>1. start' = start /\ end' = end
  BY DEF pool
<1>2. \A b \in live \cup A : b.len # 0 <=> b.len > 0
  BY DEF TypeOK, Block
<1>3. \A b \in live \cup A : b.len = 0 => Mapping(b) = {}
  BY DEF Mapping, Pages
<1>4. LargeLive' = {b \in live' : b.len > 0}
  BY DEF LargeLive
<1>5. \A x : x \in M <=> \E b \in live : x \in Mapping(b)
  BY <1>2, <1>3 DEF LargeLive
<1>6. \A b \in live : Mapping(b) \cap R = {}
  BY <1>2, <1>3 DEF LargeLive, From
<1>7. mapped = R \cup M
  BY DEF From
<1> HIDE DEF R, M
<1>8. \A b \in live' : Mapping(b) \cap R = {}
  BY <1>6, <1>7
<1>9. \A b \in live \ D, d \in D : Mapping(b) \cap Mapping(d) = {}
  BY DEF Blocks
<1>10. \A b \in A, d \in D : Mapping(b) \cap Mapping(d) = {}
  BY <1>5, <1>7
<1>11. \A x : x \in mapped' <=> x \in R \/ \E b \in live' : x \in Mapping(b)
  <2> SUFFICES ASSUME NEW x
               PROVE  x \in mapped' <=> x \in R \/ \E b \in live' : x \in Mapping(b)
    OBVIOUS
  <2>1. x \in mapped' <=> /\ x \in R \/ (\E b \in live : x \in Mapping(b))
                                     \/ (\E n \in A : x \in Mapping(n))
                          /\ ~\E d \in D : x \in Mapping(d)
    BY <1>5, <1>7
  <2>2. ASSUME x \in mapped'
        PROVE  x \in R \/ \E b \in live' : x \in Mapping(b)
    BY <2>1, <2>2
  <2>3. ASSUME x \in R
        PROVE  x \in mapped'
    BY <1>6, <2>1, <2>3
  <2>4. ASSUME NEW b \in live', x \in Mapping(b)
        PROVE  x \in mapped'
    BY <1>9, <1>10, <2>1, <2>4
  <2> QED
    BY <2>2, <2>3, <2>4
<1>12. \A b \in live' : b.len = 0 => Mapping(b) = {}
  BY <1>3
<1>13. \A b \in live' : b.len # 0 <=> b.len > 0
  BY <1>2
<1>14. mapped' = R \cup UNION {Mapping(b) : b \in LargeLive'}
  BY <1>4, <1>11, <1>12, <1>13
<1>15. R' = R /\ R = Pages(first, end' - first)
  BY <1>1 DEF R
<1>16. \A b : Mapping(b)' = Mapping(b)
  BY DEF Mapping
<1> QED
  BY <1>1, <1>4, <1>8, <1>14, <1>15, <1>16 DEF From, Mapping

\* Steps that change none of the pages and blocks.
LEMMA SameRegions ==
  ASSUME RInv, start # 0, UNCHANGED <<mapped, pool, span, live>>, fate' \in Fates
  PROVE  RInv'
<1>1. start' = start /\ end' = end /\ free_start' = free_start
  BY DEF pool
<1>2. TypeOK'
  BY <1>1 DEF RInv, TypeOK, Carved
<1>3. PoolPages' = PoolPages
  BY <1>1 DEF PoolPages
<1>4. Pool'
  BY <1>1, <1>3 DEF RInv, Pool, Carved
<1>5. \A b : (Small(b) => Small(b)') /\ (Large(b) => Large(b)')
  BY <1>3 DEF Small, Large, Shape, Mapping, Slots, Carved
<1>6. Blocks'
  BY <1>5 DEF RInv, Blocks, Mapping
<1> QED
  BY <1>1, <1>2, <1>4, <1>6 DEF RInv

LEMMA SamePages ==
  ASSUME PInv, UNCHANGED <<mapped, pool, span, live>>, Ready
  PROVE  PInv'
<1>1. start' = start /\ end' = end
  BY DEF pool
<1>2. \A first : From(first) => From(first)'
  BY <1>1 DEF From, LargeLive, Mapping
<1>3. LargeLive' = LargeLive
  BY DEF LargeLive
<1> QED
  BY <1>1, <1>2, <1>3 DEF PInv, Ready

LEMMA ReadyInv ==
  ASSUME RInv, Ready
  PROVE  start # 0 /\ TypeOK /\ Pool /\ Blocks
BY DEF RInv, Ready

-----------------------------------------------------------------------------
(* The pool.                                                               *)

LEMMA GlobalFatalInv ==
  ASSUME RInv, GlobalFatal
  PROVE  RInv' /\ PInv'
<1>1. start = 0 /\ TypeOK /\ Fresh /\ UNCHANGED <<mapped, start, end, free_start, span, live>>
  BY DEF RInv, GlobalFatal, pool
<1>2. Carved' = Carved /\ LargeLive' = {}
  BY <1>1 DEF Carved, Fresh, LargeLive
<1>3. TypeOK' /\ Fresh'
  BY <1>1, <1>2 DEF GlobalFatal, TypeOK, Fates, Fresh
<1> QED
  BY <1>1, <1>2, <1>3 DEF RInv, PInv

LEMMA GlobalInitInv ==
  ASSUME RInv, GlobalInit
  PROVE  RInv' /\ PInv'
<1>1. start = 0 /\ TypeOK /\ Fresh /\ UNCHANGED <<span, live, fate>>
  BY DEF RInv, GlobalInit
<1>2. PICK raw \in Places(AllocUnit) :
        /\ mapped' = mapped \cup Pages(raw, AllocUnit)
        /\ start' = ((raw + SpanSize - 1) \div SpanSize) * SpanSize
        /\ end' = raw + AllocUnit
        /\ free_start' = start'
  BY DEF GlobalInit
<1>3. raw \in Nat \ {0} /\ raw % Page = 0
  BY Sizes0, PlacesFree
<1>4. start' \in Nat \ {0} /\ raw <= start' /\ start' < raw + SpanSize /\ start' % SpanSize = 0
  <2> DEFINE q == ((raw + SpanSize - 1) \div SpanSize) * SpanSize
  <2>1. raw \in Int /\ SpanSize \in Nat \ {0}
    BY <1>3, Sizes0
  <2>2. q \in Int /\ raw <= q /\ q < raw + SpanSize /\ q % SpanSize = 0
    BY ONLY <2>1, RoundUp
  <2>3. start' = q
    BY <1>2
  <2> HIDE DEF q
  <2> QED
    BY <1>3, <2>2, <2>3
<1>5. end' \in Nat /\ start' < end' /\ end' % Page = 0
  <2>1. end' \in Nat /\ start' < end'
    BY <1>2, <1>3, <1>4, Sizes0
  <2>2. raw \in Int /\ AllocUnit \in Int /\ Page \in Nat \ {0} /\ AllocUnit % Page = 0
    BY <1>3, Sizes0, RegionConstants
  <2>3. (raw + AllocUnit) % Page = 0
    BY ONLY <1>3, <2>2, MultiplesAdd
  <2> QED
    BY <1>2, <2>1, <2>3
<1>6. mapped' = Pages(raw, AllocUnit) /\ mapped' \in SUBSET Nat
  BY <1>1, <1>2, <1>3, Sizes0, PagesNat DEF Fresh
<1>7. PoolPages' \subseteq mapped'
  <2>1. PoolPages' = Pages(start', end' - start')
    BY DEF PoolPages
  <2>2. start' \in Nat /\ end' - start' \in Int /\ start' + (end' - start') <= raw + AllocUnit
    BY <1>2, <1>4, <1>5
  <2> QED
    BY <1>3, <1>4, <1>6, <2>1, <2>2, Sizes0, PagesWithin
<1>8. Carved' = {} /\ live' = {}
  BY <1>1 DEF Fresh, Carved
<1>9. TypeOK'
  <2>1. span' \in [Carved' -> Classes]
    BY <1>1 DEF TypeOK, Carved
  <2> QED
    BY <1>1, <1>2, <1>4, <1>5, <1>6, <1>8, <2>1 DEF TypeOK
<1>10. Pool'
  <2>1. {s \in start'..(free_start' - 1) : (s - start') % SpanSize = 0} = {}
    BY <1>2, <1>4
  <2>2. free_start' - start' = 0 /\ 0 % SpanSize = 0
    BY <1>2, <1>4, Sizes0
  <2> QED
    BY <1>2, <1>4, <1>5, <1>7, <1>8, <2>1, <2>2 DEF Pool
<1>11. Blocks'
  BY <1>8 DEF Blocks
<1>12. From(raw)'
  <2>1. LargeLive' = {}
    BY <1>8 DEF LargeLive
  <2>2. Pages(raw, end' - raw) = Pages(raw, AllocUnit)
    <3>1. end' - raw = AllocUnit
      BY <1>2, <1>3, Sizes0
    <3> QED
      BY <3>1
  <2> QED
    BY <1>3, <1>4, <1>6, <2>1, <2>2, Sizes0 DEF From
<1> QED
  BY <1>3, <1>4, <1>8, <1>9, <1>10, <1>11, <1>12 DEF RInv, PInv, LargeLive

\* One more span, in a pool that ends at end'.
LEMMA CarveInv ==
  ASSUME TypeOK, Pool, Blocks, start # 0, NEW c \in Classes, Carve(c),
         UNCHANGED <<start, live, fate>>, mapped' \in SUBSET Nat, mapped \subseteq mapped',
         end' \in Nat, end <= end', end' % Page = 0, free_start + SpanSize <= end',
         PoolPages' \subseteq mapped',
         \A b \in live : b.len # 0 => Mapping(b) \cap PoolPages' = {}
  PROVE  RInv'
<1>1. /\ free_start' = free_start + SpanSize /\ Carved' = Carved \cup {free_start}
      /\ span' = [s \in Carved \cup {free_start} |-> IF s = free_start THEN c ELSE span[s]]
  BY DEF Carve, Carved
<1>2. /\ start \in Nat /\ free_start \in Nat /\ start <= free_start /\ start < end /\ end \in Nat
      /\ start % SpanSize = 0 /\ (free_start - start) % SpanSize = 0
      /\ Carved = {s \in start..(free_start - 1) : (s - start) % SpanSize = 0}
      /\ free_start \notin Carved
  BY PoolFacts DEF Pool, TypeOK
<1>3. free_start' \in Nat /\ start <= free_start' /\ start < end'
  BY <1>1, <1>2, Sizes0
<1>4. TypeOK'
  <2>1. span' \in [Carved' -> Classes]
    BY <1>1 DEF TypeOK
  <2> QED
    BY <1>1, <1>2, <1>3, <2>1 DEF TypeOK
<1>5. (free_start' - start) % SpanSize = 0
  <2> DEFINE d == free_start - start
  <2>1. d \in Int /\ SpanSize \in Int /\ SpanSize \in Nat \ {0} /\ SpanSize % SpanSize = 0
    BY <1>2, Sizes0
  <2>2. d % SpanSize = 0 /\ d + SpanSize = free_start' - start
    BY <1>1, <1>2, Sizes0
  <2> HIDE DEF d
  <2>3. (d + SpanSize) % SpanSize = 0
    BY ONLY <2>1, <2>2, MultiplesAdd
  <2> QED
    BY <2>2, <2>3
<1>6. Carved' = {s \in start..(free_start' - 1) : (s - start) % SpanSize = 0}
  <2>1. ASSUME NEW s \in start..(free_start' - 1), (s - start) % SpanSize = 0,
               ~(s < free_start)
        PROVE  s = free_start
    <3> DEFINE x == free_start - start
               y == s - start
    <3>1. /\ x \in Int /\ y \in Int /\ SpanSize \in Nat \ {0} /\ x % SpanSize = 0
          /\ y % SpanSize = 0 /\ x <= y /\ y < x + SpanSize
      BY <1>1, <1>2, <2>1, Sizes0
    <3>2. x = y => free_start = s
      BY <1>2, <2>1
    <3> HIDE DEF x, y
    <3>3. x = y
      BY ONLY <3>1, MultiplesApart
    <3> QED
      BY <3>2, <3>3
  <2>2. free_start \in start..(free_start' - 1)
    BY <1>1, <1>2, Sizes0
  <2>3. \A s \in start..(free_start - 1) : s \in start..(free_start' - 1)
    BY <1>1, <1>2, Sizes0
  <2>4. \A s \in start..(free_start' - 1) : s < free_start => s \in start..(free_start - 1)
    BY <1>1, <1>2, Sizes0
  <2> QED
    BY <1>1, <1>2, <2>1, <2>2, <2>3, <2>4
<1>7. Pool'
  BY <1>1, <1>2, <1>3, <1>5, <1>6 DEF Pool
<1>8. ASSUME NEW b, Small(b)
      PROVE  Small(b)'
  <2>1. PICK s \in Carved : b.p \in Slots(s) /\ b.blk = span[s]
    BY <1>8 DEF Small
  <2>2. span'[s] = span[s] /\ s \in Carved'
    BY <1>1, <1>2
  <2> QED
    BY <1>8, <2>1, <2>2 DEF Small, Slots
<1>9. \A b \in live : IF b.len = 0 THEN Small(b)' ELSE Large(b)'
  BY <1>8 DEF Blocks, Large, Shape, Mapping
<1>10. Blocks'
  BY <1>9 DEF Blocks, Mapping
<1> QED
  BY <1>4, <1>7, <1>10 DEF RInv

LEMMA AcquireCarveInv ==
  ASSUME RInv, NEW c \in Classes, AcquireCarve(c)
  PROVE  RInv' /\ (PInv => PInv')
<1>1. /\ start # 0 /\ TypeOK /\ Pool /\ Blocks /\ Carve(c)
      /\ UNCHANGED <<mapped, start, end, live, fate>>
  BY ReadyInv DEF AcquireCarve
<1>2. PoolPages' = PoolPages
  BY <1>1 DEF PoolPages
<1>3. RInv'
  BY <1>1, <1>2, CarveInv DEF AcquireCarve, Pool, TypeOK, Blocks, Large
<1>4. \A first : From(first) => From(first)'
  BY <1>1 DEF From, LargeLive, Mapping
<1>5. LargeLive' = LargeLive
  BY <1>1 DEF LargeLive
<1>6. Ready
  BY DEF AcquireCarve
<1> QED
  BY <1>1, <1>3, <1>4, <1>5, <1>6 DEF PInv

LEMMA AcquireGrowInv ==
  ASSUME RInv, NEW c \in Classes, AcquireGrow(c)
  PROVE  RInv' /\ (PInv => PInv')
<1>1. /\ start # 0 /\ TypeOK /\ Pool /\ Blocks /\ Carve(c) /\ Ready
      /\ UNCHANGED <<start, live, fate>>
      /\ end \in Places(AllocUnit) /\ end' = end + AllocUnit
      /\ mapped' = mapped \cup Pages(end, AllocUnit)
  BY ReadyInv DEF AcquireGrow
<1>2. /\ start \in Nat /\ end \in Nat /\ start < end /\ end % Page = 0
      /\ free_start \in Nat /\ free_start <= end
  BY <1>1 DEF TypeOK, Pool
<1>3. Pages(end, AllocUnit) \cap mapped = {} /\ Pages(end, AllocUnit) \in SUBSET Nat
  BY <1>1, <1>2, Sizes0, PlacesFree, PagesNat
<1>4. end' \in Nat /\ end <= end' /\ end' % Page = 0 /\ free_start + SpanSize <= end'
  <2>1. end \in Int /\ AllocUnit \in Int /\ Page \in Nat \ {0} /\ AllocUnit % Page = 0
    BY <1>2, Sizes0, RegionConstants
  <2>2. (end + AllocUnit) % Page = 0
    BY ONLY <1>2, <2>1, MultiplesAdd
  <2> QED
    BY <1>1, <1>2, <2>2, Sizes0
<1>5. \A a \in Nat : a < end => Pages(a, end' - a) = Pages(a, end - a) \cup Pages(end, AllocUnit)
  BY <1>1, <1>2, Sizes0, PagesContinued
<1>6. PoolPages' = PoolPages \cup Pages(end, AllocUnit)
  BY <1>1, <1>2, <1>5 DEF PoolPages
<1>7. mapped' \in SUBSET Nat /\ mapped \subseteq mapped' /\ PoolPages' \subseteq mapped'
  BY <1>1, <1>3, <1>6 DEF TypeOK, Pool
<1>8. \A b \in live : b.len # 0 => Mapping(b) \cap PoolPages' = {}
  BY <1>1, <1>3, <1>6 DEF Blocks, Large
<1>9. RInv'
  BY <1>1, <1>4, <1>7, <1>8, CarveInv
<1>10. LargeLive' = LargeLive /\ \A b : Mapping(b)' = Mapping(b)
  BY <1>1 DEF LargeLive, Mapping
<1>11. ASSUME NEW first \in Nat, From(first)
       PROVE  From(first)'
  <2> DEFINE G == Pages(end, AllocUnit)
             M == UNION {Mapping(b) : b \in LargeLive}
             R == Pages(first, end - first)
             Q == Pages(first, end' - first)
  <2>1. Q = R \cup G
    BY <1>2, <1>5, <1>11 DEF From
  <2>2. /\ first + SpanSize > start /\ first <= start /\ mapped = R \cup M
        /\ \A b \in LargeLive : Mapping(b) \cap R = {}
    BY <1>11 DEF From
  <2> HIDE DEF M, R, Q, G
  <2>3. \A b \in LargeLive : Mapping(b) \cap Q = {}
    <3> SUFFICES ASSUME NEW b \in LargeLive
                 PROVE  Mapping(b) \cap Q = {}
      OBVIOUS
    <3>1. Mapping(b) \subseteq mapped
      BY <2>2 DEF M
    <3> QED
      BY <1>3, <2>1, <2>2, <3>1 DEF G
  <2>4. mapped' = Q \cup M
    BY <1>1, <2>1, <2>2 DEF G
  <2> QED
    BY <1>1, <1>10, <2>2, <2>3, <2>4 DEF From, M, Q
<1> QED
  BY <1>1, <1>9, <1>10, <1>11 DEF PInv

(* The calls.                                                              *)

\* The pages of a block that a call has taken, and of one it frees.
LEMMA FreedPages ==
  ASSUME TypeOK, NEW b \in live, Shape(b)
  PROVE  /\ Unmaps(b) \subseteq Mapping(b)
         /\ b.len < BlkMod => Unmaps(b) = Mapping(b)
<1> DEFINE a == b.p - Hdr
<1>1. /\ b \in Block /\ b.len \in Nat \ {0} /\ b.blk = b.len % BlkMod
      /\ a \in Nat /\ BlkMod \in Nat \ {0}
  BY Sizes0 DEF TypeOK, Shape, Block
<1>2. b.blk \in Int /\ b.blk <= b.len
  BY <1>1
<1>3. Pages(a, b.blk) \subseteq Pages(a, b.len)
  <2> HIDE DEF a
  <2>1. a + b.blk <= a + b.len
    BY <1>1, <1>2
  <2> QED
    BY <1>1, <1>2, <2>1, PagesWithin
<1>4. b.len < BlkMod => b.blk = b.len
  BY <1>1
<1> QED
  BY <1>3, <1>4 DEF Unmaps, Mapping

\* malloc, and calloc of a product that has not wrapped around.
LEMMA TakeInv ==
  ASSUME RInv, Ready, NEW sz \in Nat \ {0}, NEW n \in NewBlocks(sz), Take(n),
         UNCHANGED <<pool, span, fate>>
  PROVE  RInv' /\ (PInv /\ sz < BlkMod => PInv')
<1>1. /\ start # 0 /\ TypeOK /\ Pool /\ Blocks /\ start' = start /\ fate' = fate
  BY ReadyInv DEF pool
<1>2. /\ n \in Block /\ n.len \in {0, sz} /\ IF n.len = 0 THEN Small(n) ELSE Shape(n)
      /\ Mapping(n) \cap mapped = {} /\ \A b \in live : n.p # b.p
  BY <1>1, NewBlock
<1> DEFINE none == {b \in live : FALSE}
           A == {n}
           U == {}
<1>3. /\ none \in SUBSET live /\ A \in SUBSET Block /\ \A k, m \in A : k = m
      /\ live' = (live \ none) \cup A
      /\ mapped' = (mapped \cup UNION {Mapping(k) : k \in A}) \ U
      /\ U = UNION {Mapping(d) : d \in none}
  BY <1>2 DEF Take, Mapping
<1>4. \A k \in A : /\ IF k.len = 0 THEN Small(k) ELSE Shape(k)
                   /\ Mapping(k) \cap mapped = {}
                   /\ \A b \in live : k.p # b.p
  BY <1>2
<1>5. fate' \in Fates
  BY <1>1 DEF TypeOK
<1> HIDE DEF none, A, U
<1>6. TypeOK' /\ Pool' /\ Blocks'
  BY <1>1, <1>3, <1>4, <1>5, Exchange
<1>7. ASSUME PInv, sz < BlkMod
      PROVE  PInv'
  <2>1. PICK first \in Nat : From(first)
    BY <1>1, <1>7 DEF PInv
  <2>2. From(first)'
    BY <1>1, <1>3, <1>4, <2>1, ExchangePages
  <2>3. \A b \in LargeLive' : b.len < BlkMod
    BY <1>2, <1>3, <1>7, Sizes0 DEF LargeLive, PInv, A
  <2> QED
    BY <2>2, <2>3 DEF PInv
<1> QED
  BY <1>1, <1>6, <1>7 DEF RInv

LEMMA MallocInv ==
  ASSUME RInv, NEW sz \in Sizes, Malloc(sz)
  PROVE  RInv' /\ (PInv /\ SmallRequests => PInv')
<1>1. sz \in Nat \ {0}
  BY RegionConstants
<1>2. PICK n \in NewBlocks(sz) : Take(n)
  BY DEF Malloc
<1> QED
  BY <1>1, <1>2, TakeInv DEF Malloc, SmallRequests

LEMMA CallocInv ==
  ASSUME RInv, NEW num \in Counts, NEW nsize \in Sizes, Calloc(num, nsize)
  PROVE  RInv' /\ (PInv /\ SmallRequests => PInv')
<1> DEFINE size == (num * nsize) % SizeMod
<1>1. num \in Nat \ {0} /\ nsize \in Nat \ {0} /\ SizeMod \in Nat \ {0}
  BY RegionConstants, Sizes0
<1>2. size \div num = nsize
  BY DEF Calloc
<1>3. size = num * nsize
  BY ONLY <1>1, <1>2, NoWrap
<1>4. size \in Nat \ {0}
  <2>1. num * nsize \in Nat \ {0}
    BY ONLY <1>1
  <2> QED
    BY <1>3, <2>1
<1>5. PICK n \in NewBlocks(size) : Take([n EXCEPT !.req = num * nsize])
  BY DEF Calloc
<1>6. Ready /\ UNCHANGED <<pool, span, fate>>
  BY DEF Calloc
<1>7. SmallRequests => size < BlkMod
  BY DEF SmallRequests
<1> HIDE DEF size
<1>8. n \in Block /\ n.req = size
  BY <1>4, <1>5, <1>6, ReadyInv, NewBlock
<1>9. [n EXCEPT !.req = num * nsize] = n
  BY <1>3, <1>8 DEF Block
<1> QED
  BY <1>4, <1>5, <1>6, <1>7, <1>9, TakeInv

LEMMA SmallOrLarge ==
  ASSUME RInv, Ready, NEW b \in live
  PROVE  /\ b \in Block
         /\ b.len = 0 => ~Outside(b.p) /\ Small(b) /\ Mapping(b) = {}
         /\ b.len # 0 => Outside(b.p) /\ Large(b) /\ Shape(b)
<1>1. TypeOK /\ Pool /\ Blocks /\ b \in Block
  BY ReadyInv DEF TypeOK
<1>2. CASE b.len = 0
  BY <1>1, <1>2, SmallPlace DEF Blocks, Small, Mapping, Pages
<1>3. CASE b.len # 0
  BY <1>1, <1>3, LargePlace DEF Blocks, Large
<1> QED
  BY <1>1, <1>2, <1>3

\* A call that gives b back, and has taken the blocks of A, one at most.
LEMMA ReleaseInv ==
  ASSUME RInv, Ready, NEW b \in live, NEW A \in SUBSET Block,
         \A m, n \in A : m = n,
         \A n \in A : /\ IF n.len = 0 THEN Small(n) ELSE Shape(n)
                      /\ Mapping(n) \cap mapped = {}
                      /\ \A c \in live : n.p # c.p,
         live' = (live \ {b}) \cup A,
         mapped' = (mapped \cup UNION {Mapping(n) : n \in A})
                     \ (IF Outside(b.p) THEN Unmaps(b) ELSE {}),
         UNCHANGED <<pool, span, fate>>
  PROVE  RInv' /\ (PInv /\ (\A n \in A : n.len < BlkMod) => PInv')
<1>1. /\ start # 0 /\ TypeOK /\ Pool /\ Blocks /\ start' = start /\ fate' \in Fates
  BY ReadyInv DEF pool, TypeOK
<1> DEFINE D == {b}
           U == IF Outside(b.p) THEN Unmaps(b) ELSE {}
<1>2. UNION {Mapping(d) : d \in D} = Mapping(b)
  OBVIOUS
<1>3. U \subseteq Mapping(b)
  BY <1>1, SmallOrLarge, FreedPages
<1>4. D \in SUBSET live /\ live' = (live \ D) \cup A
      /\ mapped' = (mapped \cup UNION {Mapping(n) : n \in A}) \ U
  OBVIOUS
<1> HIDE DEF D, U
<1>5. TypeOK' /\ Pool' /\ Blocks'
  BY <1>1, <1>2, <1>3, <1>4, Exchange
<1>6. ASSUME PInv, \A n \in A : n.len < BlkMod
      PROVE  PInv'
  <2>1. PICK first \in Nat : From(first)
    BY <1>1, <1>6 DEF PInv
  <2>2. U = Mapping(b)
    <3>1. CASE b.len = 0
      BY <3>1, SmallOrLarge DEF U
    <3>2. CASE b.len # 0
      <4>1. b.len < BlkMod
        BY <1>6, <3>2, SmallOrLarge DEF PInv, LargeLive, Block
      <4> QED
        BY <1>1, <3>2, <4>1, SmallOrLarge, FreedPages DEF U
    <3> QED
      BY <3>1, <3>2
  <2>3. From(first)'
    BY <1>1, <1>2, <1>4, <2>1, <2>2, ExchangePages
  <2>4. \A c \in LargeLive' : c.len < BlkMod
    BY <1>4, <1>6 DEF LargeLive, PInv
  <2> QED
    BY <2>3, <2>4 DEF PInv
<1> QED
  BY <1>1, <1>5, <1>6 DEF RInv

\* A step that ends the program.
LEMMA EndInv ==
  ASSUME RInv, Ready, UNCHANGED <<mapped, pool, span, live>>,
         fate' \in {"exit", "fault", "overrun"}
  PROVE  RInv' /\ (PInv => PInv')
<1>1. RInv'
  BY ReadyInv, SameRegions DEF Fates
<1>2. LargeLive' = LargeLive /\ ~Ready'
  BY DEF LargeLive, Ready
<1> QED
  BY <1>1, <1>2 DEF PInv

LEMMA FreeInv ==
  ASSUME RInv, NEW b \in live, Free(b)
  PROVE  RInv' /\ (PInv => PInv')
<1>1. Ready /\ UNCHANGED <<pool, span>>
  BY DEF Free
<1>2. CASE Outside(b.p) /\ b.blk = 0
  BY <1>1, <1>2, EndInv DEF Free
<1>3. CASE ~(Outside(b.p) /\ b.blk = 0)
  <2> DEFINE A == {c \in Block : FALSE}
  <2>1. A \in SUBSET Block /\ A = {}
    OBVIOUS
  <2>2. /\ live' = (live \ {b}) \cup A /\ UNCHANGED fate
        /\ mapped' = (mapped \cup UNION {Mapping(n) : n \in A})
                       \ (IF Outside(b.p) THEN Unmaps(b) ELSE {})
    BY <1>3 DEF Free
  <2> HIDE DEF A
  <2> QED
    BY <1>1, <2>1, <2>2, ReleaseInv
<1> QED
  BY <1>2, <1>3

LEMMA ReallocMoveInv ==
  ASSUME RInv, NEW b \in live, NEW sz \in Sizes, ReallocMove(b, sz)
  PROVE  RInv' /\ (PInv /\ SmallRequests => PInv')
<1>1. Ready /\ UNCHANGED <<pool, span>> /\ sz \in Nat \ {0}
  BY RegionConstants DEF ReallocMove
<1>2. PICK n \in NewBlocks(sz) :
        LET now == mapped \cup Mapping(n)
        IN  \/ fate' \in {"fault", "exit"} /\ UNCHANGED <<mapped, live>>
            \/ /\ mapped' = IF Outside(b.p) THEN now \ Unmaps(b) ELSE now
               /\ live' = (live \ {b}) \cup {n}
               /\ UNCHANGED fate
  BY DEF ReallocMove, Mapping
<1>3. /\ n \in Block /\ n.len \in {0, sz} /\ IF n.len = 0 THEN Small(n) ELSE Shape(n)
      /\ Mapping(n) \cap mapped = {} /\ \A c \in live : n.p # c.p
  BY <1>1, ReadyInv, NewBlock
<1>4. CASE fate' \in {"fault", "exit"} /\ UNCHANGED <<mapped, live>>
  BY <1>1, <1>4, EndInv
<1>5. CASE /\ mapped' = (mapped \cup Mapping(n)) \ (IF Outside(b.p) THEN Unmaps(b) ELSE {})
           /\ live' = (live \ {b}) \cup {n}
           /\ UNCHANGED fate
  <2> DEFINE A == {n}
  <2>1. /\ A \in SUBSET Block /\ \A k, m \in A : k = m
        /\ UNION {Mapping(k) : k \in A} = Mapping(n)
        /\ live' = (live \ {b}) \cup A
        /\ \A k \in A : /\ IF k.len = 0 THEN Small(k) ELSE Shape(k)
                        /\ Mapping(k) \cap mapped = {}
                        /\ \A c \in live : k.p # c.p
    BY <1>3, <1>5
  <2>2. SmallRequests => \A k \in A : k.len < BlkMod
    BY <1>3, Sizes0 DEF SmallRequests
  <2> HIDE DEF A
  <2> QED
    BY <1>1, <1>5, <2>1, <2>2, ReleaseInv
<1> QED
  BY <1>2, <1>4, <1>5

LEMMA ReallocSameInv ==
  ASSUME RInv, NEW b \in live, NEW sz \in Sizes, ReallocSame(b, sz)
  PROVE  RInv' /\ (PInv => PInv')
<1> DEFINE c == [b EXCEPT !.req = sz]
<1>1. /\ Ready /\ start # 0 /\ TypeOK /\ Pool /\ Blocks
      /\ UNCHANGED <<mapped, pool, span, fate>> /\ start' = start /\ end' = end
      /\ live' = (live \ {b}) \cup {c} /\ sz <= b.blk
      /\ sz \in Nat \ {0} /\ b.blk \in Nat
  BY ReadyInv, RegionConstants DEF ReallocSame, pool, TypeOK, Block
<1>2. b \in Block /\ c \in Block /\ c.p = b.p /\ c.req = sz /\ c.blk = b.blk /\ c.len = b.len
  BY <1>1 DEF TypeOK, Block
<1> HIDE DEF c
<1>3. Mapping(c) = Mapping(b) /\ (Small(b) => Small(c))
  BY <1>1, <1>2 DEF Mapping, Small
<1>4. Shape(b) => Shape(c)
  <2>1. b.blk = b.len % BlkMod => b.blk <= b.len
    BY <1>2, Sizes0 DEF Block
  <2> QED
    BY <1>1, <1>2, <2>1 DEF Shape, Block
<1>5. live' \in SUBSET Block /\ PoolPages \subseteq mapped' /\ mapped' \in SUBSET Nat
      /\ fate' \in Fates
  BY <1>1, <1>2 DEF TypeOK, Pool
<1>6. TypeOK' /\ Pool' /\ PoolPages' = PoolPages /\ \A x : Small(x) => Small(x)'
  BY <1>1, <1>5, SamePool
<1>7. \A x \in live' : IF x.len = 0 THEN Small(x) ELSE Large(x)
  BY <1>1, <1>2, <1>3, <1>4 DEF Blocks, Large
<1>8. \A x, y \in live' : x # y => x.p # y.p /\ Mapping(x) \cap Mapping(y) = {}
  BY <1>1, <1>2, <1>3 DEF Blocks
<1>9. Blocks'
  BY <1>1, <1>6, <1>7, <1>8 DEF Blocks, Large, Shape, Mapping
<1>10. ASSUME PInv
       PROVE  PInv'
  <2>1. PICK first \in Nat : From(first)
    BY <1>1, <1>10 DEF PInv
  <2>2. \A x \in LargeLive' : (x = c /\ b \in LargeLive) \/ x \in LargeLive
    BY <1>1, <1>2 DEF LargeLive
  <2>3. \A x \in LargeLive : (x = b /\ c \in LargeLive') \/ x \in LargeLive'
    BY <1>1, <1>2 DEF LargeLive
  <2>4. UNION {Mapping(x) : x \in LargeLive'} = UNION {Mapping(x) : x \in LargeLive}
    BY <1>3, <2>2, <2>3
  <2>5. From(first)'
    BY <1>1, <1>3, <2>1, <2>2, <2>4 DEF From, Mapping
  <2>6. \A x \in LargeLive' : x.len < BlkMod
    BY <1>2, <1>10, <2>2 DEF PInv
  <2> QED
    BY <2>5, <2>6 DEF PInv
<1> QED
  BY <1>1, <1>6, <1>9, <1>10 DEF RInv

LEMMA TriModWriteInv ==
  ASSUME RInv, NEW b \in live, TriModWrite(b)
  PROVE  RInv' /\ (PInv => PInv')
<1>1. Ready /\ UNCHANGED <<mapped, pool, span, live>>
  BY DEF TriModWrite
<1>2. fate' \in Fates
  BY DEF TriModWrite, RInv, TypeOK, Fates
<1> QED
  BY <1>1, <1>2, ReadyInv, SameRegions, SamePages

(* The invariants.                                                         *)

LEMMA InitInv ==
  ASSUME Init
  PROVE  RInv /\ PInv
<1>1. Carved = {} /\ span \in [Carved -> Classes]
  BY DEF Init, Carved
<1>2. TypeOK
  BY <1>1 DEF Init, TypeOK, Fates
<1>3. LargeLive = {}
  BY DEF Init, LargeLive
<1> QED
  BY <1>1, <1>2, <1>3 DEF Init, RInv, PInv, Fresh

LEMMA StepInv ==
  ASSUME RInv, [Next]_vars
  PROVE  RInv' /\ (PInv /\ SmallRequests => PInv')
<1>1. CASE UNCHANGED vars
  <2>1. UNCHANGED <<mapped, start, end, free_start, span, live, fate>>
    BY <1>1 DEF vars, pool
  <2>2. TypeOK' /\ PoolPages' = PoolPages /\ LargeLive' = LargeLive /\ (Fresh => Fresh')
    BY <2>1 DEF RInv, TypeOK, Carved, PoolPages, LargeLive, Fresh
  <2>3. Pool => Pool'
    BY <2>1, <2>2 DEF Pool, Carved
  <2>4. \A b : (Small(b) => Small(b)') /\ (Large(b) => Large(b)')
    BY <2>1, <2>2 DEF Small, Large, Shape, Mapping, Slots, Carved
  <2>5. Blocks => Blocks'
    BY <2>1, <2>4 DEF Blocks, Mapping
  <2>6. \A first : From(first) => From(first)'
    BY <2>1, <2>2 DEF From, Mapping
  <2> QED
    BY <2>1, <2>2, <2>3, <2>5, <2>6 DEF RInv, PInv, Ready
<1>2. CASE GlobalInit \/ GlobalFatal
  BY <1>2, GlobalInitInv, GlobalFatalInv
<1>3. ASSUME NEW c \in Classes, AcquireCarve(c) \/ AcquireGrow(c)
      PROVE  RInv' /\ (PInv => PInv')
  BY <1>3, AcquireCarveInv, AcquireGrowInv
<1>4. CASE AcquireFatal \/ LargeFault
  BY <1>4, EndInv DEF AcquireFatal, LargeFault
<1>5. ASSUME NEW sz \in Sizes, Malloc(sz)
      PROVE  RInv' /\ (PInv /\ SmallRequests => PInv')
  BY <1>5, MallocInv
<1>6. ASSUME NEW sz \in Sizes, NEW num \in Counts, Calloc(num, sz)
      PROVE  RInv' /\ (PInv /\ SmallRequests => PInv')
  BY <1>6, CallocInv
<1>7. ASSUME NEW b \in live, Free(b) \/ TriModWrite(b)
      PROVE  RInv' /\ (PInv => PInv')
  BY <1>7, FreeInv, TriModWriteInv
<1>8. ASSUME NEW b \in live, Overrun(b)
      PROVE  RInv' /\ (PInv => PInv')
  BY <1>8, EndInv DEF Overrun
<1>9. ASSUME NEW b \in live, NEW sz \in Sizes, ReallocSame(b, sz) \/ ReallocMove(b, sz)
      PROVE  RInv' /\ (PInv /\ SmallRequests => PInv')
  BY <1>9, ReallocSameInv, ReallocMoveInv
<1> QED
  BY <1>1, <1>2, <1>3, <1>4, <1>5, <1>6, <1>7, <1>8, <1>9 DEF Next

LEMMA Invariant == Spec => []RInv
<1>1. Init => RInv
  BY InitInv
<1>2. RInv /\ [Next]_vars => RInv'
  BY StepInv
<1> QED
  BY <1>1, <1>2, PTL DEF Spec

-----------------------------------------------------------------------------
(* The theorems.                                                           *)

(***************************************************************************)
(* The pool stays one aligned region of mapped pages, filled with spans    *)
(* from its start, however it has grown: a new mapping counts only when it *)
(* continues the old one.                                                  *)
(***************************************************************************)
THEOREM PoolAlwaysSound == Spec => []PoolSound
<1>1. RInv => PoolSound
  BY DEF RInv, Pool, PoolPages, PoolSound
<1> QED
  BY <1>1, Invariant, PTL

(***************************************************************************)
(* A block is known by its address: a mapping of its own has no page in    *)
(* common with the pool, and a block of a span lies behind the header that *)
(* GET_HEADER rounds down to.                                              *)
(***************************************************************************)
THEOREM BlocksAlwaysRecognised == Spec => []BlocksRecognised
<1>1. RInv => BlocksRecognised
  <2> SUFFICES ASSUME RInv, NEW b \in live
               PROVE  /\ Outside(b.p) <=> b.len > 0
                      /\ b.len = 0 => GetHeader(b.p) \in Carved /\ span[GetHeader(b.p)] = b.blk
    BY DEF BlocksRecognised
  <2>1. start # 0 /\ TypeOK /\ Pool /\ Blocks /\ b \in Block
    BY DEF RInv, Fresh, TypeOK
  <2>2. CASE b.len = 0
    <3>1. PICK s \in Carved : b.p \in Slots(s) /\ b.blk = span[s]
      BY <2>1, <2>2 DEF Blocks, Small
    <3> QED
      BY <2>1, <2>2, <3>1, SmallPlace
  <2>3. CASE b.len # 0
    BY <2>1, <2>3, LargePlace DEF Blocks, Large, Block
  <2> QED
    BY <2>2, <2>3
<1> QED
  BY <1>1, Invariant, PTL

(***************************************************************************)
(* A block has the bytes that were asked for, except that a large block    *)
(* lacks at most as many as its header takes, and these only when the last *)
(* page of its mapping has no room for a header.                           *)
(***************************************************************************)
THEOREM BlocksAlwaysFit == Spec => []BlocksFit
<1>1. RInv => BlocksFit
  <2> SUFFICES ASSUME RInv, NEW b \in live
               PROVE  IF b.len = 0 THEN b.req <= b.blk
                      ELSE LET missing == IF Pages(0, b.len + Hdr) = Pages(0, b.len)
                                            THEN 0 ELSE Hdr
                           IN Pages(b.p, b.req - missing) \subseteq Mapping(b)
    BY DEF BlocksFit
  <2>1. TypeOK /\ Blocks /\ b \in Block
    BY DEF RInv, Fresh, TypeOK
  <2>2. CASE b.len = 0
    BY <2>1, <2>2 DEF Blocks, Small
  <2>3. CASE b.len # 0
    <3> DEFINE a == b.p - Hdr
               n == b.len
    <3>1. /\ a \in Nat /\ a % Page = 0 /\ b.p = a + Hdr /\ b.p \in Nat
          /\ n \in Nat \ {0} /\ b.req \in Nat /\ b.req <= n /\ Hdr \in Nat \ {0}
          /\ Page \in Nat \ {0}
      BY <2>1, <2>3, Sizes0 DEF Blocks, Large, Shape, Block
    <3> HIDE DEF a, n
    <3>2. Pages(b.p, b.req - Hdr) \subseteq Pages(a, n)
      BY <3>1, PagesWithin
    <3>3. ASSUME Pages(0, n + Hdr) = Pages(0, n)
          PROVE  Pages(b.p, b.req) \subseteq Pages(a, n)
      <4>1. (n + Hdr - 1) \div Page <= (n - 1) \div Page
        <5>1. n + Hdr \in Nat \ {0} /\ n + Hdr - 1 \in Nat /\ 0 <= n + Hdr - 1
              /\ n + Hdr - 1 < n + Hdr /\ 0 + n - 1 = n - 1
          BY <3>1
        <5>2. (n + Hdr - 1) \div Page \in Pages(0, n + Hdr)
          BY <5>1, PageOfByte
        <5> QED
          BY <3>1, <3>3, <5>1, <5>2, PagesOf
      <4>2. /\ (a + (n + Hdr - 1)) \div Page = a \div Page + (n + Hdr - 1) \div Page
            /\ (a + (n - 1)) \div Page = a \div Page + (n - 1) \div Page
        <5>1. a \in Int /\ n + Hdr - 1 \in Int /\ n - 1 \in Int /\ Page \in Nat \ {0}
          BY <3>1
        <5>2. a % Page = 0
          BY <3>1
        <5> QED
          BY ONLY <5>1, <5>2, DivShift
      <4>3. (a + (n + Hdr - 1)) \div Page <= (a + (n - 1)) \div Page
        <5>1. /\ a \div Page \in Int /\ (n + Hdr - 1) \div Page \in Int
              /\ (n - 1) \div Page \in Int
          BY <3>1, Quotient
        <5> QED
          BY <4>1, <4>2, <5>1
      <4> DEFINE m == n + Hdr
      <4>4. Pages(a, m) \subseteq Pages(a, n)
        <5>1. /\ m \in Int /\ m # 0 /\ n \in Int /\ n # 0 /\ a \in Nat
              /\ a + m - 1 = a + (n + Hdr - 1) /\ a + n - 1 = a + (n - 1)
          BY <3>1
        <5>2. (a + m - 1) \div Page \in Int /\ (a + n - 1) \div Page \in Int
          BY <3>1, <5>1, Quotient
        <5> HIDE DEF m
        <5>3. \A x : x \in Pages(a, m) <=>
                     x \in Int /\ a \div Page <= x /\ x <= (a + m - 1) \div Page
          BY ONLY <5>1, PagesOf
        <5>4. \A x : x \in Pages(a, n) <=>
                     x \in Int /\ a \div Page <= x /\ x <= (a + n - 1) \div Page
          BY ONLY <5>1, PagesOf
        <5>5. (a + m - 1) \div Page <= (a + n - 1) \div Page
          BY <4>3, <5>1
        <5>6. \A x \in Int : x <= (a + m - 1) \div Page => x <= (a + n - 1) \div Page
          BY <5>2, <5>5
        <5> QED
          BY <5>3, <5>4, <5>6
      <4>5. Pages(b.p, b.req) \subseteq Pages(a, m)
        <5>1. m \in Nat \ {0} /\ a <= b.p /\ b.p + b.req <= a + m
          BY <3>1
        <5> QED
          BY <3>1, <5>1, PagesWithin
      <4> QED
        BY <4>4, <4>5
    <3>4. b.req - 0 = b.req /\ Mapping(b) = Pages(a, n)
      BY <3>1 DEF Mapping, a, n
    <3> QED
      BY <2>3, <3>2, <3>3, <3>4 DEF n
  <2> QED
    BY <2>2, <2>3
<1> QED
  BY <1>1, Invariant, PTL

(***************************************************************************)
(* Every page goes back when no request is of 2^32 bytes or more: the pool *)
(* and the mappings of the large blocks in use are all that is mapped.     *)
(* Of a longer block wl_free gives back blk_size bytes, which is less.     *)
(***************************************************************************)
THEOREM EveryPageReturns == SmallRequests => (Spec => []PagesAccounted)
<1> SUFFICES ASSUME SmallRequests
             PROVE  Spec => []PagesAccounted
  OBVIOUS
<1>1. Init => RInv /\ PInv
  BY InitInv
<1>2. RInv /\ PInv /\ [Next]_vars => RInv' /\ PInv'
  BY StepInv
<1>3. RInv /\ PInv => PagesAccounted
  <2> SUFFICES ASSUME RInv, PInv, Ready
               PROVE  \E first \in (start + 1 - SpanSize)..start :
                        mapped = Pages(first, end - first) \cup UNION {Mapping(b) : b \in LargeLive}
    BY DEF PagesAccounted
  <2>1. start # 0 /\ start \in Nat
    BY ReadyInv DEF TypeOK
  <2>2. PICK first \in Nat : From(first)
    BY <2>1 DEF PInv
  <2>3. first \in (start + 1 - SpanSize)..start
    BY <2>1, <2>2, Sizes0 DEF From
  <2> QED
    BY <2>2, <2>3 DEF From
<1> QED
  BY <1>1, <1>2, <1>3, PTL DEF Spec
=============================================================================
