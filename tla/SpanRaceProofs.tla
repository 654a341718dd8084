--------------------------- MODULE SpanRaceProofs ---------------------------
(***************************************************************************)
(* Theorems about module SpanRace, for any number of threads and blocks:   *)
(* with calls that take turns, or with an owner that makes none while      *)
(* others free, free_cnt is exact and wl_malloc returns free blocks only.  *)
(*                                                                         *)
(* The inductive invariant says that one thread at most is at work on the  *)
(* span, and what the list looks like at each of its stores.               *)
(***************************************************************************)
EXTENDS SpanRace, FiniteSetTheorems, TLAPS

-----------------------------------------------------------------------------
(* The invariant.                                                          *)

\* Inside a call, and not waiting for the owner's lock.
Working(t) == pc[t] \notin {"idle", "lock"}

InMalloc == {"choose", "unlink1", "unlink2", "bump", "dec1", "dec2"}
Counting == {"lock", "inc1", "inc2", "link1"}
Linking == {"link2", "link3", "link4"}
Relinking == Linking \cup {"unlink2", "dec1", "dec2"}

\* Who may be inside a call together.
OneAtATime ==
  /\ discipline \in {"turns", "apart"}
  /\ discipline = "turns" =>
       \A t, u \in Thr : pc[t] # "idle" /\ pc[u] # "idle" => t = u
  /\ discipline = "apart" => pc[Owner] = "idle"
  /\ pc[Owner] # "lock" /\ lock # Owner
  /\ \A t \in Remote : pc[t] \notin InMalloc /\ (Working(t) <=> lock = t)

\* A free is about a block that is the client's until it is linked.
BlocksHeld ==
  /\ \A t \in Thr : pc[t] \in Counting => blk[t] \in live
  /\ \A t, u \in Thr : pc[t] \in Counting /\ pc[u] \in Counting /\ t # u => blk[t] # blk[u]

\* free_cnt runs ahead of the list between the count and the first store.
Counts ==
  /\ free_cnt + Cardinality(live) =
       IF \E t \in Thr : pc[t] = "link1" THEN NBlk + 1 ELSE NBlk
  /\ \A t \in Thr : pc[t] \in {"inc2", "dec2"} => tmp[t] = free_cnt
  /\ pc[Owner] \in InMalloc => free_cnt # 0

\* The nodes of S and the head h form one circular list of l: neighbours
\* point at each other, and every walk through S reaches h.
Ring(l, h, S) ==
  /\ \A n \in S \cup {h} : /\ l.nxt[n] \in S \cup {h} /\ l.prv[l.nxt[n]] = n
                           /\ l.prv[n] \in S \cup {h} /\ l.nxt[l.prv[n]] = n
  /\ \A Z \in SUBSET S : Z # {} => \E n \in Z : l.nxt[n] \notin Z

\* The blocks that were used before and are free.
Freed == (0..(free_blk - 1)) \ live

\* The list, once the stores that are under way are done.
Deleted(t) == [nxt |-> links.nxt, prv |-> [links.prv EXCEPT ![far[t]] = near[t]]]
Added(t) == Insert(links, blk[t], HEAD, near[t])

OnList ==
  /\ free_blk <= NBlk /\ live \subseteq 0..(free_blk - 1)
  /\ (\A t \in Thr : pc[t] \notin Relinking) => Ring(links, HEAD, Freed)
  /\ pc[Owner] = "bump" => Freed = {} /\ free_blk < NBlk
  /\ pc[Owner] \in {"unlink1", "unlink2", "dec1", "dec2"} => blk[Owner] \in Freed
  /\ pc[Owner] = "unlink2" => /\ far[Owner] \in Node /\ near[Owner] \in Node
                              /\ Ring(Deleted(Owner), HEAD, Freed \ {blk[Owner]})
  /\ pc[Owner] \in {"dec1", "dec2"} => Ring(links, HEAD, Freed \ {blk[Owner]})
  /\ \A t \in Thr : pc[t] \in Linking =>
       /\ blk[t] \in Freed /\ near[t] \in Node \ {blk[t]}
       /\ links.nxt[blk[t]] = near[t]
       /\ pc[t] \in {"link3", "link4"} => links.prv[near[t]] = blk[t]
       /\ pc[t] = "link4" => links.nxt[HEAD] = blk[t]
       /\ Ring(Added(t), HEAD, Freed)

IInv == TypeOK /\ ~bad /\ OneAtATime /\ BlocksHeld /\ Counts /\ OnList

-----------------------------------------------------------------------------
(* The list.                                                               *)

Links == [nxt : [Node -> Node], prv : [Node -> Node]]

LEMMA Nodes == /\ Blk \subseteq Node /\ HEAD \in Node /\ HEAD \notin Blk
               /\ Blk \subseteq Nat /\ HEAD \notin Nat /\ NULL \notin Nat
BY RaceConstants DEF Node, Blk

\* list_del of a node of the list leaves a list of the others.
LEMMA RingRemove ==
  ASSUME NEW l \in Links, NEW S \in SUBSET Blk, NEW b \in S, Ring(l, HEAD, S)
  PROVE  Ring(ListDel(l, b), HEAD, S \ {b})
<1> DEFINE p == l.prv[b]
           n == l.nxt[b]
           d == ListDel(l, b)
           R == (S \ {b}) \cup {HEAD}
<1>1. /\ HEAD \notin S /\ S \subseteq Node /\ HEAD \in Node /\ b \in Node
      /\ \A x \in S \cup {HEAD} : /\ l.nxt[x] \in S \cup {HEAD} /\ l.prv[l.nxt[x]] = x
                                  /\ l.prv[x] \in S \cup {HEAD} /\ l.nxt[l.prv[x]] = x
  BY Nodes DEF Ring
<1>2. n # b
  <2>1. PICK x \in {b} : l.nxt[x] \notin {b}
    BY {b} \in SUBSET S, {b} # {} DEF Ring
  <2> QED
    BY <2>1
<1>3. p \in R /\ n \in R
  BY <1>1, <1>2
<1>4. /\ \A x \in R : d.nxt[x] = IF x = p THEN n ELSE l.nxt[x]
      /\ \A x \in R : d.prv[x] = IF x = n THEN p ELSE l.prv[x]
  BY <1>1, <1>3 DEF ListDel, Join, Links
<1>5. \A x \in R : d.nxt[x] \in R /\ d.prv[d.nxt[x]] = x
  <2> TAKE x \in R
  <2>1. CASE x = p
    BY <2>1, <1>3, <1>4
  <2>2. CASE x # p
    <3>1. l.nxt[x] # b /\ l.nxt[x] # n /\ l.nxt[x] \in R
      BY <2>2, <1>1
    <3> QED
      BY <3>1, <2>2, <1>1, <1>4
  <2> QED
    BY <2>1, <2>2
<1>6. \A x \in R : d.prv[x] \in R /\ d.nxt[d.prv[x]] = x
  <2> TAKE x \in R
  <2>1. CASE x = n
    BY <2>1, <1>3, <1>4
  <2>2. CASE x # n
    <3>1. l.prv[x] # b /\ l.prv[x] # p /\ l.prv[x] \in R
      BY <2>2, <1>1
    <3> QED
      BY <3>1, <2>2, <1>1, <1>4
  <2> QED
    BY <2>1, <2>2
<1>7. ASSUME NEW Z \in SUBSET (S \ {b}), Z # {}
      PROVE  \E x \in Z : d.nxt[x] \notin Z
  <2> SUFFICES ASSUME \A x \in Z : d.nxt[x] \in Z
               PROVE  FALSE
    OBVIOUS
  <2>1. Z \subseteq R
    OBVIOUS
  <2>2. CASE p \notin Z
    <3>1. \A x \in Z : l.nxt[x] \in Z
      BY <2>1, <2>2, <1>4
    <3> QED
      BY <3>1, <1>7 DEF Ring
  <2>3. CASE p \in Z
    <3>1. n \in Z
      BY <2>1, <2>3, <1>4
    <3>2. \A x \in Z \cup {b} : l.nxt[x] \in Z \cup {b}
      BY <2>1, <3>1, <1>1, <1>4
    <3>3. Z \cup {b} \in SUBSET S /\ Z \cup {b} # {}
      OBVIOUS
    <3> QED
      BY <3>2, <3>3 DEF Ring
  <2> QED
    BY <2>2, <2>3
<1> HIDE DEF d, p, n
<1> QED
  BY <1>5, <1>6, <1>7 DEF Ring, d

\* list_add of another node makes a list of one more.
LEMMA RingAdd ==
  ASSUME NEW l \in Links, NEW S \in SUBSET Blk, NEW b \in Blk \ S, Ring(l, HEAD, S)
  PROVE  Ring(Insert(l, b, HEAD, l.nxt[HEAD]), HEAD, S \cup {b})
<1> DEFINE f == l.nxt[HEAD]
           d == Insert(l, b, HEAD, f)
           R == S \cup {HEAD}
<1>1. /\ HEAD \notin S /\ S \subseteq Node /\ HEAD \in Node /\ b \in Node /\ b \notin R
      /\ \A x \in R : /\ l.nxt[x] \in R /\ l.prv[l.nxt[x]] = x
                      /\ l.prv[x] \in R /\ l.nxt[l.prv[x]] = x
  BY Nodes DEF Ring
<1>2. f \in R /\ l.prv[f] = HEAD
  BY <1>1
<1>3. /\ d.nxt[b] = f /\ d.nxt[HEAD] = b /\ \A x \in S : d.nxt[x] = l.nxt[x]
      /\ d.prv[b] = HEAD /\ d.prv[f] = b /\ \A x \in R : x # f => d.prv[x] = l.prv[x]
  BY <1>1, <1>2 DEF Insert, Links
<1> HIDE DEF d
<1>4. \A x \in R \cup {b} : d.nxt[x] \in R \cup {b} /\ d.prv[d.nxt[x]] = x
  <2> TAKE x \in R \cup {b}
  <2>1. CASE x \in S
    <3>1. l.nxt[x] # f /\ l.nxt[x] \in R
      BY <2>1, <1>1, <1>2
    <3> QED
      BY <3>1, <2>1, <1>1, <1>3
  <2>2. CASE x = HEAD
    BY <2>2, <1>3
  <2>3. CASE x = b
    BY <2>3, <1>2, <1>3
  <2> QED
    BY <2>1, <2>2, <2>3
<1>5. \A x \in R \cup {b} : d.prv[x] \in R \cup {b} /\ d.nxt[d.prv[x]] = x
  <2> TAKE x \in R \cup {b}
  <2>1. CASE x \in R /\ x # f
    <3>1. l.prv[x] # HEAD /\ l.prv[x] \in S
      BY <2>1, <1>1
    <3> QED
      BY <3>1, <2>1, <1>1, <1>3
  <2>2. CASE x = f
    BY <2>2, <1>3
  <2>3. CASE x = b
    BY <2>3, <1>3
  <2> QED
    BY <2>1, <2>2, <2>3
<1>6. ASSUME NEW Z \in SUBSET (S \cup {b}), Z # {}
      PROVE  \E x \in Z : d.nxt[x] \notin Z
  <2> SUFFICES ASSUME \A x \in Z : d.nxt[x] \in Z
               PROVE  FALSE
    OBVIOUS
  <2>1. \A x \in Z \ {b} : l.nxt[x] \in Z \ {b}
    BY <1>1, <1>3
  <2>2. Z \ {b} = {}
    <3>1. Z \ {b} \in SUBSET S
      OBVIOUS
    <3> QED
      BY <2>1, <3>1 DEF Ring
  <2>3. b \in Z /\ f = b
    BY <2>2, <1>3, <1>6
  <2> QED
    BY <2>3, <1>1, <1>2
<1> QED
  BY <1>4, <1>5, <1>6 DEF Ring, d

\* A list whose head points at itself has no nodes.
LEMMA RingEmpty ==
  ASSUME NEW l, NEW S \in SUBSET Blk, Ring(l, HEAD, S), l.nxt[HEAD] = HEAD
  PROVE  S = {}
<1> SUFFICES ASSUME S # {} PROVE FALSE
  OBVIOUS
<1>1. PICK n \in S : l.nxt[n] \notin S
  BY DEF Ring
<1>2. l.prv[HEAD] = n /\ l.prv[HEAD] = HEAD
  BY <1>1 DEF Ring
<1> QED
  BY <1>2, Nodes

-----------------------------------------------------------------------------
(* One thread at work.                                                     *)

\* While a thread is at work, the others are outside or wait for the lock.
LEMMA Alone ==
  ASSUME TypeOK, OneAtATime, NEW t \in Thr, Working(t)
  PROVE  \A u \in Thr : u # t => pc[u] \in {"idle", "lock"}
<1> SUFFICES ASSUME NEW u \in Thr, u # t, Working(u)
             PROVE  FALSE
  BY DEF Working
<1>1. discipline = "apart" /\ t \in Remote /\ u \in Remote
  BY DEF OneAtATime, Working, Thr
<1> QED
  BY <1>1 DEF OneAtATime

\* It goes on,
LEMMA WorkMoves ==
  ASSUME TypeOK, OneAtATime, NEW t \in Thr, Working(t),
         NEW w, w \notin {"idle", "lock"}, t = Owner \/ w \notin InMalloc,
         Goto(t, w), UNCHANGED <<discipline, lock>>
  PROVE  /\ OneAtATime'
         /\ pc'[t] = w
         /\ \A u \in Thr : u # t => pc'[u] = pc[u] /\ pc[u] \in {"idle", "lock"}
<1>1. pc'[t] = w /\ \A u \in Thr : u # t => pc'[u] = pc[u] /\ pc[u] \in {"idle", "lock"}
  BY Alone DEF Goto, TypeOK
<1>2. t # Owner => t \in Remote /\ lock = t
  BY DEF OneAtATime, Thr
<1> QED
  BY <1>1, <1>2, RaceConstants DEF OneAtATime, Working, Thr

\* or it is done, and releases the lock if it had taken it.
LEMMA WorkEnds ==
  ASSUME TypeOK, OneAtATime, NEW t \in Thr, Working(t),
         Goto(t, "idle"), UNCHANGED discipline,
         lock' = IF t = Owner THEN lock ELSE NULL
  PROVE  /\ OneAtATime'
         /\ pc'[t] = "idle"
         /\ \A u \in Thr : u # t => pc'[u] = pc[u] /\ pc[u] \in {"idle", "lock"}
<1>1. pc'[t] = "idle" /\ \A u \in Thr : u # t => pc'[u] = pc[u] /\ pc[u] \in {"idle", "lock"}
  BY Alone DEF Goto, TypeOK
<1>2. t # Owner => t \in Remote /\ lock = t
  BY DEF OneAtATime, Thr
<1> QED
  BY <1>1, <1>2, RaceConstants DEF OneAtATime, Working, Thr, InMalloc

\* A call that is over keeps no values.
LEMMA ForgetType ==
  ASSUME TypeOK, NEW t, Forget(t)
  PROVE  /\ tmp' \in [Thr -> 0..(CntMod - 1)] /\ blk' \in [Thr -> Node \cup {NBlk, NULL}]
         /\ near' \in [Thr -> Node \cup {NULL}] /\ far' \in [Thr -> Node \cup {NULL}]
         /\ \A u \in Thr : u # t => blk'[u] = blk[u]
<1>1. 0 \in 0..(CntMod - 1)
  BY RaceConstants
<1> QED
  BY <1>1 DEF Forget, TypeOK

\* Blocks are a finite set.
LEMMA LiveFinite ==
  ASSUME TypeOK
  PROVE  IsFiniteSet(live) /\ Cardinality(live) \in Nat /\ live \subseteq Blk
         /\ free_cnt \in Nat /\ NBlk \in Nat
<1>1. IsFiniteSet(Blk)
  BY FS_Interval, RaceConstants DEF Blk
<1>2. live \subseteq Blk /\ free_cnt \in Nat
  BY RaceConstants DEF TypeOK
<1> QED
  BY <1>1, <1>2, FS_Subset, FS_CardinalityType, RaceConstants

\* So are those on the list.
LEMMA FreedBlocks ==
  ASSUME TypeOK, OnList
  PROVE  Freed \in SUBSET Blk /\ Freed \subseteq Node /\ HEAD \notin Freed
<1>1. NBlk \in Nat /\ free_blk \in Nat /\ free_blk <= NBlk
  BY RaceConstants DEF TypeOK, OnList
<1>2. Freed \subseteq Blk
  BY <1>1 DEF Freed, Blk
<1> QED
  BY <1>2, Nodes

-----------------------------------------------------------------------------
(* get_blk, by the owner.                                                  *)

LEMMA MallocStep ==
  ASSUME IInv, Malloc, UNCHANGED discipline
  PROVE  IInv'
<1> USE DEF IInv
<1>1. TypeOK'
  BY DEF Malloc, Goto, TypeOK, regs
<1>2. /\ pc[Owner] = "idle" /\ pc'[Owner] = "choose" /\ discipline = "turns"
      /\ \A u \in Thr : u # Owner => pc'[u] = "idle" /\ pc[u] = "idle"
      /\ Owner \in Thr /\ Owner \notin Remote
  BY RaceConstants DEF Malloc, Begins, Goto, TypeOK, Thr, OneAtATime
<1>3. OneAtATime'
  BY <1>2 DEF Malloc, regs, OneAtATime, Working, Thr
<1>4. BlocksHeld' /\ Counts'
  BY <1>2 DEF Malloc, regs, BlocksHeld, Counts, Counting
<1>5. OnList'
  BY <1>2 DEF Malloc, regs, OnList, Relinking, Linking, Freed, Added, Deleted, Ring
<1> QED
  BY <1>1, <1>3, <1>4, <1>5 DEF Malloc

LEMMA ChooseStep ==
  ASSUME IInv, Choose, UNCHANGED discipline
  PROVE  IInv'
<1> USE DEF IInv
<1>1. Owner \in Thr /\ Working(Owner) /\ links \in Links
  BY DEF Choose, At, Working, Thr, TypeOK, Links
<1> DEFINE w == IF IsEmpty(links, HEAD) THEN "bump" ELSE "unlink1"
<1>2. Goto(Owner, w)
  BY DEF Choose
<1>3. /\ OneAtATime'
      /\ pc'[Owner] = w
      /\ \A u \in Thr : u # Owner => pc'[u] = pc[u] /\ pc[u] \in {"idle", "lock"}
  <2>1. w \notin {"idle", "lock"}
    OBVIOUS
  <2> HIDE DEF w
  <2> QED
    BY <1>1, <1>2, <2>1, WorkMoves DEF Choose
<1>4. Ring(links, HEAD, Freed) /\ Freed \in SUBSET Blk /\ pc[Owner] = "choose"
  <2>1. pc[Owner] = "choose"
    BY DEF Choose, At
  <2> QED
    BY <1>3, <2>1, FreedBlocks DEF OnList, Relinking, Linking
<1>5. CASE IsEmpty(links, HEAD)
  <2>1. Freed = {}
    BY <1>4, <1>5, RingEmpty DEF IsEmpty
  <2>2. free_blk < NBlk
    <3>1. live = 0..(free_blk - 1)
      BY <2>1 DEF OnList, Freed
    <3>2. Cardinality(live) = free_blk
      BY <3>1, FS_Interval, RaceConstants DEF TypeOK
    <3>3. free_cnt # 0 /\ free_cnt + Cardinality(live) = NBlk
      BY <1>3, <1>4 DEF Counts, InMalloc
    <3> QED
      BY <3>2, <3>3, RaceConstants DEF TypeOK
  <2>3. TypeOK'
    BY <1>5 DEF Choose, Goto, TypeOK
  <2>4. BlocksHeld' /\ Counts'
    BY <1>3, <1>4, <1>5 DEF Choose, BlocksHeld, Counts, Counting, InMalloc
  <2>5. OnList'
    BY <1>3, <1>4, <1>5, <2>1, <2>2 DEF Choose, OnList, Relinking, Linking, Freed
  <2> QED
    BY <1>3, <2>3, <2>4, <2>5 DEF Choose
<1>6. CASE ~IsEmpty(links, HEAD)
  <2>1. links.nxt[HEAD] \in Freed
    BY <1>4, <1>6 DEF Ring, IsEmpty
  <2>2. blk' = [blk EXCEPT ![Owner] = links.nxt[HEAD]] /\ links.nxt[HEAD] \in Node
    BY <1>4, <1>6, <2>1, Nodes DEF Choose
  <2>3. TypeOK'
    BY <1>6, <2>2 DEF Choose, Goto, TypeOK
  <2>4. \A u \in Thr : u # Owner => blk'[u] = blk[u]
    BY <2>2 DEF TypeOK
  <2>5. BlocksHeld' /\ Counts'
    BY <1>3, <1>4, <1>6, <2>4 DEF Choose, BlocksHeld, Counts, Counting, InMalloc
  <2>6. blk'[Owner] \in Freed
    BY <1>1, <2>1, <2>2 DEF TypeOK
  <2>7. OnList'
    BY <1>3, <1>4, <1>6, <2>6 DEF Choose, OnList, Relinking, Linking, Freed
  <2> QED
    BY <1>3, <2>3, <2>5, <2>7 DEF Choose
<1> QED
  BY <1>5, <1>6

\* What a step of get_blk leaves of the two conjuncts that are not about the
\* list.
LEMMA OwnerKeeps ==
  ASSUME IInv, pc[Owner] \in InMalloc, pc'[Owner] \in InMalloc \ {"dec2"},
         \A u \in Thr : u # Owner =>
           pc'[u] = pc[u] /\ pc[u] \in {"idle", "lock"} /\ blk'[u] = blk[u],
         UNCHANGED <<free_cnt, live, tmp>>
  PROVE  BlocksHeld' /\ Counts'
BY DEF IInv, BlocksHeld, Counts, Counting, InMalloc

LEMMA Unlink1Step ==
  ASSUME IInv, Unlink1, UNCHANGED discipline
  PROVE  IInv'
<1> USE DEF IInv
<1> DEFINE b == blk[Owner]
<1>1. Owner \in Thr /\ Working(Owner) /\ links \in Links /\ pc[Owner] = "unlink1"
  BY DEF Unlink1, At, Working, Thr, TypeOK, Links
<1>2. /\ OneAtATime'
      /\ pc'[Owner] = "unlink2"
      /\ \A u \in Thr : u # Owner => pc'[u] = pc[u] /\ pc[u] \in {"idle", "lock"}
  BY <1>1, WorkMoves DEF Unlink1
<1>3. Ring(links, HEAD, Freed) /\ b \in Freed /\ Freed \in SUBSET Blk /\ b \in Node
  BY <1>1, <1>2, FreedBlocks DEF OnList, Relinking, Linking
<1>4. links.prv[b] \in Node /\ links.nxt[b] \in Node
  BY <1>1, <1>3 DEF Links
<1>5. TypeOK'
  BY <1>4, <1>1 DEF Unlink1, Goto, TypeOK
<1>6. BlocksHeld' /\ Counts'
  BY <1>1, <1>2, OwnerKeeps DEF Unlink1, InMalloc
<1>7. near'[Owner] = links.prv[b] /\ far'[Owner] = links.nxt[b] /\ blk' = blk
  BY <1>1 DEF Unlink1, TypeOK
<1>8. Ring(Deleted(Owner)', HEAD, Freed \ {b})
  <2>1. Deleted(Owner)' = ListDel(links, b)
    BY <1>1, <1>4, <1>7 DEF Unlink1, Deleted, ListDel, Join, Links
  <2> QED
    BY <1>1, <1>3, <2>1, RingRemove
<1>9. OnList'
  <2>1. Freed' = Freed
    BY DEF Unlink1, Freed
  <2>2. blk'[Owner] = b
    BY <1>7
  <2>3. Ring(Deleted(Owner)', HEAD, Freed' \ {blk'[Owner]})
    BY <1>8, <2>1, <2>2
  <2>4. near'[Owner] \in Node /\ far'[Owner] \in Node /\ blk'[Owner] \in Freed'
    BY <1>3, <1>4, <1>7, <2>1
  <2>5. \A u \in Thr : pc'[u] \notin Linking
    BY <1>2 DEF Linking
  <2>6. ~ \A u \in Thr : pc'[u] \notin Relinking
    BY <1>1, <1>2 DEF Relinking
  <2> QED
    BY <1>2, <2>3, <2>4, <2>5, <2>6 DEF OnList, Unlink1
<1> QED
  BY <1>2, <1>5, <1>6, <1>9 DEF Unlink1

LEMMA Unlink2Step ==
  ASSUME IInv, Unlink2, UNCHANGED discipline
  PROVE  IInv'
<1> USE DEF IInv
<1>1. Owner \in Thr /\ Working(Owner) /\ links \in Links /\ pc[Owner] = "unlink2"
  BY DEF Unlink2, At, Working, Thr, TypeOK, Links
<1>2. /\ OneAtATime'
      /\ pc'[Owner] = "dec1"
      /\ \A u \in Thr : u # Owner => pc'[u] = pc[u] /\ pc[u] \in {"idle", "lock"}
  BY <1>1, WorkMoves DEF Unlink2
<1>3. /\ blk[Owner] \in Freed /\ far[Owner] \in Node /\ near[Owner] \in Node
      /\ Ring(Deleted(Owner), HEAD, Freed \ {blk[Owner]})
  BY <1>1 DEF OnList
<1>4. TypeOK'
  BY <1>1, <1>3 DEF Unlink2, Goto, TypeOK, regs
<1>5. BlocksHeld' /\ Counts'
  BY <1>1, <1>2, OwnerKeeps DEF Unlink2, InMalloc, regs
<1>6. links' = Deleted(Owner)
  BY <1>1 DEF Unlink2, Deleted, Links
<1>7. OnList'
  <2>1. Freed' = Freed /\ blk'[Owner] = blk[Owner]
    BY DEF Unlink2, Freed, regs
  <2>2. Ring(links', HEAD, Freed' \ {blk'[Owner]}) /\ blk'[Owner] \in Freed'
    BY <1>3, <1>6, <2>1
  <2>3. \A u \in Thr : pc'[u] \notin Linking
    BY <1>2 DEF Linking
  <2>4. ~ \A u \in Thr : pc'[u] \notin Relinking
    BY <1>1, <1>2 DEF Relinking
  <2> QED
    BY <1>2, <2>2, <2>3, <2>4 DEF OnList, Unlink2
<1> QED
  BY <1>2, <1>4, <1>5, <1>7 DEF Unlink2

LEMMA BumpStep ==
  ASSUME IInv, Bump, UNCHANGED discipline
  PROVE  IInv'
<1> USE DEF IInv
<1>1. Owner \in Thr /\ Working(Owner) /\ pc[Owner] = "bump"
  BY DEF Bump, At, Working, Thr
<1>2. /\ OneAtATime'
      /\ pc'[Owner] = "dec1"
      /\ \A u \in Thr : u # Owner => pc'[u] = pc[u] /\ pc[u] \in {"idle", "lock"}
  BY <1>1, WorkMoves DEF Bump
<1>3. Freed = {} /\ free_blk < NBlk /\ Ring(links, HEAD, Freed) /\ free_blk \in Nat /\ NBlk \in Nat
  BY <1>1, <1>2, RaceConstants DEF OnList, Relinking, Linking, TypeOK
<1>4. blk' = [blk EXCEPT ![Owner] = free_blk] /\ free_blk \in Blk
  BY <1>3 DEF Bump, Blk
<1>5. TypeOK'
  <2>1. free_blk' \in 0..(NBlk + 1)
    BY <1>3 DEF Bump
  <2>2. blk' \in [Thr -> Node \cup {NBlk, NULL}]
    BY <1>4, Nodes DEF TypeOK
  <2> QED
    BY <2>1, <2>2 DEF Bump, Goto, TypeOK
<1>6. blk'[Owner] = free_blk /\ \A u \in Thr : u # Owner => blk'[u] = blk[u]
  BY <1>1, <1>4 DEF TypeOK
<1>7. BlocksHeld' /\ Counts'
  BY <1>1, <1>2, <1>6, OwnerKeeps DEF Bump, InMalloc
<1>8. OnList'
  <2>1. live = 0..(free_blk - 1)
    BY <1>3 DEF Freed, OnList
  <2>2. Freed' = {free_blk} /\ live' \subseteq 0..(free_blk' - 1) /\ free_blk' <= NBlk
    BY <1>3, <2>1 DEF Bump, Freed
  <2>3. Freed' \ {blk'[Owner]} = Freed /\ blk'[Owner] \in Freed'
    BY <1>3, <1>6, <2>2
  <2>4. Ring(links', HEAD, Freed' \ {blk'[Owner]})
    BY <1>3, <2>3 DEF Bump
  <2>5. \A u \in Thr : pc'[u] \notin Linking
    BY <1>2 DEF Linking
  <2>6. ~ \A u \in Thr : pc'[u] \notin Relinking
    BY <1>1, <1>2 DEF Relinking
  <2> QED
    BY <1>2, <2>2, <2>3, <2>4, <2>5, <2>6 DEF OnList
<1> QED
  BY <1>2, <1>5, <1>7, <1>8 DEF Bump

LEMMA Dec1Step ==
  ASSUME IInv, Dec1, UNCHANGED discipline
  PROVE  IInv'
<1> USE DEF IInv
<1>1. Owner \in Thr /\ Working(Owner) /\ pc[Owner] = "dec1"
  BY DEF Dec1, At, Working, Thr
<1>2. /\ OneAtATime'
      /\ pc'[Owner] = "dec2"
      /\ \A u \in Thr : u # Owner => pc'[u] = pc[u] /\ pc[u] \in {"idle", "lock"}
  BY <1>1, WorkMoves DEF Dec1
<1>3. TypeOK' /\ tmp'[Owner] = free_cnt
  BY <1>1 DEF Dec1, Goto, TypeOK
<1>4. BlocksHeld' /\ Counts'
  BY <1>1, <1>2, <1>3 DEF Dec1, InMalloc, BlocksHeld, Counts, Counting
<1>5. OnList'
  <2>1. Ring(links, HEAD, Freed \ {blk[Owner]}) /\ blk[Owner] \in Freed
    BY <1>1 DEF OnList
  <2>2. Freed' = Freed /\ blk' = blk /\ links' = links
    BY DEF Dec1, Freed
  <2>3. \A u \in Thr : pc'[u] \notin Linking
    BY <1>2 DEF Linking
  <2>4. ~ \A u \in Thr : pc'[u] \notin Relinking
    BY <1>1, <1>2 DEF Relinking
  <2> QED
    BY <1>2, <2>1, <2>2, <2>3, <2>4 DEF OnList, Dec1
<1> QED
  BY <1>2, <1>3, <1>4, <1>5 DEF Dec1

LEMMA Dec2Step ==
  ASSUME IInv, Dec2, UNCHANGED discipline
  PROVE  IInv'
<1> USE DEF IInv
<1> DEFINE b == blk[Owner]
<1>1. Owner \in Thr /\ Working(Owner) /\ pc[Owner] = "dec2"
  BY DEF Dec2, At, Working, Thr
<1>2. /\ OneAtATime'
      /\ pc'[Owner] = "idle"
      /\ \A u \in Thr : u # Owner => pc'[u] = pc[u] /\ pc[u] \in {"idle", "lock"}
  BY <1>1, WorkEnds DEF Dec2
<1>3. /\ b \in Freed /\ Ring(links, HEAD, Freed \ {b})
      /\ b \in Blk /\ b \notin live
  BY <1>1, FreedBlocks DEF OnList, Freed
<1>4. live' = live \cup {b} /\ ~bad'
  BY <1>3 DEF Dec2
<1>5. free_cnt \in Nat /\ free_cnt # 0 /\ tmp[Owner] = free_cnt /\ free_cnt' = free_cnt - 1
  <2>1. /\ free_cnt \in Nat /\ free_cnt < CntMod /\ CntMod \in Nat
        /\ free_cnt # 0 /\ tmp[Owner] = free_cnt
    BY <1>1, RaceConstants DEF TypeOK, Counts, InMalloc
  <2>2. free_cnt' = (free_cnt + CntMod - 1) % CntMod
    BY <2>1 DEF Dec2
  <2>3. free_cnt + CntMod - 1 = CntMod + (free_cnt - 1) /\ free_cnt - 1 \in 0..(CntMod - 1)
    BY <2>1
  <2> QED
    BY <2>1, <2>2, <2>3
<1>6. TypeOK'
  <2>1. free_cnt' \in 0..(CntMod - 1)
    BY <1>5, RaceConstants DEF TypeOK
  <2>2. live' \subseteq Blk
    BY <1>3, <1>4, LiveFinite
  <2>3. bad' \in BOOLEAN
    BY DEF Dec2
  <2>4. /\ tmp' \in [Thr -> 0..(CntMod - 1)] /\ blk' \in [Thr -> Node \cup {NBlk, NULL}]
        /\ near' \in [Thr -> Node \cup {NULL}] /\ far' \in [Thr -> Node \cup {NULL}]
    BY ForgetType DEF Dec2
  <2> QED
    BY <2>1, <2>2, <2>3, <2>4 DEF Dec2, Goto, TypeOK
<1>7. \A u \in Thr : u # Owner => blk'[u] = blk[u]
  BY DEF Dec2, Forget, TypeOK
<1>8. BlocksHeld'
  BY <1>2, <1>4, <1>7 DEF BlocksHeld, Counting
<1>9. Counts'
  <2>1. Cardinality(live') = Cardinality(live) + 1
    BY <1>3, <1>4, LiveFinite, FS_AddElement
  <2>2. free_cnt + Cardinality(live) = NBlk /\ Cardinality(live) \in Nat
    BY <1>1, <1>2, LiveFinite DEF Counts
  <2>3. free_cnt' + Cardinality(live') = NBlk
    BY <1>5, <2>1, <2>2
  <2> QED
    BY <1>2, <2>3 DEF Counts, InMalloc
<1>10. OnList'
  <2>1. Freed' = Freed \ {b} /\ links' = links /\ free_blk' = free_blk
    BY <1>4 DEF Dec2, Freed
  <2>2. Ring(links', HEAD, Freed')
    BY <1>3, <2>1
  <2>3. \A u \in Thr : pc'[u] \notin Linking
    BY <1>2 DEF Linking
  <2>4. free_blk' <= NBlk /\ live' \subseteq 0..(free_blk' - 1)
    BY <1>3, <1>4, <2>1 DEF OnList, Freed
  <2> QED
    BY <1>2, <2>2, <2>3, <2>4 DEF OnList
<1> QED
  BY <1>2, <1>4, <1>6, <1>8, <1>9, <1>10

-----------------------------------------------------------------------------
(* span_free_blk, by any thread.                                           *)

LEMMA FreeStep ==
  ASSUME IInv, NEW t \in Thr, Free(t), UNCHANGED discipline
  PROVE  IInv'
<1> USE DEF IInv
<1> DEFINE w == IF t = Owner THEN "inc1" ELSE "lock"
<1>1. PICK b \in live \ {blk[u] : u \in Thr} : blk' = [blk EXCEPT ![t] = b]
  BY DEF Free
<1>2. /\ pc[t] = "idle" /\ pc'[t] = w
      /\ \A u \in Thr : u # t => pc'[u] = pc[u]
      /\ discipline = "turns" => \A u \in Thr : pc[u] = "idle"
      /\ discipline = "apart" => t # Owner
  BY DEF Free, Begins, Goto, TypeOK
<1>3. b \in Blk /\ blk'[t] = b /\ \A u \in Thr : u # t => blk'[u] = blk[u] /\ blk[u] # b
  BY <1>1, LiveFinite DEF TypeOK
<1>4. TypeOK'
  <2>1. blk' \in [Thr -> Node \cup {NBlk, NULL}]
    BY <1>1, <1>3, Nodes DEF TypeOK
  <2> QED
    BY <2>1 DEF Free, Goto, TypeOK
<1>5. OneAtATime'
  <2>1. \A u \in Remote : pc'[u] \notin InMalloc /\ (Working(u)' <=> lock' = u)
    BY <1>2, RaceConstants DEF Free, OneAtATime, Working, InMalloc, Thr
  <2> QED
    BY <1>2, <2>1, RaceConstants DEF Free, OneAtATime, Thr
<1>6. BlocksHeld'
  BY <1>1, <1>2, <1>3 DEF Free, BlocksHeld
<1>7. Counts'
  <2>1. free_cnt' = free_cnt /\ live' = live /\ tmp' = tmp
    BY DEF Free
  <2>2. \A u \in Thr : \/ pc'[u] = pc[u]
                       \/ pc[u] = "idle" /\ pc'[u] \in {"inc1", "lock"}
    BY <1>2
  <2>3. (\E u \in Thr : pc'[u] = "link1") <=> (\E u \in Thr : pc[u] = "link1")
    BY <2>2
  <2>4. free_cnt + Cardinality(live)
          = IF \E u \in Thr : pc'[u] = "link1" THEN NBlk + 1 ELSE NBlk
    BY <2>3 DEF Counts
  <2>5. \A u \in Thr : pc'[u] \in {"inc2", "dec2"} => tmp[u] = free_cnt
    BY <2>2 DEF Counts
  <2>6. pc'[Owner] \in InMalloc => free_cnt # 0
    BY <2>2 DEF Counts, InMalloc, Thr
  <2> QED
    BY <2>1, <2>4, <2>5, <2>6 DEF Counts
<1>8. OnList'
  <2>1. (\A u \in Thr : pc'[u] \notin Relinking) <=> (\A u \in Thr : pc[u] \notin Relinking)
    BY <1>2 DEF Relinking, Linking
  <2>2. Freed' = Freed /\ links' = links /\ near' = near /\ far' = far /\ live' = live
        /\ free_blk' = free_blk
    BY DEF Free, Freed
  <2>3. \A u \in Thr : pc'[u] \in Linking => u # t /\ pc'[u] = pc[u] /\ blk'[u] = blk[u]
    BY <1>2, <1>3 DEF Linking
  <2>4. \A u \in Thr : pc'[u] \in Linking => Added(u)' = Added(u)
    BY <2>2, <2>3 DEF Added
  <2>5. pc'[Owner] \in InMalloc => Owner # t /\ pc'[Owner] = pc[Owner] /\ blk'[Owner] = blk[Owner]
    BY <1>2, <1>3 DEF InMalloc, Thr
  <2>6. Deleted(Owner)' = Deleted(Owner)
    BY <2>2 DEF Deleted
  <2> QED
    BY <2>1, <2>2, <2>3, <2>4, <2>5, <2>6 DEF OnList, InMalloc
<1> QED
  BY <1>4, <1>5, <1>6, <1>7, <1>8 DEF Free

LEMMA LockStep ==
  ASSUME IInv, NEW t \in Thr, Lock(t), UNCHANGED discipline
  PROVE  IInv'
<1> USE DEF IInv
<1>1. /\ pc[t] = "lock" /\ pc'[t] = "inc1" /\ lock = NULL /\ lock' = t
      /\ \A u \in Thr : u # t => pc'[u] = pc[u]
      /\ t \in Remote
  BY DEF Lock, At, Goto, TypeOK, OneAtATime, Thr
<1>2. \A u \in Remote : ~Working(u)
  BY <1>1, RaceConstants DEF OneAtATime
<1>3. TypeOK'
  BY <1>1 DEF Lock, Goto, TypeOK, regs
<1>4. OneAtATime'
  BY <1>1, <1>2, RaceConstants DEF Lock, OneAtATime, Working, InMalloc, Thr
<1>5. BlocksHeld'
  BY <1>1 DEF Lock, regs, BlocksHeld, Counting
<1>6. Counts'
  <2>1. free_cnt' = free_cnt /\ live' = live /\ tmp' = tmp
    BY DEF Lock, regs
  <2>2. \A u \in Thr : \/ pc'[u] = pc[u]
                       \/ pc[u] = "lock" /\ pc'[u] = "inc1"
    BY <1>1
  <2>3. (\E u \in Thr : pc'[u] = "link1") <=> (\E u \in Thr : pc[u] = "link1")
    BY <2>2
  <2>4. free_cnt + Cardinality(live)
          = IF \E u \in Thr : pc'[u] = "link1" THEN NBlk + 1 ELSE NBlk
    BY <2>3 DEF Counts
  <2>5. \A u \in Thr : pc'[u] \in {"inc2", "dec2"} => tmp[u] = free_cnt
    BY <2>2 DEF Counts
  <2>6. pc'[Owner] \in InMalloc => free_cnt # 0
    BY <2>2 DEF Counts, InMalloc, Thr
  <2> QED
    BY <2>1, <2>4, <2>5, <2>6 DEF Counts
<1>7. OnList'
  <2>1. (\A u \in Thr : pc'[u] \notin Relinking) <=> (\A u \in Thr : pc[u] \notin Relinking)
    BY <1>1 DEF Relinking, Linking
  <2>2. Freed' = Freed /\ links' = links /\ near' = near /\ far' = far /\ live' = live
        /\ free_blk' = free_blk /\ blk' = blk
    BY DEF Lock, regs, Freed
  <2>3. \A u \in Thr : pc'[u] \in Linking => pc'[u] = pc[u] /\ Added(u)' = Added(u)
    BY <1>1, <2>2 DEF Linking, Added
  <2>4. pc'[Owner] = pc[Owner] /\ Deleted(Owner)' = Deleted(Owner)
    BY <1>1, <2>2, RaceConstants DEF Deleted, Thr
  <2> QED
    BY <2>1, <2>2, <2>3, <2>4 DEF OnList
<1> QED
  BY <1>3, <1>4, <1>5, <1>6, <1>7 DEF Lock

\* The steps of a free around the list: nothing happens to it,
LEMMA QuietList ==
  ASSUME IInv, NEW t \in Thr,
         pc[t] \notin InMalloc \cup Linking, pc'[t] \notin InMalloc \cup Linking,
         \A u \in Thr : u # t => pc'[u] = pc[u] /\ pc[u] \in {"idle", "lock"},
         UNCHANGED <<links, free_blk, live>>
  PROVE  OnList'
<1>1. \A u \in Thr : /\ pc[u] \notin InMalloc /\ pc[u] \notin Linking
                     /\ pc'[u] \notin InMalloc /\ pc'[u] \notin Linking
  BY DEF InMalloc, Linking
<1>2. Owner \in Thr /\ Freed' = Freed
  BY DEF Thr, Freed
<1>3. Ring(links, HEAD, Freed) /\ free_blk <= NBlk /\ live \subseteq 0..(free_blk - 1)
  BY <1>1 DEF IInv, OnList, Relinking, InMalloc
<1> QED
  BY <1>1, <1>2, <1>3 DEF OnList, InMalloc

\* or the stores of list_add.
LEMMA LinkList ==
  ASSUME NEW t \in Thr, pc'[t] \in Linking,
         \A u \in Thr : u # t => pc'[u] = pc[u] /\ pc[u] \in {"idle", "lock"},
         free_blk' <= NBlk, live' \subseteq 0..(free_blk' - 1),
         blk'[t] \in Freed', near'[t] \in Node \ {blk'[t]}, links'.nxt[blk'[t]] = near'[t],
         pc'[t] \in {"link3", "link4"} => links'.prv[near'[t]] = blk'[t],
         pc'[t] = "link4" => links'.nxt[HEAD] = blk'[t],
         Ring(Added(t)', HEAD, Freed')
  PROVE  OnList'
<1>1. pc'[Owner] \notin InMalloc /\ \A u \in Thr : pc'[u] \in Linking => u = t
  BY DEF InMalloc, Linking, Thr
<1>2. ~ \A u \in Thr : pc'[u] \notin Relinking
  BY DEF Relinking
<1> QED
  BY <1>1, <1>2 DEF OnList, InMalloc

LEMMA Inc1Step ==
  ASSUME IInv, NEW t \in Thr, Inc1(t), UNCHANGED discipline
  PROVE  IInv'
<1> USE DEF IInv
<1>1. Working(t) /\ pc[t] = "inc1"
  BY DEF Inc1, At, Working
<1>2. /\ OneAtATime'
      /\ pc'[t] = "inc2"
      /\ \A u \in Thr : u # t => pc'[u] = pc[u] /\ pc[u] \in {"idle", "lock"}
  BY <1>1, WorkMoves DEF Inc1, InMalloc
<1>3. TypeOK' /\ tmp'[t] = free_cnt
  BY <1>1 DEF Inc1, Goto, TypeOK
<1>4. BlocksHeld'
  BY <1>1, <1>2 DEF Inc1, BlocksHeld, Counting
<1>5. Counts'
  BY <1>1, <1>2, <1>3 DEF Inc1, InMalloc, Counts, Thr
<1>6. OnList'
  BY <1>1, <1>2, QuietList DEF Inc1, Linking, Relinking, InMalloc
<1> QED
  BY <1>2, <1>3, <1>4, <1>5, <1>6 DEF Inc1

LEMMA Inc2Step ==
  ASSUME IInv, NEW t \in Thr, Inc2(t), UNCHANGED discipline
  PROVE  IInv'
<1> USE DEF IInv
<1>1. Working(t) /\ pc[t] = "inc2"
  BY DEF Inc2, At, Working
<1>2. /\ OneAtATime'
      /\ pc'[t] = "link1"
      /\ \A u \in Thr : u # t => pc'[u] = pc[u] /\ pc[u] \in {"idle", "lock"}
  BY <1>1, WorkMoves DEF Inc2, InMalloc
<1>3. free_cnt + Cardinality(live) = NBlk /\ Cardinality(live) \in Nat /\ Cardinality(live) # 0
  <2>1. blk[t] \in live
    BY <1>1 DEF BlocksHeld, Counting
  <2>2. free_cnt + Cardinality(live) = NBlk
    BY <1>1, <1>2 DEF Counts
  <2> QED
    BY <2>1, <2>2, LiveFinite, FS_EmptySet
<1>4. free_cnt \in Nat /\ free_cnt + 1 < CntMod /\ free_cnt' = free_cnt + 1
  <2>1. free_cnt \in Nat /\ free_cnt + 1 < CntMod /\ CntMod \in Nat
    BY <1>3, LiveFinite, RaceConstants
  <2>2. free_cnt' = (free_cnt + 1) % CntMod
    BY <1>1 DEF Inc2, Counts
  <2> QED
    BY <2>1, <2>2
<1>5. TypeOK'
  <2>1. free_cnt' \in 0..(CntMod - 1)
    BY <1>4, RaceConstants
  <2> QED
    BY <2>1 DEF Inc2, Goto, TypeOK, regs
<1>6. BlocksHeld'
  BY <1>1, <1>2 DEF Inc2, regs, BlocksHeld, Counting
<1>7. Counts'
  <2>1. free_cnt' + Cardinality(live') = NBlk + 1
    BY <1>3, <1>4, RaceConstants DEF Inc2
  <2>2. pc'[Owner] \notin InMalloc
    BY <1>2 DEF InMalloc, Thr
  <2> QED
    BY <1>2, <2>1, <2>2 DEF Counts
<1>8. OnList'
  BY <1>1, <1>2, QuietList DEF Inc2, regs, Linking, Relinking, InMalloc
<1> QED
  BY <1>2, <1>5, <1>6, <1>7, <1>8 DEF Inc2

LEMMA Link1Step ==
  ASSUME IInv, NEW t \in Thr, Link1(t), UNCHANGED discipline
  PROVE  IInv'
<1> USE DEF IInv
<1> DEFINE b == blk[t]
           f == links.nxt[HEAD]
<1>1. Working(t) /\ pc[t] = "link1" /\ links \in Links
  BY DEF Link1, At, Working, TypeOK, Links
<1>2. /\ OneAtATime'
      /\ pc'[t] = "link2"
      /\ \A u \in Thr : u # t => pc'[u] = pc[u] /\ pc[u] \in {"idle", "lock"}
  BY <1>1, WorkMoves DEF Link1, InMalloc
<1>3. /\ b \in live /\ b \in Blk /\ b \in Node /\ b # HEAD
      /\ Freed \in SUBSET Blk /\ b \in Blk \ Freed
      /\ Ring(links, HEAD, Freed)
  BY <1>1, <1>2, LiveFinite, FreedBlocks, Nodes
     DEF BlocksHeld, Counting, OnList, Relinking, Linking, Freed
<1>4. f \in Node \ {b} /\ near'[t] = f /\ blk' = blk
  <2>1. f \in Freed \cup {HEAD}
    BY <1>3 DEF Ring
  <2> QED
    BY <1>1, <1>3, <2>1, Nodes DEF Link1, TypeOK
<1>5. live' = live \ {b} /\ Freed' = Freed \cup {b}
  BY <1>3 DEF Link1, Freed, OnList
<1>6. TypeOK'
  BY <1>1, <1>3, <1>4, <1>5 DEF Link1, Goto, TypeOK
<1>7. BlocksHeld'
  BY <1>1, <1>2, <1>4, <1>5 DEF BlocksHeld, Counting
<1>8. Counts'
  <2>1. Cardinality(live') = Cardinality(live) - 1
    <3> HIDE DEF b
    <3>1. IsFiniteSet(live)
      BY LiveFinite
    <3>2. b \in live /\ live' = live \ {b}
      BY <1>3, <1>5
    <3>3. Cardinality(live \ {b}) = Cardinality(live) - 1
      BY <3>1, <3>2, FS_RemoveElement
    <3> QED
      BY <3>2, <3>3
  <2>2. free_cnt + Cardinality(live) = NBlk + 1 /\ Cardinality(live) \in Nat
    BY <1>1, LiveFinite DEF Counts
  <2>3. free_cnt' + Cardinality(live') = NBlk
    BY <2>1, <2>2, LiveFinite DEF Link1
  <2>4. pc'[Owner] \notin InMalloc
    BY <1>2 DEF InMalloc, Thr
  <2> QED
    BY <1>2, <2>3, <2>4 DEF Counts
<1>9. OnList'
  <2>1. Added(t)' = Insert(links, b, HEAD, f)
    BY <1>1, <1>3, <1>4, Nodes DEF Added, Insert, Link1, Links
  <2>2. Ring(Added(t)', HEAD, Freed')
    BY <1>1, <1>3, <1>5, <2>1, RingAdd
  <2>3. links'.nxt[b] = f
    BY <1>1, <1>3 DEF Link1, Links
  <2>4. free_blk' <= NBlk /\ live' \subseteq 0..(free_blk' - 1)
    BY <1>5 DEF Link1, OnList
  <2> QED
    BY <1>2, <1>4, <1>5, <2>2, <2>3, <2>4, LinkList DEF Linking
<1> QED
  BY <1>2, <1>6, <1>7, <1>8, <1>9 DEF Link1

LEMMA Link2Step ==
  ASSUME IInv, NEW t \in Thr, Link2(t), UNCHANGED discipline
  PROVE  IInv'
<1> USE DEF IInv
<1>1. Working(t) /\ pc[t] = "link2" /\ links \in Links
  BY DEF Link2, At, Working, TypeOK, Links
<1>2. /\ OneAtATime'
      /\ pc'[t] = "link3"
      /\ \A u \in Thr : u # t => pc'[u] = pc[u] /\ pc[u] \in {"idle", "lock"}
  BY <1>1, WorkMoves DEF Link2, InMalloc
<1>3. /\ blk[t] \in Freed /\ near[t] \in Node \ {blk[t]} /\ links.nxt[blk[t]] = near[t]
      /\ Ring(Added(t), HEAD, Freed) /\ blk[t] \in Node /\ HEAD \in Node
  BY <1>1, FreedBlocks, Nodes DEF OnList, Linking
<1>4. TypeOK'
  BY <1>1, <1>3 DEF Link2, Goto, TypeOK, regs
<1>5. BlocksHeld' /\ Counts'
  BY <1>1, <1>2 DEF Link2, regs, BlocksHeld, Counts, Counting, InMalloc, Thr
<1>6. OnList'
  <2>1. Added(t)' = Added(t) /\ links'.nxt = links.nxt /\ links'.prv[near[t]] = blk[t]
    BY <1>1, <1>3 DEF Link2, regs, Added, Insert, Links
  <2>2. Freed' = Freed /\ blk' = blk /\ near' = near
    BY DEF Link2, regs, Freed
  <2>3. free_blk' <= NBlk /\ live' \subseteq 0..(free_blk' - 1)
    BY DEF Link2, OnList
  <2> QED
    BY <1>2, <1>3, <2>1, <2>2, <2>3, LinkList DEF Linking
<1> QED
  BY <1>2, <1>4, <1>5, <1>6 DEF Link2

LEMMA Link3Step ==
  ASSUME IInv, NEW t \in Thr, Link3(t), UNCHANGED discipline
  PROVE  IInv'
<1> USE DEF IInv
<1>1. Working(t) /\ pc[t] = "link3" /\ links \in Links
  BY DEF Link3, At, Working, TypeOK, Links
<1>2. /\ OneAtATime'
      /\ pc'[t] = "link4"
      /\ \A u \in Thr : u # t => pc'[u] = pc[u] /\ pc[u] \in {"idle", "lock"}
  BY <1>1, WorkMoves DEF Link3, InMalloc
<1>3. /\ blk[t] \in Freed /\ near[t] \in Node \ {blk[t]} /\ links.nxt[blk[t]] = near[t]
      /\ links.prv[near[t]] = blk[t]
      /\ Ring(Added(t), HEAD, Freed) /\ blk[t] \in Node /\ HEAD \in Node /\ blk[t] # HEAD
  BY <1>1, FreedBlocks, Nodes DEF OnList, Linking
<1>4. TypeOK'
  BY <1>1, <1>3 DEF Link3, Goto, TypeOK, regs
<1>5. BlocksHeld' /\ Counts'
  BY <1>1, <1>2 DEF Link3, regs, BlocksHeld, Counts, Counting, InMalloc, Thr
<1>6. OnList'
  <2>1. /\ Added(t)' = Added(t) /\ links'.prv = links.prv
        /\ links'.nxt[HEAD] = blk[t] /\ links'.nxt[blk[t]] = near[t]
    BY <1>1, <1>3 DEF Link3, regs, Added, Insert, Links
  <2>2. Freed' = Freed /\ blk' = blk /\ near' = near
    BY DEF Link3, regs, Freed
  <2>3. free_blk' <= NBlk /\ live' \subseteq 0..(free_blk' - 1)
    BY DEF Link3, OnList
  <2> QED
    BY <1>2, <1>3, <2>1, <2>2, <2>3, LinkList DEF Linking
<1> QED
  BY <1>2, <1>4, <1>5, <1>6 DEF Link3

LEMMA Link4Step ==
  ASSUME IInv, NEW t \in Thr, Link4(t), UNCHANGED discipline
  PROVE  IInv'
<1> USE DEF IInv
<1>1. Working(t) /\ pc[t] = "link4" /\ links \in Links
  BY DEF Link4, At, Working, TypeOK, Links
<1>2. /\ OneAtATime'
      /\ pc'[t] = "idle"
      /\ \A u \in Thr : u # t => pc'[u] = pc[u] /\ pc[u] \in {"idle", "lock"}
  BY <1>1, WorkEnds DEF Link4
<1>3. /\ blk[t] \in Freed /\ near[t] \in Node \ {blk[t]} /\ links.nxt[blk[t]] = near[t]
      /\ links.prv[near[t]] = blk[t] /\ links.nxt[HEAD] = blk[t]
      /\ Ring(Added(t), HEAD, Freed) /\ blk[t] \in Node /\ HEAD \in Node /\ blk[t] # HEAD
  BY <1>1, FreedBlocks, Nodes DEF OnList, Linking
<1>4. TypeOK'
  <2>1. links' \in Links /\ lock' \in Thr \cup {NULL}
    BY <1>1, <1>3 DEF Link4, TypeOK, Links
  <2>2. /\ tmp' \in [Thr -> 0..(CntMod - 1)] /\ blk' \in [Thr -> Node \cup {NBlk, NULL}]
        /\ near' \in [Thr -> Node \cup {NULL}] /\ far' \in [Thr -> Node \cup {NULL}]
    BY ForgetType DEF Link4
  <2> QED
    BY <2>1, <2>2 DEF Link4, Goto, TypeOK, Links
<1>5. \A u \in Thr : u # t => blk'[u] = blk[u]
  BY ForgetType DEF Link4
<1>6. BlocksHeld'
  BY <1>1, <1>2, <1>5 DEF Link4, BlocksHeld, Counting
<1>7. Counts'
  BY <1>1, <1>2 DEF Link4, Counts, InMalloc, Thr
<1>8. OnList'
  <2>1. links' = Added(t)
    BY <1>1, <1>3 DEF Link4, Added, Insert, Links
  <2>2. Freed' = Freed /\ free_blk' = free_blk /\ live' = live
    BY DEF Link4, Freed
  <2>3. Ring(links', HEAD, Freed')
    BY <1>3, <2>1, <2>2
  <2>4. pc'[Owner] \notin InMalloc /\ \A u \in Thr : pc'[u] \notin Linking
    BY <1>2 DEF InMalloc, Linking, Thr
  <2> QED
    BY <2>2, <2>3, <2>4 DEF OnList, InMalloc
<1> QED
  BY <1>2, <1>4, <1>6, <1>7, <1>8 DEF Link4

-----------------------------------------------------------------------------
(* The theorems.                                                           *)

LEMMA InitInv ==
  ASSUME Init \/ InitFresh, "none" \notin Disciplines
  PROVE  IInv
<1> DEFINE l == InitHeads([nxt |-> [n \in Node |-> n], prv |-> [n \in Node |-> n]], {HEAD})
<1>1. links = l /\ l \in Links /\ l.nxt[HEAD] = HEAD /\ l.prv[HEAD] = HEAD
  BY Nodes DEF Init, InitFresh, InitHeads, Links
<1>2. /\ discipline \in {"turns", "apart"} /\ discipline \in Disciplines
      /\ lock = NULL /\ ~bad /\ bad \in BOOLEAN
      /\ pc = [t \in Thr |-> "idle"] /\ tmp = [t \in Thr |-> 0]
      /\ blk = [t \in Thr |-> NULL] /\ near = [t \in Thr |-> NULL] /\ far = [t \in Thr |-> NULL]
  BY RaceConstants DEF Init, InitFresh
<1>3. /\ \/ free_cnt = 0 /\ free_blk = NBlk /\ live = Blk
         \/ free_cnt = NBlk /\ free_blk = 0 /\ live = {}
  BY DEF Init, InitFresh
<1> HIDE DEF l
<1>4. NBlk \in Nat /\ CntMod \in Nat /\ NBlk < CntMod
  BY RaceConstants
<1>5. TypeOK
  <2>1. free_cnt \in 0..(CntMod - 1) /\ free_blk \in 0..(NBlk + 1) /\ live \subseteq Blk
    BY <1>3, <1>4
  <2> QED
    BY <1>1, <1>2, <1>4, <2>1 DEF TypeOK, Links
<1>6. OneAtATime /\ BlocksHeld
  BY <1>2, RaceConstants DEF OneAtATime, BlocksHeld, Working, Counting, InMalloc, Thr
<1>7. Counts
  <2>1. Cardinality(Blk) = NBlk /\ Cardinality({}) = 0
    BY <1>4, FS_Interval, FS_EmptySet DEF Blk
  <2>2. free_cnt + Cardinality(live) = NBlk
    BY <1>3, <1>4, <2>1
  <2> QED
    BY <1>2, <2>2 DEF Counts, InMalloc, Thr
<1>8. OnList
  <2>1. Freed = {} /\ free_blk <= NBlk /\ live \subseteq 0..(free_blk - 1)
    BY <1>3, <1>4 DEF Freed, Blk
  <2>2. Ring(links, HEAD, Freed)
    BY <1>1, <2>1 DEF Ring
  <2> QED
    BY <1>2, <2>1, <2>2 DEF OnList, Linking, Thr
<1> QED
  BY <1>2, <1>5, <1>6, <1>7, <1>8 DEF IInv

LEMMA StepInv == IInv /\ [Next]_vars => IInv'
<1> SUFFICES ASSUME IInv, [Next]_vars
             PROVE  IInv'
  OBVIOUS
<1>1. CASE UNCHANGED vars
  BY <1>1 DEF vars, regs, IInv, TypeOK, OneAtATime, BlocksHeld, Counts, OnList, Working,
     Freed, Deleted, Added, Ring
<1>2. CASE Next
  BY <1>2, MallocStep, ChooseStep, Unlink1Step, Unlink2Step, BumpStep, Dec1Step, Dec2Step,
     FreeStep, LockStep, Inc1Step, Inc2Step, Link1Step, Link2Step, Link3Step, Link4Step
     DEF Next
<1> QED
  BY <1>1, <1>2

LEMMA Invariant == "none" \notin Disciplines => (Spec => []IInv)
<1> SUFFICES ASSUME "none" \notin Disciplines
             PROVE  Spec => []IInv
  OBVIOUS
<1>1. Init \/ InitFresh => IInv
  BY InitInv
<1> QED
  BY <1>1, StepInv, PTL DEF Spec

(***************************************************************************)
(* When calls take turns, or the owner stays away from a span that others  *)
(* free into, free_cnt is exact between calls: the owner's lock is enough  *)
(* for the threads that take it.                                           *)
(***************************************************************************)
THEOREM CountIsExact == "none" \notin Disciplines => (Spec => []CountExact)
<1> SUFFICES ASSUME "none" \notin Disciplines
             PROVE  Spec => []CountExact
  OBVIOUS
<1>1. IInv => CountExact
  <2> SUFFICES ASSUME IInv, Settled
               PROVE  free_cnt = NBlk - Cardinality(live)
    BY DEF CountExact
  <2>1. free_cnt + Cardinality(live) = NBlk
    BY DEF IInv, Counts, Settled
  <2> QED
    BY <2>1, LiveFinite DEF IInv
<1> QED
  BY <1>1, Invariant, PTL

(***************************************************************************)
(* And wl_malloc returns only blocks of the span that nobody holds: a list *)
(* that is not empty leads to a free block, and an empty one means that    *)
(* the next block was never used.                                          *)
(***************************************************************************)
THEOREM BlocksAreFree == "none" \notin Disciplines => (Spec => []OnlyFreeBlocks)
<1> SUFFICES ASSUME "none" \notin Disciplines
             PROVE  Spec => []OnlyFreeBlocks
  OBVIOUS
<1> QED
  BY Invariant, PTL DEF IInv, OnlyFreeBlocks

\* Backwards, too, every walk through a ring reaches its head.
LEMMA RingBackwards ==
  ASSUME NEW l \in Links, NEW S \in SUBSET Blk, Ring(l, HEAD, S),
         NEW Z \in SUBSET S, Z # {}
  PROVE  \E n \in Z : l.prv[n] \notin Z
<1> SUFFICES ASSUME \A n \in Z : l.prv[n] \in Z
             PROVE  FALSE
  OBVIOUS
<1> DEFINE back == [n \in Z |-> l.prv[n]]
<1>1. IsFiniteSet(Blk)
  BY RaceConstants, FS_Interval DEF Blk
<1>2. IsFiniteSet(Z)
  BY <1>1, FS_Subset
<1>3. \A n \in Z : l.nxt[l.prv[n]] = n
  BY DEF Ring
<1>4. back \in [Z -> Z] /\ \A m, n \in Z : back[m] = back[n] => m = n
  BY <1>3
<1>5. back \in Injection(Z, Z)
  BY <1>4 DEF Injection, IsInjective
<1>6. back \in Surjection(Z, Z)
  BY <1>2, <1>5, FS_Injection
<1>7. \A n \in Z : \E m \in Z : back[m] = n
  BY <1>6 DEF Surjection
<1>8. \A n \in Z : l.nxt[n] \in Z
  BY <1>3, <1>7
<1> QED
  BY <1>8 DEF Ring

\* The walk round a ring meets its nodes and no others.
LEMMA RingWalked ==
  ASSUME TypeOK, NEW S \in SUBSET Blk, Ring(links, HEAD, S)
  PROVE  Listed = S
<1>1. links \in Links /\ S \subseteq Node /\ HEAD \in Node /\ HEAD \notin S
  BY Nodes DEF TypeOK, Links
<1>2. ASSUME NEW b \in Listed
      PROVE  b \in S
  <2>1. Walked(S \cup {HEAD})
    BY DEF Walked, Ring
  <2>2. b \in Blk /\ b \in S \cup {HEAD}
    BY <1>1, <1>2, <2>1, S \cup {HEAD} \in SUBSET Node DEF Listed
  <2> QED
    BY <2>2, Nodes
<1>3. ASSUME NEW W \in SUBSET Node, Walked(W)
      PROVE  S \subseteq W
  <2> SUFFICES ASSUME S \ W # {}
               PROVE  FALSE
    OBVIOUS
  <2>1. PICK n \in S \ W : links.prv[n] \notin S \ W
    BY <1>1, RingBackwards
  <2>2. links.prv[n] \in S \cup {HEAD} /\ links.nxt[links.prv[n]] = n
    BY DEF Ring
  <2> QED
    BY <1>1, <1>3, <2>1, <2>2 DEF Walked
<1> QED
  BY <1>2, <1>3 DEF Listed

(***************************************************************************)
(* Between calls blk_list has the blocks that were used and are free, each *)
(* of them and no other, and its pointers agree both ways.                 *)
(***************************************************************************)
THEOREM ListIsExact == "none" \notin Disciplines => (Spec => []ListExact)
<1> SUFFICES ASSUME "none" \notin Disciplines
             PROVE  Spec => []ListExact
  OBVIOUS
<1>1. IInv => ListExact
  <2> SUFFICES ASSUME IInv, Settled
               PROVE  /\ Listed = Freed
                      /\ \A b \in Listed \cup {HEAD} : links.prv[links.nxt[b]] = b
    BY DEF ListExact, Freed
  <2>1. Ring(links, HEAD, Freed) /\ Freed \in SUBSET Blk
    <3>1. free_blk \in Nat /\ free_blk <= NBlk
      BY DEF IInv, TypeOK, OnList
    <3>2. 0..(free_blk - 1) \subseteq Blk
      BY <3>1, RaceConstants DEF Blk
    <3> QED
      BY <3>2 DEF IInv, OnList, Settled, Relinking, Linking, Freed
  <2>2. Listed = Freed
    BY <2>1, RingWalked DEF IInv
  <2> QED
    BY <2>1, <2>2 DEF Ring
<1> QED
  BY <1>1, Invariant, PTL
=============================================================================
