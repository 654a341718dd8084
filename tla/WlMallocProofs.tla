--------------------------- MODULE WlMallocProofs ---------------------------
(***************************************************************************)
(* Theorems about the allocator of module WlMalloc, for any number of      *)
(* threads, spans, classes and blocks.                                     *)
(***************************************************************************)
EXTENDS WlMallocInv, FiniteSetTheorems, TLAPS

-----------------------------------------------------------------------------
(* The operators of list.h keep a snapshot of pointers a snapshot of       *)
(* pointers.                                                               *)

Links == [nxt : [Node -> Node \cup {NULL}], prv : [Node -> Node \cup {NULL}]]

\* __list_del and list_del store pointers only.
LEMMA ListDelType ==
  ASSUME NEW l \in Links, NEW e \in Node
  PROVE  ListDel(l, e) \in Links
BY DEF Links, ListDel, Join

\* So do __list_add and list_add_tail.
LEMMA ListAddTailType ==
  ASSUME NEW l \in Links, NEW e \in Node, NEW h \in Node
  PROVE  ListAddTail(l, e, h) \in Links
BY DEF Links, ListAddTail, Insert

\* So does INIT_LIST_HEAD.
LEMMA InitHeadsType ==
  ASSUME NEW l \in Links, NEW H
  PROVE  InitHeads(l, H) \in Links
BY DEF Links, InitHeads

\* So does list_splice_tail.
LEMMA ListSpliceTailType ==
  ASSUME NEW l \in Links, NEW g \in Node, NEW h \in Node
  PROVE  ListSpliceTail(l, g, h) \in Links
BY DEF Links, ListSpliceTail, Splice, IsEmpty

-----------------------------------------------------------------------------
(* Types.                                                                  *)

\* Nodes: spans, the heads of a cache, and the heads of the pool.
LEMMA Nodes ==
  /\ Span \subseteq Node
  /\ \A o \in Thr, c \in 0..NClass : <<o, c>> \in ListHead /\ <<o, c>> \in Node
  /\ \A o \in Thr : FreeList(o) \in ListHead /\ FreeList(o) \in Node
  /\ NClass \in 0..NClass /\ 0 \in Class /\ Class \subseteq 0..NClass
  /\ \A c \in 0..NClass : c # NClass => c \in Class /\ c + 1 \in 0..NClass
BY ConstantsAssumption DEF Node, ListHead, Thr, FreeList, Class

\* get_blk and the counters stay within their types.
LEMMA CounterType ==
  ASSUME NEW n \in Idx
  PROVE  Inc(n) \in Idx /\ Dec(n) \in Idx
BY ConstantsAssumption DEF Inc, Dec, Idx

\* span_init, get_blk and span_free_blk leave a header a header, and the
\* fields they do not assign as they were.
LEMMA SpanInitType ==
  ASSUME NEW r \in SpanRec, NEW c \in Class
  PROVE  /\ SpanInit(r, c) \in SpanRec
         /\ SpanInit(r, c).cls = c
         /\ SpanInit(r, c).owner = r.owner
         /\ SpanInit(r, c).state = r.state
         /\ SpanInit(r, c).free_cnt = NBlk[c]
         /\ SpanInit(r, c).free_blk = 0
         /\ SpanInit(r, c).blk_list = {}
<1> NBlk[c] \in Idx
  BY ConstantsAssumption DEF Idx
<1> QED
  BY DEF SpanInit, SpanRec

LEMMA InstallType ==
  ASSUME NEW r \in SpanRec, NEW t \in Thread
  PROVE  LET q == [r EXCEPT !.owner = t, !.state = "IN_USE"]
         IN /\ q \in SpanRec
            /\ q.owner = t /\ q.state = "IN_USE" /\ q.cls = r.cls
            /\ q.free_cnt = r.free_cnt /\ q.free_blk = r.free_blk
            /\ q.blk_list = r.blk_list
BY DEF SpanRec

LEMMA TakeBlkType ==
  ASSUME NEW r \in SpanRec, NEW i
  PROVE  /\ TakeBlk(r, i) \in SpanRec
         /\ TakeBlk(r, i).cls = r.cls
         /\ TakeBlk(r, i).owner = r.owner
         /\ TakeBlk(r, i).state = r.state
         /\ TakeBlk(r, i).free_cnt = Dec(r.free_cnt)
         /\ r.blk_list # {} => /\ TakeBlk(r, i).free_blk = r.free_blk
                               /\ TakeBlk(r, i).blk_list = r.blk_list \ {i}
         /\ r.blk_list = {} => /\ TakeBlk(r, i).free_blk = r.free_blk + 1
                               /\ TakeBlk(r, i).blk_list = {}
<1> DEFINE d == Dec(r.free_cnt)
           n == r.free_blk + 1
           b == r.blk_list \ {i}
<1>1. d \in Idx /\ n \in Nat /\ b \in SUBSET Idx
  BY CounterType DEF SpanRec
<1> HIDE DEF d, n, b
<1>2. CASE r.blk_list # {}
  <2>1. TakeBlk(r, i) = [r EXCEPT !.blk_list = b, !.free_cnt = d]
    BY <1>2 DEF TakeBlk, b, d
  <2> QED
    BY <1>1, <1>2, <2>1 DEF SpanRec, d, b
<1>3. CASE r.blk_list = {}
  <2>1. TakeBlk(r, i) = [r EXCEPT !.free_blk = n, !.free_cnt = d]
    BY <1>3 DEF TakeBlk, n, d
  <2>2. [r EXCEPT !.free_blk = n, !.free_cnt = d] \in SpanRec
    BY <1>1 DEF SpanRec
  <2> QED
    BY <1>1, <1>3, <2>1, <2>2 DEF SpanRec, d, n
<1> QED
  BY <1>2, <1>3

LEMMA PutBlkType ==
  ASSUME NEW r \in SpanRec, NEW i \in Idx
  PROVE  /\ PutBlk(r, i) \in SpanRec
         /\ PutBlk(r, i).cls = r.cls
         /\ PutBlk(r, i).owner = r.owner
         /\ PutBlk(r, i).free_cnt = Inc(r.free_cnt)
         /\ PutBlk(r, i).free_blk = r.free_blk
         /\ Collected(r) => PutBlk(r, i).state = "FREE"
         /\ ~Collected(r) => /\ PutBlk(r, i).state = r.state
                             /\ PutBlk(r, i).blk_list = r.blk_list \cup {i}
<1> DEFINE d == Inc(r.free_cnt)
           b == r.blk_list \cup {i}
<1>1. d \in Idx /\ b \in SUBSET Idx /\ {i} \in SUBSET Idx
  BY CounterType DEF SpanRec
<1> HIDE DEF d, b
<1>2. CASE Collected(r)
  <2>1. PutBlk(r, i) = [r EXCEPT !.free_cnt = d, !.state = "FREE", !.blk_list = {i}]
    BY <1>2 DEF PutBlk, d
  <2> QED
    BY <1>1, <1>2, <2>1 DEF SpanRec, d
<1>3. CASE ~Collected(r)
  <2>1. PutBlk(r, i) = [r EXCEPT !.free_cnt = d, !.blk_list = b]
    BY <1>3 DEF PutBlk, d, b
  <2> QED
    BY <1>1, <1>3, <2>1 DEF SpanRec, d, b
<1> QED
  BY <1>2, <1>3

\* A block handed out by get_blk, from a header of the right type.
LEMMA GetBlkType ==
  ASSUME TypeOK, NEW t \in Thread, NEW s \in Span, NEW r \in SpanRec,
         NEW reinit \in BOOLEAN, GetBlk(t, s, r, reinit)
  PROVE  /\ proc' \in Outcome
         /\ span' \in [Span -> SpanRec]
         /\ live' \subseteq Block
         /\ pc' \in [Thread -> {"idle", "scan", "refill", "acquire", "pfree",
                                "xlink", "xwalk"}]
         /\ ci' \in [Thread -> 0..NClass]
         /\ cur' \in [Thread -> Node \cup {NULL}]
         /\ arg' \in [Thread -> Block \cup {NULL}]
<1>1. PICK i \in Blks(r) :
        LET bad == IF reinit /\ LiveOf(s) # {} THEN "reissue"
                   ELSE IF i >= NBlk[r.cls] THEN "overrun"
                   ELSE IF <<s, i>> \in live THEN "reissue"
                   ELSE "run"
        IN /\ proc' = bad
           /\ span' = [span EXCEPT ![s] = TakeBlk(r, i)]
           /\ live' = IF bad = "run" THEN live \cup {<<s, i>>} ELSE live
           /\ Return(t)
  BY DEF GetBlk
<1>2. r.free_cnt \in Idx /\ r.free_blk \in Nat /\ r.cls \in Class
      /\ r.blk_list \subseteq Idx /\ NBlk[r.cls] \in 1..CntMax
  BY ConstantsAssumption DEF SpanRec
<1>5. span' \in [Span -> SpanRec]
  BY <1>1, TakeBlkType DEF TypeOK
<1>6. i \in Nat /\ (i < NBlk[r.cls] => i \in Idx)
  BY <1>2, ConstantsAssumption DEF Idx, Blks
<1>7. live' \subseteq Block
  BY <1>1, <1>2, <1>6 DEF TypeOK, Block
<1>8. proc' \in Outcome
  BY <1>1 DEF Outcome
<1> QED
  BY <1>1, <1>5, <1>7, <1>8, Nodes DEF Return, Goto, TypeOK

\* Install ends with get_blk.
LEMMA InstallKeepsType ==
  ASSUME TypeOK, NEW t \in Thread, NEW s \in Span, NEW r \in SpanRec,
         NEW reinit \in BOOLEAN, ci[t] \in Class, Install(t, s, r, reinit),
         carved' \subseteq Span, room' \in Nat, plock' = plock,
         links' \in Links, home' \in [Span -> ListHead \cup {NULL}],
         tainted' \in BOOLEAN
  PROVE  TypeOK'
<1>1. [r EXCEPT !.owner = t, !.state = "IN_USE"] \in SpanRec
  BY InstallType
<1>2. using' \in [Thread -> [Class -> Span \cup {NULL}]]
  BY DEF Install, TypeOK
<1> QED
  BY <1>1, <1>2, GetBlkType DEF Install, TypeOK, Links

LEMMA TakeFirstKeepsType ==
  ASSUME TypeOK, NEW t \in Thread, NEW h \in Node, NEW reinit \in BOOLEAN,
         ci[t] \in Class, TakeFirst(t, h, reinit)
  PROVE  TypeOK'
<1> DEFINE s == links.nxt[h]
           r == IF reinit THEN SpanInit(span[s], ci[t]) ELSE span[s]
<1>1. s \in Span /\ TakeOff(s) /\ Install(t, s, r, reinit) /\ UNCHANGED poolvars
  BY DEF TakeFirst
<1>2. r \in SpanRec
  BY <1>1, SpanInitType DEF TypeOK
<1>3. links' \in Links
  BY <1>1, Nodes, ListDelType DEF TakeOff, TypeOK, Links
<1>4. home' \in [Span -> ListHead \cup {NULL}] /\ tainted' \in BOOLEAN
  BY <1>1 DEF TakeOff, TypeOK, Taints
<1> HIDE DEF s, r
<1>5. carved' \subseteq Span /\ room' \in Nat /\ plock' = plock
  BY <1>1 DEF TypeOK, poolvars
<1> QED
  BY ONLY TypeOK, t \in Thread, ci[t] \in Class, reinit \in BOOLEAN, <1>1, <1>2, <1>3, <1>4, <1>5,
     InstallKeepsType

LEMMA CarveKeepsType ==
  ASSUME TypeOK, NEW t \in Thread, NEW n \in Nat, ci[t] \in Class, Carve(t, n)
  PROVE  TypeOK'
<1>1. PICK s \in Span \ carved :
        carved' = carved \cup {s} /\ Install(t, s, SpanInit(span[s], ci[t]), TRUE)
  BY DEF Carve
<1>2. SpanInit(span[s], ci[t]) \in SpanRec
  BY SpanInitType DEF TypeOK
<1> QED
  BY <1>1, <1>2, InstallKeepsType DEF Carve, TypeOK, Links, memory

LEMMA FreeBlkType ==
  ASSUME TypeOK, NEW s \in Span, NEW i \in Idx, NEW h \in ListHead,
         FreeBlk(s, i, h)
  PROVE  /\ span' \in [Span -> SpanRec]
         /\ links' \in Links
         /\ home' \in [Span -> ListHead \cup {NULL}]
         /\ tainted' \in BOOLEAN
         /\ live' \subseteq Block
<1>1. span' \in [Span -> SpanRec]
  BY PutBlkType DEF FreeBlk, TypeOK
<1>2. ListAddTail(ListDel(links, s), s, h) \in Links
  BY ListDelType, ListAddTailType, Nodes DEF TypeOK, Links, Node
<1> QED
  BY <1>1, <1>2 DEF FreeBlk, TypeOK, Links, memory, Taints

\* Two assignments to one field of a header.
LEMMA HeaderType ==
  ASSUME NEW r \in SpanRec
  PROVE  [r EXCEPT !.owner = POOL] \in SpanRec /\ [r EXCEPT !.state = "SUSPEND"] \in SpanRec
BY DEF SpanRec

(***************************************************************************)
(* Every step keeps the types: one case per action.                        *)
(***************************************************************************)
LEMMA TypeStep ==
  ASSUME TypeOK, CallOK, [Next]_vars
  PROVE  TypeOK'
<1>0. TypeOK /\ links \in Links
  BY DEF TypeOK, Links
<1>1. CASE UNCHANGED vars
  BY <1>0, <1>1 DEF vars, memory, poolvars, TypeOK
<1>2. CASE Stopped
  BY <1>1, <1>2 DEF Stopped
<1>3. ASSUME NEW t \in Thread, Step(t)
      PROVE  TypeOK'
  <2> USE <1>0, Nodes DEF Thr
  <2>1. CASE ScanNext(t)
    BY <2>1 DEF ScanNext, At, Goto, TypeOK, memory, poolvars
  <2>2. CASE ScanTake(t)
    <3>1. links' \in Links /\ home' \in [Span -> ListHead \cup {NULL}] /\ tainted' \in BOOLEAN
      BY <2>2, ListDelType DEF ScanTake, TakeOff, Taints, TypeOK, Links
    <3>2. /\ cur' \in [Thread -> Node \cup {NULL}] /\ DOMAIN pc' = Thread
          /\ \A u \in Thread : pc'[u] = pc[u] \/ pc'[u] = "refill"
          /\ pc' = [u \in Thread |-> pc'[u]]
      BY <2>2 DEF ScanTake, Goto, TypeOK
    <3>3. UNCHANGED <<proc, thr, ci, arg, using, span, plock, carved, room, live>>
      BY <2>2 DEF ScanTake, poolvars
    <3> QED
      BY ONLY TypeOK, <3>1, <3>2, <3>3 DEF TypeOK, Links
  <2>3. CASE RefillLocal(t)
    BY <2>3, TakeFirstKeepsType DEF RefillLocal, At, CallOK
  <2>4. CASE RefillNone(t)
    BY <2>4 DEF RefillNone, At, Goto, TypeOK, memory, poolvars
  <2>5. CASE AcquireSuspend(t)
    BY <2>5, TakeFirstKeepsType DEF AcquireSuspend, Acquiring, At, CallOK
  <2>6. CASE AcquireFree(t)
    BY <2>6, TakeFirstKeepsType DEF AcquireFree, Acquiring, At, CallOK
  <2>7. CASE AcquireCarve(t)
    <3>1. room - 1 \in Nat
      BY <2>7 DEF AcquireCarve, TypeOK
    <3> QED
      BY <2>7, <3>1, CarveKeepsType DEF AcquireCarve, Acquiring, At, CallOK
  <2>8. CASE AcquireGrow(t)
    <3>1. PICK n \in {Unit, Unit + 1} : Carve(t, n - 1)
      BY <2>8 DEF AcquireGrow
    <3>2. n - 1 \in Nat
      BY ConstantsAssumption
    <3> QED
      BY <2>8, <3>1, <3>2, CarveKeepsType DEF AcquireGrow, Acquiring, At, CallOK
  <2>9. CASE AcquireFatal(t)
    BY <2>9 DEF AcquireFatal, TypeOK, Outcome, memory, poolvars
  <2>10. CASE FreePool(t)
    <3>1. PICK s \in Span, i \in Idx : arg[t] = <<s, i>>
      BY <2>10 DEF FreePool, At, CallOK, Block
    <3>2. FreeBlk(s, i, FreeList(POOL))
      BY <2>10, <3>1 DEF FreePool
    <3> QED
      BY <2>10, <3>2, FreeBlkType DEF FreePool, Return, Goto, TypeOK, Links
  <2>11. CASE ExitLink(t)
    <3>1. ci[t] \in Class /\ ci[t] + 1 \in 0..NClass /\ using[t][ci[t]] \in Span \cup {NULL}
      BY <2>11 DEF ExitLink, TypeOK
    <3>2. ListAddTail(links, using[t][ci[t]], <<t, ci[t]>>) \in Links
            \/ using[t][ci[t]] = NULL
      BY <3>1, ListAddTailType
    <3>3. links' \in Links /\ home' \in [Span -> ListHead \cup {NULL}]
      BY <2>11, <3>1, <3>2 DEF ExitLink, TypeOK
    <3> QED
      BY <2>11, <3>1, <3>3 DEF ExitLink, At, TypeOK, Links, poolvars
  <2>12. CASE ExitLock(t)
    BY <2>12 DEF ExitLock, At, Goto, TypeOK, memory, poolvars
  <2>13. CASE ExitWalk(t)
    <3>1. span' = [span EXCEPT ![cur[t]] = [@ EXCEPT !.owner = POOL]]
      BY <2>13 DEF ExitWalk
    <3>2. span' \in [Span -> SpanRec]
      BY <3>1, HeaderType DEF TypeOK
    <3> QED
      BY <2>13, <3>2 DEF ExitWalk, At, TypeOK, memory, poolvars
  <2>14. CASE ExitSplice(t)
    <3>1. ci[t] \in Class /\ ci[t] + 1 \in 0..NClass
      BY <2>14 DEF ExitSplice, TypeOK
    <3>2. links' \in Links
      BY <2>14, <3>1, ListSpliceTailType DEF ExitSplice
    <3>3. home' \in [Span -> ListHead \cup {NULL}]
      BY <2>14, <3>1 DEF ExitSplice, Rehome, TypeOK
    <3>4. links'.nxt[<<t, ci[t] + 1>>] \in Node \cup {NULL}
      BY <3>1, <3>2 DEF Links
    <3> QED
      BY <2>14, <3>1, <3>2, <3>3, <3>4 DEF ExitSplice, At, TypeOK, Links, poolvars
  <2>15. CASE ExitDone(t)
    BY <2>15, ListSpliceTailType
    DEF ExitDone, Rehome, Return, Goto, At, TypeOK, Links
  <2>16. CASE Wild(t)
    BY <2>16 DEF Wild, TypeOK, Outcome, memory, poolvars
  <2> QED
    BY <1>3, <2>1, <2>2, <2>3, <2>4, <2>5, <2>6, <2>7, <2>8, <2>9, <2>10, <2>11,
       <2>12, <2>13, <2>14, <2>15, <2>16 DEF Step
<1>4. ASSUME NEW t \in Thread, Call(t)
      PROVE  TypeOK'
  <2> USE <1>0, Nodes DEF Thr
  <2>1. CASE MallocOther(t)
    BY <2>1, InitHeadsType DEF MallocOther, CheckInit, TypeOK, Links, poolvars
  <2>2. ASSUME NEW c \in Class, MallocFirst(t, c) PROVE TypeOK'
    <3>1. links' \in Links /\ using' \in [Thread -> [Class -> Span \cup {NULL}]]
          /\ thr' \in [Thread -> {"new", "ready", "exited"}]
      BY <2>2, InitHeadsType DEF MallocFirst, CheckInit, TypeOK, Links
    <3>2. links'.nxt[<<t, c>>] \in Node \cup {NULL} /\ c \in 0..NClass
      BY <3>1 DEF Links
    <3> QED
      BY <2>2, <3>1, <3>2 DEF MallocFirst, BeginScan, Goto, TypeOK, Links, poolvars
  <2>3. ASSUME NEW c \in Class, MallocFast(t, c) PROVE TypeOK'
    <3>1. using[t][c] # NULL
      BY <2>3 DEF MallocFast
    <3>2. using[t][c] \in Span /\ span[using[t][c]] \in SpanRec
      <4>1. using[t] \in [Class -> Span \cup {NULL}]
        BY DEF TypeOK
      <4>2. using[t][c] \in Span
        BY <3>1, <4>1
      <4> QED
        BY <4>2 DEF TypeOK
    <3>3. GetBlk(t, using[t][c], span[using[t][c]], FALSE)
      BY <2>3 DEF MallocFast
    <3> QED
      BY <2>3, <3>2, <3>3, GetBlkType DEF MallocFast, TypeOK, memory, poolvars
  <2>4. ASSUME NEW c \in Class, MallocExhausted(t, c) PROVE TypeOK'
    <3> DEFINE s == using[t][c]
    <3>1. s \in Span
      BY <2>4 DEF MallocExhausted, TypeOK
    <3>2. span' = [span EXCEPT ![s] = [@ EXCEPT !.state = "SUSPEND"]]
      BY <2>4 DEF MallocExhausted
    <3>3. span' \in [Span -> SpanRec]
      BY <3>1, <3>2, HeaderType DEF TypeOK
    <3>4. links' \in Links
      BY <2>4, <3>1, ListAddTailType DEF MallocExhausted
    <3>5. home' \in [Span -> ListHead \cup {NULL}]
      BY <2>4, <3>1 DEF MallocExhausted, TypeOK
    <3> QED
      BY <2>4, <3>3, <3>4, <3>5 DEF MallocExhausted, BeginScan, Goto, TypeOK, Links, poolvars
  <2>5. CASE FreeCached(t)
    <3>1. PICK s \in Span, i \in Idx : FreeBlk(s, i, FreeList(t))
      BY <2>5 DEF FreeCached, Held, TypeOK, Block
    <3> QED
      BY <2>5, <3>1, FreeBlkType DEF FreeCached, TypeOK, Links, poolvars
  <2>6. CASE FreeFault(t)
    BY <2>6 DEF FreeFault, TypeOK, Outcome, memory, poolvars
  <2>7. CASE FreePoolCall(t)
    BY <2>7 DEF FreePoolCall, Held, Goto, TypeOK, memory, poolvars
  <2>8. CASE Exit(t)
    BY <2>8 DEF Exit, Goto, TypeOK, memory, poolvars
  <2>9. CASE ThreadStart(t)
    BY <2>9 DEF ThreadStart, TypeOK, poolvars
  <2> QED
    BY <1>4, <2>1, <2>2, <2>3, <2>4, <2>5, <2>6, <2>7, <2>8, <2>9 DEF Call
<1> QED
  BY <1>1, <1>2, <1>3, <1>4 DEF Next

\* No step loses the class or the block of a call.
LEMMA CallStep ==
  ASSUME TypeOK, CallOK, [Next]_vars
  PROVE  CallOK'
<1> USE DEF CallOK
<1>1. CASE UNCHANGED vars
  BY <1>1 DEF vars
<1>2. CASE Stopped
  BY <1>1, <1>2 DEF Stopped
<1>3. ASSUME NEW t \in Thread, Step(t) \/ Call(t)
      PROVE  CallOK'
  <2>1. ASSUME Return(t) PROVE CallOK'
    BY <2>1 DEF Return, Goto, TypeOK
  <2>2. ASSUME pc' = [pc EXCEPT ![t] = "scan"], UNCHANGED arg,
               NEW c \in Class, ci' = [ci EXCEPT ![t] = c]
        PROVE  CallOK'
    BY <2>2 DEF TypeOK
  <2>3. ASSUME UNCHANGED <<ci, arg>>,
               \/ UNCHANGED pc
               \/ /\ pc[t] \in {"scan", "refill"}
                  /\ pc' = [pc EXCEPT ![t] = "refill"] \/ pc' = [pc EXCEPT ![t] = "acquire"]
        PROVE  CallOK'
    BY <2>3 DEF TypeOK
  <2>4. ASSUME UNCHANGED arg, NEW i, ci' = [ci EXCEPT ![t] = i],
               \/ UNCHANGED pc /\ pc[t] \in {"xlink", "xwalk"}
               \/ pc' = [pc EXCEPT ![t] = "xlink"]
               \/ pc' = [pc EXCEPT ![t] = "xwalk"]
        PROVE  CallOK'
    BY <2>4 DEF TypeOK
  <2>5. ASSUME NEW b \in Block, arg' = [arg EXCEPT ![t] = b],
               pc' = [pc EXCEPT ![t] = "pfree"], UNCHANGED ci
        PROVE  CallOK'
    BY <2>5 DEF TypeOK
  <2>6. CASE \/ RefillLocal(t) \/ AcquireSuspend(t) \/ AcquireFree(t) \/ AcquireCarve(t)
             \/ AcquireGrow(t) \/ FreePool(t) \/ ExitDone(t)
             \/ \E c \in Class : MallocFast(t, c)
    <3>1. Return(t)
      BY <2>6 DEF RefillLocal, AcquireSuspend, AcquireFree, AcquireCarve, AcquireGrow,
         FreePool, ExitDone, MallocFast, TakeFirst, Carve, Install, GetBlk
    <3> QED
      BY <2>1, <3>1
  <2>7. CASE \E c \in Class : MallocFirst(t, c) \/ MallocExhausted(t, c)
    BY <2>2, <2>7 DEF MallocFirst, MallocExhausted, BeginScan, Goto
  <2>8. CASE \/ ScanNext(t) \/ ScanTake(t) \/ RefillNone(t) \/ AcquireFatal(t)
             \/ ExitWalk(t) \/ Wild(t) \/ MallocOther(t) \/ FreeCached(t) \/ FreeFault(t)
             \/ ThreadStart(t)
    BY <2>3, <2>8 DEF ScanNext, ScanTake, RefillNone, AcquireFatal, ExitWalk, Wild,
       MallocOther, FreeCached, FreeFault, ThreadStart, At, Goto
  <2>9. CASE ExitLink(t) \/ ExitLock(t) \/ ExitSplice(t) \/ Exit(t)
    BY <2>4, <2>9 DEF ExitLink, ExitLock, ExitSplice, Exit, At, Goto
  <2>10. CASE FreePoolCall(t)
    BY <2>5, <2>10 DEF FreePoolCall, Held, Goto, TypeOK
  <2> QED
    BY <1>3, <2>6, <2>7, <2>8, <2>9, <2>10 DEF Step, Call
<1> QED
  BY <1>1, <1>2, <1>3 DEF Next

LEMMA TypeInit == Init => TypeOK /\ CallOK
<1> SUFFICES ASSUME Init PROVE TypeOK /\ CallOK
  OBVIOUS
<1>1. [nxt |-> [n \in Node |-> NULL], prv |-> [n \in Node |-> NULL]] \in Links
  BY DEF Links
<1>2. links \in Links
  BY <1>1, InitHeadsType DEF Init
<1>3. Unit - 1 \in Nat /\ Unit \in Nat /\ 0 \in Idx
  BY ConstantsAssumption DEF Idx
<1>4. span \in [Span -> SpanRec]
  BY <1>3, Nodes DEF Init, SpanRec
<1> QED
  BY <1>2, <1>3, <1>4, Nodes DEF Init, TypeOK, CallOK, Links, Outcome

(***************************************************************************)
(* Every variable always has its type: in particular each pointer that an  *)
(* action follows leads to a node or is null, and free_cnt stays a 32-bit  *)
(* count.                                                                  *)
(***************************************************************************)
THEOREM TypeSafe == Spec => []TypeOK
<1>1. TypeOK /\ CallOK /\ [Next]_vars => TypeOK' /\ CallOK'
  BY TypeStep, CallStep
<1> QED
  BY <1>1, TypeInit, PTL DEF Spec

-----------------------------------------------------------------------------
(* What the operators of list.h do to the lists of the allocator: each of  *)
(* them leaves circular lists behind.                                      *)

\* Heads are no spans, and null is neither.
LEMMA HeadsApart ==
  /\ Span \cap ListHead = {} /\ NULL \notin Span /\ NULL \notin ListHead
  /\ Span \subseteq Node /\ ListHead \subseteq Node
BY ConstantsAssumption DEF Node

Homes == [Span -> ListHead \cup {NULL}]

\* list_add_tail on a span that is on no list.
LEMMA AddTailNeighbours ==
  ASSUME NEW l \in Links, NEW A \in SUBSET ListHead, NEW hm \in Homes,
         NEW s \in Span, NEW h \in A, hm[s] = NULL,
         Neighbours(l, A, hm)
  PROVE  Neighbours(ListAddTail(l, s, h), A, [hm EXCEPT ![s] = h])
<1> DEFINE m == ListAddTail(l, s, h)
           g == [hm EXCEPT ![s] = h]
           p == l.prv[h]
<1>1. h \in On(A, hm) /\ s \notin On(A, hm) /\ h \notin Span
  BY HeadsApart DEF On, Linked, Homes
<1>2. p \in On(A, hm) /\ Of(hm, p) = h /\ l.nxt[p] = h
  BY <1>1 DEF Neighbours, Of
<1>3. \A n \in Node : /\ m.nxt[n] = IF n = p THEN s ELSE IF n = s THEN h ELSE l.nxt[n]
                      /\ m.prv[n] = IF n = s THEN p ELSE IF n = h THEN s ELSE l.prv[n]
  BY <1>1, <1>2, HeadsApart DEF ListAddTail, Insert, Links, On, Linked
<1>4. On(A, g) = On(A, hm) \cup {s} /\ On(A, g) \subseteq Node
  BY HeadsApart DEF On, Linked, Homes
<1>5. Of(g, s) = h /\ Of(g, h) = h /\ \A n \in On(A, hm) : Of(g, n) = Of(hm, n)
  BY <1>1 DEF Of, Homes
<1>6. \A n \in On(A, hm) : n # p => l.nxt[n] # h
  BY <1>1, <1>2 DEF Neighbours
<1>7. \A n \in On(A, hm) : n # h => l.prv[n] # p
  BY <1>1, <1>2 DEF Neighbours
<1> HIDE DEF m, g, p
<1> SUFFICES ASSUME NEW n \in On(A, g)
             PROVE  /\ m.nxt[n] \in On(A, g) /\ Of(g, m.nxt[n]) = Of(g, n) /\ m.prv[m.nxt[n]] = n
                    /\ m.prv[n] \in On(A, g) /\ Of(g, m.prv[n]) = Of(g, n) /\ m.nxt[m.prv[n]] = n
  BY DEF Neighbours, m, g
<1>8. CASE n = s
  BY <1>1, <1>2, <1>3, <1>4, <1>5, <1>8, HeadsApart
<1>9. CASE n # s
  <2>1. n \in On(A, hm) /\ n \in Node
    BY <1>4, <1>9
  <2>2. /\ l.nxt[n] \in On(A, hm) /\ Of(hm, l.nxt[n]) = Of(hm, n) /\ l.prv[l.nxt[n]] = n
        /\ l.prv[n] \in On(A, hm) /\ Of(hm, l.prv[n]) = Of(hm, n) /\ l.nxt[l.prv[n]] = n
    BY <2>1 DEF Neighbours
  <2> QED
    BY <1>1, <1>2, <1>3, <1>4, <1>5, <1>6, <1>7, <1>9, <2>1, <2>2
<1> QED
  BY <1>8, <1>9

LEMMA AddTailNoRing ==
  ASSUME NEW l \in Links, NEW A \in SUBSET ListHead, NEW hm \in Homes,
         NEW s \in Span, NEW h \in A, hm[s] = NULL,
         Neighbours(l, A, hm), NoRing(l.nxt, A, hm), NoRing(l.prv, A, hm)
  PROVE  LET m == ListAddTail(l, s, h)
             g == [hm EXCEPT ![s] = h]
         IN NoRing(m.nxt, A, g) /\ NoRing(m.prv, A, g)
<1> DEFINE m == ListAddTail(l, s, h)
           g == [hm EXCEPT ![s] = h]
           p == l.prv[h]
<1>1. h \in On(A, hm) /\ s \notin On(A, hm) /\ h \notin Span
  BY HeadsApart DEF On, Linked, Homes
<1>2. p \in On(A, hm)
  BY <1>1 DEF Neighbours, Of
<1>3. \A n \in Node : /\ m.nxt[n] = IF n = p THEN s ELSE IF n = s THEN h ELSE l.nxt[n]
                      /\ m.prv[n] = IF n = s THEN p ELSE IF n = h THEN s ELSE l.prv[n]
  BY <1>1, <1>2, HeadsApart DEF ListAddTail, Insert, Links, On, Linked
<1>4. Linked(A, g) = Linked(A, hm) \cup {s} /\ Linked(A, hm) \subseteq Span
      /\ Linked(A, hm) \subseteq On(A, hm)
  BY HeadsApart DEF On, Linked, Homes
<1> HIDE DEF m, g, p
<1>5. ASSUME NEW R \in SUBSET Linked(A, g), R # {}
      PROVE  \E n \in R : m.nxt[n] \notin R
  <2>1. CASE s \in R
    BY <1>1, <1>2, <1>3, <1>4, <1>5, <2>1, HeadsApart
  <2>2. CASE s \notin R
    <3>1. R \in SUBSET Linked(A, hm)
      BY <1>4, <2>2
    <3>2. PICK n \in R : l.nxt[n] \notin R
      BY <1>5, <3>1 DEF NoRing
    <3>3. m.nxt[n] \notin R
      BY <1>1, <1>3, <1>4, <3>1, <3>2, <2>2, HeadsApart
    <3> QED
      BY <3>3
  <2> QED
    BY <2>1, <2>2
<1>6. ASSUME NEW R \in SUBSET Linked(A, g), R # {}
      PROVE  \E n \in R : m.prv[n] \notin R
  <2> DEFINE Q == R \ {s}
  <2>1. Q \in SUBSET Linked(A, hm)
    BY <1>4
  <2>2. CASE Q = {}
    BY <1>1, <1>2, <1>3, <1>6, <2>2, HeadsApart
  <2>3. CASE Q # {}
    <3>1. PICK n \in Q : l.prv[n] \notin Q
      BY <2>1, <2>3 DEF NoRing
    <3>2. n \in On(A, hm) /\ n # s /\ n # h /\ n \in Node
      BY <1>1, <1>4, <2>1, HeadsApart
    <3>3. l.prv[n] \in On(A, hm)
      BY <3>2 DEF Neighbours
    <3>4. m.prv[n] = l.prv[n] /\ l.prv[n] # s
      BY <1>1, <1>3, <3>2, <3>3
    <3> QED
      BY <3>1, <3>4
  <2> QED
    BY <2>2, <2>3
<1> QED
  BY <1>5, <1>6 DEF NoRing, m, g

\* list_del of a span that is on a list.
LEMMA DelNeighbours ==
  ASSUME NEW l \in Links, NEW A \in SUBSET ListHead, NEW hm \in Homes,
         NEW s \in Span, hm[s] \in A, Neighbours(l, A, hm)
  PROVE  Neighbours(ListDel(l, s), A, [hm EXCEPT ![s] = NULL])
<1> DEFINE m == ListDel(l, s)
           g == [hm EXCEPT ![s] = NULL]
           p == l.prv[s]
           x == l.nxt[s]
<1>1. s \in On(A, hm)
  BY DEF On, Linked
<1>2. /\ p \in On(A, hm) /\ Of(hm, p) = Of(hm, s) /\ l.nxt[p] = s
      /\ x \in On(A, hm) /\ Of(hm, x) = Of(hm, s) /\ l.prv[x] = s
  BY <1>1 DEF Neighbours
<1>3. \A n \in Node : /\ m.nxt[n] = IF n = p THEN x ELSE l.nxt[n]
                      /\ m.prv[n] = IF n = x THEN p ELSE l.prv[n]
  BY <1>1, <1>2, HeadsApart DEF ListDel, Join, Links, On, Linked
<1>4. On(A, g) = On(A, hm) \ {s} /\ On(A, g) \subseteq Node
  BY HeadsApart DEF On, Linked, Homes
<1>5. \A n \in On(A, g) : Of(g, n) = Of(hm, n)
  BY <1>1, <1>4 DEF Of, Homes
<1>6. hm[s] \in On(A, hm) /\ hm[s] # s /\ Of(hm, hm[s]) = hm[s] /\ Of(hm, s) = hm[s]
  BY HeadsApart DEF On, Of
<1> HIDE DEF m, g, p, x
<1>7. ASSUME p = s \/ x = s
      PROVE  x = s /\ p = s
  BY <1>1, <1>2, <1>7 DEF p, x
<1> SUFFICES ASSUME NEW n \in On(A, g)
             PROVE  /\ m.nxt[n] \in On(A, g) /\ Of(g, m.nxt[n]) = Of(g, n) /\ m.prv[m.nxt[n]] = n
                    /\ m.prv[n] \in On(A, g) /\ Of(g, m.prv[n]) = Of(g, n) /\ m.nxt[m.prv[n]] = n
  BY DEF Neighbours, m, g
<1>8. n \in On(A, hm) /\ n \in Node /\ n # s
  BY <1>4
<1>9. /\ l.nxt[n] \in On(A, hm) /\ Of(hm, l.nxt[n]) = Of(hm, n) /\ l.prv[l.nxt[n]] = n
      /\ l.prv[n] \in On(A, hm) /\ Of(hm, l.prv[n]) = Of(hm, n) /\ l.nxt[l.prv[n]] = n
  BY <1>8 DEF Neighbours
<1>10. l.nxt[n] = s => n = p
  BY <1>9 DEF p
<1>11. l.prv[n] = s => n = x
  BY <1>9 DEF x
<1>12. On(A, hm) \subseteq Node
  BY HeadsApart DEF On, Linked
<1>13. /\ m.nxt[n] \in On(A, g) /\ Of(g, m.nxt[n]) = Of(g, n) /\ m.prv[m.nxt[n]] = n
  BY <1>2, <1>3, <1>4, <1>5, <1>7, <1>8, <1>9, <1>10, <1>12
<1>14. /\ m.prv[n] \in On(A, g) /\ Of(g, m.prv[n]) = Of(g, n) /\ m.nxt[m.prv[n]] = n
  BY <1>2, <1>3, <1>4, <1>5, <1>7, <1>8, <1>9, <1>11, <1>12
<1> QED
  BY <1>13, <1>14

LEMMA DelNoRing ==
  ASSUME NEW l \in Links, NEW A \in SUBSET ListHead, NEW hm \in Homes,
         NEW s \in Span, hm[s] \in A,
         Neighbours(l, A, hm), NoRing(l.nxt, A, hm), NoRing(l.prv, A, hm)
  PROVE  LET m == ListDel(l, s)
             g == [hm EXCEPT ![s] = NULL]
         IN NoRing(m.nxt, A, g) /\ NoRing(m.prv, A, g)
<1> DEFINE m == ListDel(l, s)
           g == [hm EXCEPT ![s] = NULL]
           p == l.prv[s]
           x == l.nxt[s]
<1>1. s \in On(A, hm) /\ s \in Linked(A, hm)
  BY DEF On, Linked
<1>2. p \in On(A, hm) /\ l.nxt[p] = s /\ x \in On(A, hm) /\ l.prv[x] = s
  BY <1>1 DEF Neighbours
<1>3. \A n \in Node : /\ m.nxt[n] = IF n = p THEN x ELSE l.nxt[n]
                      /\ m.prv[n] = IF n = x THEN p ELSE l.prv[n]
  BY <1>1, <1>2, HeadsApart DEF ListDel, Join, Links, On, Linked
<1>4. Linked(A, g) = Linked(A, hm) \ {s} /\ Linked(A, hm) \subseteq Node
      /\ Linked(A, hm) \subseteq On(A, hm)
  BY HeadsApart DEF On, Linked, Homes
<1>5. \A n \in On(A, hm) : (l.nxt[n] = s => n = p) /\ (l.prv[n] = s => n = x)
  BY DEF Neighbours
<1> HIDE DEF m, g, p, x
<1>6. ASSUME NEW R \in SUBSET Linked(A, g), R # {}
      PROVE  \E n \in R : m.nxt[n] \notin R
  <2>1. CASE p \in R
    <3>1. PICK n \in R \cup {s} : l.nxt[n] \notin R \cup {s}
      BY <1>1, <1>4, <1>6 DEF NoRing
    <3>2. CASE n = s
      BY <1>3, <1>4, <2>1, <3>1, <3>2 DEF x
    <3>3. CASE n # s
      <4>1. n # p /\ n \in R /\ n \in Node
        BY <1>2, <1>4, <3>1, <3>3
      <4> QED
        BY <1>3, <3>1, <4>1
    <3> QED
      BY <3>2, <3>3
  <2>2. CASE p \notin R
    <3>1. PICK n \in R : l.nxt[n] \notin R
      BY <1>4, <1>6 DEF NoRing
    <3> QED
      BY <1>3, <1>4, <2>2, <3>1
  <2> QED
    BY <2>1, <2>2
<1>7. ASSUME NEW R \in SUBSET Linked(A, g), R # {}
      PROVE  \E n \in R : m.prv[n] \notin R
  <2>1. CASE x \in R
    <3>1. PICK n \in R \cup {s} : l.prv[n] \notin R \cup {s}
      BY <1>1, <1>4, <1>7 DEF NoRing
    <3>2. CASE n = s
      BY <1>3, <1>4, <2>1, <3>1, <3>2 DEF p
    <3>3. CASE n # s
      <4>1. n # x /\ n \in R /\ n \in Node
        BY <1>2, <1>4, <3>1, <3>3
      <4> QED
        BY <1>3, <3>1, <4>1
    <3> QED
      BY <3>2, <3>3
  <2>2. CASE x \notin R
    <3>1. PICK n \in R : l.prv[n] \notin R
      BY <1>4, <1>7 DEF NoRing
    <3> QED
      BY <1>3, <1>4, <2>2, <3>1
  <2> QED
    BY <2>1, <2>2
<1> QED
  BY <1>6, <1>7 DEF NoRing, m, g

\* list_splice_tail of the list a to the list of b.
Moved(hm, a, b) == [s \in Span |-> IF hm[s] = a THEN b ELSE hm[s]]

LEMMA SpliceNeighbours ==
  ASSUME NEW l \in Links, NEW A \in SUBSET ListHead, NEW hm \in Homes,
         NEW a \in A, NEW b \in A, a # b, Neighbours(l, A, hm)
  PROVE  Neighbours(ListSpliceTail(l, a, b), A \ {a}, Moved(hm, a, b))
<1> DEFINE m == ListSpliceTail(l, a, b)
           g == Moved(hm, a, b)
           B == A \ {a}
           first == l.nxt[a]
           last == l.prv[a]
           p == l.prv[b]
<1>1. a \in On(A, hm) /\ b \in On(A, hm) /\ a \notin Span /\ b \notin Span
      /\ On(A, hm) \subseteq Node
  BY HeadsApart DEF On, Linked, Homes
<1>2. /\ first \in On(A, hm) /\ Of(hm, first) = a /\ l.prv[first] = a
      /\ last \in On(A, hm) /\ Of(hm, last) = a /\ l.nxt[last] = a
      /\ p \in On(A, hm) /\ Of(hm, p) = b /\ l.nxt[p] = b
  BY <1>1 DEF Neighbours, Of
<1>3. /\ On(B, g) = On(A, hm) \ {a}
      /\ \A n \in On(B, g) : Of(g, n) = IF Of(hm, n) = a THEN b ELSE Of(hm, n)
  BY <1>1, HeadsApart DEF On, Linked, Of, Homes, Moved
<1>4. \A n \in On(A, hm) :
        /\ l.nxt[n] \in On(A, hm) /\ Of(hm, l.nxt[n]) = Of(hm, n) /\ l.prv[l.nxt[n]] = n
        /\ l.prv[n] \in On(A, hm) /\ Of(hm, l.prv[n]) = Of(hm, n) /\ l.nxt[l.prv[n]] = n
  BY DEF Neighbours
<1>5. Of(hm, a) = a /\ Of(hm, b) = b
  BY <1>1 DEF Of
<1> SUFFICES ASSUME NEW n \in On(B, g)
             PROVE  /\ m.nxt[n] \in On(B, g) /\ Of(g, m.nxt[n]) = Of(g, n) /\ m.prv[m.nxt[n]] = n
                    /\ m.prv[n] \in On(B, g) /\ Of(g, m.prv[n]) = Of(g, n) /\ m.nxt[m.prv[n]] = n
  BY DEF Neighbours
<1>6. n \in On(A, hm) /\ n # a /\ n \in Node
  BY <1>1, <1>3
<1>7. CASE IsEmpty(l, a)
  <2>1. m = l
    BY <1>7 DEF ListSpliceTail
  <2>2. first = a /\ last = a
    BY <1>7 DEF IsEmpty
  <2> HIDE DEF m, g, B, first, last, p
  <2>3. \A k \in On(A, hm) : k # a => l.nxt[k] # a /\ l.prv[k] # a
    BY <1>4, <2>2 DEF first, last
  <2> QED
    BY <1>3, <1>4, <1>6, <2>1, <2>3
<1>8. CASE ~IsEmpty(l, a)
  <2>1. first # a /\ last # a
    BY <1>1, <1>4, <1>8 DEF IsEmpty
  <2>2. /\ m.nxt = [l.nxt EXCEPT ![p] = first, ![last] = b]
        /\ m.prv = [l.prv EXCEPT ![first] = p, ![b] = last]
    BY <1>8 DEF ListSpliceTail, Splice
  <2>3. p # last /\ first # b
    BY <1>2, <1>5
  <2>4. \A k \in Node :
          /\ m.nxt[k] = IF k = p THEN first ELSE IF k = last THEN b ELSE l.nxt[k]
          /\ m.prv[k] = IF k = first THEN p ELSE IF k = b THEN last ELSE l.prv[k]
    BY <1>1, <1>2, <2>2, <2>3 DEF Links
  <2>5. \A k \in On(A, hm) : /\ l.nxt[k] = a => k = last
                             /\ l.prv[k] = a => k = first
                             /\ l.nxt[k] = b => k = p
                             /\ l.prv[k] = p => k = b
                             /\ l.nxt[k] = first => k = a
                             /\ l.prv[k] = last => k = a
    BY <1>2, <1>4
  <2> HIDE DEF m, g, B, first, last, p
  <2>6. m.nxt[n] \in On(B, g) /\ Of(g, m.nxt[n]) = Of(g, n) /\ m.prv[m.nxt[n]] = n
    <3>1. CASE n = p
      BY <1>1, <1>2, <1>3, <1>5, <1>6, <2>1, <2>3, <2>4, <3>1
    <3>2. CASE n = last
      BY <1>1, <1>2, <1>3, <1>5, <1>6, <2>1, <2>3, <2>4, <3>2
    <3>3. CASE n # p /\ n # last
      <4>1. m.nxt[n] = l.nxt[n] /\ l.nxt[n] # a /\ l.nxt[n] # b /\ l.nxt[n] # first
        BY <1>6, <2>4, <2>5, <3>3
      <4> QED
        BY <1>1, <1>3, <1>4, <1>6, <2>4, <4>1
    <3> QED
      BY <3>1, <3>2, <3>3
  <2>7. m.prv[n] \in On(B, g) /\ Of(g, m.prv[n]) = Of(g, n) /\ m.nxt[m.prv[n]] = n
    <3>1. CASE n = first
      BY <1>1, <1>2, <1>3, <1>5, <1>6, <2>1, <2>3, <2>4, <3>1
    <3>2. CASE n = b
      BY <1>1, <1>2, <1>3, <1>5, <1>6, <2>1, <2>3, <2>4, <3>2
    <3>3. CASE n # first /\ n # b
      <4>1. m.prv[n] = l.prv[n] /\ l.prv[n] # a /\ l.prv[n] # p /\ l.prv[n] # last
        BY <1>6, <2>4, <2>5, <3>3
      <4> QED
        BY <1>1, <1>3, <1>4, <1>6, <2>4, <4>1
    <3> QED
      BY <3>1, <3>2, <3>3
  <2> QED
    BY <2>6, <2>7
<1> QED
  BY <1>7, <1>8

LEMMA SpliceNoRing ==
  ASSUME NEW l \in Links, NEW A \in SUBSET ListHead, NEW hm \in Homes,
         NEW a \in A, NEW b \in A, a # b,
         Neighbours(l, A, hm), NoRing(l.nxt, A, hm), NoRing(l.prv, A, hm)
  PROVE  LET m == ListSpliceTail(l, a, b)
             g == Moved(hm, a, b)
         IN NoRing(m.nxt, A \ {a}, g) /\ NoRing(m.prv, A \ {a}, g)
<1> DEFINE m == ListSpliceTail(l, a, b)
           g == Moved(hm, a, b)
           B == A \ {a}
           first == l.nxt[a]
           last == l.prv[a]
           p == l.prv[b]
           Q == {s \in Span : hm[s] = a}
<1>1. a \in On(A, hm) /\ b \in On(A, hm) /\ a \notin Span /\ b \notin Span
      /\ On(A, hm) \subseteq Node
  BY HeadsApart DEF On, Linked, Homes
<1>2. Linked(B, g) = Linked(A, hm) /\ Linked(A, hm) \subseteq On(A, hm) /\ Q \subseteq Linked(A, hm)
      /\ Linked(A, hm) \subseteq Span
  BY HeadsApart DEF On, Linked, Homes, Moved
<1>3. \A n \in On(A, hm) :
        /\ l.nxt[n] \in On(A, hm) /\ Of(hm, l.nxt[n]) = Of(hm, n) /\ l.prv[l.nxt[n]] = n
        /\ l.prv[n] \in On(A, hm) /\ Of(hm, l.prv[n]) = Of(hm, n) /\ l.nxt[l.prv[n]] = n
  BY DEF Neighbours
<1>4. Of(hm, a) = a /\ Of(hm, b) = b /\ \A n \in Span : n \in Q <=> Of(hm, n) = a
  BY <1>1 DEF Of
<1>5. CASE IsEmpty(l, a)
  BY <1>2, <1>5 DEF ListSpliceTail, NoRing
<1>6. CASE ~IsEmpty(l, a)
  <2>1. /\ m.nxt = [l.nxt EXCEPT ![p] = first, ![last] = b]
        /\ m.prv = [l.prv EXCEPT ![first] = p, ![b] = last]
    BY <1>6 DEF ListSpliceTail, Splice
  <2>2. p # last /\ first # b
    BY <1>1, <1>3, <1>4
  <2>3. \A k \in Node :
          /\ m.nxt[k] = IF k = p THEN first ELSE IF k = last THEN b ELSE l.nxt[k]
          /\ m.prv[k] = IF k = first THEN p ELSE IF k = b THEN last ELSE l.prv[k]
    BY <1>1, <1>3, <2>1, <2>2 DEF Links
  <2>4. Of(hm, first) = a /\ Of(hm, p) = b
    BY <1>1, <1>3, <1>4
  <2> HIDE DEF m, g, B, first, last, p, Q
  <2>5. ASSUME NEW R \in SUBSET Linked(B, g), R # {}
        PROVE  \E n \in R : m.nxt[n] \notin R
    <3> SUFFICES ASSUME \A n \in R : m.nxt[n] \in R
                 PROVE  FALSE
      OBVIOUS
    <3>0. R \in SUBSET Linked(A, hm) /\ R \subseteq Node /\ R \subseteq Span
          /\ R \subseteq On(A, hm)
      BY <1>1, <1>2
    <3>1. last \notin R
      BY <1>1, <2>2, <2>3, <3>0
    <3>2. CASE R \cap Q # {}
      <4>1. PICK n \in R \cap Q : l.nxt[n] \notin R \cap Q
        BY <3>0, <3>2 DEF NoRing
      <4>2. n # p
        BY <1>4, <2>4, <3>0, <4>1, <1>1
      <4>3. m.nxt[n] = l.nxt[n]
        BY <2>3, <3>0, <3>1, <4>1, <4>2
      <4>4. l.nxt[n] \in R /\ Of(hm, l.nxt[n]) = a
        BY <1>3, <1>4, <3>0, <4>1, <4>3
      <4> QED
        BY <1>4, <3>0, <4>1, <4>4
    <3>3. CASE R \cap Q = {}
      <4>1. p \notin R
        BY <1>1, <1>4, <2>3, <2>4, <3>0, <3>3
      <4>2. PICK n \in R : l.nxt[n] \notin R
        BY <2>5, <3>0 DEF NoRing
      <4> QED
        BY <2>3, <3>0, <3>1, <4>1, <4>2
    <3> QED
      BY <3>2, <3>3
  <2>6. ASSUME NEW R \in SUBSET Linked(B, g), R # {}
        PROVE  \E n \in R : m.prv[n] \notin R
    <3> SUFFICES ASSUME \A n \in R : m.prv[n] \in R
                 PROVE  FALSE
      OBVIOUS
    <3>0. R \in SUBSET Linked(A, hm) /\ R \subseteq Node /\ R \subseteq Span
          /\ R \subseteq On(A, hm) /\ b \notin R
      BY <1>1, <1>2
    <3>1. CASE first \in R
      <4>1. p \in R /\ p \notin Q
        BY <1>4, <2>3, <2>4, <3>0, <3>1
      <4>2. PICK n \in R \ Q : l.prv[n] \notin R \ Q
        BY <3>0, <4>1 DEF NoRing
      <4>3. n # first
        BY <1>4, <2>4, <3>0, <4>2
      <4>4. m.prv[n] = l.prv[n]
        BY <2>3, <3>0, <4>2, <4>3
      <4>5. l.prv[n] \in R /\ Of(hm, l.prv[n]) # a
        BY <1>3, <1>4, <3>0, <4>2, <4>4
      <4> QED
        BY <1>4, <3>0, <4>2, <4>5
    <3>2. CASE first \notin R
      <4>1. PICK n \in R : l.prv[n] \notin R
        BY <2>6, <3>0 DEF NoRing
      <4> QED
        BY <2>3, <3>0, <3>2, <4>1
    <3> QED
      BY <3>1, <3>2
  <2> QED
    BY <2>5, <2>6 DEF NoRing, m, g, B
<1> QED
  BY <1>5, <1>6

-----------------------------------------------------------------------------
(* The same, in one word each.                                             *)

\* list_add_tail.
LEMMA CircularAddTail ==
  ASSUME NEW l \in Links, NEW A \in SUBSET ListHead, NEW hm \in Homes,
         NEW s \in Span, NEW h \in A, hm[s] = NULL, Circular(l, A, hm)
  PROVE  Circular(ListAddTail(l, s, h), A, [hm EXCEPT ![s] = h])
<1>1. \A k \in Span : [hm EXCEPT ![s] = h][k] # NULL => [hm EXCEPT ![s] = h][k] \in A
  BY DEF Circular, Homes
<1> QED
  BY <1>1, AddTailNeighbours, AddTailNoRing DEF Circular

\* list_del.
LEMMA CircularDel ==
  ASSUME NEW l \in Links, NEW A \in SUBSET ListHead, NEW hm \in Homes,
         NEW s \in Span, hm[s] # NULL, Circular(l, A, hm)
  PROVE  Circular(ListDel(l, s), A, [hm EXCEPT ![s] = NULL])
<1>1. \A k \in Span : [hm EXCEPT ![s] = NULL][k] # NULL => [hm EXCEPT ![s] = NULL][k] \in A
  BY DEF Circular, Homes
<1>2. hm[s] \in A
  BY DEF Circular
<1> QED
  BY <1>1, <1>2, DelNeighbours, DelNoRing DEF Circular

\* list_splice_tail.
LEMMA CircularSplice ==
  ASSUME NEW l \in Links, NEW A \in SUBSET ListHead, NEW hm \in Homes,
         NEW a \in A, NEW b \in A, a # b, Circular(l, A, hm)
  PROVE  Circular(ListSpliceTail(l, a, b), A \ {a}, Moved(hm, a, b))
<1>1. \A k \in Span : Moved(hm, a, b)[k] # NULL => Moved(hm, a, b)[k] \in A \ {a}
  BY DEF Circular, Homes, Moved
<1> QED
  BY <1>1, SpliceNeighbours, SpliceNoRing DEF Circular

\* A store that no node of a list notices.
LEMMA CircularSame ==
  ASSUME NEW l, NEW m, NEW A \in SUBSET ListHead, NEW hm \in Homes, Circular(l, A, hm),
         \A n \in On(A, hm) : m.nxt[n] = l.nxt[n] /\ m.prv[n] = l.prv[n]
  PROVE  Circular(m, A, hm)
<1>1. Neighbours(m, A, hm)
  BY DEF Circular, Neighbours
<1>2. Linked(A, hm) \subseteq On(A, hm)
  BY DEF On
<1>3. NoRing(m.nxt, A, hm) /\ NoRing(m.prv, A, hm)
  BY <1>2 DEF Circular, NoRing
<1> QED
  BY <1>1, <1>3 DEF Circular

\* INIT_LIST_HEAD on heads that are not in use.
LEMMA CircularInit ==
  ASSUME NEW l \in Links, NEW A \in SUBSET ListHead, NEW hm \in Homes,
         NEW H \in SUBSET ListHead, H \cap A = {}, Circular(l, A, hm)
  PROVE  Circular(InitHeads(l, H), A \cup H, hm)
<1> DEFINE m == InitHeads(l, H)
<1>1. \A n \in Node : /\ m.nxt[n] = IF n \in H THEN n ELSE l.nxt[n]
                      /\ m.prv[n] = IF n \in H THEN n ELSE l.prv[n]
  BY DEF InitHeads, Links
<1>2. Linked(A \cup H, hm) = Linked(A, hm) /\ On(A \cup H, hm) = On(A, hm) \cup H
  BY HeadsApart DEF On, Linked, Circular
<1>3. On(A \cup H, hm) \subseteq Node /\ H \cap On(A, hm) = {} /\ H \cap Span = {}
      /\ Linked(A, hm) \subseteq On(A, hm) /\ Linked(A, hm) \in SUBSET Span
  BY HeadsApart DEF On, Linked
<1> HIDE DEF m
<1>4. Neighbours(m, A \cup H, hm)
  <2> DEFINE D == On(A, hm)
  <2>1. \A n \in D : /\ l.nxt[n] \in D /\ Of(hm, l.nxt[n]) = Of(hm, n) /\ l.prv[l.nxt[n]] = n
                    /\ l.prv[n] \in D /\ Of(hm, l.prv[n]) = Of(hm, n) /\ l.nxt[l.prv[n]] = n
    BY DEF Circular, Neighbours
  <2>2. \A n \in D : m.nxt[n] = l.nxt[n] /\ m.prv[n] = l.prv[n]
    BY <1>1, <1>2, <1>3
  <2>3. \A n \in H : m.nxt[n] = n /\ m.prv[n] = n
    BY <1>1, <1>2, <1>3
  <2>4. On(A \cup H, hm) = D \cup H
    BY <1>2
  <2> HIDE DEF D
  <2>5. ASSUME NEW n \in D \cup H
        PROVE  /\ m.nxt[n] \in D \cup H /\ Of(hm, m.nxt[n]) = Of(hm, n) /\ m.prv[m.nxt[n]] = n
               /\ m.prv[n] \in D \cup H /\ Of(hm, m.prv[n]) = Of(hm, n) /\ m.nxt[m.prv[n]] = n
    <3>1. CASE n \in H
      BY ONLY <2>3, <3>1
    <3>2. CASE n \in D
      BY ONLY <2>1, <2>2, <3>2
    <3> QED
      BY <2>5, <3>1, <3>2
  <2> QED
    BY ONLY <2>4, <2>5 DEF Neighbours
<1>5. NoRing(m.nxt, A \cup H, hm) /\ NoRing(m.prv, A \cup H, hm)
  <2>1. ASSUME NEW R \in SUBSET Linked(A, hm), R # {}
        PROVE  (\E n \in R : m.nxt[n] \notin R) /\ (\E n \in R : m.prv[n] \notin R)
    <3>1. PICK n \in R : l.nxt[n] \notin R
      BY <2>1 DEF Circular, NoRing
    <3>2. PICK k \in R : l.prv[k] \notin R
      BY <2>1 DEF Circular, NoRing
    <3> QED
      BY <1>1, <1>3, <3>1, <3>2, HeadsApart
  <2> QED
    BY <1>2, <2>1 DEF NoRing
<1> QED
  BY <1>4, <1>5 DEF Circular, m

\* list_empty, or the first node is a span of the list.
LEMMA FirstOnList ==
  ASSUME NEW l \in Links, NEW A \in SUBSET ListHead, NEW hm \in Homes,
         NEW h \in A, Circular(l, A, hm)
  PROVE  /\ IsEmpty(l, h) <=> l.nxt[h] = h
         /\ ~IsEmpty(l, h) => l.nxt[h] \in Span /\ hm[l.nxt[h]] = h
         /\ l.nxt[h] \in On(A, hm) /\ Of(hm, l.nxt[h]) = h
<1>1. h \in On(A, hm) /\ h \notin Span
  BY HeadsApart DEF On
<1>2. /\ l.nxt[h] \in On(A, hm) /\ Of(hm, l.nxt[h]) = h /\ l.prv[l.nxt[h]] = h
      /\ l.prv[h] \in On(A, hm) /\ l.nxt[l.prv[h]] = h
  BY <1>1 DEF Circular, Neighbours, Of
<1> QED
  BY <1>2 DEF IsEmpty, Of, On, Linked

(***************************************************************************)
(* ListsWellFormed of module WlMallocProps is what Circular says of the    *)
(* lists in use.                                                           *)
(***************************************************************************)
LEMMA CircularWellFormed ==
  ASSUME TypeOK, Circular(links, ActiveHeads, home)
  PROVE  ListsWellFormed
<1>1. home \in Homes /\ ActiveHeads \in SUBSET ListHead
  BY DEF TypeOK, Homes, ActiveHeads
<1>2. \A n \in Node : HomeOf(n) # NULL <=> n \in On(ActiveHeads, home)
  BY <1>1, HeadsApart DEF HomeOf, On, Linked, ActiveHeads, Circular, Node
<1>3. \A n \in On(ActiveHeads, home) : n \in Node /\ HomeOf(n) = Of(home, n)
  BY <1>1, HeadsApart DEF HomeOf, On, Linked, ActiveHeads, Of
<1>4. ASSUME NEW n \in Node, HomeOf(n) # NULL
      PROVE  LinkedBothWays(n)
  BY <1>2, <1>3, <1>4 DEF Circular, Neighbours, LinkedBothWays
<1>5. ASSUME NEW S \in SUBSET {s \in Span : home[s] # NULL}, Ring(S)
      PROVE  FALSE
  <2>1. S \in SUBSET Linked(ActiveHeads, home)
    BY DEF Circular, Linked
  <2> QED
    BY <2>1, <1>5 DEF Ring, Circular, NoRing
<1> QED
  BY <1>4, <1>5 DEF ListsWellFormed
=============================================================================
