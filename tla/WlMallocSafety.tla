--------------------------- MODULE WlMallocSafety ---------------------------
(***************************************************************************)
(* The properties of module WlMallocProps, for any number of threads,      *)
(* spans, classes and blocks: the invariant Inv of module WlMallocInv is   *)
(* inductive, and the allocator implements BlockHeap.                      *)
(***************************************************************************)
EXTENDS WlMallocProofs

-----------------------------------------------------------------------------
(* Blocks of one span.                                                     *)

\* The blocks held in a span are finitely many.
LEMMA FiniteBlocks ==
  ASSUME NEW L \in SUBSET Idx
  PROVE  IsFiniteSet(L) /\ Cardinality(L) \in Nat
<1>1. 0 \in Int /\ CntMax \in Int
  BY ConstantsAssumption
<1>2. IsFiniteSet(Idx)
  BY <1>1, FS_Interval DEF Idx
<1>3. IsFiniteSet(L)
  BY <1>2, FS_Subset
<1> QED
  BY <1>3, FS_CardinalityType

\* span_init, and the two assignments that bring the span into use.
LEMMA AccountInit ==
  ASSUME NEW r \in SpanRec, NEW c \in Class, NEW t \in Thread
  PROVE  Account([SpanInit(r, c) EXCEPT !.owner = t, !.state = "IN_USE"], {})
<1> DEFINE p == SpanInit(r, c)
           q == [p EXCEPT !.owner = t, !.state = "IN_USE"]
<1>0. p \in SpanRec /\ p.cls = c /\ p.free_cnt = NBlk[c] /\ p.free_blk = 0 /\ p.blk_list = {}
  BY SpanInitType
<1> HIDE DEF p
<1>1. q.state = "IN_USE" /\ q.cls = c /\ q.free_cnt = NBlk[c] /\ q.free_blk = 0
      /\ q.blk_list = {}
  BY <1>0, InstallType
<1>2. NBlk[c] \in Nat
  BY ConstantsAssumption
<1> HIDE DEF q
<1>3. Cardinality({}) = 0
  BY FS_EmptySet
<1>4. Account(q, {})
  BY <1>1, <1>2, <1>3 DEF Account
<1> QED
  BY <1>4 DEF q, p

\* get_blk never returns a block that is held, and none beyond the end of the
\* span as long as free_cnt is not zero.
LEMMA AccountTake ==
  ASSUME NEW r \in SpanRec, NEW L \in SUBSET Idx, Account(r, L), r.state # "FREE",
         NEW i \in Blks(r)
  PROVE  /\ i \notin L
         /\ i \in Nat
         /\ r.free_cnt # 0 => i < NBlk[r.cls]
         /\ i < NBlk[r.cls] => i \in Idx /\ Account(TakeBlk(r, i), L \cup {i})
<1> DEFINE n == NBlk[r.cls]
           q == TakeBlk(r, i)
<1>1. n \in 1..CntMax /\ CntMax \in Nat /\ r.free_blk \in Nat /\ r.free_cnt \in Idx
  BY ConstantsAssumption DEF SpanRec
<1>2. /\ L \cup r.blk_list = 0..(r.free_blk - 1) /\ L \cap r.blk_list = {}
      /\ r.free_blk <= n /\ r.free_cnt = n - Cardinality(L)
  BY DEF Account
<1>3. IsFiniteSet(L) /\ Cardinality(L) \in Nat
  BY FiniteBlocks
<1>4. i \notin L /\ i \in Nat
  BY <1>1, <1>2 DEF Blks
<1>5. IsFiniteSet(L \cup {i}) /\ Cardinality(L \cup {i}) = Cardinality(L) + 1
  BY <1>3, <1>4, FS_AddElement
<1>6. /\ q.cls = r.cls /\ q.state = r.state /\ q.free_cnt = Dec(r.free_cnt)
      /\ r.blk_list # {} => q.free_blk = r.free_blk /\ q.blk_list = r.blk_list \ {i}
      /\ r.blk_list = {} => q.free_blk = r.free_blk + 1 /\ q.blk_list = {}
  BY TakeBlkType
<1> HIDE DEF n, q
<1>7. CASE r.blk_list # {}
  <2>1. i \in r.blk_list
    BY <1>7 DEF Blks
  <2>2. i < n
    BY <1>1, <1>2, <2>1
  <2>3. L \cup {i} \subseteq 0..(n - 1)
    BY <1>1, <1>2, <2>1
  <2>4. Cardinality(L) + 1 <= n
    <3>1. n - 1 \in Int /\ 0 \in Int
      BY <1>1
    <3>2. IsFiniteSet(0..(n - 1)) /\ Cardinality(0..(n - 1)) = n
      BY <1>1, <3>1, FS_Interval
    <3>3. Cardinality(L \cup {i}) <= n
      BY <2>3, <3>2, FS_Subset
    <3> QED
      BY <1>5, <3>3
  <2>5. q.free_cnt = n - Cardinality(L \cup {i})
    BY <1>1, <1>2, <1>3, <1>5, <1>6, <2>4 DEF Dec
  <2>6. (L \cup {i}) \cup q.blk_list = 0..(q.free_blk - 1) /\ (L \cup {i}) \cap q.blk_list = {}
        /\ q.free_blk <= n
    BY <1>2, <1>6, <1>7, <2>1
  <2>7. Account(q, L \cup {i})
    BY <1>6, <2>5, <2>6 DEF Account, n
  <2> QED
    BY <1>1, <1>4, <2>2, <2>7 DEF Idx, n, q
<1>8. CASE r.blk_list = {}
  <2>1. i = r.free_blk /\ L = 0..(i - 1)
    BY <1>2, <1>8 DEF Blks
  <2>2. Cardinality(L) = i
    BY <1>4, <2>1, FS_Interval
  <2>3. r.free_cnt # 0 => i < n
    BY <1>1, <1>2, <1>4, <2>1, <2>2
  <2>4. ASSUME i < n
        PROVE  Account(q, L \cup {i})
    <3>1. q.free_cnt = n - Cardinality(L \cup {i})
      BY <1>1, <1>2, <1>4, <1>5, <1>6, <2>2, <2>4 DEF Dec
    <3>2. (L \cup {i}) \cup q.blk_list = 0..(q.free_blk - 1)
          /\ (L \cup {i}) \cap q.blk_list = {} /\ q.free_blk <= n
      BY <1>1, <1>4, <1>6, <1>8, <2>1, <2>4
    <3> QED
      BY <1>6, <3>1, <3>2 DEF Account, n
  <2> QED
    BY <1>1, <1>4, <2>3, <2>4 DEF Idx, n, q
<1> QED
  BY <1>7, <1>8

\* span_free_blk on a block that is held: the span is collected exactly when
\* it was suspended and no other block of it is held.
LEMMA AccountPut ==
  ASSUME NEW r \in SpanRec, NEW L \in SUBSET Idx, Account(r, L), NEW i \in L
  PROVE  r.state # "FREE" /\ Account(PutBlk(r, i), L \ {i})
<1> DEFINE n == NBlk[r.cls]
           q == PutBlk(r, i)
<1>0. r.state # "FREE"
  BY DEF Account
<1>1. n \in 1..CntMax /\ CntMax \in Nat /\ r.free_blk \in Nat /\ r.free_cnt \in Idx
      /\ i \in Idx
  BY ConstantsAssumption DEF SpanRec
<1>2. /\ L \cup r.blk_list = 0..(r.free_blk - 1) /\ L \cap r.blk_list = {}
      /\ r.free_blk <= n /\ r.free_cnt = n - Cardinality(L)
  BY <1>0 DEF Account
<1>3. IsFiniteSet(L) /\ Cardinality(L) \in Nat
      /\ IsFiniteSet(L \ {i}) /\ Cardinality(L \ {i}) = Cardinality(L) - 1
      /\ Cardinality(L) # 0
  BY FiniteBlocks, FS_RemoveElement, FS_EmptySet
<1>4. Inc(r.free_cnt) = n - Cardinality(L \ {i})
  BY <1>1, <1>2, <1>3 DEF Inc, Idx
<1>5. L \ {i} = {} <=> Cardinality(L \ {i}) = 0
  BY <1>3, FS_EmptySet
<1>6. Inc(r.free_cnt) = n <=> L \ {i} = {}
  BY <1>1, <1>3, <1>4, <1>5
<1>7. /\ q.cls = r.cls /\ q.free_blk = r.free_blk /\ q.free_cnt = Inc(r.free_cnt)
      /\ Collected(r) => q.state = "FREE"
      /\ ~Collected(r) => q.state = r.state /\ q.blk_list = r.blk_list \cup {i}
  BY <1>1, PutBlkType
<1> HIDE DEF n, q
<1>8. CASE Collected(r)
  BY <1>0, <1>6, <1>7, <1>8 DEF Account, Collected, n, q
<1>9. CASE ~Collected(r)
  <2>1. q.state = "SUSPEND" => L \ {i} # {}
    BY <1>6, <1>7, <1>9 DEF Collected, n
  <2>2. (L \ {i}) \cup q.blk_list = 0..(q.free_blk - 1) /\ (L \ {i}) \cap q.blk_list = {}
    BY <1>2, <1>7, <1>9
  <2>3. Account(q, L \ {i})
    BY <1>0, <1>2, <1>4, <1>7, <1>9, <2>1, <2>2 DEF Account, n
  <2> QED
    BY <1>0, <2>3 DEF q
<1> QED
  BY <1>8, <1>9

\* What a block more or less does to the blocks held in each span.
LEMMA LiveMore ==
  ASSUME NEW s \in Span, NEW i \in Idx, live' = live \cup {<<s, i>>}
  PROVE  LiveOf(s)' = LiveOf(s) \cup {i} /\ \A k \in Span : k # s => LiveOf(k)' = LiveOf(k)
BY DEF LiveOf

LEMMA LiveLess ==
  ASSUME NEW s \in Span, NEW i \in Idx, live' = live \ {<<s, i>>}
  PROVE  LiveOf(s)' = LiveOf(s) \ {i} /\ \A k \in Span : k # s => LiveOf(k)' = LiveOf(k)
BY DEF LiveOf

-----------------------------------------------------------------------------
(* One thread acts.                                                        *)

Acts(t) == Step(t) \/ Call(t)

\* The other threads stay where they are.
LEMMA OthersStay ==
  ASSUME TypeOK, NEW t \in Thread, Acts(t)
  PROVE  \A u \in Thread : u # t =>
           /\ pc'[u] = pc[u] /\ ci'[u] = ci[u] /\ cur'[u] = cur[u] /\ arg'[u] = arg[u]
           /\ thr'[u] = thr[u] /\ using'[u] = using[u]
<1>0. /\ DOMAIN pc = Thread /\ pc = [u \in Thread |-> pc[u]] /\ ci = [u \in Thread |-> ci[u]]
      /\ cur = [u \in Thread |-> cur[u]] /\ arg = [u \in Thread |-> arg[u]]
      /\ thr = [u \in Thread |-> thr[u]] /\ using = [u \in Thread |-> using[u]]
  BY DEF TypeOK
<1>1. CASE ScanNext(t)
  BY <1>0, <1>1 DEF ScanNext, At, Goto
<1>2. CASE ScanTake(t)
  BY <1>0, <1>2 DEF ScanTake, Goto
<1>3. CASE RefillLocal(t) \/ AcquireSuspend(t) \/ AcquireFree(t) \/ AcquireCarve(t) \/ AcquireGrow(t)
  <2>1. PICK s, r, reinit : Install(t, s, r, reinit)
    BY <1>3 DEF RefillLocal, AcquireSuspend, AcquireFree, AcquireCarve, AcquireGrow, TakeFirst, Carve
  <2>2. UNCHANGED thr /\ using' = [using EXCEPT ![t][ci[t]] = s] /\ Return(t)
    BY <2>1 DEF Install, GetBlk
  <2> QED
    BY <1>0, <2>2 DEF Return, Goto
<1>4. CASE RefillNone(t) \/ AcquireFatal(t) \/ Wild(t)
  BY <1>4 DEF RefillNone, AcquireFatal, Wild, Goto, TypeOK
<1>5. CASE FreePool(t) \/ FreeCached(t) \/ FreeFault(t) \/ FreePoolCall(t)
  BY <1>5 DEF FreePool, FreeCached, FreeFault, FreePoolCall, Return, Goto, TypeOK
<1>6. CASE ExitLink(t) \/ ExitLock(t) \/ ExitWalk(t)
  BY <1>6 DEF ExitLink, ExitLock, ExitWalk, Goto, TypeOK
<1>7. CASE ExitSplice(t) \/ ExitDone(t)
  BY <1>7 DEF ExitSplice, ExitDone, Return, Goto, TypeOK
<1>8. CASE MallocOther(t) \/ \E c \in Class : MallocFirst(t, c)
  <2>1. \A u \in Thread : u # t => thr'[u] = thr[u] /\ using'[u] = using[u]
    BY <1>0, <1>8 DEF MallocOther, MallocFirst, CheckInit
  <2>2. \A u \in Thread : u # t =>
          pc'[u] = pc[u] /\ ci'[u] = ci[u] /\ cur'[u] = cur[u] /\ arg'[u] = arg[u]
    BY <1>0, <1>8 DEF MallocOther, MallocFirst, BeginScan, Goto
  <2> QED
    BY <2>1, <2>2
<1>10. CASE \E c \in Class : MallocFast(t, c)
  BY <1>10 DEF MallocFast, GetBlk, Return, Goto, TypeOK
<1>11. CASE \E c \in Class : MallocExhausted(t, c)
  BY <1>11 DEF MallocExhausted, BeginScan, Goto, TypeOK
<1>9. CASE Exit(t) \/ ThreadStart(t)
  BY <1>9 DEF Exit, ThreadStart, Goto, TypeOK
<1> QED
  BY <1>1, <1>2, <1>3, <1>4, <1>5, <1>6, <1>7, <1>8, <1>9, <1>10, <1>11 DEF Acts, Step, Call

\* They are idle or wait.
LEMMA OthersQuiet ==
  ASSUME TypeOK, Calls, NEW t \in Thread, Acts(t)
  PROVE  /\ proc = "run"
         /\ \A u \in Thread : u # t => pc[u] = "idle" \/ Waiting(u)
         /\ \A u \in Thread : u # t => pc[u] \notin {"scan", "refill", "xwalk"}
<1>1. CASE Call(t)
  <2>1. proc = "run" /\ Quiet(t)
    BY <1>1 DEF Call, MallocOther, MallocFirst, MallocFast, MallocExhausted, FreeCached, FreeFault,
       FreePoolCall, Exit, ThreadStart, Enter
  <2> QED
    BY <2>1 DEF Quiet, Waiting
<1>2. CASE Step(t)
  <2>1. CASE \/ AcquireSuspend(t) \/ AcquireFree(t) \/ AcquireCarve(t) \/ AcquireGrow(t)
             \/ AcquireFatal(t) \/ FreePool(t) \/ ExitLock(t)
    BY <2>1 DEF AcquireSuspend, AcquireFree, AcquireCarve, AcquireGrow, AcquireFatal, FreePool,
       ExitLock, Acquiring, At, Waiting, Calls, OneAtATime
  <2>2. CASE ExitLink(t)
    <3>1. proc = "run" /\ pc[t] = "xlink" /\ ci[t] # NClass
      BY <2>2, ConstantsAssumption DEF ExitLink, At, TypeOK
    <3> QED
      BY <3>1 DEF Waiting, Calls, OneAtATime
  <2>3. CASE \/ ScanNext(t) \/ ScanTake(t) \/ RefillLocal(t) \/ RefillNone(t)
             \/ ExitWalk(t) \/ ExitSplice(t) \/ ExitDone(t)
    BY <2>3 DEF ScanNext, ScanTake, RefillLocal, RefillNone, ExitWalk, ExitSplice, ExitDone, At,
       Waiting, Calls, OneAtATime
  <2>4. CASE Wild(t)
    <3>1. proc = "run" /\ pc[t] # "idle" /\ ~Waiting(t)
      BY <2>4 DEF Wild, Acquiring, At, Waiting
    <3> QED
      BY <3>1 DEF Waiting, Calls, OneAtATime
  <2> QED
    BY <1>2, <2>1, <2>2, <2>3, <2>4 DEF Step
<1> QED
  BY <1>1, <1>2 DEF Acts

\* Where the acting thread may be afterwards, and what happens to pool.lock.
LEMMA ActorMoves ==
  ASSUME TypeOK, Calls, NEW t \in Thread, Acts(t)
  PROVE  /\ plock' = NULL => plock = NULL \/ pc[t] = "xwalk"
         /\ pc'[t] = "xwalk" => plock = NULL \/ pc[t] = "xwalk"
         /\ pc'[t] \notin {"idle", "pfree"} => thr'[t] = "ready"
         /\ thr'[t] = "new" => \A c \in Class : using'[t][c] = NULL
         /\ pc'[t] = "pfree" =>
              arg'[t] \in live /\ live' = live
              /\ \A u \in Thread : u # t => arg'[t] # arg[u]
         /\ \A u \in Thread : u # t /\ pc[u] = "pfree" => arg[u] \in live'
<1> USE DEF Calls, CacheReady, ArgsHeld
<1>0. \A u \in Thread : u # t /\ pc[u] = "pfree" => arg[u] \in live /\ arg[u] \in Block
  BY DEF CallOK
<1>1. CASE ScanNext(t) \/ ScanTake(t) \/ RefillNone(t)
  BY <1>0, <1>1 DEF ScanNext, ScanTake, RefillNone, At, Goto, TypeOK, poolvars
<1>2. CASE RefillLocal(t) \/ AcquireSuspend(t) \/ AcquireFree(t) \/ AcquireCarve(t) \/ AcquireGrow(t)
  <2>1. PICK s, r, reinit : GetBlk(t, s, r, reinit) /\ UNCHANGED <<plock, thr>>
    BY <1>2 DEF RefillLocal, AcquireSuspend, AcquireFree, AcquireCarve, AcquireGrow, TakeFirst,
       Carve, Install, poolvars
  <2>2. thr[t] = "ready"
    BY <1>2 DEF RefillLocal, AcquireSuspend, AcquireFree, AcquireCarve, AcquireGrow, Acquiring, At
  <2> QED
    BY <1>0, <2>1, <2>2 DEF GetBlk, Return, Goto, TypeOK
<1>3. CASE AcquireFatal(t) \/ Wild(t)
  BY <1>0, <1>3 DEF AcquireFatal, Wild, Acquiring, At, Goto, TypeOK, poolvars
<1>4. CASE FreePool(t)
  <2>1. /\ live' = live \ {arg[t]} /\ plock' = t /\ pc[t] = "pfree" /\ UNCHANGED <<thr, using>>
        /\ pc' = [pc EXCEPT ![t] = "idle"]
    <3>1. PICK s, i : arg[t] = <<s, i>>
      BY <1>4 DEF FreePool, At, CallOK, Block
    <3> QED
      BY <1>4, <3>1 DEF FreePool, FreeBlk, At, Return, Goto
  <2>2. \A u \in Thread : u # t /\ pc[u] = "pfree" => arg[u] # arg[t]
    BY <2>1
  <2> QED
    BY <1>0, <2>1, <2>2, ConstantsAssumption DEF TypeOK
<1>5. CASE FreeCached(t)
  <2>1. PICK b \in Held : live' = live \ {b} /\ UNCHANGED <<pc, plock, thr, using>> /\ Enter(t)
    <3>1. PICK b \in Held : FreeBlk(b[1], b[2], FreeList(t)) /\ UNCHANGED <<pc, plock, thr, using>>
                        /\ Enter(t)
      BY <1>5 DEF FreeCached, poolvars
    <3>2. b = <<b[1], b[2]>>
      BY <3>1 DEF Held, TypeOK, Block
    <3> QED
      BY <3>1, <3>2 DEF FreeBlk
  <2>2. \A u \in Thread : arg[u] # b
    BY <2>1 DEF Held
  <2> QED
    BY <1>0, <2>1, <2>2 DEF Enter, Quiet
<1>6. CASE FreeFault(t)
  BY <1>0, <1>6 DEF FreeFault, Enter, Quiet, poolvars
<1>7. CASE FreePoolCall(t)
  BY <1>0, <1>7 DEF FreePoolCall, Held, Enter, Quiet, Goto, TypeOK, poolvars
<1>8. CASE ExitLink(t)
  BY <1>0, <1>8 DEF ExitLink, At, Goto, TypeOK, poolvars
<1>17. CASE ExitLock(t)
  BY <1>0, <1>17 DEF ExitLock, At, Goto, TypeOK, poolvars
<1>18. CASE ExitWalk(t)
  BY <1>0, <1>18 DEF ExitWalk, At, Goto, TypeOK, poolvars
<1>19. CASE ExitSplice(t)
  BY <1>0, <1>19 DEF ExitSplice, At, Goto, TypeOK, poolvars
<1>9. CASE ExitDone(t)
  BY <1>0, <1>9 DEF ExitDone, At, Return, Goto, TypeOK
<1>10. CASE MallocOther(t)
  BY <1>0, <1>10 DEF MallocOther, CheckInit, Enter, Quiet, TypeOK, poolvars
<1>11. CASE \E c \in Class : MallocFirst(t, c)
  BY <1>0, <1>11 DEF MallocFirst, CheckInit, BeginScan, Goto, TypeOK, poolvars
<1>12. CASE \E c \in Class : MallocFast(t, c)
  BY <1>0, <1>12 DEF MallocFast, GetBlk, Return, Goto, TypeOK, poolvars
<1>13. ASSUME NEW c \in Class, MallocExhausted(t, c)
       PROVE  thr[t] = "ready"
  <2>1. thr[t] \in {"new", "ready", "exited"} /\ thr[t] # "exited" /\ using[t][c] # NULL
    BY <1>13 DEF MallocExhausted, Enter, TypeOK
  <2> QED
    BY <2>1
<1>14. CASE \E c \in Class : MallocExhausted(t, c)
  <2>1. /\ thr[t] = "ready" /\ UNCHANGED <<plock, thr, using, live, arg>>
        /\ pc' = [pc EXCEPT ![t] = "scan"]
    BY <1>13, <1>14 DEF MallocExhausted, BeginScan, Goto, poolvars
  <2> QED
    BY <1>0, <2>1 DEF TypeOK
<1>15. CASE Exit(t)
  BY <1>0, <1>15 DEF Exit, Goto, TypeOK, poolvars
<1>16. CASE ThreadStart(t)
  BY <1>0, <1>16 DEF ThreadStart, Quiet, TypeOK, poolvars
<1> QED
  BY <1>1, <1>2, <1>3, <1>4, <1>5, <1>6, <1>7, <1>8, <1>9, <1>10, <1>11, <1>12, <1>14, <1>15,
     <1>16, <1>17, <1>18, <1>19 DEF Acts, Step, Call

(***************************************************************************)
(* No step brings a second thread into the middle of a call, or lets two   *)
(* calls of wl_free wait with the same block.                              *)
(***************************************************************************)
LEMMA CallsStep ==
  ASSUME TypeOK, Calls, [Next]_vars
  PROVE  Calls'
<1>1. CASE UNCHANGED vars
  BY <1>1 DEF vars, poolvars, Calls, CallOK, CacheReady, OneAtATime, ArgsHeld, Waiting
<1>2. ASSUME NEW t \in Thread, Acts(t)
      PROVE  Calls'
  <2>1. CallOK'
    BY <1>2, CallStep DEF Calls, Acts, Next
  <2>2. CacheReady'
    BY <1>2, OthersStay, ActorMoves DEF Calls, CacheReady
  <2>3. ArgsHeld'
    BY <1>2, OthersStay, ActorMoves DEF Calls, ArgsHeld
  <2>4. OneAtATime'
    <3>1. \A u \in Thread : u # t => pc'[u] = "idle" \/ Waiting(u)'
      BY <1>2, OthersStay, OthersQuiet, ActorMoves DEF Waiting, Calls, OneAtATime
    <3>2. pc'[t] = "xwalk" => \A u \in Thread : u # t => pc'[u] = "idle"
      BY <1>2, OthersStay, OthersQuiet, ActorMoves DEF Waiting, Calls, OneAtATime
    <3>3. \A u \in Thread : u # t => pc'[u] # "xwalk"
      BY <1>2, OthersStay, OthersQuiet
    <3> QED
      BY <3>1, <3>2, <3>3 DEF OneAtATime
  <2> QED
    BY <2>1, <2>2, <2>3, <2>4 DEF Calls
<1> QED
  BY <1>1, <1>2 DEF Next, Stopped, Acts

-----------------------------------------------------------------------------
(* What the other threads' part of the invariant is, and what stays when   *)
(* little changes.                                                         *)

\* The lists in use are the same as long as the thread goes on as before.
LEMMA SameHeads ==
  ASSUME TypeOK, NEW t \in Thread, Acts(t),
         thr'[t] = thr[t], pc'[t] = "xwalk" <=> pc[t] = "xwalk",
         pc[t] = "xwalk" => ci'[t] = ci[t]
  PROVE  ActiveHeads' = ActiveHeads
<1>1. \A h \in ListHead : h[1] = POOL \/ h[1] \in Thread
  BY DEF ListHead
<1>2. \A u \in Thread : /\ thr'[u] = thr[u] /\ (pc'[u] = "xwalk" <=> pc[u] = "xwalk")
                        /\ pc[u] = "xwalk" => ci'[u] = ci[u]
  BY OthersStay
<1> QED
  BY <1>1, <1>2 DEF ActiveHeads, Active

LEMMA OthersInUse ==
  ASSUME TypeOK, NEW t \in Thread, Acts(t)
  PROVE  \A u \in Thread, c \in Class : u # t =>
           (InUse(u, c)' <=> InUse(u, c)) /\ using'[u][c] = using[u][c]
BY OthersStay DEF InUse

\* Only the acting thread can be in the middle of a loop.
LEMMA LoopsOver ==
  ASSUME TypeOK, Calls, NEW t \in Thread, Acts(t)
  PROVE  /\ pc'[t] \notin {"scan", "xwalk"} => CursorOnList'
         /\ pc'[t] # "xwalk" => WalkedOver'
<1>1. \A u \in Thread : u # t => pc'[u] \notin {"scan", "xwalk"}
  BY OthersStay, OthersQuiet
<1> QED
  BY <1>1 DEF CursorOnList, WalkedOver

\* A span in use is a span, and a list head is not null.
LEMMA InUseSpan ==
  ASSUME TypeOK
  PROVE  \A u \in Thread, c \in Class : InUse(u, c) => using[u][c] \in Span
BY DEF TypeOK, InUse

LEMMA HeadFacts ==
  /\ \A o \in Thr, c \in 0..NClass : <<o, c>> # NULL
  /\ \A o \in Thr, c \in Class : <<o, c>> # NULL /\ <<o, c>> # FreeList(o)
  /\ \A h \in ListHead : h # NULL /\ (h[1] = POOL \/ h[1] \in Thread) /\ h[2] \in 0..NClass
                         /\ h = <<h[1], h[2]>>
  /\ \A t \in Thread : t # POOL /\ t # NULL
  /\ \A c \in Class : c # NClass
<1>1. \A o \in Thr, c \in 0..NClass : <<o, c>> # NULL
  BY Nodes, HeadsApart
<1>2. \A h \in ListHead : h # NULL /\ (h[1] = POOL \/ h[1] \in Thread) /\ h[2] \in 0..NClass
                         /\ h = <<h[1], h[2]>>
  BY HeadsApart DEF ListHead
<1>3. \A c \in Class : c # NClass /\ c \in 0..NClass
  BY ConstantsAssumption DEF Class
<1> QED
  BY <1>1, <1>2, <1>3, ConstantsAssumption DEF FreeList

\* No span moves or changes hands, and the same spans are in use.
LEMMA HeadersFrame ==
  ASSUME TypeOK, Places, UNCHANGED <<carved, home>>,
         \A s \in Span : /\ span'[s].owner = span[s].owner /\ span'[s].state = span[s].state
                         /\ span'[s].cls = span[s].cls,
         \A s \in Span \ carved : LiveOf(s)' = {},
         \A u \in Thread, c \in Class :
           /\ InUse(u, c)' <=> InUse(u, c)
           /\ InUse(u, c) => using'[u][c] = using[u][c],
         \A u \in Thread :
           /\ pc[u] \in {"xlink", "xwalk"} => pc'[u] \in {"xlink", "xwalk"}
           /\ pc[u] = "xwalk" => pc'[u] = "xwalk" /\ ci'[u] = ci[u]
  PROVE  Places'
<1> USE DEF Places
<1>1. Untouched'
  BY DEF Untouched
<1>2. InUseAlone'
  BY DEF InUseAlone
<1>3. InUseFits'
  BY InUseSpan DEF InUseFits
<1>4. ListedFits'
  <2>1. \A h \in ListHead : h[1] # POOL => h[1] \in Thread
    BY DEF ListHead
  <2>2. \A s \in Span : home[s] # NULL => home[s] \in ListHead
    BY DEF TypeOK
  <2> QED
    BY <2>1, <2>2 DEF ListedFits, FitsList
<1>5. OwnersKept'
  BY DEF OwnersKept
<1>6. Reachable'
  <2>1. \A k \in carved' : k \in carved /\ k \in Span
    BY DEF TypeOK
  <2>2. \A k \in Span, u \in Thread, c \in Class :
          InUse(u, c) /\ using[u][c] = k => InUse(u, c)' /\ using'[u][c] = k
    OBVIOUS
  <2> QED
    BY <2>1, <2>2 DEF Reachable
<1> QED
  BY <1>1, <1>2, <1>3, <1>4, <1>5, <1>6

\* Nothing at all happens to spans.
LEMMA PlacesFrame ==
  ASSUME TypeOK, Places, UNCHANGED <<carved, span, home, live>>,
         \A u \in Thread, c \in Class :
           /\ InUse(u, c)' <=> InUse(u, c)
           /\ InUse(u, c) => using'[u][c] = using[u][c],
         \A u \in Thread :
           /\ pc[u] \in {"xlink", "xwalk"} => pc'[u] \in {"xlink", "xwalk"}
           /\ pc[u] = "xwalk" => pc'[u] = "xwalk" /\ ci'[u] = ci[u]
  PROVE  Places'
<1>1. \A s \in Span \ carved : LiveOf(s)' = {}
  BY DEF Places, Untouched, LiveOf
<1> QED
  BY <1>1, HeadersFrame

LEMMA AccountsFrame ==
  ASSUME Accounts, UNCHANGED <<carved, span, live>>
  PROVE  Accounts'
BY DEF Accounts, Account, LiveOf

-----------------------------------------------------------------------------
(* Steps that move the program counter only.                               *)

LEMMA ScanNextStep ==
  ASSUME TypeOK, Calls, SoundInv, NEW t \in Thread, ScanNext(t)
  PROVE  SoundInv'
<1> USE DEF SoundInv, ListsInv
<1>0. Acts(t) /\ UNCHANGED <<proc, thr, ci, arg, using, span, links, home, tainted, carved, live>>
      /\ pc[t] = "scan"
  BY DEF Acts, Step, ScanNext, At, memory, poolvars
<1>1. pc'[t] \in {"scan", "refill"} /\ \A u \in Thread : u # t => pc'[u] = pc[u]
  BY OthersStay, <1>0 DEF ScanNext, Goto, TypeOK
<1>2. ActiveHeads' = ActiveHeads
  BY <1>0, <1>1, SameHeads
<1>3. \A u \in Thread, c \in Class : InUse(u, c)' <=> InUse(u, c)
  BY <1>0, <1>1 DEF InUse
<1>4. Places'
  BY <1>0, <1>1, <1>3, PlacesFrame
<1>5. NoExits'
  BY <1>0, <1>1 DEF NoExits
<1>6. WalkedOver'
  BY <1>0, <1>1, LoopsOver
<1>7. CursorOnList'
  <2>1. \A u \in Thread : u # t => pc'[u] \notin {"scan", "xwalk"}
    BY <1>0, OthersStay, OthersQuiet
  <2>2. CASE pc'[t] = "scan"
    <3>1. cur[t] \in Span /\ cur'[t] = links.nxt[cur[t]]
      BY <2>2 DEF ScanNext, Goto, TypeOK
    <3>2. cur[t] \in On(ActiveHeads, home) /\ Of(home, cur[t]) = <<t, ci[t]>>
      BY <1>0 DEF CursorOnList
    <3>3. cur'[t] \in On(ActiveHeads, home) /\ Of(home, cur'[t]) = <<t, ci[t]>>
      BY <3>1, <3>2 DEF Circular, Neighbours
    <3> QED
      BY <1>0, <1>1, <1>2, <2>1, <3>3 DEF CursorOnList, On, Linked, Of
  <2> QED
    BY <1>0, <1>1, <2>1, <2>2, LoopsOver
<1> QED
  BY <1>0, <1>2, <1>4, <1>5, <1>6, <1>7, AccountsFrame

\* RefillNone, FreePoolCall and Exit.
LEMMA GotoStep ==
  ASSUME TypeOK, Calls, SoundInv, NEW t \in Thread,
         RefillNone(t) \/ FreePoolCall(t) \/ Exit(t)
  PROVE  SoundInv'
<1> USE DEF SoundInv, ListsInv
<1>0. Acts(t) /\ UNCHANGED <<thr, cur, using, span, links, home, carved, live>>
  BY DEF Acts, Step, Call, RefillNone, FreePoolCall, Exit, memory, poolvars
<1>1. \/ pc[t] = "refill" /\ pc'[t] = "acquire" /\ ci' = ci
      \/ pc[t] = "idle" /\ pc'[t] = "pfree" /\ ci' = ci
      \/ pc[t] = "idle" /\ pc'[t] = "xlink" /\ ci'[t] = 0 /\ Exits
  BY DEF RefillNone, FreePoolCall, Exit, At, Enter, Quiet, Goto, TypeOK
<1>2. \A u \in Thread : u # t => pc'[u] = pc[u] /\ ci'[u] = ci[u]
  BY <1>0, OthersStay
<1>3. ActiveHeads' = ActiveHeads
  BY <1>0, <1>1, SameHeads
<1>4. \A u \in Thread, c \in Class : InUse(u, c)' <=> InUse(u, c)
  BY <1>0, <1>1, <1>2 DEF InUse, Class
<1>5. Places'
  BY <1>0, <1>1, <1>2, <1>4, PlacesFrame
<1>6. NoExits'
  BY <1>0, <1>1, <1>2 DEF NoExits
<1>7. CursorOnList' /\ WalkedOver'
  BY <1>0, <1>1, LoopsOver
<1> QED
  BY <1>0, <1>3, <1>5, <1>6, <1>7, AccountsFrame

\* ExitLock: every class has been linked, and the walk begins at the first.
LEMMA ExitLockStep ==
  ASSUME TypeOK, Calls, SoundInv, NEW t \in Thread, ExitLock(t)
  PROVE  SoundInv'
<1> USE DEF SoundInv, ListsInv
<1>0. Acts(t) /\ UNCHANGED <<thr, using, span, links, home, carved, live>>
      /\ pc[t] = "xlink" /\ pc'[t] = "xwalk" /\ ci[t] = NClass /\ ci'[t] = 0
      /\ cur'[t] = links.nxt[<<t, 0>>]
  BY DEF Acts, Step, ExitLock, At, Goto, memory, TypeOK
<1>1. \A u \in Thread : u # t => pc'[u] = pc[u] /\ ci'[u] = ci[u] /\ pc'[u] \notin {"scan", "xwalk"}
  BY <1>0, OthersStay, OthersQuiet
<1>2. thr[t] = "ready"
  BY <1>0 DEF Calls, CacheReady
<1>3. ActiveHeads' = ActiveHeads
  <2>1. \A h \in ListHead : (h[1] = POOL \/ h[1] \in Thread) /\ h[2] \in Nat
    BY DEF ListHead
  <2> QED
    BY <1>0, <1>1, <1>2, <2>1, ConstantsAssumption DEF ActiveHeads, Active
<1>4. \A u \in Thread, c \in Class : InUse(u, c)' <=> InUse(u, c)
  BY <1>0, <1>1, ConstantsAssumption DEF InUse, Class
<1>5. Places'
  BY <1>0, <1>1, <1>4, PlacesFrame
<1>6. NoExits'
  BY <1>0, <1>1 DEF NoExits
<1>7. <<t, 0>> \in ActiveHeads /\ <<t, 0>> \in ListHead /\ 0 \in Class
  BY <1>0, <1>2, Nodes DEF ActiveHeads, Active, Thr
<1>8. cur'[t] \in On(ActiveHeads, home) /\ Of(home, cur'[t]) = <<t, 0>>
  <2>1. links \in Links /\ home \in Homes /\ ActiveHeads \in SUBSET ListHead
    BY DEF TypeOK, Links, Homes, ActiveHeads
  <2> QED
    BY <1>0, <1>7, <2>1, FirstOnList
<1>9. CursorOnList'
  BY <1>0, <1>1, <1>3, <1>8 DEF CursorOnList, On, Linked, Of
<1>10. WalkedOver'
  <2>1. \A s \in Span : home[s] = <<t, 0>> => span[s].owner # POOL
    BY <1>0, <1>7, ConstantsAssumption DEF Places, OwnersKept
  <2>2. Passed(t)' = {<<t, 0>>}
    BY <1>0, <2>1 DEF Passed
  <2> QED
    BY <1>0, <1>1, <2>2 DEF WalkedOver
<1> QED
  BY <1>0, <1>3, <1>5, <1>6, <1>9, <1>10, AccountsFrame

-----------------------------------------------------------------------------
(* list_del on a span, whether it is on a list or not.                     *)

LEMMA TypesOfLists ==
  ASSUME TypeOK
  PROVE  links \in Links /\ home \in Homes /\ ActiveHeads \in SUBSET ListHead
BY DEF TypeOK, Links, Homes, ActiveHeads

\* Either the span is on a list, or list_del hits no list.
LEMMA DelCircular ==
  ASSUME TypeOK, Circular(links, ActiveHeads, home), NEW s \in Span, ~Taints(s)
  PROVE  Circular(ListDel(links, s), ActiveHeads, [home EXCEPT ![s] = NULL])
<1>1. links \in Links /\ home \in Homes /\ ActiveHeads \in SUBSET ListHead
  BY TypesOfLists
<1>2. CASE home[s] # NULL
  BY <1>1, <1>2, CircularDel
<1>3. CASE home[s] = NULL
  <2>1. [home EXCEPT ![s] = NULL] = home
    BY <1>1, <1>3 DEF Homes
  <2>2. \A n \in On(ActiveHeads, home) : n \in Node /\ HomeOf(n) # NULL
    BY <1>1, HeadsApart DEF On, Linked, HomeOf, ActiveHeads
  <2>3. \A n \in On(ActiveHeads, home) :
          ListDel(links, s).nxt[n] = links.nxt[n] /\ ListDel(links, s).prv[n] = links.prv[n]
    BY <1>3, <2>2 DEF Taints
  <2> QED
    BY <1>1, <2>1, <2>3, CircularSame
<1> QED
  BY <1>2, <1>3

\* A suspended span is taken off its list and forgotten.
LEMMA ScanTakeStep ==
  ASSUME TypeOK, Calls, SoundInv, ~tainted', NEW t \in Thread, ScanTake(t)
  PROVE  SoundInv'
<1> USE DEF SoundInv, ListsInv
<1> DEFINE s == cur[t]
<1>0. /\ Acts(t) /\ s \in Span /\ TakeOff(s) /\ pc[t] = "scan" /\ pc'[t] = "refill"
      /\ UNCHANGED <<thr, ci, using, span, carved, live>>
  BY DEF Acts, Step, ScanTake, At, Goto, poolvars, TypeOK
<1>1. \A u \in Thread : u # t => pc'[u] = pc[u]
  BY <1>0, OthersStay
<1>2. /\ links' = ListDel(links, s) /\ home' = [home EXCEPT ![s] = NULL] /\ ~Taints(s)
  BY <1>0 DEF TakeOff
<1>3. ActiveHeads' = ActiveHeads
  BY <1>0, SameHeads
<1>4. Circular(links', ActiveHeads', home')
  BY <1>0, <1>2, <1>3, DelCircular
<1>5. \A k \in Span : home'[k] = IF k = s THEN NULL ELSE home[k]
  BY <1>2 DEF TypeOK
<1>6. \A u \in Thread, c \in Class : InUse(u, c)' <=> InUse(u, c)
  BY <1>0, <1>1 DEF InUse
<1>7. home[s] = <<t, ci[t]>> /\ ci[t] \in Class
  BY <1>0 DEF CursorOnList, Of, Calls, CallOK
<1>8. span[s].state = "SUSPEND"
  <2>1. home[s] # NULL /\ home[s][1] = t /\ home[s][2] = ci[t] /\ t # POOL /\ ci[t] # NClass
    BY <1>0, <1>7, HeadFacts DEF Thr
  <2>2. FitsList(s, home[s])
    BY <1>0, <2>1 DEF Places, ListedFits
  <2> QED
    BY <1>0, <2>1, <2>2 DEF FitsList
<1> HIDE DEF s
<1>9. Places'
  <2> USE DEF Places
  <2>1. Untouched'
    BY <1>0, <1>5, <1>6 DEF Untouched, LiveOf
  <2>2. InUseAlone' /\ InUseFits'
    BY <1>0, <1>5, <1>6, InUseSpan DEF InUseAlone, InUseFits
  <2>3. ListedFits'
    <3>1. \A h \in ListHead : h[1] # POOL => h[1] \in Thread
      BY DEF ListHead
    <3>2. \A k \in Span : home[k] # NULL => home[k] \in ListHead
      BY DEF TypeOK
    <3> QED
      BY <1>0, <1>1, <1>5, <3>1, <3>2 DEF ListedFits, FitsList
  <2>4. OwnersKept'
    <3>1. \A u \in Thread, c \in Class, k \in Span : home'[k] = <<u, c>> => home[k] = <<u, c>>
      BY <1>5, HeadFacts DEF Thr
    <3>2. \A u \in Thread : (pc'[u] = "xwalk" <=> pc[u] = "xwalk") /\ ci'[u] = ci[u]
      BY <1>0, <1>1
    <3> QED
      BY <1>0, <3>1, <3>2 DEF OwnersKept
  <2>5. Reachable'
    <3> SUFFICES ASSUME NEW k \in carved
                 PROVE  \/ home'[k] # NULL
                        \/ \E u \in Thread, c \in Class : InUse(u, c)' /\ using'[u][c] = k
                        \/ span'[k].state = "SUSPEND"
      BY <1>0 DEF Reachable
    <3>1. k \in Span /\ using' = using /\ span' = span
      BY <1>0 DEF TypeOK
    <3> QED
      BY <3>1, <1>5, <1>6, <1>8 DEF Reachable
  <2> QED
    BY <2>1, <2>2, <2>3, <2>4, <2>5
<1>10. NoExits'
  BY <1>0, <1>1, <1>5, Nodes, HeadsApart DEF NoExits, Thr
<1>11. CursorOnList' /\ WalkedOver'
  BY <1>0, LoopsOver
<1> QED
  BY <1>0, <1>4, <1>9, <1>10, <1>11, AccountsFrame

-----------------------------------------------------------------------------
(* A call of wl_malloc starts: check_init.                                 *)

LEMMA CheckInitLists ==
  ASSUME TypeOK, Calls, SoundInv, NEW t \in Thread, Acts(t), CheckInit(t),
         pc[t] = "idle", pc'[t] # "xwalk", thr[t] # "exited"
  PROVE  /\ Circular(links', ActiveHeads', home)
         /\ using' = using
         /\ thr'[t] = "ready"
         /\ {t} \X (0..NClass) \subseteq ActiveHeads'
<1>1. thr[t] \in {"new", "ready"} /\ thr'[t] = "ready"
  BY DEF CheckInit, TypeOK
<1>2. \A u \in Thread : u # t => thr'[u] = thr[u] /\ pc'[u] = pc[u] /\ ci'[u] = ci[u]
  BY OthersStay
<1>3. using' = using
  <2>1. CASE thr[t] = "new"
    <3>1. using[t] = [c \in Class |-> NULL]
      BY <2>1 DEF Calls, CacheReady, TypeOK
    <3> QED
      BY <2>1, <3>1 DEF CheckInit, TypeOK
  <2>2. CASE thr[t] # "new"
    BY <2>2 DEF CheckInit
  <2> QED
    BY <2>1, <2>2
<1>4. ActiveHeads' = ActiveHeads \cup CacheHeads(t)
  <2>1. \A h \in ListHead : h \in CacheHeads(t) <=> h[1] = t
    BY HeadFacts DEF CacheHeads, ListHead
  <2>2. \A h \in CacheHeads(t) : h \in ListHead
    BY DEF CacheHeads, ListHead
  <2> QED
    BY <1>1, <1>2, <2>1, <2>2, HeadFacts DEF ActiveHeads, Active
<1>5. links \in Links /\ home \in Homes /\ ActiveHeads \in SUBSET ListHead
  BY TypesOfLists
<1>6. CASE thr[t] = "new"
  <2>1. CacheHeads(t) \cap ActiveHeads = {} /\ CacheHeads(t) \in SUBSET ListHead
    BY <1>6, HeadFacts DEF CacheHeads, ActiveHeads, Active, ListHead
  <2>2. links' = InitHeads(links, CacheHeads(t))
    BY <1>6 DEF CheckInit
  <2> QED
    BY <1>1, <1>3, <1>4, <1>5, <2>1, <2>2, CircularInit DEF SoundInv, ListsInv, CacheHeads
<1>7. CASE thr[t] = "ready"
  <2>1. CacheHeads(t) \subseteq ActiveHeads
    BY <1>7, HeadFacts DEF CacheHeads, ActiveHeads, Active, ListHead
  <2>2. ActiveHeads' = ActiveHeads /\ links' = links
    BY <1>4, <1>7, <2>1 DEF CheckInit
  <2> QED
    BY <1>1, <1>3, <2>1, <2>2 DEF SoundInv, ListsInv, CacheHeads
<1> QED
  BY <1>1, <1>6, <1>7

LEMMA MallocOtherStep ==
  ASSUME TypeOK, Calls, SoundInv, NEW t \in Thread, MallocOther(t)
  PROVE  SoundInv'
<1> USE DEF SoundInv
<1>0. /\ Acts(t) /\ CheckInit(t) /\ pc[t] = "idle" /\ thr[t] = "new"
      /\ UNCHANGED <<pc, ci, cur, span, home, carved, live>>
  BY DEF Acts, Call, MallocOther, Enter, Quiet, poolvars
<1>1. Circular(links', ActiveHeads', home) /\ using' = using /\ thr'[t] = "ready"
  BY <1>0, CheckInitLists
<1>2. \A u \in Thread : u # t => thr'[u] = thr[u]
  BY <1>0, OthersStay
<1>3. \A c \in Class : using[t][c] = NULL
  BY <1>0 DEF Calls, CacheReady
<1>4. \A u \in Thread, c \in Class : InUse(u, c)' <=> InUse(u, c)
  BY <1>0, <1>1, <1>2, <1>3 DEF InUse
<1>5. Places'
  BY <1>0, <1>1, <1>4, PlacesFrame
<1>6. NoExits' /\ CursorOnList' /\ WalkedOver' /\ Accounts'
  BY <1>0, LoopsOver, AccountsFrame DEF NoExits
<1> QED
  BY <1>0, <1>1, <1>5, <1>6 DEF ListsInv

\* The scan of an empty or not empty suspend list starts.
LEMMA BeginScanCursor ==
  ASSUME TypeOK, TypeOK', Calls, NEW t \in Thread, Acts(t), NEW c \in Class, BeginScan(t, c),
         Circular(links', ActiveHeads', home'), <<t, c>> \in ActiveHeads'
  PROVE  CursorOnList'
<1>1. \A u \in Thread : u # t => pc'[u] \notin {"scan", "xwalk"}
  BY OthersStay, OthersQuiet
<1>2. cur'[t] = links'.nxt[<<t, c>>] /\ ci'[t] = c /\ pc'[t] = "scan"
  BY DEF BeginScan, Goto, TypeOK
<1>3. links' \in Links /\ home' \in Homes /\ ActiveHeads' \in SUBSET ListHead
  BY DEF TypeOK, Links, Homes, ActiveHeads
<1>4. \A l \in Links, A \in SUBSET ListHead, hm \in Homes : \A h \in A :
        Circular(l, A, hm) => l.nxt[h] \in On(A, hm) /\ Of(hm, l.nxt[h]) = h
  BY FirstOnList
<1>5. cur'[t] \in On(ActiveHeads', home') /\ Of(home', cur'[t]) = <<t, c>>
  BY <1>2, <1>3, <1>4
<1> QED
  BY <1>1, <1>2, <1>5 DEF CursorOnList, On, Linked, Of

LEMMA MallocFirstStep ==
  ASSUME TypeOK, TypeOK', Calls, SoundInv, NEW t \in Thread, NEW c \in Class, MallocFirst(t, c)
  PROVE  SoundInv'
<1> USE DEF SoundInv
<1>0. /\ Acts(t) /\ CheckInit(t) /\ BeginScan(t, c) /\ pc[t] = "idle" /\ thr[t] # "exited"
      /\ using[t][c] = NULL /\ UNCHANGED <<span, home, carved, live>>
  BY DEF Acts, Call, MallocFirst, Enter, Quiet, poolvars
<1>1. pc'[t] = "scan" /\ ci'[t] = c
  BY <1>0 DEF BeginScan, Goto, TypeOK
<1>2. /\ Circular(links', ActiveHeads', home) /\ using' = using /\ thr'[t] = "ready"
      /\ {t} \X (0..NClass) \subseteq ActiveHeads'
  BY <1>0, <1>1, CheckInitLists
<1>3. \A u \in Thread : u # t => pc'[u] = pc[u] /\ ci'[u] = ci[u]
  BY <1>0, OthersStay
<1>4. thr[t] = "new" => \A d \in Class : using[t][d] = NULL
  BY DEF Calls, CacheReady
<1>5. \A d \in Class : InUse(t, d)' <=> InUse(t, d)
  BY <1>0, <1>1, <1>2, <1>4 DEF InUse, TypeOK
<1>6. \A u \in Thread, d \in Class : InUse(u, d)' <=> InUse(u, d)
  BY <1>0, <1>5, OthersInUse
<1>7. Places'
  BY <1>0, <1>1, <1>2, <1>3, <1>6, PlacesFrame
<1>8. NoExits' /\ WalkedOver' /\ Accounts'
  BY <1>0, <1>1, <1>3, LoopsOver, AccountsFrame DEF NoExits
<1>9. CursorOnList'
  <2>1. <<t, c>> \in ActiveHeads'
    BY <1>2, Nodes
  <2> QED
    BY <1>0, <1>2, <2>1, BeginScanCursor
<1> QED
  BY <1>0, <1>2, <1>7, <1>8, <1>9 DEF ListsInv

-----------------------------------------------------------------------------
(* A span in use joins the suspend list of its thread.                     *)

LEMMA LinkPlaces ==
  ASSUME TypeOK, Places, NEW t \in Thread, NEW c \in Class, InUse(t, c),
         NEW s \in Span, s = using[t][c], home' = [home EXCEPT ![s] = <<t, c>>],
         UNCHANGED <<carved, live, using>>,
         \A k \in Span : k # s => span'[k] = span[k],
         span'[s].owner = t, span'[s].cls = c, span'[s].state # "FREE",
         pc'[t] # "xlink" => span'[s].state = "SUSPEND",
         \A u \in Thread, d \in Class : InUse(u, d)' <=> InUse(u, d) /\ ~(u = t /\ d = c),
         \A u \in Thread : /\ pc[u] = "xlink" => pc'[u] = "xlink"
                           /\ pc[u] = "xwalk" <=> pc'[u] = "xwalk"
                           /\ pc[u] = "xwalk" => ci'[u] = ci[u]
  PROVE  Places'
<1> USE DEF Places
<1>0. s \in Span /\ \A u \in Thread, d \in Class : InUse(u, d) => using[u][d] \in Span
  BY InUseSpan
<1>1. \A k \in Span : home'[k] = IF k = s THEN <<t, c>> ELSE home[k]
  BY DEF TypeOK
<1>2. home[s] = NULL /\ s \in carved /\ span[s].state = "IN_USE"
  BY DEF InUseFits, Untouched
<1>3. \A u \in Thread, d \in Class : InUse(u, d)' => using[u][d] # s
  BY DEF InUseAlone
<1>4. Untouched'
  BY <1>1, <1>2 DEF Untouched, LiveOf
<1>5. InUseAlone'
  BY DEF InUseAlone
<1>6. InUseFits'
  BY <1>0, <1>1, <1>3 DEF InUseFits
<1>7. ListedFits'
  <2>1. <<t, c>>[1] = t /\ <<t, c>>[2] = c /\ t # POOL /\ c # NClass
    BY HeadFacts
  <2>2. FitsList(s, <<t, c>>)'
    BY <2>1 DEF FitsList
  <2>3. ASSUME NEW k \in Span, k # s, home[k] # NULL
        PROVE  FitsList(k, home[k])'
    <3>1. home[k][1] = POOL \/ home[k][1] \in Thread
      BY <2>3, HeadFacts DEF TypeOK
    <3> QED
      BY <2>3, <3>1 DEF ListedFits, FitsList
  <2> QED
    BY <1>1, <2>2, <2>3 DEF ListedFits
<1>8. OwnersKept'
  BY <1>1 DEF OwnersKept
<1>9. Reachable'
  BY <1>0, <1>1, HeadFacts DEF Reachable, TypeOK, Thr
<1> QED
  BY <1>4, <1>5, <1>6, <1>7, <1>8, <1>9

\* ... when it is exhausted,
LEMMA MallocExhaustedStep ==
  ASSUME TypeOK, TypeOK', Calls, SoundInv, NEW t \in Thread, NEW c \in Class,
         MallocExhausted(t, c)
  PROVE  SoundInv'
<1> USE DEF SoundInv
<1> DEFINE s == using[t][c]
<1>0. /\ Acts(t) /\ BeginScan(t, c) /\ pc[t] = "idle" /\ thr[t] # "exited"
      /\ s # NULL /\ span[s].free_cnt = 0
      /\ links' = ListAddTail(links, s, <<t, c>>) /\ home' = [home EXCEPT ![s] = <<t, c>>]
      /\ UNCHANGED <<thr, using, carved, live>>
  BY DEF Acts, Call, MallocExhausted, Enter, Quiet, poolvars
<1>1. pc'[t] = "scan" /\ ci'[t] = c /\ \A u \in Thread : u # t => pc'[u] = pc[u] /\ ci'[u] = ci[u]
  BY <1>0, OthersStay DEF BeginScan, Goto, TypeOK
<1>2. thr[t] = "ready"
  <2>1. thr[t] \in {"new", "ready", "exited"}
    BY DEF TypeOK
  <2> QED
    BY <1>0, <2>1 DEF Calls, CacheReady
<1>3. InUse(t, c) /\ s \in Span
  BY <1>0, <1>2, InUseSpan DEF InUse
<1>4. home[s] = NULL /\ s \in carved /\ span[s].owner = t /\ span[s].state = "IN_USE"
      /\ span[s].cls = c
  BY <1>3 DEF Places, InUseFits, Untouched
<1>5. /\ \A k \in Span : k # s => span'[k] = span[k]
      /\ span'[s] = [span[s] EXCEPT !.state = "SUSPEND"]
  BY <1>3 DEF MallocExhausted, TypeOK
<1>6. /\ span'[s].owner = t /\ span'[s].cls = c /\ span'[s].state = "SUSPEND"
      /\ span'[s].free_cnt = 0 /\ span'[s].free_blk = span[s].free_blk
      /\ span'[s].blk_list = span[s].blk_list
  BY <1>0, <1>3, <1>4, <1>5 DEF TypeOK, SpanRec
<1>7. ActiveHeads' = ActiveHeads
  BY <1>0, <1>1, SameHeads
<1>8. <<t, c>> \in ActiveHeads
  BY <1>0, <1>2, Nodes DEF ActiveHeads, Active, Thr
<1>9. Circular(links', ActiveHeads', home')
  BY <1>0, <1>3, <1>4, <1>7, <1>8, TypesOfLists, CircularAddTail DEF ListsInv
<1>10. \A u \in Thread, d \in Class : InUse(u, d)' <=> InUse(u, d) /\ ~(u = t /\ d = c)
  <2>1. \A d \in Class : InUse(t, d)' <=> InUse(t, d) /\ d # c
    BY <1>0, <1>1, <1>2 DEF InUse
  <2> QED
    BY <1>0, <2>1, OthersInUse
<1> HIDE DEF s
<1>11. Places'
  <2>1. \A u \in Thread : /\ pc[u] = "xlink" => pc'[u] = "xlink"
                          /\ pc[u] = "xwalk" <=> pc'[u] = "xwalk"
                          /\ pc[u] = "xwalk" => ci'[u] = ci[u]
    BY <1>0, <1>1
  <2>2. span'[s].state # "FREE" /\ s = using[t][c] /\ Places
    BY <1>6 DEF s
  <2>3. UNCHANGED <<carved, live, using>> /\ home' = [home EXCEPT ![s] = <<t, c>>]
    BY <1>0
  <2>4. /\ \A k \in Span : k # s => span'[k] = span[k]
        /\ span'[s].owner = t /\ span'[s].cls = c
        /\ pc'[t] # "xlink" => span'[s].state = "SUSPEND"
    BY <1>5, <1>6
  <2> QED
    BY <1>3, <1>10, <2>1, <2>2, <2>3, <2>4, LinkPlaces
<1>12. Accounts'
  <2>1. LiveOf(s) # {}
    <3>1. NBlk[c] \in Nat /\ NBlk[c] # 0
      BY ConstantsAssumption
    <3>2. NBlk[c] - Cardinality(LiveOf(s)) = 0
      BY <1>0, <1>4 DEF Accounts, Account, s
    <3> QED
      BY <3>1, <3>2, FS_EmptySet
  <2>2. Account(span[s], LiveOf(s))
    BY <1>4 DEF Accounts
  <2>3. Account(span'[s], LiveOf(s))
    BY <1>0, <1>4, <1>6, <2>1, <2>2 DEF Account, s
  <2>4. ASSUME NEW k \in carved
        PROVE  Account(span'[k], LiveOf(k)')
    <3>1. k \in Span /\ LiveOf(k)' = LiveOf(k) /\ Account(span[k], LiveOf(k))
      BY <1>0 DEF LiveOf, Accounts, TypeOK
    <3>2. CASE k = s
      BY <2>3, <3>1, <3>2
    <3>3. CASE k # s
      BY <1>5, <3>1, <3>3
    <3> QED
      BY <3>2, <3>3
  <2> QED
    BY <1>0, <2>4 DEF Accounts
<1>13. NoExits' /\ WalkedOver'
  <2>1. \A k \in Span : home'[k] = IF k = s THEN <<t, c>> ELSE home[k]
    BY <1>0 DEF TypeOK, s
  <2>2. \A d \in Class : <<t, c>> # <<POOL, d>>
    BY HeadFacts
  <2>3. NoExits'
    BY <1>1, <2>1, <2>2 DEF NoExits
  <2> QED
    BY <1>0, <1>1, <2>3, LoopsOver
<1>14. CursorOnList'
  BY <1>0, <1>7, <1>8, <1>9, BeginScanCursor
<1> QED
  BY <1>9, <1>11, <1>12, <1>13, <1>14 DEF ListsInv

\* ... and when the thread ends.
LEMMA ExitLinkStep ==
  ASSUME TypeOK, TypeOK', Calls, SoundInv, NEW t \in Thread, ExitLink(t)
  PROVE  SoundInv'
<1> USE DEF SoundInv
<1> DEFINE c == ci[t]
           s == using[t][c]
<1>0. /\ Acts(t) /\ pc[t] = "xlink" /\ c \in Class /\ ci'[t] = c + 1
      /\ UNCHANGED <<thr, pc, using, span, carved, live>>
      /\ s \in Span \cup {NULL}
  <2>1. c \in 0..NClass /\ c < NClass
    BY DEF ExitLink, TypeOK
  <2>2. c \in Class
    BY <2>1, ConstantsAssumption DEF Class
  <2> QED
    BY <2>2 DEF Acts, Step, ExitLink, At, poolvars, TypeOK
<1>1. \A u \in Thread : u # t => ci'[u] = ci[u]
  BY <1>0, OthersStay
<1>2. thr[t] = "ready"
  BY <1>0 DEF Calls, CacheReady
<1>3. ActiveHeads' = ActiveHeads
  BY <1>0, SameHeads
<1>4. \A u \in Thread, d \in Class : InUse(u, d)' <=> InUse(u, d) /\ ~(u = t /\ d = c)
  <2>1. \A d \in Class : d < c + 1 <=> d < c \/ d = c
    BY <1>0, ConstantsAssumption DEF Class
  <2>2. \A d \in Class : InUse(t, d)' <=> InUse(t, d) /\ d # c
    BY <1>0, <2>1, ConstantsAssumption DEF InUse, Class
  <2> QED
    BY <1>0, <2>2, OthersInUse
<1>5. CursorOnList' /\ WalkedOver' /\ Accounts'
  BY <1>0, LoopsOver, AccountsFrame
<1>6. CASE s # NULL
  <2>1. links' = ListAddTail(links, s, <<t, c>>) /\ home' = [home EXCEPT ![s] = <<t, c>>]
    BY <1>6 DEF ExitLink
  <2>2. InUse(t, c) /\ s \in Span
    <3>1. ~(c < c)
      BY <1>0, ConstantsAssumption DEF Class
    <3> QED
      BY <1>0, <1>2, <1>6, <3>1 DEF InUse
  <2>3. home[s] = NULL /\ span[s].owner = t /\ span[s].state = "IN_USE" /\ span[s].cls = c
    BY <1>0, <2>2 DEF Places, InUseFits
  <2>4. <<t, c>> \in ActiveHeads
    BY <1>0, <1>2, Nodes DEF ActiveHeads, Active, Thr
  <2>5. Circular(links', ActiveHeads', home')
    BY <1>3, <2>1, <2>2, <2>3, <2>4, TypesOfLists, CircularAddTail DEF ListsInv
  <2> HIDE DEF s, c
  <2>6. Places'
    BY <1>0, <1>1, <1>4, <2>1, <2>2, <2>3, LinkPlaces DEF s
  <2>7. NoExits'
    <3>1. \A k \in Span : home'[k] = IF k = s THEN <<t, c>> ELSE home[k]
      BY <2>1 DEF TypeOK
    <3>2. \A d \in Class : <<t, c>> # <<POOL, d>>
      BY HeadFacts
    <3> QED
      BY <1>0, <3>1, <3>2 DEF NoExits
  <2> QED
    BY <1>5, <2>5, <2>6, <2>7 DEF ListsInv
<1>7. CASE s = NULL
  <2>1. UNCHANGED <<links, home>>
    BY <1>7 DEF ExitLink
  <2>2. \A u \in Thread, d \in Class : InUse(u, d)' <=> InUse(u, d)
    BY <1>4, <1>7 DEF InUse
  <2> HIDE DEF s, c
  <2>3. Places'
    BY <1>0, <2>1, <2>2, <1>1, PlacesFrame
  <2>4. NoExits'
    BY <1>0, <2>1 DEF NoExits
  <2> QED
    BY <1>3, <1>5, <2>1, <2>3, <2>4 DEF ListsInv
<1> QED
  BY <1>6, <1>7

-----------------------------------------------------------------------------
(* get_blk.                                                                *)

\* A block that nobody holds is returned, or one beyond the end of the span.
LEMMA GetBlkOutcome ==
  ASSUME TypeOK, NEW t \in Thread, NEW s \in Span, NEW r \in SpanRec, NEW reinit \in BOOLEAN,
         GetBlk(t, s, r, reinit), Account(r, LiveOf(s)), r.state # "FREE",
         reinit => LiveOf(s) = {}
  PROVE  proc' \in {"run", "overrun"} /\ (r.free_cnt # 0 => proc' = "run")
<1>1. PICK i \in Blks(r) :
        proc' = IF reinit /\ LiveOf(s) # {} THEN "reissue"
                ELSE IF i >= NBlk[r.cls] THEN "overrun"
                ELSE IF <<s, i>> \in live THEN "reissue"
                ELSE "run"
  BY DEF GetBlk
<1>2. LiveOf(s) \in SUBSET Idx
  BY DEF LiveOf
<1>3. /\ i \notin LiveOf(s) /\ i \in Nat
      /\ r.free_cnt # 0 => i < NBlk[r.cls]
      /\ i < NBlk[r.cls] => i \in Idx
  BY <1>2, AccountTake
<1>4. NBlk[r.cls] \in Nat
  BY ConstantsAssumption DEF SpanRec
<1>5. i < NBlk[r.cls] => <<s, i>> \notin live
  BY <1>3 DEF LiveOf
<1> QED
  BY <1>1, <1>3, <1>4, <1>5

\* The accounts after a successful call.
LEMMA GetBlkRun ==
  ASSUME TypeOK, NEW t \in Thread, NEW s \in Span, NEW r \in SpanRec, NEW reinit \in BOOLEAN,
         GetBlk(t, s, r, reinit), Account(r, LiveOf(s)), r.state # "FREE", proc' = "run"
  PROVE  /\ Account(span'[s], LiveOf(s)')
         /\ \A k \in Span : k # s => LiveOf(k)' = LiveOf(k) /\ span'[k] = span[k]
         /\ span'[s].owner = r.owner /\ span'[s].state = r.state /\ span'[s].cls = r.cls
         /\ pc'[t] = "idle" /\ \A u \in Thread : u # t => pc'[u] = pc[u] /\ ci'[u] = ci[u]
<1>1. PICK i \in Blks(r) :
        /\ proc' = IF reinit /\ LiveOf(s) # {} THEN "reissue"
                   ELSE IF i >= NBlk[r.cls] THEN "overrun"
                   ELSE IF <<s, i>> \in live THEN "reissue"
                   ELSE "run"
        /\ span' = [span EXCEPT ![s] = TakeBlk(r, i)]
        /\ proc' = "run" => live' = live \cup {<<s, i>>}
        /\ Return(t)
  BY DEF GetBlk
<1>2. LiveOf(s) \in SUBSET Idx
  BY DEF LiveOf
<1>3. ~(i >= NBlk[r.cls]) /\ live' = live \cup {<<s, i>>}
  BY <1>1
<1>4. NBlk[r.cls] \in Nat
  BY ConstantsAssumption DEF SpanRec
<1>5. i \in Idx /\ Account(TakeBlk(r, i), LiveOf(s) \cup {i})
  BY <1>2, <1>3, <1>4, AccountTake
<1>6. LiveOf(s)' = LiveOf(s) \cup {i} /\ \A k \in Span : k # s => LiveOf(k)' = LiveOf(k)
  BY <1>3, <1>5, LiveMore
<1>7. span'[s] = TakeBlk(r, i) /\ \A k \in Span : k # s => span'[k] = span[k]
  BY <1>1 DEF TypeOK
<1>8. /\ TakeBlk(r, i).owner = r.owner /\ TakeBlk(r, i).state = r.state
      /\ TakeBlk(r, i).cls = r.cls
  BY TakeBlkType
<1>9. pc'[t] = "idle" /\ \A u \in Thread : u # t => pc'[u] = pc[u] /\ ci'[u] = ci[u]
  BY <1>1 DEF Return, Goto, TypeOK
<1> QED
  BY <1>5, <1>6, <1>7, <1>8, <1>9

\* The header of span s when it has been initialised, or as it is; and the
\* header r when it has come into use.
Renewed(t, s, reinit) == IF reinit THEN SpanInit(span[s], ci[t]) ELSE span[s]
Brought(t, r) == [r EXCEPT !.owner = t, !.state = "IN_USE"]

LEMMA BroughtKeeps ==
  ASSUME NEW t \in Thread, NEW r \in SpanRec
  PROVE  /\ Brought(t, r) \in SpanRec
         /\ Brought(t, r).owner = t /\ Brought(t, r).state = "IN_USE"
         /\ Brought(t, r).cls = r.cls /\ Brought(t, r).free_cnt = r.free_cnt
         /\ \A L : Account(r, L) /\ r.state # "FREE" => Account(Brought(t, r), L)
<1>1. /\ Brought(t, r) \in SpanRec
      /\ Brought(t, r).owner = t /\ Brought(t, r).state = "IN_USE"
      /\ Brought(t, r).cls = r.cls /\ Brought(t, r).free_cnt = r.free_cnt
      /\ Brought(t, r).free_blk = r.free_blk /\ Brought(t, r).blk_list = r.blk_list
  BY InstallType DEF Brought
<1> QED
  BY <1>1 DEF Account

\* A span that was on a list, or is new, comes into use.
LEMMA InstallPlaces ==
  ASSUME TypeOK, Places, NEW t \in Thread, NEW c \in Class, NEW s \in Span,
         thr[t] = "ready", pc[t] \in {"refill", "acquire"}, ci[t] = c, pc'[t] = "idle", thr' = thr,
         using' = [using EXCEPT ![t][c] = s],
         \A u \in Thread : u # t => pc'[u] = pc[u] /\ ci'[u] = ci[u] /\ pc[u] # "xwalk",
         home' = [home EXCEPT ![s] = NULL], carved' = carved \cup {s},
         \A u \in Thread, d \in Class : InUse(u, d) => using[u][d] # s,
         \A k \in Span : k # s => LiveOf(k)' = LiveOf(k) /\ span'[k] = span[k],
         span'[s].owner = t, span'[s].state = "IN_USE", span'[s].cls = c
  PROVE  Places'
<1> USE DEF Places
<1>1. \A k \in Span : home'[k] = IF k = s THEN NULL ELSE home[k]
  BY DEF TypeOK
<1>2. \A u \in Thread, d \in Class : using'[u][d] = IF u = t /\ d = c THEN s ELSE using[u][d]
  BY DEF TypeOK
<1>3. \A u \in Thread, d \in Class : InUse(u, d)' <=> InUse(u, d) \/ (u = t /\ d = c)
  <2>1. NULL # s
    BY HeadsApart
  <2>2. \A d \in Class : InUse(t, d)' <=> InUse(t, d) \/ d = c
    BY <1>2, <2>1 DEF InUse
  <2>3. \A u \in Thread, d \in Class : u # t => (InUse(u, d)' <=> InUse(u, d))
    BY <1>2 DEF InUse
  <2> QED
    BY <2>2, <2>3
<1>4. ~InUse(t, c)
  BY DEF InUse
<1>5. \A u \in Thread, d \in Class : InUse(u, d) => using[u][d] \in Span
  BY InUseSpan
<1>6. Untouched'
  BY <1>1, <1>2, <1>3, <1>4 DEF Untouched
<1>7. InUseAlone'
  BY <1>2, <1>3, <1>4 DEF InUseAlone
<1>8. InUseFits'
  BY <1>1, <1>2, <1>3, <1>4, <1>5 DEF InUseFits
<1>9. ListedFits'
  <2>1. ASSUME NEW k \in Span, k # s, home[k] # NULL
        PROVE  FitsList(k, home[k])'
    <3>1. home[k][1] = POOL \/ home[k][1] \in Thread
      BY <2>1, HeadFacts DEF TypeOK
    <3> QED
      BY <2>1, <3>1 DEF ListedFits, FitsList
  <2> QED
    BY <1>1, <2>1 DEF ListedFits
<1>10. OwnersKept'
  <2>1. \A u \in Thread : pc[u] # "xwalk"
    OBVIOUS
  <2>2. \A u \in Thread, d \in Class : <<u, d>> # NULL
    BY HeadFacts DEF Thr
  <2> DEFINE h(u, d) == <<u, d>>
  <2> HIDE DEF h
  <2>3. \A u \in Thread, d \in Class, k \in Span :
          home'[k] = h(u, d) => home[k] = h(u, d) /\ k # s
    <3>1. \A u \in Thread, d \in Class : h(u, d) # NULL
      BY <2>2 DEF h
    <3> QED
      BY ONLY <1>1, <3>1
  <2> QED
    BY <2>1, <2>3 DEF OwnersKept, h
<1>11. Reachable'
  BY <1>1, <1>2, <1>3, <1>4 DEF Reachable, TypeOK
<1> QED
  BY <1>6, <1>7, <1>8, <1>9, <1>10, <1>11

LEMMA InstallStep ==
  ASSUME TypeOK, Calls, SoundInv, proc' = "run", NEW t \in Thread, Acts(t),
         pc[t] \in {"refill", "acquire"},
         NEW s \in Span, NEW r \in SpanRec, NEW reinit \in BOOLEAN, Install(t, s, r, reinit),
         r.cls = ci[t], Account(Brought(t, r), LiveOf(s)),
         Circular(links', ActiveHeads, home'),
         home' = [home EXCEPT ![s] = NULL], carved' = carved \cup {s},
         \A u \in Thread, d \in Class : InUse(u, d) => using[u][d] # s
  PROVE  SoundInv'
<1> USE DEF SoundInv
<1> DEFINE q == Brought(t, r)
           c == ci[t]
<1>1. q \in SpanRec /\ q.owner = t /\ q.state = "IN_USE" /\ q.cls = c
  BY BroughtKeeps
<1>2. GetBlk(t, s, q, reinit) /\ using' = [using EXCEPT ![t][c] = s] /\ thr' = thr
  BY DEF Install, Brought
<1>3. c \in Class /\ thr[t] = "ready"
  BY DEF Calls, CallOK, CacheReady
<1>11. Account(q, LiveOf(s)) /\ q.state # "FREE"
  BY <1>1
<1> HIDE DEF q
<1>4. /\ Account(span'[s], LiveOf(s)')
      /\ \A k \in Span : k # s => LiveOf(k)' = LiveOf(k) /\ span'[k] = span[k]
      /\ span'[s].owner = t /\ span'[s].state = "IN_USE" /\ span'[s].cls = c
      /\ pc'[t] = "idle" /\ \A u \in Thread : u # t => pc'[u] = pc[u] /\ ci'[u] = ci[u]
  BY <1>1, <1>2, <1>11, GetBlkRun
<1>5. \A u \in Thread : u # t => pc[u] # "xwalk"
  BY OthersQuiet
<1>6. ActiveHeads' = ActiveHeads
  BY <1>2, <1>4, SameHeads
<1>12. ci[t] = c /\ \A u \in Thread : u # t => pc'[u] = pc[u] /\ ci'[u] = ci[u] /\ pc[u] # "xwalk"
  BY <1>4, <1>5
<1> HIDE DEF c
<1>7. Places'
  <2>1. Places /\ \A k \in Span : k # s => LiveOf(k)' = LiveOf(k) /\ span'[k] = span[k]
    BY <1>4
  <2> QED
    BY ONLY <2>1, TypeOK, t \in Thread, s \in Span, pc[t] \in {"refill", "acquire"},
       home' = [home EXCEPT ![s] = NULL], carved' = carved \cup {s},
       \A u \in Thread, d \in Class : InUse(u, d) => using[u][d] # s,
       <1>2, <1>3, <1>4, <1>12, InstallPlaces
<1>8. Accounts'
  BY <1>4 DEF Accounts, TypeOK
<1>9. NoExits'
  <2>1. \A k \in Span : home'[k] = IF k = s THEN NULL ELSE home[k]
    BY DEF TypeOK
  <2> QED
    BY <1>4, <2>1, HeadFacts DEF NoExits, Thr
<1>10. CursorOnList' /\ WalkedOver'
  BY <1>4, LoopsOver
<1> QED
  BY <1>6, <1>7, <1>8, <1>9, <1>10 DEF ListsInv

\* RefillLocal, AcquireSuspend and AcquireFree take the first span of a list.
TakesFrom(t, h, reinit) ==
  /\ TakeFirst(t, h, reinit) /\ ~IsEmpty(links, h)
  /\ pc[t] \in {"refill", "acquire"} /\ h \in ActiveHeads
  /\ reinit \in BOOLEAN
  /\ reinit => h[2] = NClass
  /\ ~reinit => h = <<POOL, ci[t]>>

LEMMA Takes ==
  ASSUME TypeOK, Calls, NEW t \in Thread
  PROVE  /\ RefillLocal(t) => TakesFrom(t, FreeList(t), TRUE)
         /\ AcquireSuspend(t) => TakesFrom(t, <<POOL, ci[t]>>, FALSE)
         /\ AcquireFree(t) => TakesFrom(t, FreeList(POOL), TRUE)
<1>1. pc[t] \in {"refill", "acquire"} => thr[t] = "ready" /\ ci[t] \in Class
  BY DEF Calls, CallOK, CacheReady
<1>2. \A c \in 0..NClass : <<POOL, c>> \in ActiveHeads
  BY Nodes DEF ActiveHeads, Active, Thr
<1>3. pc[t] = "refill" => FreeList(t) \in ActiveHeads
  BY <1>1, Nodes DEF ActiveHeads, Active, Thr, FreeList
<1>4. FreeList(POOL) \in ActiveHeads /\ FreeList(POOL)[2] = NClass /\ FreeList(t)[2] = NClass
  BY <1>2, Nodes DEF FreeList
<1>5. RefillLocal(t) => TakesFrom(t, FreeList(t), TRUE)
  BY <1>3, <1>4 DEF RefillLocal, At, TakesFrom
<1>6. AcquireSuspend(t) => TakesFrom(t, <<POOL, ci[t]>>, FALSE)
  BY <1>1, <1>2, Nodes DEF AcquireSuspend, SuspendEmpty, Acquiring, At, TakesFrom
<1>7. AcquireFree(t) => TakesFrom(t, FreeList(POOL), TRUE)
  BY <1>4 DEF AcquireFree, PoolEmpty, SuspendEmpty, Acquiring, At, TakesFrom
<1> QED
  BY <1>5, <1>6, <1>7

\* Its header, once it has come into use, agrees with the blocks held.
LEMMA FirstSpan ==
  ASSUME TypeOK, Calls, SoundInv, NEW t \in Thread, NEW h, NEW reinit, TakesFrom(t, h, reinit),
         NEW s, s = links.nxt[h]
  PROVE  /\ s \in Span /\ s \in carved /\ home[s] = h /\ h \in ActiveHeads
         /\ \A u \in Thread, d \in Class : InUse(u, d) => using[u][d] # s
         /\ Renewed(t, s, reinit) \in SpanRec /\ Renewed(t, s, reinit).cls = ci[t]
         /\ Account(Brought(t, Renewed(t, s, reinit)), LiveOf(s))
         /\ reinit => LiveOf(s) = {} /\ Renewed(t, s, reinit).free_cnt # 0
<1> USE DEF SoundInv
<1> DEFINE c == ci[t]
           r == Renewed(t, s, reinit)
<1>0. /\ pc[t] \in {"refill", "acquire"} /\ h \in ActiveHeads /\ ~IsEmpty(links, h)
      /\ reinit \in BOOLEAN /\ reinit => h[2] = NClass
      /\ ~reinit => h = <<POOL, c>>
  BY DEF TakesFrom
<1>1. s \in Span /\ home[s] = h
  BY <1>0, TypesOfLists, FirstOnList DEF ListsInv
<1>2. h \in ListHead /\ h # NULL
  BY <1>0, HeadFacts DEF ActiveHeads
<1>3. s \in carved
  BY <1>1, <1>2 DEF Places, Untouched
<1>4. \A u \in Thread, d \in Class : InUse(u, d) => using[u][d] # s
  BY <1>1, <1>2 DEF Places, InUseFits
<1>5. FitsList(s, h) /\ Account(span[s], LiveOf(s))
  BY <1>1, <1>2, <1>3 DEF Places, ListedFits, Accounts
<1>6. c \in Class /\ span[s] \in SpanRec
  BY <1>0, <1>1 DEF Calls, CallOK, TypeOK
<1>7. CASE reinit
  <2>1. LiveOf(s) = {}
    BY <1>0, <1>2, <1>5, <1>7 DEF FitsList, Account
  <2>2. r \in SpanRec /\ r.cls = c /\ r.free_cnt = NBlk[c]
    BY <1>6, <1>7, SpanInitType DEF Renewed
  <2>3. Account(Brought(t, r), {})
    BY <1>6, <1>7, AccountInit DEF Renewed, Brought
  <2>4. NBlk[c] # 0
    BY <1>6, ConstantsAssumption
  <2> HIDE DEF r, c
  <2> QED
    BY <1>0, <1>1, <1>3, <1>4, <2>1, <2>2, <2>3, <2>4 DEF c, r
<1>8. CASE ~reinit
  <2>1. h[1] = POOL /\ h[2] = c /\ c # NClass
    BY <1>0, <1>6, <1>8, HeadFacts
  <2>2. span[s].cls = c /\ span[s].state # "FREE"
    BY <1>5, <2>1 DEF FitsList
  <2>3. r = span[s]
    BY <1>8 DEF Renewed
  <2> HIDE DEF r, c
  <2>4. Account(Brought(t, r), LiveOf(s))
    BY <1>5, <1>6, <2>2, <2>3, BroughtKeeps
  <2> QED
    BY <1>0, <1>1, <1>3, <1>4, <1>6, <1>8, <2>2, <2>3, <2>4 DEF c, r
<1> QED
  BY <1>0, <1>7, <1>8

LEMMA TakesStep ==
  ASSUME TypeOK, Calls, SoundInv, proc' = "run", ~tainted', NEW t \in Thread, Acts(t),
         NEW h, NEW reinit, TakesFrom(t, h, reinit)
  PROVE  SoundInv'
<1> USE DEF SoundInv
<1>0. PICK s : s = links.nxt[h]
  OBVIOUS
<1>1. /\ s \in Span /\ s \in carved
      /\ \A u \in Thread, d \in Class : InUse(u, d) => using[u][d] # s
      /\ Renewed(t, s, reinit) \in SpanRec /\ Renewed(t, s, reinit).cls = ci[t]
      /\ Account(Brought(t, Renewed(t, s, reinit)), LiveOf(s))
  BY <1>0, FirstSpan
<1>2. TakeOff(s) /\ Install(t, s, Renewed(t, s, reinit), reinit) /\ carved' = carved
  BY <1>0 DEF TakesFrom, TakeFirst, poolvars, Renewed
<1>3. links' = ListDel(links, s) /\ home' = [home EXCEPT ![s] = NULL] /\ ~Taints(s)
  BY <1>2 DEF TakeOff
<1>4. Circular(links', ActiveHeads, home')
  BY <1>1, <1>3, DelCircular DEF ListsInv
<1>5. carved' = carved \cup {s}
  BY <1>1, <1>2
<1>6. pc[t] \in {"refill", "acquire"} /\ reinit \in BOOLEAN
  BY DEF TakesFrom
<1> QED
  BY <1>1, <1>2, <1>3, <1>4, <1>5, <1>6, InstallStep DEF Brought

\* A new span has no list, no blocks and no past.
LEMMA CarveStep ==
  ASSUME TypeOK, Calls, SoundInv, proc' = "run", NEW t \in Thread, Acts(t), NEW n, Carve(t, n),
         pc[t] = "acquire"
  PROVE  SoundInv'
<1> USE DEF SoundInv
<1>1. PICK s \in Span \ carved :
        carved' = carved \cup {s} /\ Install(t, s, SpanInit(span[s], ci[t]), TRUE)
  BY DEF Carve
<1>2. home[s] = NULL /\ LiveOf(s) = {}
      /\ \A u \in Thread, d \in Class : InUse(u, d) => using[u][d] # s
  BY DEF Places, Untouched
<1>3. links' = links /\ home' = home
  BY DEF Carve, memory
<1>4. home' = [home EXCEPT ![s] = NULL]
  BY <1>2, <1>3 DEF TypeOK
<1>5. ci[t] \in Class /\ span[s] \in SpanRec
  BY DEF Calls, CallOK, TypeOK
<1>6. SpanInit(span[s], ci[t]) \in SpanRec /\ SpanInit(span[s], ci[t]).cls = ci[t]
  BY <1>5, SpanInitType
<1>7. Account(Brought(t, SpanInit(span[s], ci[t])), LiveOf(s))
  BY <1>2, <1>5, AccountInit DEF Brought
<1>8. Circular(links', ActiveHeads, home')
  BY <1>3 DEF ListsInv
<1> QED
  BY <1>1, <1>2, <1>4, <1>6, <1>7, <1>8, InstallStep

\* wl_malloc takes a block of the span in use.
LEMMA MallocFastStep ==
  ASSUME TypeOK, Calls, SoundInv, proc' = "run", NEW t \in Thread, NEW c \in Class,
         MallocFast(t, c)
  PROVE  SoundInv'
<1> USE DEF SoundInv
<1>0. PICK s : s = using[t][c]
  OBVIOUS
<1>1. /\ Acts(t) /\ pc[t] = "idle" /\ thr[t] # "exited" /\ s # NULL
      /\ GetBlk(t, s, span[s], FALSE)
      /\ UNCHANGED <<thr, using, links, home, carved>>
  BY <1>0 DEF Acts, Call, MallocFast, Enter, Quiet, memory, poolvars
<1>2. thr[t] = "ready"
  <2>1. thr[t] \in {"new", "ready", "exited"}
    BY DEF TypeOK
  <2> QED
    BY <1>0, <1>1, <2>1 DEF Calls, CacheReady
<1>3. InUse(t, c) /\ s \in Span /\ span[s] \in SpanRec
  BY <1>0, <1>1, <1>2, InUseSpan DEF InUse, TypeOK
<1>4. s \in carved /\ span[s].state = "IN_USE"
  BY <1>0, <1>3 DEF Places, Untouched, InUseFits
<1>5. Account(span[s], LiveOf(s)) /\ span[s].state # "FREE"
  BY <1>4 DEF Accounts
<1>6. /\ Account(span'[s], LiveOf(s)')
      /\ \A k \in Span : k # s => LiveOf(k)' = LiveOf(k) /\ span'[k] = span[k]
      /\ span'[s].owner = span[s].owner /\ span'[s].state = span[s].state
      /\ span'[s].cls = span[s].cls
      /\ pc'[t] = "idle" /\ \A u \in Thread : u # t => pc'[u] = pc[u] /\ ci'[u] = ci[u]
  BY <1>1, <1>3, <1>5, GetBlkRun
<1>7. ActiveHeads' = ActiveHeads
  BY <1>1, <1>6, SameHeads
<1>8. \A u \in Thread, d \in Class : InUse(u, d)' <=> InUse(u, d)
  BY <1>1, <1>6 DEF InUse
<1>9. Places'
  <2>1. \A k \in Span \ carved : LiveOf(k)' = {}
    BY <1>4, <1>6 DEF Places, Untouched
  <2> QED
    BY <1>1, <1>6, <1>8, <2>1, HeadersFrame
<1>10. Accounts'
  BY <1>1, <1>6 DEF Accounts, TypeOK
<1>11. NoExits' /\ CursorOnList' /\ WalkedOver'
  BY <1>1, <1>6, LoopsOver DEF NoExits
<1> QED
  BY <1>1, <1>7, <1>9, <1>10, <1>11 DEF ListsInv

-----------------------------------------------------------------------------
(* span_free_blk.                                                          *)

\* A span of which all blocks are free joins the list h.
LEMMA CollectPlaces ==
  ASSUME TypeOK, Places, NEW s \in carved, NEW h \in ListHead, h[2] = NClass,
         home' = [home EXCEPT ![s] = h], carved' = carved,
         span[s].state = "SUSPEND", span'[s].state = "FREE",
         \A k \in Span : k # s => span'[k] = span[k],
         \A k \in Span \ carved : LiveOf(k)' = {},
         \A u \in Thread, c \in Class :
           (InUse(u, c)' <=> InUse(u, c)) /\ using'[u][c] = using[u][c],
         \A u \in Thread : /\ pc'[u] \in {"xlink", "xwalk"} <=> pc[u] \in {"xlink", "xwalk"}
                           /\ pc[u] = "xwalk" => pc'[u] = "xwalk" /\ ci'[u] = ci[u]
  PROVE  Places'
<1> USE DEF Places
<1>1. \A k \in Span : home'[k] = IF k = s THEN h ELSE home[k]
  BY DEF TypeOK
<1>2. s \in Span /\ \A u \in Thread, c \in Class : InUse(u, c) => using[u][c] \in Span
  BY InUseSpan DEF TypeOK
<1>3. \A u \in Thread, c \in Class : InUse(u, c) => using[u][c] # s
  BY DEF InUseFits
<1>4. Untouched'
  BY <1>1 DEF Untouched
<1>5. InUseAlone'
  BY DEF InUseAlone
<1>6. InUseFits'
  BY <1>1, <1>2, <1>3 DEF InUseFits
<1>7. ListedFits'
  <2>1. FitsList(s, h)'
    BY DEF FitsList
  <2>2. ASSUME NEW k \in Span, k # s, home[k] # NULL
        PROVE  FitsList(k, home[k])'
    <3>1. home[k][1] = POOL \/ home[k][1] \in Thread
      BY <2>2, HeadFacts DEF TypeOK
    <3> QED
      BY <2>2, <3>1 DEF ListedFits, FitsList
  <2> QED
    BY <1>1, <2>1, <2>2 DEF ListedFits
<1>8. OwnersKept'
  <2>1. \A u \in Thread, c \in Class, k \in Span :
          home'[k] = <<u, c>> => home[k] = <<u, c>> /\ k # s
    BY <1>1, HeadFacts
  <2> QED
    BY <2>1 DEF OwnersKept
<1>9. Reachable'
  <2>1. \A k \in carved' : k \in carved /\ k \in Span
    BY DEF TypeOK
  <2>2. \A k \in Span, u \in Thread, c \in Class :
          InUse(u, c) /\ using[u][c] = k => InUse(u, c)' /\ using'[u][c] = k
    OBVIOUS
  <2>3. h # NULL
    BY HeadFacts
  <2> QED
    BY <1>1, <2>1, <2>2, <2>3 DEF Reachable
<1> QED
  BY <1>4, <1>5, <1>6, <1>7, <1>8, <1>9

LEMMA FreeBlkStep ==
  ASSUME TypeOK, Calls, SoundInv, ~tainted', NEW t \in Thread, Acts(t),
         NEW s \in Span, NEW i \in Idx, <<s, i>> \in live,
         NEW h \in ListHead, h[2] = NClass, FreeBlk(s, i, h),
         Collected(span[s]) => h \in ActiveHeads,
         pc[t] \in {"idle", "pfree"}, pc'[t] = "idle", UNCHANGED <<thr, using, carved>>
  PROVE  SoundInv'
<1> USE DEF SoundInv
<1>1. s \in carved /\ span[s] \in SpanRec /\ LiveOf(s) \in SUBSET Idx /\ i \in LiveOf(s)
  BY DEF LiveOf, Places, Untouched, TypeOK
<1>2. Account(span[s], LiveOf(s))
  BY <1>1 DEF Accounts
<1>3. Account(PutBlk(span[s], i), LiveOf(s) \ {i})
  BY <1>1, <1>2, AccountPut
<1>4. /\ PutBlk(span[s], i).cls = span[s].cls /\ PutBlk(span[s], i).owner = span[s].owner
      /\ Collected(span[s]) => PutBlk(span[s], i).state = "FREE"
      /\ ~Collected(span[s]) => PutBlk(span[s], i).state = span[s].state
  BY <1>1, PutBlkType
<1>5. span'[s] = PutBlk(span[s], i) /\ \A k \in Span : k # s => span'[k] = span[k]
  BY DEF FreeBlk, TypeOK
<1>6. LiveOf(s)' = LiveOf(s) \ {i} /\ \A k \in Span : k # s => LiveOf(k)' = LiveOf(k)
  BY LiveLess DEF FreeBlk
<1>7. Accounts'
  BY <1>3, <1>5, <1>6 DEF Accounts, TypeOK
<1>8. \A u \in Thread : u # t => pc'[u] = pc[u] /\ ci'[u] = ci[u]
  BY OthersStay
<1>9. \A u \in Thread, c \in Class : InUse(u, c)' <=> InUse(u, c)
  BY <1>8 DEF InUse
<1>10. ActiveHeads' = ActiveHeads
  BY SameHeads
<1>11. CursorOnList' /\ WalkedOver'
  BY LoopsOver
<1>12. \A k \in Span \ carved : LiveOf(k)' = {}
  BY <1>1, <1>6 DEF Places, Untouched
<1>13. \A u \in Thread : /\ pc'[u] \in {"xlink", "xwalk"} <=> pc[u] \in {"xlink", "xwalk"}
                         /\ pc[u] = "xwalk" => pc'[u] = "xwalk" /\ ci'[u] = ci[u]
  BY <1>8
<1>14. CASE ~Collected(span[s])
  <2>1. UNCHANGED <<links, home>>
    BY <1>14 DEF FreeBlk, memory
  <2>2. \A k \in Span : /\ span'[k].owner = span[k].owner /\ span'[k].state = span[k].state
                        /\ span'[k].cls = span[k].cls
    BY <1>4, <1>5, <1>14
  <2>3. Places'
    BY <1>9, <1>12, <1>13, <2>1, <2>2, HeadersFrame
  <2>4. NoExits'
    BY <1>8, <2>1 DEF NoExits
  <2> QED
    BY <1>7, <1>10, <1>11, <2>1, <2>3, <2>4 DEF ListsInv
<1>15. CASE Collected(span[s])
  <2> DEFINE l == ListDel(links, s)
             g == [home EXCEPT ![s] = NULL]
  <2>1. links' = ListAddTail(l, s, h) /\ home' = [home EXCEPT ![s] = h] /\ ~Taints(s)
    BY <1>15 DEF FreeBlk
  <2>2. Circular(l, ActiveHeads, g)
    BY <2>1, DelCircular DEF ListsInv
  <2>3. l \in Links /\ g \in Homes /\ g[s] = NULL /\ ActiveHeads \in SUBSET ListHead
    BY TypesOfLists, ListDelType, Nodes DEF Homes
  <2>4. home' = [g EXCEPT ![s] = h]
    BY <2>1, TypesOfLists DEF Homes
  <2> HIDE DEF l, g
  <2>5. Circular(links', ActiveHeads', home')
    <3>1. Circular(ListAddTail(l, s, h), ActiveHeads, [g EXCEPT ![s] = h])
      BY <1>15, <2>2, <2>3, CircularAddTail
    <3> QED
      BY <1>10, <2>1, <2>4, <3>1
  <2>6. span[s].state = "SUSPEND" /\ span'[s].state = "FREE"
    BY <1>4, <1>5, <1>15 DEF Collected
  <2>7. Places'
    BY <1>1, <1>5, <1>9, <1>12, <1>13, <2>1, <2>6, CollectPlaces
  <2>8. NoExits'
    <3>1. \A k \in Span : home'[k] = IF k = s THEN h ELSE home[k]
      BY <2>1 DEF TypeOK
    <3>2. \A c \in Class : h # <<POOL, c>>
      BY HeadFacts
    <3> QED
      BY <1>8, <3>1, <3>2 DEF NoExits
  <2> QED
    BY <1>7, <1>11, <2>5, <2>7, <2>8 DEF ListsInv
<1> QED
  BY <1>14, <1>15

\* wl_free, on a span of a thread and on one of the pool.
LEMMA FreeStep ==
  ASSUME TypeOK, Calls, SoundInv, ~tainted', NEW t \in Thread, FreeCached(t) \/ FreePool(t)
  PROVE  SoundInv'
<1>1. \A o \in Thr : FreeList(o) \in ListHead /\ FreeList(o)[2] = NClass
  BY Nodes DEF FreeList
<1>2. CASE FreeCached(t)
  <2>1. PICK b \in Held : /\ Enter(t) /\ ~NoCache(t, b[1]) /\ FreeBlk(b[1], b[2], FreeList(t))
                          /\ UNCHANGED <<thr, pc, using, carved>>
    BY <1>2 DEF FreeCached, poolvars
  <2>2. PICK s \in Span, i \in Idx : b = <<s, i>> /\ b \in live
    BY <2>1 DEF Held, TypeOK, Block
  <2>3. Collected(span[s]) => FreeList(t) \in ActiveHeads
    <3>1. thr[t] \in {"new", "ready", "exited"} /\ thr[t] # "exited" /\ pc[t] = "idle"
      BY <2>1 DEF Enter, Quiet, TypeOK
    <3>2. Collected(span[s]) => thr[t] = "ready"
      BY <2>1, <2>2, <3>1 DEF NoCache
    <3> QED
      BY <1>1, <3>1, <3>2 DEF ActiveHeads, Active, FreeList, Thr
  <2>4. Acts(t) /\ pc[t] = "idle" /\ FreeBlk(s, i, FreeList(t))
    BY <1>2, <2>1, <2>2 DEF Acts, Call, Enter, Quiet
  <2> QED
    BY <1>1, <2>1, <2>2, <2>3, <2>4, FreeBlkStep DEF Thr
<1>3. CASE FreePool(t)
  <2>1. /\ Acts(t) /\ pc[t] = "pfree" /\ pc'[t] = "idle"
        /\ FreeBlk(arg[t][1], arg[t][2], FreeList(POOL)) /\ UNCHANGED <<thr, using, carved>>
    BY <1>3 DEF Acts, Step, FreePool, At, Return, Goto, TypeOK
  <2>2. PICK s \in Span, i \in Idx : arg[t] = <<s, i>> /\ arg[t] \in live
    BY <2>1 DEF Calls, CallOK, ArgsHeld, Block
  <2>3. FreeList(POOL) \in ActiveHeads
    BY <1>1 DEF ActiveHeads, Active, FreeList, Thr
  <2> QED
    BY <1>1, <2>1, <2>2, <2>3, FreeBlkStep DEF Thr
<1> QED
  BY <1>2, <1>3

-----------------------------------------------------------------------------
(* thread_exit.                                                            *)

\* A span of the list passes to the pool, and the cursor goes on.
LEMMA ExitWalkStep ==
  ASSUME TypeOK, Calls, SoundInv, NEW t \in Thread, ExitWalk(t)
  PROVE  SoundInv'
<1> USE DEF SoundInv, ListsInv
<1>0. PICK s, c : s = cur[t] /\ c = ci[t]
  OBVIOUS
<1>1. /\ Acts(t) /\ pc[t] = "xwalk" /\ c < NClass /\ s \in Span
      /\ span' = [span EXCEPT ![s].owner = POOL] /\ cur'[t] = links.nxt[s]
      /\ UNCHANGED <<thr, pc, ci, using, links, home, carved, live>>
  BY <1>0 DEF Acts, Step, ExitWalk, At, memory, poolvars, TypeOK
<1>2. \A u \in Thread : u # t => pc[u] \notin {"scan", "xwalk"}
  BY <1>1, OthersQuiet
<1>3. s \in On(ActiveHeads, home) /\ home[s] = <<t, c>>
  BY <1>0, <1>1 DEF CursorOnList, Of
<1>4. /\ \A k \in Span : k # s => span'[k] = span[k]
      /\ span'[s].owner = POOL /\ span'[s].state = span[s].state /\ span'[s].cls = span[s].cls
      /\ span'[s].free_cnt = span[s].free_cnt /\ span'[s].free_blk = span[s].free_blk
      /\ span'[s].blk_list = span[s].blk_list
  BY <1>1 DEF TypeOK, SpanRec
<1>5. ActiveHeads' = ActiveHeads
  BY <1>1, SameHeads
<1>6. CursorOnList'
  <2>1. links.nxt[s] \in On(ActiveHeads, home) /\ Of(home, links.nxt[s]) = <<t, c>>
    BY <1>1, <1>3 DEF Circular, Neighbours, Of
  <2> QED
    BY <1>0, <1>1, <1>2, <1>5, <2>1 DEF CursorOnList, On, Linked, Of
<1>7. WalkedOver'
  <2>1. Passed(t)' = Passed(t) \cup {s}
    BY <1>0, <1>1, <1>3, <1>4 DEF Passed
  <2>2. \A n \in Passed(t) : links.nxt[n] = s \/ links.nxt[n] \in Passed(t)
    BY <1>0, <1>1 DEF WalkedOver
  <2> QED
    BY <1>1, <1>2, <2>1, <2>2 DEF WalkedOver
<1>8. \A u \in Thread, d \in Class : InUse(u, d)' <=> InUse(u, d)
  BY <1>1 DEF InUse
<1>9. <<t, c>> # NULL /\ t # POOL /\ <<t, c>>[1] = t /\ <<t, c>>[2] = c
  <2>1. c \in 0..NClass
    BY <1>0 DEF TypeOK
  <2> QED
    BY <2>1, HeadFacts DEF Thr
<1>10. Places'
  <2> USE DEF Places
  <2>1. Untouched' /\ InUseAlone'
    BY <1>1, <1>8 DEF Untouched, LiveOf, InUseAlone
  <2>2. InUseFits'
    <3>1. \A u \in Thread, d \in Class : InUse(u, d) => using[u][d] # s /\ using[u][d] \in Span
      BY <1>3, <1>9, InUseSpan DEF InUseFits
    <3> QED
      BY <1>1, <1>4, <1>8, <3>1 DEF InUseFits
  <2>3. ListedFits'
    <3>1. FitsList(s, <<t, c>>)'
      BY <1>1, <1>3, <1>4, <1>9 DEF ListedFits, FitsList
    <3>2. ASSUME NEW k \in Span, k # s, home[k] # NULL
          PROVE  FitsList(k, home[k])'
      BY <1>1, <1>4, <3>2 DEF ListedFits, FitsList
    <3> QED
      BY <1>1, <1>3, <3>1, <3>2 DEF ListedFits
  <2>4. OwnersKept'
    BY <1>0, <1>1, <1>3, <1>4 DEF OwnersKept
  <2>5. Reachable'
    BY <1>1, <1>4, <1>8 DEF Reachable, TypeOK
  <2> QED
    BY <2>1, <2>2, <2>3, <2>4, <2>5
<1>11. Accounts'
  <2>1. ASSUME NEW k \in carved
        PROVE  Account(span'[k], LiveOf(k)')
    <3>1. k \in Span /\ LiveOf(k)' = LiveOf(k) /\ Account(span[k], LiveOf(k))
      BY <1>1 DEF LiveOf, Accounts, TypeOK
    <3> QED
      BY <1>4, <3>1 DEF Account
  <2> QED
    BY <1>1, <2>1 DEF Accounts
<1>12. NoExits'
  BY <1>1 DEF NoExits
<1> QED
  BY <1>1, <1>5, <1>6, <1>7, <1>10, <1>11, <1>12

\* At the end of the walk every span of the list is the pool's: one that is
\* not has a predecessor that is not, and so on without end.
LEMMA AllWalked ==
  ASSUME TypeOK, Calls, SoundInv, NEW t \in Thread, pc[t] = "xwalk", ci[t] < NClass,
         cur[t] = <<t, ci[t]>>
  PROVE  \A s \in Span : home[s] = <<t, ci[t]>> => span[s].owner = POOL
<1> USE DEF SoundInv, ListsInv
<1>0. PICK h : h = <<t, ci[t]>>
  OBVIOUS
<1>1. h \in ListHead /\ h \notin Span
  <2>1. ci[t] \in 0..NClass
    BY DEF TypeOK
  <2> QED
    BY <1>0, <2>1, Nodes, HeadsApart DEF Thr
<1> DEFINE R == {s \in Span : home[s] = h /\ span[s].owner # POOL}
<1> SUFFICES ASSUME R # {} PROVE FALSE
  BY <1>0
<1>2. R \in SUBSET Linked(ActiveHeads, home)
  BY <1>1, HeadFacts DEF Linked, Circular
<1>3. PICK s \in R : links.prv[s] \notin R
  BY <1>2 DEF Circular, NoRing
<1>4. PICK p : p = links.prv[s]
  OBVIOUS
<1>5. s \in On(ActiveHeads, home) /\ s \in Span /\ home[s] = h
  BY <1>2, <1>3 DEF On
<1>6. p \in On(ActiveHeads, home) /\ Of(home, p) = h /\ links.nxt[p] = s
  BY <1>4, <1>5 DEF Circular, Neighbours, Of
<1>7. p \in Passed(t)
  BY <1>0, <1>3, <1>4, <1>6 DEF Passed, Of
<1>8. links.nxt[p] = h \/ links.nxt[p] \in Passed(t)
  BY <1>0, <1>7 DEF WalkedOver
<1> QED
  BY <1>0, <1>1, <1>3, <1>6, <1>8 DEF Passed

\* The list g of thread t goes to the pool.
LEMMA SplicePlaces ==
  ASSUME TypeOK, Places, NEW t \in Thread, pc[t] = "xwalk", NEW g, g = <<t, ci[t]>>,
         home' = Moved(home, g, <<POOL, ci[t]>>), UNCHANGED <<carved, span, live, using>>,
         \A u \in Thread, d \in Class : InUse(u, d)' <=> InUse(u, d),
         ci[t] # NClass => \A s \in Span : home[s] = g => span[s].owner = POOL,
         \A s \in Span : home[s] # NULL /\ home[s][1] = t /\ home[s] # g => pc'[t] = "xwalk",
         \A u \in Thread : u # t => pc'[u] = pc[u] /\ ci'[u] = ci[u]
  PROVE  Places'
<1> USE DEF Places
<1>0. PICK c : c = ci[t]
  OBVIOUS
<1>1. c \in 0..NClass /\ g = <<t, c>>
  BY <1>0 DEF TypeOK
<1>2. /\ g # NULL /\ g[1] = t /\ g[2] = c /\ t # POOL
      /\ <<POOL, c>> # NULL /\ <<POOL, c>>[1] = POOL /\ <<POOL, c>>[2] = c
  BY <1>1, HeadFacts DEF Thr
<1>3. \A k \in Span : home'[k] = IF home[k] = g THEN <<POOL, c>> ELSE home[k]
  BY <1>0 DEF Moved
<1>4. \A k \in Span : home'[k] = NULL <=> home[k] = NULL
  BY <1>2, <1>3
<1>5. \A u \in Thread, d \in Class : InUse(u, d) => using[u][d] \in Span
  BY InUseSpan
<1>6. Untouched'
  BY <1>4 DEF Untouched, LiveOf
<1>7. InUseAlone' /\ InUseFits'
  BY <1>4, <1>5 DEF InUseAlone, InUseFits
<1>8. ListedFits'
  <2>1. ASSUME NEW k \in Span, home[k] = g
        PROVE  FitsList(k, <<POOL, c>>)'
    <3>1. FitsList(k, g)
      BY <1>2, <2>1 DEF ListedFits
    <3> QED
      BY <1>0, <1>2, <2>1, <3>1 DEF FitsList
  <2>2. ASSUME NEW k \in Span, home[k] # g, home[k] # NULL
        PROVE  FitsList(k, home[k])'
    <3>1. home[k][1] = POOL \/ home[k][1] \in Thread
      BY <2>2, HeadFacts DEF TypeOK
    <3>2. FitsList(k, home[k])
      BY <2>2 DEF ListedFits
    <3>3. home[k][1] = t => pc'[t] = "xwalk"
      BY <2>2
    <3>4. home[k][1] \in Thread /\ home[k][1] # t => pc'[home[k][1]] = pc[home[k][1]]
      OBVIOUS
    <3>5. home'[k] = home[k]
      BY <1>3, <2>2
    <3> QED
      BY <3>1, <3>2, <3>3, <3>4, <3>5 DEF FitsList
  <2> QED
    BY <1>3, <1>4, <2>1, <2>2 DEF ListedFits
<1>9. OwnersKept'
  <2>1. ASSUME NEW u \in Thread, NEW d \in Class, NEW k \in Span, home'[k] = <<u, d>>
        PROVE  home[k] = <<u, d>> /\ ~(u = t /\ d = c)
    BY <1>1, <1>2, <1>3, <2>1, HeadFacts
  <2>2. ASSUME NEW u \in Thread, NEW d \in Class, NEW k \in Span, home'[k] = <<u, d>>,
               ~(pc'[u] = "xwalk" /\ ci'[u] = d)
        PROVE  span'[k].owner = u
    <3>1. home[k] = <<u, d>> /\ ~(u = t /\ d = c)
      BY <2>1, <2>2
    <3>2. ~(pc[u] = "xwalk" /\ ci[u] = d)
      BY <1>0, <2>2, <3>1
    <3> QED
      BY <3>1, <3>2 DEF OwnersKept
  <2> QED
    BY <2>2 DEF OwnersKept
<1>10. Reachable'
  <2>1. \A k \in carved' : k \in carved /\ k \in Span
    BY DEF TypeOK
  <2>2. \A k \in Span, u \in Thread, d \in Class :
          InUse(u, d) /\ using[u][d] = k => InUse(u, d)' /\ using'[u][d] = k
    OBVIOUS
  <2> QED
    BY <1>4, <2>1, <2>2 DEF Reachable
<1> QED
  BY <1>6, <1>7, <1>8, <1>9, <1>10

\* The list of a class,
LEMMA ExitSpliceStep ==
  ASSUME TypeOK, TypeOK', Calls, SoundInv, NEW t \in Thread, ExitSplice(t)
  PROVE  SoundInv'
<1> USE DEF SoundInv, ListsInv
<1>0. PICK c, g, e : c = ci[t] /\ g = <<t, c>> /\ e = <<POOL, c>>
  OBVIOUS
<1>1. /\ Acts(t) /\ pc[t] = "xwalk" /\ c < NClass /\ cur[t] = g
      /\ links' = ListSpliceTail(links, g, e) /\ home' = Moved(home, g, e)
      /\ ci'[t] = c + 1 /\ cur'[t] = links'.nxt[<<t, c + 1>>]
      /\ UNCHANGED <<thr, pc, using, span, carved, live>>
  BY <1>0 DEF Acts, Step, ExitSplice, Rehome, Moved, At, poolvars, TypeOK
<1>2. c \in Class /\ c \in 0..NClass /\ c + 1 \in 0..NClass
  <2>1. c \in 0..NClass
    BY <1>0 DEF TypeOK
  <2> QED
    BY <1>1, <2>1, ConstantsAssumption DEF Class
<1>3. thr[t] = "ready" /\ \A u \in Thread : u # t => ci'[u] = ci[u] /\ pc[u] \notin {"scan", "xwalk"}
  BY <1>1, OthersStay, OthersQuiet DEF Calls, CacheReady
<1>4. g \in ListHead /\ e \in ListHead /\ g # e /\ <<t, c + 1>> \in ListHead
  BY <1>0, <1>2, Nodes, HeadFacts DEF Thr
<1>5. g \in ActiveHeads /\ e \in ActiveHeads
  BY <1>0, <1>1, <1>2, <1>3, <1>4 DEF ActiveHeads, Active
<1>6. ActiveHeads' = ActiveHeads \ {g}
  <2>1. \A h \in ListHead : h[1] = t => (h[2] >= c + 1 <=> h[2] >= c /\ h # g)
    <3>1. \A h \in ListHead : h[2] \in Nat /\ h = <<h[1], h[2]>>
      BY HeadFacts
    <3>2. c \in Nat
      BY <1>2
    <3> QED
      BY <1>0, <3>1, <3>2
  <2>2. \A h \in ListHead : h[1] # t => h # g /\ (h[1] = POOL \/ h[1] \in Thread)
    BY <1>0, HeadFacts
  <2>3. \A h \in ListHead : h[1] = t => h[1] # POOL
    BY HeadFacts
  <2> QED
    BY <1>0, <1>1, <1>3, <2>1, <2>2, <2>3 DEF ActiveHeads, Active
<1>7. Circular(links', ActiveHeads', home')
  BY <1>1, <1>4, <1>5, <1>6, TypesOfLists, CircularSplice
<1>8. \A u \in Thread, d \in Class : InUse(u, d)' <=> InUse(u, d)
  BY <1>1, <1>3 DEF InUse
<1>9. Places'
  <2>1. \A s \in Span : home[s] = g => span[s].owner = POOL
    BY <1>0, <1>1, AllWalked
  <2> QED
    BY <1>0, <1>1, <1>3, <1>8, <2>1, SplicePlaces
<1>10. \A s \in Span : home'[s] = <<t, c + 1>> => home[s] = <<t, c + 1>>
  BY <1>0, <1>1, HeadFacts DEF Moved
<1>11. CursorOnList'
  <2>1. <<t, c + 1>> \in ActiveHeads'
    <3>1. c + 1 # c
      BY <1>2
    <3> QED
      BY <1>0, <1>1, <1>2, <1>3, <1>4, <1>6, <3>1 DEF ActiveHeads, Active
  <2>2. links' \in Links /\ home' \in Homes /\ ActiveHeads' \in SUBSET ListHead
    BY DEF TypeOK, Links, Homes, ActiveHeads
  <2>3. \A l \in Links, A \in SUBSET ListHead, hm \in Homes : \A h \in A :
          Circular(l, A, hm) => l.nxt[h] \in On(A, hm) /\ Of(hm, l.nxt[h]) = h
    BY FirstOnList
  <2>4. cur'[t] \in On(ActiveHeads', home') /\ Of(home', cur'[t]) = <<t, c + 1>>
    BY <1>1, <1>7, <2>1, <2>2, <2>3
  <2> QED
    BY <1>1, <1>3, <2>4 DEF CursorOnList, On, Linked, Of
<1>12. WalkedOver'
  <2>1. ASSUME c + 1 < NClass
        PROVE  Passed(t)' = {<<t, c + 1>>}
    <3>1. c + 1 \in Class /\ c + 1 # c
      BY <1>2, <2>1, ConstantsAssumption DEF Class
    <3>2. \A s \in Span : home[s] = <<t, c + 1>> => span[s].owner # POOL
      BY <1>0, <3>1, HeadFacts DEF Places, OwnersKept
    <3> QED
      BY <1>1, <1>10, <3>2 DEF Passed
  <2> QED
    BY <1>1, <1>3, <2>1 DEF WalkedOver
<1>13. NoExits'
  BY <1>1 DEF NoExits
<1> QED
  BY <1>1, <1>7, <1>9, <1>11, <1>12, <1>13, AccountsFrame

\* and at last the free spans.
LEMMA ExitDoneStep ==
  ASSUME TypeOK, Calls, SoundInv, NEW t \in Thread, ExitDone(t)
  PROVE  SoundInv'
<1> USE DEF SoundInv, ListsInv
<1>0. PICK g, e : g = <<t, NClass>> /\ e = <<POOL, NClass>>
  OBVIOUS
<1>1. /\ Acts(t) /\ pc[t] = "xwalk" /\ ci[t] = NClass /\ pc'[t] = "idle"
      /\ links' = ListSpliceTail(links, g, e) /\ home' = Moved(home, g, e)
      /\ thr'[t] = "exited" /\ UNCHANGED <<using, span, carved, live>>
  BY <1>0 DEF Acts, Step, ExitDone, Rehome, Moved, FreeList, Return, Goto, At, TypeOK
<1>2. thr[t] = "ready"
      /\ \A u \in Thread : u # t => pc'[u] = pc[u] /\ ci'[u] = ci[u] /\ thr'[u] = thr[u]
  BY <1>1, OthersStay DEF Calls, CacheReady
<1>3. g \in ListHead /\ e \in ListHead /\ g # e
  BY <1>0, Nodes, HeadFacts DEF Thr
<1>4. g \in ActiveHeads /\ e \in ActiveHeads
  BY <1>0, <1>1, <1>2, <1>3, ConstantsAssumption DEF ActiveHeads, Active
<1>5. \A h \in ActiveHeads : h[1] = t => h = g
  <2>1. \A h \in ActiveHeads : h[1] = t => h[2] >= NClass /\ h[2] \in 0..NClass /\ h = <<h[1], h[2]>>
    BY <1>1, <1>2, HeadFacts DEF ActiveHeads, Active
  <2>2. \A n \in 0..NClass : n >= NClass => n = NClass
    BY ConstantsAssumption
  <2> QED
    BY <1>0, <2>1, <2>2
<1>6. ActiveHeads' = ActiveHeads \ {g}
  <2>1. \A h \in ListHead : h[1] # t => h # g /\ (h[1] = POOL \/ h[1] \in Thread)
    BY <1>0, HeadFacts
  <2>2. \A h \in ListHead : h[1] = t => h[1] # POOL
    BY HeadFacts
  <2>3. \A h \in ListHead : h[1] # t => (Active(h)' <=> Active(h))
    BY <1>2, <2>1 DEF Active
  <2>4. \A h \in ListHead : h[1] = t => ~Active(h)'
    BY <1>1, <2>2 DEF Active
  <2> QED
    BY <1>5, <2>1, <2>3, <2>4 DEF ActiveHeads
<1>7. Circular(links', ActiveHeads', home')
  BY <1>1, <1>3, <1>4, <1>6, TypesOfLists, CircularSplice
<1>8. \A u \in Thread, d \in Class : InUse(u, d)' <=> InUse(u, d)
  BY <1>1, <1>2 DEF InUse
<1>9. Places'
  <2>1. \A s \in Span : home[s] # NULL /\ home[s][1] = t => home[s] = g
    BY <1>5 DEF Circular
  <2> QED
    BY <1>0, <1>1, <1>2, <1>8, <2>1, SplicePlaces
<1>10. CursorOnList' /\ WalkedOver' /\ NoExits'
  BY <1>1, LoopsOver DEF NoExits
<1> QED
  BY <1>1, <1>7, <1>9, <1>10, AccountsFrame

\* A new thread starts: nothing of the old one's cache is on a list.
LEMMA ThreadStartStep ==
  ASSUME TypeOK, Calls, SoundInv, NEW t \in Thread, ThreadStart(t)
  PROVE  SoundInv'
<1> USE DEF SoundInv, ListsInv
<1>1. /\ Acts(t) /\ pc[t] = "idle" /\ thr[t] = "exited" /\ thr'[t] = "new"
      /\ UNCHANGED <<pc, ci, span, home, carved, live>>
      /\ links' = [nxt |-> [n \in Node |-> IF n \in CacheHeads(t) THEN NULL ELSE links.nxt[n]],
                   prv |-> [n \in Node |-> IF n \in CacheHeads(t) THEN NULL ELSE links.prv[n]]]
  BY DEF Acts, Call, ThreadStart, Quiet, poolvars, TypeOK
<1>2. \A u \in Thread : u # t => thr'[u] = thr[u] /\ using'[u] = using[u]
  BY <1>1, OthersStay
<1>3. \A h \in ListHead : Active(h)' <=> Active(h)
  BY <1>1, <1>2, HeadFacts DEF Active
<1>4. ActiveHeads' = ActiveHeads
  BY <1>3 DEF ActiveHeads
<1>5. \A n \in On(ActiveHeads, home) : n \in Node /\ n \notin CacheHeads(t)
  BY <1>1, HeadFacts, HeadsApart DEF On, Linked, CacheHeads, ActiveHeads, Active, ListHead, Node
<1>6. Circular(links', ActiveHeads, home)
  <2>1. \A n \in On(ActiveHeads, home) :
          links'.nxt[n] = links.nxt[n] /\ links'.prv[n] = links.prv[n]
    BY <1>1, <1>5
  <2> QED
    BY <2>1, TypesOfLists, CircularSame
<1>7. \A u \in Thread, d \in Class :
        (InUse(u, d)' <=> InUse(u, d)) /\ (InUse(u, d) => using'[u][d] = using[u][d])
  BY <1>1, <1>2 DEF InUse
<1>8. Places'
  BY <1>1, <1>7, PlacesFrame
<1>9. CursorOnList' /\ WalkedOver' /\ NoExits'
  BY <1>1, LoopsOver DEF NoExits
<1> QED
  BY <1>1, <1>4, <1>6, <1>8, <1>9, AccountsFrame

-----------------------------------------------------------------------------
(* Outcomes.                                                               *)

\* The cursor of a loop, and the first node of a list that is not empty, are
\* what they are taken for.
LEMMA NotWild ==
  ASSUME TypeOK, Calls, SoundInv, NEW t \in Thread
  PROVE  ~Wild(t)
<1> USE DEF SoundInv, ListsInv
<1> SUFFICES ASSUME Wild(t) PROVE FALSE
  OBVIOUS
<1>1. CASE /\ pc[t] = "scan" \/ (pc[t] = "xwalk" /\ ci[t] < NClass)
           /\ cur[t] \notin Span \cup {<<t, ci[t]>>}
  BY <1>1 DEF CursorOnList, Of
<1>2. ASSUME NEW h \in {FreeList(t), <<POOL, ci[t]>>, FreeList(POOL)},
             pc[t] = "refill" \/ h # FreeList(t), ~IsEmpty(links, h), links.nxt[h] \notin Span
      PROVE  FALSE
  <2>1. <<POOL, ci[t]>> \in ActiveHeads /\ FreeList(POOL) \in ActiveHeads
    <3>1. ci[t] \in 0..NClass
      BY DEF TypeOK
    <3> QED
      BY <3>1, Nodes DEF ActiveHeads, Active, Thr, FreeList
  <2>2. pc[t] = "refill" => FreeList(t) \in ActiveHeads
    BY Nodes DEF ActiveHeads, Active, Thr, FreeList, Calls, CacheReady
  <2>3. h \in ActiveHeads
    BY <1>2, <2>1, <2>2
  <2> QED
    BY <1>2, <2>3, TypesOfLists, FirstOnList
<1>3. \A c : <<POOL, c>> # FreeList(t)
  BY ConstantsAssumption DEF FreeList
<1> QED
  BY <1>1, <1>2, <1>3 DEF Wild, FreeList

\* A span that was free or is new has a block to give.  One that the pool had
\* suspended may have none, and was suspended by thread_exit.
LEMMA InstallOutcome ==
  ASSUME TypeOK, NEW t \in Thread, NEW s \in Span, NEW r \in SpanRec, NEW reinit \in BOOLEAN,
         Install(t, s, r, reinit), Account(Brought(t, r), LiveOf(s)),
         reinit => LiveOf(s) = {} /\ r.free_cnt # 0
  PROVE  proc' \in {"run", "overrun"} /\ (reinit => proc' = "run")
<1>1. /\ Brought(t, r) \in SpanRec /\ Brought(t, r).state = "IN_USE"
      /\ Brought(t, r).free_cnt = r.free_cnt
  BY BroughtKeeps
<1>2. GetBlk(t, s, Brought(t, r), reinit)
  BY DEF Install, Brought
<1> QED
  BY <1>1, <1>2, GetBlkOutcome

LEMMA OutcomeStep ==
  ASSUME TypeOK, Calls, SoundInv, NEW t \in Thread, Acts(t)
  PROVE  proc' \notin {"reissue", "wild"} /\ (proc' = "overrun" => Exits)
<1> USE DEF SoundInv
<1>0. proc = "run"
  BY OthersQuiet
<1>1. ASSUME NEW h, NEW reinit, TakesFrom(t, h, reinit)
      PROVE  proc' \in {"run", "overrun"} /\ (proc' = "overrun" => Exits)
  <2>1. PICK s : s = links.nxt[h]
    OBVIOUS
  <2>2. /\ s \in Span /\ home[s] = h
        /\ Renewed(t, s, reinit) \in SpanRec
        /\ Account(Brought(t, Renewed(t, s, reinit)), LiveOf(s))
        /\ reinit => LiveOf(s) = {} /\ Renewed(t, s, reinit).free_cnt # 0
    BY <1>1, <2>1, FirstSpan
  <2>3. Install(t, s, Renewed(t, s, reinit), reinit) /\ reinit \in BOOLEAN
    BY <1>1, <2>1 DEF TakesFrom, TakeFirst, Renewed
  <2>4. proc' \in {"run", "overrun"} /\ (reinit => proc' = "run")
    BY <2>2, <2>3, InstallOutcome
  <2>5. CASE ~reinit
    <3>1. h = <<POOL, ci[t]>> /\ ci[t] \in Class
      BY <1>1, <2>5 DEF TakesFrom, Calls, CallOK
    <3>2. Exits
      BY <2>2, <3>1 DEF NoExits
    <3> QED
      BY <2>4, <3>2
  <2> QED
    BY <2>3, <2>4, <2>5
<1>2. CASE RefillLocal(t) \/ AcquireSuspend(t) \/ AcquireFree(t)
  BY <1>1, <1>2, Takes
<1>3. CASE AcquireCarve(t) \/ AcquireGrow(t)
  <2>1. PICK s \in Span \ carved : Install(t, s, SpanInit(span[s], ci[t]), TRUE)
    BY <1>3 DEF AcquireCarve, AcquireGrow, Carve
  <2>2. LiveOf(s) = {}
    BY DEF Places, Untouched
  <2>3. ci[t] \in Class /\ span[s] \in SpanRec
    BY <1>3 DEF AcquireCarve, AcquireGrow, Acquiring, At, Calls, CallOK, TypeOK
  <2>4. SpanInit(span[s], ci[t]) \in SpanRec /\ SpanInit(span[s], ci[t]).free_cnt # 0
    BY <2>3, SpanInitType, ConstantsAssumption
  <2>5. Account(Brought(t, SpanInit(span[s], ci[t])), LiveOf(s))
    BY <2>2, <2>3, AccountInit DEF Brought
  <2> QED
    BY <2>1, <2>2, <2>4, <2>5, InstallOutcome
<1>4. ASSUME NEW c \in Class, MallocFast(t, c)
      PROVE  proc' = "run"
  <2>1. PICK s : s = using[t][c]
    OBVIOUS
  <2>2. s # NULL /\ GetBlk(t, s, span[s], FALSE) /\ span[s].free_cnt # 0
        /\ pc[t] = "idle" /\ thr[t] # "exited"
    BY <1>4, <2>1 DEF MallocFast, Enter, Quiet
  <2>3. thr[t] = "ready"
    <3>1. thr[t] \in {"new", "ready", "exited"}
      BY DEF TypeOK
    <3> QED
      BY <2>1, <2>2, <3>1 DEF Calls, CacheReady
  <2>4. InUse(t, c) /\ s \in Span /\ span[s] \in SpanRec
    BY <2>1, <2>2, <2>3, InUseSpan DEF InUse, TypeOK
  <2>5. Account(span[s], LiveOf(s)) /\ span[s].state # "FREE"
    BY <2>1, <2>4 DEF Places, Untouched, InUseFits, Accounts
  <2> QED
    BY <2>2, <2>4, <2>5, GetBlkOutcome
<1>5. CASE \/ ScanNext(t) \/ ScanTake(t) \/ RefillNone(t) \/ AcquireFatal(t) \/ FreePool(t)
           \/ ExitLink(t) \/ ExitLock(t) \/ ExitWalk(t) \/ ExitSplice(t) \/ ExitDone(t)
  BY <1>0, <1>5 DEF ScanNext, ScanTake, RefillNone, AcquireFatal, FreePool,
     ExitLink, ExitLock, ExitWalk, ExitSplice, ExitDone
<1>6. CASE \/ MallocOther(t) \/ FreeCached(t) \/ FreeFault(t) \/ FreePoolCall(t)
           \/ Exit(t) \/ ThreadStart(t)
           \/ \E c \in Class : MallocFirst(t, c) \/ MallocExhausted(t, c)
  BY <1>0, <1>6 DEF MallocOther, MallocFirst, MallocExhausted, FreeCached, FreeFault, FreePoolCall,
     Exit, ThreadStart
<1> QED
  BY <1>2, <1>3, <1>4, <1>5, <1>6, NotWild DEF Acts, Step, Call

\* Once a list has been corrupted it counts as corrupted for ever.
LEMMA TaintStays ==
  ASSUME NEW t \in Thread, Acts(t), tainted
  PROVE  tainted'
<1>1. CASE \/ ScanNext(t) \/ ScanTake(t) \/ RefillLocal(t) \/ RefillNone(t)
           \/ AcquireSuspend(t) \/ AcquireFree(t) \/ AcquireCarve(t)
           \/ AcquireGrow(t) \/ AcquireFatal(t)
  BY <1>1 DEF ScanNext, ScanTake, RefillLocal, RefillNone, AcquireSuspend, AcquireFree,
     AcquireCarve, AcquireGrow, AcquireFatal, TakeFirst, TakeOff, Carve, memory
<1>2. CASE \/ FreePool(t) \/ ExitLink(t) \/ ExitLock(t) \/ ExitWalk(t) \/ ExitSplice(t)
           \/ ExitDone(t) \/ Wild(t)
  BY <1>2 DEF FreePool, FreeBlk, ExitLink, ExitLock, ExitWalk, ExitSplice, ExitDone, Wild, memory
<1>3. CASE Call(t)
  BY <1>3 DEF Call, MallocOther, MallocFirst, MallocFast, MallocExhausted, FreeCached, FreeFault,
     FreePoolCall, FreeBlk, Exit, ThreadStart, memory
<1> QED
  BY <1>1, <1>2, <1>3 DEF Acts, Step

-----------------------------------------------------------------------------
(* The invariant.                                                          *)

LEMMA SoundStep ==
  ASSUME TypeOK, TypeOK', Calls, SoundInv, proc' = "run", ~tainted', NEW t \in Thread, Acts(t)
  PROVE  SoundInv'
<1>1. CASE Step(t)
  <2>1. CASE RefillLocal(t) \/ AcquireSuspend(t) \/ AcquireFree(t)
    BY <2>1, Takes, TakesStep
  <2>2. CASE AcquireCarve(t) \/ AcquireGrow(t)
    BY <2>2, CarveStep DEF AcquireCarve, AcquireGrow, Acquiring, At
  <2>3. CASE AcquireFatal(t) \/ Wild(t)
    BY <2>3 DEF AcquireFatal, Wild
  <2> QED
    BY <1>1, <2>1, <2>2, <2>3, ScanNextStep, ScanTakeStep, GotoStep, FreeStep, ExitLinkStep,
       ExitLockStep, ExitWalkStep, ExitSpliceStep, ExitDoneStep DEF Step
<1>2. CASE Call(t)
  <2>1. CASE FreeFault(t)
    BY <2>1 DEF FreeFault
  <2> QED
    BY <1>2, <2>1, MallocOtherStep, MallocFirstStep, MallocFastStep, MallocExhaustedStep, FreeStep,
       GotoStep, ThreadStartStep DEF Call
<1> QED
  BY <1>1, <1>2 DEF Acts

LEMMA SoundStutter ==
  ASSUME TypeOK, SoundInv, UNCHANGED vars
  PROVE  SoundInv'
<1> USE DEF SoundInv, ListsInv, vars, memory, poolvars
<1>1. \A u \in Thread, c \in Class : InUse(u, c)' <=> InUse(u, c)
  BY DEF InUse
<1>2. Places'
  BY <1>1, PlacesFrame
<1>3. ActiveHeads' = ActiveHeads
  BY DEF ActiveHeads, Active
<1>4. CursorOnList' /\ WalkedOver'
  BY <1>3 DEF CursorOnList, WalkedOver, Passed
<1>5. Accounts' /\ NoExits'
  BY AccountsFrame DEF NoExits
<1> QED
  BY <1>2, <1>3, <1>4, <1>5

LEMMA InvStep ==
  ASSUME Inv, [Next]_vars
  PROVE  Inv'
<1>1. TypeOK /\ Calls /\ TypeOK' /\ Calls'
  BY TypeStep, CallsStep DEF Inv, Calls
<1>2. CASE UNCHANGED vars
  BY <1>1, <1>2, SoundStutter DEF Inv, Sound, NoReissue, NoOverrunWithoutExit, vars, memory
<1>3. ASSUME NEW t \in Thread, Acts(t)
      PROVE  Inv'
  <2>1. ~tainted' => SoundInv
    BY <1>1, <1>3, TaintStays, OthersQuiet DEF Inv, Sound
  <2>2. Sound' => SoundInv'
    BY <1>1, <1>3, <2>1, SoundStep DEF Sound
  <2>3. NoReissue' /\ NoOverrunWithoutExit'
    BY <1>1, <1>3, <2>1, OutcomeStep DEF NoReissue, NoOverrunWithoutExit
  <2> QED
    BY <1>1, <2>2, <2>3 DEF Inv
<1> QED
  BY <1>2, <1>3 DEF Next, Stopped, Acts

LEMMA InvInit == Init => Inv
<1> SUFFICES ASSUME Init PROVE Inv
  OBVIOUS
<1>0. PICK l : l = [nxt |-> [n \in Node |-> NULL], prv |-> [n \in Node |-> NULL]]
  OBVIOUS
<1>1. TypeOK /\ CallOK
  BY TypeInit
<1>2. Calls
  BY <1>1, ConstantsAssumption DEF Init, Calls, CacheReady, OneAtATime, ArgsHeld
<1>3. ActiveHeads = CacheHeads(POOL)
  <2>1. \A h \in ListHead : h[1] = POOL => h \in CacheHeads(POOL)
    BY HeadFacts DEF CacheHeads, ListHead
  <2>2. \A h \in CacheHeads(POOL) : h \in ListHead /\ h[1] = POOL
    BY DEF CacheHeads, ListHead
  <2>3. \A h \in ListHead : Active(h) <=> h[1] = POOL
    BY HeadFacts DEF Init, Active
  <2> QED
    BY <2>1, <2>2, <2>3 DEF ActiveHeads
<1>4. Circular(links, ActiveHeads, home)
  <2>1. l \in Links /\ home \in Homes /\ \A s \in Span : home[s] = NULL
    BY <1>0 DEF Init, Links, Homes
  <2>2. On({}, home) = {} /\ Linked({}, home) = {}
    BY <2>1 DEF On, Linked
  <2>3. Circular(l, {}, home)
    BY <2>1, <2>2 DEF Circular, Neighbours, NoRing
  <2>4. CacheHeads(POOL) \in SUBSET ListHead /\ CacheHeads(POOL) \cap {} = {}
    BY DEF CacheHeads, ListHead
  <2>5. Circular(InitHeads(l, CacheHeads(POOL)), {} \cup CacheHeads(POOL), home)
    BY <2>1, <2>3, <2>4, CircularInit
  <2> QED
    BY <1>0, <1>3, <2>5 DEF Init
<1>5. \A t \in Thread, c \in Class : ~InUse(t, c)
  BY DEF InUse, Init
<1>6. Places
  BY <1>5, HeadFacts
  DEF Init, Places, Untouched, InUseAlone, InUseFits, ListedFits, OwnersKept, Reachable, LiveOf, Thr
<1>7. CursorOnList /\ WalkedOver /\ Accounts /\ NoExits
  BY HeadFacts DEF Init, CursorOnList, WalkedOver, Accounts, NoExits, Thr
<1> QED
  BY <1>1, <1>2, <1>4, <1>6, <1>7
  DEF Inv, SoundInv, ListsInv, NoReissue, NoOverrunWithoutExit, Init

(***************************************************************************)
(* The invariant holds in every reachable state.                           *)
(***************************************************************************)
THEOREM Invariant == Spec => []Inv
<1>1. Inv /\ [Next]_vars => Inv'
  BY InvStep
<1> QED
  BY <1>1, InvInit, PTL DEF Spec

-----------------------------------------------------------------------------
(* What it implies: the properties that the runs check.                    *)

\* From Account to what BlocksAccounted and ForgottenSpansReturn say.
LEMMA InvImplies ==
  ASSUME Inv
  PROVE  ListsWellFormed /\ BlocksAccounted /\ SpansPlaced /\ ForgottenSpansReturn
<1>1. TypeOK /\ (Sound => SoundInv)
  BY DEF Inv
<1>2. ListsWellFormed
  BY <1>1, CircularWellFormed DEF SoundInv, ListsInv, ListsWellFormed
<1>3. BlocksAccounted
  BY <1>1 DEF SoundInv, Accounts, Account, BlocksAccounted, N
<1>4. SpansPlaced
  BY <1>1 DEF SoundInv, Places, InUseAlone, InUseFits, ListedFits, SpansPlaced
<1>5. ForgottenSpansReturn
  BY <1>1 DEF SoundInv, Places, Reachable, Accounts, Account, ForgottenSpansReturn
<1> QED
  BY <1>2, <1>3, <1>4, <1>5

(***************************************************************************)
(* list_add_tail, list_del, list_splice_tail and INIT_LIST_HEAD, in the    *)
(* order in which malloc, free, thread start and thread end run them, keep *)
(* every list in use circular and without a stray span.                    *)
(***************************************************************************)
THEOREM ListsAlwaysWellFormed == Spec => []ListsWellFormed
BY Invariant, InvImplies, PTL

(***************************************************************************)
(* free_cnt, free_blk and blk_list of a span always agree with the blocks  *)
(* that the client holds of it, whoever allocated and freed them.          *)
(***************************************************************************)
THEOREM BlocksAlwaysAccounted == Spec => []BlocksAccounted
BY Invariant, InvImplies, PTL

(***************************************************************************)
(* No span is in use twice, or in use and on a list, and the header of a   *)
(* span says where it is.                                                  *)
(***************************************************************************)
THEOREM SpansAlwaysPlaced == Spec => []SpansPlaced
BY Invariant, InvImplies, PTL

(***************************************************************************)
(* A carved span that is neither in use nor on a list is suspended and has *)
(* blocks to free, so that wl_free can collect it.                         *)
(***************************************************************************)
THEOREM ForgottenSpansAlwaysReturn == Spec => []ForgottenSpansReturn
BY Invariant, InvImplies, PTL

\* The four in one, as the run of thread ends checks them.
THEOREM HeapAlwaysSound == Spec => []HeapSound
<1>1. Inv => HeapSound
  BY InvImplies DEF HeapSound
<1> QED
  BY <1>1, Invariant, PTL

(***************************************************************************)
(* Without thread ends get_blk runs on spans that have a free block only.  *)
(***************************************************************************)
THEOREM NeverOverrunWithoutExit == Spec => []NoOverrunWithoutExit
<1>1. Inv => NoOverrunWithoutExit
  BY DEF Inv
<1> QED
  BY <1>1, Invariant, PTL

-----------------------------------------------------------------------------
(* Owners.                                                                 *)

\* Only a span that comes into use or is walked over changes hands.
LEMMA OwnerStep ==
  ASSUME TypeOK, Calls, SoundInv, NEW t \in Thread, Acts(t),
         NEW k \in Span, LiveOf(k) # {}, span'[k].owner # span[k].owner
  PROVE  POOL \in {span[k].owner, span'[k].owner}
<1> USE DEF SoundInv
<1>1. ASSUME NEW s \in Span, NEW r \in SpanRec, NEW reinit \in BOOLEAN, Install(t, s, r, reinit)
      PROVE  k = s
  BY <1>1 DEF Install, GetBlk, TypeOK
<1>2. ASSUME NEW h, NEW reinit, TakesFrom(t, h, reinit)
      PROVE  span[k].owner = POOL
  <2>1. PICK s : s = links.nxt[h]
    OBVIOUS
  <2>2. /\ s \in Span /\ home[s] = h /\ Renewed(t, s, reinit) \in SpanRec
        /\ reinit => LiveOf(s) = {}
    BY <1>2, <2>1, FirstSpan
  <2>3. Install(t, s, Renewed(t, s, reinit), reinit) /\ reinit \in BOOLEAN
    BY <1>2, <2>1 DEF TakesFrom, TakeFirst, Renewed
  <2>4. k = s /\ ~reinit
    BY <1>1, <2>2, <2>3
  <2>5. home[k] = <<POOL, ci[t]>> /\ ci[t] \in Class
    BY <1>2, <2>2, <2>4 DEF TakesFrom, Calls, CallOK
  <2>6. home[k] # NULL /\ home[k][1] = POOL /\ home[k][2] # NClass
    BY <2>5, HeadFacts DEF Thr
  <2> QED
    BY <2>6 DEF Places, ListedFits, FitsList
<1>3. CASE RefillLocal(t) \/ AcquireSuspend(t) \/ AcquireFree(t)
  BY <1>2, <1>3, Takes
<1>4. CASE AcquireCarve(t) \/ AcquireGrow(t)
  <2>1. PICK s \in Span \ carved : Install(t, s, SpanInit(span[s], ci[t]), TRUE)
    BY <1>4 DEF AcquireCarve, AcquireGrow, Carve
  <2>2. SpanInit(span[s], ci[t]) \in SpanRec
    BY <1>4, SpanInitType
    DEF AcquireCarve, AcquireGrow, Acquiring, At, Calls, CallOK, TypeOK
  <2> QED
    BY <1>1, <2>1, <2>2 DEF Places, Untouched
<1>5. ASSUME NEW c \in Class, MallocFast(t, c)
      PROVE  FALSE
  <2>1. PICK s : s = using[t][c]
    OBVIOUS
  <2>2. s # NULL /\ GetBlk(t, s, span[s], FALSE)
    BY <1>5, <2>1 DEF MallocFast
  <2>3. s \in Span
    BY <2>1, <2>2 DEF TypeOK
  <2>4. PICK i : span' = [span EXCEPT ![s] = TakeBlk(span[s], i)]
    BY <2>2 DEF GetBlk
  <2> QED
    BY <2>3, <2>4, TakeBlkType DEF TypeOK
<1>6. ASSUME NEW s \in Span, NEW i \in Idx, NEW h, FreeBlk(s, i, h)
      PROVE  FALSE
  BY <1>6, PutBlkType DEF FreeBlk, TypeOK
<1>7. CASE FreeCached(t)
  <2>1. PICK b \in Held : FreeBlk(b[1], b[2], FreeList(t))
    BY <1>7 DEF FreeCached
  <2> QED
    BY <1>6, <2>1 DEF Held, TypeOK, Block
<1>8. CASE FreePool(t)
  BY <1>6, <1>8 DEF FreePool, At, Calls, CallOK, Block
<1>9. ASSUME NEW c \in Class, MallocExhausted(t, c)
      PROVE  FALSE
  BY <1>9 DEF MallocExhausted, TypeOK, SpanRec
<1>10. CASE ExitWalk(t)
  BY <1>10 DEF ExitWalk, TypeOK, SpanRec
<1>11. CASE \/ ScanNext(t) \/ ScanTake(t) \/ RefillNone(t) \/ AcquireFatal(t) \/ ExitLink(t)
            \/ ExitLock(t) \/ ExitSplice(t) \/ ExitDone(t) \/ Wild(t)
            \/ MallocOther(t) \/ FreeFault(t) \/ FreePoolCall(t) \/ Exit(t) \/ ThreadStart(t)
            \/ \E c \in Class : MallocFirst(t, c)
  BY <1>11 DEF ScanNext, ScanTake, RefillNone, AcquireFatal, ExitLink, ExitLock, ExitSplice,
     ExitDone, Wild, MallocOther, FreeFault, FreePoolCall, Exit, ThreadStart, MallocFirst
<1> QED
  BY <1>3, <1>4, <1>5, <1>7, <1>8, <1>9, <1>10, <1>11 DEF Acts, Step, Call

\* Before a step that leaves the lists sound they were sound.
LEMMA SoundBefore ==
  ASSUME Inv, NEW t \in Thread, Acts(t), ~tainted'
  PROVE  TypeOK /\ Calls /\ SoundInv
BY TaintStays, OthersQuiet DEF Inv, Sound

(***************************************************************************)
(* A span of which blocks are held passes from thread to thread by way of  *)
(* the pool only, so that the owner a remote wl_free has read, and locked, *)
(* is the owner still or is the pool.                                      *)
(***************************************************************************)
THEOREM OwnersAlwaysChangeViaPool == Spec => OwnerChangesViaPool
<1> DEFINE A == \A s \in Span : ~tainted' /\ LiveOf(s) # {} /\ span'[s].owner # span[s].owner
                  => POOL \in {span[s].owner, span'[s].owner}
<1>1. Inv /\ [Next]_vars => [A]_vars
  <2> SUFFICES ASSUME Inv, Next PROVE A \/ UNCHANGED vars
    OBVIOUS
  <2>1. ASSUME NEW t \in Thread, Acts(t) PROVE A
    BY <2>1, SoundBefore, OwnerStep
  <2> QED
    BY <2>1 DEF Next, Stopped, Acts
<1> QED
  BY <1>1, Invariant, PTL DEF Spec, OwnerChangesViaPool

-----------------------------------------------------------------------------
(* The allocator implements BlockHeap.                                     *)

\* What BlockHeap sees.
Seen == {<<b[1], span[b[1]].cls, b[2]>> : b \in live}
Fate == IF tainted THEN "tainted" ELSE proc

\* The classes of the spans of which blocks are held.
SameClasses == \A k \in Span : LiveOf(k) # {} => span'[k].cls = span[k].cls

LEMMA Blocks ==
  ASSUME TypeOK, NEW b \in live
  PROVE  /\ b = <<b[1], b[2]>> /\ b[1] \in Span /\ b[2] \in Idx
         /\ LiveOf(b[1]) # {} /\ (SameClasses => span'[b[1]].cls = span[b[1]].cls)
<1>1. PICK s \in Span, i \in Idx : b = <<s, i>>
  BY DEF TypeOK, Block
<1>2. i \in LiveOf(s)
  BY <1>1 DEF LiveOf
<1> QED
  BY <1>1, <1>2 DEF SameClasses

LEMMA SeenSame ==
  ASSUME TypeOK, SameClasses, live' = live
  PROVE  Seen' = Seen
<1>1. \A b \in live : span'[b[1]].cls = span[b[1]].cls
  BY Blocks
<1> QED
  BY <1>1 DEF Seen

LEMMA SeenMore ==
  ASSUME TypeOK, SameClasses, NEW s \in Span, NEW i \in Idx, <<s, i>> \notin live,
         live' = live \cup {<<s, i>>}, i < NBlk[span'[s].cls], span'[s].cls \in Class
  PROVE  /\ Seen' = Seen \cup {<<s, span'[s].cls, i>>}
         /\ <<s, span'[s].cls, i>> \in Heap!HeapBlock
         /\ \A a \in Seen : Heap!Apart(a, <<s, span'[s].cls, i>>)
<1> DEFINE d == span'[s].cls
<1>1. \A b \in live : b[1] \in Span /\ b = <<b[1], b[2]>> /\ span'[b[1]].cls = span[b[1]].cls
  BY Blocks
<1>2. Seen' = Seen \cup {<<s, d, i>>}
  BY <1>1 DEF Seen
<1>3. <<s, d, i>> \in Heap!HeapBlock
  <2>1. i \in 0..(NBlk[d] - 1)
    BY ConstantsAssumption DEF Idx
  <2>2. <<s, d, i>> \in {s} \X {d} \X (0..(NBlk[d] - 1))
    BY <2>1
  <2> DEFINE P(k, c) == {k} \X {c} \X (0..(NBlk[c] - 1))
  <2>3. <<s, d, i>> \in P(s, d)
    BY <2>2
  <2>4. Heap!HeapBlock = UNION {P(k, c) : k \in Span, c \in Class}
    BY DEF Heap!HeapBlock
  <2> HIDE DEF P, d
  <2>5. P(s, d) \in {P(k, c) : k \in Span, c \in Class}
    BY DEF d
  <2> QED
    BY <2>3, <2>4, <2>5 DEF d
<1>4. ASSUME NEW b \in live
      PROVE  Heap!Apart(<<b[1], span[b[1]].cls, b[2]>>, <<s, d, i>>)
  BY <1>1 DEF Heap!Apart
<1> QED
  BY <1>2, <1>3, <1>4 DEF Seen

LEMMA SeenLess ==
  ASSUME TypeOK, SameClasses, NEW b \in live, live' = live \ {b}
  PROVE  \E x \in Seen : Seen' = Seen \ {x}
<1>1. \A e \in live : e[1] \in Span /\ e = <<e[1], e[2]>> /\ span'[e[1]].cls = span[e[1]].cls
  BY Blocks
<1>2. Seen' = Seen \ {<<b[1], span[b[1]].cls, b[2]>>}
  BY <1>1 DEF Seen
<1> QED
  BY <1>2 DEF Seen

\* get_blk is Alloc.
Allocs == \E b \in Heap!HeapBlock : (\A a \in Seen : Heap!Apart(a, b)) /\ Seen' = Seen \cup {b}
Frees == \E x \in Seen : Seen' = Seen \ {x}

LEMMA GetBlkAllocs ==
  ASSUME TypeOK, NEW t \in Thread, NEW s \in Span, NEW r \in SpanRec, NEW reinit \in BOOLEAN,
         GetBlk(t, s, r, reinit), proc' = "run", Account(r, LiveOf(s)), r.state # "FREE",
         LiveOf(s) # {} => r.cls = span[s].cls
  PROVE  Allocs
<1>1. PICK i \in Blks(r) :
        /\ proc' = IF reinit /\ LiveOf(s) # {} THEN "reissue"
                   ELSE IF i >= NBlk[r.cls] THEN "overrun"
                   ELSE IF <<s, i>> \in live THEN "reissue"
                   ELSE "run"
        /\ proc' = "run" => live' = live \cup {<<s, i>>}
  BY DEF GetBlk
<1>2. LiveOf(s) \in SUBSET Idx
  BY DEF LiveOf
<1>3. ~(i >= NBlk[r.cls]) /\ live' = live \cup {<<s, i>>} /\ <<s, i>> \notin live
  BY <1>1
<1>4. NBlk[r.cls] \in Nat /\ r.cls \in Class
  BY ConstantsAssumption DEF SpanRec
<1>5. i \in Idx /\ i < NBlk[r.cls]
  <2>1. i \in Nat /\ (i < NBlk[r.cls] => i \in Idx)
    BY <1>2, AccountTake
  <2> QED
    BY <1>3, <1>4, <2>1
<1>6. span'[s].cls = r.cls /\ \A k \in Span : k # s => span'[k] = span[k]
  BY GetBlkRun
<1>7. SameClasses
  BY <1>6 DEF SameClasses
<1> QED
  BY <1>3, <1>4, <1>5, <1>6, <1>7, SeenMore DEF Allocs

LEMMA InstallAllocs ==
  ASSUME TypeOK, NEW t \in Thread, NEW s \in Span, NEW r \in SpanRec, NEW reinit \in BOOLEAN,
         Install(t, s, r, reinit), proc' = "run", Account(Brought(t, r), LiveOf(s)),
         LiveOf(s) # {} => r.cls = span[s].cls
  PROVE  Allocs
<1>1. /\ Brought(t, r) \in SpanRec /\ Brought(t, r).state = "IN_USE"
      /\ Brought(t, r).cls = r.cls
  BY BroughtKeeps
<1>2. GetBlk(t, s, Brought(t, r), reinit)
  BY DEF Install, Brought
<1> QED
  BY <1>1, <1>2, GetBlkAllocs

\* span_free_blk is Free.
LEMMA FreeBlkFrees ==
  ASSUME TypeOK, NEW b \in live, NEW h, FreeBlk(b[1], b[2], h)
  PROVE  Frees
<1>1. b = <<b[1], b[2]>> /\ b[1] \in Span /\ b[2] \in Idx
  BY Blocks
<1>2. live' = live \ {b} /\ span' = [span EXCEPT ![b[1]] = PutBlk(@, b[2])]
  BY <1>1 DEF FreeBlk
<1>3. SameClasses
  BY <1>1, <1>2, PutBlkType DEF SameClasses, TypeOK
<1> QED
  BY <1>2, <1>3, SeenLess DEF Frees

\* A step that runs well hands out a block, takes one back, or does neither.
LEMMA HeapStep ==
  ASSUME TypeOK, Calls, SoundInv, proc' = "run", NEW t \in Thread, Acts(t)
  PROVE  Allocs \/ Frees \/ Seen' = Seen
<1> USE DEF SoundInv
<1>1. ASSUME NEW h, NEW reinit, TakesFrom(t, h, reinit)
      PROVE  Allocs
  <2>1. PICK s : s = links.nxt[h]
    OBVIOUS
  <2>2. /\ s \in Span /\ Renewed(t, s, reinit) \in SpanRec
        /\ Account(Brought(t, Renewed(t, s, reinit)), LiveOf(s))
        /\ reinit => LiveOf(s) = {}
    BY <1>1, <2>1, FirstSpan
  <2>3. Install(t, s, Renewed(t, s, reinit), reinit) /\ reinit \in BOOLEAN
    BY <1>1, <2>1 DEF TakesFrom, TakeFirst, Renewed
  <2>4. LiveOf(s) # {} => Renewed(t, s, reinit).cls = span[s].cls
    BY <2>2, <2>3 DEF Renewed
  <2> QED
    BY <2>2, <2>3, <2>4, InstallAllocs
<1>2. CASE RefillLocal(t) \/ AcquireSuspend(t) \/ AcquireFree(t)
  BY <1>1, <1>2, Takes
<1>3. CASE AcquireCarve(t) \/ AcquireGrow(t)
  <2>1. PICK s \in Span \ carved : Install(t, s, SpanInit(span[s], ci[t]), TRUE)
    BY <1>3 DEF AcquireCarve, AcquireGrow, Carve
  <2>2. LiveOf(s) = {}
    BY DEF Places, Untouched
  <2>3. ci[t] \in Class /\ span[s] \in SpanRec
    BY <1>3 DEF AcquireCarve, AcquireGrow, Acquiring, At, Calls, CallOK, TypeOK
  <2>4. SpanInit(span[s], ci[t]) \in SpanRec
    BY <2>3, SpanInitType
  <2>5. Account(Brought(t, SpanInit(span[s], ci[t])), LiveOf(s))
    BY <2>2, <2>3, AccountInit DEF Brought
  <2> QED
    BY <2>1, <2>2, <2>4, <2>5, InstallAllocs
<1>4. ASSUME NEW c \in Class, MallocFast(t, c)
      PROVE  Allocs
  <2>1. PICK s : s = using[t][c]
    OBVIOUS
  <2>2. s # NULL /\ GetBlk(t, s, span[s], FALSE) /\ pc[t] = "idle" /\ thr[t] # "exited"
    BY <1>4, <2>1 DEF MallocFast, Enter, Quiet
  <2>3. thr[t] = "ready"
    <3>1. thr[t] \in {"new", "ready", "exited"}
      BY DEF TypeOK
    <3> QED
      BY <2>1, <2>2, <3>1 DEF Calls, CacheReady
  <2>4. InUse(t, c) /\ s \in Span /\ span[s] \in SpanRec
    BY <2>1, <2>2, <2>3, InUseSpan DEF InUse, TypeOK
  <2>5. Account(span[s], LiveOf(s)) /\ span[s].state # "FREE"
    BY <2>1, <2>4 DEF Places, Untouched, InUseFits, Accounts
  <2> QED
    BY <2>2, <2>4, <2>5, GetBlkAllocs
<1>5. CASE FreeCached(t)
  BY <1>5, FreeBlkFrees DEF FreeCached, Held
<1>6. CASE FreePool(t)
  BY <1>6, FreeBlkFrees DEF FreePool, At, Calls, ArgsHeld
<1>7. ASSUME live' = live, \A k \in Span : span'[k].cls = span[k].cls
      PROVE  Seen' = Seen
  BY <1>7, SeenSame DEF SameClasses
<1>8. CASE \/ ScanNext(t) \/ ScanTake(t) \/ RefillNone(t) \/ AcquireFatal(t) \/ ExitLink(t)
           \/ ExitLock(t) \/ ExitSplice(t) \/ ExitDone(t) \/ Wild(t)
           \/ MallocOther(t) \/ FreeFault(t) \/ FreePoolCall(t) \/ Exit(t) \/ ThreadStart(t)
           \/ \E c \in Class : MallocFirst(t, c)
  BY <1>7, <1>8 DEF ScanNext, ScanTake, RefillNone, AcquireFatal, ExitLink, ExitLock, ExitSplice,
     ExitDone, Wild, MallocOther, FreeFault, FreePoolCall, Exit, ThreadStart, MallocFirst
<1>9. CASE ExitWalk(t) \/ \E c \in Class : MallocExhausted(t, c)
  <2>1. PICK s, o, e : \/ span' = [span EXCEPT ![s].owner = o]
                       \/ span' = [span EXCEPT ![s].state = e]
    BY <1>9 DEF ExitWalk, MallocExhausted
  <2>2. \A r \in SpanRec : [r EXCEPT !.owner = o].cls = r.cls /\ [r EXCEPT !.state = e].cls = r.cls
    BY DEF SpanRec
  <2>3. ASSUME NEW k \in Span PROVE span'[k].cls = span[k].cls
    <3>1. span[k] \in SpanRec /\ span \in [Span -> SpanRec]
      BY DEF TypeOK
    <3>2. \/ span'[k] = span[k]
          \/ span'[k] = [span[k] EXCEPT !.owner = o]
          \/ span'[k] = [span[k] EXCEPT !.state = e]
      BY <2>1, <3>1
    <3>3. /\ [span[k] EXCEPT !.owner = o].cls = span[k].cls
          /\ [span[k] EXCEPT !.state = e].cls = span[k].cls
      BY <2>2, <3>1
    <3> QED
      BY <3>2, <3>3, Zenon
  <2> QED
    BY <1>7, <1>9, <2>3 DEF ExitWalk, MallocExhausted
<1> QED
  BY <1>2, <1>3, <1>4, <1>5, <1>6, <1>8, <1>9 DEF Acts, Step, Call

(***************************************************************************)
(* The allocator implements BlockHeap: the blocks held by clients are      *)
(* always pairwise disjoint and inside their spans, each is handed out     *)
(* and taken back once, and the process fails in no way but those that     *)
(* BlockHeap allows.                                                       *)
(***************************************************************************)
THEOREM ImplementsBlockHeap == Spec => HeapSpec
<1>1. Init => Heap!Init
  BY DEF Init, Heap!Init
<1>2. Inv /\ Inv' /\ [Next]_vars => [Heap!Next]_<<Seen, Fate>>
  <2> SUFFICES ASSUME Inv, Inv', [Next]_vars
               PROVE  Heap!Next \/ UNCHANGED <<Seen, Fate>>
    OBVIOUS
  <2>1. CASE UNCHANGED vars
    BY <2>1 DEF vars, memory, Seen, Fate
  <2>2. ASSUME NEW t \in Thread, Acts(t)
        PROVE  Heap!Next \/ UNCHANGED <<Seen, Fate>>
    <3>1. TypeOK /\ TypeOK' /\ Calls /\ proc = "run" /\ tainted \in BOOLEAN /\ tainted' \in BOOLEAN
      BY <2>2, OthersQuiet DEF Inv, TypeOK
    <3>2. CASE tainted
      BY <3>2 DEF Heap!Next, Heap!Failed
    <3>3. CASE ~tainted /\ tainted'
      BY <3>1, <3>3 DEF Heap!Next, Heap!Fail, Heap!Failure
    <3>4. CASE ~tainted /\ ~tainted' /\ proc' # "run"
      <4>1. proc' \in Outcome /\ proc' \notin {"reissue", "wild"}
        BY <2>2, <3>1, <3>4, SoundBefore, OutcomeStep DEF TypeOK
      <4> QED
        BY <3>1, <3>4, <4>1 DEF Heap!Next, Heap!Fail, Heap!Failure, Outcome
    <3>5. CASE ~tainted /\ ~tainted' /\ proc' = "run"
      <4>1. Allocs \/ Frees \/ Seen' = Seen
        BY <2>2, <3>5, SoundBefore, HeapStep
      <4>2. Fate = "run" /\ Fate' = Fate
        BY <3>1, <3>5 DEF Fate
      <4>3. Allocs => Heap!Next
        BY <4>2 DEF Allocs, Heap!Next, Heap!Alloc, Seen, Fate
      <4>4. Frees => Heap!Next
        BY <4>2 DEF Frees, Heap!Next, Heap!Free, Seen, Fate
      <4> QED
        BY <4>1, <4>2, <4>3, <4>4
    <3> QED
      BY <3>1, <3>2, <3>3, <3>4, <3>5
  <2> QED
    BY <2>1, <2>2 DEF Next, Stopped, Acts
<1> QED
  BY <1>1, <1>2, Invariant, PTL DEF Spec, HeapSpec, Heap!Spec, Seen, Fate
=============================================================================
