------------------------------- MODULE WlMalloc -----------------------------
(***************************************************************************)
(* The small-block allocator of wlmalloc.c: per-thread caches of spans, a  *)
(* global pool, and the hand-over of a thread's spans when it ends.        *)
(*                                                                         *)
(* A span is a run of equal blocks.  A thread allocates from one span per  *)
(* size class (using), parks its exhausted spans (suspend) and the ones    *)
(* that became entirely free (free_list); the pool keeps the same lists    *)
(* for the spans of threads that have ended.  Lists are the pointers of    *)
(* list.h (module WlList), never sequences: what list_del does to a span   *)
(* that is on no list is part of what is modelled.                         *)
(*                                                                         *)
(* Scheduling.  One call runs at a time: a call starts only when every     *)
(* other thread is between calls, or is stuck on pool.lock (Quiet).  This  *)
(* is a client that serialises its calls; every interleaving of WHOLE      *)
(* calls of all threads is covered, including malloc in one thread and     *)
(* free in another, and thread ends.  Inside a call the loops over lists   *)
(* and the acquisition of pool.lock are steps of their own.                *)
(*                                                                         *)
(* Blocks are numbered within their span.  Which of the free blocks of a   *)
(* list is handed out first is not modelled, so blk_list is a set.         *)
(***************************************************************************)
EXTENDS Naturals, FiniteSets, WlList

CONSTANTS
  Thread,   \* the places of thread-local storage (a new thread may reuse one)
  Span,     \* the spans the address space has room for
  NClass,   \* DEFAULT_CLASS_NUM
  NBlk,     \* blocks of a span of each class: SPAN_DATA_SIZE / cls2size[c]
  Unit,     \* whole spans in one ALLOC_UNIT; the remainder makes it Unit + 1
  CntMax,   \* the largest uint32_t
  Exits,    \* whether threads may end
  POOL,     \* POOL_OWNER, and the owner of the pool's list heads
  NULL

Class == 0..(NClass - 1)

\* The lists of a thread or of the pool: one suspend list per class, and
\* free_list under the number after the last class.
ListHead == (Thread \cup {POOL}) \X (0..NClass)
FreeList(o) == <<o, NClass>>

Node == Span \cup ListHead

ASSUME ConstantsAssumption ==
  /\ NClass \in Nat \ {0}
  /\ CntMax \in Nat
  /\ NBlk \in [Class -> 1..CntMax]
  /\ Unit \in Nat \ {0}
  /\ Exits \in BOOLEAN
  /\ POOL \notin Thread /\ NULL \notin Thread /\ NULL # POOL
  /\ NULL \notin Node
  /\ Span \cap ListHead = {}
  /\ Span \cap Thread = {}

VARIABLES
  proc,     \* "run", or how the process went wrong and stopped
  thr,      \* thread_state of each thread, and whether it has ended
  pc,       \* where each thread is inside its call
  ci,       \* the class the call is about; in thread_exit, the loop counter
  cur,      \* the cursor of list_for_each_entry
  arg,      \* the block a waiting wl_free was given
  using,    \* tcache_t.using
  span,     \* the span headers, without their list node
  links,    \* every list_head: the nodes of spans and the heads of lists
  plock,    \* who holds pool.lock
  carved,   \* the spans below pool.free_start
  room,     \* how many more spans fit between pool.free_start and pool.end
  live,     \* the blocks the client holds
  home,     \* history: the list each span was last put on and not taken off
  tainted   \* history: a list_del of a span on no list has hit a list

memory == <<links, home, tainted>>
poolvars == <<plock, carved, room>>
vars == <<proc, thr, pc, ci, cur, arg, using, span, memory, poolvars, live>>

Idx == 0..CntMax
Block == Span \X Idx
Thr == Thread \cup {POOL}

Outcome == {"run",      \* still running
            "fatal",    \* exit(-1): the system gave no adjacent memory
            "segv",     \* a store through a null or unmapped pointer
            "wild",     \* a list head is used as if it were a span
            "overrun",  \* a block beyond the end of its span is returned
            "reissue"}  \* memory that the client holds is given out again

SpanRec == [owner : Thread \cup {POOL, NULL},
            state : {"IN_USE", "SUSPEND", "FREE"},
            cls : Class, free_cnt : Idx, free_blk : Nat, blk_list : SUBSET Idx]

TypeOK ==
  /\ proc \in Outcome
  /\ thr \in [Thread -> {"new", "ready", "exited"}]
  /\ pc \in [Thread -> {"idle", "scan", "refill", "acquire", "pfree",
                        "xlink", "xwalk"}]
  /\ ci \in [Thread -> 0..NClass]
  /\ cur \in [Thread -> Node \cup {NULL}]
  /\ arg \in [Thread -> Block \cup {NULL}]
  /\ using \in [Thread -> [Class -> Span \cup {NULL}]]
  /\ span \in [Span -> SpanRec]
  /\ links \in [nxt : [Node -> Node \cup {NULL}], prv : [Node -> Node \cup {NULL}]]
  /\ plock \in Thread \cup {NULL}
  /\ carved \subseteq Span
  /\ room \in Nat
  /\ live \subseteq Block
  /\ home \in [Span -> ListHead \cup {NULL}]
  /\ tainted \in BOOLEAN

-----------------------------------------------------------------------------
(* Helpers.                                                                *)

N(s) == NBlk[span[s].cls]
LiveOf(s) == {i \in Idx : <<s, i>> \in live}

\* free_cnt is an unsigned 32-bit counter.
DecSigned(n) == n - 1   \* mutant: a signed counter
Inc(n) == IF n = CntMax THEN 0 ELSE n + 1
Dec(n) == IF n = 0 THEN CntMax ELSE n - 1

\* A thread inside a call that cannot go on until pool.lock is released.
Waiting(t) ==
  /\ plock # NULL
  /\ \/ pc[t] \in {"acquire", "pfree"}
     \/ pc[t] = "xlink" /\ ci[t] = NClass

Quiet(t) == \A u \in Thread : pc[u] = "idle" \/ (u # t /\ Waiting(u))

\* A call starts, goes on, or returns and forgets its local variables.
Enter(t) == proc = "run" /\ Quiet(t) /\ thr[t] # "exited"
At(t, where) == proc = "run" /\ pc[t] = where
Goto(t, where) == pc' = [pc EXCEPT ![t] = where]
Return(t) ==
  /\ Goto(t, "idle")
  /\ ci' = [ci EXCEPT ![t] = 0]
  /\ cur' = [cur EXCEPT ![t] = NULL]
  /\ arg' = [arg EXCEPT ![t] = NULL]

\* What thread_exit has not yet given to the pool is a list of thread t.
Active(h) == \/ h[1] = POOL
             \/ thr[h[1]] = "ready" /\ (pc[h[1]] = "xwalk" => h[2] >= ci[h[1]])

\* The list a node belongs to.
HomeOf(n) == IF n \in Span THEN home[n] ELSE IF Active(n) THEN n ELSE NULL

\* A list_del of span s goes wrong: s is on no list, and its old pointers
\* lead to a node of a list, which changes.
Taints(s) ==
  LET after == ListDel(links, s)
      hit   == {n \in Node : \/ after.nxt[n] # links.nxt[n]
                             \/ after.prv[n] # links.prv[n]}
  IN home[s] = NULL /\ \E n \in hit : HomeOf(n) # NULL

\* Mutant: INIT_LIST_HEAD(&span->blk_list) is missing.
SpanInitKeepsList(r, c) ==
  [r EXCEPT !.cls = c, !.free_cnt = NBlk[c], !.free_blk = 0]

\* span_init on the header r: all blocks of class c are free.
SpanInit(r, c) ==
  [r EXCEPT !.cls = c, !.free_cnt = NBlk[c], !.free_blk = 0, !.blk_list = {}]

\* get_blk takes block i from the header r: one of blk_list, or the next one
\* that has never been used.
Blks(r) == IF r.blk_list # {} THEN r.blk_list ELSE {r.free_blk}
TakeBlkUncounted(r, i) ==   \* mutant: free_cnt-- is missing
  IF r.blk_list # {} THEN [r EXCEPT !.blk_list = @ \ {i}]
                     ELSE [r EXCEPT !.free_blk = @ + 1]
TakeBlk(r, i) ==
  IF r.blk_list # {}
    THEN [r EXCEPT !.blk_list = @ \ {i}, !.free_cnt = Dec(@)]
    ELSE [r EXCEPT !.free_blk = @ + 1, !.free_cnt = Dec(@)]

\* span_free_blk gives block i back.  A suspended span of which all blocks
\* are now free is collected: its blk_list is reset before i is added.
CollectedInUse(r) == Inc(r.free_cnt) = NBlk[r.cls]   \* mutant: state unchecked
CollectedEarly(r) ==   \* mutant: one block too early
  r.state = "SUSPEND" /\ Inc(r.free_cnt) = NBlk[r.cls] - 1
Collected(r) == r.state = "SUSPEND" /\ Inc(r.free_cnt) = NBlk[r.cls]
PutBlk(r, i) ==
  IF Collected(r)
    THEN [r EXCEPT !.free_cnt = Inc(@), !.state = "FREE", !.blk_list = {i}]
    ELSE [r EXCEPT !.free_cnt = Inc(@), !.blk_list = @ \cup {i}]

\* The heads that thread_cache_init initialises.
CacheHeads(t) == {t} \X (0..NClass)

-----------------------------------------------------------------------------
(* The state after global_init: no span has been carved, no thread has a   *)
(* cache.  Aligning pool.start to SPAN_SIZE may cost a span.               *)

Init ==
  /\ proc = "run"
  /\ thr = [t \in Thread |-> "new"]
  /\ pc = [t \in Thread |-> "idle"]
  /\ ci = [t \in Thread |-> 0]
  /\ cur = [t \in Thread |-> NULL]
  /\ arg = [t \in Thread |-> NULL]
  /\ using = [t \in Thread |-> [c \in Class |-> NULL]]
  /\ span = [s \in Span |-> [owner |-> NULL, state |-> "IN_USE", cls |-> 0,
                             free_cnt |-> 0, free_blk |-> 0, blk_list |-> {}]]
  /\ links = InitHeads([nxt |-> [n \in Node |-> NULL],
                        prv |-> [n \in Node |-> NULL]], CacheHeads(POOL))
  /\ plock = NULL
  /\ carved = {}
  /\ room \in {Unit - 1, Unit}
  /\ live = {}
  /\ home = [s \in Span |-> NULL]
  /\ tainted = FALSE

-----------------------------------------------------------------------------
(* wl_malloc of a small size.                                              *)

\* get_blk on span s, whose header has become r; the call returns.
\* "reinit" says that span_init has just run on s.
GetBlk(t, s, r, reinit) ==
  \E i \in Blks(r) :
    LET bad == IF reinit /\ LiveOf(s) # {} THEN "reissue"
               ELSE IF i >= NBlk[r.cls] THEN "overrun"
               ELSE IF <<s, i>> \in live THEN "reissue"
               ELSE "run"
    IN /\ proc' = bad
       /\ span' = [span EXCEPT ![s] = TakeBlk(r, i)]
       /\ live' = IF bad = "run" THEN live \cup {<<s, i>>} ELSE live
       /\ Return(t)

\* check_init: the first wl_malloc of a thread initialises its cache.
CheckInit(t) ==
  /\ thr' = [thr EXCEPT ![t] = "ready"]
  /\ links' = IF thr[t] = "new" THEN InitHeads(links, CacheHeads(t)) ELSE links
  /\ using' = IF thr[t] = "new"
               THEN [using EXCEPT ![t] = [c \in Class |-> NULL]] ELSE using

\* wl_malloc(0), or a size above the largest class: only check_init touches
\* the small-block state.
MallocOther(t) ==
  /\ Enter(t)
  /\ thr[t] = "new"
  /\ CheckInit(t)
  /\ UNCHANGED <<proc, pc, ci, cur, arg, span, home, tainted, poolvars, live>>

\* replace_available_span is entered: its loop over suspend[c] starts (and
\* is over at once when the list is empty).
BeginScan(t, c) ==
  /\ Goto(t, "scan")
  /\ ci' = [ci EXCEPT ![t] = c]
  /\ cur' = [cur EXCEPT ![t] = links'.nxt[<<t, c>>]]

\* small_alloc, when no span of class c is in use,
MallocFirst(t, c) ==
  /\ Enter(t)
  /\ using[t][c] = NULL
  /\ CheckInit(t)
  /\ BeginScan(t, c)
  /\ UNCHANGED <<proc, arg, span, home, tainted, poolvars, live>>

\* when the one in use has free blocks,
MallocFast(t, c) ==
  LET s == using[t][c]
  IN /\ Enter(t)
     /\ s # NULL
     /\ span[s].free_cnt # 0
     /\ GetBlk(t, s, span[s], FALSE)
     /\ UNCHANGED <<thr, using, memory, poolvars>>

\* mutant: span->state = SUSPEND is missing,
MallocExhaustedInUse(t, c) ==
  LET s == using[t][c]
  IN /\ Enter(t)
     /\ s # NULL
     /\ span[s].free_cnt = 0
     /\ links' = ListAddTail(links, s, <<t, c>>)
     /\ home' = [home EXCEPT ![s] = <<t, c>>]
     /\ BeginScan(t, c)
     /\ UNCHANGED <<proc, thr, arg, using, span, tainted, poolvars, live>>

\* and when it has none: it is suspended first.
MallocExhausted(t, c) ==
  LET s == using[t][c]
  IN /\ Enter(t)
     /\ s # NULL
     /\ span[s].free_cnt = 0
     /\ span' = [span EXCEPT ![s].state = "SUSPEND"]
     /\ links' = ListAddTail(links, s, <<t, c>>)
     /\ home' = [home EXCEPT ![s] = <<t, c>>]
     /\ BeginScan(t, c)
     /\ UNCHANGED <<proc, thr, arg, using, tainted, poolvars, live>>

-----------------------------------------------------------------------------
(* replace_available_span and acquire_span.                                *)

\* Mutant: the cursor does not advance.
ScanNextStuck(t) ==
  /\ At(t, "scan")
  /\ \/ cur[t] = <<t, ci[t]>> /\ cur' = [cur EXCEPT ![t] = NULL] /\ Goto(t, "refill")
     \/ cur[t] \in Span /\ span[cur[t]].free_cnt = 0 /\ UNCHANGED <<cur, pc>>
  /\ UNCHANGED <<proc, thr, ci, arg, using, span, memory, poolvars, live>>

\* list_for_each_entry passes a span without free blocks, or ends.
ScanNext(t) ==
  LET s == cur[t]
  IN /\ At(t, "scan")
     /\ \/ /\ s = <<t, ci[t]>>
           /\ cur' = [cur EXCEPT ![t] = NULL]
           /\ Goto(t, "refill")
        \/ /\ s \in Span
           /\ span[s].free_cnt = 0
           /\ cur' = [cur EXCEPT ![t] = links.nxt[s]]
           /\ UNCHANGED pc
     /\ UNCHANGED <<proc, thr, ci, arg, using, span, memory, poolvars, live>>

\* Mutant: list_del is missing.
TakeOffLinked(s) ==
  /\ home' = [home EXCEPT ![s] = NULL]
  /\ UNCHANGED <<links, tainted>>

\* list_del of span s.
TakeOff(s) ==
  /\ links' = ListDel(links, s)
  /\ home' = [home EXCEPT ![s] = NULL]
  /\ tainted' = (tainted \/ Taints(s))

\* A suspended span with free blocks is taken off the list.  The break only
\* leaves the loop: the next lines choose another span all the same.
ScanTake(t) ==
  /\ At(t, "scan")
  /\ cur[t] \in Span
  /\ span[cur[t]].free_cnt > 0
  /\ TakeOff(cur[t])
  /\ cur' = [cur EXCEPT ![t] = NULL]
  /\ Goto(t, "refill")
  /\ UNCHANGED <<proc, thr, ci, arg, using, span, poolvars, live>>

\* The end of replace_available_span and of small_alloc: span s, with header
\* r, comes into use and its first block is returned.
Install(t, s, r, reinit) ==
  /\ using' = [using EXCEPT ![t][ci[t]] = s]
  /\ GetBlk(t, s, [r EXCEPT !.owner = t, !.state = "IN_USE"], reinit)
  /\ UNCHANGED thr

\* The first span of the list h is taken, initialised or as it is.
TakeFirst(t, h, reinit) ==
  LET s == links.nxt[h]
  IN /\ s \in Span
     /\ TakeOff(s)
     /\ Install(t, s, IF reinit THEN SpanInit(span[s], ci[t]) ELSE span[s], reinit)
     /\ UNCHANGED poolvars

RefillLocal(t) ==
  /\ At(t, "refill")
  /\ ~IsEmpty(links, FreeList(t))
  /\ TakeFirst(t, FreeList(t), TRUE)

RefillNone(t) ==
  /\ At(t, "refill")
  /\ IsEmpty(links, FreeList(t))
  /\ Goto(t, "acquire")
  /\ UNCHANGED <<proc, thr, ci, cur, arg, using, span, memory, poolvars, live>>

\* acquire_span runs under pool.lock, from its first line to its return.
Acquiring(t) == At(t, "acquire") /\ plock = NULL
SuspendEmpty(t) == IsEmpty(links, <<POOL, ci[t]>>)
PoolEmpty(t) == SuspendEmpty(t) /\ IsEmpty(links, FreeList(POOL))

AcquireSuspendInits(t) ==   \* mutant: span_init wipes a span in use
  /\ Acquiring(t)
  /\ ~SuspendEmpty(t)
  /\ TakeFirst(t, <<POOL, ci[t]>>, TRUE)

AcquireSuspend(t) ==
  /\ Acquiring(t)
  /\ ~SuspendEmpty(t)
  /\ TakeFirst(t, <<POOL, ci[t]>>, FALSE)

AcquireFree(t) ==
  /\ Acquiring(t)
  /\ SuspendEmpty(t) /\ ~PoolEmpty(t)
  /\ TakeFirst(t, FreeList(POOL), TRUE)

\* A new span at pool.free_start, after which n more fit.
Carve(t, n) ==
  /\ \E s \in Span \ carved :
       /\ carved' = carved \cup {s}
       /\ Install(t, s, SpanInit(span[s], ci[t]), TRUE)
  /\ room' = n
  /\ UNCHANGED <<memory, plock>>

AcquireCarve(t) ==
  /\ Acquiring(t) /\ PoolEmpty(t)
  /\ room > 0
  /\ Carve(t, room - 1)

\* The system extends the pool by one ALLOC_UNIT, right at pool.end.  Span
\* bounds how often it does.
AcquireGrow(t) ==
  /\ Acquiring(t) /\ PoolEmpty(t)
  /\ room = 0
  /\ \E n \in {Unit, Unit + 1} :
       /\ Cardinality(carved) + n <= Cardinality(Span)
       /\ Carve(t, n - 1)

\* It places the new memory elsewhere, or has none: exit(-1).
AcquireFatal(t) ==
  /\ Acquiring(t) /\ PoolEmpty(t)
  /\ room = 0
  /\ proc' = "fatal"
  /\ UNCHANGED <<thr, pc, ci, cur, arg, using, span, memory, poolvars, live>>

-----------------------------------------------------------------------------
(* wl_free of a small block, and span_free_blk.                            *)

\* The blocks a waiting wl_free has been given are no longer the client's to
\* free.
Held == live \ {arg[t] : t \in Thread}

\* The block comes back to its span.  A span that is collected goes from
\* its suspend list to the end of the list h.
FreeBlk(s, i, h) ==
  /\ span' = [span EXCEPT ![s] = PutBlk(@, i)]
  /\ IF Collected(span[s])
       THEN /\ links' = ListAddTail(ListDel(links, s), s, h)
            /\ home' = [home EXCEPT ![s] = h]
            /\ tainted' = (tainted \/ Taints(s))
       ELSE UNCHANGED memory
  /\ live' = live \ {<<s, i>>}

\* list_add_tail on a cache that was never initialised goes through null.
NoCache(t, s) == thr[t] = "new" /\ Collected(span[s])

\* The block's span belongs to a thread: this one, or another whose lock is
\* taken for the update (it is free, because no one else is inside a call).
\* Either way, a span that is now entirely free goes to the thread that frees.
FreeCached(t) ==
  \E b \in Held :
    /\ Enter(t)
    /\ span[b[1]].owner \in Thread
    /\ ~NoCache(t, b[1])
    /\ FreeBlk(b[1], b[2], FreeList(t))
    /\ UNCHANGED <<proc, thr, pc, ci, cur, arg, using, poolvars>>

\* The owner has ended and its thread-local storage may be unmapped, or the
\* span would go to a cache that was never initialised.
FreeFault(t) ==
  \E b \in Held :
    /\ Enter(t)
    /\ span[b[1]].owner \in Thread
    /\ thr[span[b[1]].owner] = "exited" \/ NoCache(t, b[1])
    /\ proc' = "segv"
    /\ UNCHANGED <<thr, pc, ci, cur, arg, using, span, memory, poolvars, live>>

\* It belongs to the pool: pool.lock is needed.
FreePoolCall(t) ==
  \E b \in Held :
    /\ Enter(t)
    /\ span[b[1]].owner = POOL
    /\ arg' = [arg EXCEPT ![t] = b]
    /\ Goto(t, "pfree")
    /\ UNCHANGED <<proc, thr, ci, cur, using, span, memory, poolvars, live>>

\* The lock that is released at the end is the one of the thread's own
\* cache: pool.lock stays taken.
FreePool(t) ==
  /\ At(t, "pfree")
  /\ plock = NULL
  /\ plock' = t
  /\ FreeBlk(arg[t][1], arg[t][2], FreeList(POOL))
  /\ Return(t)
  /\ UNCHANGED <<proc, thr, using, carved, room>>

-----------------------------------------------------------------------------
(* thread_exit, the destructor of a thread that has made a wl_malloc call. *)

Exit(t) ==
  /\ proc = "run" /\ Quiet(t) /\ thr[t] = "ready" /\ Exits
  /\ ci' = [ci EXCEPT ![t] = 0]
  /\ Goto(t, "xlink")
  /\ UNCHANGED <<proc, thr, cur, arg, using, span, memory, poolvars, live>>

\* The spans in use join the suspended ones; their state is left alone.
ExitLink(t) ==
  LET c == ci[t]
      s == using[t][c]
  IN /\ At(t, "xlink")
     /\ c < NClass
     /\ IF s # NULL
          THEN /\ links' = ListAddTail(links, s, <<t, c>>)
               /\ home' = [home EXCEPT ![s] = <<t, c>>]
          ELSE UNCHANGED <<links, home>>
     /\ ci' = [ci EXCEPT ![t] = c + 1]
     /\ UNCHANGED <<proc, thr, pc, cur, arg, using, span, tainted, poolvars, live>>

ExitLock(t) ==
  /\ At(t, "xlink")
  /\ ci[t] = NClass
  /\ plock = NULL
  /\ plock' = t
  /\ ci' = [ci EXCEPT ![t] = 0]
  /\ cur' = [cur EXCEPT ![t] = links.nxt[<<t, 0>>]]
  /\ Goto(t, "xwalk")
  /\ UNCHANGED <<proc, thr, arg, using, span, memory, carved, room, live>>

\* Mutant: span->owner = POOL_OWNER is missing.
ExitWalkKeepsOwner(t) ==
  /\ At(t, "xwalk")
  /\ ci[t] < NClass
  /\ cur[t] \in Span
  /\ cur' = [cur EXCEPT ![t] = links.nxt[cur[t]]]
  /\ UNCHANGED <<proc, thr, pc, ci, arg, using, span, memory, poolvars, live>>

\* Each suspended span becomes the pool's.
ExitWalk(t) ==
  LET s == cur[t]
  IN /\ At(t, "xwalk")
     /\ ci[t] < NClass
     /\ s \in Span
     /\ span' = [span EXCEPT ![s].owner = POOL]
     /\ cur' = [cur EXCEPT ![t] = links.nxt[s]]
     /\ UNCHANGED <<proc, thr, pc, ci, arg, using, memory, poolvars, live>>

\* The spans of list g are now on list h.
Rehome(g, h) == home' = [s \in Span |-> IF home[s] = g THEN h ELSE home[s]]

\* The walk is over: the list goes to the pool, and the next class is up.
ExitSplice(t) ==
  LET c == ci[t]
      h == <<t, c>>
  IN /\ At(t, "xwalk")
     /\ c < NClass
     /\ cur[t] = h
     /\ links' = ListSpliceTail(links, h, <<POOL, c>>)
     /\ Rehome(h, <<POOL, c>>)
     /\ ci' = [ci EXCEPT ![t] = c + 1]
     /\ cur' = [cur EXCEPT ![t] = links'.nxt[<<t, c + 1>>]]
     /\ UNCHANGED <<proc, thr, pc, arg, using, span, tainted, poolvars, live>>

\* The free spans follow, the lock is released and the thread is gone.
ExitDone(t) ==
  /\ At(t, "xwalk")
  /\ ci[t] = NClass
  /\ links' = ListSpliceTail(links, FreeList(t), FreeList(POOL))
  /\ Rehome(FreeList(t), FreeList(POOL))
  /\ plock' = NULL
  /\ thr' = [thr EXCEPT ![t] = "exited"]
  /\ Return(t)
  /\ UNCHANGED <<proc, using, span, tainted, carved, room, live>>

\* A new thread is started on the same, zeroed, thread-local storage.
ThreadStart(t) ==
  /\ proc = "run" /\ Quiet(t) /\ thr[t] = "exited"
  /\ thr' = [thr EXCEPT ![t] = "new"]
  /\ using' = [using EXCEPT ![t] = [c \in Class |-> NULL]]
  /\ links' = [nxt |-> [n \in Node |-> IF n \in CacheHeads(t) THEN NULL ELSE links.nxt[n]],
               prv |-> [n \in Node |-> IF n \in CacheHeads(t) THEN NULL ELSE links.prv[n]]]
  /\ UNCHANGED <<proc, pc, ci, cur, arg, span, home, tainted, poolvars, live>>

-----------------------------------------------------------------------------
\* A corrupted list leads from one head to another, or to null: a loop does
\* not end where it should, or the first "span" of a list is not one.
Wild(t) ==
  /\ proc = "run"
  /\ \/ /\ pc[t] = "scan" \/ (pc[t] = "xwalk" /\ ci[t] < NClass)
        /\ cur[t] \notin Span \cup {<<t, ci[t]>>}
     \/ \E h \in {FreeList(t), <<POOL, ci[t]>>, FreeList(POOL)} :
          /\ \/ pc[t] = "refill" /\ h = FreeList(t)
             \/ Acquiring(t) /\ h = <<POOL, ci[t]>>
             \/ Acquiring(t) /\ h = FreeList(POOL) /\ SuspendEmpty(t)
          /\ ~IsEmpty(links, h)
          /\ links.nxt[h] \notin Span
  /\ proc' = "wild"
  /\ UNCHANGED <<thr, pc, ci, cur, arg, using, span, memory, poolvars, live>>

\* What a thread does on its own once a call has started.
Step(t) ==
  \/ ScanNext(t) \/ ScanTake(t) \/ RefillLocal(t) \/ RefillNone(t)
  \/ AcquireSuspend(t) \/ AcquireFree(t) \/ AcquireCarve(t)
  \/ AcquireGrow(t) \/ AcquireFatal(t)
  \/ FreePool(t)
  \/ ExitLink(t) \/ ExitLock(t) \/ ExitWalk(t) \/ ExitSplice(t) \/ ExitDone(t)
  \/ Wild(t)

\* What the client chooses to do.
Call(t) ==
  \/ MallocOther(t)
  \/ \E c \in Class : MallocFirst(t, c) \/ MallocFast(t, c) \/ MallocExhausted(t, c)
  \/ FreeCached(t) \/ FreeFault(t) \/ FreePoolCall(t)
  \/ Exit(t) \/ ThreadStart(t)

\* The process has come to an end.
Stopped == proc # "run" /\ UNCHANGED vars

Next == Stopped \/ \E t \in Thread : Step(t) \/ Call(t)

Spec == Init /\ [][Next]_vars

\* The scheduler lets every thread that can go on inside a call do so.
\* Nobody has to make a call.
Fairness == \A t \in Thread : WF_vars(Step(t))
FairSpec == Spec /\ Fairness
=============================================================================
