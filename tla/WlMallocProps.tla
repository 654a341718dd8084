--------------------------- MODULE WlMallocProps ----------------------------
(***************************************************************************)
(* What the small-block allocator of module WlMalloc has to satisfy.       *)
(*                                                                         *)
(* replace_available_span takes a partly used span off its suspend list    *)
(* and then forgets it.  When the last block of such a span is freed,      *)
(* list_del runs on pointers of long ago, and lists may be corrupted.      *)
(* "tainted" records that this has happened, so the properties below say   *)
(* what holds as long as it has not.                                       *)
(***************************************************************************)
EXTENDS WlMalloc

Sound == proc = "run" /\ ~tainted

-----------------------------------------------------------------------------
(* Lists.                                                                  *)

\* Next to node n, on both sides, are nodes of the same list, and they point
\* back.
LinkedBothWays(n) ==
  LET x == links.nxt[n]
      p == links.prv[n]
  IN /\ x \in Node /\ HomeOf(x) = HomeOf(n) /\ links.prv[x] = n
     /\ p \in Node /\ HomeOf(p) = HomeOf(n) /\ links.nxt[p] = n

\* The spans of set S follow each other round and never reach a list head.
Ring(S) == S # {} /\ \A s \in S : links.nxt[s] \in S

(***************************************************************************)
(* The pointers of suspend[], free_list and of the pool's lists always     *)
(* form proper circular lists that contain exactly the spans put on them:  *)
(* each node's neighbours are on the same list and point back, and every   *)
(* span of a list is met when the list is walked.  list_for_each_entry,    *)
(* list_empty and list_del of list.h are meaningless otherwise.            *)
(***************************************************************************)
ListsWellFormed ==
  Sound => /\ \A n \in Node : HomeOf(n) # NULL => LinkedBothWays(n)
           /\ \A S \in SUBSET {s \in Span : home[s] # NULL} : ~Ring(S)

-----------------------------------------------------------------------------
(* Blocks.                                                                 *)

(***************************************************************************)
(* In a span that is not on a free list, every block below free_blk is     *)
(* either held by the client or in blk_list, never both, and free_cnt      *)
(* counts exactly the blocks that are not held ("all free blks, including  *)
(* those in blk_list", wlmalloc.h).  A span on a free list has no block    *)
(* that anyone holds.  small_alloc trusts free_cnt, span_init trusts the   *)
(* free list.                                                              *)
(***************************************************************************)
BlocksAccounted ==
  Sound => \A s \in carved :
             IF span[s].state = "FREE" THEN LiveOf(s) = {}
             ELSE /\ LiveOf(s) \cup span[s].blk_list = 0..(span[s].free_blk - 1)
                  /\ LiveOf(s) \cap span[s].blk_list = {}
                  /\ span[s].free_blk <= N(s)
                  /\ span[s].free_cnt = N(s) - Cardinality(LiveOf(s))

-----------------------------------------------------------------------------
(* Spans.                                                                  *)

\* Thread t allocates class c from using[t][c].  A span that is being
\* replaced, or has been linked by thread_exit, is only still mentioned there.
InUse(t, c) ==
  /\ thr[t] = "ready"
  /\ using[t][c] # NULL
  /\ ~(pc[t] \in {"scan", "refill", "acquire"} /\ ci[t] = c)
  /\ ~(pc[t] = "xlink" /\ c < ci[t]) /\ pc[t] # "xwalk"

\* What the header of a span on list h says.
FitsList(s, h) ==
  IF h[2] = NClass THEN span[s].state = "FREE"
  ELSE /\ span[s].cls = h[2]
       /\ span[s].state # "FREE"
       /\ h[1] = POOL => span[s].owner = POOL
       /\ h[1] # POOL /\ pc[h[1]] \notin {"xlink", "xwalk"} =>
            span[s].owner = h[1] /\ span[s].state = "SUSPEND"

(***************************************************************************)
(* A span is in one place: no two classes or threads allocate from the     *)
(* same span, a span in use is on no list, and what its header says of     *)
(* owner, state and class agrees with where it is.  span_free_blk decides  *)
(* by that header which lock to take and which list to change.             *)
(***************************************************************************)
SpansPlaced ==
  Sound =>
    /\ \A t \in Thread, c \in Class : InUse(t, c) =>
         LET s == using[t][c]
         IN /\ home[s] = NULL
            /\ span[s].owner = t /\ span[s].state = "IN_USE" /\ span[s].cls = c
            /\ \A u \in Thread, d \in Class :
                 InUse(u, d) /\ using[u][d] = s => u = t /\ d = c
    /\ \A s \in Span : home[s] # NULL => FitsList(s, home[s])

(***************************************************************************)
(* The span that replace_available_span forgets still holds client blocks  *)
(* and is in state SUSPEND, so that freeing its last block brings it back  *)
(* to a free list: a carved span that is neither in use nor on a list has  *)
(* something left to free.                                                 *)
(***************************************************************************)
ForgottenSpansReturn ==
  Sound => \A s \in carved :
    \/ home[s] # NULL
    \/ \E t \in Thread, c \in Class : InUse(t, c) /\ using[t][c] = s
    \/ span[s].state = "SUSPEND" /\ LiveOf(s) # {}

(***************************************************************************)
(* While a client holds blocks of a span, the span does not pass from one  *)
(* thread to another except through the pool.  A remote wl_free reads      *)
(* span->owner to choose the lock it takes.                                *)
(***************************************************************************)
OwnerChangesViaPool ==
  [][\A s \in Span : ~tainted' /\ LiveOf(s) # {} /\ span'[s].owner # span[s].owner
       => POOL \in {span[s].owner, span'[s].owner}]_vars

(***************************************************************************)
(* The four together: what thread_exit, and acquire_span after it, have to *)
(* leave behind when they move the spans of a thread to the pool and on.   *)
(***************************************************************************)
HeapSound == ListsWellFormed /\ BlocksAccounted /\ SpansPlaced /\ ForgottenSpansReturn

-----------------------------------------------------------------------------
(* Outcomes.                                                               *)

(***************************************************************************)
(* If no thread ever ends, wl_malloc returns no block beyond the end of    *)
(* its span: the free_cnt of the span in use is never zero in get_blk.     *)
(***************************************************************************)
NoOverrunWithoutExit == ~Exits /\ proc = "overrun" => tainted

(***************************************************************************)
(* The allocator hands out disjoint memory: it implements BlockHeap.       *)
(***************************************************************************)
Heap == INSTANCE BlockHeap WITH
  live <- {<<b[1], span[b[1]].cls, b[2]>> : b \in live},
  fate <- IF tainted THEN "tainted" ELSE proc

HeapSpec == Heap!Spec

(***************************************************************************)
(* Every call comes to its end, or the process does: the walk over         *)
(* suspend[] terminates, and a thread is not kept waiting for pool.lock    *)
(* for ever.  ("supports malloc/free operations of many threads", doc.md)  *)
(***************************************************************************)
CallsReturn ==
  \A t \in Thread : pc[t] # "idle" ~> (pc[t] = "idle" \/ ~Sound)

-----------------------------------------------------------------------------
(* What documents of the repository say, and the code does not do.         *)

(***************************************************************************)
(* doc.md, test4: many mallocs and frees work correctly.  With one thread, *)
(* no block is handed out while the client holds it.                       *)
(***************************************************************************)
NeverReissued == proc # "reissue"
=============================================================================
