------------------------------ MODULE SpanRace ------------------------------
(***************************************************************************)
(* One span in use, in finer steps than module WlMalloc: a step of get_blk *)
(* or span_free_blk stores to free_cnt or blk_list once at most, with the  *)
(* pointers that it reads for this store, and the unlock after the last.   *)
(*                                                                         *)
(* The owner allocates from the span and frees into it without a lock.     *)
(* Other threads free into it under the owner's lock.  Memory is taken to  *)
(* be sequentially consistent, which is the most that threads can rely on; *)
(* an increment is a read and a write.                                     *)
(*                                                                         *)
(* Calls on the span follow one of three disciplines: they take turns, as  *)
(* in WlMalloc; the owner makes none while others free; or there is none,  *)
(* which is what threads do that share nothing but the allocator.  The     *)
(* span stays in use: a call that finds it exhausted goes on elsewhere.    *)
(***************************************************************************)
EXTENDS Naturals, FiniteSets, WlList

CONSTANTS
  Owner,      \* the thread that the span belongs to
  Remote,     \* other threads
  Disciplines, \* of "turns", "apart" and "none", those that are considered
  NBlk,       \* blocks of the span
  CntMod,     \* 2^32: free_cnt is a uint32_t
  HEAD,       \* span->blk_list
  NULL

ASSUME RaceConstants ==
  /\ Owner \notin Remote
  /\ Disciplines \subseteq {"turns", "apart", "none"}
  /\ NBlk \in Nat \ {0} /\ CntMod \in Nat /\ CntMod > NBlk
  /\ {HEAD, NULL} \cap Nat = {} /\ HEAD # NULL
  /\ NULL \notin Remote \cup {Owner}

Thr == Remote \cup {Owner}
Blk == 0..(NBlk - 1)
Node == Blk \cup {HEAD}

VARIABLES
  discipline, \* how the client orders its calls
  free_cnt,   \* span->free_cnt
  links,      \* the list_heads of blk_list, and of the free blocks
  free_blk,   \* the next block that was never used
  lock,       \* who holds owner->lock
  live,       \* the blocks that clients hold
  bad,        \* whether an address was returned that is not a free block's
  pc,         \* where each thread is
  blk,        \* the block a call is about
  tmp,        \* a value read from free_cnt
  near,       \* the pointers read from a list node
  far

regs == <<blk, tmp, near, far>>
vars == <<discipline, free_cnt, links, free_blk, lock, live, bad, pc, regs>>

TypeOK ==
  /\ discipline \in Disciplines
  /\ free_cnt \in 0..(CntMod - 1)
  /\ links \in [nxt : [Node -> Node], prv : [Node -> Node]]
  /\ free_blk \in 0..(NBlk + 1)
  /\ lock \in Thr \cup {NULL}
  /\ live \subseteq Blk /\ bad \in BOOLEAN
  /\ pc \in [Thr -> {"idle", "choose", "unlink1", "unlink2", "bump", "dec1", "dec2",
                     "lock", "inc1", "inc2", "link1", "link2", "link3", "link4"}]
  /\ blk \in [Thr -> Node \cup {NBlk, NULL}]
  /\ tmp \in [Thr -> 0..(CntMod - 1)]
  /\ near \in [Thr -> Node \cup {NULL}] /\ far \in [Thr -> Node \cup {NULL}]

\* The owner has been given every block, and clients hold them all.
Init ==
  /\ discipline \in Disciplines
  /\ free_cnt = 0 /\ free_blk = NBlk
  /\ links = InitHeads([nxt |-> [n \in Node |-> n], prv |-> [n \in Node |-> n]], {HEAD})
  /\ lock = NULL /\ live = Blk /\ bad = FALSE
  /\ pc = [t \in Thr |-> "idle"]
  /\ blk = [t \in Thr |-> NULL] /\ tmp = [t \in Thr |-> 0]
  /\ near = [t \in Thr |-> NULL] /\ far = [t \in Thr |-> NULL]

\* Or it has not allocated from the span yet.
InitFresh ==
  /\ discipline \in Disciplines
  /\ free_cnt = NBlk /\ free_blk = 0
  /\ links = InitHeads([nxt |-> [n \in Node |-> n], prv |-> [n \in Node |-> n]], {HEAD})
  /\ lock = NULL /\ live = {} /\ bad = FALSE
  /\ pc = [t \in Thr |-> "idle"]
  /\ blk = [t \in Thr |-> NULL] /\ tmp = [t \in Thr |-> 0]
  /\ near = [t \in Thr |-> NULL] /\ far = [t \in Thr |-> NULL]

Begins(t) ==
  /\ ~bad /\ pc[t] = "idle"
  /\ discipline = "turns" => \A u \in Thr : pc[u] = "idle"
  /\ discipline = "apart" => t # Owner
At(t, where) == pc[t] = where
Goto(t, where) == pc' = [pc EXCEPT ![t] = where]
Forget(t) ==
  /\ blk' = [blk EXCEPT ![t] = NULL] /\ tmp' = [tmp EXCEPT ![t] = 0]
  /\ near' = [near EXCEPT ![t] = NULL] /\ far' = [far EXCEPT ![t] = NULL]

-----------------------------------------------------------------------------
(* small_alloc and get_blk, by the owner.                                  *)

\* The span has free blocks.
Malloc ==
  /\ Begins(Owner)
  /\ free_cnt # 0
  /\ Goto(Owner, "choose")
  /\ UNCHANGED <<free_cnt, links, free_blk, lock, live, bad, regs>>

\* list_empty, and the first block of the list,
Choose ==
  /\ At(Owner, "choose")
  /\ IF IsEmpty(links, HEAD)
       THEN Goto(Owner, "bump") /\ UNCHANGED blk
       ELSE Goto(Owner, "unlink1") /\ blk' = [blk EXCEPT ![Owner] = links.nxt[HEAD]]
  /\ UNCHANGED <<free_cnt, links, free_blk, lock, live, bad, tmp, near, far>>

\* Mutants: one of the two stores of list_del is missing.
Unlink1Not ==
  LET b == blk[Owner]
  IN /\ At(Owner, "unlink1")
     /\ near' = [near EXCEPT ![Owner] = links.prv[b]]
     /\ far' = [far EXCEPT ![Owner] = links.nxt[b]]
     /\ Goto(Owner, "unlink2")
     /\ UNCHANGED <<free_cnt, links, free_blk, lock, live, bad, blk, tmp>>
Unlink2Not ==
  /\ At(Owner, "unlink2")
  /\ Goto(Owner, "dec1")
  /\ UNCHANGED <<free_cnt, links, free_blk, lock, live, bad, regs>>

\* whose two neighbours list_del reads; it writes to one,
Unlink1 ==
  LET b == blk[Owner]
  IN /\ At(Owner, "unlink1")
     /\ near' = [near EXCEPT ![Owner] = links.prv[b]]
     /\ far' = [far EXCEPT ![Owner] = links.nxt[b]]
     /\ links' = [links EXCEPT !.nxt[links.prv[b]] = links.nxt[b]]
     /\ Goto(Owner, "unlink2")
     /\ UNCHANGED <<free_cnt, free_blk, lock, live, bad, blk, tmp>>

\* then to the other.
Unlink2 ==
  /\ At(Owner, "unlink2")
  /\ links' = [links EXCEPT !.prv[far[Owner]] = near[Owner]]
  /\ Goto(Owner, "dec1")
  /\ UNCHANGED <<free_cnt, free_blk, lock, live, bad, regs>>

\* The next block that was never used, whether there is one or not.
Bump ==
  /\ At(Owner, "bump")
  /\ blk' = [blk EXCEPT ![Owner] = free_blk]
  /\ free_blk' = free_blk + 1
  /\ Goto(Owner, "dec1")
  /\ UNCHANGED <<free_cnt, links, lock, live, bad, tmp, near, far>>

\* free_cnt--, and the block is returned.
Dec1 ==
  /\ At(Owner, "dec1")
  /\ tmp' = [tmp EXCEPT ![Owner] = free_cnt]
  /\ Goto(Owner, "dec2")
  /\ UNCHANGED <<free_cnt, links, free_blk, lock, live, bad, blk, near, far>>

Dec2 ==
  /\ At(Owner, "dec2")
  /\ free_cnt' = (tmp[Owner] + CntMod - 1) % CntMod
  /\ bad' = (bad \/ blk[Owner] \notin Blk \ live)
  /\ live' = live \cup ({blk[Owner]} \cap Blk)
  /\ Goto(Owner, "idle")
  /\ Forget(Owner)
  /\ UNCHANGED <<links, free_blk, lock>>

-----------------------------------------------------------------------------
(* span_free_blk.                                                          *)

Free(t) ==
  /\ Begins(t)
  /\ \E b \in live \ {blk[u] : u \in Thr} : blk' = [blk EXCEPT ![t] = b]
  /\ Goto(t, IF t = Owner THEN "inc1" ELSE "lock")
  /\ UNCHANGED <<free_cnt, links, free_blk, lock, live, bad, tmp, near, far>>

\* Mutant: the owner's lock is not waited for.
LockNot(t) ==
  /\ At(t, "lock")
  /\ lock' = t
  /\ Goto(t, "inc1")
  /\ UNCHANGED <<free_cnt, links, free_blk, live, bad, regs>>

\* A thread that is not the owner takes the owner's lock.
Lock(t) ==
  /\ At(t, "lock")
  /\ lock = NULL
  /\ lock' = t
  /\ Goto(t, "inc1")
  /\ UNCHANGED <<free_cnt, links, free_blk, live, bad, regs>>

\* free_cnt++.
Inc1(t) ==
  /\ At(t, "inc1")
  /\ tmp' = [tmp EXCEPT ![t] = free_cnt]
  /\ Goto(t, "inc2")
  /\ UNCHANGED <<free_cnt, links, free_blk, lock, live, bad, blk, near, far>>

Inc2(t) ==
  /\ At(t, "inc2")
  /\ free_cnt' = (tmp[t] + 1) % CntMod
  /\ Goto(t, "link1")
  /\ UNCHANGED <<links, free_blk, lock, live, bad, regs>>

\* list_add, a store at a time.  The block is free from here on.
Link1(t) ==
  /\ At(t, "link1")
  /\ near' = [near EXCEPT ![t] = links.nxt[HEAD]]
  /\ links' = [links EXCEPT !.nxt[blk[t]] = links.nxt[HEAD]]
  /\ live' = live \ {blk[t]}
  /\ Goto(t, "link2")
  /\ UNCHANGED <<free_cnt, free_blk, lock, bad, blk, tmp, far>>

Link2(t) ==
  /\ At(t, "link2")
  /\ links' = [links EXCEPT !.prv[near[t]] = blk[t]]
  /\ Goto(t, "link3")
  /\ UNCHANGED <<free_cnt, free_blk, lock, live, bad, regs>>

Link3(t) ==
  /\ At(t, "link3")
  /\ links' = [links EXCEPT !.nxt[HEAD] = blk[t]]
  /\ Goto(t, "link4")
  /\ UNCHANGED <<free_cnt, free_blk, lock, live, bad, regs>>

\* The lock is released after it.
Link4(t) ==
  /\ At(t, "link4")
  /\ links' = [links EXCEPT !.prv[blk[t]] = HEAD]
  /\ lock' = IF t = Owner THEN lock ELSE NULL
  /\ Goto(t, "idle")
  /\ Forget(t)
  /\ UNCHANGED <<free_cnt, free_blk, live, bad>>

-----------------------------------------------------------------------------
Next ==
  /\ \/ Malloc \/ Choose \/ Unlink1 \/ Unlink2 \/ Bump \/ Dec1 \/ Dec2
     \/ \E t \in Thr : \/ Free(t) \/ Lock(t) \/ Inc1(t) \/ Inc2(t)
                       \/ Link1(t) \/ Link2(t) \/ Link3(t) \/ Link4(t)
  /\ UNCHANGED discipline

Spec == (Init \/ InitFresh) /\ [][Next]_vars

-----------------------------------------------------------------------------
Settled == \A t \in Thr : pc[t] = "idle"

\* The blocks met on the way round the list: those in every set of nodes that
\* the walk from its head does not leave.
Walked(S) == /\ links.nxt[HEAD] \in S
             /\ \A n \in S \ {HEAD} : links.nxt[n] \in S
Listed == {b \in Blk : \A S \in SUBSET Node : Walked(S) => b \in S}

(***************************************************************************)
(* Between calls, free_cnt is the number of blocks that no client holds.   *)
(* small_alloc allocates from the span while it is not zero, so that one   *)
(* too many is a block that does not exist and one too few is lost.        *)
(***************************************************************************)
CountExact == Settled /\ ~bad => free_cnt = NBlk - Cardinality(live)

(***************************************************************************)
(* Between calls, the blocks met on blk_list are the ones that were used   *)
(* before and are free now, and the list closes on itself in both          *)
(* directions.                                                             *)
(***************************************************************************)
ListExact ==
  Settled => /\ Listed = (0..(free_blk - 1)) \ live
             /\ \A b \in Listed \cup {HEAD} : links.prv[links.nxt[b]] = b

(***************************************************************************)
(* What wl_malloc returns is a block of the span that no client holds      *)
(* (doc.md:6: malloc and free of many threads are supported).  A free that *)
(* is under way has counted its block before blk_list has it.              *)
(***************************************************************************)
OnlyFreeBlocks == ~bad
=============================================================================
