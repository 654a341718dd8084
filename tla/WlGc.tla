-------------------------------- MODULE WlGc --------------------------------
(***************************************************************************)
(* The mark-sweep collector of wlgc.c, and the single-threaded program     *)
(* that uses it.                                                           *)
(*                                                                         *)
(* Every tracked block has an entry (alloc_t) in a hash table of chains.   *)
(* A collection marks the entries of the blocks that the words of the      *)
(* stack lead to, directly or through the words of other tracked blocks,   *)
(* then walks the table and frees the blocks of the entries left unmarked. *)
(* Globals are not scanned; registers are as setjmp has put them there.    *)
(*                                                                         *)
(* A block is a model value.  The words of a block that are the address of *)
(* a block are a set: words, those the program stored; junk, those that    *)
(* were in the memory when gc_malloc got it from malloc.  The recursion of *)
(* gc_mark_alloc is the set of words it has still to look up, taken in any *)
(* order.                                                                  *)
(***************************************************************************)
EXTENDS Naturals, FiniteSets, SequencesExt

CONSTANTS
  Obj,        \* the blocks malloc can return
  Hash,       \* hash_func of their addresses
  Capacity,   \* DEFAULT_CAPACITY, a power of two
  MaxWords,   \* how many addresses fit in a block
  MaxSize,    \* a bound on the entries, for model checking,
  Resized,    \* and the blocks that the program may pass to gc_realloc
  NULL

ASSUME GcConstants ==
  /\ Hash \in [Obj -> Nat]
  /\ Capacity \in Nat \ {0} /\ {MaxWords, MaxSize} \subseteq Nat
  /\ NULL \notin Obj /\ Resized \subseteq Obj

VARIABLES
  allocs,     \* gc.allocs: a chain of entries for each index
  capacity,   \* gc.capacity
  size,       \* gc.size
  new_allocs, \* the table that gc_hash_resize fills, empty otherwise
  heap,       \* the blocks malloc has given out and not taken back
  stack,      \* the addresses of blocks on the stack
  words,      \* the addresses the program stored in each block
  junk,       \* the addresses left over in each block
  pc,         \* "run" (the program), "mark", "sweep", "resize", "alloc"
  todo,       \* words that gc_mark has yet to look up
  at,         \* where gc_sweep or gc_hash_resize is: an index and a place in its chain
  call,       \* the call that a collection interrupts
  left,       \* history: the blocks whose entry a gc_realloc has left behind
  fate        \* "ok", or what a free of the collector destroyed

gcvars == <<allocs, capacity, size, new_allocs>>
progvars == <<stack, words, junk>>
vars == <<gcvars, heap, progvars, pc, todo, at, call, left, fate>>

Entry == [p : Obj, mark : BOOLEAN]
Index(o) == Hash[o] % capacity
Chain(o) == allocs[Index(o)]

\* search: the first entry of a block in its chain.
Places(o) == {j \in 1..Len(Chain(o)) : Chain(o)[j].p = o}
Known(o) == Places(o) # {}
Found(o) == CHOOSE j \in Places(o) : \A k \in Places(o) : j <= k

\* sweep_limit is capacity * SWEEP_FACTOR as a whole number.  LOAD_FACTOR is
\* the larger one.
NeedCollect == size > capacity \div 2
NeedResize == 10 * size > 7 * capacity

\* What the program can get at, and what the collector can: the least set
\* that has the words of the stack and the words in the blocks of the set.
Closed(S, mem) == stack \subseteq S /\ \A o \in S : mem[o] \subseteq S
Reach(mem) == {o \in Obj : \A S \in SUBSET Obj : Closed(S, mem) => o \in S}
Scanned == [o \in Obj |-> IF Known(o) THEN words[o] \cup junk[o] ELSE {}]

Empty(cap) == [i \in 0..(cap - 1) |-> << >>]

Init ==
  /\ allocs = Empty(Capacity) /\ new_allocs = << >>
  /\ capacity = Capacity /\ size = 0
  /\ heap = {} /\ stack = {}
  /\ words = [o \in Obj |-> {}] /\ junk = [o \in Obj |-> {}]
  /\ pc = "run" /\ todo = {} /\ at = <<0, 1>>
  /\ call = <<"none", NULL>> /\ left = {} /\ fate = "ok"

-----------------------------------------------------------------------------
(* The program.                                                            *)

Running == pc = "run" /\ fate = "ok"

\* It copies an address from a block it has the address of to the stack,
Load(o) ==
  /\ Running
  /\ \E q \in stack : o \in words[q]
  /\ o \notin stack
  /\ stack' = stack \cup {o}
  /\ UNCHANGED <<gcvars, heap, words, junk, pc, todo, at, call, left, fate>>

\* forgets one,
Drop(o) ==
  /\ Running
  /\ o \in stack
  /\ stack' = stack \ {o}
  /\ UNCHANGED <<gcvars, heap, words, junk, pc, todo, at, call, left, fate>>

\* stores one in a block,
Store(q, o) ==
  /\ Running
  /\ {q, o} \subseteq stack
  /\ Cardinality(words[q] \cup junk[q] \cup {o}) <= MaxWords
  /\ words' = [words EXCEPT ![q] = @ \cup {o}]
  /\ UNCHANGED <<gcvars, heap, stack, junk, pc, todo, at, call, left, fate>>

\* or overwrites all of a block.
Wipe(q) ==
  /\ Running
  /\ q \in stack
  /\ words' = [words EXCEPT ![q] = {}]
  /\ junk' = [junk EXCEPT ![q] = {}]
  /\ UNCHANGED <<gcvars, heap, stack, pc, todo, at, call, left, fate>>

-----------------------------------------------------------------------------
(* Allocation.                                                             *)

\* gc_malloc, gc_calloc, gc_realloc (of block o) and gc_collect start.
Begin(name, o) ==
  /\ Running
  /\ call' = <<name, o>>
  /\ IF name = "collect" \/ NeedCollect
       THEN pc' = "mark" /\ todo' = stack
       ELSE pc' = "alloc" /\ UNCHANGED todo
  /\ UNCHANGED <<gcvars, heap, progvars, at, left, fate>>

StartAlloc(name) == size < MaxSize /\ Begin(name, NULL)
StartRealloc(o) ==
  /\ size < MaxSize
  /\ o \in stack \cap Resized
  /\ Begin("realloc", o)

\* register_alloc: a new entry in front of the chain.
Register(o) ==
  /\ allocs' = [allocs EXCEPT ![Index(o)] = <<[p |-> o, mark |-> FALSE]>> \o @]
  /\ size' = size + 1
  /\ UNCHANGED <<capacity, new_allocs>>

\* The rest of the call; the address it returns is on the stack.
Finish(o) ==
  /\ Register(o)
  /\ stack' = stack \cup {o}
  /\ pc' = "run" /\ call' = <<"none", NULL>>
  /\ UNCHANGED <<todo, at, fate>>

\* malloc or calloc returns a block; the memory of malloc is as it was.
Alloc(o) ==
  /\ pc = "alloc" /\ fate = "ok"
  /\ call[1] \in {"malloc", "calloc"}
  /\ o \notin heap
  /\ heap' = heap \cup {o}
  /\ words' = [words EXCEPT ![o] = {}]
  /\ junk' = [junk EXCEPT ![o] = IF call[1] = "malloc" THEN @ \cup words[o] ELSE {}]
  /\ Finish(o)
  /\ UNCHANGED left

\* realloc returns the same block,
ReallocInPlace ==
  /\ pc = "alloc" /\ fate = "ok"
  /\ call[1] = "realloc"
  /\ left' = left \cup {call[2]}
  /\ UNCHANGED <<heap, words, junk>>
  /\ Finish(call[2])

\* or another one with the same contents.  The program forgets the address
\* of the old one; the old entry stays.
ReallocMove(o) ==
  LET old == call[2]
  IN /\ pc = "alloc" /\ fate = "ok"
     /\ call[1] = "realloc"
     /\ o \notin heap
     /\ heap' = (heap \cup {o}) \ {old}
     /\ words' = [q \in Obj |-> (IF q = o THEN words[old] ELSE words[q]) \ {old}]
     /\ junk' = [junk EXCEPT ![o] = junk[old]]
     /\ Register(o)
     /\ stack' = (stack \cup {o}) \ {old}
     /\ pc' = "run" /\ call' = <<"none", NULL>>
     /\ left' = left \cup {old}
     /\ UNCHANGED <<todo, at, fate>>

-----------------------------------------------------------------------------
(* Freeing.                                                                *)

\* Mutant: the head of the chain goes, whatever the entry.
FreeAllocHead(i, j) ==
  LET o == allocs[i][j].p
  IN /\ allocs' = [allocs EXCEPT ![i] = Tail(@)]
     /\ size' = size - 1
     /\ heap' = heap \ {o}
     /\ fate' = IF o \in heap THEN fate ELSE "double free"
     /\ UNCHANGED <<capacity, new_allocs>>

\* gc_free_alloc on the j-th entry of chain i: it leaves the table, and its
\* block goes back to free.
FreeAlloc(i, j) ==
  LET o == allocs[i][j].p
  IN /\ allocs' = [allocs EXCEPT ![i] = RemoveAt(@, j)]
     /\ size' = size - 1
     /\ heap' = heap \ {o}
     /\ fate' = IF o \in heap THEN fate ELSE "double free"
     /\ UNCHANGED <<capacity, new_allocs>>

\* gc_free of a block the program has no other use of.
GcFree(o) ==
  /\ Running
  /\ o \in stack /\ Known(o)
  /\ \A q \in Obj : o \notin words[q]
  /\ FreeAlloc(Index(o), Found(o))
  /\ stack' = stack \ {o}
  /\ UNCHANGED <<words, junk, pc, todo, at, call, left>>

-----------------------------------------------------------------------------
(* Collection.                                                             *)

\* Mutants: the words of a block are not looked at; a marked block's are again.
MarkShallow(o) ==
  /\ pc = "mark" /\ o \in todo
  /\ allocs' = IF Known(o) THEN [allocs EXCEPT ![Index(o)][Found(o)].mark = TRUE]
                          ELSE allocs
  /\ todo' = todo \ {o}
  /\ UNCHANGED <<capacity, size, new_allocs, heap, progvars, pc, at, call, left, fate>>
MarkAgain(o) ==
  /\ pc = "mark" /\ o \in todo
  /\ IF Known(o)
       THEN /\ allocs' = [allocs EXCEPT ![Index(o)][Found(o)].mark = TRUE]
            /\ todo' = (todo \ {o}) \cup words[o] \cup junk[o]
       ELSE todo' = todo \ {o} /\ UNCHANGED allocs
  /\ UNCHANGED <<capacity, size, new_allocs, heap, progvars, pc, at, call, left, fate>>

\* A word is looked up.  If it is the address of a tracked block that is not
\* marked, gc_mark_alloc marks the entry and goes through the block's words.
Mark(o) ==
  /\ pc = "mark" /\ o \in todo
  /\ IF Known(o) /\ ~Chain(o)[Found(o)].mark
       THEN /\ allocs' = [allocs EXCEPT ![Index(o)][Found(o)].mark = TRUE]
            /\ todo' = (todo \ {o}) \cup words[o] \cup junk[o]
       ELSE todo' = todo \ {o} /\ UNCHANGED allocs
  /\ UNCHANGED <<capacity, size, new_allocs, heap, progvars, pc, at, call, left, fate>>

\* A sweep of an empty table is over at once.
Resume(name) == IF name = "collect" THEN "run" ELSE "alloc"
MarkDone ==
  /\ pc = "mark" /\ todo = {}
  /\ pc' = IF size = 0 THEN Resume(call[1]) ELSE "sweep"
  /\ at' = <<0, 1>>
  /\ UNCHANGED <<gcvars, heap, progvars, todo, call, left, fate>>

Walking(phase) == pc = phase /\ fate = "ok" /\ at[1] < capacity
Sweeping == Walking("sweep")
AtEntry == at[2] <= Len(allocs[at[1]])

\* Mutants: the mark stays; the entry after a freed one is skipped.
SweepKeepMark ==
  /\ Sweeping /\ AtEntry
  /\ allocs[at[1]][at[2]].mark
  /\ at' = <<at[1], at[2] + 1>>
  /\ UNCHANGED <<gcvars, heap, progvars, pc, todo, call, left, fate>>
SweepFreeSkips ==
  /\ Sweeping /\ AtEntry
  /\ ~allocs[at[1]][at[2]].mark
  /\ FreeAlloc(at[1], at[2])
  /\ at' = <<at[1], at[2] + 1>>
  /\ UNCHANGED <<progvars, pc, todo, call, left>>

\* A marked entry loses its mark, an unmarked one is freed.
SweepKeep ==
  /\ Sweeping /\ AtEntry
  /\ allocs[at[1]][at[2]].mark
  /\ allocs' = [allocs EXCEPT ![at[1]][at[2]].mark = FALSE]
  /\ at' = <<at[1], at[2] + 1>>
  /\ UNCHANGED <<capacity, size, new_allocs, heap, progvars, pc, todo, call, left, fate>>

SweepFree ==
  /\ Sweeping /\ AtEntry
  /\ ~allocs[at[1]][at[2]].mark
  /\ FreeAlloc(at[1], at[2])
  /\ UNCHANGED <<progvars, pc, todo, at, call, left>>

\* The end of a chain, for gc_sweep and gc_hash_resize.
NextChain ==
  /\ Sweeping \/ Walking("resize")
  /\ ~AtEntry
  /\ at' = <<at[1] + 1, 1>>
  /\ UNCHANGED <<gcvars, heap, progvars, pc, todo, call, left, fate>>

\* Mutant: not before there are more entries than chains.
MustGrowLate == size > capacity

\* The garbage was not enough, or the chains are long.
MustGrow == NeedCollect \/ NeedResize
SweepDone ==
  /\ pc = "sweep" /\ fate = "ok" /\ at[1] = capacity
  /\ at' = <<0, 1>>
  /\ IF MustGrow THEN pc' = "resize" /\ new_allocs' = Empty(2 * capacity)
                 ELSE pc' = Resume(call[1]) /\ UNCHANGED new_allocs
  /\ UNCHANGED <<allocs, capacity, size, heap, progvars, todo, call, left, fate>>

\* Mutant: the old capacity still gives the index.
NewIndexOld(o) == Hash[o] % capacity

\* gc_hash_resize: entry by entry to the front of its new chain.  Masking
\* with the new capacity minus one is the remainder, for a power of two.
NewIndex(o) == Hash[o] % (2 * capacity)
Rehash ==
  /\ Walking("resize") /\ AtEntry
  /\ LET e == allocs[at[1]][at[2]]
     IN new_allocs' = [new_allocs EXCEPT ![NewIndex(e.p)] = <<e>> \o @]
  /\ at' = <<at[1], at[2] + 1>>
  /\ UNCHANGED <<allocs, capacity, size, heap, progvars, pc, todo, call, left, fate>>

ResizeDone ==
  /\ pc = "resize" /\ at[1] = capacity
  /\ allocs' = new_allocs /\ new_allocs' = << >>
  /\ capacity' = 2 * capacity
  /\ pc' = Resume(call[1]) /\ at' = <<0, 1>>
  /\ UNCHANGED <<size, heap, progvars, todo, call, left, fate>>

-----------------------------------------------------------------------------
Collector ==
  \/ \E o \in Obj : Mark(o)
  \/ MarkDone \/ SweepKeep \/ SweepFree \/ NextChain \/ SweepDone
  \/ Rehash \/ ResizeDone

Next ==
  \/ Collector
  \/ \E o \in Obj : \/ Load(o) \/ Drop(o) \/ Wipe(o) \/ GcFree(o)
                    \/ \E q \in Obj : Store(q, o)
                    \/ Alloc(o) \/ StartRealloc(o) \/ ReallocMove(o)
  \/ \E name \in {"malloc", "calloc"} : StartAlloc(name)
  \/ ReallocInPlace \/ Begin("collect", NULL)

Spec == Init /\ [][Next]_vars

\* The collector runs on the program's own thread and is not interrupted.
FairSpec == Spec /\ WF_vars(Collector)
=============================================================================
