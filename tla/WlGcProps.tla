----------------------------- MODULE WlGcProps ------------------------------
(***************************************************************************)
(* What the collector of module WlGc has to satisfy.  Blocks that were     *)
(* passed to gc_realloc (left) are lost to it: they have two entries, or   *)
(* an entry without a block.  The others should not suffer from them.      *)
(***************************************************************************)
EXTENDS WlGc

\* Where the entries of a table are: an index and a place in its chain.
Slots(t) == UNION {{i} \X (1..Len(t[i])) : i \in DOMAIN t}
At(t, s) == t[s[1]][s[2]]

Tracked == {o \in Obj : Known(o)}
Marked == {o \in Tracked : Chain(o)[Found(o)].mark}

(***************************************************************************)
(* The types, and the bookkeeping of the hash table: each entry is in the  *)
(* chain that search looks in, also after gc_hash_resize has moved it, and *)
(* gc.size, which triggers collections, counts the entries.                *)
(***************************************************************************)
TableOK ==
  /\ allocs \in [0..(capacity - 1) -> Seq(Entry)]
  /\ \A s \in Slots(allocs) : Index(At(allocs, s).p) = s[1]
  /\ size = Cardinality(Slots(allocs))
  /\ fate \in {"ok", "double free"}

(***************************************************************************)
(* The table keeps up with the program: between calls there is at most one *)
(* entry more than the limit that triggers a collection, so that search    *)
(* stays short.  It holds because gc_sweep doubles the table whenever the  *)
(* garbage was not enough.                                                 *)
(***************************************************************************)
LoadBounded == pc = "run" => size <= (capacity \div 2) + 1

(***************************************************************************)
(* A block has one entry, and the tracked blocks are exactly those that    *)
(* malloc has given out, but for blocks that were passed to gc_realloc:    *)
(* only these are freed twice.                                             *)
(***************************************************************************)
OneEntryEach ==
  /\ \A o \in Obj \ left : Cardinality(Places(o)) <= 1
  /\ Tracked \ left = heap \ left
  /\ left = {} => fate = "ok"

(***************************************************************************)
(* While gc_mark runs, every word of the stack and of a marked block is    *)
(* the address of a marked block, is still to be looked up, or is not the  *)
(* address of a tracked block: when it is over, everything reachable is    *)
(* marked.  That needs a start without marks: gc_sweep clears those of the *)
(* blocks that it keeps, or the next collection would not go through them. *)
(***************************************************************************)
MarksRight ==
  /\ pc = "mark" => \A o \in Tracked :
       o \in stack \/ (\E q \in Marked : o \in words[q] \cup junk[q]) => o \in Marked \cup todo
  /\ pc \in {"run", "alloc"} => Marked = {}

(***************************************************************************)
(* gc_sweep never frees a block that the program can reach, other than one *)
(* that was passed to gc_realloc: the marks it goes by cover the whole     *)
(* graph of blocks, through chains that share an index, blocks that hold   *)
(* each other's addresses, and the blocks that gc_realloc returned.        *)
(***************************************************************************)
SweepsSafely ==
  [][pc = "sweep" => \A o \in (heap \ heap') \ left : o \notin Reach(words)]_vars

(***************************************************************************)
(* gc_sweep "cleans up garbage memory" (wlgc.c:136): it never frees a      *)
(* block that the program can reach.                                       *)
(***************************************************************************)
FreesGarbageOnly == [][pc = "sweep" => \A o \in heap \ heap' : o \notin Reach(words)]_vars

(***************************************************************************)
(* When a collection is over, every block in use is one that the collector *)
(* can reach from the stack: no garbage outlives a collection, other than  *)
(* what left-over words keep alive.                                        *)
(***************************************************************************)
CollectsAllGarbage ==
  [][pc = "sweep" /\ pc' # "sweep" => heap \subseteq Reach(Scanned)]_vars

(***************************************************************************)
(* A collection comes to an end, whatever cycles the blocks form.          *)
(***************************************************************************)
CollectionEnds == pc \in {"mark", "sweep", "resize"} ~> (pc \in {"run", "alloc"} \/ fate # "ok")
=============================================================================
