----------------------------- MODULE WlRegions ------------------------------
(***************************************************************************)
(* The addresses that wlmalloc hands out: the pool that spans are carved   *)
(* from, the blocks above the largest class that have mappings of their    *)
(* own, and the calls that tell the two apart by address or find the       *)
(* header of a block: wl_malloc, calloc, wl_free, realloc, tri_mod_write.  *)
(*                                                                         *)
(* Which free block of which span a call gets is the matter of module      *)
(* WlMalloc; here it is any block of the right class.  The kernel maps     *)
(* whole pages at any free place and may refuse.  What clients write stays *)
(* within the bytes they asked for, so that headers are intact until one   *)
(* uses bytes of a large block that are not in its mapping (Overrun).      *)
(***************************************************************************)
EXTENDS Naturals, FiniteSets, FiniteSetsExt

CONSTANTS
  Page,       \* the size of a page (PAGE)
  Top,        \* the number of pages of the address space; page 0 is not used
  Hdr,        \* sizeof(span_t)
  DataSize,   \* SPAN_DATA_SIZE, and the largest class
  AllocUnit,  \* ALLOC_UNIT
  Classes,    \* the sizes of the classes
  BlkMod,     \* 2^32: blk_size is a uint32_t
  SizeMod,    \* 2^64: sizes are of type size_t
  Sizes,      \* the sizes asked for, for model checking
  Counts,     \* the first argument of calloc, for model checking
  MaxLive     \* a bound on the blocks in use, for model checking

SpanSize == DataSize + Hdr

ASSUME RegionConstants ==
  /\ {Page, Top, Hdr, DataSize, AllocUnit, BlkMod, SizeMod} \subseteq Nat \ {0}
  /\ Hdr <= DataSize /\ AllocUnit % Page = 0 /\ AllocUnit >= 2 * SpanSize
  /\ Classes \subseteq 1..DataSize /\ DataSize \in Classes
  /\ Sizes \cup Counts \subseteq 1..(SizeMod - 1)
  /\ MaxLive \in Nat

VARIABLES
  mapped,     \* the pages that the kernel has mapped
  start,      \* pool.start, pool.end and pool.free_start; 0 at first
  end,
  free_start,
  span,       \* the class size of each span carved
  live,       \* the blocks in use
  fate        \* "ok", "refused" (a tri_mod_write was), "exit", "fault", "overrun"

pool == <<start, end, free_start>>
vars == <<mapped, pool, span, live, fate>>

\* A block: its address, the bytes the client asked for, the blk_size in its
\* header, and the length of its mapping, 0 for a block of a span.
Block == [p : Nat, req : Nat, blk : Nat, len : Nat]

-----------------------------------------------------------------------------
(* The kernel.                                                             *)

\* The pages of n bytes from address a.
Pages(a, n) == IF n = 0 THEN {} ELSE (a \div Page)..((a + n - 1) \div Page)

\* Where mmap can put n bytes.
Places(n) ==
  {a \in {Page * k : k \in 1..(Top - 1)} :
     Pages(a, n) \cap mapped = {} /\ Pages(a, n) \subseteq 1..(Top - 1)}

-----------------------------------------------------------------------------
GetHeader(p) == p - (p % SpanSize)

Carved == DOMAIN span
Slots(s) == {s + Hdr + k * span[s] : k \in 0..(DataSize \div span[s] - 1)}

\* wl_free and realloc: the address is not one of the pool.
Outside(p) == p < start \/ end < p

\* size2cls.
Cls(sz) == Min({c \in Classes : sz <= c})

\* What small_alloc and large_alloc can return for sz bytes.  large_alloc
\* asks for sz bytes, and puts the header at their start.
SmallBlocks(sz) ==
  {[p |-> p, req |-> sz, blk |-> Cls(sz), len |-> 0] :
     p \in (UNION {Slots(s) : s \in {t \in Carved : span[t] = Cls(sz)}}) \ {b.p : b \in live}}
LargeBlocks(sz) ==
  {[p |-> a + Hdr, req |-> sz, blk |-> sz % BlkMod, len |-> sz] : a \in Places(sz)}
NewBlocks(sz) == IF sz <= DataSize THEN SmallBlocks(sz) ELSE LargeBlocks(sz)

Ready == start # 0 /\ fate \in {"ok", "refused"}

Init ==
  /\ mapped = {} /\ start = 0 /\ end = 0 /\ free_start = 0
  /\ span = << >> /\ live = {} /\ fate = "ok"

-----------------------------------------------------------------------------
(* The pool.                                                               *)

\* Mutant: the start of the mapping is taken as it is.
GlobalInitUnaligned ==
  /\ start = 0 /\ fate = "ok"
  /\ \E raw \in Places(AllocUnit) :
       /\ mapped' = mapped \cup Pages(raw, AllocUnit)
       /\ start' = raw
       /\ end' = raw + AllocUnit
       /\ free_start' = start'
  /\ UNCHANGED <<span, live, fate>>

\* global_init: the start is the first multiple of SPAN_SIZE.
GlobalInit ==
  /\ start = 0 /\ fate = "ok"
  /\ \E raw \in Places(AllocUnit) :
       /\ mapped' = mapped \cup Pages(raw, AllocUnit)
       /\ start' = ((raw + SpanSize - 1) \div SpanSize) * SpanSize
       /\ end' = raw + AllocUnit
       /\ free_start' = start'
  /\ UNCHANGED <<span, live, fate>>

\* The kernel refuses, and the process exits.
GlobalFatal ==
  /\ start = 0 /\ fate = "ok"
  /\ fate' = "exit"
  /\ UNCHANGED <<mapped, pool, span, live>>

Carve(c) ==
  /\ span' = [s \in Carved \cup {free_start} |-> IF s = free_start THEN c ELSE span[s]]
  /\ free_start' = free_start + SpanSize

\* Mutant: the last span need not fit.
AcquireCarveLast(c) ==
  /\ Ready
  /\ free_start <= end
  /\ Carve(c)
  /\ UNCHANGED <<mapped, start, end, live, fate>>

\* acquire_span, for class c: a span from what is left of the pool,
AcquireCarve(c) ==
  /\ Ready
  /\ free_start + SpanSize <= end
  /\ Carve(c)
  /\ UNCHANGED <<mapped, start, end, live, fate>>

\* or after a new mapping that must continue the pool.
AcquireGrow(c) ==
  /\ Ready
  /\ ~(free_start + SpanSize <= end)
  /\ end \in Places(AllocUnit)
  /\ mapped' = mapped \cup Pages(end, AllocUnit)
  /\ end' = end + AllocUnit
  /\ Carve(c)
  /\ UNCHANGED <<start, live, fate>>

\* It is elsewhere, or there is none.
AcquireFatal ==
  /\ Ready
  /\ ~(free_start + SpanSize <= end)
  /\ fate' = "exit"
  /\ UNCHANGED <<mapped, pool, span, live>>

-----------------------------------------------------------------------------
(* Allocation.                                                             *)

Take(b) ==
  /\ live' = live \cup {b}
  /\ mapped' = mapped \cup Pages(b.p - Hdr, b.len)

Malloc(sz) ==
  /\ Ready /\ Cardinality(live) < MaxLive
  /\ \E b \in NewBlocks(sz) : Take(b)
  /\ UNCHANGED <<pool, span, fate>>

\* large_alloc, for whichever call, writes its header at the address that mmap
\* returned even when that is MAP_FAILED.
LargeFault ==
  /\ Ready
  /\ \E sz \in Sizes : sz > DataSize
  /\ fate' = "fault"
  /\ UNCHANGED <<mapped, pool, span, live>>

\* A client uses the end of a large block that its mapping has no room for:
\* the page after it is not there, or is a header or a block of someone else.
Overrun(b) ==
  /\ Ready /\ b \in live /\ b.len > 0
  /\ ~(Pages(b.p, b.req) \subseteq Pages(b.p - Hdr, b.len))
  /\ fate' = "overrun"
  /\ UNCHANGED <<mapped, pool, span, live>>

\* Mutant: the product is not checked.
CallocWraps(num, nsize) ==
  LET size == (num * nsize) % SizeMod
  IN /\ Ready /\ Cardinality(live) < MaxLive
     /\ \E b \in NewBlocks(size) : Take([b EXCEPT !.req = num * nsize])
     /\ UNCHANGED <<pool, span, fate>>

\* calloc: of a product that wraps around it makes nothing.
Calloc(num, nsize) ==
  LET size == (num * nsize) % SizeMod
  IN /\ Ready /\ Cardinality(live) < MaxLive
     /\ size \div num = nsize
     /\ \E b \in NewBlocks(size) : Take([b EXCEPT !.req = num * nsize])
     /\ UNCHANGED <<pool, span, fate>>

-----------------------------------------------------------------------------
(* Release.                                                                *)

\* Mutant: a page too few is given back.
UnmapsShort(b) == Pages(b.p - Hdr, b.blk - (b.blk % Page))

\* syscall_free of a large block: from its header, blk_size bytes.
Unmaps(b) == Pages(b.p - Hdr, b.blk)

\* wl_free.  munmap refuses a length of zero.
Free(b) ==
  /\ Ready /\ b \in live
  /\ IF Outside(b.p)
       THEN IF b.blk = 0 THEN fate' = "exit" /\ UNCHANGED <<mapped, live>>
            ELSE mapped' = mapped \ Unmaps(b) /\ live' = live \ {b} /\ UNCHANGED fate
       ELSE live' = live \ {b} /\ UNCHANGED <<mapped, fate>>
  /\ UNCHANGED <<pool, span>>

-----------------------------------------------------------------------------
(* realloc.                                                                *)

\* The block is large enough, by its header.
ReallocSame(b, sz) ==
  /\ Ready /\ b \in live
  /\ b.blk >= sz
  /\ live' = (live \ {b}) \cup {[b EXCEPT !.req = sz]}
  /\ UNCHANGED <<mapped, pool, span, fate>>

\* malloc, memcpy of blk_size bytes, and back goes the old block.
ReallocMove(b, sz) ==
  /\ Ready /\ b \in live
  /\ b.blk < sz
  /\ \E n \in NewBlocks(sz) :
       LET now == mapped \cup Pages(n.p - Hdr, n.len)
       IN IF ~(Pages(b.p, b.blk) \subseteq now)
            THEN fate' = "fault" /\ UNCHANGED <<mapped, live>>
          ELSE IF Outside(b.p) /\ b.blk = 0
            THEN fate' = "exit" /\ UNCHANGED <<mapped, live>>
          ELSE /\ mapped' = IF Outside(b.p) THEN now \ Unmaps(b) ELSE now
               /\ live' = (live \ {b}) \cup {n}
               /\ UNCHANGED fate
  /\ UNCHANGED <<pool, span>>

-----------------------------------------------------------------------------
(* tri_mod_write reads blk_size in the header that GET_HEADER finds, and   *)
(* refuses a block that is too small.  A third of what the client asked    *)
(* for is the object's size.                                               *)

HeaderSizes(p) ==
  IF GetHeader(p) \in Carved THEN {span[GetHeader(p)]} ELSE 0..(BlkMod - 1)

TriModWrite(b) ==
  /\ Ready /\ b \in live
  /\ IF ~(Pages(GetHeader(b.p), Hdr) \subseteq mapped)
       THEN fate' = "fault"
       ELSE \E size \in HeaderSizes(b.p) :
              fate' = IF size < 3 * (b.req \div 3) THEN "refused" ELSE fate
  /\ UNCHANGED <<mapped, pool, span, live>>

-----------------------------------------------------------------------------
Next ==
  \/ GlobalInit \/ GlobalFatal
  \/ \E c \in Classes : AcquireCarve(c) \/ AcquireGrow(c)
  \/ AcquireFatal \/ LargeFault
  \/ \E sz \in Sizes : \/ Malloc(sz)
                       \/ \E num \in Counts : Calloc(num, sz)
  \/ \E b \in live : \/ Free(b) \/ TriModWrite(b) \/ Overrun(b)
                     \/ \E sz \in Sizes : ReallocSame(b, sz) \/ ReallocMove(b, sz)

Spec == Init /\ [][Next]_vars
=============================================================================
