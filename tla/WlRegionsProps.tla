--------------------------- MODULE WlRegionsProps ---------------------------
(***************************************************************************)
(* What the addresses of module WlRegions have to satisfy.                 *)
(***************************************************************************)
EXTENDS WlRegions

Mapping(b) == Pages(b.p - Hdr, b.len)
LargeLive == {b \in live : b.len > 0}

(***************************************************************************)
(* The pool stays one region, of mapped pages, that begins at a multiple   *)
(* of SPAN_SIZE, and the spans carved fill it from the start: also after   *)
(* it has grown, when a span lies across the old end.                      *)
(***************************************************************************)
PoolSound ==
  start # 0 =>
    /\ start % SpanSize = 0
    /\ Carved = {s \in start..(free_start - 1) : (s - start) % SpanSize = 0}
    /\ free_start <= end
    /\ Pages(start, end - start) \subseteq mapped

(***************************************************************************)
(* wl_free, realloc and tri_mod_write know a block by its address alone:   *)
(* a large block is never taken for one of the pool nor the other way      *)
(* round, and GET_HEADER finds the span of every block of the pool.        *)
(***************************************************************************)
BlocksRecognised ==
  \A b \in live : /\ Outside(b.p) <=> b.len > 0
                  /\ b.len = 0 => GetHeader(b.p) \in Carved /\ span[GetHeader(b.p)] = b.blk

(***************************************************************************)
(* Every page goes back exactly once: what is mapped is the pool and the   *)
(* mappings of the large blocks in use, however these were freed and       *)
(* moved (doc.md:170: freeing a large block returns its memory by munmap). *)
(***************************************************************************)
PagesAccounted ==
  Ready => \E first \in (start + 1 - SpanSize)..start :
    mapped = Pages(first, end - first) \cup UNION {Mapping(b) : b \in LargeLive}

(***************************************************************************)
(* A block has as many bytes as the client asked for, in its class or in   *)
(* its mapping, after realloc and calloc as well.  large_alloc works out   *)
(* "total", the size with its header (wlmalloc.c:66), but maps the size:   *)
(* when the last page has no room left for a header, as many bytes as the  *)
(* header has are missing at the end, and never more.                      *)
(***************************************************************************)
BlocksFit ==
  \A b \in live :
    IF b.len = 0 THEN b.req <= b.blk
    ELSE LET missing == IF Pages(0, b.len + Hdr) = Pages(0, b.len) THEN 0 ELSE Hdr
         IN Pages(b.p, b.req - missing) \subseteq Mapping(b)
=============================================================================
