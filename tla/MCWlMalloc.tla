----------------------------- MODULE MCWlMalloc -----------------------------
EXTENDS WlMallocProps, TLC

\* Two blocks in a span of class 0, one block in any other: the two extremes
\* of cls2size are a span with many blocks and a span that is one block.
TwoOne == [c \in Class |-> IF c = 0 THEN 2 ELSE 1]

Sym == Permutations(Span) \cup Permutations(Thread)
=============================================================================
