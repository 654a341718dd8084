------------------------------- MODULE MCWlGc -------------------------------
EXTENDS WlGcProps, TLC

CONSTANTS a, b, c

\* Blocks a and c share a chain of the small table, and part when it doubles.
Hashes == (a :> 0) @@ (b :> 1) @@ (c :> 2)
TwoHashes == (a :> 0) @@ (c :> 2)
=============================================================================
