----------------------------- MODULE SizeClass ------------------------------
(***************************************************************************)
(* The size classes of wlmalloc.                                           *)
(*                                                                         *)
(* wlmalloc.c holds three literal tables and size2cls, which looks a size  *)
(* up in two of them.  sizeclass.c holds the program that is said to have  *)
(* generated the tables.  Its four loops are the actions here, an          *)
(* iteration each, and the tables it fills are the state.                  *)
(***************************************************************************)
EXTENDS Integers, SequencesExt, TLC

\* x >> k.
Shr(x, k) == x \div 2^k

\* n copies of v.
Rep(v, n) == [i \in 1..n |-> v]
Runs(rs) == FoldLeft(LAMBDA s, r : s \o Rep(r[1], r[2]), << >>, rs)

-----------------------------------------------------------------------------
(* The tables of wlmalloc.c.                                               *)

LargeClass == 31

Cls2Size ==
  <<16, 24, 32, 40, 48, 56, 64, 72, 80, 88, 96, 104, 112, 120, 128, 192, 256, 384,
    512, 768, 1024, 1536, 2048, 3072, 4096, 6144, 8192, 12288, 16384>>
SizeMap8 ==
  <<0>> \o [i \in 1..15 |-> i - 1] \o Runs(<< <<15, 8>>, <<16, 8>>, <<17, 16>>, <<18, 16>> >>)
SizeMap256 ==
  <<0, 18, 19, 20>> \o
  Runs(<< <<21, 2>>, <<22, 2>>, <<23, 4>>, <<24, 4>>, <<25, 8>>, <<26, 8>>, <<27, 16>>, <<28, 16>> >>)

\* Mutant: the index of the size itself.
Size2ClsNext(sz) ==
  IF sz <= 512 THEN SizeMap8[Shr(sz, 3) + 1]
  ELSE IF sz <= 16384 THEN SizeMap256[Shr(sz, 8) + 1]
  ELSE LargeClass

\* size2cls of a size that is not zero (sequences count from 1, arrays from 0).
Size2Cls(sz) ==
  IF sz <= 512 THEN SizeMap8[Shr(sz - 1, 3) + 1]
  ELSE IF sz <= 16384 THEN SizeMap256[Shr(sz - 1, 8) + 1]
  ELSE LargeClass

SizeOf(cls) == Cls2Size[cls + 1]

-----------------------------------------------------------------------------
VARIABLES
  loop,         \* the loop that runs: "fine", "coarse", "map8", "map512", "done"
  curcls,
  cursize,
  cls2size,     \* the table of sizes, as far as it is filled
  size2cls8,    \* the tables of classes: functions of the indices filled
  size2cls512

vars == <<loop, curcls, cursize, cls2size, size2cls8, size2cls512>>

Init ==
  /\ loop = "fine" /\ curcls = 0 /\ cursize = 16
  /\ cls2size = << >>
  /\ size2cls8 = (0 :> 0) /\ size2cls512 = (0 :> 0)

\* gen_cls2size: every 8 bytes up to 128,
Fine ==
  /\ loop = "fine"
  /\ IF cursize <= 128
       THEN /\ cls2size' = Append(cls2size, cursize)
            /\ curcls' = curcls + 1 /\ cursize' = cursize + 8
            /\ UNCHANGED loop
       ELSE /\ loop' = "coarse" /\ cursize' = 128
            /\ UNCHANGED <<curcls, cls2size>>
  /\ UNCHANGED <<size2cls8, size2cls512>>

\* then two sizes for each power of two.
Coarse ==
  /\ loop = "coarse"
  /\ IF cursize < 2^14
       THEN /\ cls2size' = cls2size \o <<cursize + Shr(cursize, 1), 2 * cursize>>
            /\ curcls' = curcls + 2 /\ cursize' = 2 * cursize
            /\ UNCHANGED loop
       ELSE /\ loop' = "map8" /\ curcls' = 0 /\ cursize' = 16
            /\ UNCHANGED cls2size
  /\ UNCHANGED <<size2cls8, size2cls512>>

\* Mutant: the class moves on at its own size.
UpEarly == IF cursize >= cls2size[curcls + 1] THEN curcls + 1 ELSE curcls

\* gen_size2cls: the class moves on when the size has outgrown it.
Up == IF cursize > cls2size[curcls + 1] THEN curcls + 1 ELSE curcls

Map8 ==
  /\ loop = "map8"
  /\ IF cursize <= 512
       THEN /\ curcls' = Up
            /\ size2cls8' = (Shr(cursize - 1, 3) :> Up) @@ size2cls8
            /\ cursize' = cursize + 8
            /\ UNCHANGED loop
       ELSE /\ loop' = "map512" /\ cursize' = 512
            /\ UNCHANGED <<curcls, size2cls8>>
  /\ UNCHANGED <<cls2size, size2cls512>>

Map512 ==
  /\ loop = "map512"
  /\ IF cursize <= 2^14
       THEN /\ curcls' = Up
            /\ size2cls512' = (Shr(cursize - 1, 8) :> Up) @@ size2cls512
            /\ cursize' = cursize + 256
            /\ UNCHANGED loop
       ELSE /\ loop' = "done"
            /\ UNCHANGED <<curcls, cursize, size2cls512>>
  /\ UNCHANGED <<cls2size, size2cls8>>

Next == Fine \/ Coarse \/ Map8 \/ Map512

Spec == Init /\ [][Next]_vars

\* The generator is a program of one thread.
FairSpec == Spec /\ WF_vars(Next)

(***************************************************************************)
(* The literal tables of wlmalloc.c are the ones that sizeclass.c ends     *)
(* with, and it does end.                                                  *)
(***************************************************************************)
Tables ==
  /\ cls2size = Cls2Size
  /\ DOMAIN size2cls8 = 0..63 /\ \A i \in 0..63 : size2cls8[i] = SizeMap8[i + 1]
  /\ DOMAIN size2cls512 = 0..63 /\ \A i \in 0..63 : size2cls512[i] = SizeMap256[i + 1]
TablesGenerated == <>[](loop = "done" /\ Tables)

(***************************************************************************)
(* size2cls gives every size up to 16384 the smallest class whose blocks   *)
(* are large enough, across the seam at 512 between its two tables; only   *)
(* larger sizes are LARGE_CLASS.  It is worked out once, at the end.       *)
(***************************************************************************)
BestClass(sz) ==
  LET cls == Size2Cls(sz)
  IN /\ cls \in 0..28
     /\ sz <= SizeOf(cls)
     /\ cls > 0 => SizeOf(cls - 1) < sz
Size2ClsBestFit ==
  loop = "done" => /\ \A sz \in 1..16384 : BestClass(sz)
                   /\ Size2Cls(16385) = LargeClass
=============================================================================
