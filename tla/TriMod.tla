------------------------------- MODULE TriMod -------------------------------
(***************************************************************************)
(* The triple redundancy of wlmalloc.c: one object kept in three copies in *)
(* a block, the program that reads and writes it, and the environment that *)
(* upsets a copy (a "single event upset" of tri_mod_test.c).               *)
(*                                                                         *)
(* tri_mod_write is three memcpys.  tri_mod_read is three memcmps, one     *)
(* after the other, whose results are then used, so that an upset can      *)
(* come between any two of them.  What hits a copy is a value: only        *)
(* whether two copies are equal matters.                                   *)
(*                                                                         *)
(* The fault model is the one that three copies are made for: a copy is    *)
(* upset only when no copy is damaged.                                     *)
(***************************************************************************)
EXTENDS Integers

CONSTANT
  Val       \* what a copy can hold

VARIABLES
  copies,   \* the three parts of the block
  data,     \* what each copy should hold
  pc,       \* "idle", "write", "read", "repair"
  next,     \* the next memcpy, or the next memcmp
  equal,    \* compare[i] == 0, for the memcmps done
  ret,      \* what the last call returned: "none", "ptr", "null"
  hit       \* whether a copy was upset since the last tri_mod_read began

vars == <<copies, data, pc, next, equal, ret, hit>>

Copy == 0..2
After(i) == (i + 1) % 3
Damaged == {i \in Copy : copies[i] # data[i]}

TypeOK ==
  /\ copies \in [Copy -> Val] /\ data \in [Copy -> Val]
  /\ pc \in {"idle", "write", "read", "repair"}
  /\ next \in 0..3
  /\ equal \in [Copy -> BOOLEAN]
  /\ ret \in {"none", "ptr", "null"}
  /\ hit \in BOOLEAN

\* The state after the first tri_mod_write: before it the block is garbage.
Init ==
  /\ \E v \in Val : copies = [i \in Copy |-> v] /\ data = copies
  /\ pc = "idle" /\ next = 0
  /\ equal = [i \in Copy |-> FALSE]
  /\ ret = "none" /\ hit = FALSE

Upset(i, v) ==
  /\ Damaged = {}
  /\ v # copies[i]
  /\ copies' = [copies EXCEPT ![i] = v]
  /\ hit' = TRUE
  /\ UNCHANGED <<data, pc, next, equal, ret>>

-----------------------------------------------------------------------------
\* tri_mod_write of a block in a span: the size check passes, because
\* tri_mod_alloc asked for three times the size.
Write ==
  /\ pc = "idle"
  /\ pc' = "write" /\ next' = 0 /\ ret' = "none"
  /\ UNCHANGED <<copies, data, equal, hit>>

\* A memcpy from the source.  All three are of the same value.
CopyIn(v) ==
  /\ pc = "write"
  /\ next > 0 => v = data[0]
  /\ copies' = [copies EXCEPT ![next] = v]
  /\ data' = [data EXCEPT ![next] = v]
  /\ IF next = 2 THEN pc' = "idle" /\ next' = 0 ELSE next' = next + 1 /\ UNCHANGED pc
  /\ UNCHANGED <<equal, ret, hit>>

-----------------------------------------------------------------------------
Read ==
  /\ pc = "idle"
  /\ pc' = "read" /\ next' = 0 /\ ret' = "none"
  /\ hit' = FALSE
  /\ UNCHANGED <<copies, data, equal>>

Compare ==
  /\ pc = "read" /\ next < 3
  /\ equal' = [equal EXCEPT ![next] = copies[next] = copies[After(next)]]
  /\ next' = next + 1
  /\ UNCHANGED <<copies, data, pc, ret, hit>>

Return(r) == pc' = "idle" /\ next' = 0 /\ ret' = r

\* Mutant: two differences are taken for three.
VerdictTwo ==
  /\ pc = "read" /\ next = 3
  /\ \/ equal[0] /\ equal[1] /\ Return("ptr")
     \/ ~equal[0] /\ ~equal[1] /\ Return("null")
     \/ /\ equal[0] # equal[1]
        /\ pc' = "repair" /\ UNCHANGED <<next, ret>>
  /\ UNCHANGED <<copies, data, equal, hit>>

\* All the same, or all different.
Verdict ==
  /\ pc = "read" /\ next = 3
  /\ \/ equal[0] /\ equal[1] /\ Return("ptr")
     \/ (\A i \in Copy : ~equal[i]) /\ Return("null")
     \/ /\ ~(equal[0] /\ equal[1])
        /\ \E i \in Copy : equal[i]
        /\ pc' = "repair" /\ UNCHANGED <<next, ret>>
  /\ UNCHANGED <<copies, data, equal, hit>>

\* Mutant: the damaged copy is restored from itself.
SourceRotated == IF equal[1] /\ ~equal[0] THEN 0 ELSE 1

\* The copy that differs, and the one it is restored from.
Odd == IF equal[0] THEN 2 ELSE IF equal[1] THEN 0 ELSE 1
Source == IF equal[1] /\ ~equal[0] THEN 1 ELSE 0

\* Mutant: memcpy the other way round.
RepairSwapped ==
  /\ pc = "repair"
  /\ copies' = [copies EXCEPT ![Source] = copies[Odd]]
  /\ Return("ptr")
  /\ UNCHANGED <<data, equal, hit>>

Repair ==
  /\ pc = "repair"
  /\ copies' = [copies EXCEPT ![Odd] = copies[Source]]
  /\ Return("ptr")
  /\ UNCHANGED <<data, equal, hit>>

-----------------------------------------------------------------------------
Next ==
  \/ \E i \in Copy, v \in Val : Upset(i, v)
  \/ Write \/ (\E v \in Val : CopyIn(v))
  \/ Read \/ Compare \/ Verdict \/ Repair

Spec == Init /\ [][Next]_vars

-----------------------------------------------------------------------------
(***************************************************************************)
(* tri_mod_read repairs and never spreads damage: whatever the moment of   *)
(* an upset, between two memcmps, before the repair, between two memcpys   *)
(* of a write, one copy at most is damaged.                                *)
(***************************************************************************)
OneDamaged == \A i, j \in Damaged : i = j

(***************************************************************************)
(* A read that no upset strikes while it runs returns the object, and      *)
(* leaves three good copies, whichever copy was damaged when it began.     *)
(***************************************************************************)
ReadRestores == ret = "ptr" /\ ~hit => Damaged = {}

(***************************************************************************)
(* The object is never given up: three memcmps that all find a difference, *)
(* for which tri_mod_read returns NULL, do not come from one upset, even   *)
(* one that strikes between them.                                          *)
(***************************************************************************)
NeverGivenUp == ret # "null"
=============================================================================
