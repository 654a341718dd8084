---------------------------- MODULE TriModProofs ----------------------------
(***************************************************************************)
(* Proofs about the triple redundancy, for every set of values.            *)
(*                                                                         *)
(* The properties are not inductive: the results of the memcmps say what   *)
(* the copies were, not what they are.  What makes them usable is that an  *)
(* upset comes only when no copy is damaged, so that damage a memcmp has   *)
(* seen is still there.                                                    *)
(***************************************************************************)
EXTENDS TriMod, TLAPS

\* Outside a write every copy should hold the same; in one, those already
\* written and those not.
DataAgrees ==
  \A i, j \in Copy : pc # "write" \/ (i < next <=> j < next) => data[i] = data[j]

\* What a memcmp said of the copies that differed is still so,
DifferenceStays ==
  \A i \in Copy : pc \in {"read", "repair"} /\ i < next /\ ~equal[i] =>
                    i \in Damaged \/ After(i) \in Damaged

\* copies that were equal, after some had differed, are not damaged,
EqualAfter ==
  \A i, j \in Copy : pc \in {"read", "repair"} /\ j < i /\ i < next /\ ~equal[j] /\ equal[i] =>
                       i \notin Damaged /\ After(i) \notin Damaged

\* and neither are any that were equal in a read without an upset.
EqualQuiet ==
  \A i \in Copy : pc \in {"read", "repair"} /\ i < next /\ equal[i] /\ ~hit =>
                    i \notin Damaged /\ After(i) \notin Damaged

\* Where a call is, and what it has returned.
Progress ==
  /\ pc = "write" => next < 3
  /\ pc = "repair" => /\ next = 3 /\ \E i \in Copy : equal[i]
                      /\ ~(equal[0] /\ equal[1])
  /\ ret = "ptr" => pc = "idle"

IInv ==
  /\ TypeOK /\ DataAgrees /\ DifferenceStays /\ EqualAfter /\ EqualQuiet /\ Progress
  /\ OneDamaged /\ ReadRestores /\ NeverGivenUp

(***************************************************************************)
(* Three copies, written out.                                              *)
(***************************************************************************)
LEMMA Three == /\ Copy = {0, 1, 2}
               /\ After(0) = 1 /\ After(1) = 2 /\ After(2) = 0
  BY SMT DEF Copy, After

LEMMA InitInv == Init => IInv
  <1> SUFFICES ASSUME Init PROVE IInv
    OBVIOUS
  <1>1. PICK v \in Val : copies = [i \in Copy |-> v] /\ data = copies
    BY DEF Init
  <1>2. Damaged = {}
    BY <1>1 DEF Damaged
  <1>3. TypeOK
    <2>1. copies \in [Copy -> Val] /\ data \in [Copy -> Val] /\ equal \in [Copy -> BOOLEAN]
      BY <1>1 DEF Init
    <2>2. 0 \in 0..3
      BY SMT
    <2> QED
      BY <2>1, <2>2, Zenon DEF Init, TypeOK
  <1> QED
    BY <1>1, <1>2, <1>3, SMT DEF Init, IInv, DataAgrees, DifferenceStays, EqualAfter, EqualQuiet,
       Progress, OneDamaged, ReadRestores, NeverGivenUp, Copy

LEMMA UpsetInv == ASSUME IInv, NEW i \in Copy, NEW v \in Val, Upset(i, v) PROVE IInv'
  <1> USE Three DEF IInv, TypeOK, Progress
  <1>1. TypeOK'
    BY SMT DEF Upset, Damaged, OneDamaged
  <1>2. DataAgrees'
    BY SMT DEF Upset, Damaged, OneDamaged, DataAgrees
  <1>3. DifferenceStays'
    BY SMT DEF Upset, Damaged, OneDamaged, DifferenceStays
  <1>4. EqualAfter'
    BY SMT DEF Upset, Damaged, OneDamaged, EqualAfter, DifferenceStays
  <1>5. EqualQuiet'
    BY SMT DEF Upset, Damaged, OneDamaged, EqualQuiet
  <1>6. Progress'
    BY SMT DEF Upset, Damaged, OneDamaged
  <1>7. OneDamaged'
    BY SMT DEF Upset, Damaged, OneDamaged
  <1>8. ReadRestores'
    BY SMT DEF Upset, Damaged, OneDamaged, ReadRestores
  <1>9. NeverGivenUp'
    BY SMT DEF Upset, Damaged, OneDamaged, NeverGivenUp
  <1> QED
    BY <1>1, <1>2, <1>3, <1>4, <1>5, <1>6, <1>7, <1>8, <1>9 DEF IInv

LEMMA CopyInInv == ASSUME IInv, NEW v \in Val, CopyIn(v) PROVE IInv'
  BY SMT, Three DEF CopyIn, IInv, TypeOK, DataAgrees, DifferenceStays, EqualAfter, EqualQuiet,
     Progress, OneDamaged, ReadRestores, NeverGivenUp, Damaged

LEMMA StartInv == ASSUME IInv, Write \/ Read PROVE IInv'
  <1>1. /\ UNCHANGED <<copies, data, equal>>
        /\ next' = 0 /\ pc' \in {"write", "read"} /\ ret' = "none"
        /\ hit' \in BOOLEAN /\ pc = "idle"
    BY DEF Write, Read, IInv, TypeOK
  <1>2. Damaged' = Damaged
    BY <1>1 DEF Damaged
  <1>3. TypeOK'
    BY <1>1, SMT DEF IInv, TypeOK
  <1> QED
    BY <1>1, <1>2, <1>3, SMT DEF IInv, DataAgrees, DifferenceStays, EqualAfter, EqualQuiet,
       Progress, OneDamaged, ReadRestores, NeverGivenUp, Copy

LEMMA CompareInv == ASSUME IInv, Compare PROVE IInv'
  <1>1. /\ pc = "read" /\ next \in Copy /\ next' = next + 1
        /\ UNCHANGED <<copies, data, pc, ret, hit>>
    BY SMT DEF Compare, IInv, TypeOK, Copy
  <1>2. Damaged' = Damaged
    BY <1>1 DEF Damaged
  <1>3. equal' = [equal EXCEPT ![next] = copies[next] = copies[After(next)]]
    BY DEF Compare
  <1>4. /\ \A i \in Copy : i # next => equal'[i] = equal[i]
        /\ equal'[next] <=> copies[next] = copies[After(next)]
    BY <1>1, <1>3, Zenon DEF IInv, TypeOK
  <1>5. TypeOK'
    <2>1. equal' \in [Copy -> BOOLEAN]
      BY <1>1, <1>3, Zenon DEF IInv, TypeOK
    <2> QED
      BY <1>1, <2>1, SMT DEF IInv, TypeOK, Copy
  <1>6. ~equal'[next] => next \in Damaged \/ After(next) \in Damaged
    BY <1>1, <1>4, Three, SMT DEF IInv, TypeOK, DataAgrees, Damaged
  <1>7. equal'[next] => next \notin Damaged /\ After(next) \notin Damaged
    \* Of two copies that are equal one is good, as at most one is damaged.
    BY <1>1, <1>4, Three, SMT DEF IInv, TypeOK, DataAgrees, Damaged, OneDamaged
  <1>8. DifferenceStays'
    BY <1>1, <1>2, <1>4, <1>6, SMT DEF IInv, DifferenceStays, Copy, After
  <1>9. EqualAfter'
    BY <1>1, <1>2, <1>4, <1>7, SMT DEF IInv, EqualAfter, Copy, After
  <1>10. EqualQuiet'
    BY <1>1, <1>2, <1>4, <1>7, SMT DEF IInv, EqualQuiet, Copy, After
  <1> QED
    BY <1>1, <1>2, <1>5, <1>8, <1>9, <1>10
    DEF IInv, DataAgrees, Progress, OneDamaged, ReadRestores, NeverGivenUp

LEMMA VerdictInv == ASSUME IInv, Verdict PROVE IInv'
  <1> USE Three DEF IInv, TypeOK, Progress
  <1>1. TypeOK'
    BY SMT DEF Verdict, Return, Damaged, OneDamaged
  <1>2. DataAgrees'
    BY SMT DEF Verdict, Return, Damaged, OneDamaged, DataAgrees
  <1>3. DifferenceStays'
    BY SMT DEF Verdict, Return, Damaged, OneDamaged, DifferenceStays
  <1>4. EqualAfter'
    BY SMT DEF Verdict, Return, Damaged, OneDamaged, EqualAfter
  <1>5. EqualQuiet'
    BY SMT DEF Verdict, Return, Damaged, OneDamaged, EqualQuiet
  <1>6. Progress'
    BY SMT DEF Verdict, Return, Damaged, OneDamaged
  <1>7. OneDamaged'
    BY SMT DEF Verdict, Return, Damaged, OneDamaged
  <1>8. ReadRestores'
    BY SMT DEF Verdict, Return, Damaged, OneDamaged, ReadRestores, EqualQuiet
  <1>9. NeverGivenUp'
    BY SMT DEF Verdict, Return, Damaged, OneDamaged, NeverGivenUp, DifferenceStays, EqualAfter
  <1> QED
    BY <1>1, <1>2, <1>3, <1>4, <1>5, <1>6, <1>7, <1>8, <1>9 DEF IInv

LEMMA RepairInv == ASSUME IInv, Repair PROVE IInv'
  BY SMT, Three DEF Repair, Return, Odd, Source, IInv, TypeOK, DataAgrees, DifferenceStays, EqualAfter, EqualQuiet,
     Progress, OneDamaged, ReadRestores, NeverGivenUp, Damaged

LEMMA StepInv == IInv /\ [Next]_vars => IInv'
  <1> SUFFICES ASSUME IInv, [Next]_vars PROVE IInv'
    OBVIOUS
  <1>1. CASE \E i \in Copy, v \in Val : Upset(i, v)
    BY <1>1, UpsetInv
  <1>2. CASE Write \/ Read
    BY <1>2, StartInv
  <1>3. CASE \E v \in Val : CopyIn(v)
    BY <1>3, CopyInInv
  <1>4. CASE Compare
    BY <1>4, CompareInv
  <1>5. CASE Verdict
    BY <1>5, VerdictInv
  <1>6. CASE Repair
    BY <1>6, RepairInv
  <1>7. CASE UNCHANGED vars
    BY <1>7 DEF vars, IInv, TypeOK, DataAgrees, DifferenceStays, EqualAfter, EqualQuiet,
       Progress, OneDamaged, ReadRestores, NeverGivenUp, Damaged
  <1> QED
    BY <1>1, <1>2, <1>3, <1>4, <1>5, <1>6, <1>7 DEF Next

LEMMA Invariant == Spec => []IInv
  BY InitInv, StepInv, PTL DEF Spec

(***************************************************************************)
(* At most one copy is ever damaged: tri_mod_read repairs from a good copy *)
(* even when an upset strikes while it compares.                           *)
(***************************************************************************)
THEOREM DamageIsContained == Spec => []OneDamaged
  BY Invariant, PTL DEF IInv

(***************************************************************************)
(* A read that no upset strikes returns the object and three good copies.  *)
(***************************************************************************)
THEOREM ReadsRestore == Spec => []ReadRestores
  BY Invariant, PTL DEF IInv

(***************************************************************************)
(* tri_mod_read never returns NULL: no single upset, at whatever moment,   *)
(* makes its three memcmps all find a difference.                          *)
(***************************************************************************)
THEOREM ObjectIsKept == Spec => []NeverGivenUp
  BY Invariant, PTL DEF IInv
=============================================================================
