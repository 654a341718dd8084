----------------------------- MODULE BlockHeap ------------------------------
(***************************************************************************)
(* What the small-block allocator promises its clients: a block handed out *)
(* lies inside its span and shares no byte with any block a client holds,  *)
(* and it stays the client's until it is freed, by whichever thread.       *)
(*                                                                         *)
(* A block is a span, a class and a number.  Two blocks of one span are    *)
(* apart when they belong to the same class and have different numbers.    *)
(* Blocks of two classes overlap somewhere, so a span never holds live     *)
(* blocks of two classes.                                                  *)
(***************************************************************************)
EXTENDS Naturals

CONSTANTS Span, Class, NBlk

VARIABLES live,   \* the blocks held by clients
          fate    \* "run", or how the process failed

\* The ways to fail.  Handing out memory that is held, and mistaking a list
\* head for a span, are not among them.
Failure == {"fatal", "segv", "overrun", "tainted"}

HeapBlock == UNION {{s} \X {c} \X (0..(NBlk[c] - 1)) : s \in Span, c \in Class}

Apart(a, b) == a[1] # b[1] \/ (a[2] = b[2] /\ a[3] # b[3])

Init == live = {} /\ fate = "run"

Alloc ==
  /\ fate = "run"
  /\ \E b \in HeapBlock : /\ \A a \in live : Apart(a, b)
                          /\ live' = live \cup {b}
  /\ UNCHANGED fate

Free ==
  /\ fate = "run"
  /\ \E b \in live : live' = live \ {b}
  /\ UNCHANGED fate

\* After a failure nothing is promised.
Fail == fate = "run" /\ fate' \in Failure
Failed == fate # "run"

Next == Alloc \/ Free \/ Fail \/ Failed

Spec == Init /\ [][Next]_<<live, fate>>
=============================================================================
