------------------------------- MODULE WlList -------------------------------
(***************************************************************************)
(* The circular doubly linked lists of list.h, as pure operators.          *)
(*                                                                         *)
(* "links" is a snapshot of every list_head in memory: a record of the two *)
(* functions nxt and prv.  Each operator returns the snapshot that the     *)
(* inline function of the same name leaves behind.  The stores are in the  *)
(* order of the C text, which shows when two of the nodes are the same     *)
(* one (an empty list, or a node added a second time).                     *)
(*                                                                         *)
(* A deleted node keeps its two pointers (the line that would clear them   *)
(* is a comment in list_del): deleting it again writes to its former       *)
(* neighbours.                                                             *)
(***************************************************************************)

\* INIT_LIST_HEAD, for every head of the set H at once.
InitHeads(links, H) ==
  [nxt |-> [n \in DOMAIN links.nxt |-> IF n \in H THEN n ELSE links.nxt[n]],
   prv |-> [n \in DOMAIN links.prv |-> IF n \in H THEN n ELSE links.prv[n]]]

\* __list_add: new goes between prev and next.
Insert(links, new, prev, next) ==
  [nxt |-> [links.nxt EXCEPT ![new] = next, ![prev] = new],
   prv |-> [links.prv EXCEPT ![next] = new, ![new] = prev]]

\* list_add_tail: right before the head.
ListAddTail(links, new, head) == Insert(links, new, links.prv[head], head)

\* __list_del: prev and next become neighbours.
Join(links, prev, next) ==
  [nxt |-> [links.nxt EXCEPT ![prev] = next],
   prv |-> [links.prv EXCEPT ![next] = prev]]

\* list_del: the entry itself is left as it was.
ListDel(links, entry) == Join(links, links.prv[entry], links.nxt[entry])

\* list_empty: both pointers of the head lead back to it.
IsEmpty(links, head) == links.nxt[head] = head /\ links.prv[head] = head

SpliceOpen(links, list, prev, next) ==   \* mutant: last->next is not set
  [nxt |-> [links.nxt EXCEPT ![prev] = links.nxt[list]],
   prv |-> [links.prv EXCEPT ![links.nxt[list]] = prev, ![next] = links.prv[list]]]

\* __list_splice: the nodes of list go between prev and next; list itself is
\* left pointing at nodes that are no longer its own.
Splice(links, list, prev, next) ==
  LET first == links.nxt[list]
      last  == links.prv[list]
  IN [nxt |-> [links.nxt EXCEPT ![prev] = first, ![last] = next],
      prv |-> [links.prv EXCEPT ![first] = prev, ![next] = last]]

\* list_splice_tail: to the end of the list of head.
ListSpliceTail(links, list, head) ==
  IF IsEmpty(links, list) THEN links
  ELSE Splice(links, list, links.prv[head], head)
=============================================================================
