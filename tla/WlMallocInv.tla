---------------------------- MODULE WlMallocInv -----------------------------
(***************************************************************************)
(* The inductive invariant of module WlMalloc: the properties of module    *)
(* WlMallocProps, and what they rest on.  Like them it says nothing once a *)
(* list has been corrupted or the process has stopped, except where the    *)
(* threads are in their calls.                                             *)
(***************************************************************************)
EXTENDS WlMallocProps

-----------------------------------------------------------------------------
(* Calls.                                                                  *)

\* Inside wl_malloc a thread knows its class, inside wl_free its block.  Its
\* cache is initialised before anything looks at it.
CallOK ==
  \A t \in Thread : /\ pc[t] \in {"scan", "refill", "acquire"} => ci[t] \in Class
                    /\ pc[t] = "pfree" => arg[t] \in Block
CacheReady ==
  \A t \in Thread : /\ pc[t] \notin {"idle", "pfree"} => thr[t] = "ready"
                    /\ thr[t] = "new" => \A c \in Class : using[t][c] = NULL

\* Of two threads inside calls one waits for pool.lock, and while thread_exit
\* walks the lists nobody else is inside a call.
OneAtATime ==
  \A t, u \in Thread : t # u =>
    /\ pc[t] = "idle" \/ pc[u] = "idle" \/ Waiting(t) \/ Waiting(u)
    /\ pc[t] = "xwalk" => pc[u] = "idle"

\* The blocks of waiting calls of wl_free are held, each by one call.
ArgsHeld ==
  \A t \in Thread : pc[t] = "pfree" =>
    /\ arg[t] \in live
    /\ \A u \in Thread : pc[u] = "pfree" /\ arg[u] = arg[t] => u = t

Calls == CallOK /\ CacheReady /\ OneAtATime /\ ArgsHeld

-----------------------------------------------------------------------------
(* Lists.  A is the set of list heads in use, hm the list each span is on. *)

Linked(A, hm) == {s \in Span : hm[s] \in A}
On(A, hm) == A \cup Linked(A, hm)
Of(hm, n) == IF n \in Span THEN hm[n] ELSE n

\* Each node's neighbours are on its list and point back.
Neighbours(l, A, hm) ==
  \A n \in On(A, hm) :
    /\ l.nxt[n] \in On(A, hm) /\ Of(hm, l.nxt[n]) = Of(hm, n) /\ l.prv[l.nxt[n]] = n
    /\ l.prv[n] \in On(A, hm) /\ Of(hm, l.prv[n]) = Of(hm, n) /\ l.nxt[l.prv[n]] = n

\* Walking either way, spans alone do not close a circle.
NoRing(f, A, hm) ==
  \A R \in SUBSET Linked(A, hm) : R # {} => \E s \in R : f[s] \notin R

Circular(l, A, hm) ==
  /\ Neighbours(l, A, hm)
  /\ NoRing(l.nxt, A, hm) /\ NoRing(l.prv, A, hm)
  /\ \A s \in Span : hm[s] # NULL => hm[s] \in A

ActiveHeads == {h \in ListHead : Active(h)}

\* The cursor of a loop is on the list that the loop walks.
CursorOnList ==
  \A t \in Thread : pc[t] = "scan" \/ (pc[t] = "xwalk" /\ ci[t] < NClass) =>
    cur[t] \in On(ActiveHeads, home) /\ Of(home, cur[t]) = <<t, ci[t]>>

\* thread_exit has given the spans before its cursor to the pool: what comes
\* after such a span, or first, is the cursor or has been given too.
Passed(t) ==
  {<<t, ci[t]>>} \cup {s \in Span : home[s] = <<t, ci[t]>> /\ span[s].owner = POOL}
WalkedOver ==
  \A t \in Thread : pc[t] = "xwalk" /\ ci[t] < NClass =>
    \A n \in Passed(t) : links.nxt[n] = cur[t] \/ links.nxt[n] \in Passed(t)

-----------------------------------------------------------------------------
(* Headers.                                                                *)

\* The header r of a span of which the client holds the blocks L.
Account(r, L) ==
  IF r.state = "FREE" THEN L = {}
  ELSE /\ L \cup r.blk_list = 0..(r.free_blk - 1)
       /\ L \cap r.blk_list = {}
       /\ r.free_blk <= NBlk[r.cls]
       /\ r.free_cnt = NBlk[r.cls] - Cardinality(L)
       /\ r.state = "SUSPEND" => L # {}
Accounts == \A s \in carved : Account(span[s], LiveOf(s))

\* What was never carved is nobody's.
Untouched ==
  /\ \A s \in Span \ carved : LiveOf(s) = {} /\ home[s] = NULL
  /\ \A t \in Thread, c \in Class : InUse(t, c) => using[t][c] \in carved

InUseAlone ==
  \A t, u \in Thread, c, d \in Class :
    InUse(t, c) /\ InUse(u, d) /\ using[t][c] = using[u][d] => t = u /\ c = d
InUseFits ==
  \A t \in Thread, c \in Class : InUse(t, c) =>
    LET s == using[t][c]
    IN home[s] = NULL /\ span[s].owner = t /\ span[s].state = "IN_USE" /\ span[s].cls = c
OwnersKept ==
  \A t \in Thread, c \in Class, s \in Span :
    home[s] = <<t, c>> /\ ~(pc[t] = "xwalk" /\ ci[t] = c) => span[s].owner = t
ListedFits == \A s \in Span : home[s] # NULL => FitsList(s, home[s])

Reachable ==
  \A s \in carved : \/ home[s] # NULL
                    \/ \E t \in Thread, c \in Class : InUse(t, c) /\ using[t][c] = s
                    \/ span[s].state = "SUSPEND"

\* Only thread_exit fills the suspend lists of the pool.
NoExits ==
  ~Exits => /\ \A t \in Thread : pc[t] \notin {"xlink", "xwalk"}
            /\ \A s \in Span, c \in Class : home[s] # <<POOL, c>>

\* As long as no list has been corrupted, wl_malloc returns no memory that a
\* client holds, and no list head is taken for a span.
NoReissue == proc \in {"reissue", "wild"} => tainted

-----------------------------------------------------------------------------
Places == Untouched /\ InUseAlone /\ InUseFits /\ ListedFits /\ OwnersKept /\ Reachable
ListsInv == Circular(links, ActiveHeads, home) /\ CursorOnList /\ WalkedOver
SoundInv == ListsInv /\ Accounts /\ Places /\ NoExits

Inv ==
  /\ TypeOK
  /\ Calls
  /\ Sound => SoundInv
  /\ NoReissue
  /\ NoOverrunWithoutExit
=============================================================================
