# TLA+ models of 3RMM (wlmalloc)

3RMM is a replacement for `malloc`: `wlmalloc.c` allocates from per-thread caches
of spans backed by one pool, offers triple modular redundancy for objects that
must survive bit upsets (`tri_mod_*`), and comes with a conservative mark-sweep
collector (`wlgc.c`). `ls.c`, a complete `ls`, is built next to it as a client
program. This directory holds TLA+ models of it, TLC runs that check
them on small instances, and proofs that TLAPS checks for all instances.

Paths such as `wlmalloc.c:196` are relative to `src/src/`; `doc.md` is
`src/doc/doc.md`. `PROJECT.json` maps every definition to the lines it models.

## 1. The system

| Component | State | Operations | Talks to |
|---|---|---|---|
| Lists, `list.h` | the two pointers of every `list_head` | init, add, del, empty, splice | everything in `wlmalloc.c` |
| Thread cache | `local_tcache`: `using[c]`, `suspend[c]`, `free_list`, `lock`; `thread_state` | `check_init`, `small_alloc`, `replace_available_span`, `get_blk`, `span_free_blk`, `thread_exit` | pool (refill, hand-over); other caches (remote free) |
| Pool | `start`, `end`, `free_start`, `suspend[c]`, `free_list`, `lock` | `global_init`, `acquire_span` | kernel (`mmap`) |
| Span | header: `owner`, `state`, `cls`, `free_cnt`, `free_blk`, `blk_list` | `span_init`, `get_blk`, `span_free_blk` | its owner, every thread that frees into it |
| Size classes, `sizeclass.c` | `cls2size`, `size2cls8`, `size2cls512` | table generator, `size2cls` | `wl_malloc` |
| Large blocks | one mapping each, header with `blk_size` | `large_alloc`, `syscall_free`, `realloc`, `calloc` | kernel (`mmap`, `munmap`) |
| Redundancy | three copies in one block | `tri_mod_write`, `tri_mod_read` | `GET_HEADER` |
| Collector, `wlgc.c` | hash table of `alloc_t`, `capacity`, `size`, marks | `gc_malloc`, `gc_calloc`, `gc_realloc`, `gc_free`, `gc_mark`, `gc_sweep`, `gc_hash_resize` | the program's stack and blocks; `malloc`, `free` |
| `ls.c` | settings, dnodes in chains and arrays, result, column | `ls_main`, `list_dir`, `showdirs`, `showfiles`, `dfree`, `sortcmp`, `list_single` | file system; `malloc`, `calloc`, `realloc`, `free` |
| Logger, `gcbench.c`, scripts | none that the library shares | | not modelled |

The life of a span. `acquire_span` carves it from the pool, or takes it from one of
the pool's lists. It is `using[c]` of one thread until its blocks are exhausted,
then sits on that thread's `suspend[c]`. A `wl_free` that brings back its last
block moves it to a `free_list`; `replace_available_span` takes it from there, for
any class. When its thread ends, `thread_exit` links the spans in use to
`suspend[c]` as well, makes the pool the owner of all of these, and splices every
list to the pool's.

What is hard about it:

* **Pointers, not sequences.** `list_del` on a span that is on no list writes
  through pointers of long ago. Whether a list is still a list is a question of its
  own.
* **Two notions of where a span is.** Its header (`owner`, `state`, `cls`) decides
  which lock to take and which list to change; the lists decide who finds it next.
  The two have to agree at every step of a hand-over.
* **The owner takes no lock.** Other threads free into a span under the owner's
  lock, the owner allocates and frees without it. `free_cnt` and `blk_list` are
  changed at different moments.
* **Counters carry meaning.** `free_cnt == 0` means exhausted, `free_cnt` equal to
  the number of blocks means free, and it is an unsigned number.
* **Addresses carry meaning.** `wl_free` tells a large block from a small one by
  address; `GET_HEADER` rounds down to a multiple of `SPAN_SIZE`, not a power of two.
* **Conservative marking, growing table.** A collection walks an arbitrary graph
  through hash chains, frees while it walks, and may rebuild the table afterwards.
* **Upsets.** A copy of a redundant object may change between any two steps.
* **A file system that moves.** `ls` looks a path up again each time it needs it; the
  name may be gone, one failure must not stop the rest, and links may lead in circles.
* **Borrowed nodes.** The recursion of `ls` works on arrays of dnodes that its caller
  owns and frees by a chain in another order.

What makes each component correct:

| Component | Correct means | Stated as |
|---|---|---|
| Lists | neighbours point at each other, a walk meets the head | `ListsWellFormed`, `ListExact` |
| Spans and caches | header, list and `using` agree; nothing is out of reach | `SpansPlaced`, `ForgottenSpansReturn`, `OwnerChangesViaPool` |
| Blocks | held, listed and never used are a partition that `free_cnt` counts | `BlocksAccounted`, `CountExact` |
| Allocator | disjoint blocks inside their spans; calls return | `HeapSpec`, `NoOverrunWithoutExit`, `OnlyFreeBlocks`, `CallsReturn` |
| Size classes | the smallest class that is large enough | `Size2ClsBestFit`, `TablesGenerated` |
| Address space | blocks are recognised and fit, every page goes back once | `PoolSound`, `BlocksRecognised`, `PagesAccounted`, `BlocksFit` |
| Redundancy | one upset is outvoted and repaired | `OneDamaged`, `ReadRestores`, `NeverGivenUp` |
| Collector | frees garbage, all of it, nothing else, and ends | `SweepsSafely`, `CollectsAllGarbage`, `CollectionEnds`, `OneEntryEach`, `TableOK`, `MarksRight`, `LoadBounded` |
| `ls` | lists what is there, once, in order and in columns; reports what it could not; ends | `NothingLost`, `AsReported`, `InOrder`, `LaidOut`, `FailuresReported`, `OptionsMean`, `NodesLive`, `Ends`, `Conversions` |

`PROJECT.json` lists the hazards one by one, at their lines. Where the code does go
wrong, or a model has no room for it, no property is named, and a note says why.

## 2. The modules

```
WlList --------+--> WlMalloc ----> WlMallocProps --+--> MCWlMalloc      (TLC)
               |                     ^  BlockHeap  +--> WlMallocInv
               |                                          --> WlMallocProofs --> WlMallocSafety
               |                                                                (TLAPS)
               +--> SpanRace (TLC) ----------------> SpanRaceProofs  (TLAPS)
SizeClass (TLC)      TriMod (TLC) -----------------> TriModProofs    (TLAPS)
WlRegions --> WlRegionsProps (TLC) ----------------> WlRegionsProofs (TLAPS)
WlGc --> WlGcProps --> MCWlGc (TLC)
                   --------------------------------> WlGcProofs      (TLAPS)
LsShow --> Ls --> LsProps --> MCLs (TLC)
     --> LsShowProofs ----> LsProofs (TLAPS, with LsProps)
```

**WlList**: the inline functions of `list.h` as operators on a snapshot of all
pointers (`nxt`, `prv`). Stores are in the order of the C text, so that an operation
on a node that is on no list, or on an empty list, has its real effect.

**WlMalloc**: the small-block allocator. One action per call that does not loop
(`MallocFast`, `FreeCached`), one per loop step otherwise (`ScanNext`, `ExitWalk`);
the pieces of `acquire_span` run under `pool.lock` and are one step, since whoever
else needs that lock waits. `Thread` is a place for thread-local storage:
`ThreadStart` puts a new thread in the place of one that ended.

* *Data.* A block is a span and a number. `blk_list` is a set: which free block goes
  out first is left open. Addresses and sizes are in `WlRegions`.
* *Outcomes.* `proc` records how the process went wrong: `fatal` (no adjacent
  memory), `segv`, `wild` (a list head used as a span), `overrun` (a block beyond the
  end of its span), `reissue` (memory in use handed out). Nothing happens afterwards.
* *History.* `home` is the list a span was last put on; `tainted` records that a
  `list_del` of a span on no list has hit a list.
* *Scheduling.* `Quiet`: a call starts only while no other thread is inside one,
  unless that one waits for `pool.lock`. Every interleaving of whole calls of all
  threads is covered; the interleaving inside calls on one span is `SpanRace`'s.

**BlockHeap**: what clients are promised. A block handed out is inside its span and
overlaps nothing that is held. `WlMallocProps!Heap` is the refinement mapping.

**SpanRace**: one span in use, with any number of threads that free into it. A step
makes one store to `free_cnt` or `blk_list` at most. It reads what it needs for that
store in the same step, except that `free_cnt++` and `free_cnt--` are two steps, and
what `list_del` and `list_add` have read stays in registers for their later stores.
Calls follow a *discipline*: `turns` (one call at a time), `apart` (the owner makes none
while others free), or `none`. The first two hold up; they show that `WlMalloc` may take
`get_blk` and `span_free_blk` as one step each under `Quiet`, and that the owner's lock
does its job among those who take it. The third is what clients get who rely on the
allocator alone. Memory is sequentially consistent, the strongest assumption possible.

**SizeClass**: the loops of `sizeclass.c`, the tables as they stand in `wlmalloc.c`,
and `size2cls`.

**WlRegions**: addresses. `global_init`, the pool's growth, large blocks, `calloc`,
`realloc`, `free`, `GET_HEADER`, the size test of `tri_mod_write`; `mmap` maps whole
pages at any free place or refuses. A call takes any free block of the right class.
A client that uses bytes of a large block that its mapping has no room for (see
`large_alloc` below) ends the run (`Overrun`).

**TriMod**: `tri_mod_write` copy by copy, `tri_mod_read` comparison by comparison and
its repair. `Upset` damages any one copy at any moment once the object is written,
while no other copy is damaged.

**WlGc**: the collector and a single-threaded program that loads, stores and drops
addresses. The hash function is any function; the recursion of marking is the set of
words still to be looked up; left-over contents of `malloc`ed memory are `junk`.
`gc_realloc` leaves the entry of its argument behind; `left` is the history of those
blocks, and `Resized` says which blocks the program may pass to it. `gc_sweep` and
`gc_hash_resize` take one entry at a time, with `at` for their loop variables and
`new_allocs` for the table that is being filled.

**LsShow**: what `ls.c` computes without looking at the file system: `sortcmp` and
`shellsort`, the grid of `showfiles` with its tab stops, the fields of `list_single`
with the width that the program counts and the width that it prints, `mode_string`,
`make_human_readable_str`, and the buffer of `xreadlink`. Widths are kept in an unsigned
short and compared in a short, as in the code (`ToUshort`, `ToShort`). A loop of the code is
`Repeat(body, n, x)`: the function `body`, n times, from the state `x` of its variables.

**Ls**: `ls_main`, `showdirs` and `list_dir`, one action per option, argument, name
that `readdir` returns, directory opened, directory finished, and return of
`showdirs`. `heap` holds the dnodes with their `next` pointers, `stack` the recursive
calls of `showdirs`. The kernel (`Stat`, `Lstat`, `Opendir`: links, loops, paths that
are too long) is part of the module; `Unlink` is another program that takes a name
away between any two steps. `errors` are the paths that stderr has a message about.
`Main` ends the process when `ls_main` returns, with 0 whatever it returns. A message
that does not fit the array of `perror_msg` may end it at any moment after (`Crash`).
**LsProps** states what `ls` should print over the tree and
not over dnodes: what is `Inside` a directory, which are `Directories` to be listed, and
which of two paths is `Ahead`. That leaves one output only, unless a directory is named twice.

## 3. The runs

| Run | Instance | Shows |
|---|---|---|
| `heap_threads` | 2 threads, 3 spans, 1 class of 2 blocks, fair | Without thread ends, and until a list is corrupted, lists are lists, blocks are accounted for, spans are where their headers say, forgotten spans come back, the allocator implements `BlockHeap`, and every call returns. |
| `heap_exits` | 2 threads that may end and be replaced, 2 spans, 2 classes (2 blocks and 1) | The hand-over through the pool keeps all of that (`HeapSound` is the four invariants together), apart from `overrun`. |
| `race_turns` | 4 threads, 4 blocks, disciplines `turns` and `apart` | `free_cnt`, `blk_list` and `free_blk` agree between calls, and only free blocks are returned. |
| `size_class` | the program's own tables | The generator ends with the tables in use, and `size2cls` is right for each of the 16384 sizes. |
| `tri_mod` | 3 values | One upset at any moment is outvoted and repaired. |
| `regions` | pages of 4, 8 usable pages, spans of 5, units of 12 | The pool stays one aligned region when it grows, blocks are recognised by address, fit, and every page goes back once. |
| `gc_collect` | 3 blocks of one word, table of 2 that doubles, `gc_realloc` of one block | A collection keeps what is reachable, frees the rest, keeps the table right and ends; a block lost to `gc_realloc` does no harm to the others. |
| `ls` | 880 command lines, 6 directories, at most one name that vanishes, fair | `ls` ends; what is there is shown, once, in order and in columns that fit; each failure has its message, makes the result of `ls_main` a failure and stops nothing; dnodes are freed when nobody uses them. |
| `reissued` (violation) | 1 thread, 4 spans | A single thread gets a block that it holds. |
| `pool_lock` (violation) | 2 threads, one ends | A later call waits for `pool.lock` for ever. |
| `race_block` (violation) | 2 threads, 3 blocks, `none` | A block beyond the end of the span is returned. |
| `gc_realloc_loss` (violation) | 2 blocks | A collection frees a block that is in use. |

Some definitions are marked *mutant*: the definition they precede with a fault that
such code could have (a store left out, a guard dropped, a count off by one). Put in
its place, each makes one property fail, which shows what the property is good for.

### The four violations

* `reissued`: `replace_available_span` takes a partly used span off `suspend[]`
  (`wlmalloc.c:105`), but its `break` leaves the loop only, and the next lines choose
  another span. The first one is on no list; freeing its last block runs `list_del`
  (196) on stale pointers. The properties of the heap are therefore stated up to
  `tainted`, and `ForgottenSpansReturn` says what becomes of such a span.
* `pool_lock`: `wl_free` of a block whose span belongs to the pool locks `pool.lock`
  (207) and unlocks `local_tcache.lock` (217).
* `race_block`: another thread raises `free_cnt` (222) before it links the block
  (230). The owner sees the count, finds `blk_list` empty, and takes the block at
  `free_blk` (135), which is beyond the end.
* `gc_realloc_loss`: `gc_realloc` (`wlgc.c:200`) registers the new block and leaves
  the old entry.

### Other behaviours of the code that the models contain

These have no run; the models show them when a property is stated for them.

* A lost span (`wlmalloc.c:105-106`) is out of use until all its blocks are freed.
* `acquire_span` takes spans from the pool's `suspend[]` without a look at `free_cnt`
  (145). A full one makes `free_cnt` wrap and `get_blk` run past the end
  (`overrun`): only `NoOverrunWithoutExit` holds.
* `thread_exit` links spans in use without changing their state (298), so that one
  of the pool's spans that becomes free is not collected (209).
* `wl_free` by a thread without a cache may store through null (225), and one into a
  span of an ended thread may touch unmapped memory (219): outcome `segv`.
* `free_cnt++` of two threads may lose an update (194, 222).
* `large_alloc` computes `total` (66) and maps `sz` (67): when the last page of a block
  has no room for the header, the block ends that many bytes beyond its mapping.
  `BlocksFit` says that no more is missing, and never otherwise.
* `blk_size` has 32 bits: for larger blocks `munmap` gets a smaller length (74).
* The pool grows only when `mmap` returns the address right at its end (170).
* `tri_mod_write` reads `blk_size` through `GET_HEADER` (390), which is not the header
  of a large block: any value may be there.
* When `mmap` fails, `large_alloc` prints a message and stores through -1 (68).
* An upset of the first copy after it was compared is returned to the caller, so
  `ReadRestores` speaks of reads that no upset strikes.
* In `ls.c`, `dfree` (335) follows the chain from the node that the sort put first: nodes
  that were linked in front of it are never freed. `sortcmp` narrows 64-bit
  differences to an int (397-403). `-x` assigns `disp_opts` (844) and so drops an earlier
  `-a`, `-A`, `-d` or `-R`; `-l` drops an earlier `-h` (840). Blocks are printed three times
  (681-684) and sizes twice (715-716), while `column` counts them once, so that columns
  with `-s` do not line up. `-le` prints the time twice (721-727). `main` (1144) ignores
  the result of `ls_main`, whose `usage` path (953) returns none, and returns 0 (`Main`): no
  failure reaches the exit status, and `FailuresReported` speaks of stderr and of that
  result. `perror_msg` (961-966) appends to an array of 555 bytes, so that the message about
  a path of 550 bytes or more overruns it (`Crash`). From a width of 2^15 on `nexttabstop`
  computes with negative numbers (263-272), and columns do not line up.
* `wlmalloc.h:92` and `doc.md:169` speak of spans and classes of 64 KiB; the
  constants in use are 16 KiB.

### Bounds, and why they are enough

* *WlMalloc.* Three spans are needed for a span that is forgotten while another is in
  use and a third is on a list next to it; two blocks per span for a partly used one;
  `CntMax` is 4, above every number of blocks, so that a wrap is seen as a wrap. Two
  classes matter where a free span changes class, which `heap_exits` has. `Span` bounds
  the pool's growth (`AcquireGrow`). Two threads suffice for owner and other; places
  are used again. `heap_exits` has symmetry of spans and threads, and no temporal
  property that symmetry would harm (`HeapSpec` and `OwnerChangesViaPool` are
  step properties).
* *SpanRace.* Three remote threads give a waiter, a holder and one more; four blocks
  give lists with a middle. `CntMod` is 8.
* *WlRegions.* Eight pages hold the pool, its growth and two mappings. `Sizes` has
  large blocks with and without room for the header in their last page, and stays
  below `BlkMod` (see the list above). `SizeMod` makes one of the products wrap.
  `MaxLive` bounds the blocks in use.
* *WlGc.* `MaxSize` bounds the entries and is beyond the first doubling; `MaxWords` is 1,
  which still gives every cycle and chain of three blocks. `Hash` puts two
  of the three blocks on one chain, which parts when the table doubles.
  `Resized` is one block in `gc_collect`: it may be moved onto either of the others, or stay.
* *Ls.* Three levels of directories, with a link back up, a dangling one and a
  directory that cannot be opened; five files with ties in size and time; three whose
  sizes are too far apart for an int (`IntHalf` is 8). All sequences of up to two of
  sixteen options and of three of the eight that affect each other. `MaxLinks` 2 and
  `MaxPath` 6 end the descents through a link with `-L` after two rounds. One name
  vanishes (`MaxFaults`), at any moment: a second one is independent of the first. Each
  command line says which names those may be (`moves`), and which width the terminal has
  and `-w` gives: from 0 to `ShortHalf` + 1, around the places where the number of columns
  changes, and the same less 2 `ShortHalf`, which wrap. `ShortHalf` is 128, beyond any width
  with room for all files on one line. `MsgSize` is 18: the longest paths that fail do not
  fit. It has names that vanish where `ls` walks the
  tree or examines several names, none for `-aRr` and for the sequences of options.
  A kilobyte is 20 for the sizes, so that all four units and their edges stay small;
  the mode bits are all combinations for three types of file.
* *TriMod.* Three values: the object, the one before, and damage. TLAPS proves the
  same for any values.

### Fairness

`WlMalloc!Fairness` is weak fairness of `Step(t)`: a thread inside a call that can go
on does so, which is what a preemptive scheduler gives. Nobody is obliged to call. A
thread that waits for `pool.lock` has no step, so fairness does not let it in.
`WlGc!FairSpec` is weak fairness of the collector, which runs on the program's own
thread to its end. `Ls!Spec` is weak fairness of `Step`, the program's own next step:
`ls` is one sequential program and always has one until it has exited; nobody is obliged to
remove files, and an overrun is not obliged to kill.
Other runs check safety only and need none.

`CHECK_DEADLOCK FALSE` is set where the program really stops: after `exit` or a fault
(`regions`), when `ls` has exited (`ls`), when every thread waits for `pool.lock` (`heap_exits`,
`pool_lock`), when a block that is none was returned (`race_block`) or, with an owner
that makes no calls, every block has been freed (`race_turns`), at the end of the
generator (`size_class`), and after a double free (`gc_collect`, `gc_realloc_loss`).

## 4. The proofs

`ConstantsAssumption`, `RaceConstants`, `GcConstants`, `ShowConstants`, `ShortNames`,
`LsConstants`, `InodeConstants`, `CommandLineConstants` and `SampleConstants` are the assumptions on
constants: names are distinct, numbers are numbers, spans have at least one block,
counters hold the number of blocks, directories have entries that are inodes, a name
(255 bytes at most, 4095 for an argument) with the numbers in front of it fits a short. TLC
evaluates them in the runs.

**WlMallocProofs.** `TypeSafe`: `Spec => []TypeOK`, for any threads, spans, classes
and blocks. Types are not all inductive by themselves: a step that follows a pointer
needs the cursor to be a node, and a class index below `NClass`. `CallOK` adds what
program counter and registers say together; the lemmas on `ListDel`, `ListAddTail`,
`InitHeads` and `ListSpliceTail` say that pointers stay pointers whatever the list
looks like. This covers corrupted lists too, which is the point: `Wild` is the only
way out when a list head is met in place of a span, and no step reads a field
that is not there.

**WlMallocSafety.** All safety properties of the allocator, for every
instance: `ListsWellFormed`, `BlocksAccounted`, `SpansPlaced`, `ForgottenSpansReturn`,
`NoOverrunWithoutExit`, the action property `OwnerChangesViaPool`, and the
refinement `HeapSpec`. None of them is inductive alone. The invariant `Inv` is in
module WlMallocInv, so that TLC can evaluate it. Its parts, and what each is for:

* `Calls`: under `Quiet`, of two threads inside calls one waits for `pool.lock`
  (`OneAtATime`); the block of a waiting `wl_free` is held, by that call alone. It is
  what lets a proof about one thread's step leave the other threads alone.
* `Circular`: all lists at once, each the set of spans that `home` says. Neighbours
  point back at each other, and every non-empty set of spans has a way out forwards
  and one backwards (`NoRing`). That replaces walking: it says that a list is one circle
  through its head, without recursion. WlMallocProofs has one lemma per list operation.
  Both directions are stated: `ListsWellFormed` rules out stray circles in both, and each
  list lemma (the splice, say) is shown for `nxt` and for `prv`.
* `CursorOnList`, `WalkedOver`: the cursor of a loop is on the list it walks, and what
  `thread_exit` has walked over is the pool's. When the cursor meets the head, no span
  is left (by `NoRing`), and the splice hands over spans that agree with their headers.
* `Account`: per span, held and listed blocks are a partition of those ever used,
  `free_cnt` counts those not held, and a suspended span has a block that is held.
* `Places`: a span in use is in use once and at no `home`; listed spans fit their list;
  owners are kept until `thread_exit` changes them; every carved span can be reached or
  is suspended.
* `NoExits`: without thread ends the pool's `suspend[]` lists are empty, so that no full
  span is taken from them. It is all that stands between the allocator and an overrun.

Each action has a lemma of its own; `Inv` claims the list part only up to `tainted`,
as the properties do. The refinement adds that what `Install` and `GetBlk` hand out is inside its
span and overlaps nothing that is held, from `Account` and `Places`: initial states map
to initial states, and every step to an allocation, a free, or a stutter.

**SpanRaceProofs.** `CountIsExact`, `BlocksAreFree` and `ListIsExact`: if `"none"` is not
among the disciplines, `CountExact`, `OnlyFreeBlocks` and `ListExact` are invariants, for
any number of threads and blocks and any interleaving of their stores. The invariant
`IInv` has

* `OneAtATime`: who may be inside a call with whom, from the discipline and the lock;
* `BlocksHeld`: blocks on their way back are held, and differ;
* `Counts`: `free_cnt` plus the blocks held is the number of blocks, one more between
  the count and the first store of the link;
* `OnList`: what the list looks like once the stores under way are done. `Ring(l, h, S)`
  says that `S` and the head are one circular list, without recursion: pointers
  agree both ways, and every non-empty subset of `S` has a way out. `RingRemove` and
  `RingAdd` are the lemmas about `list_del` and `list_add` that the steps use.
  `RingBackwards` turns it into what `ListExact` says of a walk from the head.

`CountExact` and `OnlyFreeBlocks` are not inductive: that the first node of a
non-empty list is free, and that an empty list means a block at `free_blk`, needs the
list; that the count is right needs that nobody else is counting.

**TriModProofs.** `DamageIsContained`, `ReadsRestore`, `ObjectIsKept`: with any set of
values, an upset of one copy at any moment leaves two copies in agreement, an
undisturbed read returns the object and repairs, and the object is never given up.
The invariant says which copies a write has reached and what the comparisons made so
far have seen.

**WlRegionsProofs.** `PoolAlwaysSound`, `BlocksAlwaysRecognised`, `BlocksAlwaysFit`: for
all sizes of pages, spans, headers and classes and all requests. The invariant: once
there is a pool, it is aligned, `free_start` is a whole number of spans from `start`,
the spans carved are those in between, and its pages are mapped (`Pool`); a block in
use is in a slot of a span that is large enough, or has a mapping to itself that meets
neither the pool nor another block (`Blocks`). The pool grows at its end only, so what
is behind a large block stays apart from it. `EveryPageReturns` adds what is mapped
besides: nothing (`PInv`). Its hypothesis `SmallRequests` is the code's: `blk_size` has
32 bits, and for a longer block `munmap` gets a smaller length, as listed above. The
assumption `Hdr <= DataSize` says that a span's header is smaller than its data: 72 bytes
and about 16 KiB.

**WlGcProofs.** `TableStaysOK`, `LoadStaysBounded`, `OneEntryAlways`, `MarksStayRight`,
and the action properties `SweepsSafelyAlways` and `CollectsAll`: for any blocks, graphs,
hash functions and capacities. The invariant `GInv`:

* `Table`: entries are in the chain of their hash, one for each block outside `left`;
  `Owners`: blocks in use have an entry, and outside `left` nothing else has;
* what the program can reach has an entry (`Used`), so that it is among what the
  collector can reach (`Live`, with left-over words): marking may overlook words that
  are the address of no entry;
* `Marking`: marks are on blocks in `Live`, and every word of the stack and of a marked
  block is marked or yet to be looked up. With nothing to look up, the marked blocks
  are closed, hence all of `Live` (`AllMarked`);
* `Sweep`: a block is kept, that is, has an entry that is behind `at` or marked, exactly
  when it is in `Live`. Freeing an unmarked entry changes what other blocks' words
  lead to, but not `Live`: only a block in `left` can be both freed and in `Live`, and it
  has another entry that stays (`SweepFreeEntry`, `LedSame`);
* `Resizing`: the new table is a `Table` of twice the capacity with exactly the entries
  passed, so that `size` still counts them after the exchange.

Reachability is "in every closed set", so that no path has to be followed: `LedClosed`
and `LedLeast` are all that is used of it.

**LsShowProofs.** What the loops of `LsShow` compute, for arrays of any length, any names
and any width. The library's induction theorems take the formula as a parameter, which no
prover here can instantiate. `FromMin` does the same with a set: a set of numbers that has
0 and the successor of each of its members has all of them, because `<` is well-founded.
From it follow the rules for `Repeat`: it is the run of its body (`RepeatStep`), keeps what
the body keeps (`RepeatKeeps`, `RepeatIndexed`), and a number that falls at each round
reaches 0 (`RepeatEnds`). With these,

* `ShellsortSorts`: the three nested loops permute the array, and where `sortcmp` is a total
  order the last gap, which is 1, puts it in order; `NearRanked` says that it is one when no
  difference exceeds an int;
* `EveryFilePlaced`, `EarlierPlaced`, `CellsInColumns`: the grid of `showfiles` holds every
  file, in reading order, and column n begins at n times its width;
* `SizeReadable`, `ModesApart`: the error of `make_human_readable_str` after up to four divisions
  with their carries, and the letters of `mode_string`.

**LsProofs.** `OptionsOrdered`, `ConversionsReadable`, `NodesOutliveTheirUse`,
`ListingsInOrder`, `ColumnsLinedUp`, `NothingIsLost`, `FailuresAreReported` and
`OutputIsAWalk`, for any file system, command line and number of names that vanish.
`SoundInv` consists of

* `OptionsInv`: the settings mean what the options read so far say (`Meaning`), and are such
  as the rest of `ls` expects (`Sensible`);
* `FilesInv`: the directories that are left have only entries of before (`Remains`);
* `NodesInv`: the dnodes of depth k (`Level`) are those whose path has k names; next pointers
  stay inside a batch (`Closed`); each call of showdirs goes through dnodes of its own depth,
  and its caller holds the array from whose first element `dfree` will follow the chain
  (`Waiting`). A `dfree` at one depth then leaves all other depths alone;
* `OutInv`: what has been listed was sorted, and had dnodes that are paths with their inodes.

`NothingLost` and `FailuresReported` speak of the file system at the end. `LookInv` adds

* `KnownInv`: a dnode has what stat says now, or its file has gone (`TrueInfoIn`); removing
  names changes what the kernel answers in one direction only (`KernelLess`);
* `EnteredInv`: each call of showdirs has reason to be there (`-R`, not `.` or `..`);
* `ReadingInv`: each name of the directory that is being read has a dnode, no file, or is
  still to come from readdir;
* `ArgsInv`: the same for the arguments, and what holds of them when all have been examined;
* `FailInv`: when nothing vanishes, all dnodes are in the layers of `Wanted`, and what a
  message is about has its reason there (`TroubleIn`);
* `StatusInv`: the result is a failure once there is a message, and not before;
* `CoverInv`: every directory that is to be entered, of what has been shown, is still awaited
  by a call of showdirs, or all that is in it has been shown, and what could not be opened
  or examined has a message if nothing vanished. When `ls` is done there
  are no calls, and induction over the layers (`LayersShown`, `LayersFine`) gives the rest.

`AsReported` speaks of the output as a whole, when nothing vanishes. `WalkInv` adds

* `NamesInv`: a batch has one dnode of each name that was read, and of each argument as many
  as it was given times;
* `ItemsInv`: a listing is of all that is in one directory, and a heading is of one that is to
  be listed;
* `HeadingsInv`: a directory to be entered that has no heading yet is awaited;
* `OrderInv`: what has been printed is in order, the directories that the calls still go
  through are (`OrderedIn`: deeper calls first, each from left to right), and the former come
  before the latter (`BeforeAll`, `BeforeComing`). With it go the lemmas about paths: a file
  comes after what its directory comes after, and before what its directory comes before,
  unless that is deeper (`AheadChild`, `ChildAhead`).

The order is claimed if no directory is named twice and no two subdirectories of one directory
are too far apart in size or time for an int (`NamedOnce`, `NoneTooFar`): otherwise `sortcmp`
orders nothing. What is listed is claimed in any case.

The type invariants of `SpanRace`, `TriMod`, `WlRegions` and `WlGc` are conjuncts of the
invariants proved here, and no run checks them by themselves.

Model-checked only:

* liveness (`CallsReturn`, `CollectionEnds`, `Ends`): fairness and `ENABLED` are beyond
  the prover;
* `SizeClass`: one finite computation, on the program's own numbers, which TLC carries out
  completely.

## 5. Not modelled

* `log.c` (a vendored logger), `gcbench.c`, `bench.sh`, the Makefile and the prebuilt
  library: no state of the allocator.
* Of `ls.c`: colours, user and group names, the texts of times and messages, and `malloc`
  returning null, upon which `ls` exits. What an overrun of `perror_msg` does to variables of
  its callers, if the process goes on. A listing line whose `column` wraps to exactly 0.
  A name that vanishes while its own line is being printed:
  `list_single` looks links up a second time (752, 755), and `xreadlink` has a message of
  its own when that fails (1049); the model does not.
* Calls of a thread after its `thread_exit` (other destructors).
* `list_splice`, which nothing calls; sizes of 0 and null pointers where the functions
  return at once; `realloc(NULL, n)`, which returns null here; `gc_cnt`; `gc_free` of
  an unknown pointer.
* Interleavings inside `replace_available_span`, `acquire_span` and `thread_exit` with
  calls of other threads on the same span, beyond those that wait for `pool.lock`.
* Weak memory.
* Several threads that share the one collector: it is offered to a single thread.

## 6. The plan

Modelled first is what everything rests on, the small-block allocator; then one span
under threads, the address space, the collector, redundancy, size classes, and `ls`. Next:

1. *`SpanRace` extended* with suspended spans, their collection and a stale
   `owner`, and with `free_list` under the lock that the code takes for it; its
   invariant extended with it.
2. *`SpanRace` refines* the steps of `WlMalloc`: that `get_blk` and `span_free_blk`
   under `turns` implement the two atomic steps.
3. *A second collector instance* with two words in a block.
