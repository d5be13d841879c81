------------------------------ MODULE Malloc -------------------------------
(***************************************************************************)
(* The user heap (libc/malloc.cpp) of one process: malloc, free and        *)
(* realloc over segregated free lists with boundary tags.                  *)
(*                                                                         *)
(* Memory is counted in granules of 8 bytes, from the first block on.  A   *)
(* block at b has its header just before granule b.  A free block keeps    *)
(* the next pointer in the low word of granule b, the previous one in the  *)
(* low word of b + 1 and its footer in the low word of its last granule;   *)
(* the words lo are what the allocator and the program both write.         *)
(* Headers between blocks are kept in hdr, for the current blocks and the  *)
(* epilogue; a header inside a block is never read.  The footer's flags    *)
(* are written and never read, so a footer is its size.                    *)
(*                                                                         *)
(* An operator X_Variant is X with a plausible bug, used by no             *)
(* specification.                                                          *)
(***************************************************************************)
EXTENDS Integers, FiniteSets, FiniteSetsExt

CONSTANTS
  MaxGroup,    \* MAX_GROUP: free lists
  MaxIncr,     \* MAX_INCR, the least the heap grows by
  Page,        \* PAGE_SIZE
  MaxPages,    \* pages expandHeap can ever give
  Sizes,       \* what programs ask malloc for, in granules
  NewSizes     \* what programs ask realloc for

ASSUME MallocAssumption ==
  /\ MaxGroup \in Nat \ {0} /\ MaxIncr \in Nat \ {0}
  /\ Page \in Nat \ {0} /\ MaxPages \in Nat
  /\ Sizes \subseteq Nat /\ NewSizes \subseteq Nat

VARIABLES
  heap,        \* the allocator's state, a record; see Fresh
  live         \* the blocks the program holds: how many granules it asked for

vars == <<heap, live>>

(***************************************************************************)
(* Words.  A nonzero word that is no pointer is taken for one by           *)
(* remove_freelist: footers, and whatever the program stored.              *)
(***************************************************************************)
Nil == [is |-> "nil", at |-> 0]
Ptr(b) == [is |-> "ptr", at |-> b]
Slot(g) == [is |-> "slot", at |-> g]       \* a place in the table of lists
Foot(size) == [is |-> "foot", at |-> size]
Data == [is |-> "data", at |-> 0]

Free == FALSE
Used == TRUE
MinBlock == 3          \* MININUM_BLK_SIZE
Frag == 2              \* INTER_FRAG_SIZE
Groups == 0 .. MaxGroup - 1
TableSize == MaxGroup + 2     \* the table, the padding and the prologue
Top == MaxPages * Page - TableSize
Granules == 1 .. Top + 1
MaxBlocks == Top \div MinBlock

RoundUp(n, unit) == ((n + unit - 1) \div unit) * unit

(***************************************************************************)
(* ilog2(size - INTER_FRAG_SIZE) - 3, no more than the last group.         *)
(***************************************************************************)
GroupOf(size) ==
  Min({MaxGroup - 1,
       CHOOSE k \in 0 .. Top : 2 ^ k <= size - Frag /\ size - Frag < 2 ^ (k + 1)})

-----------------------------------------------------------------------------
(***************************************************************************)
(* PUT(HDRP(b), PACK(size, used, prev)); the headers the block covers are  *)
(* no longer headers.                                                      *)
(***************************************************************************)
Header(h, b, size, used, prev) ==
  [h EXCEPT !.hdr =
     [x \in (DOMAIN @ \ (b + 1 .. b + size - 1)) \cup {b} |->
        IF x = b THEN [size |-> size, used |-> used, prev |-> prev] ELSE @[x]]]

FooterAt(h, b) == b + h.hdr[b].size - 1

FreeHeader(h, b, size, prev) ==
  LET h1 == Header(h, b, size, Free, prev)
  IN [h1 EXCEPT !.lo[FooterAt(h1, b)] = Foot(size)]

NextBlock(h, b) == b + h.hdr[b].size
PrevBlock(h, b) == b - h.lo[b - 1].at          \* through the footer before b

SetPrev(h, b, prev) == [h EXCEPT !.hdr[b].prev = prev]

(***************************************************************************)
(* A store through the pointer w: to the next field (i = 0) or the         *)
(* previous field (i = 1) of what it points to.  Through a word that is no *)
(* pointer the store goes to an arbitrary address.                         *)
(***************************************************************************)
StoreThrough(h, w, i, value) ==
  CASE w.is = "nil" -> h
    [] w.is = "ptr" -> [h EXCEPT !.lo[w.at + i] = value]
    [] w.is = "slot" /\ i = 0 -> [h EXCEPT !.table[w.at] = value]
    [] OTHER -> [h EXCEPT !.wild = TRUE]

RemoveFreelist_Kept(h, b) ==
  LET next == h.lo[b]
      prev == h.lo[b + 1]
      h1 == StoreThrough(h, next, 1, prev)
  IN StoreThrough(h1, prev, 0, next)

RemoveFreelist(h, b) ==
  LET next == h.lo[b]
      prev == h.lo[b + 1]
      h1 == StoreThrough(h, next, 1, prev)
      h2 == StoreThrough(h1, prev, 0, next)
  IN [h2 EXCEPT !.lo[b] = Nil, !.lo[b + 1] = Nil]

(***************************************************************************)
(* append_freelist(): nothing happens when the link words are not null,    *)
(* and the process exits when the block is too small to be listed.         *)
(***************************************************************************)
Link(h, b, g) ==
  LET first == h.table[g]
      h1 == [h EXCEPT !.lo[b] = first, !.lo[b + 1] = Slot(g), !.table[g] = Ptr(b)]
  IN StoreThrough(h1, first, 1, Ptr(b))

AppendFreelist(h, b, size) ==
  IF h.lo[b] # Nil \/ h.lo[b + 1] # Nil THEN h
  ELSE IF size < MinBlock THEN [h EXCEPT !.exited = TRUE]
  ELSE Link(h, b, GroupOf(size))

(***************************************************************************)
(* coalesce(): a free block and its free neighbours become one block of    *)
(* the list its size belongs to.                                           *)
(***************************************************************************)
Enlist(h, b, size) ==
  LET h1 == AppendFreelist(h, b, size)
  IN IF h1.exited THEN h1 ELSE SetPrev(h1, NextBlock(h1, b), Free)

Merge(h, b, size) == Enlist(FreeHeader(h, b, size, h.hdr[b].prev), b, size)

Coalesce_Backward(h, b) ==
  LET next == NextBlock(h, b)
      size == h.hdr[b].size
  IN IF h.hdr[b].prev = Used
     THEN IF h.hdr[next].used THEN Enlist(h, b, size)
          ELSE Merge(RemoveFreelist(h, next), b, size + h.hdr[next].size)
     ELSE Merge(RemoveFreelist(h, PrevBlock(h, b)), PrevBlock(h, b),
                h.hdr[PrevBlock(h, b)].size + size)

Coalesce(h, b) ==
  LET next == NextBlock(h, b)
      prev == PrevBlock(h, b)
      size == h.hdr[b].size
  IN IF h.hdr[b].prev = Used
     THEN IF h.hdr[next].used THEN Enlist(h, b, size)
          ELSE Merge(RemoveFreelist(h, next), b, size + h.hdr[next].size)
     ELSE IF h.hdr[next].used
     THEN Merge(RemoveFreelist(h, prev), prev, h.hdr[prev].size + size)
     ELSE Merge(RemoveFreelist(RemoveFreelist(h, next), prev), prev,
                h.hdr[prev].size + size + h.hdr[next].size)

-----------------------------------------------------------------------------
(***************************************************************************)
(* mem_sbrk(incr) with incr > 0: pages are asked for when brk would pass   *)
(* maxBrk.  expandHeap may refuse them at any time (more is FALSE), and    *)
(* the new pages are taken to follow the old ones.                         *)
(***************************************************************************)
PagesFor(h, incr) ==
  IF h.brk + incr <= h.maxBrk THEN 0
  ELSE RoundUp(h.brk + incr - h.maxBrk, Page) \div Page

CanGrow(h, incr, more) ==
  \/ PagesFor(h, incr) = 0
  \/ more /\ h.maxBrk + PagesFor(h, incr) * Page <= Top + 1

Sbrk(h, incr) ==
  [h EXCEPT !.brk = @ + incr, !.maxBrk = @ + PagesFor(h, incr) * Page]

(***************************************************************************)
(* expand_heap(): the epilogue becomes the header of a new free block,     *)
(* with its link words cleared, and a new epilogue follows.                *)
(***************************************************************************)
ExpandHeap(h, incr) ==
  LET b == h.brk
      h1 == FreeHeader(Sbrk(h, incr), b, incr, h.hdr[b].prev)
      h2 == [h1 EXCEPT !.lo[b] = Nil, !.lo[b + 1] = Nil]
  IN Coalesce(Header(h2, h2.brk, 0, Used, Free), b)

(***************************************************************************)
(* The heap before the first call, and mm_init(): an empty table, prologue *)
(* and epilogue.  Without pages brk_base is left at -1, which later calls  *)
(* take for a heap.                                                        *)
(***************************************************************************)
Fresh ==
  [base |-> "null",         \* brk_base: "null", "set" or "bad"
   table |-> [g \in Groups |-> Nil],
   lo |-> [b \in Granules |-> Nil],
   hdr |-> [b \in {1} |-> [size |-> 0, used |-> Used, prev |-> Used]],
   brk |-> 1,               \* mem_brk, the block pointer of the epilogue
   maxBrk |-> 1,            \* mem_max_brk
   wild |-> FALSE,          \* an access through a word that is no pointer
   exited |-> FALSE]        \* exit(-1)

MmInit(h, more) ==
  IF h.base # "null" THEN h
  ELSE IF ~ more THEN [h EXCEPT !.base = "bad"]
  ELSE [h EXCEPT !.base = "set",
                 !.maxBrk = RoundUp(TableSize, Page) - TableSize + 1]

-----------------------------------------------------------------------------
(***************************************************************************)
(* The k-th block of a free list.                                          *)
(***************************************************************************)
Listed(h, g) ==
  LET walk[k \in 0 .. MaxBlocks] ==
        IF k = 0 THEN h.table[g]
        ELSE IF walk[k - 1].is = "ptr" THEN h.lo[walk[k - 1].at] ELSE Nil
  IN walk

(***************************************************************************)
(* The search of mm_malloc: the first block that is large enough, in the   *)
(* lists from the request's own group on.                                  *)
(***************************************************************************)
Fitting(h, size) ==
  {gk \in (GroupOf(size) .. MaxGroup - 1) \X (0 .. MaxBlocks) :
     LET w == Listed(h, gk[1])[gk[2]]
     IN w.is = "ptr" /\ h.hdr[w.at].size >= size}

FirstFit(h, fits) ==
  LET gk == CHOOSE x \in fits : \A y \in fits :
              x[1] < y[1] \/ (x[1] = y[1] /\ x[2] <= y[2])
  IN Listed(h, gk[1])[gk[2]].at

(***************************************************************************)
(* The block is divided when the rest can be a block of its own.           *)
(***************************************************************************)
SplitAt(h, b, size) ==
  LET rest == h.hdr[b].size - size
      h1 == Header(h, b, size, Used, h.hdr[b].prev)
      h2 == FreeHeader(h1, b + size, rest, Used)
  IN AppendFreelist(h2, b + size, rest)

Place(h, b, size) ==
  IF h.hdr[b].size >= size + MinBlock
  THEN SplitAt(RemoveFreelist(h, b), b, size)
  ELSE LET h1 == Header(RemoveFreelist(h, b), b, h.hdr[b].size, Used, h.hdr[b].prev)
       IN SetPrev(h1, NextBlock(h1, b), Used)

(***************************************************************************)
(* mm_malloc(): the block, or 0 for nullptr.                               *)
(***************************************************************************)
Found(h, size, fits) ==
  IF fits = {} \/ h.wild THEN [heap |-> h, p |-> 0]
  ELSE [heap |-> Place(h, FirstFit(h, fits), size), p |-> FirstFit(h, fits)]

Searched(h, size, fits, incr, more) ==
  IF fits # {} THEN Found(h, size, fits)
  ELSE IF ~ CanGrow(h, incr, more) THEN [heap |-> h, p |-> 0]
  ELSE LET h1 == ExpandHeap(h, incr) IN Found(h1, size, Fitting(h1, size))

Allocate(h, k, more) ==
  IF k = 0 THEN [heap |-> h, p |-> 0]
  ELSE IF h.base = "bad" THEN [heap |-> [h EXCEPT !.wild = TRUE], p |-> 0]
  ELSE Searched(h, k + Frag, Fitting(h, k + Frag), Max({k + Frag, MaxIncr}), more)

MmMalloc(h, k, more) == Allocate(MmInit(h, more), k, more)

(***************************************************************************)
(* mm_free(): the footer first, then the link words, which is all there is *)
(* of a block of two granules.                                             *)
(***************************************************************************)
MmFree(h, p) ==
  IF ~ h.hdr[p].used THEN h
  ELSE LET h1 == FreeHeader(h, p, h.hdr[p].size, h.hdr[p].prev)
       IN Coalesce([h1 EXCEPT !.lo[p] = Nil, !.lo[p + 1] = Nil], p)

(***************************************************************************)
(* mm_realloc(): in place when the next block is free and large enough     *)
(* with this one, else a new block, a copy and a free.                     *)
(***************************************************************************)
Regrow(h, p, size, agg) ==
  LET h1 == RemoveFreelist(h, NextBlock(h, p))
      kept == Header(h1, p, size, Used, h.hdr[p].prev)
      cut == AppendFreelist(FreeHeader(kept, p + size, agg - size, Used),
                            p + size, agg - size)
      whole == Header(h1, p, agg, Used, h.hdr[p].prev)
  IN IF agg >= size + MinBlock
     THEN SetPrev(cut, NextBlock(cut, p + size), Free)
     ELSE SetPrev(whole, NextBlock(whole, p), Used)

Copy(h, from, to, n) ==
  [h EXCEPT !.lo = [b \in Granules |->
     IF b \in to .. to + n - 1 THEN @[from + b - to] ELSE @[b]]]

MoveTo_FreeFirst(m, p, n) ==
  IF m.p = 0 \/ m.heap.wild THEN m
  ELSE [m EXCEPT !.heap = Copy(MmFree(@, p), p, m.p, n)]

MoveTo(m, p, n) ==
  IF m.p = 0 \/ m.heap.wild THEN m
  ELSE [m EXCEPT !.heap = MmFree(Copy(@, p, m.p, n), p)]

MmRealloc(h, p, k, more) ==
  LET next == NextBlock(h, p)
      agg == h.hdr[p].size + h.hdr[next].size
  IN IF ~ h.hdr[next].used /\ agg >= k + Frag
     THEN [heap |-> Regrow(h, p, k + Frag, agg), p |-> p]
     ELSE MoveTo(MmMalloc(h, k, more), p, Min({k, h.hdr[p].size - Frag}))

-----------------------------------------------------------------------------
Running == ~ heap.wild /\ ~ heap.exited

Without(f, p) == [q \in DOMAIN f \ {p} |-> f[q]]

With(f, p, k) == [q \in DOMAIN f \cup {p} |-> IF q = p THEN k ELSE f[q]]

Init ==
  /\ heap = Fresh
  /\ live = <<>>

Malloc(k, more) ==
  /\ Running
  /\ \E m \in {MmMalloc(heap, k, more)} :
       /\ heap' = m.heap
       /\ live' = IF m.p = 0 THEN live ELSE With(live, m.p, k)

FreeBlock(p) ==
  /\ Running
  /\ heap' = MmFree(heap, p)
  /\ live' = Without(live, p)

Realloc(p, k, more) ==
  /\ Running
  /\ \E m \in {MmRealloc(heap, p, k, more)} :
       /\ heap' = m.heap
       /\ live' = IF m.p = 0 THEN live ELSE With(Without(live, p), m.p, k)

(***************************************************************************)
(* The program fills its block.                                            *)
(***************************************************************************)
Write(p) ==
  /\ Running
  /\ heap' = [heap EXCEPT !.lo = [b \in Granules |->
                IF b \in p .. p + live[p] - 1 THEN Data ELSE @[b]]]
  /\ UNCHANGED live

Next ==
  \/ \E k \in Sizes, more \in BOOLEAN : Malloc(k, more)
  \/ \E p \in DOMAIN live :
       \/ FreeBlock(p) \/ Write(p)
       \/ \E k \in NewSizes, more \in BOOLEAN : Realloc(p, k, more)

Spec == Init /\ [][Next]_vars

-----------------------------------------------------------------------------
Blocks == DOMAIN heap.hdr \ {heap.brk}
FreeBlocks == {b \in Blocks : ~ heap.hdr[b].used}
ListedBlocks(g) ==
  {w.at : w \in {Listed(heap, g)[k] : k \in 0 .. MaxBlocks} \ {Nil}}

(***************************************************************************)
(* Until the process is stopped by a bad pointer, the headers tile the     *)
(* heap from its first block to the epilogue, which lies in the pages the  *)
(* kernel has handed out, every header tells truly whether the block       *)
(* before it is in use, the footers of free blocks are right, no two free  *)
(* blocks are neighbours, and the blocks in use are the ones the program   *)
(* holds, each large enough.                                               *)
(***************************************************************************)
HeapTiled ==
  Running =>
    /\ heap.brk <= heap.maxBrk /\ heap.maxBrk <= Top + 1
    /\ {1, heap.brk} \subseteq DOMAIN heap.hdr
    /\ heap.hdr[heap.brk].size = 0 /\ heap.hdr[heap.brk].used
    /\ heap.hdr[1].prev = Used
    /\ \A b \in Blocks :
         LET next == NextBlock(heap, b)
         IN /\ next \in DOMAIN heap.hdr
            /\ (b + 1 .. next - 1) \cap DOMAIN heap.hdr = {}
            /\ heap.hdr[next].prev = heap.hdr[b].used
            /\ heap.hdr[b].used <=> b \in DOMAIN live
    /\ \A b \in FreeBlocks :
         /\ heap.hdr[b].size >= MinBlock
         /\ heap.lo[FooterAt(heap, b)] = Foot(heap.hdr[b].size)
         /\ heap.hdr[b].prev = Used
    /\ \A p \in DOMAIN live : p \in Blocks /\ heap.hdr[p].size >= live[p] + Frag

(***************************************************************************)
(* Until then the free lists are doubly linked, end, and hold only free    *)
(* blocks, each in the list of its size: a search finds nothing that is in *)
(* use, and every block can be taken out again.                            *)
(***************************************************************************)
ListsSound ==
  Running =>
    \A g \in Groups :
      /\ Listed(heap, g)[MaxBlocks] = Nil
      /\ ListedBlocks(g) \subseteq FreeBlocks
      /\ \A b \in ListedBlocks(g) :
           /\ GroupOf(heap.hdr[b].size) = g
           /\ heap.lo[b + 1].is \in {"slot", "ptr"}
           /\ IF heap.lo[b + 1].is = "slot" THEN heap.table[heap.lo[b + 1].at] = Ptr(b)
              ELSE heap.lo[heap.lo[b + 1].at] = Ptr(b)
           /\ heap.lo[b].is = "ptr" => heap.lo[heap.lo[b].at + 1] = Ptr(b)

(***************************************************************************)
(* The heap is an arena: malloc gives out granules nobody has, nobody but  *)
(* the program changes what is in its blocks, and realloc keeps what fits. *)
(* A step that goes through a bad pointer stores where the model does not  *)
(* look; it is the last one.                                               *)
(***************************************************************************)
Filled(p) ==
  Max({n \in 0 .. live[p] : \A b \in p .. p + n - 1 : heap.lo[b] = Data})

A == INSTANCE Arena WITH length <- live, full <- [p \in DOMAIN live |-> Filled(p)]

IsArena == A!Spec
=============================================================================
