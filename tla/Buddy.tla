------------------------------- MODULE Buddy -------------------------------
(***************************************************************************)
(* The physical page allocator: Buddy (buddy.cpp), one pool of             *)
(* PAddressPool, and the page flags that allocatePhysicalPages and         *)
(* releasePhysicalPages of memory.cpp keep beside it.                      *)
(*                                                                         *)
(* Pages are bitmap indexes 0 .. TotalPages-1.  Every call runs with       *)
(* interrupts off, so a call is one step.                                  *)
(*                                                                         *)
(* An operator X_Variant is X with a plausible bug.  No specification uses *)
(* it: each shows that some property fails when X is written that way.     *)
(***************************************************************************)
EXTENDS Integers, Sequences, FiniteSets, SequencesExt

CONSTANTS
  MaxOrder,     \* MAX_ORDER: the largest block has 2^MaxOrder pages
  TotalPages,   \* the number of pages of the pool
  Counts        \* the page counts that callers ask for

ASSUME MaxOrderAssumption == MaxOrder \in Nat
ASSUME TotalPagesAssumption == TotalPages \in Nat \ {0}
ASSUME CountsAssumption == Counts \subseteq Nat \ {0}

VARIABLES
  freeArea,   \* per order, the start indexes of the free blocks, head first
  bitmap,     \* the pages marked as taken
  flags,      \* per page: "FREE" (PG_FREE), "SINGLE" (PG_SINGLE) or "MULTI"
  held        \* the <<index, count>> that callers hold: returned, not released

vars == <<freeArea, bitmap, flags, held>>

Pages == 0 .. TotalPages - 1
Orders == 0 .. MaxOrder

(***************************************************************************)
(* pow2, log2 and count2order, the order of the smallest block with count  *)
(* pages.  log2(0) is -1, so one page has order 0.                         *)
(***************************************************************************)
Pow2[exp \in Nat] == IF exp = 0 THEN 1 ELSE 2 * Pow2[exp - 1]

Log2(n) ==
  IF n <= 0 THEN -1 ELSE CHOOSE k \in 0 .. n : Pow2[k] <= n /\ n < Pow2[k + 1]

Count2Order(count) == Log2(count - 1) + 1

Span(index, order) == index .. index + Pow2[order] - 1

(***************************************************************************)
(* index ^ (1 << order).                                                   *)
(***************************************************************************)
BuddyOf(index, order) ==
  IF (index \div Pow2[order]) % 2 = 0 THEN index + Pow2[order]
  ELSE index - Pow2[order]

-----------------------------------------------------------------------------
(***************************************************************************)
(* The free lists.  insert_freeNode inserts at the head; its node comes    *)
(* from a pool of TotalPages nodes and the block is dropped without one.   *)
(***************************************************************************)
NodesUsed(fa) == Cardinality(UNION {{o} \X DOMAIN fa[o] : o \in Orders})

InsertFreeNode_NotLinked(fa, index, order) ==
  IF NodesUsed(fa) < TotalPages THEN [fa EXCEPT ![order] = <<index>>] ELSE fa

InsertFreeNode(fa, index, order) ==
  IF NodesUsed(fa) < TotalPages
  THEN [fa EXCEPT ![order] = <<index>> \o @]
  ELSE fa

FindNode(list, index) ==
  CHOOSE k \in 1 .. Len(list) :
    list[k] = index /\ \A j \in 1 .. k - 1 : list[j] # index

RemoveFreeNode(fa, index, order) ==
  [fa EXCEPT ![order] = RemoveAt(@, FindNode(@, index))]

(***************************************************************************)
(* allocateBlock: the head of the list of this order, or the front half of *)
(* a block of the next order, whose back half joins the list.              *)
(***************************************************************************)
NoBlock(fa) == [index |-> -1, area |-> fa]

HeadBlock(fa, order) ==
  [index |-> Head(fa[order]),
   area  |-> RemoveFreeNode(fa, Head(fa[order]), order)]

FrontHalf(bigger, order) ==
  IF bigger.index = -1 THEN bigger
  ELSE [index |-> bigger.index,
        area  |-> InsertFreeNode(bigger.area, bigger.index + Pow2[order], order)]

AllocateBlock(fa, order) ==
  LET got[o \in order .. MaxOrder + 1] ==
        IF o > MaxOrder THEN NoBlock(fa)
        ELSE IF fa[o] # <<>> THEN HeadBlock(fa, o)
        ELSE FrontHalf(got[o + 1], o)
  IN IF order > MaxOrder THEN NoBlock(fa) ELSE got[order]

(***************************************************************************)
(* releaseBlock: merge with the buddy as long as the buddy's first page is *)
(* unmarked and the buddy is a free block of the same order, then insert.  *)
(* The loop also runs at MaxOrder, where the merged block does not fit the *)
(* lists: it is inserted as a block of order MaxOrder.                     *)
(***************************************************************************)
CanMerge(b, marked) ==
  /\ b.order <= MaxOrder
  /\ BuddyOf(b.index, b.order) \notin marked
  /\ Contains(b.area[b.order], BuddyOf(b.index, b.order))

MergeStep_KeepsIndex(b, marked) ==
  IF ~ CanMerge(b, marked) THEN b
  ELSE [area  |-> RemoveFreeNode(b.area, BuddyOf(b.index, b.order), b.order),
        index |-> b.index,
        order |-> b.order + 1]

MergeStep(b, marked) ==
  LET buddy == BuddyOf(b.index, b.order)
  IN IF ~ CanMerge(b, marked) THEN b
     ELSE [area  |-> RemoveFreeNode(b.area, buddy, b.order),
           index |-> IF b.index < buddy THEN b.index ELSE buddy,
           order |-> b.order + 1]

Merge(fa, marked, index, order) ==
  LET merged[k \in 0 .. MaxOrder + 1] ==
        IF k = 0 THEN [area |-> fa, index |-> index, order |-> order]
        ELSE MergeStep(merged[k - 1], marked)
  IN merged[MaxOrder + 1]

InsertBlock(b) ==
  InsertFreeNode(b.area, b.index, IF b.order < MaxOrder THEN b.order ELSE MaxOrder)

ReleaseBlock_NoMerge(fa, marked, index, order) ==
  InsertFreeNode(fa, index, order)

ReleaseBlock(fa, marked, index, order) ==
  InsertBlock(Merge(fa, marked, index, order))

(***************************************************************************)
(* Buddy::initialize over a clear bitmap: from each start the largest      *)
(* aligned block that fits what is left, released like any other.          *)
(***************************************************************************)
AlignedOrder(index) ==
  CHOOSE k \in Orders :
    /\ \A j \in 0 .. k - 1 : (index \div Pow2[j]) % 2 = 0
    /\ k = MaxOrder \/ (index \div Pow2[k]) % 2 = 1

InitialOrder(index) ==
  LET length == IF Pow2[AlignedOrder(index)] < TotalPages - index
                THEN Pow2[AlignedOrder(index)] ELSE TotalPages - index
  IN  Log2(length)

InitializeStep(b) ==
  IF b.index >= TotalPages THEN b
  ELSE [area  |-> ReleaseBlock(b.area, {}, b.index, InitialOrder(b.index)),
        index |-> b.index + Pow2[InitialOrder(b.index)]]

InitialArea ==
  LET filled[k \in 0 .. TotalPages] ==
        IF k = 0 THEN [area |-> [o \in Orders |-> <<>>], index |-> 0]
        ELSE InitializeStep(filled[k - 1])
  IN filled[TotalPages].area

Init ==
  /\ freeArea = InitialArea
  /\ bitmap = {}
  /\ flags = [p \in Pages |-> "FREE"]
  /\ held = {}

-----------------------------------------------------------------------------
(***************************************************************************)
(* Buddy::allocate marks the whole block; allocatePhysicalPages then sets  *)
(* the flags of the pages asked for.                                       *)
(***************************************************************************)
MarkBlock_OneMore(marked, index, count) ==
  marked \cup (index .. index + Pow2[Count2Order(count)])

MarkBlock_CountOnly(marked, index, count) == marked \cup (index .. index + count - 1)

MarkBlock(marked, index, count) == marked \cup Span(index, Count2Order(count))

PageFlags_WholeBlock(index, count) ==
  [p \in Pages |-> IF p \in Span(index, Count2Order(count))
                   THEN IF count = 1 THEN "SINGLE" ELSE "MULTI"
                   ELSE flags[p]]

PageFlags(index, count) ==
  [p \in Pages |-> IF p \in index .. index + count - 1
                   THEN IF count = 1 THEN "SINGLE" ELSE "MULTI"
                   ELSE flags[p]]

Allocate(count) ==
  LET got == AllocateBlock(freeArea, Count2Order(count)) IN
  /\ got.index # -1
  /\ freeArea' = got.area
  /\ bitmap' = MarkBlock(bitmap, got.index, count)
  /\ flags' = PageFlags(got.index, count)
  /\ held' = held \cup {<<got.index, count>>}

AllocateFails(count) ==
  /\ AllocateBlock(freeArea, Count2Order(count)).index = -1
  /\ UNCHANGED vars

(***************************************************************************)
(* Buddy::release merges first and clears the marks after;                 *)
(* releasePhysicalPages then sets PG_FREE.                                 *)
(***************************************************************************)
UnmarkBlock(marked, index, count) == marked \ Span(index, Count2Order(count))

Release(index, count) ==
  /\ <<index, count>> \in held
  /\ freeArea' = ReleaseBlock(freeArea, bitmap, index, Count2Order(count))
  /\ bitmap' = UnmarkBlock(bitmap, index, count)
  /\ flags' = [p \in Pages |->
                IF p \in index .. index + count - 1 THEN "FREE" ELSE flags[p]]
  /\ held' = held \ {<<index, count>>}

Next ==
  \/ \E count \in Counts : Allocate(count) \/ AllocateFails(count)
  \/ \E b \in held : Release(b[1], b[2])

Spec == Init /\ [][Next]_vars

-----------------------------------------------------------------------------
FreeBlocks == {b \in Pages \X Orders : Contains(freeArea[b[2]], b[1])}

HeldBlocks == {<<b[1], Count2Order(b[2])>> : b \in held}

(***************************************************************************)
(* Type correctness.                                                       *)
(***************************************************************************)
TypeOK ==
  /\ freeArea \in [Orders -> Seq(Pages)]
  /\ bitmap \subseteq Pages
  /\ flags \in [Pages -> {"FREE", "SINGLE", "MULTI"}]
  /\ held \subseteq Pages \X Counts

(***************************************************************************)
(* No page is in two blocks: neither handed out twice, nor handed out      *)
(* while a free list still holds it, nor listed twice.                     *)
(***************************************************************************)
NoOverlap ==
  /\ \A b, c \in FreeBlocks \cup HeldBlocks :
       b # c => Span(b[1], b[2]) \cap Span(c[1], c[2]) = {}
  /\ FreeBlocks \cap HeldBlocks = {}
  /\ Cardinality(HeldBlocks) = Cardinality(held)
  /\ \A o \in Orders : IsInjective(freeArea[o])

(***************************************************************************)
(* What the lists and the callers have between them.                       *)
(***************************************************************************)
PagesPresent == UNION {Span(b[1], b[2]) : b \in FreeBlocks \cup HeldBlocks}

(***************************************************************************)
(* No page is lost, as it would be if the largest block had 2^MaxOrder     *)
(* pages (buddy.h:4).  False from the start in a pool of two such blocks:  *)
(* initialize merges them into a block that is listed with half its size.  *)
(***************************************************************************)
NoPageLost == Pages \subseteq PagesPresent

(***************************************************************************)
(* The pages that initialize loses: the second block of every aligned pair *)
(* of whole blocks of the largest order.                                   *)
(***************************************************************************)
LostAtBoot ==
  {p \in Pages : LET b == p \div Pow2[MaxOrder]
                 IN  b % 2 = 1 /\ (b + 1) * Pow2[MaxOrder] <= TotalPages}

(***************************************************************************)
(* Boot loses these pages and nothing loses another one: every other page  *)
(* is in a free list or in a block some caller holds, so that what was     *)
(* released can be allocated again, and no page lost comes back.           *)
(***************************************************************************)
PagesKept == \A p \in Pages : p \in PagesPresent <=> p \notin LostAtBoot

(***************************************************************************)
(* The bitmap that releaseBlock tests before it merges marks exactly the   *)
(* pages of the blocks held, the rounded-up tails included.                *)
(***************************************************************************)
BitmapExact == bitmap = UNION {Span(b[1], b[2]) : b \in HeldBlocks}

(***************************************************************************)
(* The assertions of allocatePhysicalPages and releasePhysicalPages hold:  *)
(* a page of a free block has PG_FREE, and a block held alone PG_SINGLE.   *)
(***************************************************************************)
FlagsAgree ==
  /\ \A b \in FreeBlocks : \A p \in Span(b[1], b[2]) \cap Pages : flags[p] = "FREE"
  /\ \A b \in held : \A p \in b[1] .. b[1] + b[2] - 1 :
       flags[p] = IF b[2] = 1 THEN "SINGLE" ELSE "MULTI"

(***************************************************************************)
(* Merging is complete: when every block has been released the free blocks *)
(* are those of the boot state, whatever the order of the calls was.       *)
(***************************************************************************)
FullyMerged ==
  held = {} => \A o \in Orders : ToSet(freeArea[o]) = ToSet(InitialArea[o])
=============================================================================
