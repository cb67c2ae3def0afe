----------------------------- MODULE BlockList -----------------------------
(***************************************************************************)
(* The free list of one region of the primary allocator (BlocksInfo and    *)
(* the operations on it in primary64.h): BatchGroups, one per memory group *)
(* that has free blocks, in the order of the groups, each a list of        *)
(* TransferBatches.  A block is its index in the region.  The order inside *)
(* a TransferBatch is the outcome of shuffle and of what the clients free, *)
(* so a batch is the set of its blocks.                                    *)
(*                                                                         *)
(* The records are themselves blocks, of BatchClass: an operation returns  *)
(* the list and "used", the number of those blocks it took so far, less    *)
(* those it gave back.                                                     *)
(***************************************************************************)
EXTENDS Integers, Sequences, SequencesExt, FiniteSets, FiniteSetsExt

CONSTANTS
    MaxNumCached,   \* TransferBatch::MaxNumCached, the room in a batch
    GroupBlocks     \* blocks that begin in one memory group

ASSUME BlockListAssumption ==
    MaxNumCached \in Nat \ {0} /\ GroupBlocks \in Nat \ {0}

\* compactPtrGroup
GroupOf(block) == (block - 1) \div GroupBlocks

Full(batch) == Cardinality(batch) = MaxNumCached

\* Where the walk along the list for a group stops: the first group not below it.
PlaceOf(list, base) ==
    LET notBelow == {i \in 1 .. Len(list) : list[i].base >= base}
    IN  IF notBelow = {} THEN Len(list) + 1 ELSE Min(notBelow)

Has(list, base) ==
    LET i == PlaceOf(list, base) IN i <= Len(list) /\ list[i].base = base

\* The number of blocks of a group as the release code computes it.
NumBlocks(group) ==
    (Len(group.batches) - 1) * MaxNumCached + Cardinality(Head(group.batches))

-----------------------------------------------------------------------------
(* Pushing.                                                                *)

InsertBlock(block, acc) ==
    IF Full(Head(acc.batches))
    THEN [batches |-> <<{block}>> \o acc.batches, used |-> acc.used + 1]
    ELSE [acc EXCEPT !.batches[1] = @ \cup {block}]

InsertBlocks(batches, blocks, used) ==
    FoldSet(InsertBlock, [batches |-> batches, used |-> used], blocks)

\* Find the group or create it, with an empty batch, and insert its blocks.
PushGroup(base, blocks, acc) ==
    LET i        == PlaceOf(acc.list, base)
        inserted == IF Has(acc.list, base)
                    THEN InsertBlocks(acc.list[i].batches, blocks, acc.used)
                    ELSE InsertBlocks(<<{}>>, blocks, acc.used + 2)
        group    == [base |-> base, batches |-> inserted.batches]
    IN  [list |-> IF Has(acc.list, base) THEN [acc.list EXCEPT ![i] = group]
                                         ELSE InsertAt(acc.list, i, group),
         used |-> inserted.used]

\* pushBlocksImpl
PushBlocks(list, blocks, used) ==
    LET PushSegment(base, acc) ==
            PushGroup(base, {b \in blocks : GroupOf(b) = base}, acc)
    IN  FoldSet(PushSegment, [list |-> list, used |-> used],
                {GroupOf(b) : b \in blocks})

-----------------------------------------------------------------------------
(* Popping.                                                                *)

\* What popBlocksImpl may take: at most max blocks, from the first batch alone.
Poppable(list, max) ==
    LET front == Head(Head(list).batches)
    IN  kSubset(Min({max, Cardinality(front)}), front)

\* The list after that: an empty batch goes, and a group without batches.
PopBlocks(list, blocks, used) ==
    LET batches == Head(list).batches
        left    == Head(batches) \ blocks
    IN  CASE left # {} ->
               [list |-> [list EXCEPT ![1].batches[1] = left], used |-> used]
          [] left = {} /\ Len(batches) > 1 ->
               [list |-> [list EXCEPT ![1].batches = Tail(@)], used |-> used - 1]
          [] left = {} /\ Len(batches) = 1 ->
               [list |-> Tail(list), used |-> used - 2]

-----------------------------------------------------------------------------
(* Merging the groups that a release had extracted.                        *)

\* As if the batches of cur went behind those of bg whatever room their first has.
MergeBatches_Append(bg, cur, used) == [batches |-> bg \o cur, used |-> used]

\* As if the blocks that move to bg's first batch also stayed in cur's.
MergeBatches_Kept(bg, cur, used) ==
    LET room  == MaxNumCached - Cardinality(Head(bg))
        moved == CHOOSE m \in kSubset(Min({room, Cardinality(Head(cur))}), Head(cur)) : TRUE
    IN  [batches |-> <<Head(cur), Head(bg) \cup moved>> \o Tail(bg) \o Tail(cur),
         used |-> used]

\* Only the first batch of each list may have room: the blocks of cur's first batch
\* fill up bg's first, and what is left of it goes in front.
MergeBatches(bg, cur, used) ==
    LET front   == Head(bg)
        nonFull == Head(cur)
        rest    == Tail(bg) \o Tail(cur)
        room    == MaxNumCached - Cardinality(front)
        moved   == CHOOSE m \in kSubset(Min({room, Cardinality(nonFull)}), nonFull) : TRUE
        left    == nonFull \ moved
    IN  CASE Full(nonFull)               -> [batches |-> bg \o cur, used |-> used]
          [] ~Full(nonFull) /\ room = 0  ->
               [batches |-> <<nonFull, front>> \o rest, used |-> used]
          [] ~Full(nonFull) /\ room > 0 /\ left # {} ->
               [batches |-> <<left, front \cup moved>> \o rest, used |-> used]
          [] OTHER ->
               [batches |-> <<front \cup moved>> \o rest, used |-> used - 1]

\* As if the record of the merged group were not recycled.
MergeGroup_NotRecycled(acc, cur) ==
    LET i == PlaceOf(acc.list, cur.base)
    IN  IF Has(acc.list, cur.base)
        THEN LET merged == MergeBatches(acc.list[i].batches, cur.batches, acc.used)
             IN  [list |-> [acc.list EXCEPT ![i].batches = merged.batches],
                  used |-> merged.used]
        ELSE [acc EXCEPT !.list = InsertAt(@, i, cur)]

\* A group that is in the list too is merged into that one, whose record stays.
MergeGroup(acc, cur) ==
    LET i == PlaceOf(acc.list, cur.base)
    IN  IF Has(acc.list, cur.base)
        THEN LET merged == MergeBatches(acc.list[i].batches, cur.batches, acc.used - 1)
             IN  [list |-> [acc.list EXCEPT ![i].batches = merged.batches],
                  used |-> merged.used]
        ELSE [acc EXCEPT !.list = InsertAt(@, i, cur)]

\* mergeGroupsToReleaseBack
MergeBack(list, groups, used) ==
    FoldLeft(MergeGroup, [list |-> list, used |-> used], groups)
=============================================================================
