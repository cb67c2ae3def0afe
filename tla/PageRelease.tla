----------------------------- MODULE PageRelease -----------------------------
(***************************************************************************)
(* Which pages releaseToOSMaybe of primary64.h gives back to the system:   *)
(* markFreeBlocks counts, for the groups taken out of the free list, how   *)
(* many free blocks touch each page (PageReleaseContext of release.h), and *)
(* releaseFreeMemoryToOS compares the counts with how many blocks a page   *)
(* has.  A counter has only as many bits as the largest count needs, and   *)
(* its largest value means that all blocks are counted.                    *)
(*                                                                         *)
(* Addresses are offsets from RegionBeg.  Every behaviour starts with one  *)
(* region and marks one group in each step.                                *)
(***************************************************************************)
EXTENDS Integers, FiniteSets, FiniteSetsExt

CONSTANTS
    PageSize,
    GroupSize,
    BlockSizes,
    MaxRegionSize   \* bound of AllocatedUser

ASSUME PageReleaseAssumption ==
    /\ PageSize \in Nat \ {0}
    /\ GroupSize \in Nat \ {0} /\ GroupSize % PageSize = 0
    /\ BlockSizes \subseteq 1 .. GroupSize
    /\ MaxRegionSize \in Nat

VARIABLES
    BlockSize,
    RegionSize,   \* AllocatedUser
    free,         \* blocks in the groups taken out of the free list
    todo,         \* groups still to be marked
    PageMap,      \* the counter of every page in range
    released,     \* the pages releaseFreeMemoryToOS returned to the system
    outcome

vars == <<BlockSize, RegionSize, free, todo, PageMap, released, outcome>>
region == <<BlockSize, RegionSize, free>>

RoundDown(x, m) == m * (x \div m)
RoundUp(x, m) == RoundDown(x + m - 1, m)

PageOf(x) == x \div PageSize

\* compactPtrGroup: the base of the group a block begins in.
GroupOf(b) == RoundDown(b, GroupSize)

\* The blocks of the region are the multiples of BlockSize below RegionSize.
AllBlocks == {b \in 0 .. (RegionSize - 1) : b % BlockSize = 0}

Groups == {GroupOf(b) : b \in free}

UsedEnd(g) == Min({g + GroupSize, RegionSize})

-----------------------------------------------------------------------------
(***************************************************************************)
(* The range markFreeBlocks looks at, and the page map for it.             *)
(***************************************************************************)

ReleaseBase == Min(Groups)

\* The last block may straddle the end of its group.
ReleaseEnd == RoundUp(UsedEnd(Max(Groups)), BlockSize)

PagesInRange ==
    PageOf(ReleaseBase) .. (PageOf(ReleaseBase)
                            + RoundUp(ReleaseEnd - ReleaseBase, PageSize) \div PageSize - 1)

\* Whether every page has the same number of blocks, and the largest such number.
SameBlockCountPerPage ==
    IF BlockSize <= PageSize
    THEN PageSize % BlockSize = 0 \/ BlockSize % (PageSize % BlockSize) = 0
    ELSE BlockSize % PageSize = 0

FullPagesBlockCountMax ==
    IF BlockSize > PageSize
    THEN IF BlockSize % PageSize = 0 THEN 1 ELSE 2
    ELSE PageSize \div BlockSize + (IF PageSize % BlockSize = 0 THEN 0
                                    ELSE IF SameBlockCountPerPage THEN 1 ELSE 2)

\* As if a counter at its full count could have one bit too few.
CounterMask_OneShort ==
    Min({m \in {2^1 - 1, 2^2 - 1, 2^4 - 1, 2^8 - 1} : FullPagesBlockCountMax <= m + 1})

\* RegionPageMap::reset: a counter has 1, 2, 4, 8... bits, and the mask is its
\* largest value.
CounterMask ==
    Min({m \in {2^1 - 1, 2^2 - 1, 2^4 - 1, 2^8 - 1} : FullPagesBlockCountMax <= m})

\* inc, incN and incRange, which stop at the end of the map.
Counted(map, pages, n) ==
    [p \in PagesInRange |-> IF p \in pages THEN map[p] + n ELSE map[p]]

\* setAsAllCountedRange, which stops there too.
AllCounted(map, pages) ==
    [p \in PagesInRange |-> IF p \in pages THEN CounterMask ELSE map[p]]

Touches(b, p) == p \in PageOf(b) .. PageOf(b + BlockSize - 1)

-----------------------------------------------------------------------------
(***************************************************************************)
(* Marking one group.                                                      *)
(***************************************************************************)

BlocksIn(g) == {b \in free : GroupOf(b) = g}

MaxContainedBlocks(g) ==
    (UsedEnd(g) - g) \div BlockSize + (IF UsedEnd(g) % BlockSize = 0 THEN 0 ELSE 1)

\* As if all pages of the range held only its blocks.
MarkRangeAsAllCounted_WholePages(map, from, to) ==
    AllCounted(map, PageOf(from) .. PageOf(to - 1))

\* All blocks that begin in [from, to) are free: their pages are marked without
\* a visit to the blocks, but for those shared with the groups on either side.
MarkRangeAsAllCounted(map, from, to) ==
    LET firstBlock == RoundUp(from, BlockSize)
        firstPage  == RoundDown(firstBlock, PageSize)
        lastBlock  == RoundDown(to - 1, BlockSize)
        endsRegion == lastBlock + BlockSize = RegionSize
        body  == IF firstBlock = firstPage THEN firstPage ELSE firstPage + PageSize
        end   == IF endsRegion THEN RegionSize ELSE to
        first == IF firstBlock = firstPage THEN {} ELSE {PageOf(firstPage)}
        next  == IF endsRegion \/ lastBlock + BlockSize = to THEN {}
                 ELSE PageOf(to) .. PageOf(lastBlock + BlockSize - 1)
        inFirst == RoundUp(firstPage + PageSize - firstBlock, BlockSize) \div BlockSize
    IN  IF firstBlock >= to THEN map
        ELSE AllCounted(Counted(Counted(map, first, inFirst), next, 1),
                        PageOf(body) .. PageOf(end - 1))

\* As if the end of the last page were not counted.
WithTrailingBlocks_Skipped(map) == map

\* The blocks that would follow the last one in its page count as free.
WithTrailingBlocks(map) ==
    LET base == (RegionSize \div BlockSize) * BlockSize
        n    == RoundUp(RoundUp(RegionSize, PageSize) - base, BlockSize) \div BlockSize
    IN  IF n > 0 THEN Counted(map, {PageOf(base)}, n) ELSE map

MarkFreeBlocksInRegion(map, blocks, mayContainLast) ==
    LET start == IF mayContainLast THEN WithTrailingBlocks(map) ELSE map
    IN  [p \in PagesInRange |-> start[p] + Cardinality({b \in blocks : Touches(b, p)})]

-----------------------------------------------------------------------------
(***************************************************************************)
(* How many blocks releaseFreeMemoryToOS expects a page to have.  The slow *)
(* path walks over the pages with the first block boundary that it has not *)
(* passed.                                                                 *)
(***************************************************************************)

Pn == IF BlockSize < PageSize THEN PageSize \div BlockSize ELSE 1

\* The boundary after the first block, or the full ones, of a page, and after
\* the last.
Advanced(boundary, p) ==
    LET pageEnd == (p + 1) * PageSize
        middle  == boundary + Pn * BlockSize
    IN  IF boundary >= pageEnd THEN boundary
        ELSE IF middle < pageEnd THEN middle + BlockSize ELSE middle

CurrentBoundary[p \in PagesInRange] ==
    IF p = PageOf(ReleaseBase) THEN RoundUp(ReleaseBase, BlockSize)
    ELSE Advanced(CurrentBoundary[p - 1], p - 1)

BlocksPerPage(p) ==
    LET boundary == CurrentBoundary[p]
        pageEnd  == (p + 1) * PageSize
        partialFirst == boundary < pageEnd /\ boundary > p * PageSize
        partialLast  == boundary + Pn * BlockSize < pageEnd
    IN  Pn + (IF partialFirst THEN 1 ELSE 0) + (IF partialLast THEN 1 ELSE 0)

Expected(p) == IF SameBlockCountPerPage THEN FullPagesBlockCountMax ELSE BlocksPerPage(p)

-----------------------------------------------------------------------------
Init ==
    /\ BlockSize \in BlockSizes
    /\ RegionSize \in {n * BlockSize : n \in 1 .. (MaxRegionSize \div BlockSize)}
    /\ free \in SUBSET AllBlocks \ {{}}
    /\ todo = Groups
    /\ PageMap = [p \in PagesInRange |-> 0]
    /\ released = {}
    /\ outcome = "marking"

\* The page map cannot be allocated, and the groups go back as they are.
MapFails ==
    /\ todo = Groups /\ outcome = "marking"
    /\ todo' = {} /\ outcome' = "failed"
    /\ UNCHANGED <<region, PageMap, released>>

\* markFreeBlocks visits the groups by address.
MarkGroup ==
    /\ todo # {}
    /\ LET g == Min(todo) IN
           /\ todo' = todo \ {g}
           /\ PageMap' =
                IF Cardinality(BlocksIn(g)) = MaxContainedBlocks(g)
                THEN MarkRangeAsAllCounted(PageMap, g, UsedEnd(g))
                ELSE MarkFreeBlocksInRegion(PageMap, BlocksIn(g), UsedEnd(g) = RegionSize)
    /\ UNCHANGED <<region, released, outcome>>

\* The pages whose blocks are all free.
Freed == {p \in PagesInRange : PageMap[p] \in {CounterMask, Expected(p)}}

\* A FreePagesRangeTracker: the page its range began with, if it has one, and the ranges
\* given to the recorder.
NoPage == -1
NewTracker == [start |-> NoPage, ranges |-> {}]

\* closeOpenedRange before a page.
Closed(tracker, page) ==
    IF tracker.start = NoPage THEN tracker
    ELSE [start  |-> NoPage,
          ranges |-> tracker.ranges \cup {tracker.start .. (page - 1)}]

\* processNextPage
ProcessNextPage(tracker, page) ==
    IF page \notin Freed THEN Closed(tracker, page)
    ELSE IF tracker.start = NoPage THEN [tracker EXCEPT !.start = page]
    ELSE tracker

Tracker[p \in PagesInRange] ==
    ProcessNextPage(IF p = Min(PagesInRange) THEN NewTracker ELSE Tracker[p - 1], p)

\* The ranges given to the recorder when the tracker has finished.
ReleasedRanges ==
    LET last == Max(PagesInRange) IN Closed(Tracker[last], last + 1).ranges

\* releaseFreeMemoryToOS.
Release ==
    /\ todo = {} /\ outcome = "marking"
    /\ released' = UNION ReleasedRanges
    /\ PageMap' = AllCounted(PageMap, Freed)
    /\ outcome' = "released"
    /\ UNCHANGED <<region, todo>>

Next == MapFails \/ MarkGroup \/ Release

Spec == Init /\ [][Next]_vars

-----------------------------------------------------------------------------
(***************************************************************************)
(* Properties.                                                             *)
(***************************************************************************)

\* A page given back to the system holds no byte of a block in use, whether or
\* not the block begins in a group that was taken out (releaseFreeMemoryToOS:
\* "Try to release the page which doesn't have any in-used block").
ReleasesOnlyFree ==
    \A p \in released : \A b \in AllBlocks : Touches(b, p) => b \in free

\* A page is missed only if a block in use touches it, or if it is the last one
\* and the last block began in a group that ends before it: the trailing blocks
\* are not counted then (markFreeBlocks: "we may miss the chance of releasing
\* certain pages that cross BatchGroups").
EndsInItsGroup == UsedEnd(GroupOf(RegionSize - BlockSize)) = RegionSize

ReleasesAllFree ==
    outcome = "released" =>
        \A p \in PagesInRange \ released :
            \/ \E b \in AllBlocks \ free : Touches(b, p)
            \/ p = PageOf(RegionSize - 1) /\ ~EndsInItsGroup

\* No counter is incremented past the largest value that it can hold, where it
\* would run over into the next page's (RegionPageMap: "It is assumed that [...]
\* the value is not incremented past MaxValue", and the DCHECKs of inc and incN).
CountersHold == \A p \in PagesInRange : PageMap[p] <= CounterMask
=============================================================================
