------------------------------ MODULE Primary32 ------------------------------
(***************************************************************************)
(* The primary allocator of 32-bit systems (primary32.h): size classes     *)
(* that carve their blocks from regions which they get from a common       *)
(* stash, or two at a time from the system, and the class of the records   *)
(* of the free lists, from which a thread takes blocks through its local   *)
(* cache while it holds the lock of another class.                         *)
(*                                                                         *)
(* A call on a class is one step unless it needs something else under the  *)
(* lock of the class: a region, whose stash and byte map have locks of     *)
(* their own, or a block of BatchClass, which has a lock, a free list and  *)
(* regions like the other classes.  Several calls of different classes     *)
(* overlap there.                                                          *)
(***************************************************************************)
EXTENDS BlockList

CONSTANTS
    Threads,
    Classes,            \* the classes of clients' blocks
    BatchClass,
    Nobody,
    SizeOf,             \* getSizeByClassId
    NumRegions,         \* regions are 1 .. NumRegions; 0 is none
    RegionSize,
    PageSize,
    MaxCached,          \* getMaxCached of the clients' classes
    MaxNumBatches,
    MaxStashedRegions,
    MaxCachedPerBatch   \* getMaxCached of BatchClass

AllClasses == Classes \cup {BatchClass}
Regions == 1 .. NumRegions

ASSUME Primary32Assumption ==
    /\ BatchClass \notin Classes
    /\ Nobody \notin Threads \cup AllClasses
    /\ SizeOf \in [AllClasses -> 1 .. RegionSize]
    /\ {NumRegions, PageSize, MaxNumBatches, MaxStashedRegions} \subseteq Nat \ {0}
    /\ MaxCached \in 1 .. MaxNumCached
    /\ MaxCachedPerBatch \in Nat /\ MaxCachedPerBatch > 1
    /\ RegionSize % PageSize = 0
    /\ \A c \in AllClasses : RegionSize \div SizeOf[c] <= GroupBlocks

Batch == INSTANCE BatchList WITH NoBlock <- 0

VARIABLES
    stash,           \* RegionsStash
    possibleRegions, \* the class of every region, or Nobody
    lock,            \* Sci->Mutex
    freeList,        \* FreeListInfo.BlockList of the clients' classes
    batchList,       \* that of BatchClass
    inUse,           \* PoppedBlocks - PushedBlocks
    currentRegion,
    carved,          \* CurrentRegionAllocated, in blocks
    minRegion,
    maxRegion,
    allocatedUser,
    held,            \* blocks of a class in local caches or with clients
    records,         \* BatchClass blocks in use as BatchGroups and TransferBatches
    cache,           \* BatchClass blocks in the local cache of a thread
    frame,           \* the locals of its call
    damaged          \* ghost: blocks in use of which a release dropped a page

regions == <<stash, possibleRegions, currentRegion, carved, minRegion, maxRegion>>
lists == <<freeList, batchList, inUse, allocatedUser, held, records, cache>>
vars == <<regions, lists, lock, frame, damaged>>

NoFrame == [stage |-> "idle", class |-> Nobody, target |-> Nobody, blocks |-> {},
            populates |-> FALSE, taken |-> {}, region |-> 0]

Init ==
    /\ stash = <<>>
    /\ possibleRegions = [r \in Regions |-> Nobody]
    /\ lock = [c \in AllClasses |-> Nobody]
    /\ freeList = [c \in Classes |-> <<>>]
    /\ batchList = Batch!EmptyList
    /\ inUse = [c \in AllClasses |-> 0]
    /\ currentRegion = [c \in AllClasses |-> 0]
    /\ carved = [c \in AllClasses |-> 0]
    /\ minRegion = [c \in AllClasses |-> NumRegions + 1]
    /\ maxRegion = [c \in AllClasses |-> 0]
    /\ allocatedUser = [c \in AllClasses |-> 0]
    /\ held = [c \in Classes |-> {}]
    /\ records = {}
    /\ cache = [t \in Threads |-> {}]
    /\ frame = [t \in Threads |-> NoFrame]
    /\ damaged = {}

-----------------------------------------------------------------------------
At(t, stage) == frame[t].stage = stage

\* How many blocks of class c a region holds, and the numbers of those blocks, which
\* are also those of a memory group (GroupOf).
PerRegion(c) == RegionSize \div SizeOf[c]
BlocksFrom(r, first, n) ==
    LET base == (r - 1) * GroupBlocks + first IN base + 1 .. base + n

RegionOf(block) == GroupOf(block) + 1

Unlocked(c, t) == [lock EXCEPT ![c] = IF @ = t THEN Nobody ELSE @]

\* The call ends, or first gives back the records it no longer needs.
EndOrGive(t, c, taken) ==
    IF taken = {}
    THEN frame' = [frame EXCEPT ![t] = NoFrame] /\ lock' = Unlocked(c, t)
    ELSE /\ frame' = [frame EXCEPT ![t] = [NoFrame EXCEPT !.stage = "give", !.class = c,
                                                           !.taken = taken]]
         /\ lock' = [lock EXCEPT ![c] = t]

\* The n smallest of a set: which records are given up, or blocks drained, is immaterial.
Smallest(n, S) == ToSet(SubSeq(SetToSortSeq(S, <), 1, n))

\* popBlocksImpl on list, which is not empty, for class c: the records of an emptied
\* batch and group are no longer in use.
Pop(t, c, list, used) ==
    \E blocks \in Poppable(list, MaxCached) :
        LET popped == PopBlocks(list, blocks, 0)
            gone   == Smallest(0 - popped.used, used)
        IN  /\ freeList' = [freeList EXCEPT ![c] = popped.list]
            /\ records' = used \ gone
            /\ held' = [held EXCEPT ![c] = @ \cup blocks]
            /\ inUse' = [inUse EXCEPT ![c] = @ + Cardinality(blocks)]
            /\ EndOrGive(t, c, gone)

-----------------------------------------------------------------------------
(* popBlocks                                                               *)

PopBlocksOf(t, c) ==
    /\ At(t, "idle")
    /\ lock[c] = Nobody
    /\ freeList[c] # <<>>
    /\ Pop(t, c, freeList[c], records)
    /\ UNCHANGED <<regions, batchList, allocatedUser, cache, damaged>>

\* populateFreeList goes on in the current region of its class or gets one.
Populate(t, c) == IF currentRegion[c] # 0 THEN "carve" ELSE "stash"

FindEmpty(t, c) ==
    /\ At(t, "idle")
    /\ lock[c] = Nobody
    /\ freeList[c] = <<>>
    /\ lock' = [lock EXCEPT ![c] = t]
    /\ frame' = [frame EXCEPT ![t] = [NoFrame EXCEPT !.stage = Populate(t, c),
                                                     !.class = c, !.target = c]]
    /\ UNCHANGED <<regions, lists, damaged>>

-----------------------------------------------------------------------------
(* allocateRegion                                                          *)

\* As if the region stayed in the stash.
TakeStashed_Kept(t) ==
    /\ At(t, "stash")
    /\ IF stash = <<>>
       THEN frame' = [frame EXCEPT ![t].stage = "map"] /\ UNCHANGED stash
       ELSE /\ frame' = [frame EXCEPT ![t].stage = "enter", ![t].region = Last(stash)]
            /\ UNCHANGED stash
    /\ UNCHANGED <<possibleRegions, currentRegion, carved, minRegion, maxRegion,
                   lists, lock, damaged>>

TakeStashed(t) ==
    /\ At(t, "stash")
    /\ IF stash = <<>>
       THEN frame' = [frame EXCEPT ![t].stage = "map"] /\ UNCHANGED stash
       ELSE /\ frame' = [frame EXCEPT ![t].stage = "enter", ![t].region = Last(stash)]
            /\ stash' = Front(stash)
    /\ UNCHANGED <<possibleRegions, currentRegion, carved, minRegion, maxRegion,
                   lists, lock, damaged>>

\* Regions nobody has: neither a class, nor the stash, nor a call between the two.
InFlight(r) ==
    \E t \in Threads : frame[t].region = r \/ (At(t, "stow") /\ frame[t].region + 1 = r)

Unmapped ==
    {r \in Regions : possibleRegions[r] = Nobody /\ r \notin ToSet(stash) /\ ~InFlight(r)}

\* allocateRegionSlow maps the size of two regions: two regions when that is aligned,
\* else the one inside, and the rest is unmapped.
MapRegions(t) ==
    /\ At(t, "map")
    /\ \E r \in Unmapped :
         \E stage \in {"enter"} \cup (IF r + 1 \in Unmapped THEN {"stow"} ELSE {}) :
            frame' = [frame EXCEPT ![t].region = r, ![t].stage = stage]
    /\ UNCHANGED <<regions, lists, lock, damaged>>

\* map fails: popBlocks returns nothing.
MapFails(t) ==
    /\ At(t, "map")
    /\ frame[t].target = frame[t].class
    /\ frame' = [frame EXCEPT ![t] = NoFrame]
    /\ lock' = Unlocked(frame[t].class, t)
    /\ UNCHANGED <<regions, lists, damaged>>

\* For a record, getBatchClassBlock ends the process then.
ReportOutOfMemory(t) ==
    /\ At(t, "map")
    /\ frame[t].target # frame[t].class
    /\ frame' = [frame EXCEPT ![t].stage = "ended"]
    /\ UNCHANGED <<regions, lists, lock, damaged>>

\* The second region is stashed, or unmapped when the stash is full.
Stow(t) ==
    /\ At(t, "stow")
    /\ stash' = IF Len(stash) < MaxStashedRegions
                THEN Append(stash, frame[t].region + 1)
                ELSE stash
    /\ frame' = [frame EXCEPT ![t].stage = "enter"]
    /\ UNCHANGED <<possibleRegions, currentRegion, carved, minRegion, maxRegion,
                   lists, lock, damaged>>

\* The region becomes the class's: its bounds and the byte map tell so.
EnterRegion(t) ==
    LET r == frame[t].region
        c == frame[t].target
    IN  /\ At(t, "enter")
        /\ possibleRegions' = [possibleRegions EXCEPT ![r] = c]
        /\ minRegion' = [minRegion EXCEPT ![c] = Min({@, r})]
        /\ maxRegion' = [maxRegion EXCEPT ![c] = Max({@, r})]
        /\ currentRegion' = [currentRegion EXCEPT ![c] = r]
        /\ frame' = [frame EXCEPT ![t].stage = "carve", ![t].region = 0]
        /\ UNCHANGED <<stash, carved, lists, lock, damaged>>

-----------------------------------------------------------------------------
(* populateFreeList                                                        *)

\* The blocks that are carved next from the current region of class c.
NewBlocks(c) ==
    LET max == MaxNumBatches * (IF c = BatchClass THEN MaxCachedPerBatch ELSE MaxCached)
    IN  BlocksFrom(currentRegion[c], carved[c], Min({max, PerRegion(c) - carved[c]}))

\* As if the amount carved were kept when the region is left.
Carved_Kept(c, n) ==
    IF carved[c] + n = PerRegion(c)
    THEN currentRegion' = [currentRegion EXCEPT ![c] = 0] /\ UNCHANGED carved
    ELSE carved' = [carved EXCEPT ![c] = @ + n] /\ UNCHANGED currentRegion

\* A region with no room for another block is no longer the current one.
Carved(c, n) ==
    IF carved[c] + n = PerRegion(c)
    THEN /\ currentRegion' = [currentRegion EXCEPT ![c] = 0]
         /\ carved' = [carved EXCEPT ![c] = 0]
    ELSE /\ carved' = [carved EXCEPT ![c] = @ + n]
         /\ UNCHANGED currentRegion

\* What is pushed needs records first, and the call pops from it at the end.
Carve(t) ==
    LET c   == frame[t].target
        new == NewBlocks(c)
    IN  /\ At(t, "carve")
        /\ c \in Classes
        /\ frame' = [frame EXCEPT ![t].stage = "records", ![t].blocks = new,
                                  ![t].populates = TRUE]
        /\ Carved(c, Cardinality(new))
        /\ allocatedUser' = [allocatedUser EXCEPT ![c] = @ + Cardinality(new) * SizeOf[c]]
        /\ UNCHANGED <<stash, possibleRegions, minRegion, maxRegion, freeList, batchList,
                       inUse, held, records, cache, lock, damaged>>

\* The local cache takes a batch from the list of BatchClass and the call that needs
\* records goes on.
Refill(t, list) ==
    /\ batchList' = Batch!WithoutFront(list)
    /\ cache' = [cache EXCEPT ![t] = @ \cup Batch!FrontBlocks(list)]
    /\ inUse' = [inUse EXCEPT ![BatchClass] = @ + Cardinality(Batch!FrontBlocks(list))]
    /\ lock' = [lock EXCEPT ![BatchClass] = Nobody]

CarveBatchClass(t) ==
    LET new == NewBlocks(BatchClass) IN
    /\ At(t, "carve")
    /\ frame[t].target = BatchClass
    /\ Refill(t, Batch!PushBatchClassBlocks(batchList, new))
    /\ Carved(BatchClass, Cardinality(new))
    /\ allocatedUser' = [allocatedUser EXCEPT ![BatchClass] =
                            @ + Cardinality(new) * SizeOf[BatchClass]]
    /\ frame' = [frame EXCEPT ![t].stage = "records", ![t].target = frame[t].class]
    /\ UNCHANGED <<stash, possibleRegions, minRegion, maxRegion, freeList, held, records,
                   damaged>>

-----------------------------------------------------------------------------
(* pushBlocksImpl: the records it needs come from the local cache          *)

\* The records a push still lacks.
Needed(t) ==
    PushBlocks(freeList[frame[t].class], frame[t].blocks, 0).used
        - Cardinality(frame[t].taken)

TakeRecord(t) ==
    /\ At(t, "records")
    /\ Needed(t) > 0
    /\ cache[t] # {}
    /\ LET taken == Smallest(Min({Needed(t), Cardinality(cache[t])}), cache[t]) IN
       /\ cache' = [cache EXCEPT ![t] = @ \ taken]
       /\ frame' = [frame EXCEPT ![t].taken = @ \cup taken]
    /\ UNCHANGED <<regions, freeList, batchList, inUse, allocatedUser, held, records, lock,
                   damaged>>

RefillCache(t) ==
    /\ At(t, "records")
    /\ Needed(t) > 0
    /\ cache[t] = {}
    /\ lock[BatchClass] = Nobody
    /\ IF batchList # Batch!EmptyList
       THEN Refill(t, batchList) /\ UNCHANGED frame
       ELSE /\ lock' = [lock EXCEPT ![BatchClass] = t]
            /\ frame' = [frame EXCEPT ![t].stage = Populate(t, BatchClass),
                                      ![t].target = BatchClass]
            /\ UNCHANGED <<batchList, cache, inUse>>
    /\ UNCHANGED <<regions, freeList, allocatedUser, held, records, damaged>>

\* The blocks enter the list; popBlocks pops from what it has populated.
Commit(t) ==
    LET c    == frame[t].class
        list == PushBlocks(freeList[c], frame[t].blocks, 0).list
    IN  /\ At(t, "records")
        /\ Needed(t) <= 0
        /\ IF frame[t].populates
           THEN Pop(t, c, list, records \cup frame[t].taken)
           ELSE /\ freeList' = [freeList EXCEPT ![c] = list]
                /\ records' = records \cup frame[t].taken
                /\ inUse' = [inUse EXCEPT ![c] = @ - Cardinality(frame[t].blocks)]
                /\ frame' = [frame EXCEPT ![t] = NoFrame]
                /\ lock' = Unlocked(c, t)
                /\ UNCHANGED held
        /\ UNCHANGED <<regions, batchList, allocatedUser, cache, damaged>>

-----------------------------------------------------------------------------
(* pushBlocks                                                              *)

PushBlocksOf(t, c) ==
    /\ At(t, "idle")
    /\ lock[c] = Nobody
    /\ \E n \in 1 .. MaxCached : \E blocks \in kSubset(n, held[c]) :
          /\ held' = [held EXCEPT ![c] = @ \ blocks]
          /\ frame' = [frame EXCEPT ![t] = [NoFrame EXCEPT
                           !.stage = "records", !.class = c, !.target = c, !.blocks = blocks]]
    /\ lock' = [lock EXCEPT ![c] = t]
    /\ UNCHANGED <<regions, freeList, batchList, inUse, allocatedUser, records, cache,
                   damaged>>

\* The records that a pop left unused go into the local cache.  A full cache drains half
\* of its blocks into the list of BatchClass before.
GiveRecord(t) ==
    LET full  == Cardinality(cache[t]) = 2 * MaxCachedPerBatch
        drain == IF full THEN Smallest(MaxCachedPerBatch, cache[t]) ELSE {}
        block == Min(frame[t].taken)
        left  == frame[t].taken \ {block}
    IN  /\ At(t, "give")
        /\ full => lock[BatchClass] = Nobody
        /\ batchList' = IF full THEN Batch!PushBatchClassBlocks(batchList, drain)
                                ELSE batchList
        /\ inUse' = [inUse EXCEPT ![BatchClass] = @ - Cardinality(drain)]
        /\ cache' = [cache EXCEPT ![t] = (@ \ drain) \cup {block}]
        /\ IF left = {}
           THEN frame' = [frame EXCEPT ![t] = NoFrame] /\ lock' = Unlocked(frame[t].class, t)
           ELSE frame' = [frame EXCEPT ![t].taken = left] /\ UNCHANGED lock
        /\ UNCHANGED <<regions, freeList, allocatedUser, held, records, damaged>>

-----------------------------------------------------------------------------
(* releaseToOS and tryReleaseToOS                                          *)

\* As if every region were carved as far as the current one.
AllocatedGroupSize_Current(c, r) ==
    (IF currentRegion[c] # 0 THEN carved[c] ELSE PerRegion(c)) * SizeOf[c]

\* How much of a region holds blocks, to markFreeBlocks.
AllocatedGroupSize(c, r) ==
    (IF r = currentRegion[c] THEN carved[c] ELSE PerRegion(c)) * SizeOf[c]

\* A block as the offset in its region.
Offset(c, block) == ((block - 1) % GroupBlocks) * SizeOf[c]

FreeIn(c, group) == {Offset(c, b) : b \in UNION ToSet(group.batches)}

\* The page map of a region of class c (PageRelease.tla): one memory group.
Pages(c, r, free) ==
    INSTANCE PageRelease WITH
        GroupSize <- RegionSize, BlockSizes <- {SizeOf[c]}, MaxRegionSize <- RegionSize,
        BlockSize <- SizeOf[c], RegionSize <- AllocatedGroupSize(c, r), free <- free,
        todo <- {0}, PageMap <- [p \in 0 .. (RegionSize \div PageSize - 1) |-> 0],
        released <- {}, outcome <- "marking"

\* markFreeBlocks on one group; all blocks from the start of a region may be free, or
\* the last may be among them.
Marked(c, group) ==
    LET r     == group.base + 1
        free  == FreeIn(c, group)
        empty == [p \in Pages(c, r, free)!PagesInRange |-> 0]
    IN  IF NumBlocks(group) * SizeOf[c] = AllocatedGroupSize(c, r)
        THEN Pages(c, r, free)!MarkRangeAsAllCounted(empty, 0, AllocatedGroupSize(c, r))
        ELSE Pages(c, r, free)!MarkFreeBlocksInRegion(empty, free, TRUE)

\* The pages that releaseFreeMemoryToOS gives back after that.
FreedPages(c, group) ==
    LET map == Marked(c, group)
        r   == group.base + 1
        free == FreeIn(c, group)
    IN  {p \in DOMAIN map :
            map[p] \in {Pages(c, r, free)!CounterMask, Pages(c, r, free)!Expected(p)}}

\* Blocks in use that lie on the pages given back for a group.
DroppedWith(c, group) ==
    LET r == group.base + 1
        pages == FreedPages(c, group)
    IN  {b \in held[c] : RegionOf(b) = r /\
            \E p \in pages : Pages(c, r, {0})!Touches(Offset(c, b), p)}

\* The groups that a release may look at: with ForceAll every one, else those for which
\* the interval and the amounts pushed since the last time allow it.
Selections(c) ==
    IF allocatedUser[c] = inUse[c] * SizeOf[c] THEN {{}} ELSE SUBSET ToSet(freeList[c])

\* releaseToOSMaybe, from releaseToOS or tryReleaseToOS
Release(t, c) ==
    /\ At(t, "idle")
    /\ lock[c] = Nobody
    /\ \E chosen \in Selections(c) :
          damaged' = damaged \cup UNION {DroppedWith(c, g) : g \in chosen}
    /\ UNCHANGED <<regions, lists, lock, frame>>

-----------------------------------------------------------------------------
(* disable and enable                                                      *)

\* disable takes the locks of the classes one after the other, in the same order always.
LockClass(t) ==
    LET left == {c \in Classes : lock[c] # t}
        next == CHOOSE c \in left : TRUE
    IN  /\ At(t, "idle") \/ At(t, "disabling")
        /\ left # {}
        /\ lock[next] = Nobody
        /\ lock' = [lock EXCEPT ![next] = t]
        /\ frame' = [frame EXCEPT ![t].stage = "disabling"]
        /\ UNCHANGED <<regions, lists, damaged>>

\* BatchClass is last, since the other classes can use it; the locks of the stash and of
\* the byte map follow, which nobody waits for who has no class.
LockBatchClass(t) ==
    /\ At(t, "disabling")
    /\ \A c \in Classes : lock[c] = t
    /\ lock[BatchClass] = Nobody
    /\ lock' = [lock EXCEPT ![BatchClass] = t]
    /\ frame' = [frame EXCEPT ![t].stage = "disabled"]
    /\ UNCHANGED <<regions, lists, damaged>>

Enable(t) ==
    /\ At(t, "disabled")
    /\ lock' = [c \in AllClasses |-> Nobody]
    /\ frame' = [frame EXCEPT ![t] = NoFrame]
    /\ UNCHANGED <<regions, lists, damaged>>

-----------------------------------------------------------------------------

Ended == \E t \in Threads : At(t, "ended")

Step(t) ==
    \/ \E c \in Classes : PopBlocksOf(t, c) \/ FindEmpty(t, c) \/ PushBlocksOf(t, c)
                            \/ Release(t, c)
    \/ TakeStashed(t) \/ MapRegions(t) \/ MapFails(t) \/ ReportOutOfMemory(t)
    \/ Stow(t) \/ EnterRegion(t)
    \/ Carve(t) \/ CarveBatchClass(t)
    \/ TakeRecord(t) \/ RefillCache(t) \/ Commit(t) \/ GiveRecord(t)
    \/ LockClass(t) \/ LockBatchClass(t) \/ Enable(t)

Next ==
    \/ ~Ended /\ \E t \in Threads : Step(t)
    \/ Ended /\ UNCHANGED vars

Spec == Init /\ [][Next]_vars

-----------------------------------------------------------------------------
(* Properties.                                                             *)

\* The blocks carved so far of class c.
CarvedBlocks(c) ==
    UNION {BlocksFrom(r, 0, IF r = currentRegion[c] THEN carved[c] ELSE PerRegion(c)) :
              r \in {q \in Regions : possibleRegions[q] = c}}

ListBlocks(list) == UNION {UNION ToSet(g.batches) : g \in ToSet(list)}

\* iterateOverBlocks: every region between the least and the greatest of any class.
IteratedBlocks ==
    LET first == Min({minRegion[c] : c \in AllClasses})
        last  == Max({maxRegion[c] : c \in AllClasses})
    IN  UNION {BlocksFrom(r, 0, PerRegion(possibleRegions[r])) :
                  r \in {q \in first .. last : possibleRegions[q] \in Classes}}

\* Whatever calls overlap, a region has one owner: a class whose bounds reach over it, the
\* stash, or one call; a stashed region is stashed once; a walk over all regions finds
\* every block in use; and while all is disabled, as around fork, no call that the child
\* does not have keeps a region, blocks or a lock (allocateRegion, allocateRegionSlow,
\* iterateOverBlocks, disable).
RegionsOwnedOnce ==
    /\ Cardinality(ToSet(stash)) = Len(stash)
    /\ \A r \in Regions :
         Cardinality({t \in Threads : frame[t].region = r
                                        \/ (At(t, "stow") /\ frame[t].region + 1 = r)})
           + (IF r \in ToSet(stash) THEN 1 ELSE 0)
           + (IF possibleRegions[r] # Nobody THEN 1 ELSE 0) <= 1
    /\ \A r \in Regions : LET c == possibleRegions[r] IN
         c # Nobody => r \in minRegion[c] .. maxRegion[c]
    /\ UNION {held[c] : c \in Classes} \subseteq IteratedBlocks
    /\ \A t \in Threads : At(t, "disabled") =>
         \A u \in Threads \ {t} : frame[u] = NoFrame

\* Between two calls, or while one has the lock of its class, every carved block of a
\* class is at one place, and the counters give the bytes in the free list
\* (popBlocksImpl, pushBlocksImpl, populateFreeList and verifyAllBlocksAreReleasedTestOnly).
BlocksAccounted ==
    \A c \in Classes :
      LET moving  == UNION {frame[t].blocks : t \in {u \in Threads : frame[u].class = c}}
          pushing == UNION {frame[t].blocks : t \in
                               {u \in Threads : frame[u].class = c /\ ~frame[u].populates}}
          places  == <<held[c], ListBlocks(freeList[c]), moving>>
      IN  /\ \A i, j \in 1 .. 3 : i # j => places[i] \cap places[j] = {}
          /\ UNION Range(places) = CarvedBlocks(c)
          /\ inUse[c] = Cardinality(held[c] \cup pushing)
          /\ allocatedUser[c] = Cardinality(CarvedBlocks(c)) * SizeOf[c]

\* BatchClassUsedInFreeLists: one record for every group and one for every batch of it.
RecordsOf(list) == FoldLeft(LAMBDA n, g : n + 1 + Len(g.batches), 0, list)

\* The blocks of BatchClass are each at one place too: in its free list, in a local cache,
\* with a call that makes or drops a record, or in use as one record of the free lists,
\* and there are as many of those as the lists have groups and batches.  Its own list lies
\* in blocks that it has as free, so that nobody gets the memory of a record that stays
\* (getBatchClassBlock, CreateGroup, InsertBlocks, popBlocksImpl; pushBatchClassBlocks:
\* "This ensures that TransferBatch won't leak the address itself while it's still holding
\* other valid data").
RecordsAccounted ==
    LET taken  == UNION {frame[t].taken : t \in Threads}
        cached == UNION {cache[t] : t \in Threads}
        listed == Batch!ListedBlocks(batchList)
        places == <<listed, cached, taken, records>>
    IN  /\ \A i, j \in 1 .. 4 : i # j => places[i] \cap places[j] = {}
        /\ UNION Range(places) = CarvedBlocks(BatchClass)
        /\ inUse[BatchClass] = Cardinality(cached \cup taken \cup records)
        /\ Cardinality(cached) = FoldSet(LAMBDA t, n : n + Cardinality(cache[t]), 0, Threads)
        /\ Cardinality(records) = FoldSet(LAMBDA c, n : n + RecordsOf(freeList[c]), 0, Classes)
        /\ Batch!RecordBlocks(batchList) \subseteq listed

\* No page that is given back holds a byte of a block in use, also where a class is still
\* carving its region (releaseToOSMaybe, markFreeBlocks).
NoUsedPageDropped == damaged = {}
=============================================================================
