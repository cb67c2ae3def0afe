------------------------------ MODULE Region ------------------------------
(***************************************************************************)
(* One size class of the primary allocator (RegionInfo and the operations  *)
(* on it in primary64.h): the local caches of several threads pop and push *)
(* blocks, an empty free list is populated with newly mapped memory, and   *)
(* page releases borrow groups of the list while they work on them.        *)
(*                                                                         *)
(* A critical section of FLLock is one step; MMLock, which is held across  *)
(* several of them, is the variable mm.  The condition variable is that of *)
(* condition_variable_linux.cpp: "parking" is between the unlock and the   *)
(* futex call of wait, "asleep" inside it, "woken" after it, on the way    *)
(* back to FLLock.                                                         *)
(***************************************************************************)
EXTENDS BlockList

CONSTANTS
    Threads,
    NoThread,
    CondVars,          \* values of conditionVariableEnabled to consider
    MaxCached,         \* getMaxCached(Size), also what a local cache pops or pushes
    MaxNumBatches,
    BlockSize,
    MapSizeIncrement,
    RegionOffset,      \* RegionBeg, from the start of the reserved memory
    RegionSize

ASSUME RegionAssumption ==
    /\ NoThread \notin Threads
    /\ CondVars \subseteq BOOLEAN
    /\ MaxCached \in 1 .. MaxNumCached
    /\ {MaxNumBatches, BlockSize, MapSizeIncrement, RegionSize} \subseteq Nat \ {0}
    /\ RegionOffset \in Nat

VARIABLES
    condVar,        \* conditionVariableEnabled
    blockList,      \* FreeListInfo.BlockList
    inUse,          \* PoppedBlocks - PushedBlocks
    batchUsed,      \* BatchClass blocks used for the records
    isPopulating,   \* isPopulatingFreeList
    allocatedUser,
    mappedUser,
    exhausted,
    mm,             \* the thread that holds MMLock, or NoThread
    extracted,      \* GroupsToRelease of that thread
    held,           \* blocks in local caches or with clients
    pc,
    fresh,          \* the waiter whose V is still the Counter, or NoThread
    notified        \* LastNotifyAll equals Counter: nobody waited since then

lists == <<blockList, inUse, batchUsed>>
memory == <<allocatedUser, mappedUser, exhausted>>
condition == <<fresh, notified>>
vars == <<condVar, lists, isPopulating, memory, mm, extracted, held, pc, condition>>

\* Stages that hold MMLock.
Locked == {"recheck", "map", "fill", "populated", "extract", "merge", "disabled"}

\* Stages of a call that may still have to wait for it, or for the condition variable.
Waiting == {"lock", "claim", "claimed", "check", "parking", "asleep", "woken",
            "releasing"}

Stages == {"idle"} \cup Locked \cup Waiting

Init ==
    /\ condVar \in CondVars
    /\ blockList = <<>> /\ inUse = 0 /\ batchUsed = 0
    /\ isPopulating = FALSE
    /\ allocatedUser = 0 /\ mappedUser = 0 /\ exhausted = FALSE
    /\ mm = NoThread
    /\ extracted = <<>>
    /\ held = {}
    /\ pc = [t \in Threads |-> "idle"]
    /\ fresh = NoThread
    /\ notified = TRUE

-----------------------------------------------------------------------------
(* Helpers.                                                                *)

At(t, stage) == pc[t] = stage

Goto(t, stage) == pc' = [pc EXCEPT ![t] = stage]

\* SetFreeList(r): the free list and the records' blocks are those of r.
SetFreeList(r) == blockList' = r.list /\ batchUsed' = r.used

\* popBlocksImpl when the list has blocks.
Pop ==
    /\ blockList # <<>>
    /\ \E blocks \in Poppable(blockList, MaxCached) :
         /\ SetFreeList(PopBlocks(blockList, blocks, batchUsed))
         /\ inUse' = inUse + Cardinality(blocks)
         /\ held' = held \cup blocks

\* notifyAll together with thread t's own next stage.  The futex is woken unless
\* nobody has waited since the last time.
NotifyAllAndGoto(t, stage) ==
    /\ fresh' = NoThread
    /\ notified' = TRUE
    /\ pc' = [u \in Threads |->
                IF u = t THEN stage
                ELSE IF ~notified /\ pc[u] = "asleep" THEN "woken" ELSE pc[u]]

\* Without a condition variable there is nobody to notify.
AnnounceAndGoto(t, stage) ==
    IF condVar THEN NotifyAllAndGoto(t, stage)
               ELSE Goto(t, stage) /\ UNCHANGED condition

-----------------------------------------------------------------------------
(* popBlocks.                                                              *)

\* The first critical section: the list alone.
PopFromList(t) ==
    /\ At(t, "idle")
    /\ Pop
    /\ UNCHANGED <<condVar, isPopulating, memory, mm, extracted, pc, condition>>

FindEmpty(t) ==
    /\ At(t, "idle")
    /\ blockList = <<>>
    /\ Goto(t, IF condVar THEN "claim" ELSE "lock")
    /\ UNCHANGED <<condVar, lists, isPopulating, memory, mm, extracted, held, condition>>

TakeMMLock(t, from, to) ==
    /\ At(t, from)
    /\ mm = NoThread
    /\ mm' = t
    /\ Goto(t, to)
    /\ UNCHANGED <<condVar, lists, isPopulating, memory, extracted, held, condition>>

\* Without the condition variable: lock, look again, and only then map.
LockToPopulate(t) == TakeMMLock(t, "lock", "recheck")

Recheck(t) ==
    /\ At(t, "recheck")
    /\ \/ /\ Pop
          /\ mm' = NoThread
          /\ Goto(t, "idle")
       \/ /\ blockList = <<>>
          /\ Goto(t, "map")
          /\ UNCHANGED <<lists, held, mm>>
    /\ UNCHANGED <<condVar, isPopulating, memory, extracted, condition>>

\* What follows the population: with the condition variable the flag is still to be
\* cleared, under MMLock; without it the call returns.
LeavePopulation(t) ==
    IF condVar THEN Goto(t, "populated") /\ UNCHANGED mm
               ELSE Goto(t, "idle") /\ mm' = NoThread

\* Bytes that populateFreeListAndPopBlocks has to map first.
MapSize ==
    LET missing == allocatedUser + MaxCached * BlockSize - mappedUser
    IN  IF missing <= 0 THEN 0
        ELSE ((missing + MapSizeIncrement - 1) \div MapSizeIncrement) * MapSizeIncrement

\* populateFreeListAndPopBlocks, up to the free list.  The call returns no block when
\* the region is exhausted, which may be found out here, or when remap fails.
Map(t) ==
    /\ At(t, "map")
    /\ \/ /\ exhausted
          /\ LeavePopulation(t)
          /\ UNCHANGED <<mappedUser, exhausted>>
       \/ /\ ~exhausted
          /\ MapSize > 0
          /\ RegionOffset + mappedUser + MapSize > RegionSize
          /\ exhausted' = TRUE
          /\ LeavePopulation(t)
          /\ UNCHANGED mappedUser
       \/ /\ ~exhausted
          /\ MapSize > 0
          /\ RegionOffset + mappedUser + MapSize <= RegionSize
          /\ LeavePopulation(t)
          /\ UNCHANGED <<mappedUser, exhausted>>
       \/ /\ ~exhausted
          /\ MapSize > 0 => RegionOffset + mappedUser + MapSize <= RegionSize
          /\ mappedUser' = mappedUser + MapSize
          /\ Goto(t, "fill")
          /\ UNCHANGED <<exhausted, mm>>
    /\ UNCHANGED <<condVar, lists, isPopulating, allocatedUser, extracted, held, condition>>

\* The blocks that the next population adds to the list.
NewBlocks ==
    LET first == allocatedUser \div BlockSize + 1
        count == Min({MaxNumBatches * MaxCached,
                      (mappedUser - allocatedUser) \div BlockSize})
    IN  first .. first + count - 1

\* The rest, in one critical section: push the new blocks, and pop.  Nobody is notified
\* yet.
Fill(t) ==
    LET pushed == PushBlocks(blockList, NewBlocks, batchUsed)
    IN  /\ At(t, "fill")
        /\ \E blocks \in Poppable(pushed.list, MaxCached) :
             /\ SetFreeList(PopBlocks(pushed.list, blocks, pushed.used))
             /\ inUse' = inUse + Cardinality(blocks)
             /\ held' = held \cup blocks
        /\ allocatedUser' = allocatedUser + BlockSize * Cardinality(NewBlocks)
        /\ LeavePopulation(t)
        /\ UNCHANGED <<condVar, isPopulating, mappedUser, exhausted, extracted, condition>>

-----------------------------------------------------------------------------
(* popBlocksWithCV.                                                        *)

\* One thread populates, and takes MMLock for that; it does not look at the list again.
Claim(t) ==
    /\ At(t, "claim")
    /\ IF isPopulating THEN Goto(t, "check") /\ UNCHANGED isPopulating
                       ELSE Goto(t, "claimed") /\ isPopulating' = TRUE
    /\ UNCHANGED <<condVar, lists, memory, mm, extracted, held, condition>>

LockClaimed(t) == TakeMMLock(t, "claimed", "map")

\* As if only a population that leaves blocks behind notified.
Populated_Quiet(t) ==
    /\ At(t, "populated")
    /\ isPopulating' = FALSE
    /\ IF blockList = <<>> THEN Goto(t, "idle") /\ UNCHANGED condition
                          ELSE NotifyAllAndGoto(t, "idle")
    /\ mm' = NoThread
    /\ UNCHANGED <<condVar, lists, memory, extracted, held>>

\* The populating thread is done, with blocks or without.
Populated(t) ==
    /\ At(t, "populated")
    /\ isPopulating' = FALSE
    /\ NotifyAllAndGoto(t, "idle")
    /\ mm' = NoThread
    /\ UNCHANGED <<condVar, lists, memory, extracted, held>>

\* The others look again, and wait while somebody still populates.
Check(t) ==
    /\ At(t, "check")
    /\ \/ /\ Pop
          /\ Goto(t, "idle")
          /\ UNCHANGED condition
       \/ /\ blockList = <<>>
          /\ ~isPopulating
          /\ Goto(t, "claim")
          /\ UNCHANGED <<lists, held, condition>>
       \/ /\ blockList = <<>>
          /\ isPopulating
          /\ Goto(t, "parking")
          /\ fresh' = t
          /\ notified' = FALSE
          /\ UNCHANGED <<lists, held>>
    /\ UNCHANGED <<condVar, isPopulating, memory, mm, extracted>>

\* The futex call: it returns at once when the Counter has moved on.
Park(t) ==
    /\ At(t, "parking")
    /\ Goto(t, IF fresh = t THEN "asleep" ELSE "woken")
    /\ UNCHANGED <<condVar, lists, isPopulating, memory, mm, extracted, held, condition>>

\* A futex call may return for no reason.
WakeSpuriously(t) ==
    /\ At(t, "asleep")
    /\ Goto(t, "woken")
    /\ UNCHANGED <<condVar, lists, isPopulating, memory, mm, extracted, held, condition>>

PopAfterWait(t) ==
    /\ At(t, "woken")
    /\ \/ /\ Pop
          /\ Goto(t, "idle")
       \/ /\ blockList = <<>>
          /\ Goto(t, "claim")
          /\ UNCHANGED <<lists, held>>
    /\ UNCHANGED <<condVar, isPopulating, memory, mm, extracted, condition>>

-----------------------------------------------------------------------------
(* pushBlocks: a local cache gives back some of the blocks it holds.       *)

Push(t) ==
    /\ At(t, "idle")
    /\ \E n \in 1 .. MaxCached : \E blocks \in kSubset(n, held) :
         /\ SetFreeList(PushBlocks(blockList, blocks, batchUsed))
         /\ inUse' = inUse - Cardinality(blocks)
         /\ held' = held \ blocks
    /\ AnnounceAndGoto(t, "idle")
    /\ UNCHANGED <<condVar, isPopulating, memory, mm, extracted>>

-----------------------------------------------------------------------------
(* releaseToOS, tryReleaseToOS and releaseToOSMaybe.                       *)

\* releaseToOS waits for MMLock; tryReleaseToOS only goes on when it is free.
ReleaseToOS(t) ==
    /\ At(t, "idle")
    /\ Goto(t, "releasing")
    /\ UNCHANGED <<condVar, lists, isPopulating, memory, mm, extracted, held, condition>>

LockToRelease(t) == TakeMMLock(t, "releasing", "extract")

TryReleaseToOS(t) == TakeMMLock(t, "idle", "extract")

BytesInFreeList == allocatedUser - inUse * BlockSize

\* There is nothing in the free list, or too little was pushed since the last release, or
\* that was too recently.  The sizes and times compared may be any.
SkipRelease(t) ==
    /\ mm' = NoThread
    /\ Goto(t, "idle")
    /\ UNCHANGED <<blockList, extracted>>

\* The groups that a release may choose: with ForceAll every one, else those with enough
\* blocks pushed since their last checkpoint and, of small blocks, dense enough.
Selections == SUBSET {g.base : g \in ToSet(blockList)}

\* The groups of the list that are among bases, in its order.
GroupsAt(bases) ==
    FoldLeft(LAMBDA list, g : IF g.base \in bases THEN Append(list, g) ELSE list,
             <<>>, blockList)

\* The chosen groups leave the list.
TakeGroups(chosen) ==
    /\ extracted' = GroupsAt(chosen)
    /\ blockList' = GroupsAt({g.base : g \in ToSet(blockList)} \ chosen)

\* releaseToOSMaybe up to the marking, in one critical section of FLLock.
Extract(t) ==
    /\ At(t, "extract")
    /\ \/ SkipRelease(t)
       \/ /\ BytesInFreeList # 0
          /\ \E chosen \in Selections \ {{}} : TakeGroups(chosen)
          /\ Goto(t, "merge")
          /\ UNCHANGED mm
    /\ UNCHANGED <<condVar, inUse, batchUsed, isPopulating, memory, held, condition>>

\* After the marking and the release of pages (PageRelease.tla), or without them when
\* the page map cannot be allocated, the groups return.
Merge(t) ==
    /\ At(t, "merge")
    /\ SetFreeList(MergeBack(blockList, extracted, batchUsed))
    /\ extracted' = <<>>
    /\ AnnounceAndGoto(t, "idle")
    /\ mm' = NoThread
    /\ UNCHANGED <<condVar, inUse, isPopulating, memory, held>>

-----------------------------------------------------------------------------
(* disable and enable.                                                     *)

\* MMLock and then FLLock, for malloc_disable and for fork.
Disable(t) == TakeMMLock(t, "idle", "disabled")

Enable(t) ==
    /\ At(t, "disabled")
    /\ mm' = NoThread
    /\ Goto(t, "idle")
    /\ UNCHANGED <<condVar, lists, isPopulating, memory, extracted, held, condition>>

\* FLLock is held beyond a step.
Disabled == \E t \in Threads : At(t, "disabled")

-----------------------------------------------------------------------------

PopStep(t) ==
    \/ PopFromList(t) \/ FindEmpty(t) \/ LockToPopulate(t) \/ Recheck(t)
    \/ Map(t) \/ Fill(t)
    \/ Claim(t) \/ LockClaimed(t) \/ Populated(t) \/ Check(t) \/ PopAfterWait(t)

FutexStep(t) == Park(t) \/ WakeSpuriously(t)

ReleaseStep(t) ==
    \/ ReleaseToOS(t) \/ LockToRelease(t) \/ TryReleaseToOS(t) \/ Extract(t) \/ Merge(t)

Next ==
    \E t \in Threads :
        \/ ~Disabled /\ (PopStep(t) \/ Push(t) \/ ReleaseStep(t))
        \/ FutexStep(t)
        \/ Disable(t) \/ Enable(t)

Spec == Init /\ [][Next]_vars

-----------------------------------------------------------------------------
(* Properties.                                                             *)

BlocksOf(group) == UNION ToSet(group.batches)

\* The groups in the list and those a release has taken from it.
AllGroups == blockList \o extracted

FreeBlocks == UNION {BlocksOf(g) : g \in ToSet(AllGroups)}

\* The blocks that a group records, and those that a list does, counted batch by batch.
CountBlocks(group) == FoldLeft(LAMBDA n, b : n + Cardinality(b), 0, group.batches)

TotalBlocks(list) == FoldLeft(LAMBDA n, g : n + CountBlocks(g), 0, list)

\* Whatever pushes, pops, populations and releases overlap, every block carved from the
\* region is at one place: with a local cache or client, or once in one batch of one
\* group; the counters give the bytes in the free list, borrowed groups included; and a
\* fork, which disables the region, gives the child a list from which nothing is borrowed
\* (pushBlocksImpl, popBlocksImpl, populateFreeListAndPopBlocks, mergeGroupsToReleaseBack,
\* releaseToOSMaybe's BytesInFreeList, disable).
BlocksAccounted ==
    /\ held \cap FreeBlocks = {}
    /\ held \cup FreeBlocks = 1 .. (allocatedUser \div BlockSize)
    /\ TotalBlocks(AllGroups) = Cardinality(FreeBlocks)
    /\ BytesInFreeList = TotalBlocks(AllGroups) * BlockSize
    /\ Disabled => extracted = <<>>

\* Groups are in order, one each, both in the list and among those extracted; only the
\* first batch of a group has room and none is empty, so that NumBlocks, from which the
\* release decides that a whole group is free, counts the blocks
\* (collectGroupsToRelease, markFreeBlocks, mergeGroupsToReleaseBack).
GroupsInOrder ==
    /\ \A l \in {blockList, extracted} : \A i, j \in 1 .. Len(l) :
         i < j => l[i].base < l[j].base
    /\ \A g \in ToSet(AllGroups) :
         /\ \A b \in BlocksOf(g) : GroupOf(b) = g.base
         /\ {} \notin ToSet(g.batches)
         /\ NumBlocks(g) = Cardinality(BlocksOf(g))

\* A group and its batches are records, each in a block of BatchClass.
RecordsOf(group) == 1 + Len(group.batches)

\* The BatchClass blocks taken for groups and batches are those in use as such: none is
\* lost or given back twice (CreateGroup, InsertBlocks, popBlocksImpl and the recycling in
\* mergeGroupsToReleaseBack; verifyAllBlocksAreReleasedTestOnly counts the same).
RecordsAccounted ==
    batchUsed = FoldLeft(LAMBDA n, g : n + RecordsOf(g), 0, AllGroups)

\* A thread that sleeps on the condition variable, or is about to, is still to be woken:
\* somebody populates the list and will notify, and that notifyAll will not be skipped
\* (popBlocksWithCV, notifyAllImpl and waitImpl).
NoLostWakeup ==
    (\E t \in Threads : pc[t] = "asleep" \/ (pc[t] = "parking" /\ fresh = t))
      => /\ isPopulating
         /\ ~notified
         /\ \E t \in Threads : pc[t] \in {"claimed", "map", "fill", "populated"}
=============================================================================
