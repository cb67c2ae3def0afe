# A TLA+ development of the Scudo fork with shared per-core arenas

The repository is a fork of the Scudo hardened allocator. On Linux its secondary
allocator (large blocks) first tries *shared arenas*: one region of memory per core
that several processes map, each with a spin lock, a bump offset and an intrusive
free list, and with a log ring per process that the kernel reads. What the arenas do
not provide comes from the cache of mappings and from `mmap`, as upstream.

The modules here model the code of `src/`, TLC checks them on small instances, and
TLAPS proves some of their invariants for every instance. `PROJECT.json` maps every
definition to the lines it stands for, lists the runs, the mutants (a changed
definition under which each property must fail), the hazards and the theorems.

## 1. The system

| Component | State | Operations | What makes it correct |
|---|---|---|---|
| SharedArena (`shared_arena*.{h,cpp}`) | per arena: `Lock`, `BumpOffsetInPages`, free list head and count, block headers in free pages; all of it shared memory | `retrieve`, `store`, `init`, `reset` | no page has two owners, none disappears silently, the lock is held by one thread, two locks do not deadlock, the kernel's log tells which pages are allocated |
| Log ring | `Head` (kernel), `Tail`, entries, `Dropped`, cached copies of both counters | `appendLogPagesLocked`, the kernel's consumption | a bounded first-in first-out queue, refusing only when full |
| SharedArenaPool | ready flag, owner pid, pressure threshold, mapping of all arenas | `init`, `shouldUseArena`, `refreshAfterFork`, `arenaForAddr`, `getCurrentArena` | addresses are routed to the arena that owns them, in parent and child |
| MapAllocator (`secondary.h`) | `InUseBlocks`, header in front of every block | `allocate`, `deallocate`, `disable`/`enable` | every block has one keeper |
| MapAllocatorCache (`secondary.h`) | LRU list over an array, quarantine, `OldestTime`, options | `retrieve`, `store`, `releaseOlderThan`, `setOption`, `disableMemoryTagging` | entries neither lost nor duplicated, never more than the array, released memory is zero, the client's memory stays accessible |
| SizeClassAllocator64 (`primary64.h`) | per class: free list of groups of batches, `PoppedBlocks`/`PushedBlocks`, `AllocatedUser`, `MappedUser`, `Exhausted`, release bookkeeping, `FLLock`, `MMLock`, condition variable | `popBlocks`, `pushBlocks`, `populateFreeListAndPopBlocks`, `releaseToOSMaybe` | no block twice, none lost, waiters wake up |
| Release to the OS (`release.h`) | packed page counters | `markFreeBlocksInRegion`, `markRangeAsAllCounted`, `releaseFreeMemoryToOS` | exactly the pages without a block in use are released |
| HybridMutex (`mutex.h`, `linux.cpp`) | futex word | `tryLock`, `lock`, `unlock` | exclusion, no lost wake-up |
| Condition variable (`condition_variable_linux.cpp`) | `Counter`, `LastNotifyAll` | `wait`, `notifyAll` | no lost wake-up |
| SizeClassAllocator32 (`primary32.h`) | per class: free list, current region and how far it is carved, bounds; for all: `RegionsStash`, byte map, each with a lock | `popBlocks`, `pushBlocks`, `allocateRegion`, `releaseToOS`, `disable`/`enable` | a region has one owner, a record of a free list is one live block of BatchClass |
| Local cache (`local_cache.h`) | an array of blocks per class and TSD | `allocate`, `deallocate`, `refill`, `drain` | half goes out and half stays, no block in both halves |
| Quarantine (`quarantine.h`) | a list of batches per TSD and a global one, with byte counters; `CacheMutex`, `RecycleMutex` | `put`, `drain`, `recycle`, `mergeBatches` | counters are the sum of what is listed, a chunk is recycled once |
| TSD registries (`tsd_exclusive.h`, `tsd_shared.h`) | thread state, the fallback TSD, `Disabled`; the array of shared TSDs | `initThreadMaybe`, `getTSDAndLock`, `teardownThread`, `drainCaches`, `disable`/`enable` | one thread in a TSD, a thread that exits leaves nothing in its own |
| Combined allocator (`combined.h`, `chunk.h`) | the chunk headers, the offset marker at the start of a block | `allocate`, `reallocate`, `deallocate`, `disable`/`enable`, `iterateOverChunks`, `isOwned` | a chunk fits its block and keeps its state, a disabled heap is still and complete |
| Stack depot (`stack_depot.h`) | hash table and ring without a lock | `insert`, `find` | see section 6 |

Interactions. A call to `MapAllocator::allocate` asks the pool for the arena of the
current core and calls its `retrieve`; on failure it asks the cache, then maps.
`deallocate` unlinks the block from `InUseBlocks` and gives it to the owning arena
(`store`, with a second lock when the thread now runs on another core), to the cache or
to `munmap`. Arenas and log rings meet in `appendLogPagesLocked`, called under the lock
of the arena whose ring it is. The kernel reads the rings without any lock. The other
locks are HybridMutexes of one process; after `fork` they are private again while the
arenas stay shared.

Above the secondary, `malloc` takes a TSD, which is the thread's own or one that it
locks, pops a block from its local cache, which asks the primary for more, or maps one
in the secondary. `free` marks the header and puts the chunk into the quarantine of the
TSD; when that is full it goes to the global one, and whoever gets `RecycleMutex` frees
the oldest chunks into its own cache. `malloc_disable`, also called around `fork`, takes
the locks of all these in one order.

Hard behaviours: several processes in one critical section; two locks taken in an
order; a ring that fills between two reads of `Head`; rolling a retrieve back through
three different paths; death in a critical section; `MaxEntriesCount` and memory tagging
changing between two steps of a store; release by counting; futex wake-ups; a process
that dies while it formats an arena; a forked child with lists into shared memory; records
of a free list that live in blocks of another one; destructors that allocate. They are
listed at their lines under `hazards`.

## 2. Modules

| Module | Models | State and actions against the code |
|---|---|---|
| `ArenaGeometry` | constants of the arenas | pages, runs, blocks |
| `FreeList` | the intrusive list | `Walk`/`BestFit` (scan, with the reaction to a corrupt node), `Take` (perfect fit or tail cut), `PutBack` (the rollbacks), `FindPlace`, `Link`, `MergeNext`, `MergePrev`, each the code between two comments of `retrieve` or `store` |
| `SharedArena` | `retrieve` and `store` of several threads and processes | one action per stage under the lock (`R_Lock`, `R_Scan`, `R_TakeFree`, ... `S_Lock1`, `S_Lock2`, `S_Log`, ... `S_Merge`), `Crash`, `Consume` |
| `PageArena` | what they promise, with sets of pages | `Obtain`, `GiveBack`, and the two ways to lose a block, `Misplace` and `Forget` |
| `LogRing` | the ring, access by access | `A_Check` (cached head), `A_Reread`, `A_LastLook` after `sched_yield`, `A_Write`, `A_Publish`, the kernel's `K_Copy` and `K_Advance` |
| `BoundedLog` | what the ring promises | a queue |
| `ForkedHeap` | the pool and the list of blocks in use, across processes | `Unlink`, `Open`, `CompareVersion`, `Format`, `Wait`, `RegisterRing`, `Finish` are the steps of both `init`s on the names in `/dev/shm` and on `Version`; `Refresh`, `Fork`, `Die`; `AllocateFromArena`, `AllocatePrivate` and `Deallocate` with `PushBack` and `Unchained`, which are `DoublyLinkedList::push_back` and `remove` with its checks |
| `HybridMutex` | the Linux mutex | one action per atomic access or futex call |
| `MapCache` | `MapAllocator` with cache and quarantine | `A_*` allocate, `D_*` deallocate, `S_*` the stages of `store`, `SetMaxEntries`, `SetInterval`, `ReleaseToOS`, `DisableCacheTagging`, `ClearTaggingOption` |
| `BlockList` | the free list of a region: groups of batches | `PushBlocks`, `PopBlocks`, `MergeBack` are `pushBlocksImpl`, `popBlocksImpl`, `mergeGroupsToReleaseBack`; each also counts the BatchClass blocks that it takes for records or gives back |
| `BatchList` | the free list of BatchClass, whose records lie in its own blocks | `PushBatchClassBlocks`, `FrontBlocks`, `WithoutFront` |
| `Region` | one size class of the 64-bit primary | one action per critical section of `FLLock`, with `MMLock` a variable: `PopFromList`, `Recheck`, `Map`, `Fill` for `popBlocks` and the population; `Claim` to `PopAfterWait` for `popBlocksWithCV`; `Push`; `Extract`, `Merge` for a release, which `SkipRelease` ends early; `Disable`, `Enable` |
| `PageRelease` | `markFreeBlocks` and `releaseFreeMemoryToOS` | `MarkGroup` for every group, `Release` for the sweep, whose range tracker is `ProcessNextPage`; `MapFails` when there is no memory for the counters |
| `Primary32` | several size classes of the 32-bit primary with BatchClass | `PopBlocksOf`, `FindEmpty`, `TakeStashed`, `MapRegions`, `Stow`, `EnterRegion`, `Carve` for `popBlocks` down to `allocateRegion`; `PushBlocksOf`, `TakeRecord`, `RefillCache`, `Commit`, `GiveRecord` for a push and the records it needs; `Release`; `LockClass`, `LockBatchClass`, `Enable` |
| `SizeClassMap` | `FixedSizeClassMap` | sizes, classes and `MaxCount` by the constants of a configuration |
| `ChunkLayout` | where a chunk lies in its block, what its header says, `findNearestBlock` | operators |
| `QuarantineCache` | batches and the list of a quarantine | `Enqueue`, `Transfer`, `MergeBatches`, `DequeueDownTo`, `Extract` |
| `Frontend` | the combined allocator with the local caches, the quarantine and either TSD registry | sections of the module are sections of `combined.h`: `InitOnce`, `AttachExclusive`, `AttachShared`; `TakeOwn` to `TakeCandidate` for `getTSDAndLock`; `Pop` and `Map` for `allocate`; `Mark`, `Push`, `Unmap`, `Resize`; `Put` to `Scrub` for the quarantine; `DrainCaches`, `TeardownThread`, `Flush`, `Unlink`; `Disabling`, one lock in each step, and `Enable` |
| `MC*` | instances | constants for TLC |
| `*_proofs` | theorems | see section 4 |

Composition. `SharedArena` works with `FreeList` on one arena's list and takes of the
ring only the number of unread entries: that an append is one step that
succeeds exactly when fewer than `RingCapacity` entries are unread is what `LogRing`
refines `BoundedLog` for. `SharedArena` refines `PageArena`: a retrieve takes effect
when its entry is logged, a store when its block is linked, and everything else
(scans, cuts that are rolled back, merges) is a stutter. `ForkedHeap` uses that:
in it `retrieve` and `store` are atomic. `Primary32` is composed of `BlockList` for the lists of
the clients' classes, `BatchList` for that of BatchClass, and `PageRelease` for the pages
that a release gives back. `Frontend` is composed of `ChunkLayout` over `SizeClassMap`
and of `QuarantineCache`; the inside of its primary is `Region`.

Abstractions. A lock release belongs to the step before it, the last one that touches
what the lock protects. The range checks at the start of `store` are true for blocks a
process got from `retrieve`, the only ones stored. Memory is counted in units of a
quarter of a page in `SharedArena` and `MapCache`, and of `MinAlignment` in
`ChunkLayout`, so that headers, sizes and
alignments compete for space as they do in bytes. The branch that drops a corrupt free
list is in `FreeList` as the code has it, but no legal client makes a header corrupt and
the runs do not reach it. In
`BlockList` a batch is the set of its blocks, since `shuffle` and the clients decide the
order in it; a pop takes any of them. Its fold over a set of blocks stands for a loop over
an array sorted by group. In `Region` the BatchClass blocks are counted, not named; in
`Primary32` they are blocks like others, and the process ends (`Ended`) when none can be
had for a record. A release may pick any
of the groups, which covers the thresholds, the interval, the forced release and the
fragmentation report; the condition variable's counter is reduced to what its users
compare: whether it moved since the wait began (`fresh`) and since the last `notifyAll`
(`notified`). In `MapCache` a block is a model value with a size, time is a
small counter, an entry that the cache walks past without change leaves no trace, and
`MaxEntriesCount` stays positive. In
`PageRelease` the counters are not packed into words; `CountersHold` says that none
outgrows its bits, which is what packing needs.
In `Frontend` the blocks of a class are interchangeable, so that local caches and
the primary are sets that hand out the lowest blocks, and the caller of a free holds
the chunk: programs make no invalid call. `Stats`' list is the set of linked TSDs. In
`ForkedHeap` a process has one thread, a block is a slot of its arena, and whether memory
pressure sends an allocation to the arena or elsewhere is open at every call.

## 3. Runs

| Run | Instance | Question |
|---|---|---|
| `arena_cores` | 2 processes with a thread each, 2 arenas of 2 pages, rings of 1 entry | exclusion, order of two locks, early unlock, refusal, rollback, accounting of pages and log under every interleaving |
| `arena_list` | 1 thread, 1 arena of 6 pages, blocks of 1 and 2 pages | every fragmentation that six pages allow: perfect fit, tail cut, rollback of both, merges with either neighbour or both; refinement of `PageArena` |
| `arena_progress` | 2 processes, one without a free list and mortal, 2 arenas of 1 page | refinement with both kinds of process, and `CallsFinish` |
| `log_ring` | capacity 4, counters modulo 8 | counters wrap several times, the cached head lags by up to a full ring |
| `hybrid_mutex` | 4 threads, spurious wake-ups | a holder, two sleepers and a barging thread: the smallest number at which a lost wake-up can hide behind another waiter |
| `map_cache` | 2 threads, 3 blocks of a page and one too large to be cached, up to 3 entries, 1 quarantine slot, settings changing | one keeper per block, zeroed memory, accessibility, how far `OldestTime` can lag, order of the LRU list |
| `page_release` | pages of 8 units, groups of 16, regions up to 48, 8 block sizes | every subset of free blocks of every region; sizes that divide a page, that straddle with a constant or a varying number per page, and that exceed a page |
| `region` | 3 threads, with and without the condition variable; 7 blocks in groups of 5 and 2, batches of 3, pops and pushes of up to 2; one mapping succeeds, the second finds the region full | blocks, records and counters accounted for, list in order, no waiter forgotten, under every overlap of pops, pushes, population, exhaustion, releases and disable |
| `primary32` | 2 threads, 2 classes and BatchClass, 4 regions of 3 pages with 2, 1 and 4 blocks, a stash of 1 | regions, blocks and records have one owner while calls overlap in the stash and in BatchClass; pages dropped from half-carved regions |
| `frontend` | 2 threads, 2 classes and one block of the secondary, 6 programs with either registry | blocks in one place, byte counts, layout, teardown in two rounds of destructors, disable against every other call |
| `forked_heap` | 2 processes that start or fork, 2 arenas with a block each, 1 private block, up to 2 objects per name, death at every step | format race, refresh after fork; forks only while no arena block is in use |
| `forked_list` | the same, forks at any time | the finding of section 5 |

Bounds. Two threads are enough for pairs of steps to interleave, and for two locks taken
in opposite orders; the theorem about lock order covers more. Rings of one entry make
refusal as common as success. Six pages give a list of three blocks with gaps, so that
insertion finds a place at the head, in the middle and at the end. Up to three cache
entries, with counts of 1 and of more than the array, make the cap, evictions and a count that
falls two below the number of entries happen; three cached blocks for one quarantine slot are
one that sets `OldestTime` and one more than a right `OldestTime` can leave behind. That they
have one size leaves `retrieve`'s choice between sizes to its definition, which no property of
this run depends on. A group of five blocks with batches of three reaches each
way to merge two partial batches, and the second population crosses into the next group;
three threads are one that populates, one that waits and one that pushes or releases. With
two groups, a group is never inserted between two others; the operator is the same.
The region's run uses a `RegionOffset` of one, so that the limit of the region is not the
limit of what is mapped. Three groups in `page_release` include one with a group on either
side. Four regions for three classes leave one for the stash or for a class that has used
up its first; the block sizes leave room at the end of a region that no block fills. In
`frontend` a class of three blocks with a cache of two makes a cache drain into and refill
from an empty primary; the quarantine holds two chunks, its batches three, so that it
recycles, merges and runs out of memory for a batch; chunks of 1 unit, aligned or not, and
of 9 take a block of either class, or of the secondary. Each of the six programs has one
thread make some calls and the other some others, all orders of them, without end. Two
objects under one name are one that a new process unlinks while the other is in use.
Deadlock is checked except in `arena_progress` and the runs of `ForkedHeap`, where
processes may die while others wait for them, and in `page_release`, an algorithm that ends.

Fairness. `arena_progress` assumes that a running thread takes its next step (`WF` on the
stages of each thread, a dead one has none). A spin lock promises its waiters nothing more,
so the property assumes that calls stop arriving; it also assumes that no process dies in a
critical section, since the lock word records no owner (`shared_arena_linux.cpp:521`).
`hybrid_mutex` assumes the same for the atomic accesses of each thread and nothing of the
kernel but that a wake-up wakes somebody; spurious wake-ups have no fairness.
`ForkedHeap` assumes that a thread inside `init` runs on until it returns: it waits for
nothing but `Version`.

What the properties say:

- `PagesAccounted`, `LogAgrees`, `ListIntact`, `KeepsPromise`: pages below the bump offset
  are listed, held, on their way or lost for a named reason; the log entries of all rings
  add up to the blocks that are out; the list is sorted, doubly linked, merged.
- `CacheNeverOverstates`, `ImplementsLog`: the stale head errs towards full only.
- `OneKeeper`, `ReleasedIsZero`, `ClientMemoryIntact`, `EarlyReturnSkipsFew`, `LruSorted`:
  a mapping has one keeper at every step; an entry marked released holds zeros; the client's block is never inaccessible or zeroed under it, also
  while tagging is being switched off. When `releaseOlderThan` returns
  at its first test, the old entries it leaves are at most as many as the quarantine has slots:
  a block that enters the quarantine sets `OldestTime` when it is 0, although older ones stand
  there, and with its one slot the run reaches one such entry. Without a quarantine
  there are none. The list is sorted by time, as the comment at `secondary.h:343` wants it.
- `Region`'s `BlocksAccounted`, `GroupsInOrder`, `RecordsAccounted`, `NoLostWakeup`: every block carved
  from the region is out or once in the list or among the borrowed groups, and the counters
  give exactly these bytes; the count `(batches - 1) * MaxCachedPerBatch + front`, on
  which the release relies, is right, since only front batches are partial; the records'
  memory is neither leaked nor returned twice; a sleeper has somebody who will wake it,
  and whose `notifyAll` is not skipped. That stands in for liveness: the mutexes
  promise no fairness to a thread that competes for `MMLock` with endless calls.
- `ReleasesOnlyFree`, `ReleasesAllFree`, `CountersHold`: the counts of three different
  marking paths agree with the expectation of the sweep, page by page. The one page that
  may be missed is the last one of a region whose last block begins in an earlier group.
- `RegionsOwnedOnce`, `Primary32`'s `BlocksAccounted` and `RecordsAccounted`,
  `NoUsedPageDropped`: a region on its way from the system or the stash
  into a class is in one place; a walk over all regions finds every block; the records in use
  are as many as the lists have groups and batches, and those of the BatchClass list lie
  in free blocks; a release that takes a half-carved region for a whole one would show.
- `Frontend`'s `BlocksAccounted`, `QuarantineConsistent`, `ChunksFit`, `OneThreadInTSD`,
  `NothingStranded`, `StillWhileDisabled`, `IterationSeesLive`, `NoCrossedLocks`: a block is free, cached,
  quarantined, a batch, held or in one call's hands; the quarantine's bytes are those of its chunks, all
  of them marked so; a chunk keeps inside its block through `realloc`, and reports find it; the cache and the quarantine
  part of a TSD, which have no locks of their own, have one user; a thread that is gone
  left nothing in its TSD; while the heap is disabled nothing moves, an iteration sees every
  chunk of the program, and no order of locks crosses that of `disable`.
- `NoBlockTwice`, `BorrowersAreReady`, `InitFinishes`: no late initialiser formats an arena under its users; whoever
  has arena blocks has them mapped, formatted and logged by itself; whoever waits for a formatter gets on
  unless that one died.

## 4. Theorems

Proved for all constants that satisfy the named assumptions of the modules:

- `SharedArena_proofs`: `ArenaMutualExclusion`, `NoTwoThreadsDeadlock`, `LocksAreOrdered`.
  The inductive invariant `LockInv` consists of the types of the lock-related variables,
  of "a thread about to take or holding a second lock has two different arenas", and of
  `MutualExclusion` itself, in which the lock word is tied to the set of threads that
  hold the lock. Exclusion alone is not inductive: an early unlock clears a word, and
  without the tie nothing says that the thread clearing it is the one that set it.
  `LockOrder` (a waiting thread holds only smaller arenas) follows from it.
  The same module proves `ListsAlwaysIntact`, `PagesAlwaysAccounted` and `LogAlwaysAgrees`, from
  `ArenaInv`. `Chain(L, N, ...)` says that the links of list `L` connect the pages of `N` in address order.
  That a walk then sees `N` and nothing else (`WalkOfChain`) is shown for the recursive function
  `Trail`, once a solution of its recursion is known to exist (`StepsExist`, by the least length
  that has none). Every list operation is shown on any chain: linking, absorbing a neighbour, taking
  a block or its tail, and that `PutBack` undoes `Take` (`PutBackTake`).
  On top of that, `ArenaInv` has what a call relies on in each stage (`StageOK`: the block it chose
  is in the list, what it took can be put back, the neighbours it found are still neighbours), and a
  ledger: every block out of the arenas is a claim of a process, of a call under way or of nobody;
  no two claims share a page, and claimed and free pages are all those below the bump offset. The
  log balance follows the claims with an Alloc entry. The parts need each other: the ledger says
  that a block that comes back is clear of the list, and only an intact list says which pages
  `retrieve` takes.
  Last comes `ArenasKeepPromise`, the refinement of `PageArena`. `View` says what `PageArena`
  sees of an arena while a thread has taken a block from it but not logged it: the block is still free,
  or the bump offset still in front of it. Next to `ArenaInv` it needs `FitsOK`: from the
  scan to the log entry, the block chosen is a smallest one that fits in the list as the scan
  saw it, or none fits (`SmallestFit`). As no two blocks of a list touch, they are the runs of free pages
  (`RunsOfList`), so what is taken is the tail of a smallest run (`TakenIsTail`). A store's
  block is in nobody else's hands by the ledger (`StoredOnce`), so its process has it no longer
  when the store ends.
  What the promise is worth is `NoPageGrantedTwice`. `PromiseGrantsOnce` shows it by `PageArena`'s actions
  alone, from the invariant that nothing lies beyond the bump offset, that no claims overlap and that free
  pages are unclaimed; the refinement carries it over to `retrieve` and `store`.
- `HybridMutex_proofs`: `MutexTypes`, `MutexExcludes`, `MutexLosesNoWakeup`. The invariant
  adds `WordTellsKeeper`: which values the word may have given who is inside or between the
  decrement and the store of `unlock`. That is what makes the decrement land in 0 or 1, and
  what keeps a third thread out while the unlocker has not stored yet.
- `Region_proofs`: `RegionLosesNoWakeup`, `RegionBlocksAccounted`, `RegionGroupsInOrder` and
  `RegionRecordsAccounted`, for any number of threads, any room in a batch and in a memory group,
  any increments and any size of the region. The wake-ups have an invariant of their own, `Inv`: it
  adds to "a waiter has the flag set and a counter that moved" that the flag, once set, belongs
  to a thread between claiming and clearing it, and that the stages of `popBlocksWithCV` occur
  with the condition variable only. What the list contains plays no part in that.
  The others are read from `AllSound`, the conjunction of three parts that need each other:
  * `Accounted`: the list and the groups that a release has taken are in order, no block is in
    both, the records in use are those of the two, and the blocks held, with the free ones, are
    1 to the number carved (`Sound`).
  * `HolderAlone`: stages that lock `MMLock` belong to its holder, and groups are out of the
    list only while the holder is between extracting and merging. So no release takes groups while
    another one has some (it would forget them), and `disable` finds none taken.
  * `RoomToFill`: a thread about to carve has mapped `MaxCached` blocks at least beyond what was
    carved, by the rounding of `MapSize`. Without it the population might add no block, and
    pop from a list that is still empty.

  Below them is a theory of `BlockList`. In a group that fits (`BatchesFit`) only the first batch
  may have room, the others are full, and no two share a block. Inserting a block, popping a part of the
  first batch and merging two batch lists keep that and change the records as the code counts
  them (`InsertOne`, `PopRight`, `MergeBoth`); so do pushing a segment and returning a group to a list
  in order (`PushOne`, `MergeOne`). The folds on top of them (`InsertAll`, `PushAll`, `MergeAll`,
  `GroupsPicked`) go through one lemma, `FoldWithin`: the recursion of a fold over a finite set has
  a solution, and if each step takes a value that is right for a subset to one that is
  right for the subset with one element more, the value for the whole set is right. Its induction
  is on the least size of a subset for which it would not be.
- `LogRing_proofs`: `CacheErrsTowardsFull` and `RingImplementsQueue`, the refinement of
  `BoundedLog`, for every capacity and counter width. `RingInv` measures counters as distances
  behind `Tail`: the cached head lies between the reader's and one capacity behind `Tail`, a
  writer that passed the test has room (`RoomToWrite`), what lies between `Head` and `Tail` was
  written (`WrittenFirst`), and what the kernel copied is the oldest entry (`CopyIsOldest`).
  The lemmas about wrapped counters come first; from them, publishing an entry appends to
  the mapped queue, moving `Head` removes its first, and every other access leaves it alone.
- `ForkedHeap_proofs`: `BlocksHaveOneUser`, `BorrowersCanReturn`, `ListsStayIntact`,
  `ChecksAlwaysPass`, for any number of processes, cores and objects, when no process forks
  while it has a block of an arena in use (`~ForkWhileInUse`). Without that hypothesis the last
  two are false, which is the finding `forked_list`; with it, `fork` copies lists that have no
  links in shared memory. `PoolInv` follows `Version`: one process at most formats an object, what
  the loop of `init` has behind it is at 2, and so are all arenas of a ready pool, in the child of a
  fork as well; only a process that made or refreshed the pool in its own pid has blocks of
  it (`HoldersReady`). `Lists` says that the blocks in use of a process are a doubly linked
  chain from `First` to `Last`, along which some rank rises; removal and insertion are shown on
  any such chain, and processes do not disturb each other because their headers are in different
  places. That a walk over the links meets every block is an argument about the block of least
  rank that it would miss.
- `MapCache_proofs`: `BlocksHaveOneKeeper`, `ReleasedMemoryIsZero`, `ClientMemoryStaysIntact`,
  `EarlyReturnsSkipFew`, for any threads, blocks, sizes and capacities. `CacheInv` has the
  frame of every stage of `allocate`, `deallocate` and `store` (`InFrame`: which block it works
  on, which entries it evicted), `Keeping` (the list has no duplicates, and a block is in
  the list, the quarantine, with a client or in one thread's hands), and what is known about the
  bytes and the protection of each kept block (`ZerosKnown`, `GuardsKnown`). The four
  properties need each other: that released memory stays zero rests on one keeper.
  `LateInv`, on top of it, is about ages: neither an entry nor `OldestTime` is from the future, and
  the unreleased entries older than `OldestTime` (`Late`), the one that `store` carries from
  the quarantine to the cache among them, are no more than the quarantine has slots. A step
  that leaves `OldestTime` alone makes none late (`NothingGetsLate`), and one that sets it
  makes late only what stood in the quarantine (`QuarantineGetsLate`), because all entries of the
  cache are released when it is 0 (`OldestIsSet`).
- `Frontend_proofs`: `LocksFollowOrder`, `LocksNeverCross`, `OneThreadPerTSD`,
  `DisableStopsAll` and `NothingIsStranded`, for any threads, TSDs, calls, sizes and either
  registry. A lock has a `Rank`, its
  place in the order of `disable`. `LockInv` has, for each thread and its stage: which job it may
  work on (`Fit`), which locks it may hold and which it has for certain (`Holds`), and of a
  thread inside `disable` that it has every lock of `DisableOrder` but those still in its list, that
  these come after, and that the exclusive registry's flag is set once it is not in the
  list (`Disables`). The parts need each other: that nobody else clears the flag rests on
  `Mutex`, and that no thread takes a TSD without a lock rests on initialized threads of the
  shared registry having one (`Associated`).
  * Whoever waits does so for a higher rank; only `disable` goes from one TSD to another of the
    same rank, and it is alone in that as it holds `Mutex`. `drainCaches`, which holds `TSDs`
    meanwhile, takes one TSD at a time. Hence no crossed locks, and no cycles of any length.
  * A TSD in hand is the thread's own or one whose lock it has, and no other thread reaches
    its own: `OneThreadInTSD`.
  * A thread at `disabled` has all locks that its list had. Every step of another one keeps
    those (`Touched`), so that an action which moves blocks, chunks or statistics is either blocked
    or moves nothing (`Quiet`): `StillWhileDisabled`. The flag is needed for the exclusive
    registry only, whose threads take their own TSD without a lock.
  * `NothingIsStranded` is proved for programs in which no destructor is its thread's first
    allocation (`LateInit = FALSE`, see Findings). `ExitInv` counts: the rounds that a TSD has still to
    wait for are no more than those its thread has before it, and its key is set as long as
    `commitBack` is to come (`Timed`); a TSD is empty before its thread is initialized and, part
    by part, as `commitBack` goes through its cache and its quarantine (`Clean`).
- `FrontendBlocks_proofs`, on top of it: `BlocksHeldOnce`, `ChunksStayFit`, `IterationComplete` and
  `QuarantineCounts`.
  * The first three come from `OwnInvariant`. It says that every block has a location: one of the places that keep blocks (free, unmapped, a
    cache) or pointers of chunks (the program, the chunks or the batches of a quarantine, a call
    that holds, has marked, is about to put, unmap or recycle a chunk). `Table` reads each place
    from the state, and `Located` says that it has the blocks located there, no others, and that
    their headers fit the place (`PtrRule`, `BlockRule`): a chunk of the program is `Usable`,
    a quarantined one marked so, a batch has the header of a batch, and what is free or cached
    is not marked allocated. Were it only for the places, nothing would say which block `recycle` or
    `push` gives back; were it only for the headers, not that it does so once.
    The other conjuncts tell what a call works on at each stage (`Shape`) and that no batch and no
    chunk is in a list twice (`Tidy`). Steps are shown by what they move: `Relocate` is the general
    case, `Claim`, `Release`, `MovePtrs` and `MoveBlocks` its instances, and `Scrub`, which gives
    back a batch of any size, goes through a fold. That a block of the Primary is found from each
    of its bytes (`NearestFound`) is arithmetic about regions. When an allocation of a batch fails
    the process aborts and the account ends there, as does `BlocksAccounted`.
  * `QuarantineCounts` adds `CountInv`: the counter of each cache is the sum of its batches' sizes,
    and the size of each batch the sum over its chunks, for the sizes that headers tell (`SizesNow`).
    It needs the account of blocks twice: a chunk is in one batch of one list, so that nothing is
    counted twice when lists are joined, and no header changes while its chunk stays
    quarantined (`HeadersStay`), since a step that writes headers works on chunks that are elsewhere.
    `Adds` gives the sum of a list by its running sums, which is how appending a batch,
    joining two lists and taking the first one away change it; merging goes along the fold of
    `MergeBatches` (`MergeInduction`). That the sum over a finite set does not depend on an order
    (`FoldSums`) is shown by the size of the set. The lemmas about sums and about what the
    operators of `QuarantineCache` do are at the end of `Frontend_proofs`.

Assumptions that the proofs made explicit: in `SharedArena` that the headers take some room and that a
requested alignment is not zero; in `ForkedHeap` that private blocks are not arena
blocks and that processes, objects and places are different things; in `Frontend` that names
of locks are not TSDs or threads, that the shared TSDs are finitely many, that a batch of the
quarantine fits in a size class, that mappings of the Secondary do not overlap other blocks, and
what `validateMap` of `size_class_map.h` checks of a configuration: each class has a size, and the classes
large enough for a request are those from its own on. All are evaluated by the runs.

Only model-checked: liveness (out of the prover's reach), `LruSorted`, `PageRelease` and `Primary32`. The
induction theorems of the library take an operator as a parameter, which the provers cannot
instantiate. Arguments by the least number with a property, or by the least size of a
subset, need no such parameter and are used instead.

## 5. Findings

- `forked_list`: `InUseBlocks` is private to a process, the headers it links are not when
  they lie in an arena. After a fork with an arena block in use, parent and child go on with one set of
  links and two pairs of ends, and the next removal fails its check (or follows a foreign link). The
  test for an inherited block in `deallocate` comes after the removal. A child that keeps to
  `exec` or `_exit` is not affected.

Seen while the modules were written, without a run of their own:

- `SharedArena::store`'s banner says that it always succeeds; with a full ring it returns
  false after `deallocate` has forgotten the block, whose pages stay allocated in the arena
  and in the kernel's log (`PageArena`'s `Forget`).
- When the headers do not fit (`shared_arena_linux.cpp:1137`), `retrieve` returns false
  without giving back the block that it took (`PageArena`'s `Misplace`).
- The cache's `store` relies on `MaxEntriesCount` not being zero, which `deallocate` tests
  without the lock; when `mallopt` sets it to zero in between, the eviction at `secondary.h:376` looks at
  the last entry of an empty list.
- With the condition variable, which is off by default, a thread that looked at the list before
  another one populated it claims the next population without a second look
  (`primary64.h:893`), and maps memory while the list has blocks. A fork between `Claim` and
  `LockClaimed` gives the child a region whose flag says that somebody populates.
- `TSDRegistrySharedT::disable` (`tsd_shared.h:94`) does not take `MutexTSDs`: the child of a fork
  may find it held by a thread that does not exist there.
- `teardownThread` waits for as many visits of its key as there are rounds of destructors. A
  thread whose first allocation happens in a destructor misses some: in the first round it
  is torn down in time only if its key is still visited in that same round, and in any later
  round never. Its caches are stranded then. `LateInit` is FALSE in the run of `Frontend`, and
  `NothingStranded` says what holds without such threads.
- With a quarantine a release by age may come late for as many entries as it has slots, since
  `OldestTime` is set by the block that enters it and not by the older ones that stand there
  (`secondary.h:367`). `EarlyReturnSkipsFew` is the bound.
- A process that dies between setting `Version` to 1 and to 2 leaves every later initialiser
  of that arena spinning (the exemption of `InitFinishes`).
- A pool whose refresh failed never becomes ready again: `init` unlinks the names in use and
  then cannot map at addresses that it has mapped already. Inherited arena blocks are then taken
  for mappings of the process' own; `BorrowersAreReady` holds in `forked_heap`
  because no arena block is in use when a process forks there.
- A forced release skips the bookkeeping of `hasChanceToReleasePages`, so that the count of
  bytes pushed since the last release may wrap; only the choice of groups depends on it.

## 6. Not modelled

`SharedArena::reset`, which runs only when a variable asks for it or in a benchmark, with no
block in use; the broker that hands descriptors to Android processes; the bench-only mode
without a kernel; the numbers behind memory pressure, statistics and tracing. Two threads of a
forked child that refresh the pool at once. In the cache, changes of `MaxEntrySize`, failure
of the `mmap` over a tagged block (which ends the process), `disable`/`enable`. In both
primaries, the thresholds and times of a release, statistics and the unmapping of tests. In
`release.h`, the packing of counters into words, the pool of buffers for them and
the fragmentation recorder. In the combined allocator, hooks, GWP-ASan,
memory tagging, options that change at run time, checks and reports of misuse: programs
that free a pointer twice or pass a foreign one are not among those modelled, so the race of
two frees of one chunk is not either. `setOption` of the shared registry.

The stack depot and the ring of allocation traces are in use only with memory tagging or
when stacks are tracked; the depot checks the hash of what it reads without a lock, so that only
colliding hashes mislead, and an entry of the ring that two writers share shows up in a report only.

Parsing, formatting, the C wrappers but for `disable` and `enable`, the tables of
`TableSizeClassMap` (which the repository tests exhaustively), hardware tags and the system call
wrappers are left out: they keep no state that interleaves.

## 7. Plan

What is left: `BlocksAccounted` of `Primary32`, which could use the lemmas about `BlockList` of
`Region_proofs`; and the arithmetic of `PageRelease` for all sizes of pages and blocks.
