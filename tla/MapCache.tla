------------------------------ MODULE MapCache ------------------------------
(***************************************************************************)
(* The secondary allocator's mappings and its cache (MapAllocator and      *)
(* MapAllocatorCache in secondary.h): threads allocate from the cache or   *)
(* map anew, deallocate into the quarantine and the cache or unmap, while  *)
(* options change, memory is released to the system, and memory tagging is *)
(* switched off.  Every thread works with the Options word it read when    *)
(* its call began, and with the settings as they are when it reads them.   *)
(* The arenas, which both calls try first, are SharedArena.tla's.          *)
(*                                                                         *)
(* A step is a critical section of Mutex or what a thread does between two *)
(* of them; store's critical section is several steps, because it reads    *)
(* MaxEntriesCount, which needs no Mutex to change, again and again.       *)
(***************************************************************************)
EXTENDS Integers, Sequences, SequencesExt, FiniteSets

CONSTANTS
    Threads,
    Blocks,          \* regions of memory mmap may return, MemMap and all
    PagesOf,         \* CommitSize of each, in pages
    Sizes,           \* roundUp(Size, Alignment) of the calls to allocate, in units
    PageUnits,       \* getPageSizeCached, in units
    HeaderUnits,     \* getHeadersSize, in units
    MaxFragPages,    \* MaxAllowedFragmentedPages
    Capacity,        \* Config::getEntriesArraySize
    QuarantineSize,  \* Config::getQuarantineSize
    MaxEntryPages,   \* MaxEntrySize, in pages
    Counts,          \* values given to Option::MaxCacheEntriesCount
    Intervals,       \* values given to Option::ReleaseInterval; -1 is never
    MaxTime,         \* bound of the clock, in units of the intervals
    None

ASSUME MapCacheAssumption ==
    /\ PagesOf \in [Blocks -> Nat \ {0}]
    /\ Sizes \subseteq Nat \ {0}
    /\ PageUnits \in Nat \ {0} /\ HeaderUnits \in Nat /\ MaxFragPages \in Nat
    /\ Capacity \in Nat \ {0} /\ QuarantineSize \in Nat /\ MaxEntryPages \in Nat
    /\ Counts \subseteq Nat
    /\ Intervals \subseteq Int /\ \A i \in Intervals : i >= -1
    /\ MaxTime \in Nat \ {0}
    /\ None \notin Blocks \cup Threads

\* A CachedBlock is a block and a time, 0 when the memory was released; this one is not
\* isValid.
NoEntry == [block |-> None, time |-> 0]

VARIABLES
    mutex,       \* the thread in store's critical section, or None
    lru,         \* LRUEntries, most recent first
    quarantine,
    quarPos,     \* QuarantinePos; -1 once tagging was disabled
    oldest,      \* OldestTime
    maxEntries,  \* MaxEntriesCount
    interval,    \* ReleaseToOsIntervalMs
    tagging,     \* OptionBit::UseMemoryTagging
    clock,       \* getMonotonicTimeFast
    mapped,      \* blocks that are mapped
    guarded,     \* mapped blocks that are MAP_NOACCESS
    zeroed,      \* mapped blocks known to hold only zeros
    live,        \* blocks the client has: InUseBlocks
    pc,
    frame        \* the locals of every thread's call

cacheVars == <<lru, quarantine, quarPos, oldest>>
settings == <<maxEntries, interval, tagging>>
memory == <<mapped, guarded, zeroed>>
vars == <<mutex, cacheVars, settings, clock, memory, live, pc, frame>>

Slots == 0 .. (QuarantineSize - 1)

NoFrame == [tag |-> FALSE, size |-> 0, every |-> -1, now |-> 0,
            entry |-> NoEntry, evicted |-> {}]

\* setOption never lets MaxEntriesCount exceed the array.
Capped(n) == IF n < Capacity THEN n ELSE Capacity

Init ==
    /\ mutex = None
    /\ lru = <<>>
    /\ quarantine = [s \in Slots |-> NoEntry]
    /\ quarPos = 0
    /\ oldest = 0
    /\ maxEntries \in {Capped(n) : n \in Counts}
    /\ interval \in Intervals
    /\ tagging \in BOOLEAN
    /\ clock = 1
    /\ mapped = {} /\ guarded = {} /\ zeroed = {} /\ live = {}
    /\ pc = [t \in Threads |-> "idle"]
    /\ frame = [t \in Threads |-> NoFrame]

-----------------------------------------------------------------------------
(***************************************************************************)
(* Pieces of the handlers.                                                 *)
(***************************************************************************)

Goto(t, stage) == pc' = [pc EXCEPT ![t] = stage]

Return(t) == Goto(t, "idle") /\ frame' = [frame EXCEPT ![t] = NoFrame]

Block(t) == frame[t].entry.block

CanCache(pages) == maxEntries # 0 /\ pages <= MaxEntryPages

RoundUpToPages(units) == (units + PageUnits - 1) \div PageUnits

\* Where the headers of an allocation of size units begin in a block of n pages, and
\* how many whole pages before them it wastes.
HeaderPos(n, size) == n * PageUnits - size - HeaderUnits

Diff(n, size) == HeaderPos(n, size) \div PageUnits

Fits(n, size) ==
    HeaderPos(n, size) >= 0 /\ n * PageUnits - size <= MaxFragPages * PageUnits

CloseEnough(n, size) ==
    Diff(n, size) * PageUnits <= (n * PageUnits - HeaderPos(n, size)) \div 10

\* The entry retrieve takes: the most recent of the least wasteful ones, among those
\* up to the first that is close enough.  0 when none fits.
Choice(size) ==
    LET n(i) == PagesOf[lru[i].block]
        fit == {i \in DOMAIN lru : Fits(n(i), size)}
        close == {i \in fit : CloseEnough(n(i), size)}
        seen == {i \in fit : \A c \in close : i <= c}
    IN  IF seen = {} THEN 0
        ELSE CHOOSE i \in seen : \A j \in seen :
                Diff(n(i), size) < Diff(n(j), size)
                \/ (Diff(n(i), size) = Diff(n(j), size) /\ i <= j)

\* As if the new entry went to the other end.
Inserted_Back(e) == Append(lru, e)

\* LRUEntries with a new entry in front.
Inserted(e) == <<e>> \o lru

\* As if OldestTime followed the last entry.
OldestAfter_Last(e) == IF e.time = 0 THEN oldest ELSE e.time

\* OldestTime once entry e joins the quarantine or the cache.
OldestAfter(e) == IF oldest = 0 THEN e.time ELSE oldest

\* The u64 difference wraps when the interval exceeds the time since boot.
Before(now, every) == IF now >= every THEN now - every ELSE MaxTime

\* Entries of the quarantine and the cache that releaseOlderThan(time) looks at.
Cached == {quarantine[s] : s \in Slots} \cup {lru[i] : i \in DOMAIN lru}

Stale(e, time) == e # NoEntry /\ e.time # 0 /\ e.time <= time

\* As if the quarantine were not looked at.
ReleasedBlocks_CacheOnly(time) ==
    {e.block : e \in {x \in {lru[i] : i \in DOMAIN lru} : Stale(x, time)}}

ReleasedBlocks(time) == {e.block : e \in {x \in Cached : Stale(x, time)}}

\* The early return of releaseOlderThan.
GivesUp(time) == lru = <<>> \/ oldest = 0 \/ oldest > time

ReleaseOlderThan(time) ==
    IF GivesUp(time)
    THEN UNCHANGED <<lru, quarantine, oldest, zeroed>>
    ELSE LET Aged(e) == IF Stale(e, time) THEN [e EXCEPT !.time = 0] ELSE e
             kept == {e.time : e \in {x \in Cached : x.time > time}}
         IN  /\ lru' = [i \in DOMAIN lru |-> Aged(lru[i])]
             /\ quarantine' = [s \in Slots |-> Aged(quarantine[s])]
             /\ oldest' = IF kept = {} THEN 0
                          ELSE CHOOSE x \in kept : \A y \in kept : x <= y
             /\ zeroed' = zeroed \cup ReleasedBlocks(time)

-----------------------------------------------------------------------------
(***************************************************************************)
(* allocate and tryAllocateFromCache.                                      *)
(***************************************************************************)

A_Call(t) ==
    /\ pc[t] = "idle"
    /\ \E size \in Sizes :
          /\ frame' = [frame EXCEPT ![t] = [NoFrame EXCEPT !.tag = tagging, !.size = size]]
          /\ Goto(t, IF CanCache(RoundUpToPages(size + HeaderUnits)) THEN "retrieve"
                                                                     ELSE "map")
    /\ UNCHANGED <<mutex, cacheVars, settings, clock, memory, live>>

\* MapAllocatorCache::retrieve.  Returning a few wasted pages of the entry to the system
\* leaves nothing behind that a later step reads.
A_Retrieve(t) ==
    /\ pc[t] = "retrieve"
    /\ mutex = None
    /\ LET i == Choice(frame[t].size)
       IN  IF i = 0
           THEN Goto(t, "map") /\ UNCHANGED <<lru, frame>>
           ELSE /\ lru' = RemoveAt(lru, i)
                /\ frame' = [frame EXCEPT ![t].entry = lru[i]]
                /\ Goto(t, "use")
    /\ UNCHANGED <<mutex, quarantine, quarPos, oldest, settings, clock, memory, live>>

\* The block goes to the client, who will write to it.
A_Use(t) ==
    /\ pc[t] = "use"
    /\ guarded' = IF frame[t].tag THEN guarded \ {Block(t)} ELSE guarded
    /\ zeroed' = zeroed \ {Block(t)}
    /\ live' = live \cup {Block(t)}
    /\ Return(t)
    /\ UNCHANGED <<mutex, cacheVars, settings, clock, mapped>>

A_Map(t) ==
    /\ pc[t] = "map"
    /\ \E b \in Blocks \ mapped :
          /\ PagesOf[b] = RoundUpToPages(frame[t].size + HeaderUnits)
          /\ mapped' = mapped \cup {b}
          /\ live' = live \cup {b}
    /\ Return(t)
    /\ UNCHANGED <<mutex, cacheVars, settings, clock, guarded, zeroed>>

\* ReservedMemory.create or mapSecondary fails: return nullptr.
A_Fail(t) ==
    /\ pc[t] = "map"
    /\ Return(t)
    /\ UNCHANGED <<mutex, cacheVars, settings, clock, memory, live>>

-----------------------------------------------------------------------------
(***************************************************************************)
(* deallocate and MapAllocatorCache::store.                                *)
(***************************************************************************)

D_Call(t) ==
    /\ pc[t] = "idle"
    /\ \E b \in live :
          /\ live' = live \ {b}
          /\ frame' = [frame EXCEPT ![t] =
                          [NoFrame EXCEPT !.tag = tagging,
                                          !.entry = [block |-> b, time |-> MaxTime]]]
          /\ Goto(t, IF CanCache(PagesOf[b]) THEN "prepare" ELSE "unmap")
    /\ UNCHANGED <<mutex, cacheVars, settings, clock, memory>>

D_Unmap(t) ==
    /\ pc[t] = "unmap"
    /\ mapped' = mapped \ {Block(t)}
    /\ guarded' = guarded \ {Block(t)}
    /\ zeroed' = zeroed \ {Block(t)}
    /\ Return(t)
    /\ UNCHANGED <<mutex, cacheVars, settings, clock, live>>

\* Before the lock: with tagging the block is made inaccessible, and when memory is to
\* be released at once a new mapping does both.
S_Prepare(t) ==
    /\ pc[t] = "prepare"
    /\ LET remapped == frame[t].tag /\ interval = 0
       IN  /\ zeroed' = IF remapped THEN zeroed \cup {Block(t)} ELSE zeroed
           /\ frame' = [frame EXCEPT ![t].every = interval,
                                     ![t].entry.time = IF remapped THEN 0 ELSE @]
    /\ guarded' = IF frame[t].tag THEN guarded \cup {Block(t)} ELSE guarded
    /\ Goto(t, "lock")
    /\ UNCHANGED <<mutex, cacheVars, settings, clock, mapped, live>>

\* The entry with the time read under the lock.
Stamped(t) ==
    [frame[t].entry EXCEPT !.time = IF @ = 0 THEN 0 ELSE clock]

\* Tagging was disabled after the call read Options: the block is unmapped.
S_Orphan(t) ==
    /\ pc[t] = "lock"
    /\ mutex = None
    /\ frame[t].tag /\ quarPos = -1
    /\ mapped' = mapped \ {Block(t)}
    /\ guarded' = guarded \ {Block(t)}
    /\ zeroed' = zeroed \ {Block(t)}
    /\ frame' = [frame EXCEPT ![t].now = clock, ![t].entry = NoEntry]
    /\ Goto(t, "drop")
    /\ UNCHANGED <<mutex, cacheVars, settings, clock, live>>

NextSlot == (quarPos + 1) % QuarantineSize

\* The quarantine has room: the call is over, without releasing anything.
S_Quarantine(t) ==
    /\ pc[t] = "lock"
    /\ mutex = None
    /\ frame[t].tag /\ quarPos # -1 /\ QuarantineSize > 0
    /\ quarantine[NextSlot] = NoEntry
    /\ quarantine' = [quarantine EXCEPT ![NextSlot] = Stamped(t)]
    /\ quarPos' = NextSlot
    /\ Return(t)
    /\ UNCHANGED <<mutex, lru, oldest, settings, clock, memory, live>>

\* The block takes the place of an older one, which goes on to the cache.
S_Exchange(t) ==
    /\ pc[t] = "lock"
    /\ mutex = None
    /\ frame[t].tag /\ quarPos # -1 /\ QuarantineSize > 0
    /\ quarantine[NextSlot] # NoEntry
    /\ quarantine' = [quarantine EXCEPT ![NextSlot] = Stamped(t)]
    /\ quarPos' = NextSlot
    /\ oldest' = OldestAfter(Stamped(t))
    /\ frame' = [frame EXCEPT ![t].now = clock, ![t].entry = quarantine[NextSlot]]
    /\ mutex' = t
    /\ Goto(t, "evict")
    /\ UNCHANGED <<lru, settings, clock, memory, live>>

S_Enter(t) ==
    /\ pc[t] = "lock"
    /\ mutex = None
    /\ ~(frame[t].tag /\ (quarPos = -1 \/ QuarantineSize > 0))
    /\ frame' = [frame EXCEPT ![t].now = clock, ![t].entry = Stamped(t)]
    /\ mutex' = t
    /\ Goto(t, "evict")
    /\ UNCHANGED <<cacheVars, settings, clock, memory, live>>

\* One turn of the eviction loop.  Taking the last of no entries dereferences null, and
\* the process ends there: no step.
S_Evict(t) ==
    /\ pc[t] = "evict"
    /\ Len(lru) >= maxEntries
    /\ lru # <<>>
    /\ frame' = [frame EXCEPT ![t].evicted = @ \cup {Last(lru).block}]
    /\ lru' = Front(lru)
    /\ UNCHANGED <<mutex, quarantine, quarPos, oldest, settings, clock, memory, live, pc>>

S_Insert(t) ==
    /\ pc[t] = "evict"
    /\ Len(lru) < maxEntries
    /\ lru' = Inserted(frame[t].entry)
    /\ oldest' = OldestAfter(frame[t].entry)
    /\ frame' = [frame EXCEPT ![t].entry = NoEntry]
    /\ mutex' = None
    /\ Goto(t, "drop")
    /\ UNCHANGED <<quarantine, quarPos, settings, clock, memory, live>>

\* As if the evicted entries were not unmapped.
Unmapped_Forgotten(t) == {}

Unmapped(t) == frame[t].evicted

\* Evicted blocks are unmapped without the lock.
S_Drop(t) ==
    /\ pc[t] = "drop"
    /\ mapped' = mapped \ Unmapped(t)
    /\ guarded' = guarded \ Unmapped(t)
    /\ zeroed' = zeroed \ Unmapped(t)
    /\ IF frame[t].every >= 0
       THEN Goto(t, "release") /\ frame' = [frame EXCEPT ![t].evicted = {}]
       ELSE Return(t)
    /\ UNCHANGED <<mutex, cacheVars, settings, clock, live>>

S_Release(t) ==
    /\ pc[t] = "release"
    /\ mutex = None
    /\ ReleaseOlderThan(Before(frame[t].now, frame[t].every))
    /\ Return(t)
    /\ UNCHANGED <<mutex, quarPos, settings, clock, mapped, guarded, live>>

-----------------------------------------------------------------------------
(***************************************************************************)
(* setOption, releaseToOS and disableMemoryTagging, by any other thread.   *)
(***************************************************************************)

SetMaxEntries(n) ==
    /\ maxEntries' = Capped(n)
    /\ UNCHANGED <<mutex, cacheVars, interval, tagging, clock, memory, live, pc, frame>>

SetInterval(i) ==
    /\ interval' = i
    /\ UNCHANGED <<mutex, cacheVars, maxEntries, tagging, clock, memory, live, pc, frame>>

ReleaseToOS ==
    /\ mutex = None
    /\ ReleaseOlderThan(MaxTime)
    /\ UNCHANGED <<mutex, quarPos, settings, clock, mapped, guarded, live, pc, frame>>

\* The allocator's disableMemoryTagging: first the secondary's, which empties the
\* quarantine and opens the cached blocks, ...
DisableCacheTagging ==
    /\ mutex = None
    /\ LET gone == {quarantine[s].block : s \in Slots}
           opened == {lru[i].block : i \in DOMAIN lru}
       IN  /\ mapped' = mapped \ gone
           /\ guarded' = guarded \ (gone \cup opened)
           /\ zeroed' = zeroed \ gone
    /\ quarantine' = [s \in Slots |-> NoEntry]
    /\ quarPos' = -1
    /\ UNCHANGED <<mutex, lru, oldest, settings, clock, live, pc, frame>>

\* As if the option were cleared before the quarantine is drained.
MayClearOption_First == TRUE

\* ... then the option, which calls that start from now on read.
MayClearOption == quarPos = -1

ClearTaggingOption ==
    /\ tagging
    /\ MayClearOption
    /\ tagging' = FALSE
    /\ UNCHANGED <<mutex, cacheVars, maxEntries, interval, clock, memory, live, pc, frame>>

Tick ==
    /\ clock < MaxTime
    /\ clock' = clock + 1
    /\ UNCHANGED <<mutex, cacheVars, settings, memory, live, pc, frame>>

Allocate(t) == A_Call(t) \/ A_Retrieve(t) \/ A_Use(t) \/ A_Map(t) \/ A_Fail(t)

Store(t) ==
    \/ S_Prepare(t) \/ S_Orphan(t) \/ S_Quarantine(t) \/ S_Exchange(t) \/ S_Enter(t)
    \/ S_Evict(t) \/ S_Insert(t) \/ S_Drop(t) \/ S_Release(t)

Deallocate(t) == D_Call(t) \/ D_Unmap(t) \/ Store(t)

Next ==
    \/ \E t \in Threads : Allocate(t) \/ Deallocate(t)
    \/ \E n \in Counts : SetMaxEntries(n)
    \/ \E i \in Intervals : SetInterval(i)
    \/ ReleaseToOS \/ DisableCacheTagging \/ ClearTaggingOption \/ Tick

Spec == Init /\ [][Next]_vars

-----------------------------------------------------------------------------
(***************************************************************************)
(* Properties.                                                             *)
(***************************************************************************)

\* Everybody who has block b and will use, hand on or unmap it.
Keepers(b) ==
    {<<"client", 0>> : x \in live \cap {b}}
    \cup {<<"cache", i>> : i \in {j \in DOMAIN lru : lru[j].block = b}}
    \cup {<<"quarantine", s>> : s \in {q \in Slots : quarantine[q].block = b}}
    \cup {<<"call", t>> : t \in {u \in Threads : Block(u) = b}}
    \cup {<<"eviction", t>> : t \in {u \in Threads : b \in frame[u].evicted}}

\* A mapped block is with the client, in the cache, in the quarantine, in one call's
\* locals or in one call's list of evicted blocks, and an unmapped one is with nobody:
\* whatever way it leaves the cache, it is not handed out twice, unmapped twice or leaked.
OneKeeper ==
    \A b \in Blocks : Cardinality(Keepers(b)) = IF b \in mapped THEN 1 ELSE 0

\* tryAllocateFromCache fills no block whose entry has Time 0: whoever holds such an
\* entry, its memory has only zeros.
ReleasedIsZero ==
    \A e \in Cached \cup {frame[t].entry : t \in {u \in Threads : pc[u] = "use"}} :
        e # NoEntry /\ e.time = 0 => e.block \in zeroed

\* Whatever the calls under way do when memory tagging is switched off or old entries
\* are released, no block the client has is inaccessible or has its pages released.
ClientMemoryIntact == live \cap (guarded \cup zeroed) = {}

\* A release that gives up at once leaves behind at most as many old entries as the
\* quarantine has slots: OldestTime is set whenever it must be, and all that it can be
\* later than are the entries that stood in the quarantine when a younger one set it.
EarlyReturnSkipsFew ==
    \A time \in 0 .. MaxTime :
        GivesUp(time) => Cardinality({e \in Cached : Stale(e, time)}) <= QuarantineSize

\* The time of an entry is read under the lock so that LRUEntries remains sorted: whatever
\* stores overlap and whatever passes through the quarantine, the unreleased entries of
\* the cache are in the order of their times, the most recent first.
LruSorted ==
    \A i, j \in DOMAIN lru :
        i < j /\ lru[i].time # 0 /\ lru[j].time # 0 => lru[i].time >= lru[j].time
=============================================================================
