------------------------------ MODULE Frontend ------------------------------
(***************************************************************************)
(* The combined allocator (combined.h): threads allocate, resize and free  *)
(* chunks through the caches of a TSD registry (tsd_exclusive.h or         *)
(* tsd_shared.h), a quarantine delays the reuse of freed chunks            *)
(* (quarantine.h), and malloc_disable takes every lock in turn.            *)
(*                                                                         *)
(* A step is what a thread does between two accesses to shared state; a    *)
(* critical section without another lock inside is one step.  The blocks   *)
(* of a class are interchangeable, so caches and free lists are sets and   *)
(* hand out their lowest blocks.  The Primary is its free blocks (Region   *)
(* models its inside), the Secondary the blocks it could map.  The option  *)
(* MayReturnNull is set; tagging and GWP-ASan are not modelled.            *)
(***************************************************************************)
EXTENDS ChunkLayout, QuarantineCache

CONSTANTS
    Threads, NoThread,
    FallbackTSD, SharedTSDs,
    Programs,               \* the registry, the flags and the calls of each thread
    Iterations,             \* PTHREAD_DESTRUCTOR_ITERATIONS
    LateInit,               \* whether a destructor may be a thread's first allocation
    QuarantineMaxChunkSize

\* A call a thread makes, with its arguments; a free takes any pointer.
CallTo(op, size, align) == [op |-> op, size |-> size, align |-> align]

IsCall(c) ==
    /\ c.op \in {"malloc", "free", "realloc", "drain", "exit", "disable"}
    /\ c.size \in Nat /\ c.align \in Alignments

\* The locks of parts of the allocator, and those of the TSDs that have one.
PartLocks == {"Mutex", "TSDs", "Stats", "Recycle", "Cache", "Primary", "Secondary"}
TSDLocks == {FallbackTSD} \cup SharedTSDs
Locks == PartLocks \cup TSDLocks

ASSUME FrontendAssumption ==
    /\ NoThread \notin Threads
    /\ (PartLocks \cup {"flag", "none"}) \cap TSDLocks = {}
    /\ (Threads \cup {NoThread}) \cap Locks = {}
    /\ IsFiniteSet(SharedTSDs)
    /\ \A program \in Programs :
         /\ program.registry \in {"exclusive", "shared"}
         /\ program.limits \in [max : Nat, cache : Nat]
         /\ program.limits.cache = 0 => program.limits.max = 0
         /\ \A t \in Threads : \A c \in program.calls[t] : IsCall(c)
    /\ Iterations \in Nat \ {0} /\ LateInit \in BOOLEAN
    /\ QuarantineMaxChunkSize \in Nat
    /\ BatchBytes + HeaderSize <= MaxSize

VARIABLES
    registry,       \* "exclusive" or "shared"
    limits,         \* sizes of the quarantine and of a TSD's part of it
    calls,          \* the calls that each thread makes
    initialized,    \* the registry's Initialized
    disabled,       \* the exclusive registry's Disabled
    lock,           \* the thread that holds each lock, or NoThread
    initState,      \* ThreadState.InitState
    rounds,         \* exclusive: DestructorIterations of the thread's TSD
    key,            \* PThreadKey: "unset", "set", or "due" in the current round
    round,          \* destructor rounds of an exiting thread, 0 while it runs
    current,        \* shared: the TSD associated with the thread
    cache,          \* the blocks in each TSD's local cache
    pending,        \* each TSD's QuarantineCache
    quarantine,     \* the global one
    free,           \* free blocks of the Primary
    unmapped,       \* blocks of the Secondary that are not mapped
    header,         \* the header in front of each pointer
    marker,         \* the offset after BlockMarker at the start of a block, else 0
    linked,         \* TSDs whose statistics are linked into the global ones
    live,           \* pointers the program holds
    pc, job         \* where a call is, and what it works on

registryVars == <<registry, limits, calls, initialized, disabled>>
threadVars == <<initState, rounds, key, round, current>>
heapVars == <<cache, free, unmapped, linked>>
quarantineVars == <<pending, quarantine>>
chunkVars == <<header, marker, live>>
callVars == <<pc, job>>
vars == <<registryVars, lock, threadVars, heapVars, quarantineVars, chunkVars, callVars>>

AllTSDs == Threads \cup TSDLocks
TSDs == IF registry = "shared" THEN SharedTSDs ELSE Threads \cup {FallbackTSD}

NoTSD == NoThread
None == 0

NoJob == [op |-> "none", tsd |-> NoTSD, size |-> 0, align |-> MinAlignment,
          ptr |-> None, result |-> None, batches |-> <<>>, todo |-> <<>>]

\* QuarantineClassId
BatchClass == ClassOf(BatchBytes + HeaderSize)

Init ==
    /\ \E program \in Programs :
         /\ registry = program.registry
         /\ limits = program.limits
         /\ calls = program.calls
    /\ initialized = FALSE
    /\ disabled = FALSE
    /\ lock = [l \in Locks |-> NoThread]
    /\ initState = [t \in Threads |-> "NotInitialized"]
    /\ rounds = [t \in Threads |-> 0]
    /\ key = [t \in Threads |-> "unset"]
    /\ round = [t \in Threads |-> 0]
    /\ current = [t \in Threads |-> NoTSD]
    /\ cache = [tsd \in AllTSDs |-> {}]
    /\ pending = [tsd \in AllTSDs |-> EmptyCache]
    /\ quarantine = EmptyCache
    /\ free = PrimaryBlocks
    /\ unmapped = SecondaryBlocks
    /\ header = [p \in Ptrs |-> NoHeader]
    /\ marker = [b \in Blocks |-> 0]
    /\ linked = {}
    /\ live = {}
    /\ pc = [t \in Threads |-> "idle"]
    /\ job = [t \in Threads |-> NoJob]

-----------------------------------------------------------------------------
(* Helpers.                                                                *)

At(t, stage) == pc[t] = stage

\* Thread t goes to a stage with what it works on.
Step(t, stage, work) ==
    /\ pc' = [pc EXCEPT ![t] = stage]
    /\ job' = [job EXCEPT ![t] = work]

Goto(t, stage) == Step(t, stage, job[t])

Return(t) == Step(t, "idle", NoJob)

Free(l) == lock[l] = NoThread

Acquire(t, l) == Free(l) /\ lock' = [lock EXCEPT ![l] = t]

\* ~ScopedTSD: the thread's own TSD was never locked.
WithoutTSD(t, locks) ==
    IF job[t].tsd \in Threads THEN locks ELSE [locks EXCEPT ![job[t].tsd] = NoThread]

\* The lowest n blocks of a set.
Lowest(n, set) == {b \in set : Cardinality({c \in set : c < b}) < n}

\* ThreadState of a thread that has gone through all rounds.
Gone(t) == round[t] > Iterations

-----------------------------------------------------------------------------
(* The local cache (local_cache.h), over records with the cache of one TSD *)
(* and the free blocks of the Primary.                                     *)

InClass(set, classId) == set \cap BlocksOf(classId)

\* As if the blocks that stay were not moved to the front.
DrainClass_NoShift(acc, classId) ==
    LET mine  == InClass(acc.cache, classId)
        moved == Lowest(MaxCount(classId) \div 2, mine)
        kept  == Lowest(Cardinality(mine) - Cardinality(moved), mine)
    IN  [acc EXCEPT !.cache = (@ \ mine) \cup kept, !.free = @ \cup moved]

\* drain(C, ClassId): half of the maximum, the oldest.
DrainClass(acc, classId) ==
    LET moved == Lowest(MaxCount(classId) \div 2, InClass(acc.cache, classId))
    IN  [acc EXCEPT !.cache = @ \ moved, !.free = @ \cup moved]

\* deallocate(ClassId, P)
CacheDeallocate(acc, block) ==
    LET classId == ClassOfBlock(block)
        full    == Cardinality(InClass(acc.cache, classId)) = MaxCount(classId)
        drained == IF full THEN DrainClass(acc, classId) ELSE acc
    IN  [drained EXCEPT !.cache = @ \cup {block}]

\* refill(C, ClassId, MaxCount / 2) for an empty class.
Refill(acc, classId) ==
    LET moved == Lowest(MaxCount(classId) \div 2, InClass(acc.free, classId))
    IN  [acc EXCEPT !.cache = @ \cup moved, !.free = @ \ moved]

\* allocate(ClassId): the block, or None when the Primary has none either.
CacheAllocate(acc, classId) ==
    LET filled == IF InClass(acc.cache, classId) = {} THEN Refill(acc, classId) ELSE acc
        blocks == InClass(filled.cache, classId)
    IN  IF blocks = {}
        THEN [acc |-> acc, block |-> None]
        ELSE [acc   |-> [filled EXCEPT !.cache = @ \ {Max(blocks)}],
              block |-> Max(blocks)]

\* The cache of the TSD in hand and the Primary.
Stock(t) == [cache |-> cache[job[t].tsd], free |-> free]

\* They become those of the record; the regions' locks are taken when blocks move
\* between the two.
SetStock(t, acc) ==
    /\ acc.free # free => Free("Primary")
    /\ cache' = [cache EXCEPT ![job[t].tsd] = acc.cache]
    /\ free' = acc.free

\* GlobalStats.link and unlink: a TSD's statistics are part of the global ones, or are
\* added to those for good.
LinkStats(tsds) == Free("Stats") /\ linked' = linked \cup tsds
UnlinkStats(tsd) == Free("Stats") /\ linked' = linked \ {tsd}

-----------------------------------------------------------------------------
(* initThreadMaybe.                                                        *)

\* What a call does once its thread is initialized.
FirstStage(op, work) ==
    CASE op = "malloc"  -> IF CanAllocate(work.size, work.align) THEN "take" ELSE "map"
      [] op = "free"    -> "mark"
      [] op = "realloc" -> "resize"
      [] op = "drain"   -> IF registry = "shared" THEN "locktsds" ELSE "nexttsd"
      [] op = "disable" -> "disabling"

\* A thread calls this operation, with nothing in flight; a thread that has gone does
\* not.
Call(t, op, p, todo) ==
    \E c \in calls[t] :
      LET work == [NoJob EXCEPT !.op = op, !.size = c.size, !.align = c.align,
                                !.ptr = p, !.todo = todo]
      IN  /\ c.op = op
          /\ At(t, "idle") /\ ~Gone(t)
          /\ Step(t, IF initState[t] = "NotInitialized" THEN "init"
                     ELSE FirstStage(op, work), work)
          /\ UNCHANGED <<registryVars, lock, threadVars, heapVars, quarantineVars,
                         header, marker>>

\* Whether a call of an exiting thread may initialize it.
MayInit(t) == round[t] = 0 \/ initState[t] # "NotInitialized" \/ LateInit

\* initOnceMaybe; a free goes no further with the exclusive registry.
InitOnce(t) ==
    /\ At(t, "init")
    /\ Free("Mutex")
    /\ initialized' = TRUE
    /\ IF initialized THEN UNCHANGED linked ELSE LinkStats(TSDs \ Threads)
    /\ Goto(t, IF job[t].op = "free" /\ registry = "exclusive" THEN "mark" ELSE "attach")
    /\ UNCHANGED <<registry, limits, calls, disabled, lock, threadVars, cache, free, unmapped,
                   quarantineVars, chunkVars>>

\* The rest of initThread of the exclusive registry: the thread's own TSD and its key.  A
\* key that is first set in a round of destructors may still be reached in that round.
AttachExclusive(t) ==
    /\ At(t, "attach")
    /\ registry = "exclusive"
    /\ LinkStats({t})
    /\ initState' = [initState EXCEPT ![t] = "Initialized"]
    /\ rounds' = [rounds EXCEPT ![t] = Iterations]
    /\ \E k \in IF round[t] = 0 THEN {"set"} ELSE {"set", "due"} :
         key' = [key EXCEPT ![t] = k]
    /\ Goto(t, FirstStage(job[t].op, job[t]))
    /\ UNCHANGED <<registryVars, lock, round, current, cache, free, unmapped,
                   quarantineVars, chunkVars>>

\* Of the shared registry: one of its TSDs, which CurrentIndex hands out in turn.
AttachShared(t) ==
    /\ At(t, "attach")
    /\ registry = "shared"
    /\ initState' = [initState EXCEPT ![t] = "Initialized"]
    /\ \E tsd \in SharedTSDs : current' = [current EXCEPT ![t] = tsd]
    /\ Goto(t, FirstStage(job[t].op, job[t]))
    /\ UNCHANGED <<registryVars, lock, rounds, key, round, heapVars, quarantineVars,
                   chunkVars>>

-----------------------------------------------------------------------------
(* getTSDAndLock.                                                          *)

\* What is done with the TSD.
UseOf(t) ==
    LET op == job[t].op
        p  == job[t].ptr
    IN  CASE op = "malloc" -> "pop"
          [] op = "realloc" /\ job[t].result = None -> "pop"
          [] OTHER -> IF header[p].state = "Quarantined" THEN "put" ELSE "push"

Take(t, tsd) == Step(t, UseOf(t), [job[t] EXCEPT !.tsd = tsd])

\* Exclusive: the thread's own TSD, unlocked, unless it has none or the registry is
\* disabled.
TakeOwn(t) ==
    /\ At(t, "take")
    /\ registry = "exclusive"
    /\ initState[t] = "Initialized" /\ ~disabled
    /\ Take(t, t)
    /\ UNCHANGED <<registryVars, lock, threadVars, heapVars, quarantineVars, chunkVars>>

TakeFallback(t) ==
    /\ At(t, "take")
    /\ registry = "exclusive"
    /\ initState[t] # "Initialized" \/ disabled
    /\ Goto(t, "fallback")
    /\ UNCHANGED <<registryVars, lock, threadVars, heapVars, quarantineVars, chunkVars>>

LockFallback(t) ==
    /\ At(t, "fallback")
    /\ Acquire(t, FallbackTSD)
    /\ Take(t, FallbackTSD)
    /\ UNCHANGED <<registryVars, threadVars, heapVars, quarantineVars, chunkVars>>

\* Shared: the associated TSD if tryLock succeeds.
TakeCurrent(t) ==
    /\ At(t, "take")
    /\ registry = "shared"
    /\ \/ Acquire(t, current[t]) /\ Take(t, current[t])
       \/ ~Free(current[t]) /\ Goto(t, "slow") /\ UNCHANGED lock
    /\ UNCHANGED <<registryVars, threadVars, heapVars, quarantineVars, chunkVars>>

\* The TSDs that a walk from a precedence taken as random may meet, and of those it
\* finds locked, one whose precedence may be the lowest: any.
Candidates == SharedTSDs

\* getTSDAndLockSlow: a TSD found free becomes the current one, or the thread waits for
\* the candidate.
TakeSlow(t) ==
    /\ At(t, "slow")
    /\ Free("TSDs")
    /\ \E tsd \in Candidates :
         \/ /\ Acquire(t, tsd)
            /\ current' = [current EXCEPT ![t] = tsd]
            /\ Take(t, tsd)
         \/ /\ Step(t, "await", [job[t] EXCEPT !.tsd = tsd])
            /\ UNCHANGED <<current, lock>>
    /\ UNCHANGED <<registryVars, initState, rounds, key, round, heapVars,
                   quarantineVars, chunkVars>>

\* As if the candidate were returned without waiting for its lock.
TakeCandidate_Unlocked(t) ==
    /\ At(t, "await")
    /\ current' = [current EXCEPT ![t] = job[t].tsd]
    /\ Take(t, job[t].tsd)
    /\ UNCHANGED <<registryVars, lock, initState, rounds, key, round, heapVars,
                   quarantineVars, chunkVars>>

TakeCandidate(t) ==
    /\ At(t, "await")
    /\ Acquire(t, job[t].tsd)
    /\ current' = [current EXCEPT ![t] = job[t].tsd]
    /\ Take(t, job[t].tsd)
    /\ UNCHANGED <<registryVars, initState, rounds, key, round, heapVars,
                   quarantineVars, chunkVars>>

-----------------------------------------------------------------------------
(* allocate.                                                               *)

Malloc(t) ==
    /\ MayInit(t)
    /\ Call(t, "malloc", None, <<>>)
    /\ UNCHANGED live

\* The classes tried, each larger than the one before.
ClassesFor(work) == ClassOf(NeededSize(work.size, work.align)) .. LargestClassId

\* Pointers whose header lies in the block.
PtrsInto(block, classId) ==
    {p \in Ptrs : p - HeaderSize \in block .. BlockEnd(block, classId) - 1}

\* initChunk: the header, and the marker when the chunk does not begin right behind
\* it.  Older headers of the block are overwritten by the marker or by the program, or
\* lie in between, where nothing looks for one.
WriteHeader(block, ptr, h) ==
    /\ header' = [p \in Ptrs |->
                    IF p = ptr THEN h
                    ELSE IF p \in PtrsInto(block, h.class) THEN NoHeader ELSE header[p]]
    /\ marker' = [marker EXCEPT ![block] = h.offset]

\* The end of allocate, with the block in hand; a resize goes on with the old chunk.
InitChunk(t, block, classId) ==
    LET p == UserPtr(block, job[t].align)
    IN  /\ WriteHeader(block, p, HeaderFor(block, classId, p, job[t].size))
        /\ IF job[t].op = "malloc"
           THEN live' = live \cup {p} /\ Return(t)
           ELSE Step(t, "mark", [job[t] EXCEPT !.tsd = NoTSD, !.result = p])
                /\ UNCHANGED live

\* The Primary part: the first class whose cache has a block or can be refilled, or
\* else the Secondary.
Pop(t) ==
    LET stock   == Stock(t)
        serving == {c \in ClassesFor(job[t]) : CacheAllocate(stock, c).block # None}
        first   == Min(ClassesFor(job[t]))
        c       == Min(serving)
        got     == CacheAllocate(stock, c)
    IN  /\ At(t, "pop")
        /\ InClass(stock.cache, first) = {} => Free("Primary")
        /\ IF serving = {}
           THEN /\ Step(t, "map", [job[t] EXCEPT !.tsd = NoTSD])
                /\ UNCHANGED <<cache, free, chunkVars>>
           ELSE /\ SetStock(t, got.acc)
                /\ InitChunk(t, got.block, c)
        /\ lock' = WithoutTSD(t, lock)
        /\ UNCHANGED <<registryVars, threadVars, unmapped, linked, quarantineVars>>

\* Secondary.allocate; a chunk that cannot be resized stays as it was.
Map(t) ==
    LET fitting == {b \in unmapped :
                      UserPtr(b, job[t].align) + job[t].size <= BlockEnd(b, 0)}
    IN  /\ At(t, "map")
        /\ Free("Secondary")
        /\ IF fitting = {}
           THEN /\ live' = live \cup ({job[t].ptr} \ {None})
                /\ Return(t)
                /\ UNCHANGED <<unmapped, header, marker>>
           ELSE /\ unmapped' = unmapped \ {Min(fitting)}
                /\ InitChunk(t, Min(fitting), 0)
        /\ UNCHANGED <<registryVars, lock, threadVars, cache, free, linked, quarantineVars>>

-----------------------------------------------------------------------------
(* deallocate and reallocate.                                              *)

\* The program gives up a pointer when it passes it on.
Dealloc(t) ==
    \E p \in live : Call(t, "free", p, <<>>) /\ live' = live \ {p}

Realloc(t) ==
    /\ MayInit(t)
    /\ \E p \in live : Call(t, "realloc", p, <<>>) /\ live' = live \ {p}

\* reallocate: keep the block when the new size fits, or allocate another.
Resize(t) ==
    LET p == job[t].ptr
    IN  /\ At(t, "resize")
        /\ IF FitsInPlace(p, header[p], job[t].size)
           THEN /\ header' = [header EXCEPT ![p] = Resized(p, @, job[t].size)]
                /\ live' = live \cup {p}
                /\ Return(t)
           ELSE /\ Goto(t, FirstStage("malloc", job[t]))
                /\ UNCHANGED <<header, live>>
        /\ UNCHANGED <<registryVars, lock, threadVars, heapVars, quarantineVars, marker>>

\* What the call returns to the program at its end.
Finish(t) ==
    /\ live' = live \cup ({job[t].result} \ {None})
    /\ Return(t)

Bypasses(p) ==
    LET size == GetSize(p, header[p])
    IN  \/ limits.cache = 0
        \/ size = 0 \/ size > QuarantineMaxChunkSize
        \/ header[p].class = 0

\* As if the header were only stored for the quarantine.
Mark_NotStored(t) ==
    LET p == job[t].ptr
    IN  /\ At(t, "mark")
        /\ header' = [header EXCEPT ![p].state =
                        IF Bypasses(p) THEN @ ELSE "Quarantined"]
        /\ Goto(t, IF header[p].class = 0 THEN "unmap" ELSE "take")
        /\ UNCHANGED <<registryVars, lock, threadVars, heapVars, quarantineVars,
                       marker, live>>

\* quarantineOrDeallocateChunk up to storeHeader.
Mark(t) ==
    LET p == job[t].ptr
    IN  /\ At(t, "mark")
        /\ header' = [header EXCEPT ![p].state =
                        IF Bypasses(p) THEN "Available" ELSE "Quarantined"]
        /\ Goto(t, IF header[p].class = 0 THEN "unmap" ELSE "take")
        /\ UNCHANGED <<registryVars, lock, threadVars, heapVars, quarantineVars,
                       marker, live>>

\* Into the local cache of the TSD in hand.
Push(t) ==
    LET p == job[t].ptr
    IN  /\ At(t, "push")
        /\ SetStock(t, CacheDeallocate(Stock(t), GetBlockBegin(p, header[p])))
        /\ lock' = WithoutTSD(t, lock)
        /\ Finish(t)
        /\ UNCHANGED <<registryVars, threadVars, unmapped, linked, quarantineVars,
                       header, marker>>

\* Secondary.deallocate
Unmap(t) ==
    LET p == job[t].ptr
    IN  /\ At(t, "unmap")
        /\ Free("Secondary")
        /\ unmapped' = unmapped \cup {GetBlockBegin(p, header[p])}
        /\ Finish(t)
        /\ UNCHANGED <<registryVars, lock, threadVars, cache, free, linked,
                       quarantineVars, header, marker>>
-----------------------------------------------------------------------------
(* The quarantine (GlobalQuarantine).                                      *)

\* After the quarantine a free is over, and a cache that is drained goes on; "locks" is
\* what the step leaves of the locks beside that of the TSD.
EndQuarantine(t, locks) ==
    IF job[t].op \in {"drain", "exit"}
    THEN Step(t, "flush", [job[t] EXCEPT !.batches = <<>>]) /\ lock' = locks /\ UNCHANGED live
    ELSE Finish(t) /\ lock' = WithoutTSD(t, locks)

\* QuarantineCallback.allocate: a batch is a chunk of its class.
NewBatchChunk(block) ==
    WriteHeader(block, block + HeaderSize,
                HeaderFor(block, BatchClass, block + HeaderSize, BatchBytes))

\* put: into the quarantine cache of the TSD in hand, in a batch that is allocated when
\* there is no room.  Without memory for it the process is aborted.
Put(t) ==
    LET p       == job[t].ptr
        tsd     == job[t].tsd
        needed  == NeedsBatch(pending[tsd])
        got     == CacheAllocate(Stock(t), BatchClass)
    IN  /\ At(t, "put")
        /\ needed => got.block # None
        /\ needed /\ InClass(cache[tsd], BatchClass) = {} => Free("Primary")
        /\ IF needed
           THEN /\ SetStock(t, got.acc)
                /\ NewBatchChunk(got.block)
           ELSE UNCHANGED <<cache, free, header, marker>>
        /\ pending' = [pending EXCEPT ![tsd] = Enqueue(@, p, GetSize(p, header[p]),
                                                 got.block + HeaderSize)]
        /\ IF pending'[tsd].size > limits.cache
           THEN Goto(t, "transfer") /\ UNCHANGED <<lock, live>>
           ELSE EndQuarantine(t, lock)
        /\ UNCHANGED <<registryVars, threadVars, unmapped, linked, quarantine>>

OutOfMemory(t) ==
    /\ At(t, "put")
    /\ NeedsBatch(pending[job[t].tsd])
    /\ CacheAllocate(Stock(t), BatchClass).block = None
    /\ pc' = [u \in Threads |-> "aborted"]
    /\ UNCHANGED <<registryVars, lock, threadVars, heapVars, quarantineVars, chunkVars, job>>

\* The critical section of drain and drainAndRecycle, with the test for recycling.
TransferCache(t) ==
    LET tsd == job[t].tsd
    IN  /\ At(t, "transfer")
        /\ Free("Cache")
        /\ quarantine' = Transfer(quarantine, pending[tsd])
        /\ pending' = [pending EXCEPT ![tsd] = EmptyCache]
        /\ IF job[t].op = "drain" THEN Goto(t, "lockrecycle") /\ UNCHANGED <<lock, live>>
           ELSE IF quarantine'.size > limits.max
           THEN Goto(t, "tryrecycle") /\ UNCHANGED <<lock, live>>
           ELSE EndQuarantine(t, lock)
        /\ UNCHANGED <<registryVars, threadVars, heapVars, header, marker>>

\* RecycleMutex.tryLock: another thread that recycles does this one's work too.
TryRecycle(t) ==
    /\ At(t, "tryrecycle")
    /\ \/ Acquire(t, "Recycle") /\ Goto(t, "recycle") /\ UNCHANGED live
       \/ ~Free("Recycle") /\ EndQuarantine(t, lock)
    /\ UNCHANGED <<registryVars, threadVars, heapVars, quarantineVars, header, marker>>

LockRecycle(t) ==
    /\ At(t, "lockrecycle")
    /\ Acquire(t, "Recycle")
    /\ Goto(t, "recycle")
    /\ UNCHANGED <<registryVars, threadVars, heapVars, quarantineVars, chunkVars>>

\* MinSize, 90% of the maximum in integers; a drain leaves nothing.
MinSizeFor(op) == IF op = "drain" THEN 0 ELSE (limits.max \div 10) * 9

Recycle(t) ==
    LET extracted == Extract(quarantine, MinSizeFor(job[t].op))
    IN  /\ At(t, "recycle")
        /\ Free("Cache")
        /\ quarantine' = extracted.kept
        /\ Step(t, "unlock", [job[t] EXCEPT !.batches = extracted.out])
        /\ UNCHANGED <<registryVars, lock, threadVars, heapVars, pending, chunkVars>>

UnlockRecycle(t) ==
    LET locks == [lock EXCEPT !["Recycle"] = NoThread]
    IN  /\ At(t, "unlock")
        /\ IF job[t].batches = <<>>
           THEN EndQuarantine(t, locks)
           ELSE Goto(t, "scrub") /\ lock' = locks /\ UNCHANGED live
        /\ UNCHANGED <<registryVars, threadVars, heapVars, quarantineVars, header, marker>>

\* QuarantineCallback.recycle of a chunk.
Recycled(acc, p) ==
    [CacheDeallocate(acc, GetBlockBegin(p, acc.header[p]))
       EXCEPT !.header[p].state = "Available"]

\* QuarantineCallback.deallocate of a batch.
DeallocatedBatch(acc, p) ==
    [CacheDeallocate(acc, p - HeaderSize) EXCEPT !.header[p].state = "Available"]

\* doRecycle for one batch: its chunks, then the batch itself.
Scrub(t) ==
    LET batch   == Head(job[t].batches)
        left    == Tail(job[t].batches)
        stock   == [cache |-> cache[job[t].tsd], free |-> free, header |-> header]
        emptied == FoldSet(LAMBDA p, acc : Recycled(acc, p), stock, batch.chunks)
        done    == DeallocatedBatch(emptied, batch.at)
    IN  /\ At(t, "scrub")
        /\ SetStock(t, done)
        /\ header' = done.header
        /\ IF left = <<>>
           THEN EndQuarantine(t, lock)
           ELSE Step(t, "scrub", [job[t] EXCEPT !.batches = left]) /\ UNCHANGED <<lock, live>>
        /\ UNCHANGED <<registryVars, threadVars, unmapped, linked, quarantineVars, marker>>

-----------------------------------------------------------------------------
(* drainCaches, and the end of a thread.                                   *)

\* The TSDs that drainCaches reaches: the exclusive registry only knows those of the
\* calling thread and the fallback.
Drainable(t) ==
    IF registry = "shared" THEN SetToSeq(SharedTSDs) ELSE <<t, FallbackTSD>>

DrainCaches(t) ==
    /\ MayInit(t)
    /\ Call(t, "drain", None, Drainable(t))
    /\ UNCHANGED live

LockTSDs(t) ==
    /\ At(t, "locktsds")
    /\ Acquire(t, "TSDs")
    /\ Goto(t, "nexttsd")
    /\ UNCHANGED <<registryVars, threadVars, heapVars, quarantineVars, chunkVars>>

NextTSD(t) ==
    LET work == job[t]
    IN  /\ At(t, "nexttsd")
        /\ IF work.todo = <<>>
           THEN /\ lock' = [l \in Locks |-> IF l = "TSDs" /\ lock[l] = t THEN NoThread
                                            ELSE lock[l]]
                /\ Return(t)
           ELSE /\ IF Head(work.todo) = t THEN UNCHANGED lock
                                          ELSE Acquire(t, Head(work.todo))
                /\ Step(t, "transfer", [work EXCEPT !.tsd = Head(work.todo),
                                                    !.todo = Tail(work.todo)])
        /\ UNCHANGED <<registryVars, threadVars, heapVars, quarantineVars, chunkVars>>

\* Cache.drain, at the end of drainCache and in commitBack.
Flush(t) ==
    LET tsd == job[t].tsd
    IN  /\ At(t, "flush")
        /\ cache[tsd] # {} => Free("Primary")
        /\ free' = free \cup cache[tsd]
        /\ cache' = [cache EXCEPT ![tsd] = {}]
        /\ IF job[t].op = "exit"
           THEN Goto(t, "unlink") /\ UNCHANGED lock
           ELSE /\ Step(t, "nexttsd", [job[t] EXCEPT !.tsd = NoTSD])
                /\ lock' = WithoutTSD(t, lock)
        /\ UNCHANGED <<registryVars, threadVars, unmapped, linked, quarantineVars, chunkVars>>

\* The thread starts to exit: its first round of destructors.
BeginExit(t) ==
    /\ At(t, "idle") /\ round[t] = 0
    /\ \E c \in calls[t] : c.op = "exit"
    /\ round' = [round EXCEPT ![t] = 1]
    /\ key' = [key EXCEPT ![t] = IF @ = "set" THEN "due" ELSE @]
    /\ UNCHANGED <<registryVars, lock, initState, rounds, current, heapVars,
                   quarantineVars, chunkVars, callVars>>

\* The round ends when every key that was set has had its destructor called.
NextRound(t) ==
    /\ At(t, "idle") /\ round[t] \in 1 .. Iterations
    /\ key[t] # "due"
    /\ round' = [round EXCEPT ![t] = @ + 1]
    /\ key' = [key EXCEPT ![t] = IF @ = "set" /\ round'[t] <= Iterations THEN "due" ELSE @]
    /\ UNCHANGED <<registryVars, lock, initState, rounds, current, heapVars,
                   quarantineVars, chunkVars, callVars>>

\* As if the destructor were set once more, for a round that does not come.
TeardownThread_OneMore(t) ==
    /\ At(t, "idle") /\ key[t] = "due"
    /\ \/ /\ rounds[t] > 0
          /\ key' = [key EXCEPT ![t] = "set"]
          /\ UNCHANGED callVars
       \/ /\ rounds[t] = 0
          /\ key' = [key EXCEPT ![t] = "unset"]
          /\ Step(t, "transfer", [NoJob EXCEPT !.op = "exit", !.tsd = t])
    /\ rounds' = [rounds EXCEPT ![t] = IF @ > 0 THEN @ - 1 ELSE @]
    /\ UNCHANGED <<registryVars, lock, initState, round, current, heapVars,
                   quarantineVars, chunkVars>>

\* teardownThread: another round, if there are more to come and the key can be set
\* again, or commitBack.
TeardownThread(t) ==
    /\ At(t, "idle") /\ key[t] = "due"
    /\ \/ /\ rounds[t] > 1
          /\ key' = [key EXCEPT ![t] = "set"]
          /\ UNCHANGED callVars
       \/ /\ key' = [key EXCEPT ![t] = "unset"]
          /\ Step(t, "transfer", [NoJob EXCEPT !.op = "exit", !.tsd = t])
    /\ rounds' = [rounds EXCEPT ![t] = IF @ > 1 THEN @ - 1 ELSE @]
    /\ UNCHANGED <<registryVars, lock, initState, round, current, heapVars,
                   quarantineVars, chunkVars>>

\* GlobalStats.unlink, then TornDown.
Unlink(t) ==
    /\ At(t, "unlink")
    /\ UnlinkStats(t)
    /\ initState' = [initState EXCEPT ![t] = "TornDown"]
    /\ Return(t)
    /\ UNCHANGED <<registryVars, lock, rounds, key, round, current, cache, free,
                   unmapped, quarantineVars, chunkVars>>

-----------------------------------------------------------------------------
(* disable and enable.                                                     *)

\* As if the registry were disabled without its flag.
ExclusiveLocks_NoFlag == <<"Mutex", FallbackTSD>>

\* The exclusive registry; "flag" stands for the store to Disabled.
ExclusiveLocks == <<"Mutex", FallbackTSD, "flag">>

\* The shared one, which does not take MutexTSDs.
SharedLocks == <<"Mutex">> \o SetToSeq(SharedTSDs)

\* As if the quarantine took its locks in the other order.
QuarantineLocks_Swapped == <<"Cache", "Recycle">>

QuarantineLocks == <<"Recycle", "Cache">>

\* The order of disable.
DisableOrder ==
    (IF registry = "shared" THEN SharedLocks ELSE ExclusiveLocks)
    \o <<"Stats">> \o QuarantineLocks \o <<"Primary", "Secondary">>

Disable(t) ==
    /\ round[t] = 0
    /\ Call(t, "disable", None, DisableOrder)
    /\ UNCHANGED live

Disabling(t) ==
    LET next == Head(job[t].todo)
        left == Tail(job[t].todo)
    IN  /\ At(t, "disabling")
        /\ IF next = "flag"
           THEN disabled' = TRUE /\ UNCHANGED lock
           ELSE Acquire(t, next) /\ UNCHANGED disabled
        /\ Step(t, IF left = <<>> THEN "disabled" ELSE "disabling",
                [job[t] EXCEPT !.todo = left])
        /\ UNCHANGED <<registry, limits, calls, initialized, threadVars, heapVars, quarantineVars, chunkVars>>

\* The locks are released in the reverse order, which no other thread can tell.
Enable(t) ==
    /\ At(t, "disabled")
    /\ lock' = [l \in Locks |-> IF lock[l] = t THEN NoThread ELSE lock[l]]
    /\ disabled' = FALSE
    /\ Return(t)
    /\ UNCHANGED <<registry, limits, calls, initialized, threadVars, heapVars, quarantineVars,
                   chunkVars>>

\* InUseBlocks of the Secondary, which its iterateOverBlocks walks.
InUseBlocks == SecondaryBlocks \ unmapped

\* That of the Primary passes every block, free or not.
IteratedBlocks == PrimaryBlocks \cup InUseBlocks

\* getChunkFromBlock: where the chunk of a block begins, behind the marker if there is one.
ChunkFromBlock(block) == block + HeaderSize + marker[block]

\* The chunks that iterateOverChunks reports: their headers are valid and say Allocated.
Reported ==
    {p \in {ChunkFromBlock(b) : b \in IteratedBlocks} \cap Ptrs :
        header[p].state = "Allocated"}

-----------------------------------------------------------------------------

Aborted == \E t \in Threads : At(t, "aborted")

\* Nothing is left to do: every thread has gone, or the process is no more.
Over ==
    /\ (\A t \in Threads : Gone(t)) \/ Aborted
    /\ UNCHANGED vars

Initialize(t) == InitOnce(t) \/ AttachExclusive(t) \/ AttachShared(t)

GetTSD(t) ==
    \/ TakeOwn(t) \/ TakeFallback(t) \/ LockFallback(t)
    \/ TakeCurrent(t) \/ TakeSlow(t) \/ TakeCandidate(t)

Allocate(t) == Malloc(t) \/ Pop(t) \/ Map(t)

Deallocate(t) ==
    Dealloc(t) \/ Realloc(t) \/ Resize(t) \/ Mark(t) \/ Push(t) \/ Unmap(t)

Quarantining(t) ==
    \/ Put(t) \/ OutOfMemory(t) \/ TransferCache(t) \/ TryRecycle(t) \/ LockRecycle(t)
    \/ Recycle(t) \/ UnlockRecycle(t) \/ Scrub(t)

Draining(t) == DrainCaches(t) \/ LockTSDs(t) \/ NextTSD(t) \/ Flush(t)

Exiting(t) == BeginExit(t) \/ NextRound(t) \/ TeardownThread(t) \/ Unlink(t)

Blocking(t) == Disable(t) \/ Disabling(t) \/ Enable(t)

Next ==
    \/ \E t \in Threads : \/ Initialize(t) \/ GetTSD(t) \/ Allocate(t) \/ Deallocate(t)
                          \/ Quarantining(t) \/ Draining(t) \/ Exiting(t) \/ Blocking(t)
    \/ Over

Spec == Init /\ [][Next]_vars

(***************************************************************************)
(* Properties.                                                             *)
(***************************************************************************)

BlockOf(p) == GetBlockBegin(p, header[p])

\* Stages at which the pointer a thread was given has been delivered.
Delivered == {"transfer", "tryrecycle", "lockrecycle", "recycle", "unlock", "scrub"}

\* The pointer that a call still works on, if any.
Passed(t) == IF pc[t] \in Delivered THEN {} ELSE {job[t].ptr} \ {None}

BlocksInHand(t) ==
    {BlockOf(p) : p \in Passed(t) \cup ({job[t].result} \ {None})}

\* The lists of batches, wherever they are.
BatchLists ==
    {quarantine.list} \cup {pending[tsd].list : tsd \in TSDs}
    \cup {job[t].batches : t \in Threads}

AllBatches == UNION {ToSet(list) : list \in BatchLists}
QuarantinedPtrs == UNION {batch.chunks : batch \in AllBatches}
BatchPtrs == {batch.at : batch \in AllBatches}

BlocksOfBatch(batch) == {BlockOf(p) : p \in {batch.at} \cup batch.chunks}

\* The places that hold a block: what it is, whose, and the batch if it is a list.
InSet(place, of, set, block) == IF block \in set THEN {<<place, of, 0>>} ELSE {}

InList(place, of, list, block) ==
    {<<place, of, i>> : i \in {j \in DOMAIN list : block \in BlocksOfBatch(list[j])}}

HoldersInTSD(tsd, block) ==
    InSet("cache", tsd, cache[tsd], block) \cup InList("pending", tsd, pending[tsd].list, block)

HoldersInCall(t, block) ==
    InSet("call", t, BlocksInHand(t), block) \cup InList("batches", t, job[t].batches, block)

OtherHolders(block) ==
    InSet("free", NoTSD, free, block) \cup InSet("unmapped", NoTSD, unmapped, block)
    \cup InSet("live", NoTSD, {BlockOf(p) : p \in live}, block)
    \cup InList("quarantine", NoTSD, quarantine.list, block)

TSDHolders(block) == UNION {HoldersInTSD(tsd, block) : tsd \in TSDs}
CallHolders(block) == UNION {HoldersInCall(t, block) : t \in Threads}

Holders(block) == OtherHolders(block) \cup TSDHolders(block) \cup CallHolders(block)

\* At any time every block is in one place only: free, in one TSD's cache, in one
\* batch of one quarantine, a batch itself, held by the program or in the hands of
\* one call.  A quarantine that recycles a chunk twice, or a cache that is drained
\* while it is used, would hand out the same block twice.
BlocksAccounted == ~Aborted => \A block \in Blocks : Cardinality(Holders(block)) = 1

\* The byte counters of the quarantines are the sizes of what they hold, across
\* transfers, merges and extractions by different threads; what they hold is marked
\* so that QuarantineCallback never reports a corrupted chunk.
QuarantineConsistent ==
    /\ \A c \in {quarantine} \cup {pending[tsd] : tsd \in TSDs} :
         Counted(c, [p \in QuarantinedPtrs |-> GetSize(p, header[p])])
    /\ \A p \in QuarantinedPtrs : header[p].state = "Quarantined"
    /\ \A p \in BatchPtrs :
         header[p] = [NoHeader EXCEPT !.state = "Allocated", !.class = BatchClass,
                                      !.amount = BatchBytes]

\* What isOwned, isPrimaryAllocationPtr and getAllocSize tell a program about pointer p.
IsOwned(p) == header[p].state = "Allocated"
IsPrimaryAllocation(p) == IsOwned(p) /\ header[p].class # 0
AllocSize(p) == GetSize(p, header[p])

\* The memory of a chunk the program holds is inside its block, behind its header and
\* as large as asked for, also where a realloc kept the block; the allocator knows the
\* chunk as its own, and from any byte of it a report finds its block (initChunk,
\* reallocate, isOwned, getAllocSize, findNearestBlock).
ChunksFit ==
    \A p \in live :
      LET block == BlockOf(p)
          size  == AllocSize(p)
      IN  /\ block \in Blocks
          /\ IsOwned(p)
          /\ IsPrimaryAllocation(p) <=> block \in PrimaryBlocks
          /\ ClassOfBlock(block) = header[p].class
          /\ block \in PrimaryBlocks =>
               \A q \in p - HeaderSize .. p + size - 1 : NearestBlock(q) = {block}
          /\ p >= block + HeaderSize
          /\ p + size <= BlockEnd(block, header[p].class)
          /\ \E t \in Threads : \E c \in calls[t] : c.size = size

\* Stages at which a call works with a TSD.
InHand == {"pop", "push", "put", "transfer", "tryrecycle", "lockrecycle", "recycle",
           "unlock", "scrub", "flush"}

\* A TSD is worked with by one thread at a time, its owner or who locked it: its local
\* cache and its part of the quarantine have no locks of their own (getTSDAndLock,
\* drainCaches, teardownThread).
OneThreadInTSD ==
    \A t, u \in Threads :
      t # u /\ pc[t] \in InHand /\ pc[u] \in InHand => job[t].tsd # job[u].tsd

\* The TSDs of a thread that went through its destructors keep no blocks, no quarantined
\* chunks and no statistics that the global ones would read after the thread is gone.
NothingStranded ==
    \A t \in Threads : Gone(t) =>
      cache[t] = {} /\ pending[t] = EmptyCache /\ t \notin linked

\* While a thread has the allocator disabled, no call of another one moves blocks to or
\* from the Primary, the Secondary or the global quarantine, links a TSD or gets one
\* from getTSDAndLock, be it its own: recycle, drain and Unmap wait for enable, too.
StillWhileDisabled ==
    [][(\E t \in Threads : At(t, "disabled") /\ At(t, "disabled")') =>
         /\ UNCHANGED <<free, unmapped, quarantine, linked>>
         /\ \A l \in Locks \ {"TSDs"} : lock'[l] = lock[l]
         /\ \A t \in Threads : At(t, "take") => pc'[t] \in {"take", "fallback", "slow"}]_vars

\* What a thread that disabled the allocator iterates over is every chunk the program
\* holds; beside them, only batches of the quarantine and chunks in the hands of a
\* call that was under way.
IterationSeesLive ==
    (\E t \in Threads : At(t, "disabled")) =>
      /\ live \subseteq Reported
      /\ \A p \in Reported \ live :
           \/ p \in BatchPtrs
           \/ \E t \in Threads : p \in Passed(t) \cup {job[t].result}

\* A lock that a thread waits for.
Awaited(t) ==
    CASE At(t, "disabling") -> Head(job[t].todo)
      [] At(t, "fallback") -> FallbackTSD
      [] At(t, "await") -> job[t].tsd
      [] At(t, "transfer") \/ At(t, "recycle") -> "Cache"
      [] At(t, "lockrecycle") -> "Recycle"
      [] At(t, "locktsds") \/ At(t, "slow") -> "TSDs"
      [] At(t, "nexttsd") /\ job[t].todo # <<>> /\ Head(job[t].todo) # t -> Head(job[t].todo)
      [] At(t, "pop") \/ At(t, "put") \/ At(t, "push") \/ At(t, "scrub") \/ At(t, "flush")
           -> "Primary"
      [] At(t, "map") \/ At(t, "unmap") -> "Secondary"
      [] At(t, "init") -> "Mutex"
      [] At(t, "unlink") \/ At(t, "attach") -> "Stats"
      [] OTHER -> "none"

\* No two threads each hold a lock that the other is about to take: disable takes the
\* locks in an order that agrees with the one in every other operation.
NoCrossedLocks ==
    \A t, u \in Threads : t # u =>
      ~ (/\ Awaited(t) \in Locks /\ lock[Awaited(t)] = u
         /\ Awaited(u) \in Locks /\ lock[Awaited(u)] = t)

=============================================================================
