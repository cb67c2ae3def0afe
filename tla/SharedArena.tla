----------------------------- MODULE SharedArena -----------------------------
(***************************************************************************)
(* The per-core arenas of shared_arena_linux.cpp, shared by several        *)
(* processes: each arena has a spin lock, a bump offset and an intrusive   *)
(* free list in memory that all processes map, and every process has one   *)
(* log ring per arena, which the kernel drains.  A thread of a process     *)
(* retrieves blocks from the arena of the core it runs on and stores them  *)
(* back into the arena that owns them, logging the free in the ring of the *)
(* core it runs on then.                                                   *)
(*                                                                         *)
(* A step of a thread is one stage of retrieve or store under the lock.    *)
(* The release of a lock belongs to the stage before it, which is the last *)
(* one that touches what the lock protects.                                *)
(***************************************************************************)
EXTENDS FreeList

CONSTANTS
    Threads,
    ProcOf,         \* the process of every thread
    RingCapacity,   \* LogCapacityCache, entries of a log ring
    Requests,       \* the [size, align] retrieve is called with, in units of memory
    PageUnits,      \* getPageSizeCached, in units of memory
    HeaderUnits,    \* MapAllocator::getHeadersSize, in units of memory
    Mortal          \* processes that may die

ASSUME SharedArenaAssumption ==
    /\ ProcOf \in [Threads -> Procs]
    /\ RingCapacity \in Nat \ {0}
    /\ PageUnits \in Nat \ {0}
    /\ HeaderUnits \in Nat \ {0}
    /\ Requests \subseteq [size : Nat, align : Nat \ {0}]
    /\ Mortal \subseteq Procs

VARIABLES
    lock,     \* Hdr->Lock of every arena
    bump,     \* Hdr->BumpOffsetInPages
    list,     \* FreeListHeadPageOff, FreeCount and the headers in the free pages
    ring,     \* entries of a process' ring that the kernel has not consumed
    held,     \* the blocks a process holds: its InUseBlocks in arena memory
    alive,    \* processes that have not died
    pc,       \* the stage of retrieve or store a thread is in
    own,      \* the arena the thread's call is about
    log,      \* the arena in whose ring it logs
    frame,    \* the other locals of the call
    lost,     \* ghost: blocks that neither a process nor an arena has any more
    balance   \* ghost: Alloc entries minus Free entries logged for a page so far

arenaVars == <<lock, bump, list, ring>>
vars == <<lock, bump, list, ring, held, alive, pc, own, log, frame, lost, balance>>

RetrieveStages == {"r_lock", "r_scan", "r_take", "r_place"}
StoreStages == {"s_lock1", "s_lock2", "s_log", "s_find", "s_link", "s_merge"}
Stages == {"idle"} \cup RetrieveStages \cup StoreStages

NoFrame == [off |-> 0, n |-> 0, size |-> 0, align |-> 1,
            best |-> End, prev |-> End, next |-> End]

Init ==
    /\ lock = [a \in Arenas |-> FALSE]
    /\ bump = [a \in Arenas |-> 0]
    /\ list = [a \in Arenas |-> EmptyList]
    /\ ring = [p \in Procs |-> [a \in Arenas |-> 0]]
    /\ held = [p \in Procs |-> {}]
    /\ alive = Procs
    /\ pc = [t \in Threads |-> "idle"]
    /\ own = [t \in Threads |-> 0]
    /\ log = [t \in Threads |-> 0]
    /\ frame = [t \in Threads |-> NoFrame]
    /\ lost = {}
    /\ balance = [a \in Arenas |-> [p \in Pages |-> 0]]

-----------------------------------------------------------------------------
(***************************************************************************)
(* Pieces of the handlers.                                                 *)
(***************************************************************************)

At(t, stage) == ProcOf[t] \in alive /\ pc[t] = stage

Goto(t, stage) == pc' = [pc EXCEPT ![t] = stage]

\* The call is over: the thread's locals are dead.
Return(t) ==
    /\ Goto(t, "idle")
    /\ frame' = [frame EXCEPT ![t] = NoFrame]
    /\ own' = [own EXCEPT ![t] = 0]
    /\ log' = [log EXCEPT ![t] = 0]

FrameBlock(t) == [arena |-> own[t], off |-> frame[t].off, n |-> frame[t].n]

\* How a block gets lost: its store was refused, its process keeps no free list
\* ("quarantined"), or the headers of a block already taken did not fit ("misplaced").
Loss(t, why) == [arena |-> own[t], off |-> frame[t].off, n |-> frame[t].n, why |-> why]

Acquire(a) == ~lock[a] /\ lock' = [lock EXCEPT ![a] = TRUE]

Release(A) == lock' = [a \in Arenas |-> IF a \in A THEN FALSE ELSE lock[a]]

\* appendLogPagesLocked refuses an entry only when the ring is full after Head was
\* read again (LogRing.tla shows the ring behind this count).
RingFull(p, a) == ring[p][a] >= RingCapacity

\* As if an entry named the arena of its ring.
EntryArena_OfRing(t) == log[t]

\* An entry names the arena of its pages, which need not be the arena of the ring.
EntryArena(t) == own[t]

Append(t, change) ==
    /\ ring' = [ring EXCEPT ![ProcOf[t]][log[t]] = @ + 1]
    /\ balance' = [balance EXCEPT ![EntryArena(t)] =
                      [p \in Pages |-> IF p \in PagesOf(FrameBlock(t)) THEN @[p] + change
                                                                       ELSE @[p]]]

\* The client writes its block over whatever headers its pages held.
Overwrite(L, off, n) ==
    [L EXCEPT !.blk = [p \in Pages |-> IF p \in Run(off, n) THEN NoHeader ELSE @[p]]]

NeededPages(size) == (size + HeaderUnits + PageUnits - 1) \div PageUnits

RoundDown(x, align) == align * (x \div align)

\* The user data ends with the block, is aligned downwards, and must leave room for
\* the headers before it.
HeaderFits(f) ==
    LET base == f.off * PageUnits
        limit == base + f.n * PageUnits
        allocPos == RoundDown(limit - f.size, f.align)
    IN  allocPos - HeaderUnits >= base /\ allocPos <= limit

-----------------------------------------------------------------------------
(***************************************************************************)
(* SharedArena::retrieve, called by tryAllocateFromArena.                  *)
(***************************************************************************)

R_Call(t) ==
    /\ At(t, "idle")
    /\ \E a \in Arenas, r \in Requests :
          /\ own' = [own EXCEPT ![t] = a]
          /\ log' = [log EXCEPT ![t] = a]
          /\ frame' = [frame EXCEPT ![t] =
                          [NoFrame EXCEPT !.size = r.size, !.align = r.align,
                                          !.n = NeededPages(r.size)]]
    /\ Goto(t, "r_lock")
    /\ UNCHANGED <<arenaVars, held, alive, lost, balance>>

R_Lock(t) ==
    /\ At(t, "r_lock")
    /\ Acquire(own[t])
    /\ Goto(t, "r_scan")
    /\ UNCHANGED <<bump, list, ring, held, alive, own, log, frame, lost, balance>>

\* As if no process skipped the free list.
SkipsList_Never(t) == FALSE

\* sharedArenaFreelistDisabled, which a process reads from its environment.
SkipsList(t) == ProcOf[t] \in NoFreelist

R_Scan(t) ==
    /\ At(t, "r_scan")
    /\ LET found == BestFit(list[own[t]], frame[t].n)
       IN  /\ list' = [list EXCEPT ![own[t]] = IF SkipsList(t) THEN @ ELSE found.list]
           /\ frame' = [frame EXCEPT ![t].best = IF SkipsList(t) THEN End ELSE found.best]
    /\ Goto(t, "r_take")
    /\ UNCHANGED <<lock, bump, ring, held, alive, own, log, lost, balance>>

R_TakeFree(t) ==
    /\ At(t, "r_take")
    /\ frame[t].best # End
    /\ LET a == own[t]  f == frame[t]
       IN  /\ frame' = [frame EXCEPT ![t].off = TakenAt(list[a], f.best, f.n)]
           /\ list' = [list EXCEPT ![a] = Take(@, f.best, f.n)]
    /\ Goto(t, "r_place")
    /\ UNCHANGED <<lock, bump, ring, held, alive, own, log, lost, balance>>

R_TakeBump(t) ==
    /\ At(t, "r_take")
    /\ frame[t].best = End
    /\ bump[own[t]] + frame[t].n <= TotalPages
    /\ frame' = [frame EXCEPT ![t].off = bump[own[t]]]
    /\ bump' = [bump EXCEPT ![own[t]] = @ + frame[t].n]
    /\ Goto(t, "r_place")
    /\ UNCHANGED <<lock, list, ring, held, alive, own, log, lost, balance>>

\* Neither the list nor the bump area can provide the block: return false.
R_Exhausted(t) ==
    /\ At(t, "r_take")
    /\ frame[t].best = End
    /\ bump[own[t]] + frame[t].n > TotalPages
    /\ Release({own[t]})
    /\ Return(t)
    /\ UNCHANGED <<bump, list, ring, held, alive, lost, balance>>

\* The headers do not fit: return false, and leave the block taken.
R_Misplaced(t) ==
    /\ At(t, "r_place")
    /\ ~HeaderFits(frame[t])
    /\ lost' = lost \cup {Loss(t, "misplaced")}
    /\ Release({own[t]})
    /\ Return(t)
    /\ UNCHANGED <<bump, list, ring, held, alive, balance>>

\* Log the Alloc, unlock; the client then fills its block.
R_Log(t) ==
    /\ At(t, "r_place")
    /\ HeaderFits(frame[t])
    /\ ~RingFull(ProcOf[t], own[t])
    /\ Append(t, 1)
    /\ list' = [list EXCEPT ![own[t]] = Overwrite(@, frame[t].off, frame[t].n)]
    /\ held' = [held EXCEPT ![ProcOf[t]] = @ \cup {FrameBlock(t)}]
    /\ Release({own[t]})
    /\ Return(t)
    /\ UNCHANGED <<bump, alive, lost>>

\* As if the rollback left the bump offset where it is.
UndoneBump_Forgotten(t) == bump[own[t]]

UndoneBump(t) == bump[own[t]] - frame[t].n

\* The ring is full: give the block back to where it came from, return false.
R_Undo(t) ==
    /\ At(t, "r_place")
    /\ HeaderFits(frame[t])
    /\ RingFull(ProcOf[t], own[t])
    /\ LET a == own[t]  f == frame[t]
       IN  IF f.best # End
           THEN /\ list' = [list EXCEPT ![a] = PutBack(@, f.best, f.off, f.n)]
                /\ UNCHANGED bump
           ELSE /\ bump' = [bump EXCEPT ![a] = UndoneBump(t)]
                /\ UNCHANGED list
    /\ Release({own[t]})
    /\ Return(t)
    /\ UNCHANGED <<ring, held, alive, lost, balance>>

-----------------------------------------------------------------------------
(***************************************************************************)
(* SharedArena::store, called by MapAllocator::deallocate with a block the *)
(* process holds, so that the range checks at its start pass; the log      *)
(* arena is the one of the core the thread runs on, or the owner itself.   *)
(***************************************************************************)

S_Call(t) ==
    /\ At(t, "idle")
    /\ \E b \in held[ProcOf[t]], a \in Arenas :
          /\ held' = [held EXCEPT ![ProcOf[t]] = @ \ {b}]
          /\ own' = [own EXCEPT ![t] = b.arena]
          /\ log' = [log EXCEPT ![t] = a]
          /\ frame' = [frame EXCEPT ![t] = [NoFrame EXCEPT !.off = b.off, !.n = b.n]]
    /\ Goto(t, "s_lock1")
    /\ UNCHANGED <<arenaVars, alive, lost, balance>>

\* As if the owner's arena were always locked first.
LogFirst_Never(t) == FALSE

\* Two arenas are locked in the order of their CoreIds.
LogFirst(t) == log[t] < own[t]

FirstLock(t) == IF LogFirst(t) THEN log[t] ELSE own[t]
SecondLock(t) == IF LogFirst(t) THEN own[t] ELSE log[t]

S_Lock1(t) ==
    /\ At(t, "s_lock1")
    /\ Acquire(FirstLock(t))
    /\ Goto(t, IF log[t] = own[t] THEN "s_log" ELSE "s_lock2")
    /\ UNCHANGED <<bump, list, ring, held, alive, own, log, frame, lost, balance>>

S_Lock2(t) ==
    /\ At(t, "s_lock2")
    /\ Acquire(SecondLock(t))
    /\ Goto(t, "s_log")
    /\ UNCHANGED <<bump, list, ring, held, alive, own, log, frame, lost, balance>>

\* As if the log arena were unlocked early even when it is the owner.
EarlyUnlock_Always(t) == {log[t]}

\* The locks dropped once the Free is logged, and those dropped when it is refused.
EarlyUnlock(t) == {log[t]} \ {own[t]}

\* As if a refusal forgot the owner's lock.
RefusalUnlock_LogOnly(t) == {log[t]}

RefusalUnlock(t) == {log[t], own[t]}

\* Log the Free, unlock the log arena unless it is the owner.
S_Log(t) ==
    /\ At(t, "s_log")
    /\ ~RingFull(ProcOf[t], log[t])
    /\ ~SkipsList(t)
    /\ Append(t, -1)
    /\ Release(EarlyUnlock(t))
    /\ Goto(t, "s_find")
    /\ UNCHANGED <<bump, list, held, alive, own, log, frame, lost>>

\* The process keeps no free list: the logged block is never handed out again.
S_Quarantine(t) ==
    /\ At(t, "s_log")
    /\ ~RingFull(ProcOf[t], log[t])
    /\ SkipsList(t)
    /\ Append(t, -1)
    /\ Release({log[t], own[t]})
    /\ lost' = lost \cup {Loss(t, "quarantined")}
    /\ Return(t)
    /\ UNCHANGED <<bump, list, held, alive>>

\* The ring is full: return false.  The caller has already forgotten the block.
S_Refused(t) ==
    /\ At(t, "s_log")
    /\ RingFull(ProcOf[t], log[t])
    /\ Release(RefusalUnlock(t))
    /\ lost' = lost \cup {Loss(t, "refused")}
    /\ Return(t)
    /\ UNCHANGED <<bump, list, ring, held, alive, balance>>

S_Find(t) ==
    /\ At(t, "s_find")
    /\ LET place == FindPlace(list[own[t]], frame[t].off)
       IN  /\ list' = [list EXCEPT ![own[t]] = place.list]
           /\ frame' = [frame EXCEPT ![t].prev = place.prev, ![t].next = place.next]
    /\ Goto(t, "s_link")
    /\ UNCHANGED <<lock, bump, ring, held, alive, own, log, lost, balance>>

S_Link(t) ==
    /\ At(t, "s_link")
    /\ LET f == frame[t]
       IN  list' = [list EXCEPT ![own[t]] = Link(@, f.off, f.n, f.prev, f.next)]
    /\ Goto(t, "s_merge")
    /\ UNCHANGED <<lock, bump, ring, held, alive, own, log, frame, lost, balance>>

S_Merge(t) ==
    /\ At(t, "s_merge")
    /\ LET new == frame[t].off
       IN  list' = [list EXCEPT ![own[t]] = MergePrev(MergeNext(@, new), new)]
    /\ Release({own[t]})
    /\ Return(t)
    /\ UNCHANGED <<bump, ring, held, alive, lost, balance>>

-----------------------------------------------------------------------------
(***************************************************************************)
(* The environment.                                                        *)
(***************************************************************************)

\* The kernel takes an entry from a ring.
Consume(p, a) ==
    /\ ring[p][a] > 0
    /\ ring' = [ring EXCEPT ![p][a] = @ - 1]
    /\ UNCHANGED <<lock, bump, list, held, alive, pc, own, log, frame, lost, balance>>

\* A process dies; the lock words stay as they are, since they are shared memory.
Crash(p) ==
    /\ p \in Mortal \cap alive
    /\ alive' = alive \ {p}
    /\ UNCHANGED <<arenaVars, held, pc, own, log, frame, lost, balance>>

Retrieve(t) ==
    \/ R_Lock(t) \/ R_Scan(t) \/ R_TakeFree(t) \/ R_TakeBump(t) \/ R_Exhausted(t)
    \/ R_Misplaced(t) \/ R_Log(t) \/ R_Undo(t)

Store(t) ==
    \/ S_Lock1(t) \/ S_Lock2(t) \/ S_Log(t) \/ S_Quarantine(t) \/ S_Refused(t)
    \/ S_Find(t) \/ S_Link(t) \/ S_Merge(t)

Call(t) == R_Call(t) \/ S_Call(t)

Next ==
    \/ \E t \in Threads : Call(t) \/ Retrieve(t) \/ Store(t)
    \/ \E p \in Procs : Crash(p) \/ \E a \in Arenas : Consume(p, a)

Spec == Init /\ [][Next]_vars

\* A running thread takes its next step; a spin lock promises its waiters no more.
FairSpec == Spec /\ \A t \in Threads : WF_vars(Retrieve(t) \/ Store(t))

-----------------------------------------------------------------------------
(***************************************************************************)
(* Properties.                                                             *)
(***************************************************************************)

\* The locks a thread holds.
Holds(t) ==
    CASE pc[t] \in {"r_scan", "r_take", "r_place", "s_find", "s_link", "s_merge"} -> {own[t]}
      [] pc[t] = "s_lock2" -> {FirstLock(t)}
      [] pc[t] = "s_log"   -> {own[t], log[t]}
      [] OTHER             -> {}

\* The lock a thread spins on.
Awaits(t) ==
    CASE pc[t] = "r_lock"  -> {own[t]}
      [] pc[t] = "s_lock1" -> {FirstLock(t)}
      [] pc[t] = "s_lock2" -> {SecondLock(t)}
      [] OTHER             -> {}

\* A thread that has taken a block out of the arena but not yet logged it.
Taking(t) == pc[t] = "r_place"

\* A thread whose block is on its way back but not yet in the list.
Storing(t) == pc[t] \in {"s_lock1", "s_lock2", "s_log", "s_find", "s_link"}

\* An arena's lock word is set exactly while one thread, of whatever process, is
\* between lock() and unlock() of that arena: nobody else touches its list, its bump
\* offset or a ring logged to under it.
MutualExclusion ==
    \A a \in Arenas :
        /\ \A t, u \in Threads : a \in Holds(t) /\ a \in Holds(u) => t = u
        /\ lock[a] <=> \E t \in Threads : a \in Holds(t)

\* store takes the owner's and the log arena's lock in the order of their CoreIds:
\* no two threads ever wait for a lock the other one holds.
NoDeadlockedPair ==
    \A t, u \in Threads :
        ~(Awaits(t) \cap Holds(u) # {} /\ Awaits(u) \cap Holds(t) # {})

\* The list of an arena nobody is changing is a doubly linked, address-ordered chain of
\* FreeCount blocks below the bump offset, and no two of them overlap or touch.
ListIntact ==
    \A a \in Arenas :
        (\A t \in Threads : a \notin Holds(t)) =>
            WellFormed(list[a], bump[a])

\* The blocks outside the list of arena a: held, on their way, or lost.
BlocksOut(a) ==
    {b \in UNION {held[p] : p \in Procs} : b.arena = a}
    \cup {FrameBlock(t) : t \in {u \in Threads : own[u] = a /\ (Taking(u) \/ Storing(u))}}
    \cup {[arena |-> b.arena, off |-> b.off, n |-> b.n] : b \in {x \in lost : x.arena = a}}

\* Every page below the bump offset is in the free list or in exactly one block that
\* is held, on its way or lost: no page is handed out twice, none disappears silently.
PagesAccounted ==
    \A a \in Arenas :
        LET out == BlocksOut(a)
            outPages == UNION {PagesOf(b) : b \in out}
            freePages == FreePages(list[a])
        IN  /\ \A b, c \in out : b = c \/ PagesOf(b) \cap PagesOf(c) = {}
            /\ outPages \cap freePages = {}
            /\ outPages \cup freePages = Run(0, bump[a])

\* The pages the log entries of all processes, in every ring, say are allocated are
\* those of held blocks, of stores that have not logged yet and of refused stores; a
\* rollback, a quarantined or a misplaced block leaves no entry behind.
LogAgrees ==
    \A a \in Arenas :
        LET logged == {b \in UNION {held[p] : p \in Procs} : b.arena = a}
                \cup {b \in lost : b.arena = a /\ b.why = "refused"}
                \cup {FrameBlock(t) : t \in {u \in Threads :
                         own[u] = a /\ pc[u] \in {"s_lock1", "s_lock2", "s_log"}}}
        IN  \A p \in Pages :
               balance[a][p] = IF \E b \in logged : p \in PagesOf(b) THEN 1 ELSE 0

\* The promise: pages come from the tail of a best-fitting free run or else from the
\* bump area, and come back, as PageArena.tla says.  A retrieve takes effect when its
\* entry is logged, a store when its block is linked; rollbacks and merges are invisible.
AbsFree == [a \in Arenas |->
    FreePages(list[a]) \cup
        UNION {PagesOf(FrameBlock(t)) : t \in {u \in Threads :
                  Taking(u) /\ own[u] = a /\ frame[u].best # End}}]

AbsBump == [a \in Arenas |->
    IF \E t \in Threads : Taking(t) /\ own[t] = a /\ frame[t].best = End
    THEN frame[CHOOSE t \in Threads : Taking(t) /\ own[t] = a].off
    ELSE bump[a]]

AbsOut == [p \in Procs |->
    held[p] \cup {FrameBlock(t) : t \in {u \in Threads : ProcOf[u] = p /\ Storing(u)}}]

AbsLost == {[arena |-> b.arena, off |-> b.off, n |-> b.n] : b \in lost}

Promise == INSTANCE PageArena WITH
              free <- AbsFree, bump <- AbsBump, out <- AbsOut, lost <- AbsLost

KeepsPromise == Promise!Spec

\* When calls stop arriving and no process died while it held a lock, every call of a
\* living process returns, whatever mix of arenas the calls lock.
CallsFinish ==
    (/\ <>[][\A t \in Threads : ~Call(t)]_vars
     /\ [](\A t \in Threads : ProcOf[t] \notin alive => Holds(t) = {}))
    => <>[](\A t \in Threads : ProcOf[t] \in alive => pc[t] = "idle")
=============================================================================
