----------------------------- MODULE ForkedHeap -----------------------------
(***************************************************************************)
(* The pool of arenas and the secondary allocator above it, across         *)
(* processes that start, fork, attach to each other's arenas and die:      *)
(* SharedArenaPool::init and SharedArena::init with the names they leave   *)
(* in /dev/shm, the refresh of a forked child, and MapAllocator::allocate  *)
(* and deallocate with the list of blocks in use.                          *)
(*                                                                         *)
(* The list is private to a process, but its links are in the headers of   *)
(* the blocks, and the headers of arena blocks are in shared memory.       *)
(* retrieve and store are atomic here: SharedArena.tla implements          *)
(* PageArena.tla.  A block is one slot of its arena.                       *)
(***************************************************************************)
EXTENDS Naturals, FiniteSets

CONSTANTS
    Procs,
    NumCores,
    Slots,           \* the blocks of an arena
    Private,         \* the addresses the blocks of the mmap path have
    MaxObjects,      \* bound: shared memory objects made for one name
    Attachers,       \* processes started with SCUDO_SHARED_ARENA_ATTACH
    Mortal,          \* processes that may die at any point
    ForkWhileInUse,  \* a process may fork while it uses arena blocks
    Nil

Cores == 0 .. (NumCores - 1)
Objects == Cores \X (1 .. MaxObjects)
Lent == Cores \X Slots          \* the addresses of arena blocks, the same in all processes
\* Where headers are: in an object, or in memory of the process' own.
Places == (Objects \X Lent) \cup (Procs \X Private)

ASSUME ForkedHeapAssumption ==
    /\ NumCores \in Nat \ {0}
    /\ MaxObjects \in Nat \ {0}
    /\ Attachers \subseteq Procs
    /\ Mortal \subseteq Procs
    /\ ForkWhileInUse \in BOOLEAN
    /\ Private \cap Lent = {}
    /\ Procs \cap Objects = {}
    /\ Nil \notin Objects \cup Lent \cup Private

VARIABLES
    \* shared by all processes
    name,     \* the object behind /scudo_arena_<core>
    made,     \* how many objects were made for the name
    version,  \* Hdr->Version of an object
    free,     \* what retrieve can take from an object
    mem,      \* the LargeBlock headers
    \* of each process
    stage,    \* where it is in SharedArenaPool::init; "run" past it
    core,     \* I, the core whose arena is being initialised
    ok,       \* allOk
    ready,    \* SharedArenaPool::Initialized
    owner,    \* OwnerPid
    mapped,   \* the object an initialised arena maps
    ring,     \* the cores for which the process registered a log ring itself
    first,    \* InUseBlocks
    last,
    holds,    \* the blocks the program has and may free
    orphaned  \* ghost: objects whose formatter died at it

shared == <<name, made, version, free, orphaned>>
pool == <<stage, core, ok, ready, owner, mapped, ring>>
blocks == <<mem, first, last, holds>>
vars == <<name, made, version, free, mem,
          stage, core, ok, ready, owner, mapped, ring, first, last, holds, orphaned>>

InitStages == {"unlink", "open", "cas", "format", "wait", "ring", "finish", "refresh"}

\* The header of memory nobody uses.
Gone == [prev |-> Nil, next |-> Nil, owner |-> Nil]

Init ==
    /\ name = [c \in Cores |-> Nil]
    /\ made = [c \in Cores |-> 0]
    /\ version = [o \in Objects |-> 0]
    /\ free = [o \in Objects |-> Slots]
    /\ mem = [x \in Places |-> Gone]
    /\ stage = [p \in Procs |-> "absent"]
    /\ core = [p \in Procs |-> 0]
    /\ ok = [p \in Procs |-> TRUE]
    /\ ready = [p \in Procs |-> FALSE]
    /\ owner = [p \in Procs |-> Nil]
    /\ mapped = [p \in Procs |-> [c \in Cores |-> Nil]]
    /\ ring = [p \in Procs |-> {}]
    /\ first = [p \in Procs |-> Nil]
    /\ last = [p \in Procs |-> Nil]
    /\ holds = [p \in Procs |-> {}]
    /\ orphaned = {}

-----------------------------------------------------------------------------
(* SharedArenaPool::init                                                   *)

\* Where a call of init by process p begins, given Initialized and OwnerPid.
EnterInit(p, initialized, pid) ==
    IF initialized
    THEN IF pid = p THEN "run" ELSE "refresh"
    ELSE IF p \in Attachers THEN "open" ELSE "unlink"

Start(p) ==
    /\ stage[p] = "absent"
    /\ stage' = [stage EXCEPT ![p] = EnterInit(p, FALSE, Nil)]
    /\ UNCHANGED <<shared, blocks, core, ok, ready, owner, mapped, ring>>

\* What a previous session left under the names is removed; who maps it keeps it.
Unlink(p) ==
    /\ stage[p] = "unlink"
    /\ name' = [name EXCEPT ![core[p]] = Nil]
    /\ IF core[p] + 1 \in Cores
       THEN /\ core' = [core EXCEPT ![p] = @ + 1]
            /\ UNCHANGED stage
       ELSE /\ core' = [core EXCEPT ![p] = 0]
            /\ stage' = [stage EXCEPT ![p] = "open"]
    /\ UNCHANGED <<made, orphaned, version, free, blocks, ok, ready, owner, mapped, ring>>

\* The loop over the cores goes on after the arena of core[p].
NextCore(p) ==
    IF core[p] + 1 \in Cores
    THEN /\ core' = [core EXCEPT ![p] = @ + 1]
         /\ stage' = [stage EXCEPT ![p] = "open"]
    ELSE /\ core' = [core EXCEPT ![p] = 0]
         /\ stage' = [stage EXCEPT ![p] = "finish"]

\* shm_open finds the object under the name or makes one.
Open(p) ==
    LET c == core[p] IN
    /\ stage[p] = "open"
    /\ mapped[p][c] = Nil
    /\ \/ /\ name[c] # Nil
          /\ mapped' = [mapped EXCEPT ![p][c] = name[c]]
          /\ UNCHANGED <<name, made>>
       \/ /\ name[c] = Nil
          /\ made[c] < MaxObjects
          /\ made' = [made EXCEPT ![c] = @ + 1]
          /\ name' = [name EXCEPT ![c] = <<c, made[c] + 1>>]
          /\ mapped' = [mapped EXCEPT ![p][c] = <<c, made[c] + 1>>]
    /\ stage' = [stage EXCEPT ![p] = "cas"]
    /\ UNCHANGED <<version, free, orphaned, blocks, core, ok, ready, owner, ring>>

\* shm_open, ftruncate or mmap fails; MAP_FIXED_NOREPLACE always does when an earlier
\* call of init mapped the arena.
OpenFails(p) ==
    /\ stage[p] = "open"
    /\ NextCore(p)
    /\ ok' = [ok EXCEPT ![p] = FALSE]
    /\ UNCHANGED <<shared, blocks, ready, owner, mapped, ring>>

\* As if the version were loaded and stored without a compare-and-exchange.
CompareVersion_Load(p) ==
    LET o == mapped[p][core[p]] IN
    /\ stage[p] = "cas"
    /\ IF version[o] < 2
       THEN /\ version' = [version EXCEPT ![o] = 1]
            /\ stage' = [stage EXCEPT ![p] = "format"]
       ELSE /\ stage' = [stage EXCEPT ![p] = "wait"]
            /\ UNCHANGED version
    /\ UNCHANGED <<name, made, orphaned, free, blocks, core, ok, ready, owner, mapped, ring>>

\* One process moves Version from 0 to 1 and formats the header; the others spin.
CompareVersion(p) ==
    LET o == mapped[p][core[p]] IN
    /\ stage[p] = "cas"
    /\ IF version[o] = 0
       THEN /\ version' = [version EXCEPT ![o] = 1]
            /\ stage' = [stage EXCEPT ![p] = "format"]
       ELSE /\ stage' = [stage EXCEPT ![p] = "wait"]
            /\ UNCHANGED version
    /\ UNCHANGED <<name, made, orphaned, free, blocks, core, ok, ready, owner, mapped, ring>>

\* As if the formatter left Version at 1.
Format_Silent(p) ==
    LET o == mapped[p][core[p]] IN
    /\ stage[p] = "format"
    /\ free' = [free EXCEPT ![o] = Slots]
    /\ stage' = [stage EXCEPT ![p] = "ring"]
    /\ UNCHANGED <<name, made, orphaned, version, blocks, core, ok, ready, owner, mapped, ring>>

Format(p) ==
    LET o == mapped[p][core[p]] IN
    /\ stage[p] = "format"
    /\ free' = [free EXCEPT ![o] = Slots]
    /\ version' = [version EXCEPT ![o] = 2]
    /\ stage' = [stage EXCEPT ![p] = "ring"]
    /\ UNCHANGED <<name, made, orphaned, blocks, core, ok, ready, owner, mapped, ring>>

Wait(p) ==
    /\ stage[p] = "wait"
    /\ version[mapped[p][core[p]]] = 2
    /\ stage' = [stage EXCEPT ![p] = "ring"]
    /\ UNCHANGED <<shared, blocks, core, ok, ready, owner, mapped, ring>>

\* The kernel takes the ring of process p for core c as its log.
RegisterWithKernel(p, c) == ring' = [ring EXCEPT ![p] = @ \cup {c}]

\* initLogRing and registerWithKernel; when one fails the arena is unmapped.
RegisterRing(p) ==
    LET c == core[p] IN
    /\ stage[p] = "ring"
    /\ \/ /\ RegisterWithKernel(p, c)
          /\ UNCHANGED <<ok, mapped>>
       \/ /\ mapped' = [mapped EXCEPT ![p][c] = Nil]
          /\ ok' = [ok EXCEPT ![p] = FALSE]
          /\ UNCHANGED ring
    /\ NextCore(p)
    /\ UNCHANGED <<shared, blocks, ready, owner>>

Finish(p) ==
    /\ stage[p] = "finish"
    /\ ready' = [ready EXCEPT ![p] = ok[p]]
    /\ owner' = IF ok[p] THEN [owner EXCEPT ![p] = p] ELSE owner
    /\ ok' = [ok EXCEPT ![p] = TRUE]
    /\ stage' = [stage EXCEPT ![p] = "run"]
    /\ UNCHANGED <<shared, blocks, core, mapped, ring>>

\* As if an arena that could not be refreshed did not count.
Refresh_Lenient(p) ==
    /\ stage[p] \in {"refresh", "run"}
    /\ ready[p]
    /\ owner[p] # p
    /\ \E failing \in SUBSET Cores :
          ring' = [ring EXCEPT ![p] = Cores \ failing]
    /\ owner' = [owner EXCEPT ![p] = p]
    /\ stage' = [stage EXCEPT ![p] = "run"]
    /\ UNCHANGED <<shared, blocks, core, ok, ready, mapped>>

\* refreshLogRingForCurrentProcess for every arena, by malloc_enable in the child or by
\* its first call of shouldUseArena.  Each arena keeps the object it maps.
Refresh(p) ==
    /\ stage[p] \in {"refresh", "run"}
    /\ ready[p]
    /\ owner[p] # p
    /\ \E failing \in SUBSET Cores :
          /\ ring' = [ring EXCEPT ![p] = Cores \ failing]
          /\ ready' = [ready EXCEPT ![p] = (failing = {})]
          /\ owner' = IF failing = {} THEN [owner EXCEPT ![p] = p] ELSE owner
    /\ stage' = [stage EXCEPT ![p] = "run"]
    /\ UNCHANGED <<shared, blocks, core, ok, mapped>>

-----------------------------------------------------------------------------
(* The processes                                                           *)

\* The child gets a copy of the private memory and the same shared memory; nobody has
\* registered its rings.  With the handlers of pthread_atfork both sides end the fork
\* in MapAllocator::enable, which calls init.
Fork(p, q) ==
    /\ stage[p] = "run"
    /\ stage[q] = "absent"
    /\ ForkWhileInUse \/ holds[p] \cap Lent = {}
    /\ \E handled \in BOOLEAN :
          stage' = IF handled
                   THEN [stage EXCEPT ![p] = EnterInit(p, ready[p], owner[p]),
                                      ![q] = EnterInit(q, ready[p], owner[p])]
                   ELSE [stage EXCEPT ![q] = "run"]
    /\ ready' = [ready EXCEPT ![q] = ready[p]]
    /\ owner' = [owner EXCEPT ![q] = owner[p]]
    /\ mapped' = [mapped EXCEPT ![q] = mapped[p]]
    /\ first' = [first EXCEPT ![q] = first[p]]
    /\ last' = [last EXCEPT ![q] = last[p]]
    /\ holds' = [holds EXCEPT ![q] = holds[p]]
    /\ mem' = [x \in Places |-> IF x[1] = q THEN mem[<<p, x[2]>>] ELSE mem[x]]
    /\ UNCHANGED <<shared, core, ok, ring>>

\* A process exits or is killed; its blocks stay taken in the arenas.
Die(p) ==
    /\ p \in Mortal
    /\ stage[p] \notin {"absent", "dead", "aborted"}
    /\ stage' = [stage EXCEPT ![p] = "dead"]
    /\ core' = [core EXCEPT ![p] = 0]
    /\ ok' = [ok EXCEPT ![p] = TRUE]
    /\ ready' = [ready EXCEPT ![p] = FALSE]
    /\ owner' = [owner EXCEPT ![p] = Nil]
    /\ mapped' = [mapped EXCEPT ![p] = [c \in Cores |-> Nil]]
    /\ ring' = [ring EXCEPT ![p] = {}]
    /\ first' = [first EXCEPT ![p] = Nil]
    /\ last' = [last EXCEPT ![p] = Nil]
    /\ holds' = [holds EXCEPT ![p] = {}]
    /\ mem' = [x \in Places |-> IF x[1] = p THEN Gone ELSE mem[x]]
    /\ orphaned' = IF stage[p] = "format"
                   THEN orphaned \cup {mapped[p][core[p]]}
                   ELSE orphaned
    /\ UNCHANGED <<name, made, version, free>>

-----------------------------------------------------------------------------
(* MapAllocator                                                            *)

\* Where process p finds the header of the block at address a.
PlaceOf(p, a) == IF a \in Private THEN <<p, a>> ELSE <<mapped[p][a[1]], a>>
HeaderAt(p, a) == mem[PlaceOf(p, a)]

\* InUseBlocks.push_back of a block whose header names process pid, or Nil.
PushBack(p, a, pid) ==
    LET new == [prev |-> last[p], next |-> Nil, owner |-> pid] IN
    /\ mem' = IF first[p] = Nil
              THEN [mem EXCEPT ![PlaceOf(p, a)] = new]
              ELSE [mem EXCEPT ![PlaceOf(p, last[p])].next = a, ![PlaceOf(p, a)] = new]
    /\ first' = IF first[p] = Nil THEN [first EXCEPT ![p] = a] ELSE first
    /\ last' = [last EXCEPT ![p] = a]
    /\ holds' = [holds EXCEPT ![p] = @ \cup {a}]

\* shouldUseArena may say yes.
MayUseArena(p) == ready[p] /\ owner[p] = p

\* getCurrentArena on core c, which may be any: Nil unless this process has initialized it.
CurrentArena(p, c) == IF ready[p] THEN mapped[p][c] ELSE Nil

\* getOwningArena of the block at a.
OwningArena(p, a) == IF ready[p] /\ a \in Lent THEN mapped[p][a[1]] ELSE Nil

\* What tryAllocateFromArena does when the retrieve of that arena finds slot s.
AllocateFromArena(p, c, s) ==
    LET o == CurrentArena(p, c) IN
    /\ stage[p] = "run"
    /\ MayUseArena(p)
    /\ o # Nil
    /\ s \in free[o]
    /\ free' = [free EXCEPT ![o] = @ \ {s}]
    /\ PushBack(p, <<c, s>>, p)
    /\ UNCHANGED <<name, made, orphaned, version, pool>>

\* The cache or mmap, when the arenas are not used or have nothing; shouldUseArena has
\* refreshed the pool of a child before.
AllocatePrivate(p, a) ==
    /\ stage[p] = "run"
    /\ ready[p] => owner[p] = p
    /\ a \notin holds[p]
    /\ PushBack(p, a, Nil)
    /\ UNCHANGED <<shared, pool>>

\* The checks of DoublyLinkedList::remove; without DCHECKs there are no others.
ChecksHold(p, a) ==
    LET h == HeaderAt(p, a) IN
    /\ h.prev # Nil => HeaderAt(p, h.prev).next = a
    /\ h.next # Nil => HeaderAt(p, h.next).prev = a

\* The header of a block that its process is done with is as good as gone: the pages go
\* to the kernel, to the cache or to the next process that retrieves them.
Unchained(p, a) ==
    LET h == HeaderAt(p, a)
        m == IF h.prev = Nil THEN mem ELSE [mem EXCEPT ![PlaceOf(p, h.prev)].next = h.next]
        n == IF h.next = Nil THEN m ELSE [m EXCEPT ![PlaceOf(p, h.next)].prev = h.prev]
    IN  /\ mem' = IF a \in Private \/ h.owner = p
                  THEN [n EXCEPT ![PlaceOf(p, a)] = Gone]
                  ELSE n
        /\ first' = IF first[p] = a THEN [first EXCEPT ![p] = h.next] ELSE first
        /\ last' = IF last[p] = a THEN [last EXCEPT ![p] = h.prev] ELSE last

\* Where deallocate takes a block: an arena takes back what its process retrieved, a
\* block with another pid in its header is left alone, and all else goes to the cache.
IsReturned(p, a) ==
    /\ OwningArena(p, a) # Nil
    /\ HeaderAt(p, a).owner = p

\* The block leaves the list and goes where it belongs; store may refuse it, and it stays
\* taken then.
Release(p, a) ==
    /\ Unchained(p, a)
    /\ holds' = [holds EXCEPT ![p] = @ \ {a}]
    /\ \/ /\ IsReturned(p, a)
          /\ free' = [free EXCEPT ![OwningArena(p, a)] = @ \cup {a[2]}]
       \/ UNCHANGED free
    /\ UNCHANGED stage

\* CHECK_EQ fails: the process dies in reportCheckFailed.
Abort(p) ==
    /\ stage' = [stage EXCEPT ![p] = "aborted"]
    /\ UNCHANGED <<blocks, free>>

Deallocate(p, a) ==
    /\ stage[p] = "run"
    /\ a \in holds[p]
    /\ IF ChecksHold(p, a) THEN Release(p, a) ELSE Abort(p)
    /\ UNCHANGED <<name, made, orphaned, version, core, ok, ready, owner, mapped, ring>>

-----------------------------------------------------------------------------
InitStep(p) ==
    \/ Unlink(p) \/ Open(p) \/ OpenFails(p) \/ CompareVersion(p) \/ Format(p)
    \/ Wait(p) \/ RegisterRing(p) \/ Finish(p) \/ Refresh(p)

Next ==
    \E p \in Procs :
        \/ Start(p)
        \/ InitStep(p)
        \/ \E q \in Procs : Fork(p, q)
        \/ Die(p)
        \/ \E c \in Cores, s \in Slots : AllocateFromArena(p, c, s)
        \/ \E a \in Private : AllocatePrivate(p, a)
        \/ \E a \in holds[p] : Deallocate(p, a)

\* A thread in init runs on until init returns.
Fairness == \A p \in Procs : WF_vars(stage[p] \in InitStages /\ InitStep(p))

Spec == Init /\ [][Next]_vars /\ Fairness

-----------------------------------------------------------------------------
(* Properties                                                              *)

\* The list of process p has its ends among the blocks the process uses, and their links
\* agree in both directions.
ListLinked(p) ==
    LET H == holds[p] IN
    IF H = {}
    THEN first[p] = Nil /\ last[p] = Nil
    ELSE /\ first[p] \in H /\ HeaderAt(p, first[p]).prev = Nil
         /\ last[p] \in H /\ HeaderAt(p, last[p]).next = Nil
         /\ \A a \in H \ {last[p]} :
               LET b == HeaderAt(p, a).next IN b \in H /\ HeaderAt(p, b).prev = a

\* The walk of InUseBlocks of process p by Next, from First on (iterateOverBlocks), comes
\* to every block: a set of blocks that it does not leave has all of them.
WalkIsComplete(p) ==
    \A S \in SUBSET holds[p] :
        /\ first[p] \in S
        /\ \A a \in S : HeaderAt(p, a).next # Nil => HeaderAt(p, a).next \in S
        => S = holds[p]

\* The list of every process, whose links lie partly in memory that other processes
\* write, is a chain of exactly the blocks the process uses, with agreeing links in both
\* directions: no CHECK of remove can fail, and no block is lost from iterateOverBlocks.
ListsIntact == \A p \in Procs : ListLinked(p) /\ WalkIsComplete(p)

\* No two processes use one block of an object, however they came to map it, and a block
\* in use is not one that retrieve may hand out: a late initialiser never formats an
\* object under its users.
NoBlockTwice ==
    \A p \in Procs : \A a \in holds[p] \cap Lent :
        LET o == mapped[p][a[1]] IN
        /\ a[2] \notin free[o]
        /\ \A q \in Procs \ {p} : a \in holds[q] => mapped[q][a[1]] # o

\* A process that has arena blocks can give them back and has them logged: its pool is
\* ready, their arena is mapped and formatted, and it registered the rings of all cores
\* with the kernel itself, since any of them may log the next free.
BorrowersAreReady ==
    \A p \in Procs : \A a \in holds[p] \cap Lent :
        /\ ready[p]
        /\ mapped[p][a[1]] # Nil
        /\ version[mapped[p][a[1]]] = 2
        /\ ring[p] = Cores

\* Whoever spins on Version gets on, unless the process that took Version from 0 to 1 died
\* before it wrote 2; nothing takes over from it.
InitFinishes ==
    \A p \in Procs, o \in Objects :
        (stage[p] = "wait" /\ mapped[p][core[p]] = o)
            ~> (stage[p] # "wait" \/ o \in orphaned)

\* After a fork both processes go on to use the heap: no list check stops them.
ChecksPass == \A p \in Procs : stage[p] # "aborted"
=============================================================================
