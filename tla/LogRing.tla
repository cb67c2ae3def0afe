------------------------------- MODULE LogRing -------------------------------
(***************************************************************************)
(* The log ring of one arena in one process: SharedArenaLogRing of         *)
(* shared_arena.h, appendLogPagesLocked of shared_arena_linux.cpp as its   *)
(* producer, and the kernel, which maps the same page, as its consumer.    *)
(* The arena's lock leaves a single producer at a time.  Head and Tail are *)
(* counters of fixed width that index the entries modulo Capacity.         *)
(***************************************************************************)
EXTENDS Naturals, Sequences

CONSTANTS
    Capacity,   \* a power of two
    Width,      \* how many values Head and Tail have, 2^32 in the code
    Entries,    \* log entries, as far as they differ
    None        \* no entry

ASSUME LogRingAssumption ==
    /\ Capacity \in Nat \ {0}
    /\ Width \in Nat
    /\ Capacity < Width
    /\ Width % Capacity = 0
    /\ None \notin Entries

Slots == 0 .. (Capacity - 1)

VARIABLES
    head,       \* LogRing->Head, advanced by the kernel
    tail,       \* LogRing->Tail; LogTailCache never differs from it between calls
    slot,       \* the entries of the ring
    dropped,    \* LogRing->Dropped, modulo 2
    headCache,  \* LogHeadCache
    pc,         \* where the producer is in appendLogPagesLocked
    entry,      \* the entry it appends
    kernel,     \* where the kernel is: "idle", or "copied" an entry it has not released
    copy,       \* the entry it copied
    got         \* the entry it consumed last

vars == <<head, tail, slot, dropped, headCache, pc, entry, kernel, copy, got>>
producerVars == <<tail, slot, dropped, headCache, pc, entry>>
kernelVars == <<head, kernel, copy, got>>

\* Unsigned subtraction, Tail - Head.
Distance(from, to) == (to + Width - from) % Width

\* Tail & LogCapacityMask
SlotOf(c) == c % Capacity

Init ==
    /\ head = 0 /\ tail = 0 /\ headCache = 0
    /\ slot = [s \in Slots |-> None]
    /\ dropped = 0
    /\ pc = "idle" /\ entry = None
    /\ kernel = "idle" /\ copy = None /\ got = None

-----------------------------------------------------------------------------
(***************************************************************************)
(* appendLogPagesLocked.                                                   *)
(***************************************************************************)

A_Call(e) ==
    /\ pc = "idle"
    /\ entry' = e
    /\ pc' = "check"
    /\ UNCHANGED <<kernelVars, tail, slot, dropped, headCache>>

FullFor(h) == Distance(h, tail) >= Capacity

\* The cached head is enough as long as it leaves room.
A_Check ==
    /\ pc = "check"
    /\ pc' = IF FullFor(headCache) THEN "reread" ELSE "write"
    /\ UNCHANGED <<kernelVars, tail, slot, dropped, headCache, entry>>

\* As if the check took the next entry for read.
SeenHead_OneAhead == (head + 1) % Width

SeenHead == head

A_Reread ==
    /\ pc = "reread"
    /\ headCache' = SeenHead
    /\ pc' = IF FullFor(head) THEN "yielded" ELSE "write"
    /\ UNCHANGED <<kernelVars, tail, slot, dropped, entry>>

\* As if Head were not read again after the yield.
LastHead_BeforeYield == headCache

LastHead == head

\* After sched_yield, the last look at Head.
A_LastLook ==
    /\ pc = "yielded"
    /\ headCache' = LastHead
    /\ ~FullFor(LastHead)
    /\ pc' = "write"
    /\ UNCHANGED <<kernelVars, tail, slot, dropped, entry>>

\* Dropped is counted, the entry refused.
A_Refuse ==
    /\ pc = "yielded"
    /\ headCache' = LastHead
    /\ FullFor(LastHead)
    /\ dropped' = 1 - dropped
    /\ pc' = "idle"
    /\ entry' = None
    /\ UNCHANGED <<kernelVars, tail, slot>>

A_Write ==
    /\ pc = "write"
    /\ slot' = [slot EXCEPT ![SlotOf(tail)] = entry]
    /\ pc' = "publish"
    /\ UNCHANGED <<kernelVars, tail, dropped, headCache, entry>>

A_Publish ==
    /\ pc = "publish"
    /\ tail' = (tail + 1) % Width
    /\ pc' = "idle"
    /\ entry' = None
    /\ UNCHANGED <<kernelVars, slot, dropped, headCache>>

-----------------------------------------------------------------------------
(***************************************************************************)
(* The kernel copies the entry at Head, then advances Head.                *)
(***************************************************************************)

K_Copy ==
    /\ kernel = "idle"
    /\ head # tail
    /\ copy' = slot[SlotOf(head)]
    /\ kernel' = "copied"
    /\ UNCHANGED <<producerVars, head, got>>

K_Advance ==
    /\ kernel = "copied"
    /\ head' = (head + 1) % Width
    /\ got' = copy
    /\ copy' = None
    /\ kernel' = "idle"
    /\ UNCHANGED producerVars

Next ==
    \/ \E e \in Entries : A_Call(e)
    \/ A_Check \/ A_Reread \/ A_LastLook \/ A_Refuse \/ A_Write \/ A_Publish
    \/ K_Copy \/ K_Advance

Spec == Init /\ [][Next]_vars

-----------------------------------------------------------------------------
(***************************************************************************)
(* Properties.                                                             *)
(***************************************************************************)

\* LogHeadCache may lag behind Head but never by so much that Tail - LogHeadCache wraps
\* or promises room the ring does not have: what the kernel still has to read fits in
\* what the producer believes is in the ring.
CacheNeverOverstates ==
    /\ Distance(headCache, tail) <= Capacity
    /\ Distance(head, tail) <= Distance(headCache, tail)

\* Behind counters that wrap and an index that is masked, the ring is a first-in
\* first-out queue of Capacity entries: none is lost, duplicated, reordered or half
\* written, and one is refused only when Capacity entries are unread at that moment,
\* which is what SharedArena.tla takes an append to do in one step.
Log == INSTANCE BoundedLog WITH
          queue <- [i \in 1 .. Distance(head, tail) |-> slot[SlotOf((head + i - 1) % Width)]]

ImplementsLog == Log!Spec
=============================================================================
