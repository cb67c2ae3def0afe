------------------------------ MODULE FreeList ------------------------------
(***************************************************************************)
(* The intrusive free list of one shared arena (shared_arena_linux.cpp):   *)
(* a doubly linked list in address order, whose nodes are headers written  *)
(* into the first page of every free block.  Offsets and sizes are counted *)
(* in pages.  The operators are the pointer updates of SharedArena::store  *)
(* and SharedArena::retrieve; SharedArena.tla decides when they run.       *)
(***************************************************************************)
EXTENDS ArenaGeometry, FiniteSets

CONSTANT End   \* kFreeListEnd

ASSUME EndAssumption == End \notin Nat

(***************************************************************************)
(* FreeBlockHeader: "magic" says whether Magic holds kFreeBlockMagic, prev *)
(* and next are pages or End, size is a number of pages.                   *)
(***************************************************************************)

\* A page that holds no header: fresh memory, a client's data, or a header whose
\* Magic a merge has cleared (nothing reads the other fields of such a header).
NoHeader == [magic |-> FALSE, prev |-> End, next |-> End, size |-> 0]

EmptyList == [head |-> End, count |-> 0, blk |-> [p \in Pages |-> NoHeader]]

-----------------------------------------------------------------------------

\* sharedArenaFreeBlockLooksValid.  Every link written is an
\* offset in the arena or End.
LooksValid(L, off) ==
    LET h == L.blk[off] IN h.magic /\ h.size # 0 /\ h.size <= TotalPages - off

\* Both walks answer a node that does not look valid by forgetting the list.
Dropped(L) == [L EXCEPT !.head = End, !.count = 0]

\* Where the links lead from the head, one node after the other; there are no more
\* nodes than pages.
Trail(L) ==
    LET node[k \in 1 .. (TotalPages + 1)] ==
            IF k = 1 THEN L.head
            ELSE IF node[k - 1] = End THEN End ELSE L.blk[node[k - 1]].next
    IN  node

\* A walk from the head to the first node that ends the list, does not look valid
\* or is among stops: where it ended, the node before, and the valid nodes seen.
Walk(L, stops) ==
    LET node == Trail(L)
        Bad(k) == node[k] # End /\ ~LooksValid(L, node[k])
        Halts(k) == node[k] = End \/ Bad(k) \/ node[k] \in stops
        last == CHOOSE k \in 1 .. (TotalPages + 1) :
                    Halts(k) /\ \A j \in 1 .. (k - 1) : ~Halts(j)
    IN  [at      |-> node[last],
         prev    |-> IF last = 1 THEN End ELSE node[last - 1],
         corrupt |-> Bad(last),
         seen    |-> {node[j] : j \in 1 .. last} \ (IF Bad(last) THEN {node[last]} ELSE {End})]

-----------------------------------------------------------------------------
(***************************************************************************)
(* store: find the first node behind the new block, link the block before  *)
(* it, then merge with the successor and with the predecessor.             *)
(***************************************************************************)

\* The list (dropped when corrupt) and the neighbours of a block at page new.
FindPlace(L, new) ==
    LET w == Walk(L, {off \in Pages : off > new})
    IN  IF w.corrupt THEN [list |-> Dropped(L), prev |-> End, next |-> End]
                     ELSE [list |-> L, prev |-> w.prev, next |-> w.at]

\* Link's and Merge's assignment of a neighbour's back pointer.
SetPrev(blk, off, prev) ==
    IF off = End THEN blk ELSE [blk EXCEPT ![off].prev = prev]

Link(L, new, n, prev, next) ==
    LET new_blk == [L.blk EXCEPT ![new] =
                       [magic |-> TRUE, prev |-> prev, next |-> next, size |-> n]]
        fwd_blk == IF prev = End THEN new_blk
                                 ELSE [new_blk EXCEPT ![prev].next = new]
    IN  [head  |-> IF prev = End THEN new ELSE L.head,
         count |-> L.count + 1,
         blk   |-> SetPrev(fwd_blk, next, new)]

\* As if the block behind the merged pair kept its Prev.
Absorb_NoBackLink(L, low, high) ==
    LET h == L.blk[high]
    IN  [L EXCEPT !.count = @ - 1,
                  !.blk[low].size = @ + h.size, !.blk[low].next = h.next,
                  !.blk[high] = NoHeader]

\* Block low swallows block high, its successor.
Absorb(L, low, high) ==
    LET h == L.blk[high]
        grown == [L.blk EXCEPT ![low].size = @ + h.size, ![low].next = h.next]
    IN  [L EXCEPT !.count = @ - 1,
                  !.blk   = [SetPrev(grown, h.next, low) EXCEPT ![high] = NoHeader]]

MergeNext(L, new) ==
    LET next == L.blk[new].next
    IN  IF next # End /\ new + L.blk[new].size = next THEN Absorb(L, new, next) ELSE L

MergePrev(L, new) ==
    LET prev == L.blk[new].prev
    IN  IF prev # End /\ prev + L.blk[prev].size = new THEN Absorb(L, prev, new) ELSE L

-----------------------------------------------------------------------------
(***************************************************************************)
(* retrieve: pick the first of the smallest blocks that fit, take it whole *)
(* or cut its tail off, and put it back when the log refuses the entry.    *)
(***************************************************************************)

\* As if the scan kept its first match.
Better_FirstFit(L, off, o) == off <= o

\* The scan replaces its choice only by a smaller block.
Better(L, off, o) ==
    L.blk[off].size < L.blk[o].size \/ (L.blk[off].size = L.blk[o].size /\ off <= o)

\* FreeCount = 0 skips the walk; a corrupt list is dropped and offers nothing.
BestFit(L, need) ==
    LET w   == Walk(L, {off \in Pages : L.blk[off].size = need})
        fit == {off \in w.seen : L.blk[off].size >= need}
        best == CHOOSE off \in fit : \A o \in fit : Better(L, off, o)
    IN  IF L.count = 0 THEN [list |-> L, best |-> End]
        ELSE IF w.corrupt THEN [list |-> Dropped(L), best |-> End]
        ELSE [list |-> L, best |-> IF fit = {} THEN End ELSE best]

\* The links of the list point past block off (or back at it, when target = off).
Redirect(L, off, fwd, back) ==
    LET h == L.blk[off]
        blk1 == IF h.prev = End THEN L.blk ELSE [L.blk EXCEPT ![h.prev].next = fwd]
    IN  [L EXCEPT !.head = IF h.prev = End THEN fwd ELSE @,
                  !.blk  = SetPrev(blk1, h.next, back)]

\* Where the allocation starts when block best provides it.
TakenAt(L, best, need) == best + L.blk[best].size - need

Take(L, best, need) ==
    LET h == L.blk[best]
    IN  IF h.size = need
        THEN [Redirect(L, best, h.next, h.prev) EXCEPT
                 !.count = @ - 1, !.blk[best].magic = FALSE]
        ELSE [L EXCEPT !.blk[best].size = @ - need]

\* The rollback of Take; off is where the allocation started.
PutBack(L, best, off, need) ==
    IF off = best
    THEN [Redirect(L, best, best, best) EXCEPT !.count = @ + 1, !.blk[best].magic = TRUE]
    ELSE [L EXCEPT !.blk[best].size = @ + need]

-----------------------------------------------------------------------------
(***************************************************************************)
(* What the list means.                                                    *)
(***************************************************************************)

FreePages(L) ==
    UNION {Run(off, L.blk[off].size) : off \in Walk(L, {}).seen}

\* The chain has FreeCount valid nodes in address order, back pointers mirror forward
\* pointers, every block ends below page limit, and no two of them overlap or touch.
WellFormed(L, limit) ==
    LET w == Walk(L, {})
    IN  /\ ~w.corrupt
        /\ L.count = Cardinality(w.seen)
        /\ L.head # End => L.blk[L.head].prev = End
        /\ \A off \in w.seen :
              LET h == L.blk[off]
              IN  /\ off + h.size <= limit
                  /\ h.next # End => off + h.size < h.next /\ L.blk[h.next].prev = off
=============================================================================
