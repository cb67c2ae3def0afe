--------------------------- MODULE ArenaGeometry ---------------------------
(***************************************************************************)
(* The shape of the shared arenas (shared_arena.h), and the processes that *)
(* map them.  Memory is counted in pages from the arena's DataBase.        *)
(***************************************************************************)
EXTENDS Integers

CONSTANTS
    TotalPages,   \* Hdr->TotalDataPages, the same for every arena
    NumArenas,    \* cores, hence arenas, numbered from 0 by CoreId
    Procs,        \* processes that map the arenas
    NoFreelist    \* those started with SCUDO_SHARED_ARENA_DISABLE_FREELIST

ASSUME GeometryAssumption ==
    /\ TotalPages \in Nat \ {0}
    /\ NumArenas \in Nat \ {0}
    /\ NoFreelist \subseteq Procs

Arenas == 0 .. (NumArenas - 1)

Pages == 0 .. (TotalPages - 1)

\* The pages of a block of n pages that starts at page off.
Run(off, n) == off .. (off + n - 1)

\* CommitBase and CommitSize of a block.
Blocks == [arena : Arenas, off : Pages, n : 1 .. TotalPages]

PagesOf(b) == Run(b.off, b.n)
=============================================================================
