------------------------------ MODULE PageArena ------------------------------
(***************************************************************************)
(* What SharedArena::retrieve and SharedArena::store promise about the     *)
(* pages of the arenas, without locks, headers or rings: a block comes     *)
(* from the tail of a smallest free run that fits, or from the bump area   *)
(* when none does, and stays with its process until it is given back.      *)
(* SharedArena.tla is shown to implement this specification.               *)
(***************************************************************************)
EXTENDS ArenaGeometry

VARIABLES
    free,   \* the free pages of every arena below its bump offset
    bump,   \* pages from here on were never handed out
    out,    \* the blocks every process has
    lost    \* blocks nobody will ever have again

vars == <<free, bump, out, lost>>

Init ==
    /\ free = [a \in Arenas |-> {}]
    /\ bump = [a \in Arenas |-> 0]
    /\ out = [p \in Procs |-> {}]
    /\ lost = {}

\* The n pages from off are in F and the pages around them are not.
IsRun(F, off, n) ==
    /\ Run(off, n) \subseteq F
    /\ off - 1 \notin F
    /\ off + n \notin F

\* F has a run whose length is among N.
HasRun(F, N) == \E off \in F, n \in N : IsRun(F, off, n)

\* Block b leaves the arena for process p: it is the tail of a run that is as short as
\* a fitting run can be.
TakeFree(p, b) ==
    /\ p \notin NoFreelist
    /\ LET F == free[b.arena]
       IN  \E n \in b.n .. TotalPages :
              /\ IsRun(F, b.off + b.n - n, n)
              /\ ~HasRun(F, b.n .. (n - 1))
    /\ free' = [free EXCEPT ![b.arena] = @ \ PagesOf(b)]
    /\ UNCHANGED bump

TakeBump(p, b) ==
    /\ b.off = bump[b.arena]
    /\ b.off + b.n <= TotalPages
    /\ p \in NoFreelist \/ ~HasRun(free[b.arena], b.n .. TotalPages)
    /\ bump' = [bump EXCEPT ![b.arena] = @ + b.n]
    /\ UNCHANGED free

\* A retrieve that succeeds, and one that fails to place the headers in its block.
Obtain(p, b) ==
    /\ out' = [out EXCEPT ![p] = @ \cup {b}]
    /\ TakeFree(p, b) \/ TakeBump(p, b)
    /\ UNCHANGED lost

Misplace(p, b) ==
    /\ lost' = lost \cup {b}
    /\ TakeFree(p, b) \/ TakeBump(p, b)
    /\ UNCHANGED out

\* A store that succeeds, and one that is refused or keeps no list.
GiveBack(p, b) ==
    /\ b \in out[p]
    /\ out' = [out EXCEPT ![p] = @ \ {b}]
    /\ free' = [free EXCEPT ![b.arena] = @ \cup PagesOf(b)]
    /\ UNCHANGED <<bump, lost>>

Forget(p, b) ==
    /\ b \in out[p]
    /\ out' = [out EXCEPT ![p] = @ \ {b}]
    /\ lost' = lost \cup {b}
    /\ UNCHANGED <<free, bump>>

Next ==
    \E p \in Procs, b \in Blocks :
        Obtain(p, b) \/ Misplace(p, b) \/ GiveBack(p, b) \/ Forget(p, b)

Spec == Init /\ [][Next]_vars

-----------------------------------------------------------------------------

\* Two different claims on pages of an arena, by whatever processes or as lost blocks,
\* never share a page, and a claimed page is not free: retrieve hands out no page twice.
GrantedOnce ==
    /\ \A p, q \in Procs : \A b \in out[p], c \in out[q] :
          b.arena = c.arena /\ PagesOf(b) \cap PagesOf(c) # {} => b = c /\ p = q
    /\ \A p \in Procs : \A b \in out[p] :
          /\ PagesOf(b) \cap free[b.arena] = {}
          /\ \A c \in lost : b.arena = c.arena => PagesOf(b) \cap PagesOf(c) = {}
    /\ \A c \in lost : PagesOf(c) \cap free[c.arena] = {}
=============================================================================
