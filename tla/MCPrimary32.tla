----------------------------- MODULE MCPrimary32 -----------------------------
(* Instances of Primary32. *)
EXTENDS Primary32, TLC

CONSTANTS t1, t2, A, B, BC, nobody

\* The sizes leave room at the end of a region that no block fills.
Sizes == A :> 5 @@ B :> 7 @@ BC :> 3

\* The threads are interchangeable.
Swaps == Permutations(Threads)
=============================================================================
