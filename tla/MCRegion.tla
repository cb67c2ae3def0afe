------------------------------ MODULE MCRegion ------------------------------
(* Instances of Region. *)
EXTENDS Region, TLC

CONSTANTS t1, t2, t3

\* The threads are interchangeable.
Swaps == Permutations(Threads)
=============================================================================
