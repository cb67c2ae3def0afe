----------------------------- MODULE MCMapCache -----------------------------
(***************************************************************************)
(* An instance of MapCache.  A page has 4 units and the headers take 1: a  *)
(* request of 3 units needs one page, and one of 7 needs two.              *)
(***************************************************************************)
EXTENDS MapCache, TLC

CONSTANTS t1, t2, b1, b2, b3, b4

\* Three blocks that the cache takes and one that is too large for it.
PageCounts == b1 :> 1 @@ b2 :> 1 @@ b3 :> 1 @@ b4 :> 2

AnyInterval == {-1, 0, 1, 2}

\* The threads are interchangeable, and so are the blocks of one size.
AnySwaps == Permutations(Threads) \cup Permutations({b1, b2, b3})
=============================================================================
