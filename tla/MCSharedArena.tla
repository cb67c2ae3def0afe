--------------------------- MODULE MCSharedArena ---------------------------
(***************************************************************************)
(* Instances of SharedArena.  A page has 4 units and the headers take 1,   *)
(* so that a request of size 3 fills a page, and asking for alignment 2 as *)
(* well leaves no room for the headers.                                    *)
(***************************************************************************)
EXTENDS SharedArena, TLC

CONSTANTS t1, t2, p1, p2

OnePage == [size |-> 3, align |-> 1]
TwoPages == [size |-> 6, align |-> 2]
Misfit == [size |-> 3, align |-> 2]

OneThread == t1 :> p1
OneThreadEach == t1 :> p1 @@ t2 :> p2

TwoSizes == {OnePage, TwoPages}
OneSize == {OnePage}
MisfitToo == {OnePage, Misfit}

\* The two processes, each with its thread, are interchangeable.
Swap == {t1 :> t1 @@ t2 :> t2 @@ p1 :> p1 @@ p2 :> p2,
         t1 :> t2 @@ t2 :> t1 @@ p1 :> p2 @@ p2 :> p1}
=============================================================================
