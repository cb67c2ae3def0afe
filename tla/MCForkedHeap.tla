---------------------------- MODULE MCForkedHeap ----------------------------
(***************************************************************************)
(* Two cores with one block each and one private address: p1 and p2 start  *)
(* apart or one as the child of the other, p2 attaches, and both may die.   *)
(***************************************************************************)
EXTENDS ForkedHeap, TLC

CONSTANTS p1, p2, m1

MCProcs == {p1, p2}
MCPrivate == {m1}
MCAttachers == {p2}
MCMortal == {p1, p2}
=============================================================================
