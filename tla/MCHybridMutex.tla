---------------------------- MODULE MCHybridMutex ----------------------------
(* Four threads: a holder, two sleepers and one that barges in.               *)
EXTENDS HybridMutex

CONSTANTS t1, t2, t3, t4
=============================================================================
