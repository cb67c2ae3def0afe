------------------------------ MODULE MCLogRing ------------------------------
(* A ring of four entries whose counters wrap at 8.                          *)
EXTENDS LogRing

CONSTANTS e1, e2
=============================================================================
