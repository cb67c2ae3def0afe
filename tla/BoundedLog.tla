------------------------------ MODULE BoundedLog ------------------------------
(***************************************************************************)
(* What the log ring between an arena and the kernel promises: a first-in  *)
(* first-out queue of at most Capacity entries.                            *)
(***************************************************************************)
EXTENDS Sequences, Naturals

CONSTANTS Capacity, Entries, None

VARIABLES
    queue,   \* entries appended and not consumed
    got,     \* the entry the kernel consumed last
    dropped  \* entries refused, modulo 2

vars == <<queue, got, dropped>>

Init == queue = <<>> /\ got = None /\ dropped = 0

Put(e) ==
    /\ Len(queue) < Capacity
    /\ queue' = Append(queue, e)
    /\ UNCHANGED <<got, dropped>>

Get ==
    /\ queue # <<>>
    /\ got' = Head(queue)
    /\ queue' = Tail(queue)
    /\ UNCHANGED dropped

Refuse ==
    /\ Len(queue) = Capacity
    /\ dropped' = 1 - dropped
    /\ UNCHANGED <<queue, got>>

Next == Get \/ Refuse \/ \E e \in Entries : Put(e)

Spec == Init /\ [][Next]_vars
=============================================================================
