----------------------------- MODULE MCFrontend -----------------------------
(* Instances of Frontend. *)
EXTENDS Frontend, TLC

CONSTANTS t1, t2, s1, s2

\* The classes hold blocks of 2, 4 and 8 units; batches need the largest.
FewBlocks == <<3, 0, 2>>

SecondaryAt == {100}

\* A chunk that fits the smallest class, one that does so only when it is not aligned,
\* and one for the Secondary.
Small == CallTo("malloc", 1, 1)
Aligned == CallTo("malloc", 1, 2)
Large == CallTo("malloc", 9, 1)
Release == CallTo("free", 0, 1)
Drain == CallTo("drain", 0, 1)
Exit == CallTo("exit", 0, 1)
StopAll == CallTo("disable", 0, 1)
Grow == CallTo("realloc", 2, 1)

Off == [max |-> 0, cache |-> 0]
Tight == [max |-> 10, cache |-> 5]
Loose == [max |-> 10, cache |-> 6]

\* One thread makes the calls in one set, the other those in the other.
Pair(kind, sizes, some, others) ==
    {[registry |-> kind, limits |-> sizes,
      calls |-> [t \in Threads |-> IF t = u THEN some ELSE others]] : u \in Threads}

\* Threads that come and go, with chunks of theirs in the quarantine; others that
\* disable or drain the caches of both registries meanwhile, or that compete for the
\* shared TSDs; and all kinds of chunks without the quarantine, which the flags leave
\* off unless they are set.
SomePrograms ==
    UNION {Pair("exclusive", Loose, {Small, Release, Exit}, {Small, Release}),
           Pair("exclusive", Loose, {Small, Release, Drain}, {StopAll}),
           Pair("exclusive", Off, {Aligned, Large, Grow, Release}, {StopAll, Release}),
           Pair("shared", Tight, {Small, Release}, {Small, Release}),
           Pair("shared", Off, {Aligned, Large, Release}, {Release, StopAll}),
           Pair("shared", Loose, {Small, Drain}, {StopAll})}

\* The threads are interchangeable, and so are the shared TSDs.
Swaps == Permutations(Threads) \cup Permutations(SharedTSDs)
=============================================================================
