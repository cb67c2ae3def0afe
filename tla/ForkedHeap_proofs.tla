------------------------- MODULE ForkedHeap_proofs -------------------------
(***************************************************************************)
(* Blocks and borrowers across processes, for any processes, cores and     *)
(* blocks: as long as no process forks while it uses arena blocks, no      *)
(* block has two users, whoever has one can give it back, and the lists    *)
(* of blocks in use stay linked.                                           *)
(***************************************************************************)
EXTENDS ForkedHeap, Integers, WellFoundedInduction, TLAPS

-----------------------------------------------------------------------------
(* The invariant of the pool.                                              *)

ObjectsOf(c) == {c} \X (1 .. MaxObjects)

\* Not past SharedArenaPool::init, in its loop over the cores, at an arena of the loop, out of
\* the loop.
Building == {"absent", "unlink", "open", "cas", "format", "wait", "ring", "finish"}
InLoop == {"open", "cas", "format", "wait", "ring", "finish"}
AtArena == {"cas", "format", "wait", "ring"}
AtRest == {"absent", "finish", "run", "refresh"}

HeapTypes ==
    /\ name \in [Cores -> Objects \cup {Nil}]
    /\ made \in [Cores -> 0 .. MaxObjects]
    /\ version \in [Objects -> {0, 1, 2}]
    /\ free \in [Objects -> SUBSET Slots]
    /\ stage \in [Procs -> Building \cup {"run", "refresh", "dead", "aborted"}]
    /\ core \in [Procs -> Cores]
    /\ ok \in [Procs -> BOOLEAN]
    /\ ready \in [Procs -> BOOLEAN]
    /\ owner \in [Procs -> Procs \cup {Nil}]
    /\ mapped \in [Procs -> [Cores -> Objects \cup {Nil}]]
    /\ ring \in [Procs -> SUBSET Cores]
    /\ holds \in [Procs -> SUBSET (Private \cup Lent)]

\* A name leads to an object made for it, and a process maps it for that core.
OfTheirCore ==
    /\ \A c \in Cores : name[c] \in ObjectsOf(c) \cup {Nil}
    /\ \A p \in Procs, c \in Cores : mapped[p][c] \in ObjectsOf(c) \cup {Nil}

\* Where a process stands: in init the pool is not ready, the arena it is at is mapped, and
\* what it passed as formatted is; the loop begins at the first core.
InitAt(p) ==
    /\ stage[p] \in Building => ~ready[p]
    /\ stage[p] \in AtArena => mapped[p][core[p]] # Nil
    /\ stage[p] = "format" => version[mapped[p][core[p]]] = 1
    /\ stage[p] = "ring" => version[mapped[p][core[p]]] = 2
    /\ stage[p] \in AtRest => core[p] = 0

\* The arenas that the loop of init has behind it: as long as allOk holds they are mapped,
\* formatted and logged.
Passed(p) == IF stage[p] = "finish" THEN Cores ELSE {c \in Cores : c < core[p]}

AllOkAt(p) ==
    stage[p] \in InLoop /\ ok[p] =>
        \A c \in Passed(p) :
            mapped[p][c] # Nil /\ version[mapped[p][c]] = 2 /\ c \in ring[p]

\* Who formats an arena is alone with it.
OneFormatter ==
    \A p, q \in Procs :
        stage[p] = "format" /\ stage[q] = "format" /\ p # q
            => mapped[p][core[p]] # mapped[q][core[q]]

Initialising == OneFormatter /\ \A p \in Procs : InitAt(p) /\ AllOkAt(p)

\* Of a pool that is ready all arenas are mapped and formatted, here or in the parent; the
\* process named by OwnerPid has started and logs all of them.
ReadyAt(p) ==
    ready[p] =>
        /\ \A c \in Cores : mapped[p][c] # Nil /\ version[mapped[p][c]] = 2
        /\ owner[p] = p => ring[p] = Cores
        /\ \A q \in Procs : stage[q] = "absent" => owner[p] # q

ReadyPools == \A p \in Procs : ReadyAt(p)

\* Only a process that made or refreshed the pool itself has blocks of it.
HoldersReady ==
    \A p \in Procs : holds[p] \cap Lent # {} => ready[p] /\ owner[p] = p

PoolInv ==
    /\ HeapTypes /\ OfTheirCore /\ Initialising /\ ReadyPools /\ HoldersReady
    /\ NoBlockTwice

\* No process has started, no arena exists.
LEMMA PoolInvInit == Init => PoolInv
<1> SUFFICES ASSUME Init PROVE PoolInv
    OBVIOUS
<1> USE ForkedHeapAssumption DEF ForkedHeapAssumption
<1>1. 0 \in Cores /\ 0 \in 0 .. MaxObjects
    BY DEF Cores
<1>2. HeapTypes
    BY <1>1 DEF Init, HeapTypes, Building
<1>3. OfTheirCore /\ HoldersReady /\ NoBlockTwice
    BY DEF Init, OfTheirCore, HoldersReady, NoBlockTwice
<1>4. Initialising /\ ReadyPools
    BY DEF Init, Initialising, OneFormatter, InitAt, AllOkAt, ReadyPools, ReadyAt, InLoop, AtArena, AtRest
<1> QED
    BY <1>2, <1>3, <1>4 DEF PoolInv

-----------------------------------------------------------------------------
(* SharedArenaPool::init                                                   *)

\* The next core of the loop, or its end.
LEMMA NextCoreOf ==
    ASSUME HeapTypes, NEW p \in Procs, NextCore(p), stage[p] \in {"open", "ring"}
    PROVE  /\ core' \in [Procs -> Cores]
           /\ stage' = [stage EXCEPT ![p] = stage'[p]]
           /\ core' = [core EXCEPT ![p] = core'[p]]
           /\ stage'[p] \in {"open", "finish"}
           /\ stage'[p] = "finish" => core'[p] = 0
           /\ \A c \in Passed(p)' : c \in Cores /\ (c \in Passed(p) \/ c = core[p])
<1> USE ForkedHeapAssumption DEF ForkedHeapAssumption, HeapTypes
<1>1. 0 \in Cores /\ core[p] \in Cores
    BY DEF Cores
<1>2. CASE core[p] + 1 \in Cores
  <2>1. /\ core' = [core EXCEPT ![p] = core[p] + 1]
        /\ stage' = [stage EXCEPT ![p] = "open"]
      BY <1>2 DEF NextCore
  <2>2. Passed(p)' = {c \in Cores : c < core[p] + 1} /\ Passed(p) = {c \in Cores : c < core[p]}
      BY <2>1 DEF Passed
  <2>3. \A c \in Cores : c < core[p] + 1 => c < core[p] \/ c = core[p]
      BY <1>1 DEF Cores
  <2> QED
      BY <1>2, <2>1, <2>2, <2>3
<1>3. CASE core[p] + 1 \notin Cores
  <2>1. core' = [core EXCEPT ![p] = 0] /\ stage' = [stage EXCEPT ![p] = "finish"]
      BY <1>3 DEF NextCore
  <2>2. Passed(p)' = Cores /\ Passed(p) = {c \in Cores : c < core[p]}
      BY <2>1 DEF Passed
  <2>3. \A c \in Cores : c < core[p] \/ c = core[p]
      BY <1>1, <1>3 DEF Cores
  <2> QED
      BY <1>1, <2>1, <2>2, <2>3
<1> QED
    BY <1>2, <1>3

\* What the steps of init before its end have in common: they change nothing of another
\* process, nothing of an arena that is formatted, and move Version on.
InitEffect(p) ==
    /\ \A q \in Procs \ {p} :
          /\ stage'[q] = stage[q] /\ core'[q] = core[q] /\ ok'[q] = ok[q]
          /\ mapped'[q] = mapped[q] /\ ring'[q] = ring[q]
    /\ stage'[p] # "absent"
    /\ UNCHANGED <<ready, owner, holds>>
    /\ \A o \in Objects :
          \/ version'[o] = version[o] /\ free'[o] = free[o]
          \/ version[o] = 0 /\ version'[o] = 1 /\ free'[o] = free[o]
          \/ stage[p] = "format" /\ o = mapped[p][core[p]] /\ version'[o] = 2

\* Such steps keep the invariant if it goes on to hold of the process that takes them.
LEMMA InitEffectKeeps ==
    ASSUME PoolInv, NEW p \in Procs, InitEffect(p), ~ready[p],
           HeapTypes', OfTheirCore', InitAt(p)', AllOkAt(p)',
           \A q \in Procs \ {p} :
               stage'[p] = "format" /\ stage[q] = "format"
                   => mapped'[p][core'[p]] # mapped[q][core[q]]
    PROVE  PoolInv'
<1> USE DEF PoolInv
<1>1. \A q \in Procs, c \in Cores : mapped[q][c] # Nil => mapped[q][c] \in Objects
    BY DEF HeapTypes
<1>2. \A o \in Objects : version[o] = 2 => version'[o] = 2 /\ free'[o] = free[o]
    BY <1>1 DEF InitEffect, Initialising, InitAt, HeapTypes
<1>3. ASSUME NEW q \in Procs \ {p}
      PROVE  InitAt(q)' /\ AllOkAt(q)'
  <2>1. /\ stage'[q] = stage[q] /\ core'[q] = core[q] /\ ok'[q] = ok[q] /\ ready' = ready
        /\ mapped'[q] = mapped[q] /\ ring'[q] = ring[q] /\ core[q] \in Cores
      BY DEF InitEffect, HeapTypes
  <2>2. InitAt(q) /\ AllOkAt(q)
      BY DEF Initialising
  <2>3. InitAt(q)'
    <3>1. stage[q] = "format" => version'[mapped[q][core[q]]] = 1
        BY <1>1, <2>1, <2>2 DEF InitAt, InitEffect, Initialising, OneFormatter, AtArena
    <3>2. stage[q] = "ring" => version'[mapped[q][core[q]]] = 2
        BY <1>1, <1>2, <2>1, <2>2 DEF InitAt, AtArena
    <3> QED
        BY <2>1, <2>2, <3>1, <3>2 DEF InitAt
  <2>4. Passed(q)' = Passed(q) /\ Passed(q) \subseteq Cores
      BY <2>1 DEF Passed
  <2>5. AllOkAt(q)'
      BY <1>1, <1>2, <2>1, <2>2, <2>4 DEF AllOkAt
  <2> QED
      BY <2>3, <2>5
<1>4. OneFormatter'
    BY DEF OneFormatter, Initialising, InitEffect
<1>5. ReadyPools'
    BY <1>1, <1>2 DEF ReadyPools, ReadyAt, InitEffect
<1>6. HoldersReady'
    BY DEF HoldersReady, InitEffect
<1>7. \A q \in Procs, a \in Lent : a \in holds[q] => q # p /\ ready[q]
    BY DEF HoldersReady
<1>8. \A q \in Procs, a \in Lent :
          a \in holds[q] => /\ mapped'[q][a[1]] = mapped[q][a[1]]
                            /\ version[mapped[q][a[1]]] = 2
                            /\ mapped[q][a[1]] \in Objects
    BY <1>1, <1>7 DEF ReadyPools, ReadyAt, InitEffect, Lent
<1>9. holds' = holds
    BY DEF InitEffect
<1>10. NoBlockTwice'
    BY <1>2, <1>8, <1>9 DEF NoBlockTwice
<1>11. Initialising'
    BY <1>3, <1>4 DEF Initialising
<1> QED
    BY <1>5, <1>6, <1>10, <1>11

\* shm_unlink takes only a name away.
LEMMA UnlinkKeeps == ASSUME PoolInv, NEW p \in Procs, Unlink(p) PROVE PoolInv'
<1> USE ForkedHeapAssumption DEF ForkedHeapAssumption, PoolInv
<1>0. /\ stage' = [stage EXCEPT ![p] = stage'[p]] /\ core' = [core EXCEPT ![p] = core'[p]]
      /\ \/ stage'[p] = "unlink" /\ core'[p] \in Cores
         \/ stage'[p] = "open" /\ core'[p] = 0 /\ \A c \in Cores : ~(c < 0)
      /\ stage'[p] \in {"unlink", "open"} /\ core'[p] \in Cores /\ core[p] \in Cores
      /\ name' = [name EXCEPT ![core[p]] = Nil]
      /\ UNCHANGED <<made, version, free, ok, ready, owner, mapped, ring, holds>>
  <2>1. 0 \in Cores /\ \A c \in Cores : ~(c < 0)
      BY DEF Cores
  <2>2. CASE core[p] + 1 \in Cores
    <3>1. core' = [core EXCEPT ![p] = core[p] + 1] /\ stage' = stage /\ stage[p] = "unlink"
        BY <2>2 DEF Unlink
    <3> QED
        BY <2>2, <3>1 DEF Unlink, blocks, HeapTypes
  <2>3. CASE core[p] + 1 \notin Cores
    <3>1. core' = [core EXCEPT ![p] = 0] /\ stage' = [stage EXCEPT ![p] = "open"]
        BY <2>3 DEF Unlink
    <3> QED
        BY <2>1, <2>3, <3>1 DEF Unlink, blocks, HeapTypes
  <2> QED
      BY <2>2, <2>3
<1>1. ~ready[p]
    BY DEF Unlink, Initialising, InitAt, Building
<1>2. HeapTypes'
  <2>0. HeapTypes
      OBVIOUS
  <2> HIDE DEF PoolInv
  <2>1. stage' \in [Procs -> Building \cup {"run", "refresh", "dead", "aborted"}]
      BY <1>0, <2>0 DEF HeapTypes, Building
  <2>2. core' \in [Procs -> Cores]
      BY <1>0, <2>0 DEF HeapTypes
  <2>3. name' \in [Cores -> Objects \cup {Nil}]
      BY <1>0, <2>0 DEF HeapTypes
  <2> QED
      BY <1>0, <2>0, <2>1, <2>2, <2>3 DEF HeapTypes
<1>3. OfTheirCore'
    BY <1>0 DEF HeapTypes, OfTheirCore, ObjectsOf
<1>4. InitEffect(p)
    BY <1>0 DEF InitEffect, HeapTypes
<1>5. InitAt(p)'
    BY <1>0, <1>1 DEF HeapTypes, Initialising, InitAt, Building, AtArena, AtRest
<1>6. AllOkAt(p)'
    BY <1>0 DEF HeapTypes, Initialising, InitAt, AllOkAt, Passed, InLoop, AtArena
<1>7. \A q \in Procs \ {p} :
          stage'[p] = "format" /\ stage[q] = "format"
              => mapped'[p][core'[p]] # mapped[q][core[q]]
    BY <1>0 DEF HeapTypes, Initialising, InitAt
<1> QED
    BY <1>1, <1>2, <1>3, <1>4, <1>5, <1>6, <1>7, InitEffectKeeps

\* shm_open and mmap give the process an arena that it does not rely on yet.
LEMMA OpenKeeps == ASSUME PoolInv, NEW p \in Procs, Open(p) PROVE PoolInv'
<1> USE ForkedHeapAssumption DEF ForkedHeapAssumption, PoolInv
<1>0. \E o \in ObjectsOf(core[p]) :
          /\ mapped' = [mapped EXCEPT ![p][core[p]] = o]
          /\ o \in Objects /\ core[p] \in Cores
          /\ name' \in [Cores -> Objects \cup {Nil}] /\ made' \in [Cores -> 0 .. MaxObjects]
          /\ \A c \in Cores : name'[c] \in ObjectsOf(c) \cup {Nil}
          /\ stage[p] = "open" /\ stage' = [stage EXCEPT ![p] = "cas"]
          /\ mapped[p][core[p]] = Nil
          /\ UNCHANGED <<version, free, core, ok, ready, owner, ring, holds>>
  <2>1. CASE name[core[p]] # Nil
    <3>1. /\ name' = name /\ made' = made /\ mapped[p][core[p]] = Nil
          /\ mapped' = [mapped EXCEPT ![p][core[p]] = name[core[p]]]
        BY <2>1 DEF Open
    <3>2. /\ core[p] \in Cores /\ name[core[p]] \in ObjectsOf(core[p])
          /\ name[core[p]] \in Objects
        BY <2>1 DEF HeapTypes, OfTheirCore
    <3> QED
        BY <3>1, <3>2 DEF Open, HeapTypes, OfTheirCore, blocks
  <2>2. CASE name[core[p]] = Nil
    <3> DEFINE o == <<core[p], made[core[p]] + 1>>
    <3>1. /\ made[core[p]] < MaxObjects /\ mapped[p][core[p]] = Nil
          /\ made' = [made EXCEPT ![core[p]] = made[core[p]] + 1]
          /\ name' = [name EXCEPT ![core[p]] = o]
          /\ mapped' = [mapped EXCEPT ![p][core[p]] = o]
        BY <2>2 DEF Open
    <3>2. core[p] \in Cores /\ made[core[p]] + 1 \in 1 .. MaxObjects
        BY <3>1 DEF HeapTypes
    <3>3. o \in ObjectsOf(core[p]) /\ o \in Objects
        BY <3>2 DEF ObjectsOf, Objects
    <3> HIDE DEF o
    <3>4. made' \in [Cores -> 0 .. MaxObjects]
        BY <3>1, <3>2 DEF HeapTypes
    <3>5. /\ name' \in [Cores -> Objects \cup {Nil}]
          /\ \A c \in Cores : name'[c] \in ObjectsOf(c) \cup {Nil}
        BY <3>1, <3>2, <3>3 DEF HeapTypes, OfTheirCore
    <3> QED
        BY <3>1, <3>2, <3>3, <3>4, <3>5 DEF Open, blocks
  <2> QED
      BY <2>1, <2>2
<1>1. ~ready[p]
    BY DEF Open, Initialising, InitAt, Building
<1>2. HeapTypes'
    BY <1>0 DEF HeapTypes, Building
<1>3. OfTheirCore'
    BY <1>0 DEF HeapTypes, OfTheirCore, ObjectsOf
<1>4. InitEffect(p)
    BY <1>0 DEF InitEffect, HeapTypes
<1>5. InitAt(p)'
    BY <1>0, <1>1 DEF HeapTypes, Initialising, InitAt, Building, AtArena, AtRest
<1>6. AllOkAt(p)'
    BY <1>0 DEF HeapTypes, Initialising, InitAt, AllOkAt, Passed, InLoop, AtArena
<1>7. \A q \in Procs \ {p} :
          stage'[p] = "format" /\ stage[q] = "format"
              => mapped'[p][core'[p]] # mapped[q][core[q]]
    BY <1>0 DEF HeapTypes, Initialising, InitAt
<1> QED
    BY <1>1, <1>2, <1>3, <1>4, <1>5, <1>6, <1>7, InitEffectKeeps

\* An arena that cannot be mapped spoils allOk.
LEMMA OpenFailsKeeps == ASSUME PoolInv, NEW p \in Procs, OpenFails(p) PROVE PoolInv'
<1> USE ForkedHeapAssumption DEF ForkedHeapAssumption, PoolInv
<1>0. /\ stage' = [stage EXCEPT ![p] = stage'[p]] /\ core' = [core EXCEPT ![p] = core'[p]]
      /\ stage'[p] \in {"open", "finish"} /\ core'[p] \in Cores
      /\ stage'[p] = "finish" => core'[p] = 0
      /\ ok' = [ok EXCEPT ![p] = FALSE]
      /\ UNCHANGED <<name, made, version, free, ready, owner, mapped, ring, holds>>
  <2>1. NextCore(p) /\ stage[p] \in {"open", "ring"} /\ HeapTypes
      BY DEF OpenFails
  <2> QED
      BY <2>1, NextCoreOf DEF OpenFails, shared, blocks, HeapTypes
<1>1. ~ready[p]
    BY DEF OpenFails, Initialising, InitAt, Building
<1>2. HeapTypes'
  <2>0. HeapTypes
      OBVIOUS
  <2> HIDE DEF PoolInv
  <2>1. stage' \in [Procs -> Building \cup {"run", "refresh", "dead", "aborted"}]
      BY <1>0, <2>0 DEF HeapTypes, Building
  <2>2. core' \in [Procs -> Cores]
      BY <1>0, <2>0 DEF HeapTypes
  <2>3. ok' \in [Procs -> BOOLEAN]
      BY <1>0, <2>0 DEF HeapTypes
  <2> QED
      BY <1>0, <2>0, <2>1, <2>2, <2>3 DEF HeapTypes
<1>3. OfTheirCore'
    BY <1>0 DEF HeapTypes, OfTheirCore, ObjectsOf
<1>4. InitEffect(p)
    BY <1>0 DEF InitEffect, HeapTypes
<1>5. InitAt(p)'
    BY <1>0, <1>1 DEF HeapTypes, Initialising, InitAt, Building, AtArena, AtRest
<1>6. AllOkAt(p)'
    BY <1>0 DEF HeapTypes, Initialising, InitAt, AllOkAt, Passed, InLoop, AtArena
<1>7. \A q \in Procs \ {p} :
          stage'[p] = "format" /\ stage[q] = "format"
              => mapped'[p][core'[p]] # mapped[q][core[q]]
    BY <1>0 DEF HeapTypes, Initialising, InitAt
<1> QED
    BY <1>1, <1>2, <1>3, <1>4, <1>5, <1>6, <1>7, InitEffectKeeps

\* Only one process wins the compare-and-exchange of Version.
LEMMA CompareVersionKeeps == ASSUME PoolInv, NEW p \in Procs, CompareVersion(p) PROVE PoolInv'
<1> USE ForkedHeapAssumption DEF ForkedHeapAssumption, PoolInv
<1> DEFINE o == mapped[p][core[p]]
<1>0. /\ stage[p] = "cas" /\ core[p] \in Cores
      /\ o \in Objects
      /\ \/ /\ version[o] = 0
            /\ version' = [version EXCEPT ![o] = 1]
            /\ stage' = [stage EXCEPT ![p] = "format"]
         \/ /\ stage' = [stage EXCEPT ![p] = "wait"]
            /\ version' = version
      /\ UNCHANGED <<name, made, free, core, ok, ready, owner, mapped, ring, holds>>
    BY DEF CompareVersion, blocks, HeapTypes, Initialising, InitAt, AtArena
<1>1. ~ready[p]
    BY DEF CompareVersion, Initialising, InitAt, Building
<1>2. HeapTypes'
    BY <1>0 DEF HeapTypes, Building
<1>3. OfTheirCore'
    BY <1>0 DEF HeapTypes, OfTheirCore, ObjectsOf
<1>4. InitEffect(p)
    BY <1>0 DEF InitEffect, HeapTypes
<1>5. InitAt(p)'
    BY <1>0, <1>1 DEF HeapTypes, Initialising, InitAt, Building, AtArena, AtRest
<1>6. AllOkAt(p)'
    BY <1>0 DEF HeapTypes, Initialising, InitAt, AllOkAt, Passed, InLoop, AtArena
<1>7. \A q \in Procs \ {p} :
          stage'[p] = "format" /\ stage[q] = "format"
              => mapped'[p][core'[p]] # mapped[q][core[q]]
    BY <1>0 DEF HeapTypes, Initialising, InitAt
<1> QED
    BY <1>1, <1>2, <1>3, <1>4, <1>5, <1>6, <1>7, InitEffectKeeps

\* The process that formats an arena is alone with it.
LEMMA FormatKeeps == ASSUME PoolInv, NEW p \in Procs, Format(p) PROVE PoolInv'
<1> USE ForkedHeapAssumption DEF ForkedHeapAssumption, PoolInv
<1> DEFINE o == mapped[p][core[p]]
<1>0. /\ stage[p] = "format" /\ core[p] \in Cores
      /\ o \in Objects /\ version[o] = 1
      /\ free' = [free EXCEPT ![o] = Slots]
      /\ version' = [version EXCEPT ![o] = 2]
      /\ stage' = [stage EXCEPT ![p] = "ring"]
      /\ UNCHANGED <<name, made, core, ok, ready, owner, mapped, ring, holds>>
    BY DEF Format, blocks, HeapTypes, Initialising, InitAt, AtArena
<1>1. ~ready[p]
    BY DEF Format, Initialising, InitAt, Building
<1>2. HeapTypes'
    BY <1>0 DEF HeapTypes, Building
<1>3. OfTheirCore'
    BY <1>0 DEF HeapTypes, OfTheirCore, ObjectsOf
<1>4. InitEffect(p)
    BY <1>0 DEF InitEffect, HeapTypes
<1>5. InitAt(p)'
    BY <1>0, <1>1 DEF HeapTypes, Initialising, InitAt, Building, AtArena, AtRest
<1>6. AllOkAt(p)'
    BY <1>0 DEF HeapTypes, Initialising, InitAt, AllOkAt, Passed, InLoop, AtArena
<1>7. \A q \in Procs \ {p} :
          stage'[p] = "format" /\ stage[q] = "format"
              => mapped'[p][core'[p]] # mapped[q][core[q]]
    BY <1>0 DEF HeapTypes, Initialising, InitAt
<1> QED
    BY <1>1, <1>2, <1>3, <1>4, <1>5, <1>6, <1>7, InitEffectKeeps

\* The others go on once Version is 2.
LEMMA WaitKeeps == ASSUME PoolInv, NEW p \in Procs, Wait(p) PROVE PoolInv'
<1> USE ForkedHeapAssumption DEF ForkedHeapAssumption, PoolInv
<1>0. /\ stage[p] = "wait" /\ version[mapped[p][core[p]]] = 2
      /\ stage' = [stage EXCEPT ![p] = "ring"]
      /\ UNCHANGED <<name, made, version, free, core, ok, ready, owner, mapped, ring, holds>>
    BY DEF Wait, shared, blocks
<1>1. ~ready[p]
    BY DEF Wait, Initialising, InitAt, Building
<1>2. HeapTypes'
    BY <1>0 DEF HeapTypes, Building
<1>3. OfTheirCore'
    BY <1>0 DEF HeapTypes, OfTheirCore, ObjectsOf
<1>4. InitEffect(p)
    BY <1>0 DEF InitEffect, HeapTypes
<1>5. InitAt(p)'
    BY <1>0, <1>1 DEF HeapTypes, Initialising, InitAt, Building, AtArena, AtRest
<1>6. AllOkAt(p)'
    BY <1>0 DEF HeapTypes, Initialising, InitAt, AllOkAt, Passed, InLoop, AtArena
<1>7. \A q \in Procs \ {p} :
          stage'[p] = "format" /\ stage[q] = "format"
              => mapped'[p][core'[p]] # mapped[q][core[q]]
    BY <1>0 DEF HeapTypes, Initialising, InitAt
<1> QED
    BY <1>1, <1>2, <1>3, <1>4, <1>5, <1>6, <1>7, InitEffectKeeps

\* The arena is logged now, or unmapped and allOk spoiled.
LEMMA RegisterRingKeeps == ASSUME PoolInv, NEW p \in Procs, RegisterRing(p) PROVE PoolInv'
<1> USE ForkedHeapAssumption DEF ForkedHeapAssumption, PoolInv
<1>0. /\ stage[p] = "ring" /\ core[p] \in Cores
      /\ stage' = [stage EXCEPT ![p] = stage'[p]] /\ core' = [core EXCEPT ![p] = core'[p]]
      /\ stage'[p] \in {"open", "finish"} /\ core'[p] \in Cores
      /\ stage'[p] = "finish" => core'[p] = 0
      /\ \A c \in Passed(p)' : c \in Cores /\ (c \in Passed(p) \/ c = core[p])
      /\ \/ /\ ring' = [ring EXCEPT ![p] = ring[p] \cup {core[p]}]
            /\ UNCHANGED <<ok, mapped>>
         \/ /\ mapped' = [mapped EXCEPT ![p][core[p]] = Nil]
            /\ ok' = [ok EXCEPT ![p] = FALSE]
            /\ ring' = ring
      /\ UNCHANGED <<name, made, version, free, ready, owner, holds>>
  <2>1. NextCore(p) /\ stage[p] \in {"open", "ring"} /\ HeapTypes
      BY DEF RegisterRing
  <2> QED
      BY <2>1, NextCoreOf DEF RegisterRing, RegisterWithKernel, shared, blocks, HeapTypes
<1>1. ~ready[p]
    BY DEF RegisterRing, Initialising, InitAt, Building
<1>8. /\ mapped' \in [Procs -> [Cores -> Objects \cup {Nil}]]
      /\ \A q \in Procs, c \in Cores : mapped'[q][c] \in {mapped[q][c], Nil}
      /\ ok' \in [Procs -> BOOLEAN] /\ ring' \in [Procs -> SUBSET Cores]
  <2>1. CASE mapped' = mapped /\ ok' = ok
      BY <1>0, <2>1 DEF HeapTypes
  <2>2. CASE mapped' # mapped \/ ok' # ok
    <3>1. /\ mapped' = [mapped EXCEPT ![p][core[p]] = Nil]
          /\ ok' = [ok EXCEPT ![p] = FALSE]
          /\ ring' = ring
        BY <1>0, <2>2
    <3> QED
        BY <1>0, <3>1 DEF HeapTypes
  <2> QED
      BY <2>1, <2>2
<1>2. HeapTypes'
  <2>1. /\ stage' \in [Procs -> Building \cup {"run", "refresh", "dead", "aborted"}]
        /\ core' \in [Procs -> Cores]
    <3>1. /\ stage' = [stage EXCEPT ![p] = stage'[p]] /\ stage'[p] \in Building
          /\ core' = [core EXCEPT ![p] = core'[p]] /\ core'[p] \in Cores
        BY <1>0 DEF Building
    <3> QED
        BY <3>1 DEF HeapTypes
  <2>2. UNCHANGED <<name, made, version, free, ready, owner, holds>>
      BY <1>0
  <2> QED
      BY <1>8, <2>1, <2>2 DEF HeapTypes
<1>3. OfTheirCore'
    BY <1>0, <1>8 DEF OfTheirCore
<1>4. InitEffect(p)
    BY <1>0 DEF InitEffect, HeapTypes
<1>5. InitAt(p)'
    BY <1>0, <1>1 DEF HeapTypes, Initialising, InitAt, Building, AtArena, AtRest
<1>6. AllOkAt(p)'
  <2>1. CASE ~ok'[p]
      BY <2>1 DEF AllOkAt
  <2>2. CASE ok'[p]
    <3>1. /\ ok[p] /\ mapped' = mapped /\ version' = version
          /\ ring'[p] = ring[p] \cup {core[p]}
        BY <1>0, <2>2 DEF HeapTypes
    <3>2. /\ mapped[p][core[p]] # Nil /\ version[mapped[p][core[p]]] = 2
          /\ AllOkAt(p)
        BY <1>0 DEF Initialising, InitAt, AtArena
    <3>3. \A c \in Passed(p) : mapped[p][c] # Nil /\ version[mapped[p][c]] = 2 /\ c \in ring[p]
        BY <1>0, <3>1, <3>2 DEF AllOkAt, InLoop
    <3> QED
        BY <1>0, <3>1, <3>2, <3>3 DEF AllOkAt
  <2> QED
      BY <2>1, <2>2
<1>7. \A q \in Procs \ {p} :
          stage'[p] = "format" /\ stage[q] = "format"
              => mapped'[p][core'[p]] # mapped[q][core[q]]
    BY <1>0 DEF HeapTypes, Initialising, InitAt
<1> QED
    BY <1>1, <1>2, <1>3, <1>4, <1>5, <1>6, <1>7, InitEffectKeeps

-----------------------------------------------------------------------------
(* Processes and their blocks                                              *)

\* What all other steps but a fork have in common: they change nothing of another process,
\* no name and no Version.
OwnEffect(p) ==
    /\ \A q \in Procs \ {p} :
          /\ stage'[q] = stage[q] /\ core'[q] = core[q] /\ ok'[q] = ok[q]
          /\ ready'[q] = ready[q] /\ owner'[q] = owner[q]
          /\ mapped'[q] = mapped[q] /\ ring'[q] = ring[q] /\ holds'[q] = holds[q]
    /\ stage'[p] \notin {"absent", "format"}
    /\ UNCHANGED <<name, made, version>>

\* They keep the invariant if it goes on to hold of the process, and of the blocks.
LEMMA OwnEffectKeeps ==
    ASSUME PoolInv, NEW p \in Procs, OwnEffect(p), HeapTypes', OfTheirCore',
           InitAt(p)', AllOkAt(p)', ReadyAt(p)',
           holds'[p] \cap Lent # {} => ready'[p] /\ owner'[p] = p,
           NoBlockTwice'
    PROVE  PoolInv'
<1> USE DEF PoolInv
<1>1. ASSUME NEW q \in Procs \ {p}
      PROVE  InitAt(q)' /\ AllOkAt(q)' /\ ReadyAt(q)'
  <2>1. InitAt(q) /\ AllOkAt(q) /\ ReadyAt(q)
      BY DEF Initialising, ReadyPools
  <2>2. /\ stage'[q] = stage[q] /\ core'[q] = core[q] /\ ok'[q] = ok[q]
        /\ ready'[q] = ready[q] /\ owner'[q] = owner[q]
        /\ mapped'[q] = mapped[q] /\ ring'[q] = ring[q] /\ version' = version
      BY DEF OwnEffect
  <2>3. InitAt(q)' /\ AllOkAt(q)'
      BY <2>1, <2>2 DEF InitAt, AllOkAt, Passed
  <2>4. ReadyAt(q)'
      BY <2>1, <2>2 DEF ReadyAt, OwnEffect
  <2> QED
      BY <2>3, <2>4
<1>2. OneFormatter'
    BY DEF OneFormatter, Initialising, OwnEffect
<1>3. Initialising' /\ ReadyPools'
    BY <1>1, <1>2 DEF Initialising, ReadyPools
<1>4. HoldersReady'
    BY DEF HoldersReady, OwnEffect
<1> QED
    BY <1>3, <1>4

\* A step that leaves arenas, mappings and blocks as they are.
LEMMA SameBlocks ==
    ASSUME PoolInv, UNCHANGED <<free, mapped, holds>>
    PROVE  NoBlockTwice'
BY DEF PoolInv, NoBlockTwice

\* A process begins with an empty pool, at the first core.
LEMMA StartKeeps == ASSUME PoolInv, NEW p \in Procs, Start(p) PROVE PoolInv'
<1> USE ForkedHeapAssumption DEF ForkedHeapAssumption, PoolInv
<1>0. /\ stage[p] = "absent"
      /\ stage' = [stage EXCEPT ![p] = stage'[p]] /\ stage'[p] \in {"open", "unlink"}
      /\ \A c \in Cores : ~(c < 0)
      /\ UNCHANGED <<name, made, version, free, core, ok, ready, owner, mapped, ring, holds>>
    BY DEF Start, EnterInit, shared, blocks, HeapTypes, Cores
<1>2. HeapTypes'
    BY <1>0 DEF HeapTypes, Building
<1>3. OfTheirCore'
    BY <1>0 DEF OfTheirCore
<1>4. OwnEffect(p)
    BY <1>0 DEF OwnEffect, HeapTypes
<1>5. InitAt(p)'
    BY <1>0 DEF HeapTypes, Initialising, InitAt, Building, AtArena, AtRest
<1>6. AllOkAt(p)'
    BY <1>0 DEF HeapTypes, Initialising, InitAt, AllOkAt, Passed, InLoop, AtRest
<1>7. ReadyAt(p)'
    BY <1>0 DEF HeapTypes, Initialising, InitAt, AllOkAt, InLoop, Passed, ReadyPools, ReadyAt
<1>8. holds'[p] \cap Lent # {} => ready'[p] /\ owner'[p] = p
    BY <1>0 DEF HeapTypes, Initialising, InitAt, Building, HoldersReady
<1>9. NoBlockTwice'
    BY <1>0, SameBlocks
<1> QED
    BY <1>2, <1>3, <1>4, <1>5, <1>6, <1>7, <1>8, <1>9, OwnEffectKeeps

\* Only a pool whose arenas are all mapped, formatted and logged is ready.
LEMMA FinishKeeps == ASSUME PoolInv, NEW p \in Procs, Finish(p) PROVE PoolInv'
<1> USE ForkedHeapAssumption DEF ForkedHeapAssumption, PoolInv
<1>0. /\ stage[p] = "finish"
      /\ ready' = [ready EXCEPT ![p] = ok[p]]
      /\ owner' = [owner EXCEPT ![p] = owner'[p]]
      /\ ok[p] => owner'[p] = p
      /\ owner'[p] \in {owner[p], p}
      /\ ok' = [ok EXCEPT ![p] = TRUE]
      /\ stage' = [stage EXCEPT ![p] = "run"]
      /\ UNCHANGED <<name, made, version, free, core, mapped, ring, holds>>
    BY DEF Finish, shared, blocks, HeapTypes
<1>2. HeapTypes'
    BY <1>0 DEF HeapTypes, Building
<1>3. OfTheirCore'
    BY <1>0 DEF OfTheirCore
<1>4. OwnEffect(p)
    BY <1>0 DEF OwnEffect, HeapTypes
<1>5. InitAt(p)'
    BY <1>0 DEF HeapTypes, Initialising, InitAt, Building, AtArena, AtRest
<1>6. AllOkAt(p)'
    BY <1>0 DEF HeapTypes, Initialising, InitAt, AllOkAt, Passed, InLoop, AtRest
<1>7. ReadyAt(p)'
  <2>1. CASE ~ok[p]
      BY <1>0, <2>1 DEF HeapTypes, ReadyAt
  <2>2. CASE ok[p]
    <3>1. \A c \in Cores : mapped[p][c] # Nil /\ version[mapped[p][c]] = 2 /\ c \in ring[p]
      <4>1. AllOkAt(p)
          BY DEF Initialising
      <4> QED
          BY <1>0, <2>2, <4>1 DEF AllOkAt, InLoop, Passed
    <3>2. owner'[p] = p /\ ring[p] = Cores
        BY <1>0, <2>2, <3>1 DEF HeapTypes
    <3> QED
        BY <1>0, <3>1, <3>2 DEF HeapTypes, ReadyAt
  <2> QED
      BY <2>1, <2>2
<1>8. holds'[p] \cap Lent # {} => ready'[p] /\ owner'[p] = p
    BY <1>0 DEF HeapTypes, Initialising, InitAt, Building, HoldersReady
<1>9. NoBlockTwice'
    BY <1>0, SameBlocks
<1> QED
    BY <1>2, <1>3, <1>4, <1>5, <1>6, <1>7, <1>8, <1>9, OwnEffectKeeps

\* A refreshed pool is ready only when the rings of all cores are registered.
LEMMA RefreshKeeps == ASSUME PoolInv, NEW p \in Procs, Refresh(p) PROVE PoolInv'
<1> USE ForkedHeapAssumption DEF ForkedHeapAssumption, PoolInv
<1>0. /\ stage[p] \in {"refresh", "run"} /\ ready[p] /\ owner[p] # p
      /\ ring' = [ring EXCEPT ![p] = ring'[p]] /\ ring'[p] \subseteq Cores
      /\ ready' = [ready EXCEPT ![p] = ready'[p]] /\ ready'[p] \in BOOLEAN
      /\ owner' = [owner EXCEPT ![p] = owner'[p]] /\ owner'[p] \in Procs \cup {Nil}
      /\ ready'[p] => owner'[p] = p /\ ring'[p] = Cores
      /\ stage' = [stage EXCEPT ![p] = "run"]
      /\ UNCHANGED <<name, made, version, free, core, ok, mapped, holds>>
  <2>1. PICK failing \in SUBSET Cores :
            /\ ring' = [ring EXCEPT ![p] = Cores \ failing]
            /\ ready' = [ready EXCEPT ![p] = (failing = {})]
            /\ owner' = IF failing = {} THEN [owner EXCEPT ![p] = p] ELSE owner
      BY DEF Refresh
  <2>2. ring'[p] = Cores \ failing /\ ready'[p] = (failing = {})
      BY <2>1 DEF HeapTypes
  <2>3. /\ ring' = [ring EXCEPT ![p] = ring'[p]] /\ ring'[p] \subseteq Cores
        /\ ready' = [ready EXCEPT ![p] = ready'[p]] /\ ready'[p] \in BOOLEAN
      BY <2>1, <2>2
  <2>4. /\ owner' = [owner EXCEPT ![p] = owner'[p]] /\ owner'[p] \in Procs \cup {Nil}
        /\ ready'[p] => owner'[p] = p /\ ring'[p] = Cores
    <3>1. CASE failing = {}
        BY <2>1, <2>2, <3>1 DEF HeapTypes
    <3>2. CASE failing # {}
        BY <2>1, <2>2, <3>2 DEF HeapTypes
    <3> QED
        BY <3>1, <3>2
  <2> QED
      BY <2>3, <2>4 DEF Refresh, shared, blocks
<1>2. HeapTypes'
    BY <1>0 DEF HeapTypes, Building
<1>3. OfTheirCore'
    BY <1>0 DEF OfTheirCore
<1>4. OwnEffect(p)
    BY <1>0 DEF OwnEffect, HeapTypes
<1>5. InitAt(p)'
    BY <1>0 DEF HeapTypes, Initialising, InitAt, Building, AtArena, AtRest
<1>6. AllOkAt(p)'
    BY <1>0 DEF HeapTypes, Initialising, InitAt, AllOkAt, Passed, InLoop, AtRest
<1>7. ReadyAt(p)'
    BY <1>0 DEF HeapTypes, Initialising, InitAt, AllOkAt, InLoop, Passed, ReadyPools, ReadyAt
<1>8. holds'[p] \cap Lent # {} => ready'[p] /\ owner'[p] = p
    BY <1>0 DEF HeapTypes, Initialising, InitAt, Building, HoldersReady
<1>9. NoBlockTwice'
    BY <1>0, SameBlocks
<1> QED
    BY <1>2, <1>3, <1>4, <1>5, <1>6, <1>7, <1>8, <1>9, OwnEffectKeeps

\* A dead process has no pool and no blocks.
LEMMA DieKeeps == ASSUME PoolInv, NEW p \in Procs, Die(p) PROVE PoolInv'
<1> USE ForkedHeapAssumption DEF ForkedHeapAssumption, PoolInv
<1>0. /\ stage' = [stage EXCEPT ![p] = "dead"]
      /\ core' = [core EXCEPT ![p] = 0] /\ 0 \in Cores
      /\ ok' = [ok EXCEPT ![p] = TRUE]
      /\ ready' = [ready EXCEPT ![p] = FALSE]
      /\ owner' = [owner EXCEPT ![p] = Nil]
      /\ mapped' = [mapped EXCEPT ![p] = [c \in Cores |-> Nil]]
      /\ ring' = [ring EXCEPT ![p] = {}]
      /\ holds' = [holds EXCEPT ![p] = {}]
      /\ UNCHANGED <<name, made, version, free>>
    BY DEF Die, Cores
<1>2. HeapTypes'
    BY <1>0 DEF HeapTypes, Building
<1>3. OfTheirCore'
    BY <1>0 DEF OfTheirCore
<1>4. OwnEffect(p)
    BY <1>0 DEF OwnEffect, HeapTypes
<1>5. InitAt(p)'
    BY <1>0 DEF HeapTypes, Initialising, InitAt, Building, AtArena, AtRest
<1>6. AllOkAt(p)'
    BY <1>0 DEF HeapTypes, Initialising, InitAt, AllOkAt, Passed, InLoop, AtRest
<1>7. ReadyAt(p)'
    BY <1>0 DEF HeapTypes, Initialising, InitAt, AllOkAt, InLoop, Passed, ReadyPools, ReadyAt
<1>8. holds'[p] \cap Lent # {} => ready'[p] /\ owner'[p] = p
    BY <1>0 DEF HeapTypes, Initialising, InitAt, Building, HoldersReady
<1>9. NoBlockTwice'
    BY <1>0 DEF HeapTypes, NoBlockTwice
<1> QED
    BY <1>2, <1>3, <1>4, <1>5, <1>6, <1>7, <1>8, <1>9, OwnEffectKeeps

\* A block that retrieve can find is one that nobody uses.
LEMMA AllocateFromArenaKeeps == ASSUME PoolInv, NEW p \in Procs, NEW c \in Cores, NEW s \in Slots,
           AllocateFromArena(p, c, s) PROVE PoolInv'
<1> USE ForkedHeapAssumption DEF ForkedHeapAssumption, PoolInv
<1> DEFINE o == mapped[p][c]
           b == <<c, s>>
<1>0. /\ stage[p] = "run" /\ ready[p] /\ owner[p] = p
      /\ o \in Objects /\ b \in Lent /\ s \in free[o]
      /\ free' = [free EXCEPT ![o] = free[o] \ {s}]
      /\ holds' = [holds EXCEPT ![p] = holds[p] \cup {b}]
      /\ UNCHANGED <<name, made, version, stage, core, ok, ready, owner, mapped, ring>>
    BY DEF AllocateFromArena, MayUseArena, CurrentArena, PushBack, pool, HeapTypes, Lent
<1>2. HeapTypes'
  <2> HIDE DEF o, b
  <2>1. free' \in [Objects -> SUBSET Slots]
      BY <1>0 DEF HeapTypes
  <2>2. holds' \in [Procs -> SUBSET (Private \cup Lent)]
      BY <1>0 DEF HeapTypes
  <2> QED
      BY <1>0, <2>1, <2>2 DEF HeapTypes
<1>3. OfTheirCore'
    BY <1>0 DEF OfTheirCore
<1>4. OwnEffect(p)
    BY <1>0 DEF OwnEffect, HeapTypes
<1>5. InitAt(p)'
    BY <1>0 DEF Initialising, InitAt
<1>6. AllOkAt(p)'
    BY <1>0 DEF AllOkAt, InLoop
<1>7. ReadyAt(p)'
    BY <1>0 DEF ReadyPools, ReadyAt
<1>8. holds'[p] \cap Lent # {} => ready'[p] /\ owner'[p] = p
    BY <1>0 DEF HeapTypes, Initialising, InitAt, Building, HoldersReady
<1>9. NoBlockTwice'
  <2>0. \A q \in Procs : \A a \in holds'[q] : a \in holds[q] \/ (q = p /\ a = b)
      BY <1>0 DEF HeapTypes
  <2>1. \A q \in Procs, a \in Lent :
            a \in holds[q] =>
                /\ a[2] \notin free[mapped[q][a[1]]]
                /\ mapped[q][a[1]] \in Objects
    <3>1. \A q \in Procs, a \in Lent : a \in holds[q] => ready[q] /\ a[1] \in Cores
        BY DEF HoldersReady, Lent
    <3>2. \A q \in Procs, d \in Cores : ready[q] => mapped[q][d] \in Objects
        BY DEF ReadyPools, ReadyAt, HeapTypes
    <3> QED
        BY <3>1, <3>2 DEF NoBlockTwice
  <2>2. \A q \in Procs : b \in holds[q] => mapped[q][c] # o
      BY <1>0, <2>1
  <2>3. ASSUME NEW q \in Procs, NEW a \in holds'[q] \cap Lent
        PROVE  a[2] \notin free'[mapped[q][a[1]]]
    <3>1. CASE a \in holds[q]
        BY <1>0, <2>1, <3>1 DEF HeapTypes
    <3>2. CASE a \notin holds[q]
        BY <1>0, <3>2 DEF HeapTypes
    <3> QED
        BY <3>1, <3>2
  <2>4. ASSUME NEW q \in Procs, NEW a \in holds'[q] \cap Lent, NEW r \in Procs \ {q},
               a \in holds'[r]
        PROVE  mapped[r][a[1]] # mapped[q][a[1]]
    <3>1. CASE a \in holds[q] /\ a \in holds[r]
        BY <3>1 DEF NoBlockTwice
    <3>2. CASE a \notin holds[q]
      <4>1. q = p /\ a = b
          BY <2>0, <2>4, <3>2
      <4>2. b \in holds[r] /\ a[1] = c
          BY <2>0, <2>4, <4>1
      <4> QED
          BY <2>2, <4>1, <4>2
    <3>3. CASE a \notin holds[r]
      <4>1. r = p /\ a = b
          BY <2>0, <2>4, <3>3
      <4>2. b \in holds[q] /\ a[1] = c
          BY <2>0, <2>4, <4>1
      <4> QED
          BY <2>2, <4>1, <4>2
    <3> QED
        BY <3>1, <3>2, <3>3
  <2> QED
      BY <1>0, <2>3, <2>4 DEF NoBlockTwice
<1> QED
    BY <1>2, <1>3, <1>4, <1>5, <1>6, <1>7, <1>8, <1>9, OwnEffectKeeps

\* Private memory is none of the arenas'.
LEMMA AllocatePrivateKeeps == ASSUME PoolInv, NEW p \in Procs, NEW a \in Private, AllocatePrivate(p, a) PROVE PoolInv'
<1> USE ForkedHeapAssumption DEF ForkedHeapAssumption, PoolInv
<1>0. /\ stage[p] = "run"
      /\ a \notin Lent
      /\ holds' = [holds EXCEPT ![p] = holds[p] \cup {a}]
      /\ UNCHANGED <<name, made, version, free, stage, core, ok, ready, owner, mapped, ring>>
    BY DEF AllocatePrivate, PushBack, shared, pool
<1>2. HeapTypes'
    BY <1>0 DEF HeapTypes, Building
<1>3. OfTheirCore'
    BY <1>0 DEF OfTheirCore
<1>4. OwnEffect(p)
    BY <1>0 DEF OwnEffect, HeapTypes
<1>5. InitAt(p)'
    BY <1>0 DEF Initialising, InitAt
<1>6. AllOkAt(p)'
    BY <1>0 DEF AllOkAt, InLoop
<1>7. ReadyAt(p)'
    BY <1>0 DEF ReadyPools, ReadyAt
<1>8. holds'[p] \cap Lent # {} => ready'[p] /\ owner'[p] = p
    BY <1>0 DEF HeapTypes, HoldersReady
<1>9. NoBlockTwice'
    BY <1>0 DEF HeapTypes, NoBlockTwice
<1> QED
    BY <1>2, <1>3, <1>4, <1>5, <1>6, <1>7, <1>8, <1>9, OwnEffectKeeps

\* What goes back to an arena has lost its only user.
LEMMA DeallocateKeeps == ASSUME PoolInv, NEW p \in Procs, NEW a \in holds[p], Deallocate(p, a) PROVE PoolInv'
<1> USE ForkedHeapAssumption DEF ForkedHeapAssumption, PoolInv
<1> DEFINE o == mapped[p][a[1]]
<1>0. /\ stage[p] = "run"
      /\ stage' = [stage EXCEPT ![p] = stage'[p]] /\ stage'[p] \in {"run", "aborted"}
      /\ holds' = [holds EXCEPT ![p] = holds'[p]]
      /\ \/ holds'[p] = holds[p] /\ free' = free
         \/ holds'[p] = holds[p] \ {a} /\ free' = free
         \/ /\ holds'[p] = holds[p] \ {a}
            /\ a \in Lent /\ a[1] \in Cores /\ a[2] \in Slots /\ o \in Objects
            /\ free' = [free EXCEPT ![o] = free[o] \cup {a[2]}]
      /\ holds'[p] \subseteq holds[p]
      /\ UNCHANGED <<name, made, version, core, ok, ready, owner, mapped, ring>>
  <2>1. stage[p] = "run" /\ UNCHANGED <<name, made, version, core, ok, ready, owner, mapped, ring>>
      BY DEF Deallocate
  <2>2. CASE ChecksHold(p, a)
    <3>1. /\ holds' = [holds EXCEPT ![p] = holds[p] \ {a}] /\ stage' = stage
          /\ \/ /\ IsReturned(p, a)
                /\ free' = [free EXCEPT ![OwningArena(p, a)] = @ \cup {a[2]}]
             \/ free' = free
        BY <2>2 DEF Deallocate, Release
    <3>2. IsReturned(p, a) =>
              /\ a \in Lent /\ a[1] \in Cores /\ a[2] \in Slots
              /\ OwningArena(p, a) = o /\ o \in Objects
        BY DEF IsReturned, OwningArena, Lent, HeapTypes
    <3> QED
        BY <2>1, <3>1, <3>2 DEF HeapTypes
  <2>3. CASE ~ChecksHold(p, a)
      BY <2>1, <2>3 DEF Deallocate, Abort, blocks, HeapTypes
  <2> QED
      BY <2>2, <2>3
<1>2. HeapTypes'
  <2>1. free' \in [Objects -> SUBSET Slots]
      BY <1>0 DEF HeapTypes
  <2>2. stage'[p] \in Building \cup {"run", "aborted"}
      BY <1>0
  <2>3. holds'[p] \subseteq Private \cup Lent
      BY <1>0 DEF HeapTypes
  <2>4. stage' \in [Procs -> Building \cup {"run", "refresh", "dead", "aborted"}]
      BY <1>0, <2>2 DEF HeapTypes
  <2>5. holds' \in [Procs -> SUBSET (Private \cup Lent)]
      BY <1>0, <2>3 DEF HeapTypes
  <2>6. UNCHANGED <<name, made, version, core, ok, ready, owner, mapped, ring>>
      BY <1>0
  <2> QED
      BY <2>1, <2>4, <2>5, <2>6 DEF HeapTypes
<1>3. OfTheirCore'
    BY <1>0 DEF OfTheirCore
<1>4. OwnEffect(p)
    BY <1>0 DEF OwnEffect, HeapTypes
<1>5. InitAt(p)'
    BY <1>0 DEF HeapTypes, Initialising, InitAt, Building, AtArena, AtRest
<1>6. AllOkAt(p)'
    BY <1>0 DEF HeapTypes, AllOkAt, InLoop
<1>7. ReadyAt(p)'
    BY <1>0 DEF HeapTypes, ReadyPools, ReadyAt
<1>8. holds'[p] \cap Lent # {} => ready'[p] /\ owner'[p] = p
    BY <1>0 DEF HeapTypes, HoldersReady
<1>9. NoBlockTwice'
  <2>1. \A q \in Procs : holds'[q] \subseteq holds[q]
      BY <1>0 DEF HeapTypes
  <2>2. CASE free' = free
      BY <1>0, <2>1, <2>2 DEF NoBlockTwice
  <2>3. CASE free' # free
    <3>1. /\ holds' = [holds EXCEPT ![p] = holds[p] \ {a}]
          /\ a \in Lent /\ a[1] \in Cores /\ a[2] \in Slots /\ o \in Objects
          /\ free' = [free EXCEPT ![o] = free[o] \cup {a[2]}]
        BY <1>0, <2>3
    <3>2. ASSUME NEW q \in Procs, NEW b \in holds'[q] \cap Lent
          PROVE  b[2] \notin free'[mapped[q][b[1]]]
      <4>1. /\ b \in holds[q] \cap Lent /\ b[1] \in Cores
            /\ b[2] \notin free[mapped[q][b[1]]]
          BY <2>1 DEF NoBlockTwice, Lent
      <4>2. mapped[q][b[1]] = o => b[1] = a[1]
        <5>1. mapped[q][b[1]] \in ObjectsOf(b[1]) \cup {Nil} /\ o \in ObjectsOf(a[1])
            BY <3>1, <4>1 DEF OfTheirCore
        <5> QED
            BY <3>1, <5>1 DEF ObjectsOf
      <4>3. mapped[q][b[1]] = o => b[2] # a[2]
        <5>1. b[1] = a[1] /\ b[2] = a[2] => b = a
            BY <3>1 DEF Lent
        <5>2. mapped[q][b[1]] = o => b # a
            BY <3>1, <4>1 DEF HeapTypes, NoBlockTwice
        <5> QED
            BY <4>2, <5>1, <5>2
      <4> QED
          BY <3>1, <4>1, <4>3 DEF HeapTypes
    <3> QED
        BY <1>0, <2>1, <3>2 DEF NoBlockTwice
  <2> QED
      BY <2>2, <2>3
<1> QED
    BY <1>2, <1>3, <1>4, <1>5, <1>6, <1>7, <1>8, <1>9, OwnEffectKeeps

\* The child of a process that uses no arena blocks has none, and a pool that is ready only
\* by its parent's doing.
LEMMA ForkKeeps ==
    ASSUME ~ForkWhileInUse, PoolInv, NEW p \in Procs, NEW q \in Procs, Fork(p, q)
    PROVE  PoolInv'
<1> USE DEF PoolInv
<1>0. /\ stage[p] = "run" /\ stage[q] = "absent" /\ p # q
      /\ holds[p] \cap Lent = {}
      /\ stage' = [stage EXCEPT ![p] = stage'[p], ![q] = stage'[q]]
      /\ ready' = [ready EXCEPT ![q] = ready[p]]
      /\ owner' = [owner EXCEPT ![q] = owner[p]]
      /\ mapped' = [mapped EXCEPT ![q] = mapped[p]]
      /\ holds' = [holds EXCEPT ![q] = holds[p]]
      /\ UNCHANGED <<name, made, version, free, core, ok, ring>>
  <2>1. p # q
      BY DEF Fork
  <2>2. stage' = [stage EXCEPT ![p] = stage'[p], ![q] = stage'[q]]
    <3>1. PICK handled \in BOOLEAN :
              stage' = IF handled
                       THEN [stage EXCEPT ![p] = EnterInit(p, ready[p], owner[p]),
                                          ![q] = EnterInit(q, ready[p], owner[p])]
                       ELSE [stage EXCEPT ![q] = "run"]
        BY DEF Fork
    <3>2. CASE handled
        BY <2>1, <3>1, <3>2 DEF HeapTypes
    <3>3. CASE ~handled
        BY <2>1, <3>1, <3>3 DEF HeapTypes
    <3> QED
        BY <3>2, <3>3
  <2> QED
      BY <2>1, <2>2 DEF Fork, shared
<1>1. /\ stage'[p] \in {"run", "refresh", "open", "unlink"}
      /\ stage'[q] \in {"run", "refresh", "open", "unlink"}
      /\ ready[p] => stage'[p] \in {"run", "refresh"} /\ stage'[q] \in {"run", "refresh"}
    BY <1>0 DEF Fork, EnterInit, HeapTypes
<1>2. HeapTypes'
    BY <1>0, <1>1 DEF HeapTypes, Building
<1>3. OfTheirCore'
    BY <1>0 DEF HeapTypes, OfTheirCore
<1>4. ASSUME NEW r \in Procs
      PROVE  InitAt(r)' /\ AllOkAt(r)' /\ ReadyAt(r)'
  <2>1. InitAt(r) /\ AllOkAt(r) /\ ReadyAt(r)
      BY DEF Initialising, ReadyPools
  <2>2. CASE r \notin {p, q}
    <3>1. /\ stage'[r] = stage[r] /\ ready'[r] = ready[r] /\ owner'[r] = owner[r]
          /\ mapped'[r] = mapped[r]
        BY <1>0, <2>2 DEF HeapTypes
    <3>2. \A x \in Procs : stage'[x] = "absent" => stage[x] = "absent"
        BY <1>0, <1>1 DEF HeapTypes
    <3> QED
        BY <1>0, <2>1, <3>1, <3>2 DEF InitAt, AllOkAt, ReadyAt, Passed
  <2>3. CASE r \in {p, q}
    <3>1. /\ ready'[r] = ready[p] /\ owner'[r] = owner[p] /\ mapped'[r] = mapped[p]
          /\ stage'[r] \in {"run", "refresh", "open", "unlink"}
          /\ ready[p] => stage'[r] \in {"run", "refresh"}
        BY <1>0, <1>1, <2>3 DEF HeapTypes
    <3>2. core'[r] = 0 /\ \A c \in Cores : ~(c < 0)
        BY <1>0, <2>1, <2>3 DEF InitAt, AtRest, Cores
    <3>3. ready[p] =>
              /\ \A c \in Cores : mapped[p][c] # Nil /\ version[mapped[p][c]] = 2
              /\ owner[p] = p => ring[p] = Cores
              /\ owner[p] # q
              /\ \A x \in Procs : stage[x] = "absent" => owner[p] # x
        BY <1>0 DEF ReadyPools, ReadyAt
    <3>4. InitAt(r)'
        BY <3>1, <3>2 DEF InitAt, Building, AtArena, AtRest
    <3>5. AllOkAt(r)'
        BY <3>1, <3>2 DEF AllOkAt, Passed, InLoop
    <3>6. ReadyAt(r)'
      <4>1. \A x \in Procs : stage'[x] = "absent" => stage[x] = "absent"
          BY <1>0, <1>1 DEF HeapTypes
      <4>2. ready[p] /\ owner[p] = r => ring[r] = Cores
          BY <2>3, <3>3
      <4> QED
          BY <1>0, <3>1, <3>3, <4>1, <4>2 DEF ReadyAt
    <3> QED
        BY <3>4, <3>5, <3>6
  <2> QED
      BY <2>2, <2>3
<1>5. OneFormatter'
    BY <1>0, <1>1 DEF HeapTypes, Initialising, OneFormatter
<1>6. Initialising' /\ ReadyPools'
    BY <1>4, <1>5 DEF Initialising, ReadyPools
<1>7. \A r \in Procs : /\ r = q => holds'[r] \cap Lent = {}
                       /\ r # q => /\ holds'[r] = holds[r] /\ mapped'[r] = mapped[r]
                                   /\ ready'[r] = ready[r] /\ owner'[r] = owner[r]
    BY <1>0 DEF HeapTypes
<1>8. HoldersReady'
    BY <1>7 DEF HoldersReady
<1>9. NoBlockTwice'
    BY <1>0, <1>7 DEF NoBlockTwice
<1> QED
    BY <1>2, <1>3, <1>6, <1>8, <1>9

\* Every step keeps the invariant.
LEMMA PoolInvStep == ~ForkWhileInUse /\ PoolInv /\ [Next]_vars => PoolInv'
<1> SUFFICES ASSUME ~ForkWhileInUse, PoolInv, [Next]_vars
             PROVE  PoolInv'
    OBVIOUS
<1>1. CASE UNCHANGED vars
    BY <1>1 DEF vars, PoolInv, HeapTypes, OfTheirCore, Initialising, OneFormatter, InitAt,
                AllOkAt, Passed, ReadyPools, ReadyAt, HoldersReady, NoBlockTwice
<1>2. CASE Next
  <2>1. PICK p \in Procs :
            \/ Start(p)
            \/ InitStep(p)
            \/ \E q \in Procs : Fork(p, q)
            \/ Die(p)
            \/ \E c \in Cores, s \in Slots : AllocateFromArena(p, c, s)
            \/ \E a \in Private : AllocatePrivate(p, a)
            \/ \E a \in holds[p] : Deallocate(p, a)
      BY <1>2 DEF Next
  <2>2. CASE Start(p) \/ Die(p) \/ \E q \in Procs : Fork(p, q)
      BY <2>2, StartKeeps, DieKeeps, ForkKeeps
  <2>3. CASE InitStep(p)
      BY <2>3, UnlinkKeeps, OpenKeeps, OpenFailsKeeps, CompareVersionKeeps, FormatKeeps,
         WaitKeeps, RegisterRingKeeps, FinishKeeps, RefreshKeeps DEF InitStep
  <2>4. CASE \E c \in Cores, s \in Slots : AllocateFromArena(p, c, s)
      BY <2>4, AllocateFromArenaKeeps
  <2>5. CASE (\E a \in Private : AllocatePrivate(p, a)) \/ \E a \in holds[p] : Deallocate(p, a)
      BY <2>5, AllocatePrivateKeeps, DeallocateKeeps
  <2> QED
      BY <2>1, <2>2, <2>3, <2>4, <2>5
<1> QED
    BY <1>1, <1>2

\* It holds throughout.
THEOREM PoolInvariant == ASSUME ~ForkWhileInUse PROVE Spec => []PoolInv
<1>1. PoolInv /\ [Next]_vars => PoolInv'
    BY PoolInvStep
<1> QED
    BY PoolInvInit, <1>1, PTL DEF Spec

\* However processes start, attach, fork, die and fail to map or register an arena, no two
\* of them use one block and none that is used can be retrieved.
THEOREM BlocksHaveOneUser == ASSUME ~ForkWhileInUse PROVE Spec => []NoBlockTwice
<1>1. PoolInv => NoBlockTwice
    BY DEF PoolInv
<1>2. Spec => []PoolInv
    BY PoolInvariant
<1> QED
    BY <1>1, <1>2, PTL

\* Who has a block of an arena can give it back and has it logged.
THEOREM BorrowersCanReturn == ASSUME ~ForkWhileInUse PROVE Spec => []BorrowersAreReady
<1>1. PoolInv => BorrowersAreReady
  <2> SUFFICES ASSUME PoolInv, NEW p \in Procs, NEW a \in holds[p] \cap Lent
               PROVE  /\ ready[p]
                      /\ mapped[p][a[1]] # Nil
                      /\ version[mapped[p][a[1]]] = 2
                      /\ ring[p] = Cores
      BY DEF BorrowersAreReady
  <2>1. ready[p] /\ owner[p] = p /\ a[1] \in Cores
      BY DEF PoolInv, HoldersReady, Lent
  <2> QED
      BY <2>1 DEF PoolInv, ReadyPools, ReadyAt
<1>2. Spec => []PoolInv
    BY PoolInvariant
<1> QED
    BY <1>1, <1>2, PTL

-----------------------------------------------------------------------------
(* Lists in the headers of their blocks.                                   *)

Addresses == Private \cup Lent
Header == [prev : Addresses \cup {Nil}, next : Addresses \cup {Nil}, owner : Procs \cup {Nil}]

\* The links of block a of list H from f to l agree with those of its neighbours; h has the
\* headers of the blocks of H.
Linked(H, f, l, h, a) ==
    /\ h[a] \in Header
    /\ h[a].prev = Nil <=> a = f
    /\ h[a].next = Nil <=> a = l
    /\ h[a].next # Nil => h[a].next \in H /\ h[h[a].next].prev = a
    /\ h[a].prev # Nil => h[a].prev \in H /\ h[h[a].prev].next = a

\* They lead somewhere: the blocks have ranks that grow along the list.
Ranked(H, h) == \E r \in [H -> Nat] : \A a \in H : h[a].next # Nil => r[a] < r[h[a].next]

\* What the list leads to from the blocks of S is in S.
Closed(S, h) == \A a \in S : h[a].next # Nil => h[a].next \in S

Chain(H, f, l, h) ==
    /\ H \subseteq Addresses
    /\ f = Nil <=> l = Nil
    /\ f # Nil => f \in H /\ l \in H
    /\ \A a \in H : Linked(H, f, l, h, a)
    /\ Ranked(H, h)

\* A set of numbers has a least one.
LEMMA LeastNumber ==
    ASSUME NEW S \in SUBSET Nat, S # {}
    PROVE  \E m \in S : \A k \in S : m <= k
<1>1. PICK m \in S : \A k \in S : ~ (<<k, m>> \in OpToRel(<, Nat))
    BY NatLessThanWellFounded, WFMin
<1>2. \A k \in S : ~(k < m)
    BY <1>1 DEF OpToRel
<1> QED
    BY <1>2

\* Whatever has all that follows what it has, and First, has all of a chain: of what it
\* lacked, the block of least rank would follow one that it has.
LEMMA ChainIsReached ==
    ASSUME NEW H, NEW f, NEW l, NEW h, Chain(H, f, l, h),
           NEW S \in SUBSET H, H # S, Closed(S, h)
    PROVE  f # Nil /\ f \notin S
<1> USE ForkedHeapAssumption DEF ForkedHeapAssumption, Closed
<1>1. PICK r \in [H -> Nat] : \A a \in H : h[a].next # Nil => r[a] < r[h[a].next]
    BY DEF Chain, Ranked
<1>2. {r[a] : a \in H \ S} \in SUBSET Nat /\ {r[a] : a \in H \ S} # {}
    BY <1>1
<1>3. PICK m \in {r[a] : a \in H \ S} : \A k \in {r[a] : a \in H \ S} : m <= k
    BY <1>2, LeastNumber
<1>4. PICK b \in H \ S : m = r[b]
    BY <1>3
<1>5. \A a \in H \ S : r[b] <= r[a]
    BY <1>3, <1>4
<1>6. h[b].prev = Nil
  <2> SUFFICES ASSUME h[b].prev # Nil
               PROVE  FALSE
      OBVIOUS
  <2> DEFINE c == h[b].prev
  <2>1. c \in H /\ h[c].next = b
      BY DEF Chain, Linked
  <2>2. b # Nil
      BY DEF Chain, Addresses
  <2>3. r[c] < r[b] /\ r[c] \in Nat /\ r[b] \in Nat
      BY <1>1, <2>1, <2>2
  <2>4. c \in S
      BY <1>5, <2>1, <2>3
  <2> QED
      BY <2>1, <2>2, <2>4
<1>7. b = f /\ b # Nil
    BY <1>6 DEF Chain, Linked, Addresses
<1> QED
    BY <1>7

\* What a chain gives ListLinked and WalkIsComplete.
LEMMA ChainIsList ==
    ASSUME NEW H, NEW f, NEW l, NEW h, Chain(H, f, l, h)
    PROVE  /\ H = {} => f = Nil /\ l = Nil
           /\ H # {} => /\ f \in H /\ h[f].prev = Nil
                        /\ l \in H /\ h[l].next = Nil
                        /\ \A a \in H \ {l} : h[a].next \in H /\ h[h[a].next].prev = a
           /\ \A S \in SUBSET H : f \in S /\ Closed(S, h) => S = H
<1>1. H # {} => f # Nil
  <2> SUFFICES ASSUME H # {}
               PROVE  f # Nil
      OBVIOUS
  <2>1. {} \in SUBSET H /\ H # {} /\ Closed({}, h)
      BY DEF Closed
  <2> QED
      BY <2>1, ChainIsReached
<1>2. \A S \in SUBSET H : f \in S /\ Closed(S, h) => S = H
    BY ChainIsReached
<1> QED
    BY <1>1, <1>2 DEF Chain, Linked

\* InUseBlocks.push_back on a chain.
LEMMA ChainGrows ==
    ASSUME NEW H, NEW f, NEW l, NEW h, NEW g, Chain(H, f, l, h),
           NEW a \in Addresses, a \notin H,
           g[a] \in Header, g[a].prev = l, g[a].next = Nil,
           \A b \in H : g[b] \in Header /\ g[b].prev = h[b].prev
                        /\ g[b].next = IF b = l THEN a ELSE h[b].next
    PROVE  Chain(H \cup {a}, IF f = Nil THEN a ELSE f, a, g)
<1> USE ForkedHeapAssumption DEF ForkedHeapAssumption
<1> DEFINE G == H \cup {a}
           e == IF f = Nil THEN a ELSE f
<1>1. a # Nil /\ \A b \in H : b # Nil /\ b # a
    BY DEF Chain, Addresses
<1>2. G \subseteq Addresses /\ (e = Nil <=> a = Nil) /\ (e # Nil => e \in G /\ a \in G)
    BY <1>1 DEF Chain
<1>3. Linked(G, e, a, g, a)
    BY <1>1 DEF Chain, Linked
<1>4. ASSUME NEW b \in H
      PROVE  Linked(G, e, a, g, b)
  <2>1. /\ h[b].prev = Nil <=> b = f
        /\ h[b].next = Nil <=> b = l
        /\ h[b].next # Nil => h[b].next \in H /\ h[h[b].next].prev = b
        /\ h[b].prev # Nil => h[b].prev \in H /\ h[h[b].prev].next = b
      BY DEF Chain, Linked
  <2>2. g[b].prev = Nil <=> b = e
      BY <1>1, <2>1 DEF Chain
  <2>3. g[b].next # Nil /\ g[b].next \in G /\ g[g[b].next].prev = b
      BY <1>1, <2>1
  <2>4. g[b].prev # Nil => g[b].prev \in G /\ g[g[b].prev].next = b
    <3> SUFFICES ASSUME g[b].prev # Nil
                 PROVE  g[b].prev \in G /\ g[g[b].prev].next = b
        OBVIOUS
    <3> DEFINE c == h[b].prev
    <3>1. g[b].prev = c /\ c \in H /\ h[c].next = b
        BY <2>1
    <3>2. c # l
        BY <1>1, <3>1 DEF Chain, Linked
    <3>3. g[c].next = h[c].next
        BY <3>1, <3>2
    <3> QED
        BY <3>1, <3>3
  <2> QED
      BY <1>1, <2>2, <2>3, <2>4 DEF Linked
<1>5. Ranked(G, g)
  <2>1. PICK r \in [H -> Nat] : \A b \in H : h[b].next # Nil => r[b] < r[h[b].next]
      BY DEF Chain, Ranked
  <2> DEFINE q == [b \in G |-> IF b # a THEN r[b] ELSE IF l \in H THEN r[l] + 1 ELSE 0]
  <2>2. q \in [G -> Nat]
      BY <2>1
  <2>3. \A b \in G : g[b].next # Nil => q[b] < q[g[b].next]
    <3> TAKE b \in G
    <3>1. CASE b = a
        BY <3>1
    <3>2. CASE b = l /\ b # a
      <4>1. b \in H /\ g[b].next = a
          BY <3>2
      <4> QED
          BY <1>1, <2>1, <3>2, <4>1
    <3>3. CASE b # l /\ b # a
      <4>1. b \in H /\ g[b].next = h[b].next /\ (h[b].next # Nil => h[b].next \in H)
          BY <3>3 DEF Chain, Linked
      <4> QED
          BY <1>1, <2>1, <3>3, <4>1
    <3> QED
        BY <3>1, <3>2, <3>3
  <2> HIDE DEF q
  <2> QED
      BY <2>2, <2>3 DEF Ranked
<1>6. \A b \in G : Linked(G, e, a, g, b)
    BY <1>3, <1>4
<1> HIDE DEF G, e
<1>7. Chain(G, e, a, g)
    BY <1>2, <1>5, <1>6 DEF Chain
<1> QED
    BY <1>7 DEF G, e

\* InUseBlocks.remove on a chain.
LEMMA ChainShrinks ==
    ASSUME NEW H, NEW f, NEW l, NEW h, NEW g, Chain(H, f, l, h), NEW a \in H,
           \A b \in H \ {a} :
               /\ g[b] \in Header
               /\ g[b].next = IF b = h[a].prev THEN h[a].next ELSE h[b].next
               /\ g[b].prev = IF b = h[a].next THEN h[a].prev ELSE h[b].prev
    PROVE  Chain(H \ {a}, IF f = a THEN h[a].next ELSE f, IF l = a THEN h[a].prev ELSE l, g)
<1> USE ForkedHeapAssumption DEF ForkedHeapAssumption
<1> DEFINE G == H \ {a}
           e == IF f = a THEN h[a].next ELSE f
           k == IF l = a THEN h[a].prev ELSE l
<1>1. PICK r \in [H -> Nat] : \A b \in H : h[b].next # Nil => r[b] < r[h[b].next]
    BY DEF Chain, Ranked
<1>2. \A b \in H : /\ b # Nil
                   /\ h[b].prev = Nil <=> b = f
                   /\ h[b].next = Nil <=> b = l
                   /\ h[b].next # Nil => h[b].next \in H /\ h[h[b].next].prev = b
                   /\ h[b].prev # Nil => h[b].prev \in H /\ h[h[b].prev].next = b
    BY DEF Chain, Linked, Addresses
<1>3. h[a].next # a /\ h[a].prev # a
    BY <1>1, <1>2
<1>4. f \in H /\ l \in H
    BY ChainIsList
<1>5. G \subseteq Addresses /\ (e = Nil <=> k = Nil) /\ (e # Nil => e \in G /\ k \in G)
    BY <1>2, <1>3, <1>4 DEF Chain
<1>6. ASSUME NEW b \in G
      PROVE  Linked(G, e, k, g, b)
  <2>1. g[b].prev = Nil <=> b = e
      BY <1>2, <1>3
  <2>2. g[b].next = Nil <=> b = k
      BY <1>2, <1>3
  <2>3. g[b].next # Nil => g[b].next \in G /\ g[g[b].next].prev = b
      BY <1>2, <1>3
  <2>4. g[b].prev # Nil => g[b].prev \in G /\ g[g[b].prev].next = b
      BY <1>2, <1>3
  <2> QED
      BY <2>1, <2>2, <2>3, <2>4 DEF Linked
<1>7. Ranked(G, g)
  <2> DEFINE q == [b \in G |-> r[b]]
  <2>1. q \in [G -> Nat]
      BY <1>1
  <2>2. \A b \in G : g[b].next # Nil => q[b] < q[g[b].next]
    <3> TAKE b \in G
    <3>1. CASE b = h[a].prev
        BY <1>1, <1>2, <1>3, <3>1
    <3>2. CASE b # h[a].prev
        BY <1>1, <1>2, <1>3, <3>2
    <3> QED
        BY <3>1, <3>2
  <2> HIDE DEF q
  <2> QED
      BY <2>1, <2>2 DEF Ranked
<1> HIDE DEF G, e, k
<1>8. Chain(G, e, k, g)
    BY <1>5, <1>6, <1>7 DEF Chain
<1> QED
    BY <1>8 DEF G, e, k

\* Only its headers matter to a chain.
LEMMA ChainSame ==
    ASSUME NEW H, NEW f, NEW l, NEW h, NEW g, Chain(H, f, l, h), \A a \in H : g[a] = h[a]
    PROVE  Chain(H, f, l, g)
<1>1. \A a \in H : Linked(H, f, l, g, a)
    BY DEF Chain, Linked
<1>2. Ranked(H, g)
    BY DEF Chain, Ranked
<1> QED
    BY <1>1, <1>2 DEF Chain

-----------------------------------------------------------------------------
(* The lists of the processes.                                             *)

HeadersOf(p) == [a \in holds[p] |-> HeaderAt(p, a)]
ListAt(p) == Chain(holds[p], first[p], last[p], HeadersOf(p))

Lists ==
    /\ mem \in [Places -> Header]
    /\ first \in [Procs -> Addresses \cup {Nil}]
    /\ last \in [Procs -> Addresses \cup {Nil}]
    /\ \A p \in Procs : ListAt(p)

ListInv == PoolInv /\ Lists /\ ChecksPass

\* The headers of all blocks in use are in places of their own.
Apart ==
    \A p \in Procs : \A a \in holds[p] :
        /\ PlaceOf(p, a) \in Places
        /\ \A q \in Procs : \A b \in holds[q] :
              PlaceOf(p, a) = PlaceOf(q, b) => p = q /\ a = b

\* No two headers share memory: each is in a private mapping of its process or in a block
\* that, by the invariant of the pool, only it uses.
LEMMA PlacesApart == PoolInv => Apart
<1> SUFFICES ASSUME PoolInv PROVE Apart
    OBVIOUS
<1> USE ForkedHeapAssumption DEF ForkedHeapAssumption, PoolInv
<1>1. ASSUME NEW p \in Procs, NEW a \in holds[p], a \notin Private
      PROVE  a \in Lent /\ mapped[p][a[1]] \in Objects
  <2>1. a \in Lent
      BY <1>1 DEF HeapTypes
  <2>2. ready[p] /\ a[1] \in Cores
      BY <2>1 DEF HoldersReady, Lent
  <2> QED
      BY <2>1, <2>2 DEF ReadyPools, ReadyAt, HeapTypes
<1>2. ASSUME NEW p \in Procs, NEW a \in holds[p]
      PROVE  PlaceOf(p, a) \in Places
    BY <1>1 DEF PlaceOf, Places
<1>3. ASSUME NEW p \in Procs, NEW a \in holds[p], NEW q \in Procs, NEW b \in holds[q],
             PlaceOf(p, a) = PlaceOf(q, b)
      PROVE  p = q /\ a = b
  <2>1. a = b
      BY <1>3 DEF PlaceOf
  <2>2. CASE a \in Private
      BY <1>3, <2>1, <2>2 DEF PlaceOf
  <2>3. CASE a \notin Private
    <3>1. a \in holds[p] \cap Lent /\ a \in holds[q]
        BY <1>1, <2>1, <2>3
    <3>2. mapped[p][a[1]] = mapped[q][a[1]]
        BY <1>3, <2>1, <2>3 DEF PlaceOf
    <3> QED
        BY <2>1, <3>1, <3>2 DEF NoBlockTwice
  <2> QED
      BY <2>1, <2>2, <2>3
<1> QED
    BY <1>2, <1>3 DEF Apart

\* The same after a step.
LEMMA PlacesApartNext == PoolInv' => Apart'
    BY PlacesApart, PTL

\* A list stays as it is when its headers do.
LEMMA ListUndisturbed ==
    ASSUME NEW q \in Procs, ListAt(q),
           holds'[q] = holds[q], first'[q] = first[q], last'[q] = last[q],
           \A a \in holds[q] : mem'[PlaceOf(q, a)'] = mem[PlaceOf(q, a)]
    PROVE  ListAt(q)'
<1>1. \A a \in holds[q] : HeadersOf(q)'[a] = HeadersOf(q)[a]
    BY DEF HeadersOf, HeaderAt
<1> HIDE DEF HeadersOf
<1> QED
    BY <1>1, ChainSame DEF ListAt

\* Steps that leave the blocks alone leave the lists alone: a mapping only changes before
\* the process has arena blocks.
LEMMA QuietKeeps ==
    ASSUME PoolInv, Lists, UNCHANGED blocks,
           \A q \in Procs : mapped'[q] = mapped[q] \/ ~ready[q]
    PROVE  Lists'
<1>1. mem' = mem /\ first' = first /\ last' = last /\ holds' = holds
    BY DEF blocks
<1>2. ASSUME NEW q \in Procs
      PROVE  ListAt(q)'
  <2>1. \A a \in holds[q] : a \notin Private => mapped'[q] = mapped[q]
      BY DEF PoolInv, HeapTypes, HoldersReady
  <2>2. \A a \in holds[q] : PlaceOf(q, a)' = PlaceOf(q, a)
      BY <2>1 DEF PlaceOf
  <2>3. ListAt(q)
      BY DEF Lists
  <2> QED
      BY <1>1, <2>2, <2>3, ListUndisturbed
<1> QED
    BY <1>1, <1>2 DEF Lists

\* A store to one link of one header.
LEMMA SetNext ==
    ASSUME NEW m \in [Places -> Header], NEW x \in Places, NEW v \in Addresses \cup {Nil}
    PROVE  LET n == [m EXCEPT ![x].next = v] IN
           /\ n \in [Places -> Header]
           /\ n[x].next = v /\ n[x].prev = m[x].prev
           /\ \A y \in Places \ {x} : n[y] = m[y]
    BY DEF Header

\* Setting Prev of one header changes no other field and no other header.
LEMMA SetPrev ==
    ASSUME NEW m \in [Places -> Header], NEW x \in Places, NEW v \in Addresses \cup {Nil}
    PROVE  LET n == [m EXCEPT ![x].prev = v] IN
           /\ n \in [Places -> Header]
           /\ n[x].prev = v /\ n[x].next = m[x].next
           /\ \A y \in Places \ {x} : n[y] = m[y]
    BY DEF Header

\* InUseBlocks.push_back writes to no header of another process and keeps the list.
LEMMA PushKeeps ==
    ASSUME PoolInv, PoolInv', Lists, NEW p \in Procs, NEW a \in Addresses, a \notin holds[p],
           NEW pid \in Procs \cup {Nil}, PushBack(p, a, pid), mapped' = mapped
    PROVE  Lists'
<1> DEFINE x == PlaceOf(p, a)
           z == PlaceOf(p, last[p])
           new == [prev |-> last[p], next |-> Nil, owner |-> pid]
<1>1. \A q \in Procs : \A b : PlaceOf(q, b)' = PlaceOf(q, b)
    BY DEF PlaceOf
<1>2. /\ holds \in [Procs -> SUBSET Addresses]
      /\ mem \in [Places -> Header]
      /\ first \in [Procs -> Addresses \cup {Nil}] /\ last \in [Procs -> Addresses \cup {Nil}]
    BY DEF PoolInv, HeapTypes, Lists, Addresses
<1>3. /\ holds' = [holds EXCEPT ![p] = holds[p] \cup {a}]
      /\ first' = [first EXCEPT ![p] = IF first[p] = Nil THEN a ELSE first[p]]
      /\ last' = [last EXCEPT ![p] = a]
    BY <1>2 DEF PushBack
<1>4. Apart /\ Apart'
    BY PlacesApart, PlacesApartNext
<1>5. x \in Places /\ \A q \in Procs : \A b \in holds[q] : PlaceOf(q, b) \in Places \ {x}
  <2>1. a \in holds'[p] /\ \A q \in Procs : \A b \in holds[q] :
            b \in holds'[q] /\ ~(q = p /\ b = a)
      BY <1>2, <1>3
  <2> HIDE DEF x
  <2>2. PlaceOf(p, a)' \in Places /\ PlaceOf(p, a)' = x
      BY <1>1, <1>4, <2>1 DEF Apart, x
  <2>3. ASSUME NEW q \in Procs, NEW b \in holds[q]
        PROVE  PlaceOf(q, b) \in Places /\ PlaceOf(q, b) # x
    <3>1. PlaceOf(q, b)' # PlaceOf(p, a)'
        BY <1>4, <2>1 DEF Apart
    <3> QED
        BY <1>1, <1>4, <2>2, <3>1 DEF Apart
  <2> QED
      BY <2>2, <2>3
<1>6. ListAt(p) /\ (first[p] = Nil <=> last[p] = Nil) /\ (first[p] # Nil => last[p] \in holds[p])
    BY DEF Lists, ListAt, Chain
<1>7. new \in Header /\ new.prev = last[p] /\ new.next = Nil
    BY <1>2 DEF Header
<1>8. /\ mem' \in [Places -> Header] /\ mem'[x] = new
      /\ first[p] # Nil => mem'[z].next = a /\ mem'[z].prev = mem[z].prev
      /\ \A y \in Places \ {x} : y # z \/ first[p] = Nil => mem'[y] = mem[y]
  <2> HIDE DEF x, z, new
  <2>1. CASE first[p] = Nil
    <3>1. mem' = [mem EXCEPT ![x] = new]
        BY <2>1 DEF PushBack, x, new
    <3> QED
        BY <1>2, <1>5, <1>7, <2>1, <3>1
  <2>2. CASE first[p] # Nil
    <3> DEFINE n == [mem EXCEPT ![z].next = a]
    <3>1. mem' = [n EXCEPT ![x] = new]
        BY <2>2 DEF PushBack, x, z, new
    <3>2. z \in Places \ {x}
        BY <1>5, <1>6, <2>2 DEF z
    <3>3. /\ n \in [Places -> Header] /\ n[z].next = a /\ n[z].prev = mem[z].prev
          /\ \A y \in Places \ {z} : n[y] = mem[y]
        BY <1>2, <3>2, SetNext
    <3> HIDE DEF n
    <3> QED
        BY <1>5, <1>7, <2>2, <3>1, <3>2, <3>3
  <2> QED
      BY <2>1, <2>2
<1> HIDE DEF x, new
<1>9. ASSUME NEW q \in Procs \ {p}
      PROVE  ListAt(q)'
  <2>1. \A b \in holds[q] : PlaceOf(q, b) # z \/ first[p] = Nil
      BY <1>4, <1>6 DEF Apart
  <2>2. \A b \in holds[q] : mem'[PlaceOf(q, b)'] = mem[PlaceOf(q, b)]
      BY <1>1, <1>5, <1>8, <2>1
  <2> QED
      BY <1>2, <1>3, <2>2, ListUndisturbed DEF Lists
<1>10. ListAt(p)'
  <2> DEFINE h == HeadersOf(p)
             g == HeadersOf(p)'
  <2>1. /\ holds'[p] = holds[p] \cup {a} /\ last'[p] = a
        /\ first'[p] = IF first[p] = Nil THEN a ELSE first[p]
      BY <1>2, <1>3
  <2>2. /\ \A b \in holds[p] : h[b] = mem[PlaceOf(p, b)]
        /\ \A b \in holds[p] \cup {a} : g[b] = mem'[PlaceOf(p, b)]
      BY <1>1, <2>1 DEF HeadersOf, HeaderAt
  <2> HIDE DEF h, g
  <2>3. g[a] \in Header /\ g[a].prev = last[p] /\ g[a].next = Nil
      BY <1>7, <1>8, <2>2 DEF x
  <2>4. ASSUME NEW b \in holds[p]
        PROVE  /\ g[b] \in Header /\ g[b].prev = h[b].prev
               /\ g[b].next = IF b = last[p] THEN a ELSE h[b].next
    <3>1. PlaceOf(p, b) \in Places \ {x}
        BY <1>5
    <3>2. CASE b = last[p]
      <4>1. first[p] # Nil
          BY <1>6, <3>2, ForkedHeapAssumption DEF ForkedHeapAssumption, ListAt, Chain, Addresses
      <4> QED
          BY <1>8, <2>2, <3>1, <3>2, <4>1
    <3>3. CASE b # last[p]
      <4>1. PlaceOf(p, b) # z \/ first[p] = Nil
          BY <1>4, <1>6, <3>3 DEF Apart
      <4> QED
          BY <1>8, <2>2, <3>1, <3>3, <4>1
    <3> QED
        BY <3>2, <3>3
  <2>5. Chain(holds[p], first[p], last[p], h)
      BY <1>6 DEF ListAt, h
  <2>6. Chain(holds[p] \cup {a}, IF first[p] = Nil THEN a ELSE first[p], a, g)
      BY <2>3, <2>4, <2>5, ChainGrows
  <2> QED
      BY <2>1, <2>6 DEF ListAt, g
<1> QED
    BY <1>2, <1>3, <1>8, <1>9, <1>10 DEF Lists

\* A block of a chain is not its own neighbour.
LEMMA ChainSteps ==
    ASSUME NEW H, NEW f, NEW l, NEW h, Chain(H, f, l, h), NEW a \in H
    PROVE  h[a].next # a /\ h[a].prev # a
<1>1. PICK r \in [H -> Nat] : \A b \in H : h[b].next # Nil => r[b] < r[h[b].next]
    BY DEF Chain, Ranked
<1>2. /\ a # Nil
      /\ h[a].next # Nil => r[a] < r[h[a].next]
      /\ h[a].prev # Nil => h[a].prev \in H /\ h[h[a].prev].next = a
      /\ r[a] \in Nat
    BY <1>1, ForkedHeapAssumption DEF ForkedHeapAssumption, Chain, Linked, Addresses
<1> QED
    BY <1>2

\* InUseBlocks.remove likewise, and its checks hold.
LEMMA ChecksAlwaysHold ==
    ASSUME Lists, NEW p \in Procs, NEW a \in holds[p]
    PROVE  ChecksHold(p, a)
<1> DEFINE h == HeadersOf(p)
<1>1. Chain(holds[p], first[p], last[p], h)
    BY DEF Lists, ListAt
<1>2. \A b \in holds[p] : h[b] = HeaderAt(p, b)
    BY DEF HeadersOf
<1> HIDE DEF h
<1>3. /\ h[a].next # Nil => h[a].next \in holds[p] /\ h[h[a].next].prev = a
      /\ h[a].prev # Nil => h[a].prev \in holds[p] /\ h[h[a].prev].next = a
    BY <1>1 DEF Chain, Linked
<1> QED
    BY <1>2, <1>3 DEF ChecksHold

\* InUseBlocks.remove links the neighbours of the block and keeps every list.
LEMMA RemoveKeeps ==
    ASSUME PoolInv, PoolInv', Lists, NEW p \in Procs, NEW a \in holds[p], Unchained(p, a),
           holds' = [holds EXCEPT ![p] = holds[p] \ {a}], mapped' = mapped
    PROVE  Lists'
<1> USE ForkedHeapAssumption DEF ForkedHeapAssumption
<1> DEFINE h == HeadersOf(p)
           c == HeaderAt(p, a).prev
           d == HeaderAt(p, a).next
           P(q, b) == PlaceOf(q, b)
           m == IF c = Nil THEN mem ELSE [mem EXCEPT ![P(p, c)].next = d]
           n == IF d = Nil THEN m ELSE [m EXCEPT ![P(p, d)].prev = c]
<1>1. \A q \in Procs : \A b : PlaceOf(q, b)' = P(q, b)
    BY DEF PlaceOf
<1>2. /\ holds \in [Procs -> SUBSET Addresses]
      /\ mem \in [Places -> Header]
      /\ first \in [Procs -> Addresses \cup {Nil}] /\ last \in [Procs -> Addresses \cup {Nil}]
    BY DEF PoolInv, HeapTypes, Lists, Addresses
<1>3. Chain(holds[p], first[p], last[p], h)
    BY DEF Lists, ListAt
<1>4. h[a].prev = c /\ h[a].next = d /\ \A b \in holds[p] : h[b] = mem[P(p, b)]
    BY DEF HeadersOf, HeaderAt
<1>5. mem' = IF a \in Private \/ HeaderAt(p, a).owner = p THEN [n EXCEPT ![P(p, a)] = Gone] ELSE n
    BY DEF Unchained
<1>6. /\ first' = IF first[p] = a THEN [first EXCEPT ![p] = d] ELSE first
      /\ last' = IF last[p] = a THEN [last EXCEPT ![p] = c] ELSE last
    BY DEF Unchained
<1>7. \A q \in Procs : \A b \in holds[q] :
          /\ P(q, b) \in Places
          /\ \A r \in Procs : \A e \in holds[r] : P(q, b) = P(r, e) => q = r /\ b = e
    BY PlacesApart DEF Apart
<1> HIDE DEF h, c, d, P
<1>8. /\ c \in Addresses \cup {Nil} /\ d \in Addresses \cup {Nil}
      /\ c # Nil => c \in holds[p]
      /\ d # Nil => d \in holds[p]
      /\ c # a /\ d # a
  <2>1. h[a] \in Header
      BY <1>3 DEF Chain, Linked
  <2>2. h[a].prev \in Addresses \cup {Nil} /\ h[a].next \in Addresses \cup {Nil}
      BY <2>1 DEF Header
  <2>3. c # Nil => c \in holds[p]
      BY <1>3, <1>4 DEF Chain, Linked
  <2>4. d # Nil => d \in holds[p]
      BY <1>3, <1>4 DEF Chain, Linked
  <2> QED
      BY <1>3, <1>4, <2>2, <2>3, <2>4, ChainSteps
<1>9. /\ m \in [Places -> Header]
      /\ c # Nil => m[P(p, c)].next = d /\ m[P(p, c)].prev = mem[P(p, c)].prev
      /\ \A q \in Procs : \A b \in holds[q] : ~(q = p /\ b = c) => m[P(q, b)] = mem[P(q, b)]
  <2>1. CASE c = Nil
      BY <1>2, <2>1
  <2>2. CASE c # Nil
    <3>1. m = [mem EXCEPT ![P(p, c)].next = d] /\ P(p, c) \in Places
        BY <1>7, <1>8, <2>2
    <3>2. \A q \in Procs : \A b \in holds[q] :
              ~(q = p /\ b = c) => P(q, b) \in Places \ {P(p, c)}
        BY <1>7, <1>8, <2>2
    <3> HIDE DEF m
    <3>3. /\ m \in [Places -> Header]
          /\ m[P(p, c)].next = d /\ m[P(p, c)].prev = mem[P(p, c)].prev
          /\ \A y \in Places \ {P(p, c)} : m[y] = mem[y]
        BY <1>2, <1>8, <3>1, SetNext
    <3> QED
        BY <3>2, <3>3
  <2> QED
      BY <2>1, <2>2
<1> HIDE DEF m
<1>10. /\ n \in [Places -> Header]
       /\ d # Nil => n[P(p, d)].prev = c /\ n[P(p, d)].next = m[P(p, d)].next
       /\ \A q \in Procs : \A b \in holds[q] : ~(q = p /\ b = d) => n[P(q, b)] = m[P(q, b)]
  <2>1. CASE d = Nil
      BY <1>9, <2>1
  <2>2. CASE d # Nil
    <3>1. n = [m EXCEPT ![P(p, d)].prev = c] /\ P(p, d) \in Places
        BY <1>7, <1>8, <2>2
    <3>2. \A q \in Procs : \A b \in holds[q] :
              ~(q = p /\ b = d) => P(q, b) \in Places \ {P(p, d)}
        BY <1>7, <1>8, <2>2
    <3> HIDE DEF n
    <3>3. /\ n \in [Places -> Header]
          /\ n[P(p, d)].prev = c /\ n[P(p, d)].next = m[P(p, d)].next
          /\ \A y \in Places \ {P(p, d)} : n[y] = m[y]
        BY <1>8, <1>9, <3>1, SetPrev
    <3> QED
        BY <3>2, <3>3
  <2> QED
      BY <2>1, <2>2
<1> HIDE DEF n
<1>11. /\ mem' \in [Places -> Header]
       /\ \A q \in Procs : \A b \in holds[q] : ~(q = p /\ b = a) => mem'[P(q, b)] = n[P(q, b)]
  <2>1. Gone \in Header
      BY DEF Gone, Header
  <2> QED
      BY <1>5, <1>7, <1>10, <2>1
<1>12. ASSUME NEW q \in Procs \ {p}
       PROVE  ListAt(q)'
  <2>1. \A b \in holds[q] : mem'[P(q, b)] = mem[P(q, b)]
      BY <1>9, <1>10, <1>11
  <2>2. \A b \in holds[q] : mem'[PlaceOf(q, b)'] = mem[PlaceOf(q, b)]
      BY <1>1, <2>1 DEF P
  <2> QED
      BY <1>2, <1>6, <2>2, ListUndisturbed DEF Lists
<1>13. ListAt(p)'
  <2> DEFINE g == HeadersOf(p)'
  <2>1. /\ holds'[p] = holds[p] \ {a}
        /\ first'[p] = IF first[p] = a THEN h[a].next ELSE first[p]
        /\ last'[p] = IF last[p] = a THEN h[a].prev ELSE last[p]
      BY <1>2, <1>4, <1>6
  <2>2. \A b \in holds[p] \ {a} : g[b] = mem'[P(p, b)]
      BY <1>1, <2>1 DEF HeadersOf, HeaderAt
  <2> HIDE DEF g
  <2>3. ASSUME NEW b \in holds[p] \ {a}
        PROVE  /\ g[b] \in Header
               /\ g[b].next = IF b = h[a].prev THEN h[a].next ELSE h[b].next
               /\ g[b].prev = IF b = h[a].next THEN h[a].prev ELSE h[b].prev
    <3>1. g[b] = n[P(p, b)] /\ h[b] = mem[P(p, b)] /\ P(p, b) \in Places
        BY <1>4, <1>7, <1>11, <2>2
    <3>2. b # Nil
        BY <1>2 DEF Addresses
    <3>3. g[b] \in Header
        BY <1>10, <3>1
    <3>4. /\ m[P(p, b)].next = IF b = c THEN d ELSE h[b].next
          /\ m[P(p, b)].prev = h[b].prev
        BY <1>9, <3>1, <3>2
    <3>5. /\ n[P(p, b)].next = m[P(p, b)].next
          /\ n[P(p, b)].prev = IF b = d THEN c ELSE m[P(p, b)].prev
        BY <1>10, <3>2
    <3> QED
        BY <1>4, <3>1, <3>3, <3>4, <3>5
  <2>4. Chain(holds[p] \ {a}, IF first[p] = a THEN h[a].next ELSE first[p],
              IF last[p] = a THEN h[a].prev ELSE last[p], g)
      BY <1>3, <2>3, ChainShrinks
  <2> QED
      BY <2>1, <2>4 DEF ListAt, g
<1> QED
    BY <1>2, <1>6, <1>8, <1>11, <1>12, <1>13 DEF Lists

\* The child's list is the parent's; its headers are all private and were copied.
LEMMA ForkKeepsLists ==
    ASSUME ~ForkWhileInUse, PoolInv, Lists, NEW p \in Procs, NEW q \in Procs, Fork(p, q)
    PROVE  Lists'
<1> USE ForkedHeapAssumption DEF ForkedHeapAssumption
<1>1. /\ p # q /\ holds[p] \cap Lent = {}
      /\ mapped' = [mapped EXCEPT ![q] = mapped[p]]
      /\ first' = [first EXCEPT ![q] = first[p]]
      /\ last' = [last EXCEPT ![q] = last[p]]
      /\ holds' = [holds EXCEPT ![q] = holds[p]]
      /\ mem' = [x \in Places |-> IF x[1] = q THEN mem[<<p, x[2]>>] ELSE mem[x]]
    BY DEF Fork
<1>2. /\ holds \in [Procs -> SUBSET Addresses]
      /\ mapped \in [Procs -> [Cores -> Objects \cup {Nil}]]
      /\ mem \in [Places -> Header]
      /\ first \in [Procs -> Addresses \cup {Nil}] /\ last \in [Procs -> Addresses \cup {Nil}]
    BY DEF PoolInv, HeapTypes, Lists, Addresses
<1>3. mem' \in [Places -> Header]
  <2>1. ASSUME NEW x \in Places, x[1] = q
        PROVE  <<p, x[2]>> \in Places
      BY <2>1 DEF Places
  <2> QED
      BY <1>1, <1>2, <2>1
<1>4. ASSUME NEW r \in Procs \ {q}
      PROVE  ListAt(r)'
  <2>1. ASSUME NEW a \in holds[r]
        PROVE  PlaceOf(r, a)' = PlaceOf(r, a) /\ mem'[PlaceOf(r, a)] = mem[PlaceOf(r, a)]
    <3>1. PlaceOf(r, a)' = PlaceOf(r, a)
        BY <1>1, <1>2 DEF PlaceOf
    <3>2. PlaceOf(r, a) \in Places
        BY PlacesApart DEF Apart
    <3>3. PlaceOf(r, a)[1] # q
      <4>1. CASE a \in Private
          BY <4>1 DEF PlaceOf
      <4>2. CASE a \notin Private
          BY <3>2, <4>2 DEF PlaceOf, Places
      <4> QED
          BY <4>1, <4>2
    <3> QED
        BY <1>1, <3>1, <3>2, <3>3
  <2> QED
      BY <1>1, <1>2, <2>1, ListUndisturbed DEF Lists
<1>5. ListAt(q)'
  <2> DEFINE h == HeadersOf(p)
             g == HeadersOf(q)'
  <2>1. holds'[q] = holds[p] /\ first'[q] = first[p] /\ last'[q] = last[p]
      BY <1>1, <1>2
  <2>2. ASSUME NEW a \in holds[p]
        PROVE  g[a] = h[a]
    <3>1. a \in Private
        BY <1>1, <1>2 DEF Addresses
    <3>2. g[a] = mem'[<<q, a>>] /\ h[a] = mem[<<p, a>>]
        BY <2>1, <3>1 DEF HeadersOf, HeaderAt, PlaceOf
    <3>3. <<q, a>> \in Places
        BY <3>1 DEF Places
    <3> QED
        BY <1>1, <3>2, <3>3
  <2>3. Chain(holds[p], first[p], last[p], h)
      BY DEF Lists, ListAt
  <2> HIDE DEF h, g
  <2>4. Chain(holds[p], first[p], last[p], g)
      BY <2>2, <2>3, ChainSame
  <2> QED
      BY <2>1, <2>4 DEF ListAt, g
<1> QED
    BY <1>1, <1>2, <1>3, <1>4, <1>5 DEF Lists

\* Private memory goes with its process, whose list is empty then.
LEMMA DieKeepsLists == ASSUME PoolInv, Lists, NEW p \in Procs, Die(p) PROVE Lists'
<1> USE ForkedHeapAssumption DEF ForkedHeapAssumption
<1>1. /\ mapped' = [mapped EXCEPT ![p] = [c \in Cores |-> Nil]]
      /\ first' = [first EXCEPT ![p] = Nil]
      /\ last' = [last EXCEPT ![p] = Nil]
      /\ holds' = [holds EXCEPT ![p] = {}]
      /\ mem' = [x \in Places |-> IF x[1] = p THEN Gone ELSE mem[x]]
    BY DEF Die
<1>2. /\ holds \in [Procs -> SUBSET Addresses]
      /\ mapped \in [Procs -> [Cores -> Objects \cup {Nil}]]
      /\ mem \in [Places -> Header]
      /\ first \in [Procs -> Addresses \cup {Nil}] /\ last \in [Procs -> Addresses \cup {Nil}]
    BY DEF PoolInv, HeapTypes, Lists, Addresses
<1>3. mem' \in [Places -> Header]
  <2>1. Gone \in Header
      BY DEF Gone, Header
  <2> QED
      BY <1>1, <1>2, <2>1
<1>4. ASSUME NEW r \in Procs \ {p}
      PROVE  ListAt(r)'
  <2>1. ASSUME NEW a \in holds[r]
        PROVE  PlaceOf(r, a)' = PlaceOf(r, a) /\ mem'[PlaceOf(r, a)] = mem[PlaceOf(r, a)]
    <3>1. PlaceOf(r, a)' = PlaceOf(r, a)
        BY <1>1, <1>2 DEF PlaceOf
    <3>2. PlaceOf(r, a) \in Places
        BY PlacesApart DEF Apart
    <3>3. PlaceOf(r, a)[1] # p
      <4>1. CASE a \in Private
          BY <4>1 DEF PlaceOf
      <4>2. CASE a \notin Private
          BY <3>2, <4>2 DEF PlaceOf, Places
      <4> QED
          BY <4>1, <4>2
    <3> QED
        BY <1>1, <3>1, <3>2, <3>3
  <2> QED
      BY <1>1, <1>2, <2>1, ListUndisturbed DEF Lists
<1>5. ListAt(p)'
  <2> DEFINE g == HeadersOf(p)'
  <2>1. holds'[p] = {} /\ first'[p] = Nil /\ last'[p] = Nil
      BY <1>1, <1>2
  <2> HIDE DEF g
  <2>2. Ranked({}, g)
    <3>1. [a \in {} |-> 0] \in [{} -> Nat]
        OBVIOUS
    <3> QED
        BY <3>1 DEF Ranked
  <2>3. Chain({}, Nil, Nil, g)
      BY <2>2 DEF Chain
  <2> QED
      BY <2>1, <2>3 DEF ListAt, g
<1> QED
    BY <1>1, <1>2, <1>3, <1>4, <1>5 DEF Lists

\* Every process starts with an empty list.
LEMMA ListInvInit == Init => ListInv
<1> SUFFICES ASSUME Init PROVE ListInv
    OBVIOUS
<1>1. /\ mem = [x \in Places |-> Gone]
      /\ first = [p \in Procs |-> Nil] /\ last = [p \in Procs |-> Nil]
      /\ holds = [p \in Procs |-> {}] /\ stage = [p \in Procs |-> "absent"]
    BY DEF Init
<1>2. Gone \in Header
    BY DEF Gone, Header
<1>3. ASSUME NEW p \in Procs
      PROVE  ListAt(p)
  <2> DEFINE g == HeadersOf(p)
  <2> HIDE DEF g
  <2>1. Ranked({}, g)
    <3>1. [a \in {} |-> 0] \in [{} -> Nat]
        OBVIOUS
    <3> QED
        BY <3>1 DEF Ranked
  <2>2. Chain({}, Nil, Nil, g)
      BY <2>1 DEF Chain
  <2> QED
      BY <1>1, <2>2 DEF ListAt, g
<1>4. ChecksPass
    BY <1>1 DEF ChecksPass
<1> QED
    BY <1>1, <1>2, <1>3, <1>4, PoolInvInit DEF ListInv, Lists

\* The steps of init are quiet, and none of them aborts.
LEMMA InitStepKeepsLists ==
    ASSUME ListInv, NEW p \in Procs, Start(p) \/ InitStep(p)
    PROVE  Lists' /\ ChecksPass'
<1> USE DEF ListInv
<1>1. /\ stage \in [Procs -> Building \cup {"run", "refresh", "dead", "aborted"}]
      /\ mapped \in [Procs -> [Cores -> Objects \cup {Nil}]]
    BY DEF PoolInv, HeapTypes
<1>2. UNCHANGED blocks
    BY DEF Start, InitStep, Unlink, Open, OpenFails, CompareVersion, Format, Wait, RegisterRing,
           Finish, Refresh
<1>3. \A q \in Procs : mapped'[q] = mapped[q] \/ ~ready[q]
  <2>1. CASE Open(p) \/ RegisterRing(p)
    <3>1. stage[p] \in Building
        BY <2>1 DEF Open, RegisterRing, Building
    <3>2. ~ready[p]
        BY <3>1 DEF PoolInv, Initialising, InitAt
    <3>3. \A q \in Procs \ {p} : mapped'[q] = mapped[q]
        BY <1>1, <2>1 DEF Open, RegisterRing
    <3> QED
        BY <3>2, <3>3
  <2>2. CASE ~(Open(p) \/ RegisterRing(p))
      BY <2>2 DEF Start, InitStep, Unlink, OpenFails, CompareVersion, Format, Wait,
                  Finish, Refresh
  <2> QED
      BY <2>1, <2>2
<1>4. ChecksPass'
  <2>1. \E s \in Building \cup {"run", "refresh"} : stage' = [stage EXCEPT ![p] = s] \/ stage' = stage
    <3>1. CASE Start(p)
        BY <3>1 DEF Start, EnterInit, Building
    <3>2. CASE Unlink(p) \/ Open(p) \/ OpenFails(p) \/ RegisterRing(p)
        BY <3>2 DEF Unlink, Open, OpenFails, RegisterRing, NextCore, Building
    <3>3. CASE CompareVersion(p) \/ Format(p) \/ Wait(p) \/ Finish(p) \/ Refresh(p)
        BY <3>3 DEF CompareVersion, Format, Wait, Finish, Refresh, Building
    <3> QED
        BY <3>1, <3>2, <3>3 DEF InitStep
  <2> QED
      BY <1>1, <2>1 DEF ChecksPass, Building
<1> QED
    BY <1>2, <1>3, <1>4, QuietKeeps

\* Every step keeps the lists.
LEMMA ListInvStep == ~ForkWhileInUse /\ ListInv /\ [Next]_vars => ListInv'
<1> SUFFICES ASSUME ~ForkWhileInUse, ListInv, [Next]_vars
             PROVE  ListInv'
    OBVIOUS
<1>1. PoolInv'
    BY PoolInvStep DEF ListInv
<1>2. CASE UNCHANGED vars
  <2>1. Lists'
      BY <1>2, QuietKeeps DEF ListInv, vars, blocks
  <2>2. ChecksPass'
      BY <1>2 DEF ListInv, vars, ChecksPass
  <2> QED
      BY <1>1, <2>1, <2>2 DEF ListInv
<1>3. CASE Next
  <2>1. PICK p \in Procs :
            \/ Start(p)
            \/ InitStep(p)
            \/ \E q \in Procs : Fork(p, q)
            \/ Die(p)
            \/ \E c \in Cores, s \in Slots : AllocateFromArena(p, c, s)
            \/ \E a \in Private : AllocatePrivate(p, a)
            \/ \E a \in holds[p] : Deallocate(p, a)
      BY <1>3 DEF Next
  <2>2. CASE Start(p) \/ InitStep(p)
      BY <1>1, <2>2, InitStepKeepsLists DEF ListInv
  <2>3. ASSUME NEW q \in Procs, Fork(p, q)
        PROVE  ListInv'
    <3>1. ChecksPass'
        BY <2>3 DEF ListInv, PoolInv, HeapTypes, ChecksPass, Fork, EnterInit
    <3> QED
        BY <1>1, <2>3, <3>1, ForkKeepsLists DEF ListInv
  <2>4. CASE Die(p)
    <3>1. ChecksPass'
        BY <2>4 DEF ListInv, PoolInv, HeapTypes, ChecksPass, Die
    <3> QED
        BY <1>1, <2>4, <3>1, DieKeepsLists DEF ListInv
  <2>5. ASSUME NEW c \in Cores, NEW s \in Slots, AllocateFromArena(p, c, s)
        PROVE  ListInv'
    <3>1. /\ <<c, s>> \in Addresses /\ PushBack(p, <<c, s>>, p) /\ mapped' = mapped
          /\ stage' = stage
        BY <2>5 DEF AllocateFromArena, pool, Addresses, Lent
    <3>2. <<c, s>> \notin holds[p]
      <4>1. s \in free[mapped[p][c]]
          BY <2>5 DEF AllocateFromArena, CurrentArena, MayUseArena
      <4>2. <<c, s>> \in Lent
          BY DEF Lent
      <4> QED
          BY <4>1, <4>2 DEF ListInv, PoolInv, NoBlockTwice
    <3>3. Lists'
        BY <1>1, <3>1, <3>2, PushKeeps DEF ListInv
    <3> QED
        BY <1>1, <3>1, <3>3 DEF ListInv, ChecksPass
  <2>6. ASSUME NEW a \in Private, AllocatePrivate(p, a)
        PROVE  ListInv'
    <3>1. /\ a \in Addresses /\ a \notin holds[p] /\ PushBack(p, a, Nil) /\ mapped' = mapped
          /\ stage' = stage
        BY <2>6 DEF AllocatePrivate, pool, Addresses
    <3>2. Lists'
        BY <1>1, <3>1, PushKeeps DEF ListInv
    <3> QED
        BY <1>1, <3>1, <3>2 DEF ListInv, ChecksPass
  <2>7. ASSUME NEW a \in holds[p], Deallocate(p, a)
        PROVE  ListInv'
    <3>1. ChecksHold(p, a)
        BY ChecksAlwaysHold DEF ListInv
    <3>2. /\ Unchained(p, a) /\ holds' = [holds EXCEPT ![p] = holds[p] \ {a}]
          /\ stage' = stage /\ mapped' = mapped
        BY <2>7, <3>1 DEF Deallocate, Release
    <3>3. Lists'
        BY <1>1, <3>2, RemoveKeeps DEF ListInv
    <3> QED
        BY <1>1, <3>2, <3>3 DEF ListInv, ChecksPass
  <2> QED
      BY <2>1, <2>2, <2>3, <2>4, <2>5, <2>6, <2>7
<1> QED
    BY <1>2, <1>3

\* It holds throughout.
THEOREM ListInvariant == ASSUME ~ForkWhileInUse PROVE Spec => []ListInv
<1>1. ListInv /\ [Next]_vars => ListInv'
    BY ListInvStep
<1> QED
    BY ListInvInit, <1>1, PTL DEF Spec

\* The list of every process goes through exactly its blocks, although the links of some
\* are in memory that other processes map and write.
THEOREM ListsStayIntact == ASSUME ~ForkWhileInUse PROVE Spec => []ListsIntact
<1>1. ListInv => ListsIntact
  <2> SUFFICES ASSUME ListInv, NEW p \in Procs
               PROVE  ListLinked(p) /\ WalkIsComplete(p)
      BY DEF ListsIntact
  <2> DEFINE h == HeadersOf(p)
  <2>1. Chain(holds[p], first[p], last[p], h)
      BY DEF ListInv, Lists, ListAt
  <2>2. \A a \in holds[p] : h[a] = HeaderAt(p, a)
      BY DEF HeadersOf
  <2> HIDE DEF h
  <2>3. /\ holds[p] = {} => first[p] = Nil /\ last[p] = Nil
        /\ holds[p] # {} =>
              /\ first[p] \in holds[p] /\ h[first[p]].prev = Nil
              /\ last[p] \in holds[p] /\ h[last[p]].next = Nil
              /\ \A a \in holds[p] \ {last[p]} : h[a].next \in holds[p] /\ h[h[a].next].prev = a
        /\ \A S \in SUBSET holds[p] : first[p] \in S /\ Closed(S, h) => S = holds[p]
      BY <2>1, ChainIsList
  <2>4. ListLinked(p)
      BY <2>2, <2>3 DEF ListLinked
  <2>5. WalkIsComplete(p)
      BY <2>2, <2>3 DEF WalkIsComplete, Closed
  <2> QED
      BY <2>4, <2>5
<1>2. Spec => []ListInv
    BY ListInvariant
<1> QED
    BY <1>1, <1>2, PTL

\* No check of DoublyLinkedList::remove stops a process.
THEOREM ChecksAlwaysPass == ASSUME ~ForkWhileInUse PROVE Spec => []ChecksPass
<1>1. ListInv => ChecksPass
    BY DEF ListInv
<1>2. Spec => []ListInv
    BY ListInvariant
<1> QED
    BY <1>1, <1>2, PTL
=============================================================================
