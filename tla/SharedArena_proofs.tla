------------------------- MODULE SharedArena_proofs -------------------------
(***************************************************************************)
(* Proofs about SharedArena, for any number of arenas, processes and       *)
(* threads, any page count and any ring capacity: first the spin locks,    *)
(* then the free lists, the ownership of pages and the log entries, which  *)
(* rest on them, and last the promise that PageArena.tla states.           *)
(***************************************************************************)
EXTENDS SharedArena, FiniteSetTheorems, WellFoundedInduction, TLAPS

\* The part of the type invariant that the lock discipline rests on.
LockTypeOK ==
    /\ lock \in [Arenas -> BOOLEAN]
    /\ pc \in [Threads -> Stages]
    /\ own \in [Threads -> Arenas]
    /\ log \in [Threads -> Arenas]
    /\ held = [p \in Procs |-> held[p]]
    /\ \A p \in Procs : \A b \in held[p] : b.arena \in Arenas

\* Only a store between two different arenas waits with a lock in hand.
TwoLocksDiffer == \A t \in Threads : pc[t] = "s_lock2" => own[t] # log[t]

LockInv == LockTypeOK /\ TwoLocksDiffer /\ MutualExclusion

-----------------------------------------------------------------------------
(***************************************************************************)
(* How one thread's step changes who holds what.                           *)
(***************************************************************************)

OthersKeep(t) == \A u \in Threads \ {t} : Holds(u)' = Holds(u)

\* A step that takes no lock and drops none keeps mutual exclusion.
LEMMA StayStep ==
    ASSUME MutualExclusion, NEW t \in Threads, OthersKeep(t),
           Holds(t)' = Holds(t), lock' = lock
    PROVE  MutualExclusion'
<1>1. \A u \in Threads : Holds(u)' = Holds(u)
    BY DEF OthersKeep
<1> QED
    BY <1>1 DEF MutualExclusion

\* Taking a free lock keeps mutual exclusion.
LEMMA AcquireStep ==
    ASSUME LockTypeOK, MutualExclusion, NEW t \in Threads, OthersKeep(t),
           NEW a \in Arenas, Acquire(a), Holds(t)' = Holds(t) \cup {a}
    PROVE  MutualExclusion'
<1>1. \A u \in Threads : a \notin Holds(u)
    BY DEF MutualExclusion, Acquire
<1>2. ASSUME NEW b \in Arenas, NEW u \in Threads, NEW v \in Threads,
             b \in Holds(u)', b \in Holds(v)'
      PROVE  u = v
    BY <1>1, <1>2 DEF OthersKeep, MutualExclusion
<1>3. ASSUME NEW b \in Arenas
      PROVE  lock'[b] <=> \E u \in Threads : b \in Holds(u)'
    <2>1. CASE b = a
        <3>1. lock'[b]
            BY <2>1 DEF Acquire, LockTypeOK
        <3>2. b \in Holds(t)'
            BY <2>1
        <3> QED
            BY <3>1, <3>2
    <2>2. CASE b # a
        <3>1. lock'[b] = lock[b]
            BY <2>2 DEF Acquire, LockTypeOK
        <3>2. \A u \in Threads : b \in Holds(u)' <=> b \in Holds(u)
            BY <2>2 DEF OthersKeep
        <3> QED
            BY <3>1, <3>2 DEF MutualExclusion
    <2> QED
        BY <2>1, <2>2
<1> QED
    BY <1>2, <1>3 DEF MutualExclusion

\* Dropping locks the thread holds keeps mutual exclusion.
LEMMA ReleaseStep ==
    ASSUME LockTypeOK, MutualExclusion, NEW t \in Threads, OthersKeep(t),
           NEW A, A \subseteq Holds(t), Release(A), Holds(t)' = Holds(t) \ A
    PROVE  MutualExclusion'
<1>1. ASSUME NEW b \in Arenas, NEW u \in Threads, NEW v \in Threads,
             b \in Holds(u)', b \in Holds(v)'
      PROVE  u = v
    BY <1>1 DEF OthersKeep, MutualExclusion
<1>2. ASSUME NEW b \in Arenas
      PROVE  lock'[b] <=> \E u \in Threads : b \in Holds(u)'
    <2>1. lock'[b] <=> b \notin A /\ lock[b]
        BY DEF Release, LockTypeOK
    <2>2. CASE b \in A
        <3>1. \A u \in Threads : b \in Holds(u) => u = t
            BY <2>2 DEF MutualExclusion
        <3>2. \A u \in Threads : b \notin Holds(u)'
            BY <2>2, <3>1 DEF OthersKeep
        <3> QED
            BY <2>1, <2>2, <3>2
    <2>3. CASE b \notin A
        <3>1. \A u \in Threads : b \in Holds(u)' <=> b \in Holds(u)
            BY <2>3 DEF OthersKeep
        <3> QED
            BY <2>1, <2>3, <3>1 DEF MutualExclusion
    <2> QED
        BY <2>2, <2>3
<1> QED
    BY <1>1, <1>2 DEF MutualExclusion

-----------------------------------------------------------------------------

\* The shape of a call's last step and of its stages in between.
LEMMA ReturnTypes ==
    ASSUME LockTypeOK, NEW t \in Threads, Return(t)
    PROVE  /\ pc' \in [Threads -> Stages]
           /\ own' \in [Threads -> Arenas]
           /\ log' \in [Threads -> Arenas]
           /\ pc'[t] = "idle"
<1>1. 0 \in Arenas
    BY GeometryAssumption DEF Arenas
<1> QED
    BY <1>1 DEF LockTypeOK, Return, Goto, Stages

\* A stage that calls Goto leaves a known stage behind and the call's arenas alone.
LEMMA GotoTypes ==
    ASSUME LockTypeOK, NEW t \in Threads, NEW s \in Stages, Goto(t, s),
           own' = own, log' = log
    PROVE  /\ pc' \in [Threads -> Stages]
           /\ own' \in [Threads -> Arenas]
           /\ log' \in [Threads -> Arenas]
           /\ pc'[t] = s
BY DEF LockTypeOK, Goto

\* SharedArena::lock and unlock leave lock words.
LEMMA LockWordTypes ==
    ASSUME LockTypeOK
    PROVE  /\ \A a \in Arenas : Acquire(a) => lock' \in [Arenas -> BOOLEAN]
           /\ \A A : Release(A) => lock' \in [Arenas -> BOOLEAN]
BY DEF LockTypeOK, Acquire, Release

\* A stage that leaves the held blocks alone leaves them in the arenas.
LEMMA HeldStays ==
    ASSUME LockTypeOK, held' = held
    PROVE  /\ held' = [p \in Procs |-> held'[p]]
           /\ \A p \in Procs : \A b \in held'[p] : b.arena \in Arenas
BY DEF LockTypeOK

\* A step of a thread leaves what the other threads hold alone.
LEMMA OthersUntouched ==
    ASSUME LockTypeOK, NEW t \in Threads,
           \A u \in Threads \ {t} :
              pc'[u] = pc[u] /\ own'[u] = own[u] /\ log'[u] = log[u]
    PROVE  OthersKeep(t)
BY DEF OthersKeep, Holds, FirstLock, LogFirst

\* So does the stage of a call that goes on to its next one.
LEMMA GotoOthers ==
    ASSUME LockTypeOK, NEW t \in Threads, NEW s, Goto(t, s), own' = own, log' = log
    PROVE  OthersKeep(t)
BY OthersUntouched DEF LockTypeOK, Goto

\* So does the last stage of a call, after which the thread holds nothing.
LEMMA ReturnOthers ==
    ASSUME LockTypeOK, NEW t \in Threads, Return(t)
    PROVE  OthersKeep(t) /\ Holds(t)' = {}
<1>1. OthersKeep(t)
    BY OthersUntouched DEF LockTypeOK, Return, Goto
<1>2. Holds(t)' = {}
    BY DEF LockTypeOK, Return, Goto, Holds
<1> QED
    BY <1>1, <1>2

-----------------------------------------------------------------------------
(***************************************************************************)
(* The invariant, one action at a time.                                    *)
(***************************************************************************)

\* Entering retrieve or store, before their first lock, keeps the invariant.
LEMMA LockInvCall ==
    ASSUME LockInv, NEW t \in Threads, Call(t)
    PROVE  LockInv'
<1> USE DEF LockInv
<1>1. CASE R_Call(t)
    <2> USE <1>1 DEF R_Call, At, Goto, arenaVars
    <2>1. LockTypeOK'
        BY DEF LockTypeOK, Stages, RetrieveStages
    <2>2. TwoLocksDiffer'
        BY DEF LockTypeOK, TwoLocksDiffer
    <2>3. OthersKeep(t)
        BY OthersUntouched DEF LockTypeOK
    <2>4. Holds(t) = {} /\ Holds(t)' = {}
        BY DEF LockTypeOK, Holds
    <2> QED
        BY <2>1, <2>2, <2>3, <2>4, StayStep
<1>2. CASE S_Call(t)
    <2>1. PICK b \in held[ProcOf[t]], a \in Arenas :
              /\ held' = [held EXCEPT ![ProcOf[t]] = @ \ {b}]
              /\ own' = [own EXCEPT ![t] = b.arena]
              /\ log' = [log EXCEPT ![t] = a]
        BY <1>2 DEF S_Call
    <2>2. b.arena \in Arenas
        BY <2>1, SharedArenaAssumption DEF LockTypeOK
    <2> USE <1>2, <2>1, <2>2 DEF S_Call, At, Goto, arenaVars
    <2>3. LockTypeOK'
        BY DEF LockTypeOK, Stages, StoreStages
    <2>4. TwoLocksDiffer'
        BY DEF LockTypeOK, TwoLocksDiffer
    <2>5. OthersKeep(t)
        BY OthersUntouched DEF LockTypeOK
    <2>6. Holds(t) = {} /\ Holds(t)' = {}
        BY DEF LockTypeOK, Holds
    <2> QED
        BY <2>3, <2>4, <2>5, <2>6, StayStep
<1> QED
    BY <1>1, <1>2 DEF Call

\* Every stage of retrieve, its three failures included, keeps the invariant.
LEMMA LockInvRetrieve ==
    ASSUME LockInv, NEW t \in Threads, Retrieve(t)
    PROVE  LockInv'
<1> USE DEF LockInv
<1> own[t] \in Arenas
    BY DEF LockTypeOK
<1>1. CASE R_Lock(t)
    <2> USE <1>1 DEF R_Lock, At
    <2>1. LockTypeOK'
        BY LockWordTypes, HeldStays, GotoTypes DEF LockTypeOK, Stages, RetrieveStages
    <2>2. TwoLocksDiffer'
        BY DEF LockTypeOK, TwoLocksDiffer, Goto
    <2>3. Holds(t)' = Holds(t) \cup {own[t]}
        BY DEF LockTypeOK, Holds, Goto
    <2>4. OthersKeep(t)
        BY GotoOthers
    <2> QED
        BY <2>1, <2>2, <2>3, <2>4, AcquireStep
<1>2. ASSUME R_Scan(t) \/ R_TakeFree(t) \/ R_TakeBump(t)
      PROVE  LockInv'
    <2>1. PICK s \in {"r_take", "r_place"} : Goto(t, s)
        BY <1>2 DEF R_Scan, R_TakeFree, R_TakeBump
    <2>2. /\ pc[t] \in {"r_scan", "r_take"}
          /\ lock' = lock /\ own' = own /\ log' = log /\ held' = held
        BY <1>2 DEF R_Scan, R_TakeFree, R_TakeBump, At
    <2>3. LockTypeOK'
        BY <2>1, <2>2, HeldStays, GotoTypes DEF LockTypeOK, Stages, RetrieveStages
    <2>4. TwoLocksDiffer'
        BY <2>1, <2>2 DEF LockTypeOK, TwoLocksDiffer, Goto
    <2>5. Holds(t)' = Holds(t)
        BY <2>1, <2>2 DEF LockTypeOK, Holds, Goto
    <2>6. OthersKeep(t)
        BY <2>1, <2>2, GotoOthers
    <2> QED
        BY <2>2, <2>3, <2>4, <2>5, <2>6, StayStep
<1>3. ASSUME R_Exhausted(t) \/ R_Misplaced(t) \/ R_Log(t) \/ R_Undo(t)
      PROVE  LockInv'
    <2>1. /\ pc[t] \in {"r_take", "r_place"}
          /\ Release({own[t]}) /\ Return(t)
        BY <1>3 DEF R_Exhausted, R_Misplaced, R_Log, R_Undo, At
    <2>2. held' = held \/ held' = [held EXCEPT ![ProcOf[t]] = @ \cup {FrameBlock(t)}]
        BY <1>3 DEF R_Exhausted, R_Misplaced, R_Log, R_Undo
    <2>3. /\ held' = [p \in Procs |-> held'[p]]
          /\ \A p \in Procs : \A b \in held'[p] : b.arena \in Arenas
        BY <2>2 DEF LockTypeOK, FrameBlock
    <2>4. LockTypeOK'
        BY <2>1, <2>3, LockWordTypes, ReturnTypes DEF LockTypeOK
    <2>5. TwoLocksDiffer'
        BY <2>1 DEF LockTypeOK, TwoLocksDiffer, Return, Goto
    <2>6. OthersKeep(t) /\ Holds(t)' = {}
        BY <2>1, ReturnOthers
    <2>7. Holds(t) = {own[t]}
        BY <2>1 DEF Holds
    <2> QED
        BY <2>1, <2>4, <2>5, <2>6, <2>7, ReleaseStep
<1> QED
    BY <1>1, <1>2, <1>3 DEF Retrieve

\* Every stage of store keeps the invariant: the ordered locking of two arenas, the early
\* unlock of the log arena, and the unlocks of the refusal and of the disabled free list.
LEMMA LockInvStore ==
    ASSUME LockInv, NEW t \in Threads, Store(t)
    PROVE  LockInv'
<1> USE DEF LockInv
<1> own[t] \in Arenas /\ log[t] \in Arenas
    BY DEF LockTypeOK
<1> FirstLock(t) \in Arenas /\ SecondLock(t) \in Arenas
    BY DEF FirstLock, SecondLock
<1>1. CASE S_Lock1(t)
    <2> DEFINE s == IF log[t] = own[t] THEN "s_log" ELSE "s_lock2"
    <2> USE <1>1 DEF S_Lock1, At
    <2>1. LockTypeOK'
        BY LockWordTypes, HeldStays, GotoTypes DEF LockTypeOK, Stages, StoreStages
    <2>2. TwoLocksDiffer'
        BY DEF LockTypeOK, TwoLocksDiffer, Goto
    <2>3. Holds(t) = {}
        BY DEF Holds
    <2>4. Holds(t)' = {FirstLock(t)}
        BY DEF LockTypeOK, Holds, Goto, FirstLock, LogFirst
    <2>5. OthersKeep(t)
        BY GotoOthers
    <2> QED
        BY <2>1, <2>2, <2>3, <2>4, <2>5, AcquireStep
<1>2. CASE S_Lock2(t)
    <2> USE <1>2 DEF S_Lock2, At
    <2>1. LockTypeOK'
        BY LockWordTypes, HeldStays, GotoTypes DEF LockTypeOK, Stages, StoreStages
    <2>2. TwoLocksDiffer'
        BY DEF LockTypeOK, TwoLocksDiffer, Goto
    <2>3. Holds(t)' = Holds(t) \cup {SecondLock(t)}
        BY DEF LockTypeOK, Holds, Goto, FirstLock, SecondLock
    <2>4. OthersKeep(t)
        BY GotoOthers
    <2> QED
        BY <2>1, <2>2, <2>3, <2>4, AcquireStep
<1>3. CASE S_Log(t)
    <2> USE <1>3 DEF S_Log, At
    <2>1. LockTypeOK'
        BY LockWordTypes, HeldStays, GotoTypes DEF LockTypeOK, Stages, StoreStages
    <2>2. TwoLocksDiffer'
        BY DEF LockTypeOK, TwoLocksDiffer, Goto
    <2>3. Holds(t) = {own[t], log[t]} /\ Holds(t)' = {own[t]}
        BY DEF LockTypeOK, Holds, Goto
    <2>4. EarlyUnlock(t) \subseteq Holds(t) /\ Holds(t)' = Holds(t) \ EarlyUnlock(t)
        BY <2>3 DEF EarlyUnlock
    <2>5. OthersKeep(t)
        BY GotoOthers
    <2> QED
        BY <2>1, <2>2, <2>4, <2>5, ReleaseStep
<1>4. ASSUME S_Find(t) \/ S_Link(t)
      PROVE  LockInv'
    <2>1. PICK s \in {"s_link", "s_merge"} : Goto(t, s)
        BY <1>4 DEF S_Find, S_Link
    <2>2. /\ pc[t] \in {"s_find", "s_link"}
          /\ lock' = lock /\ own' = own /\ log' = log /\ held' = held
        BY <1>4 DEF S_Find, S_Link, At
    <2>3. LockTypeOK'
        BY <2>1, <2>2, HeldStays, GotoTypes DEF LockTypeOK, Stages, StoreStages
    <2>4. TwoLocksDiffer'
        BY <2>1, <2>2 DEF LockTypeOK, TwoLocksDiffer, Goto
    <2>5. Holds(t)' = Holds(t)
        BY <2>1, <2>2 DEF LockTypeOK, Holds, Goto
    <2>6. OthersKeep(t)
        BY <2>1, <2>2, GotoOthers
    <2> QED
        BY <2>2, <2>3, <2>4, <2>5, <2>6, StayStep
<1>5. ASSUME S_Quarantine(t) \/ S_Refused(t) \/ S_Merge(t)
      PROVE  LockInv'
    <2>1. Return(t) /\ held' = held
        BY <1>5 DEF S_Quarantine, S_Refused, S_Merge
    <2>2. PICK A : Release(A) /\ A = Holds(t)
        <3>1. CASE S_Quarantine(t)
            BY <3>1 DEF S_Quarantine, At, Holds
        <3>2. CASE S_Refused(t)
            BY <3>2 DEF S_Refused, RefusalUnlock, At, Holds
        <3>3. CASE S_Merge(t)
            BY <3>3 DEF S_Merge, At, Holds
        <3> QED
            BY <1>5, <3>1, <3>2, <3>3
    <2>3. LockTypeOK'
        BY <2>1, <2>2, HeldStays, LockWordTypes, ReturnTypes DEF LockTypeOK
    <2>4. TwoLocksDiffer'
        BY <2>1 DEF LockTypeOK, TwoLocksDiffer, Return, Goto
    <2>5. OthersKeep(t) /\ Holds(t)' = {}
        BY <2>1, ReturnOthers
    <2> QED
        BY <2>2, <2>3, <2>4, <2>5, ReleaseStep
<1> QED
    BY <1>1, <1>2, <1>3, <1>4, <1>5 DEF Store

\* The kernel, a crash and a stuttering step leave the locks and the calls alone.
LEMMA LockInvStutter ==
    ASSUME LockInv, UNCHANGED <<lock, held, pc, own, log>>
    PROVE  LockInv'
BY DEF LockInv, LockTypeOK, TwoLocksDiffer, MutualExclusion, Holds, FirstLock, LogFirst

\* The invariant holds when the arenas have just been initialised.
LEMMA LockInvInit == Init => LockInv
<1>1. 0 \in Arenas
    BY GeometryAssumption DEF Arenas
<1> QED
    BY <1>1 DEF Init, LockInv, LockTypeOK, TwoLocksDiffer, MutualExclusion, Holds, Stages

\* Every step keeps the invariant.
LEMMA LockInvNext == LockInv /\ [Next]_vars => LockInv'
<1> SUFFICES ASSUME LockInv, [Next]_vars
             PROVE  LockInv'
    OBVIOUS
<1>1. ASSUME NEW t \in Threads, Call(t) \/ Retrieve(t) \/ Store(t)
      PROVE  LockInv'
    BY <1>1, LockInvCall, LockInvRetrieve, LockInvStore
<1>2. ASSUME NEW p \in Procs, Crash(p)
      PROVE  LockInv'
    BY <1>2, LockInvStutter DEF Crash, arenaVars
<1>3. ASSUME NEW p \in Procs, NEW a \in Arenas, Consume(p, a)
      PROVE  LockInv'
    BY <1>3, LockInvStutter DEF Consume
<1>4. CASE UNCHANGED vars
    BY <1>4, LockInvStutter DEF vars
<1> QED
    BY <1>1, <1>2, <1>3, <1>4 DEF Next

\* Every reachable state satisfies the lock invariant.
THEOREM LockInvariant == Spec => []LockInv
BY LockInvInit, LockInvNext, PTL DEF Spec

\* SharedArena::lock and unlock exclude: whoever walks or changes an arena's list, bump
\* offset or a ring logged to under its lock does so alone, across all processes.
THEOREM ArenaMutualExclusion == Spec => []MutualExclusion
<1>1. LockInv => MutualExclusion
    BY DEF LockInv
<1> QED
    BY LockInvariant, <1>1, PTL

-----------------------------------------------------------------------------

\* A thread that waits with a lock in hand waits for an arena of higher CoreId, so no
\* chain of waiting threads, of any length, can close.
LockOrder ==
    \A t \in Threads : \A a \in Holds(t), b \in Awaits(t) : a < b

\* Only store waits with a lock in hand, and its second lock has the larger CoreId.
LEMMA WaitsGoUp == LockInv => LockOrder
<1> SUFFICES ASSUME LockInv, NEW t \in Threads,
                    NEW a \in Holds(t), NEW b \in Awaits(t)
             PROVE  a < b
    BY DEF LockOrder
<1>1. pc[t] = "s_lock2" /\ a = FirstLock(t) /\ b = SecondLock(t)
    BY DEF Holds, Awaits
<1>2. own[t] \in Int /\ log[t] \in Int /\ own[t] # log[t]
    BY <1>1, GeometryAssumption DEF LockInv, LockTypeOK, TwoLocksDiffer, Arenas
<1> QED
    BY <1>1, <1>2 DEF FirstLock, SecondLock, LogFirst

\* The two-arena locking of store follows one order everywhere.
THEOREM LocksAreOrdered == Spec => []LockOrder
BY LockInvariant, WaitsGoUp, PTL

\* Two threads that waited for each other would each hold the smaller CoreId.
LEMMA OrderPreventsPairs == LockInv => NoDeadlockedPair
<1> SUFFICES ASSUME LockInv, NEW t \in Threads, NEW u \in Threads,
                    NEW a \in Awaits(t), a \in Holds(u),
                    NEW b \in Awaits(u), b \in Holds(t)
             PROVE  FALSE
    BY DEF NoDeadlockedPair
<1>1. b < a /\ a < b
    BY WaitsGoUp DEF LockOrder
<1>2. a \in Int /\ b \in Int
    BY GeometryAssumption
       DEF LockInv, LockTypeOK, Holds, FirstLock, Arenas
<1> QED
    BY <1>1, <1>2

\* No two stores, or a store and a retrieve, ever wait for each other's arena.
THEOREM NoTwoThreadsDeadlock == Spec => []NoDeadlockedPair
BY LockInvariant, OrderPreventsPairs, PTL

-----------------------------------------------------------------------------
(***************************************************************************)
(* The free list: the recursive function that a walk is.                   *)
(***************************************************************************)

\* A set of numbers has a least one.
LEMMA LeastNumber ==
    ASSUME NEW S \in SUBSET Nat, S # {}
    PROVE  \E m \in S : \A k \in S : m <= k
<1>1. PICK m \in S : \A k \in S : ~ (<<k, m>> \in OpToRel(<, Nat))
    BY NatLessThanWellFounded, WFMin
<1>2. \A k \in S : ~(k < m)
    BY <1>1 DEF OpToRel
<1> QED
    BY <1>2

\* What a link, a header and the list of an arena may be.
Ends == Pages \cup {End}
Header == [magic : BOOLEAN, prev : Ends, next : Ends, size : Nat]
Lists == [head : Ends, count : Nat, blk : [Pages -> Header]]

\* f lists the first M places of a walk from first along succ.
Steps(f, S, first, succ, M) ==
    /\ f \in [1 .. M -> S]
    /\ \A k \in 1 .. M : f[k] = IF k = 1 THEN first ELSE succ[f[k - 1]]

\* The recursion of a walk has a solution: a shorter walk goes one node further.
LEMMA StepsExist ==
    ASSUME NEW S, NEW first \in S, NEW succ \in [S -> S], NEW M \in Nat \ {0}
    PROVE  \E f : Steps(f, S, first, succ, M)
<1> DEFINE Solves(f, m) == /\ f \in [1 .. m -> S]
                           /\ \A k \in 1 .. m : f[k] = IF k = 1 THEN first ELSE succ[f[k - 1]]
           open == {m \in 1 .. M : ~ \E f : Solves(f, m)}
<1>1. ASSUME NEW m \in open, \A k \in open : m <= k
      PROVE  FALSE
  <2>1. CASE m = 1
    <3> DEFINE f == [k \in 1 .. 1 |-> first]
    <3>1. Solves(f, 1)
        OBVIOUS
    <3> QED
        BY <2>1, <3>1
  <2>2. CASE m # 1
    <3>1. m \in 1 .. M /\ m - 1 \in 1 .. M
        BY <2>2
    <3>a. m - 1 \notin open
      <4> HIDE DEF open
      <4> QED
        BY <1>1, <3>1
    <3>2. PICK f : Solves(f, m - 1)
        BY <3>1, <3>a
    <3> DEFINE g == [k \in 1 .. m |-> IF k = m THEN succ[f[m - 1]] ELSE f[k]]
    <3>3. g \in [1 .. m -> S]
      <4>1. f[m - 1] \in S
          BY <2>2, <3>1, <3>2
      <4>2. \A k \in 1 .. m : k = m \/ k \in 1 .. (m - 1)
          BY <3>1
      <4> QED
          BY <3>2, <4>1, <4>2
    <3>4. ASSUME NEW k \in 1 .. m
          PROVE  g[k] = IF k = 1 THEN first ELSE succ[g[k - 1]]
      <4>1. CASE k = m
          BY <2>2, <3>1, <4>1
      <4>2. CASE k # m
        <5>1. k \in 1 .. (m - 1) /\ g[k] = f[k] /\ (k # 1 => k - 1 \in 1 .. m /\ g[k - 1] = f[k - 1])
            BY <3>1, <4>2
        <5> QED
            BY <3>2, <5>1
      <4> QED
          BY <4>1, <4>2
    <3>5. Solves(g, m)
        BY <3>3, <3>4
    <3> QED
        BY <1>1, <3>5
  <2> QED
      BY <2>1, <2>2
<1>2. open = {}
  <2>1. open \in SUBSET Nat
      OBVIOUS
  <2> HIDE DEF open
  <2> QED
      BY <1>1, <2>1, LeastNumber
<1>3. M \in 1 .. M /\ M \notin open
    BY <1>2
<1> QED
    BY <1>3 DEF Steps

\* So the nodes of a walk are what its definition says.
LEMMA TrailSteps ==
    ASSUME NEW L \in Lists
    PROVE  /\ Trail(L) \in [1 .. (TotalPages + 1) -> Ends]
           /\ \A k \in 1 .. (TotalPages + 1) :
                 Trail(L)[k] = IF k = 1 THEN L.head
                               ELSE IF Trail(L)[k - 1] = End THEN End
                               ELSE L.blk[Trail(L)[k - 1]].next
<1> DEFINE succ == [x \in Ends |-> IF x = End THEN End ELSE L.blk[x].next]
           M == TotalPages + 1
           Body(f) == [k \in 1 .. M |-> IF k = 1 THEN L.head
                                        ELSE IF f[k - 1] = End THEN End
                                        ELSE L.blk[f[k - 1]].next]
<1>1. succ \in [Ends -> Ends] /\ L.head \in Ends /\ M \in Nat \ {0}
    BY GeometryAssumption DEF Lists, Header, Ends
<1>2. PICK f : Steps(f, Ends, L.head, succ, M)
  <2> HIDE DEF succ, M, Body
  <2>1. succ \in [Ends -> Ends]
      BY <1>1
  <2>2. L.head \in Ends
      BY <1>1
  <2>3. M \in Nat \ {0}
      BY <1>1
  <2> QED
      BY <2>1, <2>2, <2>3, StepsExist
<1>3. ASSUME NEW k \in 1 .. M
      PROVE  f[k] = Body(f)[k]
  <2>1. k = 1 \/ k - 1 \in 1 .. M
      BY <1>1
  <2> QED
      BY <1>2, <2>1 DEF Steps
<1>4. f = Body(f)
    BY <1>2, <1>3 DEF Steps
<1>5. Trail(L) = CHOOSE g : g = Body(g)
    BY DEF Trail
<1>6. Trail(L) = Body(Trail(L))
  <2> HIDE DEF Body
  <2> QED
    BY <1>4, <1>5
<1>7. \A k \in 1 .. M : Trail(L)[k] = Body(Trail(L))[k]
    BY <1>6
<1> DEFINE wild == {k \in 1 .. M : Trail(L)[k] \notin Ends}
<1>8. ASSUME NEW m \in wild, \A k \in wild : m <= k
      PROVE  FALSE
  <2>1. m # 1
      BY <1>1, <1>7
  <2>2. m \in 1 .. M /\ m - 1 \in 1 .. M
      BY <1>1, <2>1
  <2>3. m - 1 \notin wild
    <3> HIDE DEF wild
    <3> QED
        BY <1>8, <2>2
  <2>4. Trail(L)[m - 1] \in Ends
      BY <2>2, <2>3
  <2>5. Trail(L)[m] \in Ends
      BY <1>7, <2>1, <2>2, <2>4 DEF Lists, Header, Ends
  <2> QED
      BY <2>5
<1>9. wild = {}
  <2>1. wild \in SUBSET Nat
      BY <1>1
  <2> HIDE DEF wild
  <2> QED
      BY <1>8, <2>1, LeastNumber
<1>10. Trail(L) \in [1 .. M -> Ends]
    BY <1>6, <1>9
<1> QED
    BY <1>7, <1>10

-----------------------------------------------------------------------------
(***************************************************************************)
(* The free list: where a walk along the links goes when they connect the  *)
(* nodes of N in address order.                                            *)
(***************************************************************************)

\* Of N, node y is the next one after page x; there is none, when y is End.
Follows(N, x, y) ==
    \/ y = End /\ \A o \in N : o <= x
    \/ y \in N /\ x < y /\ \A o \in N : o <= x \/ y <= o

\* Of N, node y is the last one before page x; there is none, when y is End.
Precedes(N, x, y) ==
    \/ y = End /\ \A o \in N : x <= o
    \/ y \in N /\ y < x /\ \A o \in N : o <= y \/ x <= o

\* The links and the size of node o.
Node(L, N, m, o) ==
    /\ L.blk[o].magic
    /\ L.blk[o].size > 0
    /\ o + L.blk[o].size <= m
    /\ Follows(N, o, L.blk[o].next)
    /\ Precedes(N, o, L.blk[o].prev)

\* No node overlaps a later one, nor touches it, unless the one is in low or the other in
\* high: those that are about to be merged.
Apart(L, N, low, high) ==
    \A o, q \in N : o < q =>
        /\ o + L.blk[o].size <= q
        /\ o \notin low /\ q \notin high => o + L.blk[o].size < q

Chain(L, N, m, low, high) ==
    /\ L \in Lists
    /\ N \in SUBSET Pages
    /\ m \in 0 .. TotalPages
    /\ L.count = Cardinality(N)
    /\ Follows(N, -1, L.head)
    /\ \A o \in N : Node(L, N, m, o)
    /\ Apart(L, N, low, high)

\* Nodes are pages, and End is none.
LEMMA ChainNodes ==
    ASSUME NEW L, NEW N, NEW m, NEW low, NEW high, Chain(L, N, m, low, high)
    PROVE  N \in SUBSET Nat /\ End \notin N /\ \A o \in N : o \in Nat /\ o < TotalPages
<1>1. N \subseteq Pages
    BY DEF Chain
<1>2. \A o \in Pages : o \in Nat /\ o < TotalPages
    BY GeometryAssumption DEF Pages
<1> QED
    BY <1>1, <1>2, EndAssumption

\* The first k nodes of a walk are all the nodes up to where it is then.
Visits(N, trail, k) ==
    \/ trail[k] = End /\ \A o \in N : \E j \in 1 .. (k - 1) : trail[j] = o
    \/ /\ trail[k] \in N /\ trail[k] >= k - 1
       /\ \A j \in 1 .. (k - 1) : trail[j] \in N /\ trail[j] < trail[k]
       /\ \A o \in N : o <= trail[k] => \E j \in 1 .. k : trail[j] = o

\* A walk starts at the first node.
LEMMA VisitsFirst ==
    ASSUME NEW N, \A o \in N : o \in Nat, End \notin N,
           NEW trail, Follows(N, -1, trail[1])
    PROVE  Visits(N, trail, 1)
<1>1. \A o \in N : ~(o <= -1)
    OBVIOUS
<1>2. 1 .. (1 - 1) = {} /\ 1 .. 1 = {1}
    OBVIOUS
<1>3. ASSUME trail[1] = End PROVE Visits(N, trail, 1)
  <2>1. N = {}
      BY <1>1, <1>3 DEF Follows
  <2> QED
      BY <1>3, <2>1 DEF Visits
<1>4. ASSUME trail[1] # End PROVE Visits(N, trail, 1)
  <2>1. trail[1] \in N /\ \A o \in N : trail[1] <= o
      BY <1>1, <1>4 DEF Follows
  <2>2. trail[1] >= 1 - 1
      BY <2>1
  <2>3. \A o \in N : o <= trail[1] => o = trail[1]
      BY <2>1
  <2> QED
      BY <1>2, <2>1, <2>2, <2>3 DEF Visits
<1> QED
    BY <1>3, <1>4

\* It goes on from node to node.
LEMMA VisitsNext ==
    ASSUME NEW N, \A o \in N : o \in Nat, End \notin N,
           NEW trail, NEW k \in Nat, k > 1,
           Visits(N, trail, k - 1),
           trail[k - 1] = End => trail[k] = End,
           trail[k - 1] # End => Follows(N, trail[k - 1], trail[k])
    PROVE  Visits(N, trail, k)
<1>1. /\ k - 1 - 1 \in Nat
      /\ \A j \in 1 .. (k - 1) : j = k - 1 \/ j \in 1 .. (k - 1 - 1)
      /\ \A j \in 1 .. (k - 1 - 1) : j \in 1 .. (k - 1)
      /\ \A j \in 1 .. (k - 1) : j \in 1 .. k
      /\ k \in 1 .. k
    OBVIOUS
<1>2. ASSUME trail[k - 1] = End PROVE Visits(N, trail, k)
  <2>1. \A o \in N : \E j \in 1 .. (k - 1 - 1) : trail[j] = o
      BY <1>2 DEF Visits
  <2> QED
      BY <1>1, <1>2, <2>1 DEF Visits
<1>3. ASSUME trail[k - 1] # End PROVE Visits(N, trail, k)
  <2> DEFINE x == trail[k - 1]
             y == trail[k]
  <2>1. /\ x \in N /\ x >= k - 1 - 1
        /\ \A j \in 1 .. (k - 1 - 1) : trail[j] \in N /\ trail[j] < x
        /\ \A o \in N : o <= x => \E j \in 1 .. (k - 1) : trail[j] = o
      BY <1>3 DEF Visits
  <2>2. Follows(N, x, y)
      BY <1>3
  <2>3. ASSUME y = End PROVE Visits(N, trail, k)
    <3>1. \A o \in N : \E j \in 1 .. (k - 1) : trail[j] = o
        BY <2>1, <2>2, <2>3 DEF Follows
    <3> QED
        BY <2>3, <3>1 DEF Visits
  <2>4. ASSUME y # End PROVE Visits(N, trail, k)
    <3>1. y \in N /\ x < y /\ \A o \in N : o <= x \/ y <= o
        BY <2>2, <2>4 DEF Follows
    <3>2. y >= k - 1
        BY <1>1, <2>1, <3>1
    <3>3. ASSUME NEW j \in 1 .. (k - 1)
          PROVE  trail[j] \in N /\ trail[j] < y
        BY <1>1, <2>1, <3>1
    <3>4. ASSUME NEW o \in N, o <= y
          PROVE  \E j \in 1 .. k : trail[j] = o
      <4>1. o <= x \/ o = y
          BY <3>1, <3>4
      <4> QED
          BY <1>1, <2>1, <4>1
    <3> QED
        BY <3>1, <3>2, <3>3, <3>4 DEF Visits
  <2> QED
      BY <2>3, <2>4
<1> QED
    BY <1>2, <1>3

\* So it visits all nodes of a chain, and comes to an end.
LEMMA TrailVisits ==
    ASSUME NEW L, NEW N, NEW m, NEW low, NEW high, Chain(L, N, m, low, high)
    PROVE  /\ \A k \in 1 .. (TotalPages + 1) :
                 Trail(L)[k] \in N \cup {End} /\ Visits(N, Trail(L), k)
           /\ Trail(L)[TotalPages + 1] = End
<1> DEFINE M == TotalPages + 1
           tr == Trail(L)
           bad == {k \in 1 .. M : ~Visits(N, tr, k)}
<1>1. M \in Nat \ {0} /\ TotalPages \in Nat
    BY GeometryAssumption
<1>2. N \in SUBSET Nat /\ End \notin N /\ \A o \in N : o \in Nat /\ o < TotalPages
    BY ChainNodes
<1>3. /\ tr[1] = L.head
      /\ \A k \in 1 .. M : k # 1 /\ tr[k - 1] = End => tr[k] = End
      /\ \A k \in 1 .. M : k # 1 /\ tr[k - 1] # End => tr[k] = L.blk[tr[k - 1]].next
    BY <1>1, TrailSteps DEF Chain
<1>4. \A o \in N : Follows(N, o, L.blk[o].next)
    BY DEF Chain, Node
<1> HIDE DEF M, tr
<1>5. ASSUME NEW k \in 1 .. M, \A j \in 1 .. M : ~Visits(N, tr, j) => k <= j
      PROVE  Visits(N, tr, k)
  <2>1. ASSUME k = 1 PROVE Visits(N, tr, 1)
    <3>1. Follows(N, -1, tr[1])
        BY <1>3 DEF Chain
    <3> QED
        BY <1>2, <3>1, VisitsFirst
  <2>2. ASSUME k # 1 PROVE Visits(N, tr, k)
    <3>1. k - 1 \in 1 .. M /\ k \in Nat /\ k > 1
        BY <1>1, <2>2
    <3>2. Visits(N, tr, k - 1)
        BY <1>5, <3>1
    <3>3. tr[k - 1] # End => Follows(N, tr[k - 1], tr[k])
      <4>1. tr[k - 1] # End => tr[k - 1] \in N
          BY <3>2 DEF Visits
      <4> QED
          BY <1>3, <1>4, <2>2, <4>1
    <3>4. tr[k - 1] = End => tr[k] = End
        BY <1>3, <2>2
    <3> QED
        BY <1>2, <3>1, <3>2, <3>3, <3>4, VisitsNext
  <2> QED
      BY <2>1, <2>2
<1>6. bad = {}
  <2>1. bad \in SUBSET Nat
      BY <1>1
  <2>2. \A k \in bad : k \in 1 .. M /\ ~Visits(N, tr, k)
      OBVIOUS
  <2>3. \A k \in 1 .. M : ~Visits(N, tr, k) => k \in bad
      OBVIOUS
  <2> HIDE DEF bad
  <2> QED
      BY <1>5, <2>1, <2>2, <2>3, LeastNumber
<1>7. \A k \in 1 .. M : Visits(N, tr, k) /\ tr[k] \in N \cup {End}
    BY <1>6 DEF Visits
<1>8. tr[M] = End
  <2> SUFFICES ASSUME tr[M] # End PROVE FALSE
      OBVIOUS
  <2>1. tr[M] \in N /\ tr[M] >= M - 1
      BY <1>1, <1>7 DEF Visits
  <2>2. tr[M] \in Nat /\ tr[M] < TotalPages
      BY <1>2, <2>1
  <2>3. M - 1 = TotalPages
      BY <1>1 DEF M
  <2> HIDE DEF bad
  <2> QED
      BY <1>1, <2>1, <2>2, <2>3
<1> QED
    BY <1>7, <1>8 DEF M, tr

\* What a walk of store or retrieve finds: nothing corrupt, and where the first node among
\* stops is, with the one before and those up to it.
LEMMA WalkOfChain ==
    ASSUME NEW L, NEW N, NEW m, NEW low, NEW high, Chain(L, N, m, low, high), NEW stops
    PROVE  LET w == Walk(L, stops)
           IN  /\ w.corrupt = FALSE
               /\ w.at \in (N \cap stops) \cup {End}
               /\ \A o \in N \cap stops : w.at # End /\ w.at <= o
               /\ \A o : o \in w.seen <=> o \in N /\ (w.at = End \/ o <= w.at)
               /\ \/ w.prev = End /\ Follows(N, -1, w.at)
                  \/ w.prev \in N \ stops /\ Follows(N, w.prev, w.at)
<1> DEFINE M == TotalPages + 1
           tr == Trail(L)
           Bad(k) == tr[k] # End /\ ~LooksValid(L, tr[k])
           Halts(k) == tr[k] = End \/ Bad(k) \/ tr[k] \in stops
           Last(k) == Halts(k) /\ \A j \in 1 .. (k - 1) : ~Halts(j)
           last == CHOOSE k \in 1 .. M : Last(k)
           w == Walk(L, stops)
<1>1. w = [at      |-> tr[last],
           prev    |-> IF last = 1 THEN End ELSE tr[last - 1],
           corrupt |-> Bad(last),
           seen    |-> {tr[j] : j \in 1 .. last} \ (IF Bad(last) THEN {tr[last]} ELSE {End})]
    BY DEF Walk
<1>2. N \in SUBSET Nat /\ End \notin N /\ \A o \in N : o \in Nat /\ o < TotalPages
    BY ChainNodes
<1>3. M \in Nat \ {0} /\ TotalPages \in Nat
    BY GeometryAssumption
<1>4. \A k \in 1 .. M : tr[k] \in N \cup {End} /\ Visits(N, tr, k)
    BY TrailVisits
<1>5. tr[M] = End
    BY TrailVisits
<1>6. /\ tr[1] = L.head
      /\ \A k \in 1 .. M : k # 1 /\ tr[k - 1] # End => tr[k] = L.blk[tr[k - 1]].next
    BY <1>3, TrailSteps DEF Chain
<1>7. ASSUME NEW o \in N PROVE LooksValid(L, o)
  <2>1. /\ L.blk[o].magic /\ L.blk[o].size > 0 /\ o + L.blk[o].size <= m
        /\ L.blk[o].size \in Nat /\ m \in Nat /\ m <= TotalPages
      BY <1>3 DEF Chain, Node, Lists, Header
  <2> QED
      BY <1>2, <1>3, <2>1 DEF LooksValid
<1>8. \A k \in 1 .. M : ~Bad(k)
    BY <1>4, <1>7
<1> HIDE DEF M, tr, Bad
<1>9. last \in 1 .. M /\ Last(last)
  <2> DEFINE halts == {k \in 1 .. M : Halts(k)}
  <2>1. M \in halts /\ halts \in SUBSET Nat
      BY <1>3, <1>5
  <2>2. PICK k \in halts : \A j \in halts : k <= j
    <3> HIDE DEF halts
    <3> QED
        BY <2>1, LeastNumber
  <2>3. k \in 1 .. M /\ Halts(k)
      OBVIOUS
  <2>4. ASSUME NEW j \in 1 .. (k - 1) PROVE ~Halts(j)
    <3>1. j \in 1 .. M /\ j < k
        BY <1>3, <2>3
    <3> QED
        BY <2>2, <3>1
  <2> HIDE DEF halts, Halts
  <2> QED
      BY <2>3, <2>4
<1> HIDE DEF last
<1>10. w.corrupt = FALSE /\ w.at = tr[last] /\ tr[last] \in N \cup {End}
    BY <1>1, <1>4, <1>8, <1>9
<1>11. tr[last] = End \/ tr[last] \in stops
    BY <1>8, <1>9
<1>12. \A j \in 1 .. (last - 1) : tr[j] # End /\ tr[j] \notin stops /\ j \in 1 .. M
    BY <1>3, <1>9
<1>13. Visits(N, tr, last)
    BY <1>4, <1>9
<1> HIDE DEF Halts, Last, w
<1>14. ASSUME NEW o \in N
       PROVE  (tr[last] = End \/ o <= tr[last]) <=> \E j \in 1 .. last : tr[j] = o
  <2>0. \A j \in 1 .. (last - 1) : j \in 1 .. last
      BY <1>9
  <2>1. CASE tr[last] = End
      BY <1>13, <2>0, <2>1, <1>2 DEF Visits
  <2>2. CASE tr[last] # End
    <3>1. /\ \A j \in 1 .. (last - 1) : tr[j] \in N /\ tr[j] < tr[last]
          /\ \A x \in N : x <= tr[last] => \E j \in 1 .. last : tr[j] = x
          /\ tr[last] \in N
        BY <1>13, <2>2 DEF Visits
    <3>2. \A j \in 1 .. last : j = last \/ j \in 1 .. (last - 1)
        BY <1>3, <1>9
    <3>3. tr[last] \in Nat
        BY <1>2, <3>1
    <3>4. ASSUME NEW j \in 1 .. last PROVE tr[j] <= tr[last]
      <4>1. j = last \/ (tr[j] \in Nat /\ tr[j] < tr[last])
          BY <1>2, <3>1, <3>2
      <4> QED
          BY <3>3, <4>1
    <3> QED
        BY <2>2, <3>1, <3>4
  <2> QED
      BY <2>1, <2>2
<1>15. \A o : o \in w.seen <=> o \in N /\ (w.at = End \/ o <= w.at)
  <2>1. w.seen = {tr[j] : j \in 1 .. last} \ {End}
      BY <1>1, <1>8, <1>9
  <2>2. \A j \in 1 .. last : tr[j] \in N \cup {End}
      BY <1>3, <1>4, <1>9
  <2>3. ASSUME NEW x
        PROVE  x \in w.seen <=> x \in N /\ (tr[last] = End \/ x <= tr[last])
    <3>1. x \in w.seen => x \in N /\ \E j \in 1 .. last : tr[j] = x
        BY <2>1, <2>2
    <3>2. x \in N /\ (\E j \in 1 .. last : tr[j] = x) => x \in w.seen
        BY <1>2, <2>1
    <3> QED
        BY <1>14, <3>1, <3>2
  <2> QED
      BY <1>10, <2>3
<1>16. ASSUME NEW o \in N \cap stops
       PROVE  w.at # End /\ w.at <= o
  <2>1. ASSUME tr[last] = End \/ ~(tr[last] <= o) PROVE FALSE
    <3>1. PICK j \in 1 .. (last - 1) : tr[j] = o
      <4>1. CASE tr[last] = End
          BY <1>2, <1>13, <4>1 DEF Visits
      <4>2. CASE tr[last] # End
        <5>1. o <= tr[last] /\ o # tr[last]
          <6>1. o \in Nat /\ tr[last] \in Nat
              BY <1>2, <1>10, <4>2
          <6> QED
              BY <2>1, <4>2, <6>1
        <5>2. PICK j \in 1 .. last : tr[j] = o
            BY <1>13, <4>2, <5>1 DEF Visits
        <5>3. j \in 1 .. (last - 1)
            BY <1>9, <5>1, <5>2
        <5> QED
            BY <5>2, <5>3
      <4> QED
          BY <4>1, <4>2
    <3> QED
        BY <1>12, <3>1
  <2> QED
      BY <1>10, <2>1
<1>17. \/ w.prev = End /\ Follows(N, -1, w.at)
       \/ w.prev \in N \ stops /\ Follows(N, w.prev, w.at)
  <2>1. CASE last = 1
    <3>1. w.prev = End /\ w.at = L.head
        BY <1>1, <1>6, <1>10, <2>1
    <3> QED
        BY <3>1 DEF Chain
  <2>2. CASE last # 1
    <3>1. last - 1 \in 1 .. (last - 1) /\ last - 1 \in 1 .. M
        BY <1>3, <1>9, <2>2
    <3>2. w.prev = tr[last - 1] /\ tr[last - 1] \in N \ stops
        BY <1>1, <1>4, <1>12, <2>2, <3>1
    <3>3. tr[last] = L.blk[tr[last - 1]].next
        BY <1>2, <1>6, <1>9, <2>2, <3>2
    <3> QED
        BY <1>10, <3>2, <3>3 DEF Chain, Node
  <2> QED
      BY <2>1, <2>2
<1> QED
    BY <1>10, <1>11, <1>15, <1>16, <1>17 DEF w

-----------------------------------------------------------------------------
(***************************************************************************)
(* The free list: what an assignment to a header leaves alone.             *)
(***************************************************************************)

Blk == [Pages -> Header]

\* c is b but for field next of header p, which is v.
WritesNext(b, c, p, v) ==
    /\ c \in Blk
    /\ \A q \in Pages : /\ c[q].magic = b[q].magic
                        /\ c[q].size = b[q].size
                        /\ c[q].prev = b[q].prev
                        /\ c[q].next = IF q = p THEN v ELSE b[q].next

WritesPrev(b, c, p, v) ==
    /\ c \in Blk
    /\ \A q \in Pages : /\ c[q].magic = b[q].magic
                        /\ c[q].size = b[q].size
                        /\ c[q].next = b[q].next
                        /\ c[q].prev = IF q = p THEN v ELSE b[q].prev

WritesSize(b, c, p, v) ==
    /\ c \in Blk
    /\ \A q \in Pages : /\ c[q].magic = b[q].magic
                        /\ c[q].next = b[q].next
                        /\ c[q].prev = b[q].prev
                        /\ c[q].size = IF q = p THEN v ELSE b[q].size

\* Writing a Next changes no other field of any header.
LEMMA NextWritten ==
    ASSUME NEW b \in Blk, NEW p \in Pages, NEW v \in Ends
    PROVE  WritesNext(b, [b EXCEPT ![p].next = v], p, v)
<1> DEFINE c == [b EXCEPT ![p].next = v]
<1>1. b[p] \in Header
    BY DEF Blk
<1>2. c[p] \in Header
    BY <1>1 DEF Header, Blk
<1>3. c \in Blk
    BY <1>2 DEF Blk
<1>4. ASSUME NEW q \in Pages
      PROVE  /\ c[q].magic = b[q].magic
             /\ c[q].size = b[q].size
             /\ c[q].prev = b[q].prev
             /\ c[q].next = IF q = p THEN v ELSE b[q].next
  <2>1. b[q] \in Header
      BY DEF Blk
  <2>2. CASE q = p
      BY <2>1, <2>2 DEF Header, Blk
  <2>3. CASE q # p
      BY <2>1, <2>3 DEF Header, Blk
  <2> QED
      BY <2>2, <2>3
<1> QED
    BY <1>3, <1>4 DEF WritesNext

\* So does SetPrev, which writes nothing when there is no neighbour.
LEMMA PrevWritten ==
    ASSUME NEW b \in Blk, NEW p \in Ends, NEW v \in Ends
    PROVE  WritesPrev(b, SetPrev(b, p, v), p, v)
<1> DEFINE c == [b EXCEPT ![p].prev = v]
<1>a. CASE p = End
  <2>1. p \notin Pages
      BY <1>a, EndAssumption, GeometryAssumption DEF Pages
  <2> QED
      BY <1>a, <2>1 DEF SetPrev, WritesPrev
<1>b. CASE p # End
  <2>1. b[p] \in Header /\ p \in Pages
      BY <1>b DEF Blk, Ends
  <2>2. c[p] \in Header
      BY <2>1 DEF Header, Blk
  <2>3. c \in Blk
      BY <2>1, <2>2 DEF Blk
  <2>4. ASSUME NEW q \in Pages
        PROVE  /\ c[q].magic = b[q].magic
               /\ c[q].size = b[q].size
               /\ c[q].next = b[q].next
               /\ c[q].prev = IF q = p THEN v ELSE b[q].prev
    <3>1. b[q] \in Header
        BY DEF Blk
    <3>2. CASE q = p
        BY <3>1, <3>2 DEF Header, Blk
    <3>3. CASE q # p
        BY <3>1, <3>3 DEF Header, Blk
    <3> QED
        BY <3>2, <3>3
  <2>5. SetPrev(b, p, v) = c
      BY <1>b DEF SetPrev
  <2> HIDE DEF c
  <2> QED
      BY <2>3, <2>4, <2>5 DEF WritesPrev
<1> QED
    BY <1>a, <1>b

\* So does writing a size.
LEMMA SizeWritten ==
    ASSUME NEW b \in Blk, NEW p \in Pages, NEW v \in Nat
    PROVE  WritesSize(b, [b EXCEPT ![p].size = v], p, v)
<1> DEFINE c == [b EXCEPT ![p].size = v]
<1>1. b[p] \in Header
    BY DEF Blk
<1>2. c[p] \in Header
    BY <1>1 DEF Header, Blk
<1>3. c \in Blk
    BY <1>2 DEF Blk
<1>4. ASSUME NEW q \in Pages
      PROVE  /\ c[q].magic = b[q].magic
             /\ c[q].next = b[q].next
             /\ c[q].prev = b[q].prev
             /\ c[q].size = IF q = p THEN v ELSE b[q].size
  <2>1. b[q] \in Header
      BY DEF Blk
  <2>2. CASE q = p
      BY <2>1, <2>2 DEF Header, Blk
  <2>3. CASE q # p
      BY <2>1, <2>3 DEF Header, Blk
  <2> QED
      BY <2>2, <2>3
<1> QED
    BY <1>3, <1>4 DEF WritesSize

-----------------------------------------------------------------------------
(***************************************************************************)
(* The free list: what store finds, links and merges.                      *)
(***************************************************************************)

\* The walk of store ends at the first node behind the block, one step after the last before it.
LEMMA PlaceFound ==
    ASSUME NEW L, NEW N, NEW m, NEW low, NEW high, Chain(L, N, m, low, high),
           NEW new \in Pages \ N
    PROVE  LET place == FindPlace(L, new)
           IN  /\ place.list = L
               /\ Follows(N, new, place.next)
               /\ Precedes(N, new, place.prev)
<1> DEFINE stops == {off \in Pages : off > new}
           w == Walk(L, stops)
<1>1. /\ w.corrupt = FALSE
      /\ w.at \in (N \cap stops) \cup {End}
      /\ \A o \in N \cap stops : w.at # End /\ w.at <= o
      /\ \/ w.prev = End /\ Follows(N, -1, w.at)
         \/ w.prev \in N \ stops /\ Follows(N, w.prev, w.at)
  <2> HIDE DEF stops
  <2>1. /\ w.corrupt = FALSE
        /\ w.at \in (N \cap stops) \cup {End}
        /\ \A o \in N \cap stops : w.at # End /\ w.at <= o
        /\ \A o : o \in w.seen <=> o \in N /\ (w.at = End \/ o <= w.at)
        /\ \/ w.prev = End /\ Follows(N, -1, w.at)
           \/ w.prev \in N \ stops /\ Follows(N, w.prev, w.at)
      BY WalkOfChain, Zenon
  <2> QED
      BY <2>1
<1>2. FindPlace(L, new) = [list |-> L, prev |-> w.prev, next |-> w.at]
    BY <1>1 DEF FindPlace
<1>3. /\ new \in Nat /\ End \notin N
      /\ \A o \in N : o \in Nat /\ o # new /\ (o \in stops <=> o > new)
  <2>1. new \in Nat
      BY GeometryAssumption DEF Pages
  <2>2. \A o \in N : o \in Pages /\ o # new
      BY DEF Chain
  <2>3. End \notin N /\ \A o \in N : o \in Nat
      BY ChainNodes
  <2> QED
      BY <2>1, <2>2, <2>3
<1> HIDE DEF w, stops
<1>4. Follows(N, new, w.at)
  <2>1. CASE w.at = End
      BY <1>1, <1>3, <2>1 DEF Follows
  <2>2. CASE w.at # End
    <3>1. w.at \in N /\ w.at \in stops
        BY <1>1, <2>2
    <3>2. \A o \in N : o <= new \/ w.at <= o
        BY <1>1, <1>3
    <3>3. new < w.at
        BY <1>3, <3>1
    <3> QED
        BY <3>1, <3>2, <3>3 DEF Follows
  <2> QED
      BY <2>1, <2>2
<1>5. Precedes(N, new, w.prev)
  <2>0. \A o \in N : ~(o <= -1)
      BY <1>3
  <2>a. w.at # End => w.at \in N /\ w.at \in Nat /\ new < w.at
      BY <1>1, <1>3
  <2>1. CASE w.prev = End /\ Follows(N, -1, w.at)
    <3>1. \A o \in N : w.at # End /\ w.at <= o
        BY <1>3, <2>0, <2>1 DEF Follows
    <3>2. \A o \in N : new <= o
        BY <1>3, <2>a, <3>1
    <3> QED
        BY <2>1, <3>2 DEF Precedes
  <2>2. CASE w.prev \in N \ stops /\ Follows(N, w.prev, w.at)
    <3>1. w.prev < new /\ w.prev \in N
      <4>1. w.prev \in N /\ w.prev \in Nat /\ w.prev # new /\ ~(w.prev > new)
          BY <1>3, <2>2
      <4> QED
          BY <1>3, <4>1
    <3>2. ASSUME NEW o \in N PROVE o <= w.prev \/ new <= o
        BY <1>3, <2>2, <2>a DEF Follows
    <3> QED
        BY <3>1, <3>2 DEF Precedes
  <2> QED
      BY <1>1, <2>1, <2>2
<1> QED
    BY <1>2, <1>4, <1>5

\* Link writes the new header, and one link in each of its neighbours or in the head.
LEMMA LinkWrites ==
    ASSUME NEW L \in Lists, NEW new \in Pages, NEW n \in Nat,
           NEW prev \in Ends \ {new}, NEW next \in Ends \ {new}
    PROVE  LET L1 == Link(L, new, n, prev, next)
           IN  /\ L1 \in Lists
               /\ L1.count = L.count + 1
               /\ L1.head = IF prev = End THEN new ELSE L.head
               /\ \A q \in Pages :
                     /\ L1.blk[q].magic = (q = new \/ L.blk[q].magic)
                     /\ L1.blk[q].size = IF q = new THEN n ELSE L.blk[q].size
                     /\ L1.blk[q].next = IF q = new THEN next
                                         ELSE IF q = prev THEN new ELSE L.blk[q].next
                     /\ L1.blk[q].prev = IF q = new THEN prev
                                         ELSE IF q = next THEN new ELSE L.blk[q].prev
<1> DEFINE h == [magic |-> TRUE, prev |-> prev, next |-> next, size |-> n]
           b1 == [L.blk EXCEPT ![new] = h]
           b2 == IF prev = End THEN b1 ELSE [b1 EXCEPT ![prev].next = new]
           b3 == SetPrev(b2, next, new)
           L1 == Link(L, new, n, prev, next)
<1>1. L1 = [head |-> IF prev = End THEN new ELSE L.head, count |-> L.count + 1, blk |-> b3]
    BY DEF Link
<1>2. new \in Ends /\ prev \in Ends /\ next \in Ends /\ End \notin Pages
    BY EndAssumption, GeometryAssumption DEF Ends, Pages
<1>3. L.blk \in Blk /\ L.head \in Ends /\ L.count \in Nat
    BY DEF Lists, Blk
<1>4. h \in Header
    BY <1>2 DEF Header
<1> HIDE DEF h
<1>5. b1 \in Blk /\ b1[new] = h /\ \A q \in Pages \ {new} : b1[q] = L.blk[q]
    BY <1>3, <1>4 DEF Blk
<1> HIDE DEF b1
<1>6. /\ b2 \in Blk
      /\ \A q \in Pages : /\ b2[q].magic = b1[q].magic
                          /\ b2[q].size = b1[q].size
                          /\ b2[q].prev = b1[q].prev
                          /\ b2[q].next = IF q = prev THEN new ELSE b1[q].next
  <2>1. CASE prev = End
      BY <1>2, <1>5, <2>1
  <2>2. CASE prev # End
    <3>1. prev \in Pages
        BY <1>2, <2>2 DEF Ends
    <3>2. WritesNext(b1, b2, prev, new)
        BY <1>2, <1>5, <2>2, <3>1, NextWritten
    <3> QED
        BY <3>2 DEF WritesNext
  <2> QED
      BY <2>1, <2>2
<1> HIDE DEF b2
<1>7. WritesPrev(b2, b3, next, new)
    BY <1>2, <1>6, PrevWritten
<1> HIDE DEF b3
<1>8. L1 \in Lists /\ L1.blk = b3
    BY <1>1, <1>2, <1>3, <1>7 DEF Lists, WritesPrev, Blk
<1>9. ASSUME NEW q \in Pages
      PROVE  /\ b3[q].magic = (q = new \/ L.blk[q].magic)
             /\ b3[q].size = IF q = new THEN n ELSE L.blk[q].size
             /\ b3[q].next = IF q = new THEN next
                                         ELSE IF q = prev THEN new ELSE L.blk[q].next
             /\ b3[q].prev = IF q = new THEN prev
                                         ELSE IF q = next THEN new ELSE L.blk[q].prev
  <2>1. h.magic = TRUE /\ h.size = n /\ h.next = next /\ h.prev = prev
      BY DEF h
  <2>2. /\ b3[q].magic = b1[q].magic
        /\ b3[q].size = b1[q].size
        /\ b3[q].next = IF q = prev THEN new ELSE b1[q].next
        /\ b3[q].prev = IF q = next THEN new ELSE b1[q].prev
      BY <1>6, <1>7 DEF WritesPrev
  <2>4. CASE q = new
      BY <1>5, <2>1, <2>2, <2>4
  <2>5. CASE q # new
    <3>1. L.blk[q].magic \in BOOLEAN
        BY DEF Lists, Header
    <3> QED
      BY <1>5, <2>2, <2>5, <3>1
  <2> QED
      BY <2>4, <2>5
<1> QED
    BY <1>1, <1>8, <1>9

\* Between two nodes that follow each other there is room for a new one.
LEMMA LinkKeepsOrder ==
    ASSUME NEW N \in SUBSET Nat, NEW new \in Nat, new \notin N, End \notin N, NEW prev, NEW next,
           Follows(N, new, next), Precedes(N, new, prev)
    PROVE  LET N1 == N \cup {new}
           IN  /\ Follows(N1, new, next) /\ Precedes(N1, new, prev)
               /\ \A x, y : x \in N /\ Follows(N, x, y) =>
                     Follows(N1, x, IF x = prev THEN new ELSE y)
               /\ \A x, y : x \in N /\ Precedes(N, x, y) =>
                     Precedes(N1, x, IF x = next THEN new ELSE y)
               /\ \A y : Follows(N, -1, y) => Follows(N1, -1, IF prev = End THEN new ELSE y)
<1> DEFINE N1 == N \cup {new}
<1>1. \A o \in N : o \in Nat /\ o # new
    OBVIOUS
<1>2. Follows(N1, new, next)
    BY <1>1 DEF Follows
<1>3. Precedes(N1, new, prev)
    BY <1>1 DEF Precedes
<1>4. /\ next = End => \A o \in N : o < new
      /\ next # End => next \in N /\ new < next /\ \A o \in N : o < new \/ next <= o
    BY <1>1 DEF Follows
<1>5. /\ prev = End => \A o \in N : new < o
      /\ prev # End => prev \in N /\ prev < new /\ \A o \in N : o <= prev \/ new < o
    BY <1>1 DEF Precedes
<1>6. ASSUME NEW x \in N, NEW y, Follows(N, x, y)
      PROVE  Follows(N1, x, IF x = prev THEN new ELSE y)
  <2>1. CASE x = prev
    <3>1. x < new /\ \A o \in N1 : o <= x \/ new <= o
        BY <1>1, <1>5, <2>1
    <3> QED
        BY <2>1, <3>1 DEF Follows
  <2>2. CASE x # prev /\ y = End
    <3>1. \A o \in N : o <= x
        BY <2>2, <1>6 DEF Follows
    <3>2. new <= x
      <4>1. CASE prev = End
          BY <1>1, <1>5, <4>1
      <4>2. CASE prev # End
        <5>1. prev \in Nat /\ x \in Nat /\ prev <= x /\ (x <= prev \/ new < x)
            BY <1>1, <1>5, <3>1, <4>2
        <5> QED
            BY <2>2, <5>1
      <4> QED
          BY <4>1, <4>2
    <3> QED
        BY <2>2, <3>1, <3>2 DEF Follows
  <2>3. CASE x # prev /\ y # End
    <3>1. y \in N /\ x < y /\ \A o \in N : o <= x \/ y <= o
        BY <2>3, <1>6 DEF Follows
    <3>2. new <= x \/ y <= new
      <4>1. CASE prev = End
          BY <1>1, <1>5, <4>1
      <4>2. CASE prev # End
        <5>1. /\ prev \in Nat /\ x \in Nat /\ y \in Nat
              /\ prev < new /\ (x <= prev \/ new < x) /\ (prev <= x \/ y <= prev)
            BY <1>1, <1>5, <3>1, <4>2
        <5> QED
            BY <2>3, <5>1
      <4> QED
          BY <4>1, <4>2
    <3> QED
        BY <2>3, <3>1, <3>2 DEF Follows
  <2> QED
      BY <2>1, <2>2, <2>3
<1>7. ASSUME NEW x \in N, NEW y, Precedes(N, x, y)
      PROVE  Precedes(N1, x, IF x = next THEN new ELSE y)
  <2>1. CASE x = next
    <3>1. new < x /\ \A o \in N1 : o <= new \/ x <= o
        BY <1>1, <1>4, <2>1
    <3> QED
        BY <2>1, <3>1 DEF Precedes
  <2>2. CASE x # next /\ y = End
    <3>1. \A o \in N : x <= o
        BY <2>2, <1>7 DEF Precedes
    <3>2. x <= new
      <4>1. CASE next = End
          BY <1>1, <1>4, <4>1
      <4>2. CASE next # End
        <5>1. next \in Nat /\ x \in Nat /\ x <= next /\ (x < new \/ next <= x)
            BY <1>1, <1>4, <3>1, <4>2
        <5> QED
            BY <2>2, <5>1
      <4> QED
          BY <4>1, <4>2
    <3> QED
        BY <2>2, <3>1, <3>2 DEF Precedes
  <2>3. CASE x # next /\ y # End
    <3>1. y \in N /\ y < x /\ \A o \in N : o <= y \/ x <= o
        BY <2>3, <1>7 DEF Precedes
    <3>2. new <= y \/ x <= new
      <4>1. CASE next = End
          BY <1>1, <1>4, <4>1
      <4>2. CASE next # End
        <5>1. /\ next \in Nat /\ x \in Nat /\ y \in Nat
              /\ new < next /\ (x < new \/ next <= x) /\ (next <= y \/ x <= next)
            BY <1>1, <1>4, <3>1, <4>2
        <5> QED
            BY <2>3, <5>1
      <4> QED
          BY <4>1, <4>2
    <3> QED
        BY <2>3, <3>1, <3>2 DEF Precedes
  <2> QED
      BY <2>1, <2>2, <2>3
<1>8. ASSUME NEW y, Follows(N, -1, y)
      PROVE  Follows(N1, -1, IF prev = End THEN new ELSE y)
  <2>0. \A o \in N1 : ~(o <= -1) /\ -1 < o
      BY <1>1
  <2>1. CASE prev = End
    <3>1. \A o \in N1 : new <= o
        BY <1>1, <1>5, <2>1
    <3> QED
        BY <2>0, <2>1, <3>1 DEF Follows
  <2>2. CASE prev # End
    <3>1. y \in N /\ \A o \in N : y <= o
        BY <1>5, <1>8, <2>0, <2>2 DEF Follows
    <3>2. y <= new
      <4>1. prev \in Nat /\ y \in Nat /\ y <= prev /\ prev < new
          BY <1>1, <1>5, <2>2, <3>1
      <4> QED
          BY <4>1
    <3> QED
        BY <2>0, <2>2, <3>1, <3>2 DEF Follows
  <2> QED
      BY <2>1, <2>2
<1> QED
    BY <1>2, <1>3, <1>6, <1>7, <1>8

\* The pages of the nodes of N.
Covered(L, N) == UNION {Run(o, L.blk[o].size) : o \in N}

\* The n pages from new on are apart from those of the nodes.
Clear(L, N, new, n) == \A o \in N : o + L.blk[o].size <= new \/ new + n <= o

\* What the fields of a list in memory are.
LEMMA ListTypes ==
    ASSUME NEW L \in Lists
    PROVE  /\ L.head \in Ends /\ L.count \in Nat /\ L.blk \in Blk /\ End \notin Pages
           /\ \A p \in Pages : /\ p \in Nat /\ p < TotalPages
                               /\ L.blk[p] \in Header /\ L.blk[p].size \in Nat
                               /\ L.blk[p].next \in Ends /\ L.blk[p].prev \in Ends
                               /\ L.blk[p].magic \in BOOLEAN
<1>1. End \notin Pages /\ \A p \in Pages : p \in Nat /\ p < TotalPages
    BY EndAssumption, GeometryAssumption DEF Pages
<1>2. L.head \in Ends /\ L.count \in Nat /\ L.blk \in Blk
    BY DEF Lists, Blk
<1>3. \A p \in Pages : L.blk[p] \in Header
    BY DEF Lists
<1> QED
    BY <1>1, <1>2, <1>3 DEF Header

\* Any set of pages is finite, so its cardinality follows each node that comes or goes.
LEMMA SomePages ==
    ASSUME NEW N \in SUBSET Pages
    PROVE  IsFiniteSet(N) /\ N \in SUBSET Nat
<1>1. IsFiniteSet(Pages) /\ Pages \in SUBSET Nat
    BY FS_Interval, GeometryAssumption DEF Pages
<1> QED
    BY <1>1, FS_Subset

\* Link puts a block into its place.
LEMMA LinkChain ==
    ASSUME NEW L, NEW N, NEW m, Chain(L, N, m, {}, {}),
           NEW new \in Pages \ N, NEW n \in Nat \ {0}, new + n <= m,
           NEW prev, NEW next, Follows(N, new, next), Precedes(N, new, prev),
           Clear(L, N, new, n)
    PROVE  LET L1 == Link(L, new, n, prev, next)
           IN  /\ Chain(L1, N \cup {new}, m, {new}, {new})
               /\ Covered(L1, N \cup {new}) = Covered(L, N) \cup Run(new, n)
               /\ L1.blk[new].size = n
<1> DEFINE N1 == N \cup {new}
           L1 == Link(L, new, n, prev, next)
<1>1. L \in Lists /\ N \in SUBSET Pages /\ m \in 0 .. TotalPages /\ L.count = Cardinality(N)
    BY DEF Chain
<1>2. /\ End \notin Pages
      /\ \A p \in Pages : p \in Nat /\ L.blk[p].size \in Nat /\ L.blk[p].magic \in BOOLEAN
    BY <1>1, ListTypes
<1>3. N \in SUBSET Nat /\ new \in Nat /\ new \notin N /\ End \notin N /\ m \in Nat /\ new \in Pages
    BY <1>1, <1>2, GeometryAssumption
<1>4. prev \in Ends \ {new} /\ next \in Ends \ {new}
    BY <1>1, <1>2, <1>3 DEF Follows, Precedes, Ends
<1>5. /\ L1 \in Lists
      /\ L1.count = L.count + 1
      /\ L1.head = IF prev = End THEN new ELSE L.head
      /\ \A q \in Pages :
            /\ L1.blk[q].magic = (q = new \/ L.blk[q].magic)
            /\ L1.blk[q].size = IF q = new THEN n ELSE L.blk[q].size
            /\ L1.blk[q].next = IF q = new THEN next
                                ELSE IF q = prev THEN new ELSE L.blk[q].next
            /\ L1.blk[q].prev = IF q = new THEN prev
                                ELSE IF q = next THEN new ELSE L.blk[q].prev
    BY <1>1, <1>3, <1>4, LinkWrites
<1>6. /\ Follows(N1, new, next) /\ Precedes(N1, new, prev)
      /\ \A x, y : x \in N /\ Follows(N, x, y) =>
            Follows(N1, x, IF x = prev THEN new ELSE y)
      /\ \A x, y : x \in N /\ Precedes(N, x, y) =>
            Precedes(N1, x, IF x = next THEN new ELSE y)
      /\ \A y : Follows(N, -1, y) => Follows(N1, -1, IF prev = End THEN new ELSE y)
  <2> HIDE DEF L1
  <2> QED
      BY <1>3, LinkKeepsOrder
<1> HIDE DEF L1
<1>7. N1 \in SUBSET Pages /\ L1.count = Cardinality(N1)
  <2>1. IsFiniteSet(N)
      BY <1>1, SomePages
  <2>2. Cardinality(N1) = Cardinality(N) + 1
      BY <1>3, <2>1, FS_AddElement
  <2> QED
      BY <1>1, <1>3, <1>5, <2>2
<1>8. Follows(N1, -1, L1.head)
  <2>1. Follows(N, -1, L.head)
      BY DEF Chain
  <2>2. Follows(N1, -1, IF prev = End THEN new ELSE L.head)
      BY <1>6, <2>1
  <2> QED
      BY <1>5, <2>2
<1>9. ASSUME NEW o \in N1 PROVE Node(L1, N1, m, o)
  <2>1. CASE o = new
    <3>1. L1.blk[new].magic /\ L1.blk[new].size = n /\ L1.blk[new].next = next /\ L1.blk[new].prev = prev
        BY <1>3, <1>5
    <3>2. n > 0
        OBVIOUS
    <3> QED
        BY <1>6, <2>1, <3>1, <3>2 DEF Node
  <2>2. CASE o # new
    <3>0. o \in N /\ o \in Pages
        BY <1>1, <2>2
    <3>1. Node(L, N, m, o)
        BY <3>0 DEF Chain
    <3>2. /\ L1.blk[o].magic = L.blk[o].magic /\ L1.blk[o].size = L.blk[o].size
          /\ L1.blk[o].next = IF o = prev THEN new ELSE L.blk[o].next
          /\ L1.blk[o].prev = IF o = next THEN new ELSE L.blk[o].prev
        BY <1>2, <1>5, <2>2, <3>0
    <3>3. Follows(N1, o, IF o = prev THEN new ELSE L.blk[o].next)
        BY <1>6, <3>0, <3>1 DEF Node
    <3>4. Precedes(N1, o, IF o = next THEN new ELSE L.blk[o].prev)
        BY <1>6, <3>0, <3>1 DEF Node
    <3> QED
        BY <3>1, <3>2, <3>3, <3>4 DEF Node
  <2> QED
      BY <2>1, <2>2
<1>10. ASSUME NEW o \in N1, NEW q \in N1, o < q
       PROVE  /\ o + L1.blk[o].size <= q
              /\ o \notin {new} /\ q \notin {new} => o + L1.blk[o].size < q
  <2>1. CASE o = new /\ q # new
    <3>1. q \in N /\ L1.blk[o].size = n /\ q \in Nat
        BY <1>3, <1>5, <2>1
    <3>2. q + L.blk[q].size <= new \/ new + n <= q
        BY <3>1 DEF Clear
    <3>3. L.blk[q].size \in Nat
        BY <1>1, <1>2, <3>1
    <3> QED
        BY <1>3, <1>10, <2>1, <3>1, <3>2, <3>3
  <2>2. CASE o # new /\ q = new
    <3>1. o \in N /\ L1.blk[o].size = L.blk[o].size /\ o \in Nat
        BY <1>1, <1>3, <1>5, <2>2
    <3>2. o + L.blk[o].size <= new \/ new + n <= o
        BY <3>1 DEF Clear
    <3> QED
        BY <1>3, <1>10, <2>2, <3>1, <3>2
  <2>3. CASE o # new /\ q # new
    <3>1. o \in N /\ q \in N /\ L1.blk[o].size = L.blk[o].size
        BY <1>1, <1>5, <2>3
    <3> QED
        BY <1>10, <3>1 DEF Chain, Apart
  <2>4. o \in Nat /\ q \in Nat
      BY <1>3
  <2> QED
      BY <1>10, <2>1, <2>2, <2>3, <2>4
<1>11. Covered(L1, N1) = Covered(L, N) \cup Run(new, n)
  <2>1. \A o \in N : L1.blk[o].size = L.blk[o].size
      BY <1>1, <1>3, <1>5
  <2>2. L1.blk[new].size = n
      BY <1>3, <1>5
  <2> QED
      BY <2>1, <2>2 DEF Covered
<1> QED
    BY <1>1, <1>3, <1>5, <1>7, <1>8, <1>9, <1>10, <1>11 DEF Chain, Apart, L1

\* What follows and what precedes a page is one node; one node follows another when this
\* precedes it.
LEMMA Neighbours ==
    ASSUME NEW N \in SUBSET Nat, End \notin N
    PROVE  /\ \A x \in N : \A y, z : Follows(N, x, y) /\ Follows(N, x, z) => y = z
           /\ \A x \in N : \A y, z : Precedes(N, x, y) /\ Precedes(N, x, z) => y = z
           /\ \A x, y \in N : Follows(N, x, y) <=> Precedes(N, y, x)
<1>1. ASSUME NEW x \in N, NEW y, NEW z, Follows(N, x, y), Follows(N, x, z)
      PROVE  y = z
  <2>1. CASE y = End
    <3>1. \A o \in N : o \in Nat /\ o <= x
        BY <1>1, <2>1 DEF Follows
    <3>2. \A o \in N : ~(x < o)
        BY <3>1
    <3> QED
        BY <1>1, <2>1, <3>2 DEF Follows
  <2>2. CASE y # End
    <3>1. y \in N /\ x < y /\ \A o \in N : o <= x \/ y <= o
        BY <1>1, <2>2 DEF Follows
    <3>2. z # End
        BY <1>1, <3>1 DEF Follows
    <3>3. z \in N /\ x < z /\ \A o \in N : o <= x \/ z <= o
        BY <1>1, <3>2 DEF Follows
    <3>4. y <= z /\ z <= y
        BY <3>1, <3>3
    <3> QED
        BY <3>1, <3>3, <3>4
  <2> QED
      BY <2>1, <2>2
<1>2. ASSUME NEW x \in N, NEW y, NEW z, Precedes(N, x, y), Precedes(N, x, z)
      PROVE  y = z
  <2>1. CASE y = End
    <3>1. \A o \in N : o \in Nat /\ x <= o
        BY <1>2, <2>1 DEF Precedes
    <3>2. \A o \in N : ~(o < x)
        BY <3>1
    <3> QED
        BY <1>2, <2>1, <3>2 DEF Precedes
  <2>2. CASE y # End
    <3>1. y \in N /\ y < x /\ \A o \in N : o <= y \/ x <= o
        BY <1>2, <2>2 DEF Precedes
    <3>2. z # End
        BY <1>2, <3>1 DEF Precedes
    <3>3. z \in N /\ z < x /\ \A o \in N : o <= z \/ x <= o
        BY <1>2, <3>2 DEF Precedes
    <3>4. y <= z /\ z <= y
        BY <3>1, <3>3
    <3> QED
        BY <3>1, <3>3, <3>4
  <2> QED
      BY <2>1, <2>2
<1>3. ASSUME NEW x \in N, NEW y \in N
      PROVE  Follows(N, x, y) <=> Precedes(N, y, x)
    BY DEF Follows, Precedes
<1> QED
    BY <1>1, <1>2, <1>3

\* When a node goes, its neighbours follow each other.
LEMMA CutKeepsOrder ==
    ASSUME NEW N \in SUBSET Nat, End \notin N, NEW c \in N, NEW prev, NEW next,
           Follows(N, c, next), Precedes(N, c, prev)
    PROVE  LET N1 == N \ {c}
           IN  /\ \A x, y : x \in N1 /\ Follows(N, x, y) =>
                     Follows(N1, x, IF y = c THEN next ELSE y)
               /\ \A x, y : x \in N1 /\ Precedes(N, x, y) =>
                     Precedes(N1, x, IF y = c THEN prev ELSE y)
               /\ \A y : Follows(N, -1, y) => Follows(N1, -1, IF y = c THEN next ELSE y)
<1> DEFINE N1 == N \ {c}
<1>1. \A o \in N : o \in Nat
    OBVIOUS
<1>2. /\ next = End => \A o \in N : o <= c
      /\ next # End => next \in N /\ c < next /\ \A o \in N : o <= c \/ next <= o
    BY DEF Follows
<1>3. /\ prev = End => \A o \in N : c <= o
      /\ prev # End => prev \in N /\ prev < c /\ \A o \in N : o <= prev \/ c <= o
    BY DEF Precedes
<1>4. ASSUME NEW x \in N1, NEW y, Follows(N, x, y)
      PROVE  Follows(N1, x, IF y = c THEN next ELSE y)
  <2>1. CASE y # c
      BY <2>1, <1>4 DEF Follows
  <2>2. CASE y = c
    <3>1. x < c /\ \A o \in N : o <= x \/ c <= o
        BY <2>2, <1>4 DEF Follows
    <3>2. \A o \in N1 : o <= x \/ c < o
        BY <1>1, <3>1
    <3>3. CASE next = End
      <4>1. \A o \in N1 : o <= x
          BY <1>1, <1>2, <3>2, <3>3
      <4> QED
          BY <2>2, <3>3, <4>1 DEF Follows
    <3>4. CASE next # End
      <4>1. next \in N1 /\ x < next
        <5>1. /\ next \in N /\ next \in Nat /\ c < next /\ c \in Nat
              /\ x < c /\ x \in Nat
            BY <1>1, <1>2, <3>1, <3>4
        <5>2. next # c /\ x < next
            BY <5>1
        <5> QED
            BY <5>1, <5>2
      <4>2. ASSUME NEW o \in N1 PROVE o <= x \/ next <= o
        <5>1. o \in Nat /\ (o <= c \/ next <= o) /\ (o <= x \/ c < o)
            BY <1>1, <1>2, <3>2, <3>4
        <5> QED
            BY <1>1, <5>1
      <4> QED
          BY <2>2, <4>1, <4>2 DEF Follows
    <3> QED
        BY <3>3, <3>4
  <2> QED
      BY <2>1, <2>2
<1>5. ASSUME NEW x \in N1, NEW y, Precedes(N, x, y)
      PROVE  Precedes(N1, x, IF y = c THEN prev ELSE y)
  <2>1. CASE y # c
      BY <2>1, <1>5 DEF Precedes
  <2>2. CASE y = c
    <3>1. c < x /\ \A o \in N : o <= c \/ x <= o
        BY <2>2, <1>5 DEF Precedes
    <3>2. \A o \in N1 : o < c \/ x <= o
        BY <1>1, <3>1
    <3>3. CASE prev = End
      <4>1. \A o \in N1 : x <= o
          BY <1>1, <1>3, <3>2, <3>3
      <4> QED
          BY <2>2, <3>3, <4>1 DEF Precedes
    <3>4. CASE prev # End
      <4>1. prev \in N1 /\ prev < x
        <5>1. /\ prev \in N /\ prev \in Nat /\ prev < c /\ c \in Nat
              /\ c < x /\ x \in Nat
            BY <1>1, <1>3, <3>1, <3>4
        <5>2. prev # c /\ prev < x
            BY <5>1
        <5> QED
            BY <5>1, <5>2
      <4>2. ASSUME NEW o \in N1 PROVE o <= prev \/ x <= o
        <5>1. o \in Nat /\ (o <= prev \/ c <= o) /\ (o < c \/ x <= o)
            BY <1>1, <1>3, <3>2, <3>4
        <5> QED
            BY <1>1, <5>1
      <4> QED
          BY <2>2, <4>1, <4>2 DEF Precedes
    <3> QED
        BY <3>3, <3>4
  <2> QED
      BY <2>1, <2>2
<1>6. ASSUME NEW y, Follows(N, -1, y)
      PROVE  Follows(N1, -1, IF y = c THEN next ELSE y)
  <2>0. \A o \in N : ~(o <= -1) /\ -1 < o
      BY <1>1
  <2>1. y \in N /\ \A o \in N : y <= o
      BY <1>6, <2>0 DEF Follows
  <2>2. CASE y # c
      BY <2>0, <2>1, <2>2 DEF Follows
  <2>3. CASE y = c /\ next = End
    <3>1. N1 = {}
        BY <1>1, <1>2, <2>1, <2>3
    <3> QED
        BY <2>3, <3>1 DEF Follows
  <2>4. CASE y = c /\ next # End
    <3>1. next \in N1 /\ \A o \in N1 : next <= o
      <4>1. next \in N1
          BY <1>1, <1>2, <2>4
      <4>2. ASSUME NEW o \in N1 PROVE next <= o
        <5>1. o \in Nat /\ c <= o /\ c # o /\ (o <= c \/ next <= o)
            BY <1>1, <1>2, <2>1, <2>4
        <5> QED
            BY <1>1, <5>1
      <4> QED
          BY <4>1, <4>2
    <3> QED
        BY <2>0, <2>4, <3>1 DEF Follows
  <2> QED
      BY <2>2, <2>3, <2>4
<1> QED
    BY <1>4, <1>5, <1>6

\* Absorb adds the size of the one block to the other's, whose Next it takes over.
LEMMA AbsorbWrites ==
    ASSUME NEW L \in Lists, L.count > 0,
           NEW low \in Pages, NEW high \in Pages \ {low}
    PROVE  LET L1 == Absorb(L, low, high)
               next == L.blk[high].next
           IN  /\ L1 \in Lists
               /\ L1.count = L.count - 1
               /\ L1.head = L.head
               /\ \A q \in Pages \ {high} :
                     /\ L1.blk[q].magic = L.blk[q].magic
                     /\ L1.blk[q].size = IF q = low THEN L.blk[low].size + L.blk[high].size
                                         ELSE L.blk[q].size
                     /\ L1.blk[q].next = IF q = low THEN next ELSE L.blk[q].next
                     /\ L1.blk[q].prev = IF q = next THEN low ELSE L.blk[q].prev
<1> DEFINE h == L.blk[high]
           size == L.blk[low].size + h.size
           b1 == [L.blk EXCEPT ![low].size = size]
           b2 == [b1 EXCEPT ![low].next = h.next]
           b3 == SetPrev(b2, h.next, low)
           b4 == [b3 EXCEPT ![high] = NoHeader]
           L1 == Absorb(L, low, high)
<1>1. /\ L.blk \in Blk /\ L.head \in Ends /\ L.count \in Nat /\ low \in Ends /\ End \in Ends
      /\ L.blk[low] \in Header /\ h \in Header /\ h.next \in Ends /\ size \in Nat
    BY ListTypes DEF Ends
<1>2. b2 = [L.blk EXCEPT ![low].size = @ + h.size, ![low].next = h.next]
    BY <1>1 DEF Blk
<1>3. L1 = [L EXCEPT !.count = @ - 1, !.blk = b4]
    BY <1>2 DEF Absorb
<1>4. NoHeader \in Header
    BY <1>1 DEF NoHeader, Header
<1> HIDE DEF h, size
<1>5. WritesSize(L.blk, b1, low, size)
    BY <1>1, SizeWritten
<1> HIDE DEF b1
<1>6. WritesNext(b1, b2, low, h.next)
    BY <1>1, <1>5, NextWritten DEF WritesSize
<1> HIDE DEF b2
<1>7. WritesPrev(b2, b3, h.next, low)
    BY <1>1, <1>6, PrevWritten DEF WritesNext
<1> HIDE DEF b3
<1>8. b4 \in Blk /\ \A q \in Pages \ {high} : b4[q] = b3[q]
    BY <1>4, <1>7 DEF WritesPrev, Blk
<1> HIDE DEF b4
<1>9. L1 \in Lists /\ L1.blk = b4 /\ L1.count = L.count - 1 /\ L1.head = L.head
  <2>1. L.count - 1 \in Nat
      BY <1>1
  <2> QED
      BY <1>1, <1>3, <1>8, <2>1 DEF Lists, Blk
<1>10. \A q \in Pages \ {high} :
          /\ b4[q].magic = L.blk[q].magic
          /\ b4[q].size = IF q = low THEN size ELSE L.blk[q].size
          /\ b4[q].next = IF q = low THEN h.next ELSE L.blk[q].next
          /\ b4[q].prev = IF q = h.next THEN low ELSE L.blk[q].prev
    BY <1>5, <1>6, <1>7, <1>8 DEF WritesSize, WritesNext, WritesPrev
<1> QED
    BY <1>9, <1>10 DEF h, size

\* The first facts of a chain, in the form the following lemmas use.
LEMMA ChainFacts ==
    ASSUME NEW L, NEW N, NEW m, NEW low, NEW high, Chain(L, N, m, low, high)
    PROVE  /\ L \in Lists /\ N \in SUBSET Pages /\ N \in SUBSET Nat /\ End \notin N
           /\ m \in Nat /\ L.count = Cardinality(N) /\ IsFiniteSet(N)
           /\ Follows(N, -1, L.head)
           /\ \A o \in N : /\ o \in Pages /\ o \in Nat
                           /\ L.blk[o].size \in Nat /\ L.blk[o].magic \in BOOLEAN
                           /\ Follows(N, o, L.blk[o].next) /\ Precedes(N, o, L.blk[o].prev)
                           /\ L.blk[o].next \in N \cup {End} /\ L.blk[o].prev \in N \cup {End}
<1>1. /\ L \in Lists /\ N \in SUBSET Pages /\ m \in 0 .. TotalPages /\ L.count = Cardinality(N)
      /\ Follows(N, -1, L.head)
    BY DEF Chain
<1>2. IsFiniteSet(N) /\ N \in SUBSET Nat /\ m \in Nat
    BY <1>1, SomePages, GeometryAssumption
<1>3. End \notin N
    BY ChainNodes
<1>4. ASSUME NEW o \in N
      PROVE  /\ o \in Pages /\ o \in Nat
             /\ L.blk[o].size \in Nat /\ L.blk[o].magic \in BOOLEAN
             /\ Follows(N, o, L.blk[o].next) /\ Precedes(N, o, L.blk[o].prev)
  <2>1. o \in Pages
      BY <1>1
  <2>2. Node(L, N, m, o)
      BY DEF Chain
  <2> QED
      BY <1>1, <2>1, <2>2, ListTypes DEF Node
<1>5. \A o \in N : L.blk[o].next \in N \cup {End} /\ L.blk[o].prev \in N \cup {End}
    BY <1>4 DEF Follows, Precedes
<1> QED
    BY <1>1, <1>2, <1>3, <1>4, <1>5

\* Absorb makes one block of two that touch, and leaves the pages in the list.
LEMMA AbsorbChain ==
    ASSUME NEW L, NEW N, NEW m, NEW loose, NEW tight, Chain(L, N, m, loose, tight),
           NEW low \in N, NEW high \in N, L.blk[low].next = high, high \notin loose,
           low + L.blk[low].size = high
    PROVE  LET L1 == Absorb(L, low, high)
           IN  /\ Chain(L1, N \ {high}, m, loose \ {low}, tight \ {high})
               /\ Covered(L1, N \ {high}) = Covered(L, N)
<1> DEFINE N1 == N \ {high}
           L1 == Absorb(L, low, high)
           next == L.blk[high].next
<1>1. /\ L \in Lists /\ N \in SUBSET Pages /\ N \in SUBSET Nat /\ End \notin N
      /\ m \in Nat /\ L.count = Cardinality(N) /\ IsFiniteSet(N)
      /\ Follows(N, -1, L.head)
      /\ \A o \in N : /\ o \in Pages /\ o \in Nat
                      /\ L.blk[o].size \in Nat /\ L.blk[o].magic \in BOOLEAN
                      /\ Follows(N, o, L.blk[o].next) /\ Precedes(N, o, L.blk[o].prev)
                      /\ L.blk[o].next \in N \cup {End} /\ L.blk[o].prev \in N \cup {End}
    BY ChainFacts
<1>2. low < high /\ high \in Pages \ {low} /\ low \in Pages
  <2>1. Follows(N, low, high) /\ high # End
      BY <1>1
  <2>2. low < high
      BY <2>1 DEF Follows
  <2> QED
      BY <1>1, <2>2
<1>3. Cardinality(N) \in Nat /\ Cardinality(N1) = Cardinality(N) - 1 /\ Cardinality(N) > 0
  <2>1. Cardinality(N1) = Cardinality(N) - 1 /\ IsFiniteSet(N1)
      BY <1>1, FS_RemoveElement
  <2>2. Cardinality(N) \in Nat /\ Cardinality(N1) \in Nat
      BY <1>1, <2>1, FS_CardinalityType
  <2> QED
      BY <2>1, <2>2
<1>4. /\ L1 \in Lists
      /\ L1.count = L.count - 1
      /\ L1.head = L.head
      /\ \A q \in Pages \ {high} :
            /\ L1.blk[q].magic = L.blk[q].magic
            /\ L1.blk[q].size = IF q = low THEN L.blk[low].size + L.blk[high].size
                                ELSE L.blk[q].size
            /\ L1.blk[q].next = IF q = low THEN next ELSE L.blk[q].next
            /\ L1.blk[q].prev = IF q = next THEN low ELSE L.blk[q].prev
    BY <1>1, <1>2, <1>3, AbsorbWrites
<1> HIDE DEF L1
<1>5. Follows(N, high, next) /\ Precedes(N, high, low)
    BY <1>1, Neighbours
<1>6. /\ \A x, y : x \in N1 /\ Follows(N, x, y) => Follows(N1, x, IF y = high THEN next ELSE y)
      /\ \A x, y : x \in N1 /\ Precedes(N, x, y) => Precedes(N1, x, IF y = high THEN low ELSE y)
      /\ \A y : Follows(N, -1, y) => Follows(N1, -1, IF y = high THEN next ELSE y)
  <2> HIDE DEF next
  <2> QED
      BY <1>1, <1>5, CutKeepsOrder
<1>7. \A o \in N : (L.blk[o].next = high <=> o = low) /\ (L.blk[o].prev = high <=> o = next)
  <2> SUFFICES ASSUME NEW o \in N
               PROVE  (L.blk[o].next = high <=> o = low) /\ (L.blk[o].prev = high <=> o = next)
      OBVIOUS
  <2>1. ASSUME L.blk[o].next = high PROVE o = low
    <3>1. Follows(N, o, high)
        BY <1>1, <2>1
    <3>2. Precedes(N, high, o)
        BY <1>1, <3>1, Neighbours
    <3> QED
        BY <1>1, <1>5, <3>2, Neighbours
  <2>2. ASSUME L.blk[o].prev = high PROVE o = next
    <3>1. Precedes(N, o, high)
        BY <1>1, <2>2
    <3>2. Follows(N, high, o)
        BY <1>1, <3>1, Neighbours
    <3> QED
        BY <1>1, <1>5, <3>2, Neighbours
  <2>3. ASSUME o = next PROVE L.blk[o].prev = high
    <3>1. Precedes(N, o, high)
        BY <1>1, <1>5, <2>3, Neighbours
    <3> QED
        BY <1>1, <3>1, Neighbours
  <2> QED
      BY <2>1, <2>2, <2>3
<1>8. L.head # high
  <2>0. \A o \in N : ~(o <= -1)
      BY <1>1
  <2>1. \A o \in N : L.head <= o
      BY <1>1, <2>0 DEF Follows
  <2> QED
      BY <1>1, <1>2, <2>1
<1>9. ASSUME NEW o \in N1 PROVE Node(L1, N1, m, o)
  <2>1. o \in N /\ o \in Pages \ {high}
      BY <1>1
  <2>2. Node(L, N, m, o)
      BY <2>1 DEF Chain
  <2>3. Follows(N1, o, L1.blk[o].next)
    <3>1. Follows(N1, o, IF L.blk[o].next = high THEN next ELSE L.blk[o].next)
        BY <1>1, <1>6, <2>1
    <3> QED
        BY <1>4, <1>7, <2>1, <3>1
  <2>4. Precedes(N1, o, L1.blk[o].prev)
    <3>1. Precedes(N1, o, IF L.blk[o].prev = high THEN low ELSE L.blk[o].prev)
        BY <1>1, <1>6, <2>1
    <3> QED
        BY <1>4, <1>7, <2>1, <3>1
  <2>5. L1.blk[o].size > 0 /\ o + L1.blk[o].size <= m
    <3>1. CASE o # low
        BY <1>4, <2>1, <2>2, <3>1 DEF Node
    <3>2. CASE o = low
      <4>1. Node(L, N, m, high)
          BY DEF Chain
      <4>2. L1.blk[o].size = L.blk[low].size + L.blk[high].size
          BY <1>4, <2>1, <3>2
      <4>3. L.blk[high].size > 0 /\ high + L.blk[high].size <= m
          BY <4>1 DEF Node
      <4> QED
          BY <1>1, <3>2, <4>2, <4>3
    <3> QED
        BY <3>1, <3>2
  <2>6. L1.blk[o].magic
      BY <1>4, <2>1, <2>2 DEF Node
  <2> QED
      BY <2>3, <2>4, <2>5, <2>6 DEF Node
<1>10. ASSUME NEW o \in N1, NEW q \in N1, o < q
       PROVE  /\ o + L1.blk[o].size <= q
              /\ o \notin loose \ {low} /\ q \notin tight \ {high} => o + L1.blk[o].size < q
  <2>0. o \in Pages /\ q \in Pages /\ o \in Nat /\ q \in Nat /\ o \in N /\ q \in N
      BY <1>1
  <2>1. CASE o # low
    <3>1. L1.blk[o].size = L.blk[o].size
        BY <1>4, <2>0, <2>1
    <3> QED
        BY <1>10, <2>0, <2>1, <3>1 DEF Chain, Apart
  <2>2. CASE o = low
    <3>1. L1.blk[o].size = L.blk[low].size + L.blk[high].size
        BY <1>4, <2>0, <2>2
    <3>2. o + L1.blk[o].size = high + L.blk[high].size
        BY <1>1, <3>1, <2>2
    <3>3. high < q
      <4>1. Follows(N, low, high)
          BY <1>1
      <4>2. q <= low \/ high <= q
          BY <1>1, <2>0, <4>1 DEF Follows
      <4> QED
          BY <1>1, <1>10, <2>0, <2>2, <4>2
    <3>4. /\ high + L.blk[high].size <= q
          /\ q \notin tight => high + L.blk[high].size < q
        BY <2>0, <3>3 DEF Chain, Apart
    <3> QED
        BY <3>2, <3>4
  <2> QED
      BY <2>1, <2>2
<1>11. Covered(L1, N1) = Covered(L, N)
  <2>1. Run(low, L1.blk[low].size) = Run(low, L.blk[low].size) \cup Run(high, L.blk[high].size)
    <3>1. L1.blk[low].size = L.blk[low].size + L.blk[high].size
        BY <1>2, <1>4
    <3> QED
        BY <1>1, <3>1 DEF Run
  <2>2. \A o \in N1 \ {low} : L1.blk[o].size = L.blk[o].size
      BY <1>1, <1>4
  <2>3. low \in N1
      BY <1>2
  <2> QED
      BY <2>1, <2>2, <2>3 DEF Covered
<1>12. L1.count = Cardinality(N1) /\ N1 \in SUBSET Pages /\ m \in 0 .. TotalPages
    BY <1>1, <1>3, <1>4 DEF Chain
<1>13. Follows(N1, -1, L1.head)
    BY <1>1, <1>4, <1>6, <1>8
<1> QED
    BY <1>4, <1>9, <1>10, <1>11, <1>12, <1>13 DEF Chain, Apart, L1

\* store merges a block with its successor when they touch ...
LEMMA MergeNextChain ==
    ASSUME NEW L, NEW N, NEW m, NEW new \in N, Chain(L, N, m, {new}, {new})
    PROVE  \E N1 : /\ Chain(MergeNext(L, new), N1, m, {}, {new})
                   /\ new \in N1
                   /\ Covered(MergeNext(L, new), N1) = Covered(L, N)
<1> DEFINE next == L.blk[new].next
<1>1. /\ N \in SUBSET Nat /\ End \notin N
      /\ \A o \in N : o \in Nat /\ L.blk[o].size \in Nat /\ Follows(N, o, L.blk[o].next)
    BY ChainFacts
<1>2. CASE next # End /\ new + L.blk[new].size = next
  <2>1. Follows(N, new, next)
      BY <1>1
  <2>2. next \in N /\ next # new
      BY <1>1, <1>2, <2>1 DEF Follows
  <2>3. MergeNext(L, new) = Absorb(L, new, next)
      BY <1>2 DEF MergeNext
  <2>4. next \notin {new}
      BY <2>2
  <2>5. {new} \ {new} = {} /\ {new} \ {next} = {new}
      BY <2>2
  <2>6. /\ Chain(Absorb(L, new, next), N \ {next}, m, {new} \ {new}, {new} \ {next})
        /\ Covered(Absorb(L, new, next), N \ {next}) = Covered(L, N)
    <3> HIDE DEF next
    <3> DEFINE S == {new}
    <3>1. L.blk[new].next = next /\ Chain(L, N, m, S, S) /\ next \notin S
        BY <2>4 DEF next
    <3> HIDE DEF S
    <3>2. /\ Chain(Absorb(L, new, next), N \ {next}, m, S \ {new}, S \ {next})
          /\ Covered(Absorb(L, new, next), N \ {next}) = Covered(L, N)
        BY <1>2, <2>2, <3>1, AbsorbChain
    <3> QED
        BY <3>2 DEF S
  <2> QED
      BY <2>2, <2>3, <2>5, <2>6
<1>3. CASE ~(next # End /\ new + L.blk[new].size = next)
  <2>1. MergeNext(L, new) = L
      BY <1>3 DEF MergeNext
  <2>2. ASSUME NEW o \in N, NEW q \in N, o < q
        PROVE  /\ o + L.blk[o].size <= q
               /\ o \notin {} /\ q \notin {new} => o + L.blk[o].size < q
    <3>1. /\ o + L.blk[o].size <= q
          /\ o \notin {new} /\ q \notin {new} => o + L.blk[o].size < q
        BY <2>2 DEF Chain, Apart
    <3>2. CASE o = new
      <4>1. Follows(N, new, next)
          BY <1>1
      <4>2. next \in N /\ new < next /\ (q <= new \/ next <= q)
          BY <1>1, <2>2, <3>2, <4>1 DEF Follows
      <4>3. new + L.blk[new].size <= next
          BY <4>2 DEF Chain, Apart
      <4>4. new + L.blk[new].size # next
          BY <1>1, <1>3, <4>2
      <4>5. o \in Nat /\ q \in Nat /\ next \in Nat /\ L.blk[new].size \in Nat
          BY <1>1, <4>2
      <4> QED
          BY <2>2, <3>1, <3>2, <4>2, <4>3, <4>4, <4>5
    <3> QED
        BY <3>1, <3>2
  <2>3. Chain(L, N, m, {}, {new})
      BY <2>2 DEF Chain, Apart
  <2> QED
      BY <2>1, <2>3
<1> QED
    BY <1>2, <1>3

\* ... and then with its predecessor, after which no two blocks touch.
LEMMA MergePrevChain ==
    ASSUME NEW L, NEW N, NEW m, NEW new \in N, Chain(L, N, m, {}, {new})
    PROVE  \E N1 : /\ Chain(MergePrev(L, new), N1, m, {}, {})
                   /\ Covered(MergePrev(L, new), N1) = Covered(L, N)
<1> DEFINE prev == L.blk[new].prev
<1>1. /\ N \in SUBSET Nat /\ End \notin N
      /\ \A o \in N : /\ o \in Nat /\ L.blk[o].size \in Nat /\ Precedes(N, o, L.blk[o].prev)
                      /\ Follows(N, o, L.blk[o].next)
    BY ChainFacts
<1>2. Precedes(N, new, prev)
    BY <1>1
<1>3. CASE prev # End /\ prev + L.blk[prev].size = new
  <2>1. prev \in N /\ prev # new
      BY <1>1, <1>2, <1>3 DEF Precedes
  <2>2. MergePrev(L, new) = Absorb(L, prev, new)
      BY <1>3 DEF MergePrev
  <2>3. L.blk[prev].next = new
    <3>1. Follows(N, prev, new)
        BY <1>1, <1>2, <2>1, Neighbours
    <3>2. Follows(N, prev, L.blk[prev].next)
        BY <1>1, <2>1
    <3> HIDE DEF prev
    <3> QED
        BY <1>1, <2>1, <3>1, <3>2, Neighbours
  <2>4. /\ Chain(Absorb(L, prev, new), N \ {new}, m, {} \ {prev}, {new} \ {new})
        /\ Covered(Absorb(L, prev, new), N \ {new}) = Covered(L, N)
    <3> HIDE DEF prev
    <3>1. new \notin {}
        OBVIOUS
    <3> QED
        BY <1>3, <2>1, <2>3, <3>1, AbsorbChain
  <2>5. {} \ {prev} = {} /\ {new} \ {new} = {}
      OBVIOUS
  <2> QED
      BY <2>2, <2>4, <2>5
<1>4. CASE ~(prev # End /\ prev + L.blk[prev].size = new)
  <2>1. MergePrev(L, new) = L
      BY <1>4 DEF MergePrev
  <2>2. ASSUME NEW o \in N, NEW q \in N, o < q
        PROVE  /\ o + L.blk[o].size <= q
               /\ o \notin {} /\ q \notin {} => o + L.blk[o].size < q
    <3>1. /\ o + L.blk[o].size <= q
          /\ o \notin {} /\ q \notin {new} => o + L.blk[o].size < q
        BY <2>2 DEF Chain, Apart
    <3>2. CASE q = new
      <4>1. prev \in N /\ prev < new /\ (o <= prev \/ new <= o)
          BY <1>1, <1>2, <2>2, <3>2 DEF Precedes
      <4>2. prev + L.blk[prev].size # new
          BY <1>1, <1>4, <4>1
      <4>3. prev + L.blk[prev].size <= new
          BY <4>1 DEF Chain, Apart
      <4>4. o # prev => (o < prev => o + L.blk[o].size <= prev)
          BY <4>1 DEF Chain, Apart
      <4>5. o \in Nat /\ new \in Nat /\ prev \in Nat /\ L.blk[o].size \in Nat /\ L.blk[prev].size \in Nat
          BY <1>1, <4>1
      <4> QED
          BY <2>2, <3>1, <3>2, <4>1, <4>2, <4>3, <4>4, <4>5
    <3> QED
        BY <3>1, <3>2
  <2>3. Chain(L, N, m, {}, {})
      BY <2>2 DEF Chain, Apart
  <2> QED
      BY <2>1, <2>3
<1> QED
    BY <1>3, <1>4

-----------------------------------------------------------------------------
(***************************************************************************)
(* The free list: what retrieve finds, takes and puts back.                *)
(***************************************************************************)

\* The scan chooses a smallest of the nodes that are large enough, or none when none is.
LEMMA BestIsNode ==
    ASSUME NEW L, NEW N, NEW m, Chain(L, N, m, {}, {}), NEW need \in Nat
    PROVE  LET found == BestFit(L, need)
           IN  /\ found.list = L
               /\ found.best = End => \A o \in N : L.blk[o].size < need
               /\ found.best # End =>
                     /\ found.best \in N /\ L.blk[found.best].size >= need
                     /\ \A o \in N : L.blk[o].size >= need =>
                           L.blk[found.best].size <= L.blk[o].size
<1> DEFINE stops == {off \in Pages : L.blk[off].size = need}
           w == Walk(L, stops)
           fit == {off \in w.seen : L.blk[off].size >= need}
           Best(off) == \A o \in fit : Better(L, off, o)
           best == CHOOSE off \in fit : Best(off)
<1>1. /\ w.corrupt = FALSE /\ w.seen \subseteq N
      /\ \A o \in N : o \in w.seen \/ (w.at \in w.seen /\ L.blk[w.at].size = need)
  <2>1. /\ w.corrupt = FALSE
        /\ w.at \in (N \cap stops) \cup {End}
        /\ \A o : o \in w.seen <=> o \in N /\ (w.at = End \/ o <= w.at)
    <3> DEFINE S == {}
    <3>1. Chain(L, N, m, S, S)
        OBVIOUS
    <3> HIDE DEF stops, S, fit, best, Best
    <3> QED
        BY <3>1, WalkOfChain
  <2>2. N \in SUBSET Nat /\ End \notin N
      BY ChainFacts
  <2> HIDE DEF w, fit, best, Best
  <2>3. ASSUME w.at # End PROVE w.at \in w.seen /\ L.blk[w.at].size = need
    <3> DEFINE at == w.at
    <3>1. at \in N /\ at \in stops
        BY <2>1, <2>3
    <3>2. at \in Nat /\ L.blk[at].size = need
        BY <2>2, <3>1
    <3> HIDE DEF at
    <3>3. at <= at
        BY <3>2
    <3> QED
        BY <2>1, <3>1, <3>2, <3>3 DEF at
  <2> QED
      BY <2>1, <2>3
<1>2. BestFit(L, need) = IF L.count = 0 THEN [list |-> L, best |-> End]
                         ELSE [list |-> L, best |-> IF fit = {} THEN End ELSE best]
    BY <1>1 DEF BestFit
<1>3. N \in SUBSET Nat /\ End \notin N /\ \A o \in N : o \in Nat /\ L.blk[o].size \in Nat
    BY ChainFacts
<1>4. L.count = 0 => N = {}
    BY ChainFacts, FS_EmptySet
<1> HIDE DEF w
<1>5. ASSUME fit # {} PROVE best \in fit /\ Best(best)
  <2> DEFINE sizes == {L.blk[o].size : o \in fit}
  <2>1. sizes \in SUBSET Nat /\ sizes # {}
      BY <1>1, <1>3, <1>5
  <2>2. PICK s \in sizes : \A k \in sizes : s <= k
    <3> HIDE DEF sizes
    <3> QED
        BY <2>1, LeastNumber
  <2>3. \A o \in fit : s <= L.blk[o].size
      BY <2>2
  <2> DEFINE least == {o \in fit : L.blk[o].size = s}
  <2>4. least \in SUBSET Nat /\ least # {}
      BY <1>1, <1>3, <2>2
  <2>5. PICK b \in least : \A k \in least : b <= k
    <3> HIDE DEF least
    <3> QED
        BY <2>4, LeastNumber
  <2>6. ASSUME NEW o \in fit PROVE Better(L, b, o)
    <3>1. /\ L.blk[b].size = s /\ s <= L.blk[o].size /\ (L.blk[o].size = s => b <= o)
          /\ L.blk[o].size \in Nat /\ s \in Nat
        BY <1>1, <1>3, <2>1, <2>2, <2>3, <2>5
    <3> QED
        BY <3>1 DEF Better
  <2>7. b \in fit /\ Best(b)
      BY <2>6
  <2> HIDE DEF fit, Best
  <2> QED
      BY <2>7
<1>6. fit # {} => /\ best \in N /\ L.blk[best].size >= need
                  /\ \A o \in fit : L.blk[best].size <= L.blk[o].size
  <2>1. ASSUME fit # {}, NEW o \in fit PROVE L.blk[best].size <= L.blk[o].size
    <3>1. Better(L, best, o) /\ best \in fit
        BY <1>5, <2>1
    <3> HIDE DEF best
    <3>2. L.blk[best].size \in Nat /\ L.blk[o].size \in Nat
        BY <1>1, <1>3, <2>1, <3>1
    <3> QED
        BY <3>1, <3>2 DEF Better
  <2> QED
      BY <1>1, <1>5, <2>1
<1> HIDE DEF best
<1>7. ASSUME NEW o \in N, L.blk[o].size >= need
      PROVE  fit # {} /\ L.blk[best].size <= L.blk[o].size
  <2>1. CASE o \in w.seen
      BY <1>6, <1>7, <2>1
  <2>2. CASE o \notin w.seen
    <3>1. w.at \in w.seen /\ L.blk[w.at].size = need /\ w.at \in N
        BY <1>1, <2>2
    <3>2. w.at \in fit
        BY <3>1
    <3>3. best \in N /\ L.blk[best].size <= need
        BY <1>6, <3>1, <3>2
    <3> HIDE DEF fit
    <3> QED
        BY <1>3, <1>7, <3>2, <3>3
  <2> QED
      BY <2>1, <2>2
<1>8. \A o \in N : fit = {} => L.blk[o].size < need
  <2> HIDE DEF fit
  <2> QED
      BY <1>3, <1>7
<1> HIDE DEF fit
<1> QED
    BY <1>2, <1>3, <1>4, <1>6, <1>7, <1>8

\* The blocks in a list, in what order ever.
Nodes(L) == Walk(L, {}).seen

\* A list that nobody is changing, below page m.
Good(L, m) == Chain(L, Nodes(L), m, {}, {})

\* One with a new block that is not merged with its neighbours yet.
Linked(L, m, new) == new \in Nodes(L) /\ Chain(L, Nodes(L), m, {new}, {new})

\* The nodes of a chain are those that a walk to its end sees.
LEMMA NodesOfChain ==
    ASSUME NEW L, NEW N, NEW m, NEW low, NEW high, Chain(L, N, m, low, high)
    PROVE  /\ Nodes(L) = N
           /\ Walk(L, {}).corrupt = FALSE
           /\ FreePages(L) = Covered(L, N)
<1> DEFINE stops == {}
           w == Walk(L, stops)
<1>1. /\ w.corrupt = FALSE
      /\ w.at \in (N \cap stops) \cup {End}
      /\ \A o : o \in w.seen <=> o \in N /\ (w.at = End \/ o <= w.at)
  <2> HIDE DEF stops
  <2> QED
      BY WalkOfChain
<1>2. w.at = End
    BY <1>1
<1> HIDE DEF w
<1>3. w.seen = N
    BY <1>1, <1>2
<1>4. Nodes(L) = N
    BY <1>3 DEF w, Nodes
<1>5. FreePages(L) = Covered(L, N)
    BY <1>3 DEF w, FreePages, Covered
<1> QED
    BY <1>1, <1>4, <1>5 DEF w

\* A chain is a list in order.
LEMMA GoodChain ==
    ASSUME NEW L, NEW N, NEW m, Chain(L, N, m, {}, {})
    PROVE  Good(L, m) /\ FreePages(L) = Covered(L, N) /\ Nodes(L) = N
<1> DEFINE S == {}
<1>1. Chain(L, N, m, S, S)
    OBVIOUS
<1>2. Nodes(L) = N /\ FreePages(L) = Covered(L, N)
  <2> HIDE DEF S
  <2> QED
      BY <1>1, NodesOfChain
<1> QED
    BY <1>2 DEF Good

\* What a list in order gives the lemmas on chains.
LEMMA GoodFacts ==
    ASSUME NEW L, NEW m, Good(L, m)
    PROVE  /\ FreePages(L) = Covered(L, Nodes(L))
           /\ L \in Lists /\ Nodes(L) \in SUBSET Pages /\ Nodes(L) \in SUBSET Nat
           /\ End \notin Nodes(L) /\ m \in Nat /\ m <= TotalPages
           /\ L.count = Cardinality(Nodes(L)) /\ IsFiniteSet(Nodes(L))
           /\ Follows(Nodes(L), -1, L.head)
           /\ \A o \in Nodes(L) : /\ o \in Pages /\ o \in Nat
                                  /\ L.blk[o].magic = TRUE
                                  /\ L.blk[o].size \in Nat /\ L.blk[o].size > 0
                                  /\ o + L.blk[o].size <= m
                                  /\ Follows(Nodes(L), o, L.blk[o].next)
                                  /\ Precedes(Nodes(L), o, L.blk[o].prev)
                                  /\ L.blk[o].next \in Nodes(L) \cup {End}
                                  /\ L.blk[o].prev \in Nodes(L) \cup {End}
           /\ \A o, q \in Nodes(L) : o < q => o + L.blk[o].size < q
<1> DEFINE S == {}
           N == Nodes(L)
<1>1. Chain(L, N, m, S, S)
    BY DEF Good
<1>2. FreePages(L) = Covered(L, N)
    BY <1>1, GoodChain
<1>3. /\ L \in Lists /\ N \in SUBSET Pages /\ N \in SUBSET Nat /\ End \notin N
      /\ L.count = Cardinality(N) /\ IsFiniteSet(N)
      /\ Follows(N, -1, L.head)
      /\ \A o \in N : /\ o \in Pages /\ o \in Nat
                      /\ L.blk[o].size \in Nat /\ L.blk[o].magic \in BOOLEAN
                      /\ Follows(N, o, L.blk[o].next) /\ Precedes(N, o, L.blk[o].prev)
                      /\ L.blk[o].next \in N \cup {End} /\ L.blk[o].prev \in N \cup {End}
  <2> HIDE DEF S, N
  <2> QED
      BY <1>1, ChainFacts
<1>4. /\ m \in Nat /\ m <= TotalPages
      /\ \A o \in N : L.blk[o].magic /\ L.blk[o].size > 0 /\ o + L.blk[o].size <= m
      /\ \A o, q \in N : o < q => (o \notin S /\ q \notin S => o + L.blk[o].size < q)
    BY <1>1, GeometryAssumption DEF Chain, Node, Apart
<1> HIDE DEF N
<1>5. \A o, q \in N : o < q => o + L.blk[o].size < q
    BY <1>4
<1>6. \A o \in N : L.blk[o].magic = TRUE
    BY <1>3, <1>4
<1> QED
    BY <1>2, <1>3, <1>4, <1>5, <1>6 DEF N

-----------------------------------------------------------------------------

\* The list of an empty arena is in order.
LEMMA EmptyGood ==
    Good(EmptyList, 0) /\ FreePages(EmptyList) = {}
<1> DEFINE N == {}
<1>1. EmptyList \in Lists
    BY EndAssumption DEF EmptyList, Lists, Header, Ends, NoHeader
<1>2. Cardinality(N) = 0
    BY FS_EmptySet
<1>3. Chain(EmptyList, {}, 0, {}, {})
    BY <1>1, <1>2, GeometryAssumption DEF Chain, EmptyList, Follows, Node, Apart
<1>4. Covered(EmptyList, {}) = {}
    BY DEF Covered
<1> QED
    BY <1>3, <1>4, GoodChain

\* The free pages are below the bump offset.
LEMMA FreeBelow ==
    ASSUME NEW L, NEW m, Good(L, m)
    PROVE  \A p \in FreePages(L) : p \in Nat /\ p < m
<1>1. \A o \in Nodes(L) : o \in Nat /\ L.blk[o].size \in Nat /\ o + L.blk[o].size <= m
    BY GoodFacts
<1>2. m \in Nat /\ FreePages(L) = Covered(L, Nodes(L))
    BY GoodFacts, GeometryAssumption
<1> QED
    BY <1>1, <1>2 DEF Covered, Run

\* A list in order stays so when the bump offset grows.
LEMMA GoodGrows ==
    ASSUME NEW L, NEW m, Good(L, m), NEW m1 \in 0 .. TotalPages, m <= m1
    PROVE  Good(L, m1)
<1>1. m \in Nat /\ \A o \in Nodes(L) : o \in Nat /\ L.blk[o].size \in Nat
    BY GoodFacts, GeometryAssumption
<1>2. \A o \in Nodes(L) : o + L.blk[o].size <= m => o + L.blk[o].size <= m1
    BY <1>1, GeometryAssumption
<1> QED
    BY <1>2 DEF Good, Chain, Node

\* It is what the property says of it.
LEMMA GoodIsWellFormed ==
    ASSUME NEW L, NEW m, Good(L, m)
    PROVE  WellFormed(L, m)
<1> DEFINE N == Nodes(L)
<1>1. /\ N \in SUBSET Nat /\ End \notin N
      /\ L.count = Cardinality(N)
      /\ Follows(N, -1, L.head)
      /\ \A o \in N : /\ o \in Nat /\ o + L.blk[o].size <= m
                      /\ Follows(N, o, L.blk[o].next)
                      /\ L.blk[o].next \in N \cup {End}
                      /\ Precedes(N, o, L.blk[o].prev)
      /\ \A o, q \in N : o < q => o + L.blk[o].size < q
    BY GoodFacts
<1>2. Walk(L, {}).corrupt = FALSE
  <2> DEFINE S == {}
  <2>1. Chain(L, N, m, S, S)
      BY DEF Good
  <2> HIDE DEF S, N
  <2> QED
      BY <2>1, NodesOfChain
<1> HIDE DEF N
<1>3. ASSUME L.head # End PROVE L.blk[L.head].prev = End
  <2>1. L.head \in N /\ \A o \in N : L.head <= o
      BY <1>1, <1>3 DEF Follows
  <2>2. Precedes(N, L.head, L.blk[L.head].prev)
      BY <1>1, <2>1
  <2> DEFINE q == L.blk[L.head].prev
             h == L.head
  <2>3. h \in N /\ Precedes(N, h, q) /\ (\A o \in N : o \in Nat /\ h <= o)
      BY <1>1, <2>1, <2>2
  <2> HIDE DEF q, h
  <2>4. q = End
      BY <2>3 DEF Precedes
  <2> QED
      BY <2>4 DEF q
<1>4. ASSUME NEW o \in N, L.blk[o].next # End
      PROVE  o + L.blk[o].size < L.blk[o].next /\ L.blk[L.blk[o].next].prev = o
  <2> DEFINE q == L.blk[o].next
  <2>1. q \in N /\ o < q
      BY <1>1, <1>4 DEF Follows
  <2>2. Precedes(N, q, o) /\ Precedes(N, q, L.blk[q].prev)
      BY <1>1, <2>1, Neighbours
  <2>3. L.blk[q].prev = o
    <3> HIDE DEF q
    <3> QED
      BY <1>1, <2>1, <2>2, Neighbours
  <2> QED
      BY <1>1, <2>1, <2>3
<1> QED
    BY <1>1, <1>2, <1>3, <1>4 DEF WellFormed, N, Nodes

\* Redirect writes one link in each neighbour of the block, or the head.
LEMMA RedirectWrites ==
    ASSUME NEW L \in Lists, NEW off \in Pages, NEW fwd \in Ends, NEW back \in Ends
    PROVE  LET L1 == Redirect(L, off, fwd, back)
               h == L.blk[off]
           IN  /\ L1 \in Lists
               /\ L1.count = L.count
               /\ L1.head = IF h.prev = End THEN fwd ELSE L.head
               /\ \A q \in Pages :
                     /\ L1.blk[q].magic = L.blk[q].magic
                     /\ L1.blk[q].size = L.blk[q].size
                     /\ L1.blk[q].next = IF q = h.prev THEN fwd ELSE L.blk[q].next
                     /\ L1.blk[q].prev = IF q = h.next THEN back ELSE L.blk[q].prev
<1> DEFINE h == L.blk[off]
           c == IF h.prev = End THEN L.blk ELSE [L.blk EXCEPT ![h.prev].next = fwd]
           d == SetPrev(c, h.next, back)
           L1 == Redirect(L, off, fwd, back)
<1>1. /\ L.blk \in Blk /\ End \notin Pages /\ L.head \in Ends /\ L.count \in Nat
      /\ h.prev \in Ends /\ h.next \in Ends
    BY ListTypes
<1>2. /\ c \in Blk
      /\ \A q \in Pages : /\ c[q].magic = L.blk[q].magic
                          /\ c[q].size = L.blk[q].size
                          /\ c[q].prev = L.blk[q].prev
                          /\ c[q].next = IF q = h.prev THEN fwd ELSE L.blk[q].next
  <2>1. CASE h.prev = End
      BY <1>1, <2>1
  <2>2. CASE h.prev # End
    <3>1. h.prev \in Pages
        BY <1>1, <2>2 DEF Ends
    <3>2. WritesNext(L.blk, [L.blk EXCEPT ![h.prev].next = fwd], h.prev, fwd)
      <4> HIDE DEF h
      <4> QED
        BY <1>1, <3>1, NextWritten
    <3> QED
        BY <2>2, <3>2 DEF WritesNext
  <2> QED
      BY <2>1, <2>2
<1>3. WritesPrev(c, d, h.next, back)
  <2> HIDE DEF c, h
  <2> QED
    BY <1>1, <1>2, PrevWritten
<1>4. L1 = [L EXCEPT !.head = IF h.prev = End THEN fwd ELSE @, !.blk = d]
    BY DEF Redirect
<1> HIDE DEF c, d
<1>5. /\ L1.head = IF h.prev = End THEN fwd ELSE L.head
      /\ L1.count = L.count
      /\ L1.blk = d
      /\ L1 \in Lists
    BY <1>1, <1>3, <1>4 DEF Lists, WritesPrev, Blk
<1> QED
    BY <1>2, <1>3, <1>5 DEF WritesPrev

\* Two lists that agree in every field are one.
LEMMA SameList ==
    ASSUME NEW K \in Lists, NEW L \in Lists, K.head = L.head, K.count = L.count,
           \A q \in Pages : /\ K.blk[q].magic = L.blk[q].magic
                            /\ K.blk[q].size = L.blk[q].size
                            /\ K.blk[q].next = L.blk[q].next
                            /\ K.blk[q].prev = L.blk[q].prev
    PROVE  K = L
<1>1. \A q \in Pages : K.blk[q] = L.blk[q]
    BY DEF Lists, Header
<1>2. K.blk = L.blk
    BY <1>1 DEF Lists
<1> QED
    BY <1>2 DEF Lists

\* Take and PutBack write the count and the Magic field of one header.
Marked(L, count, p, v) == [L EXCEPT !.count = count, !.blk[p].magic = v]

\* Nothing else changes then.
LEMMA MagicWritten ==
    ASSUME NEW L \in Lists, NEW p \in Pages, NEW v \in BOOLEAN, NEW count \in Nat
    PROVE  LET L1 == Marked(L, count, p, v)
           IN  /\ L1 \in Lists /\ L1.head = L.head /\ L1.count = count
               /\ \A q \in Pages : /\ L1.blk[q].magic = IF q = p THEN v ELSE L.blk[q].magic
                                   /\ L1.blk[q].size = L.blk[q].size
                                   /\ L1.blk[q].next = L.blk[q].next
                                   /\ L1.blk[q].prev = L.blk[q].prev
<1> DEFINE b == L.blk
           h == [b[p] EXCEPT !.magic = v]
           c == [b EXCEPT ![p] = h]
           K == [L EXCEPT !.count = count]
           L1 == Marked(L, count, p, v)
<1>1. b \in [Pages -> Header] /\ b[p] \in Header
    BY DEF Lists
<1>2. /\ h \in Header /\ h.magic = v /\ h.size = b[p].size
      /\ h.next = b[p].next /\ h.prev = b[p].prev
    BY <1>1 DEF Header
<1>3. K \in Lists /\ K.blk = b /\ K.head = L.head /\ K.count = count
    BY DEF Lists
<1>4. L1 = [K EXCEPT !.blk = [K.blk EXCEPT ![p] = [K.blk[p] EXCEPT !.magic = v]]]
    BY DEF Marked
<1>5. L1 = [K EXCEPT !.blk = c]
    BY <1>3, <1>4
<1> HIDE DEF h
<1>6. c \in [Pages -> Header] /\ c[p] = h /\ \A q \in Pages : q # p => c[q] = b[q]
    BY <1>1, <1>2
<1> HIDE DEF c, K, b
<1>7. L1 \in Lists /\ L1.blk = c /\ L1.head = K.head /\ L1.count = K.count
  <2>1. [K EXCEPT !.blk = c] \in Lists
      BY <1>3, <1>6 DEF Lists
  <2>2. /\ [K EXCEPT !.blk = c].blk = c
        /\ [K EXCEPT !.blk = c].head = K.head /\ [K EXCEPT !.blk = c].count = K.count
      BY <1>3 DEF Lists
  <2> HIDE DEF L1
  <2> QED
      BY <1>5, <2>1, <2>2
<1> HIDE DEF L1
<1>8. ASSUME NEW q \in Pages
      PROVE  /\ L1.blk[q].magic = IF q = p THEN v ELSE L.blk[q].magic
             /\ L1.blk[q].size = L.blk[q].size
             /\ L1.blk[q].next = L.blk[q].next
             /\ L1.blk[q].prev = L.blk[q].prev
  <2>1. CASE q = p
      BY <1>2, <1>6, <1>7, <2>1 DEF b
  <2>2. CASE q # p
      BY <1>6, <1>7, <2>2 DEF b
  <2> QED
      BY <2>1, <2>2
<1> QED
    BY <1>3, <1>7, <1>8 DEF L1

\* A block that is taken whole leaves the list but keeps its own links.
LEMMA TakeWholeWrites ==
    ASSUME NEW L \in Lists, L.count > 0, NEW best \in Pages, NEW n, L.blk[best].size = n
    PROVE  LET L1 == Take(L, best, n)
               h == L.blk[best]
           IN  /\ L1 \in Lists
               /\ L1.count = L.count - 1
               /\ L1.head = IF h.prev = End THEN h.next ELSE L.head
               /\ \A q \in Pages :
                     /\ L1.blk[q].magic = (q # best /\ L.blk[q].magic)
                     /\ L1.blk[q].size = L.blk[q].size
                     /\ L1.blk[q].next = IF q = h.prev THEN h.next ELSE L.blk[q].next
                     /\ L1.blk[q].prev = IF q = h.next THEN h.prev ELSE L.blk[q].prev
<1> DEFINE h == L.blk[best]
           R == Redirect(L, best, h.next, h.prev)
           L1 == Take(L, best, n)
<1>1. h.next \in Ends /\ h.prev \in Ends /\ L.count \in Nat
    BY ListTypes
<1>2. /\ R \in Lists
      /\ R.count = L.count
      /\ R.head = IF h.prev = End THEN h.next ELSE L.head
      /\ \A q \in Pages :
            /\ R.blk[q].magic = L.blk[q].magic
            /\ R.blk[q].size = L.blk[q].size
            /\ R.blk[q].next = IF q = h.prev THEN h.next ELSE L.blk[q].next
            /\ R.blk[q].prev = IF q = h.next THEN h.prev ELSE L.blk[q].prev
    BY <1>1, RedirectWrites
<1>3. L1 = [R EXCEPT !.count = @ - 1, !.blk[best].magic = FALSE]
    BY DEF Take
<1> HIDE DEF R
<1>4. /\ L1 \in Lists /\ L1.head = R.head /\ L1.count = R.count - 1
      /\ \A q \in Pages : /\ L1.blk[q].magic = IF q = best THEN FALSE ELSE R.blk[q].magic
                          /\ L1.blk[q].size = R.blk[q].size
                          /\ L1.blk[q].next = R.blk[q].next
                          /\ L1.blk[q].prev = R.blk[q].prev
  <2> DEFINE cnt == R.count - 1
             no == FALSE
             L2 == Marked(R, cnt, best, no)
  <2>1. cnt \in Nat /\ no \in BOOLEAN
      BY <1>1, <1>2
  <2>2. L1 = L2
      BY <1>3 DEF Marked
  <2>3. /\ L2 \in Lists /\ L2.head = R.head /\ L2.count = cnt
        /\ \A q \in Pages : /\ L2.blk[q].magic = IF q = best THEN no ELSE R.blk[q].magic
                            /\ L2.blk[q].size = R.blk[q].size
                            /\ L2.blk[q].next = R.blk[q].next
                            /\ L2.blk[q].prev = R.blk[q].prev
    <3> HIDE DEF cnt, no
    <3> QED
        BY <1>2, <2>1, MagicWritten
  <2> HIDE DEF L2
  <2> QED
      BY <2>2, <2>3
<1>a. /\ L1 \in Lists /\ L1.head = R.head /\ L1.count = R.count - 1
      /\ \A q \in Pages : /\ L1.blk[q].size = R.blk[q].size
                          /\ L1.blk[q].next = R.blk[q].next
                          /\ L1.blk[q].prev = R.blk[q].prev
    BY <1>4
<1> HIDE DEF L1
<1>5. \A q \in Pages : R.blk[q].magic \in BOOLEAN /\ L.blk[q].magic \in BOOLEAN
    BY <1>2, ListTypes
<1>6. ASSUME NEW q \in Pages
      PROVE  L1.blk[q].magic = (q # best /\ L.blk[q].magic)
    BY <1>2, <1>4, <1>5
<1>7. /\ L1 \in Lists
      /\ L1.count = L.count - 1
      /\ L1.head = IF h.prev = End THEN h.next ELSE L.head
      /\ \A q \in Pages :
            /\ L1.blk[q].size = L.blk[q].size
            /\ L1.blk[q].next = IF q = h.prev THEN h.next ELSE L.blk[q].next
            /\ L1.blk[q].prev = IF q = h.next THEN h.prev ELSE L.blk[q].prev
  <2> HIDE DEF h
  <2> QED
      BY <1>2, <1>a
<1> HIDE DEF h
<1>8. /\ L1 \in Lists
      /\ L1.count = L.count - 1
      /\ L1.head = IF h.prev = End THEN h.next ELSE L.head
      /\ \A q \in Pages :
            /\ L1.blk[q].magic = (q # best /\ L.blk[q].magic)
            /\ L1.blk[q].size = L.blk[q].size
            /\ L1.blk[q].next = IF q = h.prev THEN h.next ELSE L.blk[q].next
            /\ L1.blk[q].prev = IF q = h.next THEN h.prev ELSE L.blk[q].prev
    BY <1>6, <1>7
<1> QED
    BY <1>8 DEF L1, h

\* The free pages, page by page.
LEMMA FreeIsCovered ==
    ASSUME NEW L, NEW m, Good(L, m)
    PROVE  \A p : p \in FreePages(L) <=>
                     \E o \in Nodes(L) : p \in Int /\ o <= p /\ p < o + L.blk[o].size
<1>1. /\ FreePages(L) = Covered(L, Nodes(L))
      /\ \A o \in Nodes(L) : o \in Nat /\ L.blk[o].size \in Nat
    BY GoodFacts
<1>2. \A o \in Nodes(L) : \A p : p \in Run(o, L.blk[o].size) <=>
                                    p \in Int /\ o <= p /\ p < o + L.blk[o].size
    BY <1>1 DEF Run
<1> QED
    BY <1>1, <1>2 DEF Covered

\* A list without one of its blocks.
LEMMA TakeWholeChain ==
    ASSUME NEW L, NEW m, Good(L, m), NEW best \in Nodes(L)
    PROVE  LET L1 == Take(L, best, L.blk[best].size)
           IN  Good(L1, m) /\ Nodes(L1) = Nodes(L) \ {best}
<1> DEFINE L1 == Take(L, best, L.blk[best].size)
           h == L.blk[best]
           N == Nodes(L)
           N1 == N \ {best}
<1>1. /\ L \in Lists /\ N \in SUBSET Pages /\ N \in SUBSET Nat /\ End \notin N /\ End \notin Pages
      /\ m \in Nat /\ m <= TotalPages
      /\ L.count = Cardinality(N) /\ IsFiniteSet(N)
      /\ Follows(N, -1, L.head)
      /\ \A o \in N : /\ o \in Pages /\ o \in Nat
                      /\ L.blk[o].magic = TRUE
                      /\ L.blk[o].size \in Nat /\ L.blk[o].size > 0
                      /\ o + L.blk[o].size <= m
                      /\ Follows(N, o, L.blk[o].next)
                      /\ Precedes(N, o, L.blk[o].prev)
                      /\ L.blk[o].next \in N \cup {End} /\ L.blk[o].prev \in N \cup {End}
      /\ \A o, q \in N : o < q => o + L.blk[o].size < q
    BY GoodFacts, ListTypes
<1>2. L.count > 0 /\ Cardinality(N1) = L.count - 1
  <2>1. Cardinality(N1) = Cardinality(N) - 1 /\ Cardinality(N) \in Nat /\ Cardinality(N1) \in Nat
      BY <1>1, FS_RemoveElement, FS_CardinalityType
  <2> QED
      BY <1>1, <2>1
<1>3. Follows(N, best, h.next) /\ Precedes(N, best, h.prev) /\ best \in Pages /\ best \in N
    BY <1>1
<1>4. /\ L1 \in Lists
      /\ L1.count = L.count - 1
      /\ L1.head = IF h.prev = End THEN h.next ELSE L.head
      /\ \A q \in Pages :
            /\ L1.blk[q].magic = (q # best /\ L.blk[q].magic)
            /\ L1.blk[q].size = L.blk[q].size
            /\ L1.blk[q].next = IF q = h.prev THEN h.next ELSE L.blk[q].next
            /\ L1.blk[q].prev = IF q = h.next THEN h.prev ELSE L.blk[q].prev
    BY <1>1, <1>2, <1>3, TakeWholeWrites
<1>5. /\ \A x, y : x \in N1 /\ Follows(N, x, y) =>
            Follows(N1, x, IF y = best THEN h.next ELSE y)
      /\ \A x, y : x \in N1 /\ Precedes(N, x, y) =>
            Precedes(N1, x, IF y = best THEN h.prev ELSE y)
      /\ \A y : Follows(N, -1, y) => Follows(N1, -1, IF y = best THEN h.next ELSE y)
  <2> HIDE DEF h, N
  <2> QED
      BY <1>1, <1>3, CutKeepsOrder
<1> HIDE DEF L1, h, N
<1>6. Follows(N1, -1, L1.head)
  <2>1. L.head = best <=> h.prev = End
    <3>1. ASSUME L.head = best PROVE h.prev = End
      <4>1. \A o \in N : best <= o
          BY <1>1, <3>1 DEF Follows
      <4>2. best \in Nat /\ \A o \in N : o \in Nat
          BY <1>1, <1>3
      <4>3. h.prev = End \/ (h.prev \in N /\ h.prev < best)
          BY <1>3 DEF Precedes
      <4> QED
          BY <4>1, <4>2, <4>3
    <3>2. ASSUME h.prev = End PROVE L.head = best
      <4>1. \A o \in N : best <= o
          BY <1>1, <1>3, <3>2 DEF Precedes
      <4>2. L.head \in N /\ L.head <= best
          BY <1>1, <1>3, <4>1 DEF Follows
      <4>3. best <= L.head /\ best \in Nat /\ L.head \in Nat
          BY <1>1, <1>3, <4>1, <4>2
      <4> QED
          BY <4>2, <4>3
    <3> QED
        BY <3>1, <3>2
  <2> QED
      BY <1>1, <1>4, <1>5, <2>1
<1>7. ASSUME NEW o \in N1 PROVE Node(L1, N1, m, o)
  <2>1. o \in Pages /\ o \in Nat /\ o # best /\ o \in N /\ best \in N
      BY <1>1 DEF N
  <2>2. L1.blk[o].magic /\ L1.blk[o].size > 0 /\ o + L1.blk[o].size <= m
      BY <1>1, <1>4, <2>1
  <2>3. o = h.prev <=> L.blk[o].next = best
      BY <1>1, <1>3, <2>1, Neighbours
  <2>4. o = h.next <=> L.blk[o].prev = best
      BY <1>1, <1>3, <2>1, Neighbours
  <2>5. Follows(N1, o, L1.blk[o].next)
      BY <1>1, <1>4, <1>5, <2>1, <2>3
  <2>6. Precedes(N1, o, L1.blk[o].prev)
      BY <1>1, <1>4, <1>5, <2>1, <2>4
  <2> QED
      BY <2>2, <2>5, <2>6 DEF Node
<1>8. ASSUME NEW o \in N1, NEW q \in N1, o < q
      PROVE  o + L1.blk[o].size < q
    BY <1>1, <1>4, <1>8
<1>9. Apart(L1, N1, {}, {})
  <2>1. \A o \in N1 : o \in Nat /\ L1.blk[o].size \in Nat
      BY <1>1, <1>4
  <2> QED
      BY <1>8, <2>1 DEF Apart
<1>10. Chain(L1, N1, m, {}, {})
  <2>1. N1 \in SUBSET Pages
      BY <1>1
  <2>2. L1 \in Lists /\ L1.count = Cardinality(N1)
      BY <1>2, <1>4
  <2>3. m \in 0 .. TotalPages
      BY <1>1, GeometryAssumption
  <2> HIDE DEF N1
  <2> QED
      BY <2>1, <2>2, <2>3, <1>6, <1>7, <1>9 DEF Chain
<1>11. Good(L1, m) /\ Nodes(L1) = N1
    BY <1>10, GoodChain
<1> QED
    BY <1>11 DEF L1, N

\* A list with a block whose tail is gone.
LEMMA TakeTailChain ==
    ASSUME NEW L, NEW m, Good(L, m), NEW best \in Nodes(L),
           NEW n \in Nat \ {0}, n < L.blk[best].size
    PROVE  LET L1 == Take(L, best, n)
           IN  /\ Good(L1, m) /\ Nodes(L1) = Nodes(L)
               /\ L1.head = L.head /\ L1.count = L.count
               /\ WritesSize(L.blk, L1.blk, best, L.blk[best].size - n)
<1> DEFINE L1 == Take(L, best, n)
           N == Nodes(L)
           rest == L.blk[best].size - n
           c == [L.blk EXCEPT ![best].size = rest]
<1>1. /\ L \in Lists /\ N \in SUBSET Pages /\ N \in SUBSET Nat /\ L.blk \in Blk
      /\ m \in Nat /\ m <= TotalPages
      /\ L.count = Cardinality(N)
      /\ Follows(N, -1, L.head)
      /\ \A o \in N : /\ o \in Pages /\ o \in Nat
                      /\ L.blk[o].magic = TRUE
                      /\ L.blk[o].size \in Nat /\ L.blk[o].size > 0
                      /\ o + L.blk[o].size <= m
                      /\ Follows(N, o, L.blk[o].next)
                      /\ Precedes(N, o, L.blk[o].prev)
      /\ \A o, q \in N : o < q => o + L.blk[o].size < q
    BY GoodFacts, ListTypes
<1>2. rest \in Nat /\ rest > 0 /\ best \in Pages /\ rest <= L.blk[best].size
    BY <1>1
<1>3. WritesSize(L.blk, c, best, rest)
  <2> HIDE DEF rest
  <2> QED
      BY <1>1, <1>2, SizeWritten
<1>4. L1 = [L EXCEPT !.blk = c]
  <2>1. L.blk[best].size # n
      BY <1>1
  <2> QED
      BY <2>1 DEF Take
<1> HIDE DEF c, rest, L1, N
<1>5. L1 \in Lists /\ L1.blk = c /\ L1.head = L.head /\ L1.count = L.count
    BY <1>1, <1>3, <1>4 DEF Lists, WritesSize, Blk
<1>6. \A o \in N : /\ Node(L1, N, m, o)
                   /\ L1.blk[o].size \in Nat /\ L1.blk[o].size <= L.blk[o].size
  <2> TAKE o \in N
  <2>1. /\ L1.blk[o].magic = L.blk[o].magic
        /\ L1.blk[o].size = IF o = best THEN rest ELSE L.blk[o].size
        /\ L1.blk[o].next = L.blk[o].next
        /\ L1.blk[o].prev = L.blk[o].prev
      BY <1>1, <1>3, <1>5 DEF WritesSize
  <2>2. L1.blk[o].size \in Nat /\ L1.blk[o].size <= L.blk[o].size /\ L1.blk[o].size > 0
      BY <1>1, <1>2, <2>1
  <2>3. o + L1.blk[o].size <= m
      BY <1>1, <2>2
  <2> QED
      BY <1>1, <2>1, <2>2, <2>3 DEF Node
<1>7. Apart(L1, N, {}, {})
  <2>1. ASSUME NEW o \in N, NEW q \in N, o < q
        PROVE  o + L1.blk[o].size < q /\ o + L1.blk[o].size <= q
      BY <1>1, <1>6, <2>1
  <2> QED
      BY <2>1 DEF Apart
<1>8. Chain(L1, N, m, {}, {})
    BY <1>1, <1>5, <1>6, <1>7, GeometryAssumption DEF Chain
<1>9. Good(L1, m) /\ Nodes(L1) = N
    BY <1>8, GoodChain
<1> QED
    BY <1>3, <1>5, <1>9 DEF L1, N, rest

\* What retrieve takes out of the list is free, and the rest stays in order.
LEMMA TakeChain ==
    ASSUME NEW L, NEW m, Good(L, m), NEW best \in Nodes(L),
           NEW n \in Nat \ {0}, n <= L.blk[best].size
    PROVE  LET L1 == Take(L, best, n)
               off == TakenAt(L, best, n)
           IN  /\ Good(L1, m)
               /\ off \in Pages /\ off + n <= m
               /\ Run(off, n) \subseteq FreePages(L)
               /\ FreePages(L1) = FreePages(L) \ Run(off, n)
<1> DEFINE L1 == Take(L, best, n)
           off == TakenAt(L, best, n)
           N == Nodes(L)
           size == L.blk[best].size
<1>1. /\ L \in Lists
      /\ m \in Nat /\ m <= TotalPages
      /\ \A o \in N : /\ o \in Pages /\ o \in Nat
                      /\ L.blk[o].size \in Nat /\ L.blk[o].size > 0
                      /\ o + L.blk[o].size <= m
      /\ \A o, q \in N : o < q => o + L.blk[o].size < q
    BY GoodFacts
<1>2. /\ best \in N /\ best \in Nat /\ size \in Nat /\ best + size <= m
      /\ off = best + size - n /\ off \in Nat /\ off + n = best + size
      /\ best <= off
    BY <1>1 DEF TakenAt
<1>3. off \in Pages
    BY <1>1, <1>2, GeometryAssumption DEF Pages
<1>4. \A p : p \in Run(off, n) <=> p \in Int /\ off <= p /\ p < best + size
    BY <1>2 DEF Run
<1>5. \A p : p \in FreePages(L) <=>
                \E o \in N : p \in Int /\ o <= p /\ p < o + L.blk[o].size
    BY FreeIsCovered
<1>6. /\ Good(L1, m)
      /\ \A o \in Nodes(L1) : o \in N
      /\ \A o \in N : o # best => o \in Nodes(L1) /\ L1.blk[o].size = L.blk[o].size
      /\ off = best => best \notin Nodes(L1)
      /\ off # best => best \in Nodes(L1) /\ L1.blk[best].size = size - n
  <2>1. CASE n = size
    <3>1. Good(L1, m) /\ Nodes(L1) = N \ {best}
      <4>1. L1 = Take(L, best, L.blk[best].size)
          BY <2>1
      <4> QED
          BY <4>1, TakeWholeChain
    <3>2. off = best
        BY <1>2, <2>1
    <3>3. L.count > 0
      <4>1. L.count = Cardinality(N) /\ IsFiniteSet(N)
          BY GoodFacts
      <4>2. Cardinality(N) \in Nat /\ Cardinality(N) # 0
          BY <1>2, <4>1, FS_CardinalityType, FS_EmptySet
      <4> QED
          BY <4>1, <4>2
    <3>4. \A q \in Pages : L1.blk[q].size = L.blk[q].size
      <4>1. best \in Pages /\ L.blk[best].size = n
          BY <1>1, <2>1
      <4> QED
          BY <1>1, <3>3, <4>1, TakeWholeWrites
    <3> HIDE DEF L1, N, off
    <3> QED
        BY <1>1, <3>1, <3>2, <3>4
  <2>2. CASE n # size
    <3>1. n < L.blk[best].size
        BY <1>2, <2>2
    <3>2. /\ Good(L1, m) /\ Nodes(L1) = N
          /\ WritesSize(L.blk, L1.blk, best, L.blk[best].size - n)
        BY <3>1, TakeTailChain
    <3>3. off # best
        BY <1>2, <3>1
    <3> HIDE DEF L1, N, off
    <3> QED
        BY <1>1, <1>2, <3>2, <3>3 DEF WritesSize, size
  <2> QED
      BY <2>1, <2>2
<1>7. \A p : p \in FreePages(L1) <=>
                \E o \in Nodes(L1) : p \in Int /\ o <= p /\ p < o + L1.blk[o].size
    BY <1>6, FreeIsCovered
<1> HIDE DEF L1, N, off, size
<1>8. ASSUME NEW p
      PROVE  /\ p \in Run(off, n) => p \in FreePages(L)
             /\ p \in FreePages(L1) <=> p \in FreePages(L) /\ p \notin Run(off, n)
  <2>1. p \in Run(off, n) => p \in FreePages(L)
    <3>1. p \in Run(off, n) => p \in Int /\ best <= p /\ p < best + size
        BY <1>2, <1>4
    <3> QED
        BY <1>2, <1>5, <3>1 DEF size
  <2>2. ASSUME p \in FreePages(L1)
        PROVE  p \in FreePages(L) /\ p \notin Run(off, n)
    <3>1. PICK o \in Nodes(L1) : p \in Int /\ o <= p /\ p < o + L1.blk[o].size
        BY <1>7, <2>2
    <3>2. CASE o = best
      <4>1. off # best /\ p < best + (size - n)
          BY <1>6, <3>1, <3>2
      <4>2. best <= p /\ p < off /\ p < best + size /\ p \in Int
          BY <1>2, <3>1, <3>2, <4>1
      <4>3. p \notin Run(off, n)
          BY <1>2, <1>4, <4>2
      <4> QED
          BY <1>2, <1>5, <4>2, <4>3 DEF size
    <3>3. CASE o # best
      <4>1. o \in N /\ L1.blk[o].size = L.blk[o].size
          BY <1>6, <3>3
      <4>2. p \in FreePages(L)
          BY <1>5, <3>1, <4>1
      <4>3. o < best \/ best < o
          BY <1>1, <1>2, <3>3, <4>1
      <4>4. o + L.blk[o].size < best \/ best + size < o
          BY <1>1, <1>2, <4>1, <4>3 DEF size
      <4>5. ~(off <= p /\ p < best + size)
          BY <1>1, <1>2, <3>1, <4>1, <4>4
      <4> QED
          BY <1>4, <4>2, <4>5
    <3> QED
        BY <3>2, <3>3
  <2>3. ASSUME p \in FreePages(L), p \notin Run(off, n)
        PROVE  p \in FreePages(L1)
    <3>1. PICK o \in N : p \in Int /\ o <= p /\ p < o + L.blk[o].size
        BY <1>5, <2>3
    <3>2. CASE o = best
      <4>1. p < off /\ best <= p
          BY <1>2, <1>4, <2>3, <3>1, <3>2 DEF size
      <4>2. off # best /\ p < best + (size - n)
          BY <1>2, <3>1, <4>1
      <4> QED
          BY <1>6, <1>7, <3>1, <4>1, <4>2
    <3>3. CASE o # best
        BY <1>6, <1>7, <3>1, <3>3
    <3> QED
        BY <3>2, <3>3
  <2> QED
      BY <2>1, <2>2, <2>3
<1>9. /\ Run(off, n) \subseteq FreePages(L)
      /\ FreePages(L1) = FreePages(L) \ Run(off, n)
  <2>1. \A p : p \in FreePages(L1) <=> p \in FreePages(L) /\ p \notin Run(off, n)
      BY <1>8
  <2> QED
      BY <1>8, <2>1
<1> QED
    BY <1>2, <1>3, <1>6, <1>9 DEF L1, off

\* The rollback of a retrieve restores the list.
LEMMA PutBackTake ==
    ASSUME NEW L, NEW m, Good(L, m), NEW best \in Nodes(L),
           NEW n \in Nat \ {0}, n <= L.blk[best].size
    PROVE  PutBack(Take(L, best, n), best, TakenAt(L, best, n), n) = L
<1> DEFINE L1 == Take(L, best, n)
           off == TakenAt(L, best, n)
           N == Nodes(L)
           h == L.blk[best]
<1>1. /\ L \in Lists /\ L.blk \in Blk /\ L.head \in Ends /\ L.count \in Nat
      /\ N \in SUBSET Nat /\ End \notin N /\ best \in N /\ End \notin Pages
      /\ L.count = Cardinality(N) /\ IsFiniteSet(N)
      /\ Follows(N, -1, L.head)
      /\ \A o \in N : /\ o \in Pages /\ o \in Nat
                      /\ L.blk[o].magic = TRUE
                      /\ L.blk[o].size \in Nat /\ L.blk[o].size > 0
                      /\ Follows(N, o, L.blk[o].next)
                      /\ Precedes(N, o, L.blk[o].prev)
                      /\ L.blk[o].next \in N \cup {End} /\ L.blk[o].prev \in N \cup {End}
    BY GoodFacts, ListTypes
<1>2. off = best + h.size - n
    BY DEF TakenAt
<1>3. CASE n = h.size
  <2>1. off = best
      BY <1>1, <1>2, <1>3
  <2>2. L.count > 0
    <3>1. Cardinality(N) \in Nat /\ Cardinality(N) # 0
        BY <1>1, FS_CardinalityType, FS_EmptySet
    <3> QED
        BY <1>1, <3>1
  <2>3. /\ L1 \in Lists
        /\ L1.count = L.count - 1
        /\ L1.head = IF h.prev = End THEN h.next ELSE L.head
        /\ \A q \in Pages :
              /\ L1.blk[q].magic = (q # best /\ L.blk[q].magic)
              /\ L1.blk[q].size = L.blk[q].size
              /\ L1.blk[q].next = IF q = h.prev THEN h.next ELSE L.blk[q].next
              /\ L1.blk[q].prev = IF q = h.next THEN h.prev ELSE L.blk[q].prev
    <3>1. best \in Pages /\ L.blk[best].size = n
        BY <1>1, <1>3
    <3> QED
        BY <1>1, <2>2, <3>1, TakeWholeWrites
  <2>4. h.prev # best /\ h.next # best /\ best \in Pages /\ best \in Ends
    <3>1. Follows(N, best, h.next) /\ Precedes(N, best, h.prev) /\ best \in Nat
        BY <1>1
    <3> QED
        BY <1>1, <3>1 DEF Follows, Precedes, Ends
  <2> DEFINE g == L1.blk[best]
             R == Redirect(L1, best, best, best)
  <2>5. g.prev = h.prev /\ g.next = h.next
      BY <2>3, <2>4
  <2>6. /\ R \in Lists
        /\ R.count = L1.count
        /\ R.head = IF g.prev = End THEN best ELSE L1.head
        /\ \A q \in Pages :
              /\ R.blk[q].magic = L1.blk[q].magic
              /\ R.blk[q].size = L1.blk[q].size
              /\ R.blk[q].next = IF q = g.prev THEN best ELSE L1.blk[q].next
              /\ R.blk[q].prev = IF q = g.next THEN best ELSE L1.blk[q].prev
    <3> HIDE DEF L1
    <3> QED
        BY <2>3, <2>4, RedirectWrites
  <2> DEFINE cnt == R.count + 1
             yes == TRUE
             K == Marked(R, cnt, best, yes)
  <2>7. PutBack(L1, best, off, n) = K
      BY <2>1 DEF PutBack, Marked
  <2>8. cnt = L.count /\ cnt \in Nat /\ yes \in BOOLEAN
      BY <1>1, <2>3, <2>6
  <2> HIDE DEF R, L1, cnt, yes, g
  <2>9. /\ K \in Lists /\ K.head = R.head /\ K.count = cnt
        /\ \A q \in Pages : /\ K.blk[q].magic = IF q = best THEN yes ELSE R.blk[q].magic
                            /\ K.blk[q].size = R.blk[q].size
                            /\ K.blk[q].next = R.blk[q].next
                            /\ K.blk[q].prev = R.blk[q].prev
      BY <2>4, <2>6, <2>8, MagicWritten
  <2> HIDE DEF K
  <2>10. K.head = L.head
    <3>1. ASSUME h.prev = End PROVE L.head = best
      <4>1. \A o \in N : best <= o
          BY <1>1, <3>1 DEF Precedes
      <4>2. L.head \in N /\ L.head <= best
          BY <1>1, <4>1 DEF Follows
      <4>3. best <= L.head /\ best \in Nat /\ L.head \in Nat
          BY <1>1, <4>1, <4>2
      <4> QED
          BY <4>2, <4>3
    <3> HIDE DEF h
    <3> QED
        BY <2>3, <2>5, <2>6, <2>9, <3>1
  <2>11. ASSUME NEW q \in Pages, q = h.prev PROVE L.blk[q].next = best
    <3>1. q \in N /\ Precedes(N, best, q)
        BY <1>1, <2>11
    <3>2. Follows(N, q, best)
      <4> HIDE DEF N
      <4> QED
          BY <1>1, <3>1, Neighbours
    <3>3. Follows(N, q, L.blk[q].next)
        BY <1>1, <3>1
    <3> HIDE DEF N
    <3> QED
        BY <1>1, <3>1, <3>2, <3>3, Neighbours
  <2>12. ASSUME NEW q \in Pages, q = h.next PROVE L.blk[q].prev = best
    <3>1. q \in N /\ Follows(N, best, q)
        BY <1>1, <2>12
    <3>2. Precedes(N, q, best)
      <4> HIDE DEF N
      <4> QED
          BY <1>1, <3>1, Neighbours
    <3>3. Precedes(N, q, L.blk[q].prev)
        BY <1>1, <3>1
    <3> HIDE DEF N
    <3> QED
        BY <1>1, <3>1, <3>2, <3>3, Neighbours
  <2>a. L.blk[best].magic = yes
      BY <1>1 DEF yes
  <2> HIDE DEF h
  <2>13. ASSUME NEW q \in Pages
         PROVE  K.blk[q].next = L.blk[q].next /\ K.blk[q].prev = L.blk[q].prev
    <3>1. K.blk[q].next = L.blk[q].next
        BY <2>3, <2>5, <2>6, <2>9, <2>11
    <3>2. K.blk[q].prev = L.blk[q].prev
        BY <2>3, <2>5, <2>6, <2>9, <2>12
    <3> QED
        BY <3>1, <3>2
  <2>14. ASSUME NEW q \in Pages
         PROVE  K.blk[q].magic = L.blk[q].magic /\ K.blk[q].size = L.blk[q].size
    <3>1. CASE q = best
      <4>1. K.blk[q].magic = yes
          BY <2>9, <3>1
      <4>2. K.blk[q].size = L.blk[q].size
          BY <2>3, <2>6, <2>9
      <4> QED
          BY <2>a, <3>1, <4>1, <4>2
    <3>2. CASE q # best
      <4>1. L.blk[q].magic \in BOOLEAN
          BY <1>1 DEF Blk, Header
      <4>2. L1.blk[q].magic = L.blk[q].magic
          BY <2>3, <3>2, <4>1
      <4> QED
          BY <2>3, <2>6, <2>9, <3>2, <4>2
    <3> QED
        BY <3>1, <3>2
  <2>15. K = L
      BY <1>1, <2>8, <2>9, <2>10, <2>13, <2>14, SameList
  <2> QED
      BY <2>7, <2>15 DEF L1
<1>4. CASE n # h.size
  <2>1. n < h.size /\ off # best
      BY <1>1, <1>2, <1>4
  <2>2. /\ L1.head = L.head /\ L1.count = L.count /\ L1 \in Lists
        /\ WritesSize(L.blk, L1.blk, best, L.blk[best].size - n)
    <3>1. Good(L1, m)
        BY <2>1, TakeTailChain
    <3>2. L1 \in Lists
      <4> HIDE DEF L1
      <4> QED
          BY <3>1, GoodFacts
    <3> QED
        BY <2>1, <3>2, TakeTailChain
  <2> DEFINE v == L1.blk[best].size + n
             c == [L1.blk EXCEPT ![best].size = v]
             K == PutBack(L1, best, off, n)
  <2>3. K = [L1 EXCEPT !.blk = c]
      BY <2>1 DEF PutBack
  <2>4. v = L.blk[best].size /\ v \in Nat /\ best \in Pages
      BY <1>1, <2>2 DEF WritesSize
  <2> HIDE DEF L1
  <2>5. WritesSize(L1.blk, c, best, v)
    <3>1. L1.blk \in Blk
        BY <2>2, ListTypes
    <3> HIDE DEF v
    <3> QED
        BY <2>4, <3>1, SizeWritten
  <2> HIDE DEF c, v, K
  <2>6. K \in Lists /\ K.blk = c /\ K.head = L1.head /\ K.count = L1.count
      BY <2>2, <2>3, <2>5 DEF Lists, WritesSize, Blk
  <2>7. ASSUME NEW q \in Pages
        PROVE  /\ K.blk[q].magic = L.blk[q].magic
               /\ K.blk[q].size = L.blk[q].size
               /\ K.blk[q].next = L.blk[q].next
               /\ K.blk[q].prev = L.blk[q].prev
      BY <2>2, <2>4, <2>5, <2>6 DEF WritesSize
  <2>8. K = L
      BY <1>1, <2>2, <2>6, <2>7, SameList
  <2> QED
      BY <2>8 DEF K, L1
<1> QED
    BY <1>3, <1>4

\* prev and next are the neighbours of a block that is to be linked at page new.
Placed(L, new, prev, next) ==
    Follows(Nodes(L), new, next) /\ Precedes(Nodes(L), new, prev)

\* What a client writes into its block does not reach the list.
LEMMA OverwriteGood ==
    ASSUME NEW L, NEW m, Good(L, m), NEW off \in Nat, NEW n \in Nat,
           Run(off, n) \cap FreePages(L) = {}
    PROVE  LET L1 == Overwrite(L, off, n)
           IN  Good(L1, m) /\ FreePages(L1) = FreePages(L)
<1> DEFINE L1 == Overwrite(L, off, n)
           N == Nodes(L)
           c == [p \in Pages |-> IF p \in Run(off, n) THEN NoHeader ELSE L.blk[p]]
<1>1. /\ L \in Lists /\ L.blk \in Blk /\ L.head \in Ends /\ L.count \in Nat
      /\ N \in SUBSET Pages
      /\ m \in Nat /\ m <= TotalPages
      /\ L.count = Cardinality(N)
      /\ Follows(N, -1, L.head)
      /\ \A o \in N : /\ o \in Pages /\ o \in Nat
                      /\ L.blk[o].magic = TRUE
                      /\ L.blk[o].size \in Nat /\ L.blk[o].size > 0
                      /\ o + L.blk[o].size <= m
                      /\ Follows(N, o, L.blk[o].next)
                      /\ Precedes(N, o, L.blk[o].prev)
      /\ \A o, q \in N : o < q => o + L.blk[o].size < q
    BY GoodFacts, ListTypes
<1>2. \A o \in N : o \in FreePages(L)
    BY <1>1, FreeIsCovered
<1>3. L1 = [L EXCEPT !.blk = c]
    BY DEF Overwrite
<1>4. c \in Blk
    BY <1>1, EndAssumption DEF Blk, Header, NoHeader, Ends
<1>5. \A o \in N : c[o] = L.blk[o]
    BY <1>1, <1>2
<1> HIDE DEF c, N, L1
<1>6. L1 \in Lists /\ L1.blk = c /\ L1.head = L.head /\ L1.count = L.count
    BY <1>1, <1>3, <1>4 DEF Lists, Blk
<1>7. \A o \in N : L1.blk[o] = L.blk[o]
    BY <1>5, <1>6
<1>8. \A o \in N : Node(L1, N, m, o)
    BY <1>1, <1>7 DEF Node
<1>9. Apart(L1, N, {}, {})
  <2>1. ASSUME NEW o \in N, NEW q \in N, o < q
        PROVE  o + L1.blk[o].size < q /\ o + L1.blk[o].size <= q
      BY <1>1, <1>7, <2>1
  <2> QED
      BY <2>1 DEF Apart
<1>10. Chain(L1, N, m, {}, {})
    BY <1>1, <1>6, <1>8, <1>9, GeometryAssumption DEF Chain
<1>11. Good(L1, m) /\ FreePages(L1) = Covered(L1, N)
    BY <1>10, GoodChain
<1>12. Covered(L1, N) = Covered(L, N)
    BY <1>7 DEF Covered
<1>13. FreePages(L) = Covered(L, N)
    BY GoodFacts DEF N
<1> QED
    BY <1>11, <1>12, <1>13 DEF L1

\* The scan of a list in order leaves it alone and finds a large enough block or none.
LEMMA BestInList ==
    ASSUME NEW L, NEW m, Good(L, m), NEW need \in Nat
    PROVE  LET found == BestFit(L, need)
           IN  /\ found.list = L
               /\ found.best = End => \A o \in Nodes(L) : L.blk[o].size < need
               /\ found.best # End =>
                     /\ found.best \in Nodes(L) /\ L.blk[found.best].size >= need
                     /\ \A o \in Nodes(L) : L.blk[o].size >= need =>
                           L.blk[found.best].size <= L.blk[o].size
<1>1. Chain(L, Nodes(L), m, {}, {})
    BY DEF Good
<1> QED
    BY <1>1, BestIsNode

\* The neighbours that store finds for a block that is not free.
LEMMA PlaceInList ==
    ASSUME NEW L, NEW m, Good(L, m), NEW new \in Pages, new \notin FreePages(L)
    PROVE  LET place == FindPlace(L, new)
           IN  /\ place.list = L
               /\ Placed(L, new, place.prev, place.next)
               /\ place.prev \in Ends /\ place.next \in Ends
<1> DEFINE S == {}
           N == Nodes(L)
           place == FindPlace(L, new)
<1>1. Chain(L, N, m, S, S)
    BY DEF Good
<1>2. new \in Pages \ N
  <2>1. \A o \in N : o \in Nat /\ L.blk[o].size \in Nat /\ L.blk[o].size > 0
      BY GoodFacts
  <2> QED
      BY <2>1, FreeIsCovered
<1>3. /\ place.list = L
      /\ Follows(N, new, place.next)
      /\ Precedes(N, new, place.prev)
  <2> HIDE DEF S, N
  <2> QED
      BY <1>1, <1>2, PlaceFound
<1>4. place.prev \in Ends /\ place.next \in Ends
  <2>1. \A o \in N : o \in Pages
      BY GoodFacts
  <2> HIDE DEF place, N
  <2> QED
      BY <1>3, <2>1 DEF Follows, Precedes, Ends
<1> QED
    BY <1>3, <1>4 DEF Placed

\* Linking a block there.
LEMMA LinkInList ==
    ASSUME NEW L, NEW m, Good(L, m),
           NEW new \in Pages, NEW n \in Nat \ {0}, new + n <= m,
           Run(new, n) \cap FreePages(L) = {},
           NEW prev, NEW next, Placed(L, new, prev, next)
    PROVE  LET L1 == Link(L, new, n, prev, next)
           IN  /\ Linked(L1, m, new)
               /\ FreePages(L1) = FreePages(L) \cup Run(new, n)
<1> DEFINE N == Nodes(L)
           L1 == Link(L, new, n, prev, next)
           N1 == N \cup {new}
<1>1. /\ \A o \in N : /\ o \in Nat /\ L.blk[o].size \in Nat /\ L.blk[o].size > 0
      /\ new \in Nat
  <2>1. new \in Nat
      BY GeometryAssumption DEF Pages
  <2> QED
      BY <2>1, GoodFacts
<1>2. \A p : p \in FreePages(L) <=>
                \E o \in N : p \in Int /\ o <= p /\ p < o + L.blk[o].size
    BY FreeIsCovered
<1>3. \A p : p \in Run(new, n) <=> p \in Int /\ new <= p /\ p < new + n
    BY <1>1 DEF Run
<1>4. new \in Pages \ N
  <2>1. new \in Run(new, n)
      BY <1>1, <1>3
  <2>2. \A o \in N : o \in FreePages(L)
      BY <1>1, <1>2
  <2> QED
      BY <2>1, <2>2
<1>5. Clear(L, N, new, n)
  <2>1. ASSUME NEW o \in N, ~(o + L.blk[o].size <= new), ~(new + n <= o)
        PROVE  FALSE
    <3>1. CASE new <= o
      <4>1. o \in FreePages(L) /\ o \in Run(new, n)
          BY <1>1, <1>2, <1>3, <2>1, <3>1
      <4> QED
          BY <4>1
    <3>2. CASE o < new
      <4>1. new \in FreePages(L) /\ new \in Run(new, n)
          BY <1>1, <1>2, <1>3, <2>1, <3>2
      <4> QED
          BY <4>1
    <3> QED
        BY <1>1, <3>1, <3>2
  <2> QED
      BY <2>1 DEF Clear
<1>6. Chain(L, N, m, {}, {})
    BY DEF Good
<1>7. Follows(N, new, next) /\ Precedes(N, new, prev)
    BY DEF Placed
<1> HIDE DEF N
<1>8. /\ Chain(L1, N1, m, {new}, {new})
      /\ Covered(L1, N1) = Covered(L, N) \cup Run(new, n)
    BY <1>4, <1>5, <1>6, <1>7, LinkChain
<1>9. Nodes(L1) = N1 /\ FreePages(L1) = Covered(L1, N1)
  <2> DEFINE S == {new}
  <2>1. Chain(L1, N1, m, S, S)
      BY <1>8
  <2> HIDE DEF S, L1, N1
  <2> QED
      BY <2>1, NodesOfChain
<1>10. FreePages(L) = Covered(L, N)
    BY GoodFacts DEF N
<1>11. new \in N1
    OBVIOUS
<1> HIDE DEF L1, N1
<1>12. Linked(L1, m, new) /\ FreePages(L1) = FreePages(L) \cup Run(new, n)
    BY <1>8, <1>9, <1>10, <1>11 DEF Linked
<1> QED
    BY <1>12 DEF L1

\* Merging it with its neighbours.
LEMMA MergeInList ==
    ASSUME NEW L, NEW m, NEW new, Linked(L, m, new)
    PROVE  LET L1 == MergePrev(MergeNext(L, new), new)
           IN  Good(L1, m) /\ FreePages(L1) = FreePages(L)
<1> DEFINE N == Nodes(L)
           K == MergeNext(L, new)
           L1 == MergePrev(K, new)
<1>1. new \in N /\ Chain(L, N, m, {new}, {new})
    BY DEF Linked
<1>2. FreePages(L) = Covered(L, N)
  <2> DEFINE S == {new}
  <2>1. Chain(L, N, m, S, S)
      BY <1>1
  <2> HIDE DEF S, N
  <2> QED
      BY <2>1, NodesOfChain
<1> HIDE DEF N
<1>3. PICK N1 : /\ Chain(K, N1, m, {}, {new})
                /\ new \in N1
                /\ Covered(K, N1) = Covered(L, N)
    BY <1>1, MergeNextChain
<1> HIDE DEF K
<1>4. PICK N2 : /\ Chain(L1, N2, m, {}, {})
                /\ Covered(L1, N2) = Covered(K, N1)
    BY <1>3, MergePrevChain
<1> HIDE DEF L1
<1>5. Good(L1, m) /\ FreePages(L1) = Covered(L1, N2)
    BY <1>4, GoodChain
<1>6. Good(L1, m) /\ FreePages(L1) = FreePages(L)
    BY <1>2, <1>3, <1>4, <1>5
<1> QED
    BY <1>6 DEF L1, K

-----------------------------------------------------------------------------
(***************************************************************************)
(* Who has which pages, for constant claims, free pages and bump offsets.  *)
(***************************************************************************)

\* Two blocks have a page in common.
Clash(b, c) == b.arena = c.arena /\ \E p \in PagesOf(b) : p \in PagesOf(c)

\* Every page below the bump offsets m is free, as F says, or in one claim of C.
Ledger(C, F, m) ==
    /\ \A c \in C : c.block \in Blocks
    /\ \A c, d \in C : Clash(c.block, d.block) => c = d
    /\ \A c \in C : \A p \in PagesOf(c.block) :
          p \notin F[c.block.arena] /\ p < m[c.block.arena]
    /\ \A a \in Arenas :
          /\ m[a] \in Nat
          /\ \A p \in F[a] : p \in Nat /\ p < m[a]
          /\ \A p \in Nat : p < m[a] =>
                p \in F[a] \/ \E c \in C : c.block.arena = a /\ p \in PagesOf(c.block)

\* The log entries balance to one for the pages of the claims in G and to none elsewhere.
Balanced(G, bal) ==
    \A a \in Arenas, p \in Pages :
        bal[a][p] = IF \E c \in G : c.block.arena = a /\ p \in PagesOf(c.block) THEN 1 ELSE 0

\* A block's pages.
LEMMA BlockPages ==
    ASSUME NEW b \in Blocks
    PROVE  /\ b.arena \in Arenas /\ b.off \in Nat /\ b.off \in Pages /\ b.n \in Nat /\ b.n > 0
           /\ PagesOf(b) = Run(b.off, b.n)
           /\ \A p : p \in PagesOf(b) <=> p \in Nat /\ b.off <= p /\ p < b.off + b.n
           /\ b.off \in PagesOf(b)
<1>1. b.arena \in Arenas /\ b.off \in Nat /\ b.off \in Pages /\ b.n \in Nat /\ b.n > 0
    BY GeometryAssumption DEF Blocks, Pages
<1> QED
    BY <1>1 DEF PagesOf, Run

\* A block changes hands.
LEMMA LedgerMove ==
    ASSUME NEW C, NEW F, NEW m, Ledger(C, F, m), NEW c \in C, NEW d, d.block = c.block
    PROVE  Ledger((C \ {c}) \cup {d}, F, m)
<1> DEFINE D == (C \ {c}) \cup {d}
<1>1. \A x \in D : x = d \/ (x \in C /\ x # c)
    OBVIOUS
<1>2. \A x \in D : x.block \in Blocks
    BY <1>1 DEF Ledger
<1>3. \A x, y \in D : Clash(x.block, y.block) => x = y
  <2>1. ASSUME NEW x \in D, NEW y \in D, Clash(x.block, y.block) PROVE x = y
    <3>1. CASE x = d /\ y # d
      <4>1. Clash(c.block, y.block) /\ y \in C /\ y # c
          BY <1>1, <2>1, <3>1
      <4> QED
          BY <4>1 DEF Ledger
    <3>2. CASE x # d /\ y = d
      <4>1. Clash(x.block, c.block) /\ x \in C /\ x # c
          BY <1>1, <2>1, <3>2
      <4> QED
          BY <4>1 DEF Ledger
    <3>3. CASE x # d /\ y # d
      <4>1. x \in C /\ y \in C
          BY <1>1, <3>3
      <4> QED
          BY <2>1, <4>1 DEF Ledger
    <3> QED
        BY <3>1, <3>2, <3>3
  <2> QED
      BY <2>1
<1>4. \A x \in D : \A p \in PagesOf(x.block) :
          p \notin F[x.block.arena] /\ p < m[x.block.arena]
    BY <1>1 DEF Ledger
<1>5. ASSUME NEW a \in Arenas
      PROVE  /\ m[a] \in Nat
             /\ \A p \in F[a] : p \in Nat /\ p < m[a]
             /\ \A p \in Nat : p < m[a] =>
                   p \in F[a] \/ \E x \in D : x.block.arena = a /\ p \in PagesOf(x.block)
  <2>1. \A x \in C : \E y \in D : y.block = x.block
      OBVIOUS
  <2> HIDE DEF D
  <2> QED
      BY <2>1 DEF Ledger
<1> HIDE DEF D
<1>6. Ledger(D, F, m)
    BY <1>2, <1>3, <1>4, <1>5 DEF Ledger
<1> QED
    BY <1>6 DEF D

\* A block comes out of the free pages.
LEMMA LedgerTake ==
    ASSUME NEW C, NEW F, NEW m, Ledger(C, F, m), NEW d, d.block \in Blocks,
           PagesOf(d.block) \subseteq F[d.block.arena],
           NEW F1, F1[d.block.arena] = F[d.block.arena] \ PagesOf(d.block),
           \A a \in Arenas : a # d.block.arena => F1[a] = F[a]
    PROVE  Ledger(C \cup {d}, F1, m)
<1> DEFINE D == C \cup {d}
           b == d.block
<1>1. \A x \in D : x = d \/ x \in C
    OBVIOUS
<1>2. \A x \in D : x.block \in Blocks
    BY <1>1 DEF Ledger
<1>3. \A x \in C : ~Clash(x.block, b) /\ ~Clash(b, x.block)
    BY DEF Ledger, Clash
<1>4. \A x, y \in D : Clash(x.block, y.block) => x = y
    BY <1>1, <1>3 DEF Ledger
<1>5. \A a \in Arenas : \A p : p \in F1[a] => p \in F[a]
    BY DEF Ledger
<1>6. \A x \in D : x.block.arena \in Arenas
    BY <1>2, BlockPages
<1>7. ASSUME NEW x \in D, NEW p \in PagesOf(x.block)
      PROVE  p \notin F1[x.block.arena] /\ p < m[x.block.arena]
  <2>1. CASE x \in C
      BY <1>5, <1>6, <1>7, <2>1 DEF Ledger
  <2>2. CASE x = d
      BY <1>6, <1>7, <2>2 DEF Ledger
  <2> QED
      BY <1>1, <2>1, <2>2
<1>8. ASSUME NEW a \in Arenas
      PROVE  /\ m[a] \in Nat
             /\ \A p \in F1[a] : p \in Nat /\ p < m[a]
             /\ \A p \in Nat : p < m[a] =>
                   p \in F1[a] \/ \E x \in D : x.block.arena = a /\ p \in PagesOf(x.block)
  <2>1. \A p : p \in F[a] => p \in F1[a] \/ (a = b.arena /\ p \in PagesOf(b))
      OBVIOUS
  <2>2. d \in D /\ \A x \in C : x \in D
      OBVIOUS
  <2> HIDE DEF D
  <2> QED
      BY <1>5, <2>1, <2>2 DEF Ledger
<1> HIDE DEF D
<1>9. Ledger(D, F1, m)
    BY <1>2, <1>4, <1>7, <1>8 DEF Ledger
<1> QED
    BY <1>9 DEF D

\* A block comes back to the free pages.
LEMMA LedgerGive ==
    ASSUME NEW C, NEW F, NEW m, Ledger(C, F, m), NEW c \in C,
           NEW F1, F1[c.block.arena] = F[c.block.arena] \cup PagesOf(c.block),
           \A a \in Arenas : a # c.block.arena => F1[a] = F[a]
    PROVE  Ledger(C \ {c}, F1, m)
<1> DEFINE D == C \ {c}
           b == c.block
<1>1. b \in Blocks /\ b.arena \in Arenas /\ \A p \in PagesOf(b) : p \in Nat
    BY BlockPages DEF Ledger
<1>2. \A x \in D : x \in C /\ x # c /\ x.block \in Blocks /\ x.block.arena \in Arenas
    BY BlockPages DEF Ledger
<1>3. \A x, y \in D : Clash(x.block, y.block) => x = y
    BY <1>2 DEF Ledger
<1>4. \A x \in D : ~Clash(x.block, b)
    BY <1>2 DEF Ledger
<1>5. ASSUME NEW x \in D, NEW p \in PagesOf(x.block)
      PROVE  p \notin F1[x.block.arena] /\ p < m[x.block.arena]
  <2>1. p \notin F[x.block.arena] /\ p < m[x.block.arena]
      BY <1>2, <1>5 DEF Ledger
  <2>2. x.block.arena = b.arena => p \notin PagesOf(b)
      BY <1>4, <1>5 DEF Clash
  <2> QED
      BY <1>2, <2>1, <2>2
<1>6. ASSUME NEW a \in Arenas
      PROVE  /\ m[a] \in Nat
             /\ \A p \in F1[a] : p \in Nat /\ p < m[a]
             /\ \A p \in Nat : p < m[a] =>
                   p \in F1[a] \/ \E x \in D : x.block.arena = a /\ p \in PagesOf(x.block)
  <2>1. \A p : p \in F1[a] <=> p \in F[a] \/ (a = b.arena /\ p \in PagesOf(b))
      OBVIOUS
  <2>2. \A x \in C : x = c \/ x \in D
      OBVIOUS
  <2>3. m[a] \in Nat /\ \A p \in F1[a] : p \in Nat /\ p < m[a]
      BY <1>1, <2>1 DEF Ledger
  <2>4. ASSUME NEW p \in Nat, p < m[a], p \notin F1[a]
        PROVE  \E x \in D : x.block.arena = a /\ p \in PagesOf(x.block)
    <3>1. PICK x \in C : x.block.arena = a /\ p \in PagesOf(x.block)
        BY <2>1, <2>4 DEF Ledger
    <3> HIDE DEF D
    <3> QED
        BY <2>1, <2>2, <2>4, <3>1
  <2> HIDE DEF D
  <2> QED
      BY <2>3, <2>4
<1>7. \A x \in D : x.block \in Blocks
    BY <1>2
<1> HIDE DEF D
<1>8. Ledger(D, F1, m)
    BY <1>3, <1>5, <1>6, <1>7 DEF Ledger
<1> QED
    BY <1>8 DEF D

\* A block comes out of the bump area.
LEMMA LedgerGrow ==
    ASSUME NEW C, NEW F, NEW m, Ledger(C, F, m), NEW d, d.block \in Blocks,
           d.block.off = m[d.block.arena],
           NEW m1, m1[d.block.arena] = m[d.block.arena] + d.block.n,
           \A a \in Arenas : a # d.block.arena => m1[a] = m[a]
    PROVE  Ledger(C \cup {d}, F, m1)
<1> DEFINE D == C \cup {d}
           b == d.block
<1>1. \A x \in D : x = d \/ x \in C
    OBVIOUS
<1>2. /\ b.arena \in Arenas /\ b.n \in Nat /\ b.n > 0 /\ b.off = m[b.arena]
      /\ \A p : p \in PagesOf(b) <=> p \in Nat /\ b.off <= p /\ p < b.off + b.n
    BY BlockPages
<1>3. \A x \in C : /\ x.block \in Blocks /\ x.block.arena \in Arenas
                   /\ \A p \in PagesOf(x.block) : p \in Nat /\ p < m[x.block.arena]
    BY BlockPages DEF Ledger
<1>4. \A x \in D : x.block \in Blocks
    BY <1>1, <1>3
<1>5. \A x \in C : ~Clash(x.block, b) /\ ~Clash(b, x.block)
  <2>1. ASSUME NEW x \in C, NEW p \in PagesOf(x.block), p \in PagesOf(b),
               x.block.arena = b.arena
        PROVE  FALSE
      BY <1>2, <1>3, <2>1 DEF Ledger
  <2> QED
      BY <2>1 DEF Clash
<1>6. \A x, y \in D : Clash(x.block, y.block) => x = y
    BY <1>1, <1>5 DEF Ledger
<1>7. \A a \in Arenas : /\ m[a] \in Nat /\ m1[a] \in Nat /\ m[a] <= m1[a]
                        /\ a = b.arena => m1[a] = m[a] + b.n
    BY <1>2 DEF Ledger
<1>8. ASSUME NEW x \in D, NEW p \in PagesOf(x.block)
      PROVE  p \notin F[x.block.arena] /\ p < m1[x.block.arena]
  <2>1. CASE x \in C
    <3>1. /\ p \notin F[x.block.arena] /\ p < m[x.block.arena] /\ p \in Nat
          /\ x.block.arena \in Arenas
        BY <1>3, <1>8, <2>1 DEF Ledger
    <3> QED
        BY <1>7, <3>1
  <2>2. CASE x = d
    <3>1. p \in Nat /\ m[b.arena] <= p /\ p < m[b.arena] + b.n
        BY <1>2, <1>8, <2>2
    <3>2. p \in F[b.arena] => p < m[b.arena]
        BY <1>2 DEF Ledger
    <3> QED
        BY <1>2, <1>7, <2>2, <3>1, <3>2
  <2> QED
      BY <1>1, <2>1, <2>2
<1>9. ASSUME NEW a \in Arenas
      PROVE  /\ m1[a] \in Nat
             /\ \A p \in F[a] : p \in Nat /\ p < m1[a]
             /\ \A p \in Nat : p < m1[a] =>
                   p \in F[a] \/ \E x \in D : x.block.arena = a /\ p \in PagesOf(x.block)
  <2>1. m1[a] \in Nat /\ \A p \in F[a] : p \in Nat /\ p < m1[a]
      BY <1>7 DEF Ledger
  <2>2. d \in D /\ \A x \in C : x \in D
      OBVIOUS
  <2> HIDE DEF D
  <2>3. ASSUME NEW p \in Nat, p < m1[a], p \notin F[a]
        PROVE  \E x \in D : x.block.arena = a /\ p \in PagesOf(x.block)
    <3>1. CASE p < m[a]
        BY <2>2, <2>3, <3>1 DEF Ledger
    <3>2. CASE ~(p < m[a])
      <4>1. a = b.arena
          BY <1>7, <2>3, <3>2
      <4>2. b.off <= p /\ p < b.off + b.n
          BY <1>2, <1>7, <2>3, <3>2, <4>1
      <4> QED
          BY <1>2, <2>2, <4>1, <4>2
    <3> QED
        BY <3>1, <3>2
  <2> QED
      BY <2>1, <2>3
<1> HIDE DEF D
<1>10. Ledger(D, F, m1)
    BY <1>4, <1>6, <1>8, <1>9 DEF Ledger
<1> QED
    BY <1>10 DEF D

\* A block goes back to the bump area it just came from.
LEMMA LedgerShrink ==
    ASSUME NEW C, NEW F, NEW m, Ledger(C, F, m), NEW c \in C,
           m[c.block.arena] = c.block.off + c.block.n,
           NEW m1, m1[c.block.arena] = c.block.off,
           \A a \in Arenas : a # c.block.arena => m1[a] = m[a]
    PROVE  Ledger(C \ {c}, F, m1)
<1> DEFINE D == C \ {c}
           b == c.block
<1>1. \A x \in C : /\ x.block \in Blocks /\ x.block.arena \in Arenas
                   /\ \A p \in PagesOf(x.block) : p \in Nat
    BY BlockPages DEF Ledger
<1>2. /\ b.arena \in Arenas /\ b.n \in Nat /\ b.off \in Nat
      /\ m[b.arena] = b.off + b.n /\ m1[b.arena] = b.off
      /\ \A p : p \in PagesOf(b) <=> p \in Nat /\ b.off <= p /\ p < b.off + b.n
    BY <1>1, BlockPages
<1>3. \A x \in D : x \in C /\ x # c
    OBVIOUS
<1>4. \A x, y \in D : Clash(x.block, y.block) => x = y
    BY <1>3 DEF Ledger
<1>5. \A x \in D : ~Clash(x.block, b)
    BY <1>3 DEF Ledger
<1>6. ASSUME NEW x \in D, NEW p \in PagesOf(x.block)
      PROVE  p \notin F[x.block.arena] /\ p < m1[x.block.arena]
  <2>1. /\ p \notin F[x.block.arena] /\ p < m[x.block.arena] /\ p \in Nat
        /\ x.block.arena \in Arenas
      BY <1>1, <1>3, <1>6 DEF Ledger
  <2>2. CASE x.block.arena = b.arena
    <3>1. p \notin PagesOf(b)
        BY <1>5, <1>6, <2>2 DEF Clash
    <3>2. p < b.off
        BY <1>2, <2>1, <2>2, <3>1
    <3> QED
        BY <1>2, <2>1, <2>2, <3>2
  <2>3. CASE x.block.arena # b.arena
      BY <2>1, <2>3
  <2> QED
      BY <2>2, <2>3
<1>7. ASSUME NEW a \in Arenas
      PROVE  /\ m1[a] \in Nat
             /\ \A p \in F[a] : p \in Nat /\ p < m1[a]
             /\ \A p \in Nat : p < m1[a] =>
                   p \in F[a] \/ \E x \in D : x.block.arena = a /\ p \in PagesOf(x.block)
  <2>1. /\ m[a] \in Nat /\ m1[a] \in Nat /\ m1[a] <= m[a]
        /\ a = b.arena => m1[a] = b.off
    <3>1. m[a] \in Nat
        BY DEF Ledger
    <3>2. CASE a = b.arena
        BY <1>2, <3>2
    <3>3. CASE a # b.arena
        BY <3>1, <3>3
    <3> QED
        BY <3>2, <3>3
  <2>2. \A p \in F[a] : p \in Nat /\ p < m[a]
      BY DEF Ledger
  <2>3. ASSUME NEW p \in F[a] PROVE p < m1[a]
    <3>1. CASE a = b.arena
      <4>1. p \notin PagesOf(b)
          BY <1>2, <2>3, <3>1 DEF Ledger
      <4> QED
          BY <1>2, <2>1, <2>2, <3>1, <4>1
    <3>2. CASE a # b.arena
        BY <2>2, <3>2
    <3> QED
        BY <3>1, <3>2
  <2>4. ASSUME NEW p \in Nat, p < m1[a], p \notin F[a]
        PROVE  \E x \in D : x.block.arena = a /\ p \in PagesOf(x.block)
    <3>1. p < m[a]
        BY <2>1, <2>4
    <3>2. PICK x \in C : x.block.arena = a /\ p \in PagesOf(x.block)
        BY <2>4, <3>1 DEF Ledger
    <3>3. x # c
        BY <1>2, <2>1, <2>4, <3>2
    <3> QED
        BY <3>2, <3>3
  <2> HIDE DEF D
  <2> QED
      BY <2>1, <2>2, <2>3, <2>4
<1>8. \A x \in D : x.block \in Blocks
    BY <1>1
<1> HIDE DEF D
<1>9. Ledger(D, F, m1)
    BY <1>4, <1>6, <1>7, <1>8 DEF Ledger
<1> QED
    BY <1>9 DEF D

\* An Alloc entry for a claim that had none.
LEMMA BalanceAdd ==
    ASSUME NEW C, NEW F, NEW m, Ledger(C, F, m), NEW G, G \subseteq C,
           NEW bal, Balanced(G, bal), NEW c \in C, c \notin G, NEW d, d.block = c.block,
           NEW bal1, \A a \in Arenas, p \in Pages :
              bal1[a][p] = IF a = c.block.arena /\ p \in PagesOf(c.block)
                           THEN bal[a][p] + 1 ELSE bal[a][p]
    PROVE  Balanced(G \cup {d}, bal1)
<1>1. ASSUME NEW a \in Arenas, NEW p \in Pages
      PROVE  bal1[a][p] = IF \E x \in G \cup {d} : x.block.arena = a /\ p \in PagesOf(x.block)
                          THEN 1 ELSE 0
  <2>1. bal[a][p] = IF \E x \in G : x.block.arena = a /\ p \in PagesOf(x.block) THEN 1 ELSE 0
      BY DEF Balanced
  <2>2. CASE a = c.block.arena /\ p \in PagesOf(c.block)
    <3>1. \A x \in G : ~(x.block.arena = a /\ p \in PagesOf(x.block))
        BY <2>2 DEF Ledger, Clash
    <3> QED
        BY <2>1, <2>2, <3>1
  <2>3. CASE ~(a = c.block.arena /\ p \in PagesOf(c.block))
      BY <2>1, <2>3
  <2> QED
      BY <2>2, <2>3
<1> QED
    BY <1>1 DEF Balanced

\* A Free entry for a claim that has its Alloc entry.
LEMMA BalanceSub ==
    ASSUME NEW C, NEW F, NEW m, Ledger(C, F, m), NEW G, G \subseteq C,
           NEW bal, Balanced(G, bal), NEW c \in G,
           NEW bal1, \A a \in Arenas, p \in Pages :
              bal1[a][p] = IF a = c.block.arena /\ p \in PagesOf(c.block)
                           THEN bal[a][p] + (-1) ELSE bal[a][p]
    PROVE  Balanced(G \ {c}, bal1)
<1>1. ASSUME NEW a \in Arenas, NEW p \in Pages
      PROVE  bal1[a][p] = IF \E x \in G \ {c} : x.block.arena = a /\ p \in PagesOf(x.block)
                          THEN 1 ELSE 0
  <2>1. bal[a][p] = IF \E x \in G : x.block.arena = a /\ p \in PagesOf(x.block) THEN 1 ELSE 0
      BY DEF Balanced
  <2>2. CASE a = c.block.arena /\ p \in PagesOf(c.block)
    <3>1. \A x \in G \ {c} : ~(x.block.arena = a /\ p \in PagesOf(x.block))
        BY <2>2 DEF Ledger, Clash
    <3>2. bal[a][p] = 1
        BY <2>1, <2>2
    <3> QED
        BY <2>2, <3>1, <3>2
  <2>3. CASE ~(a = c.block.arena /\ p \in PagesOf(c.block))
    <3>1. (\E x \in G : x.block.arena = a /\ p \in PagesOf(x.block))
            <=> (\E x \in G \ {c} : x.block.arena = a /\ p \in PagesOf(x.block))
        BY <2>3
    <3> QED
        BY <2>1, <2>3, <3>1
  <2> QED
      BY <2>2, <2>3
<1> QED
    BY <1>1 DEF Balanced

\* A claim with an Alloc entry becomes another one.
LEMMA BalanceMove ==
    ASSUME NEW G, NEW bal, Balanced(G, bal), NEW c \in G, NEW d, d.block = c.block
    PROVE  Balanced((G \ {c}) \cup {d}, bal)
<1>1. ASSUME NEW a, NEW p
      PROVE  (\E x \in G : x.block.arena = a /\ p \in PagesOf(x.block))
               <=> \E x \in (G \ {c}) \cup {d} : x.block.arena = a /\ p \in PagesOf(x.block)
    OBVIOUS
<1> QED
    BY <1>1 DEF Balanced

-----------------------------------------------------------------------------
(***************************************************************************)
(* The state: what a thread may rely on in every stage, who claims which   *)
(* pages, and which claims have an Alloc entry.                            *)
(***************************************************************************)

\* A block is out of the arena and not yet another process' or the client's.
Busy(t) == Taking(t) \/ Storing(t)

Whys == {"refused", "quarantined", "misplaced"}

Frames == [off : Nat, n : Nat, size : Nat, align : Nat, best : Ends, prev : Ends, next : Ends]

FrameTypeOK ==
    /\ frame \in [Threads -> Frames]
    /\ \A t \in Threads :
          /\ pc[t] \in RetrieveStages => frame[t].n > 0
          /\ Busy(t) => FrameBlock(t) \in Blocks

ArenaTypeOK ==
    /\ bump \in [Arenas -> 0 .. TotalPages]
    /\ list \in [Arenas -> Lists]
    /\ held \in [Procs -> SUBSET Blocks]
    /\ balance \in [Arenas -> [Pages -> Int]]
    /\ lost \subseteq [arena : Arenas, off : Pages, n : 1 .. TotalPages, why : Whys]
    /\ FrameTypeOK

\* The list of an arena is in order, except between the linking of a block and its merge.
ListsOK ==
    \A a \in Arenas :
        \/ \E t \in Threads : pc[t] = "s_merge" /\ own[t] = a
        \/ Good(list[a], bump[a])

\* What the scan chose is in the list.
ChosenOK(t) ==
    LET L == list[own[t]]  f == frame[t]
    IN  f.best = End \/ (f.best \in Nodes(L) /\ L.blk[f.best].size >= f.n)

\* What was taken can be put back.
TakenOK(t) ==
    LET a == own[t]  f == frame[t]
        L == PutBack(list[a], f.best, f.off, f.n)
    IN  IF f.best = End
        THEN Good(list[a], f.off) /\ bump[a] = f.off + f.n
        ELSE /\ Good(L, bump[a])
             /\ f.best \in Nodes(L) /\ f.n <= L.blk[f.best].size
             /\ list[a] = Take(L, f.best, f.n)
             /\ f.off = TakenAt(L, f.best, f.n)

StageOK(t) ==
    /\ pc[t] = "r_take" => ChosenOK(t)
    /\ pc[t] = "r_place" => TakenOK(t)
    /\ pc[t] = "s_link" => Placed(list[own[t]], frame[t].off, frame[t].prev, frame[t].next)
    /\ pc[t] = "s_merge" => Linked(list[own[t]], bump[own[t]], frame[t].off)

StagesOK == \A t \in Threads : StageOK(t)

\* Each block that is out of the arenas, with who has it: a process, a call under way or,
\* when it is lost, the way it got lost.
HeldClaim(p, b) == [kind |-> "held", who |-> p, block |-> b]
BusyClaim(t) == [kind |-> "busy", who |-> t, block |-> FrameBlock(t)]
LostClaim(why, b) == [kind |-> "lost", who |-> why, block |-> b]
LossOf(b, why) == [arena |-> b.arena, off |-> b.off, n |-> b.n, why |-> why]

HeldClaims == UNION {{HeldClaim(p, b) : b \in held[p]} : p \in Procs}
BusyClaims == {BusyClaim(t) : t \in {u \in Threads : Busy(u)}}
LostClaims == UNION {{LostClaim(w, b) : b \in {c \in Blocks : LossOf(c, w) \in lost}} : w \in Whys}
Claims == HeldClaims \cup BusyClaims \cup LostClaims

\* Those with an Alloc entry and no Free entry.
Logging(t) == pc[t] \in {"s_lock1", "s_lock2", "s_log"}
LoggedClaim(c) ==
    \/ c.kind = "held"
    \/ c.kind = "busy" /\ Logging(c.who)
    \/ c.kind = "lost" /\ c.who = "refused"
Logged == {c \in Claims : LoggedClaim(c)}

Free == [a \in Arenas |-> FreePages(list[a])]

ArenaInv ==
    /\ LockInv
    /\ ArenaTypeOK
    /\ ListsOK
    /\ StagesOK
    /\ Ledger(Claims, Free, bump)
    /\ Balanced(Logged, balance)

-----------------------------------------------------------------------------
(***************************************************************************)
(* How a step of one thread changes the claims.                            *)
(***************************************************************************)

\* The other threads stay where they are.
OthersStay(t) ==
    \A u \in Threads \ {t} : pc'[u] = pc[u] /\ own'[u] = own[u] /\ frame'[u] = frame[u]

\* So they keep what they have.
LEMMA OthersKeepClaims ==
    ASSUME NEW t \in Threads, OthersStay(t)
    PROVE  \A u \in Threads \ {t} : /\ Busy(u)' <=> Busy(u)
                                    /\ Logging(u)' <=> Logging(u)
                                    /\ BusyClaim(u)' = BusyClaim(u)
BY DEF OthersStay, Busy, Logging, BusyClaim, FrameBlock, Taking, Storing

\* Each kind of claim has its own tag.
LEMMA ClaimKinds ==
    /\ \A c \in HeldClaims : c.kind = "held"
    /\ \A c \in BusyClaims : c.kind = "busy" /\ c.who \in Threads /\ Busy(c.who) /\ c = BusyClaim(c.who)
    /\ \A c \in LostClaims : c.kind = "lost"
    /\ \A t : BusyClaim(t).kind = "busy" /\ BusyClaim(t).who = t /\ BusyClaim(t).block = FrameBlock(t)
    /\ \A p, b : HeldClaim(p, b).kind = "held" /\ HeldClaim(p, b).block = b
    /\ \A w, b : LostClaim(w, b).kind = "lost" /\ LostClaim(w, b).who = w
                 /\ LostClaim(w, b).block = b
BY DEF HeldClaims, BusyClaims, LostClaims, HeldClaim, BusyClaim, LostClaim

\* A busy thread has a claim, and so has no one else with it.
LEMMA BusyMembers ==
    \A c : c \in BusyClaims <=> \E t \in Threads : Busy(t) /\ c = BusyClaim(t)
BY DEF BusyClaims

\* The busy claims change at most by the one of the thread that makes the step.
LEMMA BusyChange ==
    ASSUME NEW t \in Threads, OthersStay(t)
    PROVE  /\ ~Busy(t) /\ ~Busy(t)' => BusyClaims' = BusyClaims
           /\ Busy(t) /\ Busy(t)' /\ FrameBlock(t)' = FrameBlock(t) => BusyClaims' = BusyClaims
           /\ ~Busy(t) /\ Busy(t)' => /\ BusyClaims' = BusyClaims \cup {BusyClaim(t)'}
                                      /\ BusyClaim(t)' \notin BusyClaims
           /\ Busy(t) /\ ~Busy(t)' => /\ BusyClaims' = BusyClaims \ {BusyClaim(t)}
                                      /\ BusyClaim(t) \in BusyClaims
<1>1. \A c : c \in BusyClaims <=> \E u \in Threads : Busy(u) /\ c = BusyClaim(u)
    BY BusyMembers
<1>2. \A c : c \in BusyClaims' <=> \E u \in Threads : Busy(u)' /\ c = BusyClaim(u)'
    BY DEF BusyClaims
<1>3. \A u \in Threads \ {t} : (Busy(u)' <=> Busy(u)) /\ BusyClaim(u)' = BusyClaim(u)
    BY OthersKeepClaims
<1>4. \A u : BusyClaim(u).who = u /\ BusyClaim(u)'.who = u
    BY DEF BusyClaim
<1>5. ASSUME FrameBlock(t)' = FrameBlock(t) PROVE BusyClaim(t)' = BusyClaim(t)
    BY <1>5 DEF BusyClaim
<1>6. ASSUME ~Busy(t), ~Busy(t)' PROVE BusyClaims' = BusyClaims
  <2>1. \A c : c \in BusyClaims' <=> c \in BusyClaims
      BY <1>1, <1>2, <1>3, <1>6
  <2> QED
      BY <2>1
<1>7. ASSUME Busy(t), Busy(t)', FrameBlock(t)' = FrameBlock(t) PROVE BusyClaims' = BusyClaims
  <2>1. \A c : c \in BusyClaims' <=> c \in BusyClaims
      BY <1>1, <1>2, <1>3, <1>5, <1>7
  <2> QED
      BY <2>1
<1>8. ASSUME ~Busy(t), Busy(t)'
      PROVE  /\ BusyClaims' = BusyClaims \cup {BusyClaim(t)'}
             /\ BusyClaim(t)' \notin BusyClaims
  <2>1. \A c : c \in BusyClaims' <=> c \in BusyClaims \/ c = BusyClaim(t)'
      BY <1>1, <1>2, <1>3, <1>8
  <2>2. BusyClaim(t)' \notin BusyClaims
      BY <1>1, <1>4, <1>8
  <2> QED
      BY <2>1, <2>2
<1>9. ASSUME Busy(t), ~Busy(t)'
      PROVE  /\ BusyClaims' = BusyClaims \ {BusyClaim(t)}
             /\ BusyClaim(t) \in BusyClaims
  <2>1. \A c : c \in BusyClaims' <=> c \in BusyClaims /\ c # BusyClaim(t)
      BY <1>1, <1>2, <1>3, <1>4, <1>9
  <2>2. BusyClaim(t) \in BusyClaims
      BY <1>1, <1>9
  <2> QED
      BY <2>1, <2>2
<1> QED
    BY <1>6, <1>7, <1>8, <1>9

\* What is logged, kind by kind.
LEMMA LoggedMembers ==
    /\ \A c \in HeldClaims : c \in Logged
    /\ \A c \in BusyClaims : c \in Logged <=> Logging(c.who)
    /\ \A c \in LostClaims : c \in Logged <=> c.who = "refused"
    /\ \A c : c \in Logged => c \in Claims
    /\ \A c : c \in Claims <=> c \in HeldClaims \/ c \in BusyClaims \/ c \in LostClaims
<1>1. /\ \A c \in HeldClaims : c.kind = "held"
      /\ \A c \in BusyClaims : c.kind = "busy"
      /\ \A c \in LostClaims : c.kind = "lost"
    BY ClaimKinds
<1> QED
    BY <1>1 DEF Logged, LoggedClaim, Claims

\* The same one step later.
LEMMA LoggedMembersNext ==
    /\ \A c \in HeldClaims' : c \in Logged'
    /\ \A c \in BusyClaims' : c \in Logged' <=> Logging(c.who)'
    /\ \A c \in LostClaims' : c \in Logged' <=> c.who = "refused"
    /\ \A c : c \in Logged' => c \in Claims'
    /\ \A c : c \in Claims' <=> c \in HeldClaims' \/ c \in BusyClaims' \/ c \in LostClaims'
<1>1. /\ \A c \in HeldClaims' : c.kind = "held"
      /\ \A c \in BusyClaims' : c.kind = "busy"
      /\ \A c \in LostClaims' : c.kind = "lost"
    BY DEF HeldClaims, BusyClaims, LostClaims, HeldClaim, BusyClaim, LostClaim
<1> QED
    BY <1>1 DEF Logged, LoggedClaim, Claims, Logging

\* The busy claims of the other threads are logged as before.
LEMMA OthersLogged ==
    ASSUME NEW t \in Threads, OthersStay(t)
    PROVE  \A c \in BusyClaims : c # BusyClaim(t) =>
               (c.who \in Threads /\ (Logging(c.who)' <=> Logging(c.who)))
<1>1. \A u \in Threads \ {t} : Logging(u)' <=> Logging(u)
    BY OthersKeepClaims
<1>2. \A c \in BusyClaims : c.who \in Threads /\ c = BusyClaim(c.who)
    BY ClaimKinds
<1> QED
    BY <1>1, <1>2

\* Nobody gains or loses a block.
LEMMA ClaimsStay ==
    ASSUME NEW t \in Threads, OthersStay(t), held' = held, lost' = lost,
           Busy(t)' <=> Busy(t), Busy(t) => FrameBlock(t)' = FrameBlock(t),
           Busy(t) => (Logging(t)' <=> Logging(t))
    PROVE  Claims' = Claims /\ Logged' = Logged
<1>1. HeldClaims' = HeldClaims /\ LostClaims' = LostClaims
    BY DEF HeldClaims, LostClaims, HeldClaim, LostClaim, LossOf
<1>2. BusyClaims' = BusyClaims
    BY BusyChange
<1>3. Claims' = Claims
    BY <1>1, <1>2 DEF Claims
<1>4. \A c \in BusyClaims : Logging(c.who)' <=> Logging(c.who)
  <2>1. \A c \in BusyClaims : Busy(c.who) /\ c.who \in Threads
      BY ClaimKinds
  <2>2. BusyClaim(t) \in BusyClaims => Busy(t) /\ BusyClaim(t).who = t
      BY <2>1, ClaimKinds
  <2> QED
      BY <2>1, <2>2, OthersLogged
<1>5. \A c : c \in Logged' <=> c \in Logged
    BY <1>1, <1>2, <1>3, <1>4, LoggedMembers, LoggedMembersNext
<1> QED
    BY <1>3, <1>5

\* A thread takes a block out of the arena.
LEMMA ClaimBegins ==
    ASSUME NEW t \in Threads, OthersStay(t), held' = held, lost' = lost,
           ~Busy(t), Busy(t)', ~Logging(t)'
    PROVE  Claims' = Claims \cup {BusyClaim(t)'} /\ Logged' = Logged
<1>1. HeldClaims' = HeldClaims /\ LostClaims' = LostClaims
    BY DEF HeldClaims, LostClaims, HeldClaim, LostClaim, LossOf
<1>2. BusyClaims' = BusyClaims \cup {BusyClaim(t)'} /\ BusyClaim(t)' \notin BusyClaims
    BY BusyChange
<1>3. Claims' = Claims \cup {BusyClaim(t)'}
    BY <1>1, <1>2 DEF Claims
<1>4. BusyClaim(t)' \in BusyClaims' /\ BusyClaim(t)'.who = t /\ BusyClaim(t) \notin BusyClaims
      /\ BusyClaim(t)'.kind = "busy"
  <2>1. \A c \in BusyClaims : Busy(c.who)
      BY ClaimKinds
  <2> QED
      BY <1>2, <2>1, ClaimKinds DEF BusyClaim
<1>5. BusyClaim(t)' \notin Logged' /\ BusyClaim(t)' \notin Logged
  <2>1. BusyClaim(t)' \notin HeldClaims /\ BusyClaim(t)' \notin LostClaims
      BY <1>4, ClaimKinds
  <2> QED
      BY <1>2, <1>4, <2>1, LoggedMembers, LoggedMembersNext
<1>6. \A c \in BusyClaims : Logging(c.who)' <=> Logging(c.who)
    BY <1>4, OthersLogged
<1>7. \A c : c \in Logged' <=> c \in Logged
    BY <1>1, <1>2, <1>3, <1>5, <1>6, LoggedMembers, LoggedMembersNext
<1> QED
    BY <1>3, <1>7

\* A thread's block goes back into the arena.
LEMMA ClaimEnds ==
    ASSUME NEW t \in Threads, OthersStay(t), held' = held, lost' = lost,
           Busy(t), ~Busy(t)', ~Logging(t)
    PROVE  Claims' = Claims \ {BusyClaim(t)} /\ Logged' = Logged /\ BusyClaim(t) \in Claims
<1>1. HeldClaims' = HeldClaims /\ LostClaims' = LostClaims
    BY DEF HeldClaims, LostClaims, HeldClaim, LostClaim, LossOf
<1>2. BusyClaims' = BusyClaims \ {BusyClaim(t)} /\ BusyClaim(t) \in BusyClaims
    BY BusyChange
<1>3. BusyClaim(t) \notin HeldClaims /\ BusyClaim(t) \notin LostClaims /\ BusyClaim(t).who = t
    BY ClaimKinds
<1>4. \A c : c \in Claims' <=> c \in Claims /\ c # BusyClaim(t)
    BY <1>1, <1>2, <1>3, LoggedMembers, LoggedMembersNext
<1>5. \A c \in BusyClaims' : c \in BusyClaims /\ (Logging(c.who)' <=> Logging(c.who))
    BY <1>2, OthersLogged
<1>6. \A c : c \in Logged' <=> c \in Logged
  <2>1. BusyClaim(t) \notin Logged /\ BusyClaim(t) \notin Logged'
      BY <1>2, <1>3, <1>4, LoggedMembers, LoggedMembersNext
  <2> QED
      BY <1>1, <1>2, <1>4, <1>5, <2>1, LoggedMembers, LoggedMembersNext
<1>7. BusyClaim(t) \in Claims
    BY <1>2, LoggedMembers
<1> QED
    BY <1>4, <1>6, <1>7

\* A thread's block becomes its process'.
LEMMA ClaimHanded ==
    ASSUME NEW t \in Threads, OthersStay(t), lost' = lost,
           NEW p \in Procs, held \in [Procs -> SUBSET Blocks],
           held' = [held EXCEPT ![p] = @ \cup {FrameBlock(t)}],
           Busy(t), ~Busy(t)', ~Logging(t)
    PROVE  LET d == HeldClaim(p, FrameBlock(t))
           IN  /\ Claims' = (Claims \ {BusyClaim(t)}) \cup {d}
               /\ Logged' = Logged \cup {d}
               /\ BusyClaim(t) \in Claims /\ BusyClaim(t) \notin Logged
               /\ d.block = BusyClaim(t).block
<1> DEFINE d == HeldClaim(p, FrameBlock(t))
<1>1. LostClaims' = LostClaims
    BY DEF LostClaims, LostClaim, LossOf
<1>2. HeldClaims' = HeldClaims \cup {d}
  <2>1. \A q \in Procs : held'[q] = IF q = p THEN held[q] \cup {FrameBlock(t)} ELSE held[q]
      OBVIOUS
  <2>2. \A c : c \in HeldClaims <=> \E q \in Procs : \E b \in held[q] : c = HeldClaim(q, b)
      BY DEF HeldClaims
  <2>3. \A c : c \in HeldClaims' <=> \E q \in Procs : \E b \in held'[q] : c = HeldClaim(q, b)
      BY DEF HeldClaims, HeldClaim
  <2>4. \A c : c \in HeldClaims' <=> c \in HeldClaims \/ c = d
      BY <2>1, <2>2, <2>3
  <2> QED
      BY <2>4
<1>3. BusyClaims' = BusyClaims \ {BusyClaim(t)} /\ BusyClaim(t) \in BusyClaims
    BY BusyChange
<1>4. /\ BusyClaim(t) \notin HeldClaims /\ BusyClaim(t) \notin LostClaims /\ BusyClaim(t).who = t
      /\ BusyClaim(t) # d /\ d.block = BusyClaim(t).block
    BY ClaimKinds
<1> HIDE DEF d
<1>5. \A c : c \in Claims' <=> (c \in Claims /\ c # BusyClaim(t)) \/ c = d
    BY <1>1, <1>2, <1>3, <1>4, LoggedMembers, LoggedMembersNext
<1>6. \A c \in BusyClaims' : c \in BusyClaims /\ (Logging(c.who)' <=> Logging(c.who))
    BY <1>3, OthersLogged
<1>7. BusyClaim(t) \notin Logged /\ BusyClaim(t) \notin Logged'
    BY <1>3, <1>4, <1>5, LoggedMembers, LoggedMembersNext
<1>8. \A c : c \in Logged' <=> c \in Logged \/ c = d
    BY <1>1, <1>2, <1>3, <1>5, <1>6, <1>7, LoggedMembers, LoggedMembersNext
<1>9. BusyClaim(t) \in Claims
    BY <1>3, LoggedMembers
<1> QED
    BY <1>4, <1>5, <1>7, <1>8, <1>9 DEF d

\* A process' block becomes that of the thread that stores it.
LEMMA ClaimStored ==
    ASSUME NEW t \in Threads, OthersStay(t), lost' = lost,
           NEW p \in Procs, held \in [Procs -> SUBSET Blocks], NEW b \in held[p],
           held' = [held EXCEPT ![p] = @ \ {b}],
           ~Busy(t), Busy(t)', Logging(t)', FrameBlock(t)' = b
    PROVE  LET c == HeldClaim(p, b)
               d == BusyClaim(t)'
           IN  /\ Claims' = (Claims \ {c}) \cup {d}
               /\ Logged' = (Logged \ {c}) \cup {d}
               /\ c \in Claims /\ c \in Logged
               /\ d.block = c.block
<1> DEFINE c == HeldClaim(p, b)
           d == BusyClaim(t)'
<1>1. LostClaims' = LostClaims
    BY DEF LostClaims, LostClaim, LossOf
<1>2. HeldClaims' = HeldClaims \ {c} /\ c \in HeldClaims
  <2>1. \A q \in Procs : held'[q] = IF q = p THEN held[q] \ {b} ELSE held[q]
      OBVIOUS
  <2>2. \A x : x \in HeldClaims <=> \E q \in Procs : \E y \in held[q] : x = HeldClaim(q, y)
      BY DEF HeldClaims
  <2>3. \A x : x \in HeldClaims' <=> \E q \in Procs : \E y \in held'[q] : x = HeldClaim(q, y)
      BY DEF HeldClaims, HeldClaim
  <2>4. \A q, y : HeldClaim(q, y) = c => q = p /\ y = b
      BY DEF HeldClaim
  <2>5. \A x : x \in HeldClaims' <=> x \in HeldClaims /\ x # c
      BY <2>1, <2>2, <2>3, <2>4
  <2> QED
      BY <2>2, <2>5
<1>3. BusyClaims' = BusyClaims \cup {d} /\ d \notin BusyClaims
    BY BusyChange
<1>4. /\ d.kind = "busy" /\ d.who = t /\ d.block = b /\ c.kind = "held" /\ c.block = b
      /\ BusyClaim(t) \notin BusyClaims
  <2>1. \A x \in BusyClaims : Busy(x.who)
      BY ClaimKinds
  <2> QED
      BY <2>1, ClaimKinds DEF BusyClaim, HeldClaim
<1>5. /\ d \notin HeldClaims /\ d \notin LostClaims
      /\ c \notin BusyClaims /\ c \notin LostClaims /\ c # d
    BY <1>4, ClaimKinds
<1> HIDE DEF c, d
<1>6. \A x : x \in Claims' <=> (x \in Claims /\ x # c) \/ x = d
    BY <1>1, <1>2, <1>3, <1>5, LoggedMembers, LoggedMembersNext
<1>7. \A x \in BusyClaims : Logging(x.who)' <=> Logging(x.who)
    BY <1>4, OthersLogged
<1>8. d \in Logged' /\ c \in Logged /\ c \notin Logged'
    BY <1>2, <1>3, <1>4, <1>5, <1>6, LoggedMembers, LoggedMembersNext
<1>9. \A x : x \in Logged' <=> (x \in Logged /\ x # c) \/ x = d
    BY <1>1, <1>2, <1>3, <1>5, <1>6, <1>7, <1>8, LoggedMembers, LoggedMembersNext
<1>10. c \in Claims
    BY <1>2, LoggedMembers
<1> QED
    BY <1>4, <1>6, <1>8, <1>9, <1>10 DEF c, d

\* A thread's block gets lost.
LEMMA ClaimLost ==
    ASSUME NEW t \in Threads, OthersStay(t), held' = held,
           NEW why \in Whys, lost' = lost \cup {Loss(t, why)},
           Busy(t), ~Busy(t)', FrameBlock(t) \in Blocks
    PROVE  LET c == BusyClaim(t)
               d == LostClaim(why, FrameBlock(t))
           IN  /\ Claims' = (Claims \ {c}) \cup {d}
               /\ c \in Claims /\ d.block = c.block
               /\ Logging(t) => c \in Logged
               /\ ~Logging(t) /\ why # "refused" => Logged' = Logged
               /\ Logging(t) /\ why # "refused" => Logged' = Logged \ {c}
               /\ Logging(t) /\ why = "refused" => Logged' = (Logged \ {c}) \cup {d}
<1> DEFINE c == BusyClaim(t)
           d == LostClaim(why, FrameBlock(t))
<1>1. HeldClaims' = HeldClaims
    BY DEF HeldClaims, HeldClaim
<1>2. LostClaims' = LostClaims \cup {d}
  <2>1. /\ FrameBlock(t).arena = own[t] /\ FrameBlock(t).off = frame[t].off
        /\ FrameBlock(t).n = frame[t].n
      BY DEF FrameBlock
  <2>2. \A b \in Blocks, w \in Whys :
            LossOf(b, w) = Loss(t, why) <=> b = FrameBlock(t) /\ w = why
      BY <2>1 DEF LossOf, Loss, FrameBlock, Blocks
  <2>3. \A x : x \in LostClaims <=>
            \E w \in Whys : \E b \in Blocks : LossOf(b, w) \in lost /\ x = LostClaim(w, b)
      BY DEF LostClaims
  <2>4. \A x : x \in LostClaims' <=>
            \E w \in Whys : \E b \in Blocks : LossOf(b, w) \in lost' /\ x = LostClaim(w, b)
      BY DEF LostClaims, LostClaim, LossOf
  <2>5. \A b \in Blocks, w \in Whys :
            LossOf(b, w) \in lost' <=> LossOf(b, w) \in lost \/ (b = FrameBlock(t) /\ w = why)
      BY <2>2
  <2>6. \A x : x \in LostClaims' <=> x \in LostClaims \/ x = d
    <3>1. ASSUME NEW x, x \in LostClaims' PROVE x \in LostClaims \/ x = d
        BY <2>3, <2>4, <2>5, <3>1
    <3>2. ASSUME NEW x, x \in LostClaims \/ x = d PROVE x \in LostClaims'
        BY <2>3, <2>4, <2>5, <3>2
    <3> QED
        BY <3>1, <3>2
  <2> QED
      BY <2>6
<1>3. BusyClaims' = BusyClaims \ {c} /\ c \in BusyClaims
    BY BusyChange
<1>4. /\ c.who = t /\ c.kind = "busy" /\ d.kind = "lost" /\ d.who = why
      /\ c \notin HeldClaims /\ c \notin LostClaims /\ c # d /\ d.block = c.block
      /\ d \notin HeldClaims /\ d \notin BusyClaims
    BY ClaimKinds
<1> HIDE DEF c, d
<1>5. \A x : x \in Claims' <=> (x \in Claims /\ x # c) \/ x = d
    BY <1>1, <1>2, <1>3, <1>4, LoggedMembers, LoggedMembersNext
<1>6. \A x \in BusyClaims' : x \in BusyClaims /\ (Logging(x.who)' <=> Logging(x.who))
    BY <1>3, OthersLogged DEF c
<1>7. /\ c \in Logged <=> Logging(t)
      /\ c \notin Logged'
      /\ d \in Logged' <=> why = "refused"
    BY <1>2, <1>3, <1>4, <1>5, LoggedMembers, LoggedMembersNext
<1>8. \A x : x # c /\ x # d => (x \in Logged' <=> x \in Logged)
    BY <1>1, <1>2, <1>3, <1>5, <1>6, LoggedMembers, LoggedMembersNext
<1>9. why # "refused" => d \notin Logged
    BY <1>4, LoggedMembers
<1>10. ~Logging(t) /\ why # "refused" => \A x : x \in Logged' <=> x \in Logged
    BY <1>7, <1>8, <1>9
<1>11. Logging(t) /\ why # "refused" => \A x : x \in Logged' <=> x \in Logged /\ x # c
    BY <1>7, <1>8, <1>9
<1>12. Logging(t) /\ why = "refused" => \A x : x \in Logged' <=> (x \in Logged /\ x # c) \/ x = d
    BY <1>7, <1>8
<1>13. c \in Claims
    BY <1>3, LoggedMembers
<1>14. /\ Claims' = (Claims \ {c}) \cup {d}
       /\ ~Logging(t) /\ why # "refused" => Logged' = Logged
       /\ Logging(t) /\ why # "refused" => Logged' = Logged \ {c}
       /\ Logging(t) /\ why = "refused" => Logged' = (Logged \ {c}) \cup {d}
  <2>1. Claims' = (Claims \ {c}) \cup {d}
      BY <1>5
  <2>2. ~Logging(t) /\ why # "refused" => Logged' = Logged
      BY <1>10
  <2>3. Logging(t) /\ why # "refused" => Logged' = Logged \ {c}
      BY <1>11
  <2>4. Logging(t) /\ why = "refused" => Logged' = (Logged \ {c}) \cup {d}
      BY <1>12
  <2> QED
      BY <2>1, <2>2, <2>3, <2>4
<1> QED
    BY <1>4, <1>7, <1>13, <1>14 DEF c, d

\* The Free of a thread's block is logged.
LEMMA ClaimFreed ==
    ASSUME NEW t \in Threads, OthersStay(t), held' = held, lost' = lost,
           Busy(t), Busy(t)', FrameBlock(t)' = FrameBlock(t), Logging(t), ~Logging(t)'
    PROVE  LET c == BusyClaim(t)
           IN  Claims' = Claims /\ Logged' = Logged \ {c} /\ c \in Claims /\ c \in Logged
<1> DEFINE c == BusyClaim(t)
<1>1. HeldClaims' = HeldClaims /\ LostClaims' = LostClaims
    BY DEF HeldClaims, LostClaims, HeldClaim, LostClaim, LossOf
<1>2. BusyClaims' = BusyClaims
    BY BusyChange
<1>3. c \in BusyClaims /\ c.who = t
    BY BusyMembers, ClaimKinds
<1>4. c \notin HeldClaims /\ c \notin LostClaims
    BY ClaimKinds
<1> HIDE DEF c
<1>5. Claims' = Claims
    BY <1>1, <1>2 DEF Claims
<1>6. \A x \in BusyClaims : x # c => (Logging(x.who)' <=> Logging(x.who))
    BY OthersLogged DEF c
<1>7. c \in Logged /\ c \notin Logged'
    BY <1>1, <1>2, <1>3, <1>4, LoggedMembers, LoggedMembersNext
<1>8. \A x : x \in Logged' <=> x \in Logged /\ x # c
    BY <1>1, <1>2, <1>5, <1>6, <1>7, LoggedMembers, LoggedMembersNext
<1>9. c \in Claims
    BY <1>3, LoggedMembers
<1> QED
    BY <1>5, <1>7, <1>8, <1>9 DEF c

-----------------------------------------------------------------------------
(***************************************************************************)
(* How a step changes the lists.                                           *)
(***************************************************************************)

\* The stages that rely on what the list is have locked it.
LEMMA StageHolds ==
    ASSUME NEW u
    PROVE  pc[u] \in {"r_scan", "r_take", "r_place", "s_find", "s_link", "s_merge"}
             => own[u] \in Holds(u)
BY DEF Holds

\* What a thread relies on stays true when neither its locals nor its arena change.
LEMMA StageStays ==
    ASSUME NEW u, StageOK(u), pc'[u] = pc[u], own'[u] = own[u], frame'[u] = frame[u],
           pc[u] \in {"r_take", "r_place", "s_link", "s_merge"} =>
              list'[own[u]] = list[own[u]] /\ bump'[own[u]] = bump[own[u]]
    PROVE  StageOK(u)'
BY DEF StageOK, ChosenOK, TakenOK

\* A step that leaves lists and bump offsets alone.
LEMMA ListsStay ==
    ASSUME ListsOK, StagesOK, NEW t \in Threads, OthersStay(t),
           list' = list, bump' = bump, pc[t] # "s_merge", StageOK(t)'
    PROVE  ListsOK' /\ StagesOK'
<1>1. StagesOK'
  <2>1. ASSUME NEW u \in Threads, u # t PROVE StageOK(u)'
      BY <2>1, StageStays DEF StagesOK, OthersStay
  <2> QED
      BY <2>1 DEF StagesOK
<1>2. ListsOK'
  <2> SUFFICES ASSUME NEW a \in Arenas
               PROVE  \/ \E u \in Threads : pc'[u] = "s_merge" /\ own'[u] = a
                      \/ Good(list'[a], bump'[a])
      BY DEF ListsOK
  <2>1. \A u \in Threads : pc[u] = "s_merge" => pc'[u] = pc[u] /\ own'[u] = own[u]
      BY DEF OthersStay
  <2> QED
      BY <2>1 DEF ListsOK
<1> QED
    BY <1>1, <1>2

\* A step of the thread that has locked the arena whose list or bump offset it changes.
LEMMA ListStep ==
    ASSUME LockInv, ListsOK, StagesOK, NEW t \in Threads, OthersStay(t),
           own[t] \in Holds(t),
           \A a \in Arenas : a # own[t] => list'[a] = list[a] /\ bump'[a] = bump[a],
           StageOK(t)',
           \/ pc'[t] = "s_merge" /\ own'[t] = own[t]
           \/ Good(list'[own[t]], bump'[own[t]])
    PROVE  ListsOK' /\ StagesOK'
<1>1. own \in [Threads -> Arenas] /\ own[t] \in Arenas
    BY DEF LockInv, LockTypeOK
<1>2. ASSUME NEW u \in Threads, u # t,
             pc[u] \in {"r_take", "r_place", "s_link", "s_merge"}
      PROVE  own[u] # own[t]
  <2>1. own[u] \in Holds(u)
      BY <1>2, StageHolds
  <2> QED
      BY <1>1, <1>2, <2>1 DEF LockInv, MutualExclusion
<1>3. StagesOK'
  <2>1. ASSUME NEW u \in Threads, u # t PROVE StageOK(u)'
      BY <1>1, <1>2, <2>1, StageStays DEF StagesOK, OthersStay
  <2> QED
      BY <2>1 DEF StagesOK
<1>4. ListsOK'
  <2> SUFFICES ASSUME NEW a \in Arenas
               PROVE  \/ \E u \in Threads : pc'[u] = "s_merge" /\ own'[u] = a
                      \/ Good(list'[a], bump'[a])
      BY DEF ListsOK
  <2>1. CASE a = own[t]
      BY <2>1
  <2>2. CASE a # own[t]
    <3>1. \A u \in Threads : pc[u] = "s_merge" /\ own[u] = a => pc'[u] = pc[u] /\ own'[u] = own[u]
        BY <2>2 DEF OthersStay
    <3> QED
        BY <2>2, <3>1 DEF ListsOK
  <2> QED
      BY <2>1, <2>2
<1> QED
    BY <1>3, <1>4

\* A thread that has locked an arena and is not about to merge sees its list in order.
LEMMA LockedIsGood ==
    ASSUME LockInv, ListsOK, NEW t \in Threads, own[t] \in Holds(t), pc[t] # "s_merge"
    PROVE  Good(list[own[t]], bump[own[t]])
<1>1. own[t] \in Arenas
    BY DEF LockInv, LockTypeOK
<1>2. ASSUME NEW u \in Threads, pc[u] = "s_merge", own[u] = own[t] PROVE FALSE
  <2>1. own[u] \in Holds(u)
      BY <1>2, StageHolds
  <2> QED
      BY <1>1, <1>2, <2>1 DEF LockInv, MutualExclusion
<1> QED
    BY <1>1, <1>2 DEF ListsOK

-----------------------------------------------------------------------------
(***************************************************************************)
(* The invariant, one action at a time.                                    *)
(***************************************************************************)

\* A request takes at least a page.
LEMMA NeededIsPositive ==
    ASSUME NEW size \in Nat
    PROVE  NeededPages(size) \in Nat \ {0}
<1> DEFINE x == size + HeaderUnits + PageUnits - 1
           q == x \div PageUnits
<1>1. PageUnits \in Nat \ {0} /\ HeaderUnits \in Nat \ {0}
    BY SharedArenaAssumption
<1>2. x \in Nat /\ x >= PageUnits
    BY <1>1
<1> HIDE DEF x
<1>3. q \in Int /\ x < PageUnits * (q + 1)
    BY <1>1, <1>2
<1>4. q >= 1
  <2>1. ASSUME q + 1 <= 1 PROVE FALSE
    <3>1. PageUnits * (q + 1) <= PageUnits
        BY <1>1, <1>3, <2>1
    <3> QED
        BY <1>1, <1>2, <1>3, <3>1
  <2> QED
      BY <1>3, <2>1
<1>5. NeededPages(size) = q
    BY DEF NeededPages, x
<1> QED
    BY <1>3, <1>4, <1>5

\* The frames of the other threads stay what they are.
LEMMA FrameStep ==
    ASSUME FrameTypeOK, NEW t \in Threads, OthersStay(t),
           NEW f \in Frames, frame' = [frame EXCEPT ![t] = f],
           pc'[t] \in RetrieveStages => f.n > 0,
           Busy(t)' => FrameBlock(t)' \in Blocks
    PROVE  FrameTypeOK' /\ frame'[t] = f
<1>1. frame' \in [Threads -> Frames] /\ frame'[t] = f
    BY DEF FrameTypeOK
<1>2. ASSUME NEW u \in Threads, u # t
      PROVE  /\ pc'[u] \in RetrieveStages => frame'[u].n > 0
             /\ Busy(u)' => FrameBlock(u)' \in Blocks
    BY <1>2 DEF FrameTypeOK, OthersStay, Busy, Taking, Storing, FrameBlock
<1>3. ASSUME NEW u \in Threads
      PROVE  /\ pc'[u] \in RetrieveStages => frame'[u].n > 0
             /\ Busy(u)' => FrameBlock(u)' \in Blocks
    BY <1>1, <1>2
<1> QED
    BY <1>1, <1>3 DEF FrameTypeOK

\* A call that is over relies on nothing.
LEMMA ReturnFacts ==
    ASSUME LockInv, FrameTypeOK, NEW t \in Threads, Return(t)
    PROVE  OthersStay(t) /\ ~Busy(t)' /\ StageOK(t)' /\ FrameTypeOK'
<1>1. pc'[t] = "idle" /\ frame' = [frame EXCEPT ![t] = NoFrame] /\ OthersStay(t)
    BY DEF Return, Goto, OthersStay, LockInv, LockTypeOK, FrameTypeOK
<1>2. ~Busy(t)' /\ StageOK(t)'
    BY <1>1 DEF Busy, Taking, Storing, StageOK
<1>3. NoFrame \in Frames
    BY EndAssumption DEF NoFrame, Frames, Ends
<1>4. FrameTypeOK'
    BY <1>1, <1>2, <1>3, FrameStep DEF RetrieveStages
<1> QED
    BY <1>1, <1>2, <1>4

\* A stage that leaves the locals alone.
LEMMA GotoFacts ==
    ASSUME LockInv, FrameTypeOK, NEW t \in Threads, NEW s, Goto(t, s), own' = own, frame' = frame
    PROVE  /\ OthersStay(t) /\ pc'[t] = s
           /\ FrameBlock(t)' = FrameBlock(t)
           /\ (s \in RetrieveStages => frame[t].n > 0)
              /\ (Busy(t)' => FrameBlock(t) \in Blocks) => FrameTypeOK'
<1>1. pc'[t] = s /\ OthersStay(t)
    BY DEF Goto, OthersStay, LockInv, LockTypeOK
<1>2. FrameBlock(t)' = FrameBlock(t)
    BY DEF FrameBlock
<1>3. frame[t] \in Frames /\ frame' = [frame EXCEPT ![t] = frame[t]]
    BY DEF FrameTypeOK
<1>4. ASSUME s \in RetrieveStages => frame[t].n > 0, Busy(t)' => FrameBlock(t) \in Blocks
      PROVE  FrameTypeOK'
    BY <1>1, <1>2, <1>3, <1>4, FrameStep
<1> QED
    BY <1>1, <1>2, <1>4

\* The free pages stay those of the lists.
LEMMA FreeStays ==
    ASSUME list' = list
    PROVE  Free' = Free
BY DEF Free

\* The free pages change with the list of one arena.
LEMMA FreeChanges ==
    ASSUME ArenaTypeOK, NEW a \in Arenas, NEW L, list' = [list EXCEPT ![a] = L]
    PROVE  /\ Free[a] = FreePages(list[a]) /\ Free'[a] = FreePages(L) /\ list'[a] = L
           /\ \A b \in Arenas : b # a => Free'[b] = Free[b] /\ list'[b] = list[b]
BY DEF Free, ArenaTypeOK

\* A step that gives and takes no block and leaves the lists alone.
LEMMA QuietStep ==
    ASSUME ArenaInv, LockInv', NEW t \in Threads, OthersStay(t), FrameTypeOK',
           list' = list, bump' = bump, held' = held, lost' = lost, balance' = balance,
           pc[t] # "s_merge", StageOK(t)', Busy(t)' <=> Busy(t),
           Busy(t) => FrameBlock(t)' = FrameBlock(t) /\ (Logging(t)' <=> Logging(t))
    PROVE  ArenaInv'
<1>1. ArenaTypeOK'
    BY DEF ArenaInv, ArenaTypeOK
<1>2. ListsOK' /\ StagesOK'
    BY ListsStay DEF ArenaInv
<1>3. Claims' = Claims /\ Logged' = Logged
    BY ClaimsStay
<1>4. Free' = Free
    BY FreeStays
<1>5. Ledger(Claims, Free, bump)' /\ Balanced(Logged, balance)'
    BY <1>3, <1>4 DEF ArenaInv, Ledger, Balanced
<1> QED
    BY <1>1, <1>2, <1>5 DEF ArenaInv

\* Entering retrieve.
LEMMA ArenaInvRCall ==
    ASSUME ArenaInv, LockInv', NEW t \in Threads, R_Call(t)
    PROVE  ArenaInv'
<1>1. PICK a \in Arenas, r \in Requests :
          /\ own' = [own EXCEPT ![t] = a]
          /\ frame' = [frame EXCEPT ![t] =
                          [NoFrame EXCEPT !.size = r.size, !.align = r.align,
                                          !.n = NeededPages(r.size)]]
    BY DEF R_Call
<1> DEFINE f == [NoFrame EXCEPT !.size = r.size, !.align = r.align,
                                !.n = NeededPages(r.size)]
<1>2. f \in Frames /\ f.n > 0
  <2>1. r.size \in Nat /\ r.align \in Nat
      BY SharedArenaAssumption
  <2>2. NeededPages(r.size) \in Nat \ {0}
      BY <2>1, NeededIsPositive
  <2> DEFINE need == NeededPages(r.size)
             f1 == [NoFrame EXCEPT !.size = r.size]
             f2 == [f1 EXCEPT !.align = r.align]
             f3 == [f2 EXCEPT !.n = need]
  <2>3. f = f3
      OBVIOUS
  <2> HIDE DEF f
  <2>4. need \in Nat /\ need > 0
      BY <2>2
  <2> HIDE DEF need
  <2>5. f1 \in Frames
    <3>1. NoFrame \in Frames
        BY EndAssumption DEF NoFrame, Frames, Ends
    <3> QED
        BY <2>1, <3>1 DEF Frames
  <2> HIDE DEF f1
  <2>6. f2 \in Frames
      BY <2>1, <2>5 DEF Frames
  <2> HIDE DEF f2
  <2>7. f3 \in Frames /\ f3.n = need
      BY <2>4, <2>6 DEF Frames
  <2> QED
      BY <2>3, <2>4, <2>7
<1> HIDE DEF f
<1>3. /\ pc[t] = "idle" /\ pc' = [pc EXCEPT ![t] = "r_lock"]
      /\ list' = list /\ bump' = bump /\ held' = held /\ lost' = lost /\ balance' = balance
    BY DEF R_Call, At, Goto, arenaVars
<1>4. pc'[t] = "r_lock" /\ OthersStay(t)
    BY <1>1, <1>3 DEF OthersStay, ArenaInv, LockInv, LockTypeOK, ArenaTypeOK, FrameTypeOK
<1>5. ~Busy(t) /\ ~Busy(t)' /\ StageOK(t)'
    BY <1>3, <1>4 DEF Busy, Taking, Storing, StageOK
<1>6. FrameTypeOK'
  <2>1. frame' = [frame EXCEPT ![t] = f]
      BY <1>1 DEF f
  <2> QED
      BY <1>2, <1>4, <1>5, <2>1, FrameStep DEF ArenaInv, ArenaTypeOK
<1> QED
    BY <1>3, <1>4, <1>5, <1>6, QuietStep

\* Waiting for the lock of an arena and getting it.
LEMMA ArenaInvLock ==
    ASSUME ArenaInv, LockInv', NEW t \in Threads, R_Lock(t) \/ S_Lock1(t) \/ S_Lock2(t)
    PROVE  ArenaInv'
<1>1. /\ pc[t] \in {"r_lock", "s_lock1", "s_lock2"}
      /\ own' = own /\ frame' = frame
      /\ list' = list /\ bump' = bump /\ held' = held /\ lost' = lost /\ balance' = balance
    BY DEF R_Lock, S_Lock1, S_Lock2, At
<1>2. PICK s : /\ Goto(t, s)
               /\ IF pc[t] = "r_lock" THEN s = "r_scan" ELSE s \in {"s_lock2", "s_log"}
    BY DEF R_Lock, S_Lock1, S_Lock2, At
<1>3. /\ OthersStay(t) /\ pc'[t] = s
      /\ FrameBlock(t)' = FrameBlock(t)
      /\ (s \in RetrieveStages => frame[t].n > 0)
         /\ (Busy(t)' => FrameBlock(t) \in Blocks) => FrameTypeOK'
    BY <1>1, <1>2, GotoFacts DEF ArenaInv, ArenaTypeOK
<1>4. /\ Busy(t)' <=> Busy(t)
      /\ Busy(t) => (Logging(t)' <=> Logging(t))
      /\ StageOK(t)'
      /\ s \in RetrieveStages => pc[t] \in RetrieveStages
    BY <1>1, <1>2, <1>3 DEF Busy, Taking, Storing, Logging, StageOK, RetrieveStages
<1>5. FrameTypeOK'
    BY <1>3, <1>4 DEF ArenaInv, ArenaTypeOK, FrameTypeOK
<1> QED
    BY <1>1, <1>3, <1>4, <1>5, QuietStep

\* The scan of the free list.
LEMMA ArenaInvRScan ==
    ASSUME ArenaInv, LockInv', NEW t \in Threads, R_Scan(t)
    PROVE  ArenaInv'
<1> DEFINE a == own[t]
           found == BestFit(list[a], frame[t].n)
           best == IF SkipsList(t) THEN End ELSE found.best
<1>1. /\ pc[t] = "r_scan" /\ Goto(t, "r_take") /\ own' = own
      /\ bump' = bump /\ held' = held /\ lost' = lost /\ balance' = balance
      /\ list' = [list EXCEPT ![a] = IF SkipsList(t) THEN @ ELSE found.list]
      /\ frame' = [frame EXCEPT ![t].best = best]
    BY DEF R_Scan, At
<1>2. a \in Arenas /\ a \in Holds(t) /\ Good(list[a], bump[a])
  <2>1. a \in Arenas
      BY DEF ArenaInv, LockInv, LockTypeOK
  <2> QED
      BY <1>1, <2>1, StageHolds, LockedIsGood DEF ArenaInv
<1>3. /\ found.list = list[a]
      /\ found.best = End \/ (found.best \in Nodes(list[a]) /\ list[a].blk[found.best].size >= frame[t].n)
  <2>1. frame[t].n \in Nat
      BY DEF ArenaInv, ArenaTypeOK, FrameTypeOK, Frames
  <2> QED
      BY <1>2, <2>1, BestInList
<1> HIDE DEF found
<1>4. list' = list
    BY <1>1, <1>2, <1>3 DEF ArenaInv, ArenaTypeOK
<1>5. best \in Ends
  <2>1. \A o \in Nodes(list[a]) : o \in Pages
      BY <1>2, GoodFacts
  <2> QED
      BY <1>3, <2>1 DEF Ends
<1>6. best = End \/ (best \in Nodes(list[a]) /\ list[a].blk[best].size >= frame[t].n)
    BY <1>3
<1> HIDE DEF best
<1> DEFINE f == [frame[t] EXCEPT !.best = best]
<1>7. /\ f \in Frames /\ frame' = [frame EXCEPT ![t] = f] /\ f.best = best /\ f.n = frame[t].n
      /\ frame[t].n > 0
    BY <1>1, <1>5 DEF Frames, ArenaInv, ArenaTypeOK, FrameTypeOK, RetrieveStages
<1> HIDE DEF f
<1>8. pc'[t] = "r_take" /\ frame'[t] = f /\ OthersStay(t)
    BY <1>1, <1>7 DEF Goto, OthersStay, ArenaInv, LockInv, LockTypeOK, ArenaTypeOK, FrameTypeOK
<1>9. ~Busy(t) /\ ~Busy(t)'
    BY <1>1, <1>8 DEF Busy, Taking, Storing
<1>10. StageOK(t)'
    BY <1>1, <1>4, <1>6, <1>7, <1>8 DEF StageOK, ChosenOK
<1>11. FrameTypeOK'
    BY <1>7, <1>8, <1>9, FrameStep DEF ArenaInv, ArenaTypeOK
<1> QED
    BY <1>1, <1>4, <1>8, <1>9, <1>10, <1>11, QuietStep

\* Neither the list nor the bump area has a block.
LEMMA ArenaInvRExhausted ==
    ASSUME ArenaInv, LockInv', NEW t \in Threads, R_Exhausted(t)
    PROVE  ArenaInv'
<1>1. /\ pc[t] = "r_take" /\ Return(t)
      /\ list' = list /\ bump' = bump /\ held' = held /\ lost' = lost /\ balance' = balance
    BY DEF R_Exhausted, At
<1>2. OthersStay(t) /\ ~Busy(t)' /\ StageOK(t)' /\ FrameTypeOK'
    BY <1>1, ReturnFacts DEF ArenaInv, ArenaTypeOK
<1>3. ~Busy(t)
    BY <1>1 DEF Busy, Taking, Storing
<1> QED
    BY <1>1, <1>2, <1>3, QuietStep

\* The parts of the invariant, one step later.
LEMMA ArenaNext ==
    ASSUME LockInv', ArenaTypeOK', ListsOK', StagesOK',
           Ledger(Claims', Free', bump'), Balanced(Logged', balance')
    PROVE  ArenaInv'
BY DEF ArenaInv, Ledger, Balanced

\* The parts of the invariant now.
LEMMA ArenaNow ==
    ASSUME ArenaInv, NEW t \in Threads
    PROVE  /\ LockInv /\ ArenaTypeOK /\ FrameTypeOK /\ ListsOK /\ StagesOK /\ StageOK(t)
           /\ Ledger(Claims, Free, bump) /\ Balanced(Logged, balance)
           /\ own[t] \in Arenas /\ pc[t] \in Stages /\ ProcOf[t] \in Procs
           /\ list[own[t]] \in Lists /\ bump[own[t]] \in 0 .. TotalPages /\ frame[t] \in Frames
           /\ Logged \subseteq Claims
<1>1. own[t] \in Arenas /\ pc[t] \in Stages /\ ProcOf[t] \in Procs
    BY SharedArenaAssumption DEF ArenaInv, LockInv, LockTypeOK
<1>2. Logged \subseteq Claims
    BY DEF Logged
<1> QED
    BY <1>1, <1>2 DEF ArenaInv, ArenaTypeOK, FrameTypeOK, StagesOK

\* Taking a block out of the free list.
LEMMA ArenaInvRTakeFree ==
    ASSUME ArenaInv, LockInv', NEW t \in Threads, R_TakeFree(t)
    PROVE  ArenaInv'
<1> DEFINE a == own[t]
           L == list[a]
           n == frame[t].n
           best == frame[t].best
           off == TakenAt(L, best, n)
           L1 == Take(L, best, n)
           f == [frame[t] EXCEPT !.off = off]
           d == BusyClaim(t)'
<1>1. /\ pc[t] = "r_take" /\ best # End /\ Goto(t, "r_place") /\ own' = own
      /\ bump' = bump /\ held' = held /\ lost' = lost /\ balance' = balance
      /\ list' = [list EXCEPT ![a] = L1]
      /\ frame' = [frame EXCEPT ![t].off = off]
    BY DEF R_TakeFree, At
<1>2. /\ LockInv /\ ArenaTypeOK /\ FrameTypeOK /\ ListsOK /\ StagesOK /\ StageOK(t)
      /\ Ledger(Claims, Free, bump) /\ Balanced(Logged, balance)
      /\ a \in Arenas /\ L \in Lists /\ bump[a] \in 0 .. TotalPages /\ frame[t] \in Frames
    BY ArenaNow
<1>3. a \in Holds(t) /\ Good(L, bump[a])
    BY <1>1, <1>2, StageHolds, LockedIsGood
<1>4. /\ best \in Nodes(L) /\ n \in Nat \ {0} /\ L.blk[best].size \in Nat /\ n <= L.blk[best].size
  <2>1. best \in Nodes(L) /\ L.blk[best].size >= n
      BY <1>1, <1>2 DEF StageOK, ChosenOK
  <2>2. n \in Nat \ {0}
      BY <1>1, <1>2 DEF FrameTypeOK, Frames, RetrieveStages
  <2>3. L.blk[best].size \in Nat
      BY <1>3, <2>1, GoodFacts
  <2> QED
      BY <2>1, <2>2, <2>3
<1>5. /\ Good(L1, bump[a])
      /\ off \in Pages /\ off + n <= bump[a]
      /\ Run(off, n) \subseteq FreePages(L)
      /\ FreePages(L1) = FreePages(L) \ Run(off, n)
    BY <1>3, <1>4, TakeChain
<1>6. PutBack(L1, best, off, n) = L
    BY <1>3, <1>4, PutBackTake
<1>7. L1 \in Lists
    BY <1>5, GoodFacts
<1> HIDE DEF off, L1, L
<1>8. f \in Frames /\ f.off = off /\ f.n = n /\ f.best = best /\ frame' = [frame EXCEPT ![t] = f]
  <2>1. off \in Nat
      BY <1>5, GeometryAssumption DEF Pages
  <2> QED
      BY <1>1, <1>2, <2>1 DEF Frames, FrameTypeOK
<1>9. pc'[t] = "r_place" /\ OthersStay(t) /\ own'[t] = a /\ frame'[t] = f
  <2> HIDE DEF f
  <2> QED
      BY <1>1, <1>2, <1>8 DEF Goto, OthersStay, LockInv, LockTypeOK, FrameTypeOK
<1> HIDE DEF f
<1>10. ~Busy(t) /\ Busy(t)' /\ ~Logging(t)'
    BY <1>1, <1>9 DEF Busy, Taking, Storing, Logging
<1>11. FrameBlock(t)' = [arena |-> a, off |-> off, n |-> n]
    BY <1>8, <1>9 DEF FrameBlock
<1>12. FrameBlock(t)' \in Blocks
  <2>1. n \in 1 .. TotalPages
      BY <1>2, <1>4, <1>5, GeometryAssumption DEF Pages
  <2> QED
      BY <1>2, <1>5, <1>11, <2>1 DEF Blocks
<1>13. FrameTypeOK'
  <2>1. FrameTypeOK /\ OthersStay(t) /\ f \in Frames /\ f.n > 0 /\ frame' = [frame EXCEPT ![t] = f]
      BY <1>2, <1>4, <1>8, <1>9
  <2> HIDE DEF n, best
  <2>2. QED
      BY <1>12, <2>1, FrameStep
<1>14. /\ Free[a] = FreePages(L) /\ Free'[a] = FreePages(L1) /\ list'[a] = L1
       /\ \A b \in Arenas : b # a => Free'[b] = Free[b] /\ list'[b] = list[b]
    BY <1>1, <1>2, FreeChanges DEF L
<1>15. ArenaTypeOK'
    BY <1>1, <1>2, <1>7, <1>13 DEF ArenaTypeOK
<1>16. StageOK(t)'
  <2>1. TakenOK(t)'
    <3>1. /\ list'[own'[t]] = L1 /\ frame'[t].best = best /\ frame'[t].off = off
          /\ frame'[t].n = n /\ bump'[own'[t]] = bump[a]
        BY <1>1, <1>8, <1>9, <1>14
    <3>2. PutBack(list'[own'[t]], frame'[t].best, frame'[t].off, frame'[t].n) = L
        BY <1>6, <3>1
    <3>3. frame'[t].best # End
        BY <1>1, <3>1
    <3>4. L1 = Take(L, best, n) /\ off = TakenAt(L, best, n)
        BY DEF L1, off
    <3> QED
        BY <1>3, <1>4, <3>1, <3>2, <3>3, <3>4 DEF TakenOK
  <2> QED
      BY <1>9, <2>1 DEF StageOK
<1>17. ListsOK' /\ StagesOK'
    BY <1>1, <1>2, <1>3, <1>5, <1>9, <1>14, <1>16, ListStep
<1>18. Claims' = Claims \cup {d} /\ Logged' = Logged
    BY <1>1, <1>9, <1>10, ClaimBegins
<1>19. d.block = FrameBlock(t)' /\ d.block.arena = a /\ PagesOf(d.block) = Run(off, n)
    BY <1>11 DEF BusyClaim, PagesOf
<1>20. Ledger(Claims \cup {d}, Free', bump)
  <2> DEFINE F1 == Free'
  <2>1. /\ PagesOf(d.block) \subseteq Free[d.block.arena]
        /\ F1[d.block.arena] = Free[d.block.arena] \ PagesOf(d.block)
        /\ \A b \in Arenas : b # d.block.arena => F1[b] = Free[b]
      BY <1>5, <1>14, <1>19
  <2>2. d.block \in Blocks
      BY <1>12, <1>19
  <2> HIDE DEF d, F1
  <2>3. Ledger(Claims \cup {d}, F1, bump)
      BY <1>2, <2>1, <2>2, LedgerTake
  <2> QED
      BY <2>3 DEF F1
<1> QED
    BY <1>1, <1>2, <1>15, <1>17, <1>18, <1>20, ArenaNext

\* Taking a block from the bump area.
LEMMA ArenaInvRTakeBump ==
    ASSUME ArenaInv, LockInv', NEW t \in Threads, R_TakeBump(t)
    PROVE  ArenaInv'
<1> DEFINE a == own[t]
           n == frame[t].n
           off == bump[a]
           f == [frame[t] EXCEPT !.off = off]
           d == BusyClaim(t)'
<1>1. /\ pc[t] = "r_take" /\ frame[t].best = End /\ off + n <= TotalPages
      /\ Goto(t, "r_place") /\ own' = own
      /\ list' = list /\ held' = held /\ lost' = lost /\ balance' = balance
      /\ bump' = [bump EXCEPT ![a] = off + n]
      /\ frame' = [frame EXCEPT ![t].off = off]
    BY DEF R_TakeBump, At
<1>2. /\ LockInv /\ ArenaTypeOK /\ FrameTypeOK /\ ListsOK /\ StagesOK
      /\ Ledger(Claims, Free, bump) /\ Balanced(Logged, balance)
      /\ a \in Arenas /\ bump[a] \in 0 .. TotalPages /\ frame[t] \in Frames
    BY ArenaNow
<1>3. a \in Holds(t) /\ Good(list[a], off)
    BY <1>1, <1>2, StageHolds, LockedIsGood
<1>4. n \in Nat \ {0} /\ off \in Nat /\ off \in Pages /\ n <= TotalPages
    BY <1>1, <1>2, GeometryAssumption DEF FrameTypeOK, Frames, RetrieveStages, Pages
<1>5. f \in Frames /\ f.off = off /\ f.n = n /\ f.best = End /\ frame' = [frame EXCEPT ![t] = f]
    BY <1>1, <1>2, <1>4 DEF Frames, FrameTypeOK
<1>6. /\ bump'[a] = off + n
      /\ \A b \in Arenas : b # a => bump'[b] = bump[b]
      /\ bump' \in [Arenas -> 0 .. TotalPages]
    BY <1>1, <1>2, <1>4 DEF ArenaTypeOK
<1> HIDE DEF off
<1>7. pc'[t] = "r_place" /\ OthersStay(t) /\ own'[t] = a /\ frame'[t] = f
  <2> HIDE DEF f
  <2> QED
      BY <1>1, <1>2, <1>5 DEF Goto, OthersStay, LockInv, LockTypeOK, FrameTypeOK
<1> HIDE DEF f
<1>8. ~Busy(t) /\ Busy(t)' /\ ~Logging(t)'
    BY <1>1, <1>7 DEF Busy, Taking, Storing, Logging
<1>9. FrameBlock(t)' = [arena |-> a, off |-> off, n |-> n]
    BY <1>5, <1>7 DEF FrameBlock
<1>10. FrameBlock(t)' \in Blocks
    BY <1>2, <1>4, <1>9 DEF Blocks
<1>11. FrameTypeOK'
  <2>1. FrameTypeOK /\ OthersStay(t) /\ f \in Frames /\ f.n > 0 /\ frame' = [frame EXCEPT ![t] = f]
      BY <1>2, <1>4, <1>5, <1>7
  <2> HIDE DEF n
  <2> QED
      BY <1>10, <2>1, FrameStep
<1>12. ArenaTypeOK'
    BY <1>1, <1>2, <1>6, <1>11 DEF ArenaTypeOK
<1>13. StageOK(t)'
    BY <1>1, <1>3, <1>5, <1>6, <1>7 DEF StageOK, TakenOK
<1>14. Good(list'[a], bump'[a])
  <2> DEFINE m == off + n
  <2>1. m \in 0 .. TotalPages /\ off <= m
      BY <1>1, <1>4
  <2> HIDE DEF m
  <2>2. Good(list[a], m)
      BY <1>3, <2>1, GoodGrows
  <2> QED
      BY <1>1, <1>6, <2>2 DEF m
<1>15. ListsOK' /\ StagesOK'
    BY <1>1, <1>2, <1>3, <1>6, <1>7, <1>13, <1>14, ListStep
<1>16. Claims' = Claims \cup {d} /\ Logged' = Logged
    BY <1>1, <1>7, <1>8, ClaimBegins
<1>17. d.block = FrameBlock(t)' /\ d.block.arena = a /\ d.block.off = off /\ d.block.n = n
    BY <1>9 DEF BusyClaim
<1>18. Ledger(Claims \cup {d}, Free, bump')
  <2> DEFINE m1 == bump'
  <2>1. /\ m1[d.block.arena] = bump[d.block.arena] + d.block.n
        /\ d.block.off = bump[d.block.arena]
        /\ \A b \in Arenas : b # d.block.arena => m1[b] = bump[b]
      BY <1>6, <1>17 DEF off
  <2>2. d.block \in Blocks
      BY <1>10, <1>17
  <2> HIDE DEF d, m1
  <2>3. Ledger(Claims \cup {d}, Free, m1)
      BY <1>2, <2>1, <2>2, LedgerGrow
  <2> QED
      BY <2>3 DEF m1
<1>19. Free' = Free
    BY <1>1, FreeStays
<1> QED
    BY <1>1, <1>2, <1>12, <1>15, <1>16, <1>18, <1>19, ArenaNext

\* The headers do not fit: the block stays taken.
LEMMA ArenaInvRMisplaced ==
    ASSUME ArenaInv, LockInv', NEW t \in Threads, R_Misplaced(t)
    PROVE  ArenaInv'
<1> DEFINE why == "misplaced"
           c == BusyClaim(t)
           d == LostClaim(why, FrameBlock(t))
<1>1. /\ pc[t] = "r_place" /\ Return(t)
      /\ list' = list /\ bump' = bump /\ held' = held /\ balance' = balance
      /\ lost' = lost \cup {Loss(t, why)}
    BY DEF R_Misplaced, At
<1>2. /\ LockInv /\ ArenaTypeOK /\ FrameTypeOK /\ ListsOK /\ StagesOK
      /\ Ledger(Claims, Free, bump) /\ Balanced(Logged, balance)
    BY ArenaNow
<1>3. OthersStay(t) /\ ~Busy(t)' /\ StageOK(t)' /\ FrameTypeOK'
    BY <1>1, <1>2, ReturnFacts
<1>4. Busy(t) /\ ~Logging(t) /\ FrameBlock(t) \in Blocks
    BY <1>1, <1>2 DEF Busy, Taking, Logging, FrameTypeOK
<1>5. why \in Whys /\ why # "refused"
    BY DEF Whys
<1>6. ArenaTypeOK'
  <2>1. Loss(t, why) \in [arena : Arenas, off : Pages, n : 1 .. TotalPages, why : Whys]
      BY <1>4, <1>5 DEF Loss, FrameBlock, Blocks
  <2> QED
      BY <1>1, <1>2, <1>3, <2>1 DEF ArenaTypeOK
<1>7. ListsOK' /\ StagesOK'
    BY <1>1, <1>2, <1>3, ListsStay
<1> HIDE DEF why
<1>8. Claims' = (Claims \ {c}) \cup {d} /\ c \in Claims /\ d.block = c.block /\ Logged' = Logged
    BY <1>1, <1>3, <1>4, <1>5, ClaimLost
<1> HIDE DEF c, d
<1>9. Ledger((Claims \ {c}) \cup {d}, Free, bump)
    BY <1>2, <1>8, LedgerMove
<1>10. Free' = Free
    BY <1>1, FreeStays
<1> QED
    BY <1>1, <1>2, <1>6, <1>7, <1>8, <1>9, <1>10, ArenaNext

\* What the ledger says of a block on its way: its pages are below the bump offset, and
\* none of them is free.
LEMMA BusyFacts ==
    ASSUME ArenaInv, NEW t \in Threads, Busy(t)
    PROVE  LET off == frame[t].off
               n == frame[t].n
           IN  /\ FrameBlock(t) \in Blocks /\ BusyClaim(t) \in Claims
               /\ own[t] \in Arenas /\ off \in Pages /\ off \in Nat /\ n \in Nat \ {0}
               /\ off + n <= bump[own[t]]
               /\ PagesOf(FrameBlock(t)) = Run(off, n)
               /\ Run(off, n) \cap FreePages(list[own[t]]) = {}
<1> DEFINE off == frame[t].off
           n == frame[t].n
           c == BusyClaim(t)
           b == FrameBlock(t)
<1>1. Ledger(Claims, Free, bump) /\ FrameTypeOK /\ own[t] \in Arenas /\ bump[own[t]] \in 0 .. TotalPages
    BY ArenaNow
<1>2. c \in Claims
    BY BusyMembers DEF Claims
<1>3. b \in Blocks /\ c.block = b /\ b.arena = own[t] /\ b.off = off /\ b.n = n
    BY <1>1 DEF FrameTypeOK, BusyClaim, FrameBlock
<1> HIDE DEF b
<1>4. /\ off \in Nat /\ off \in Pages /\ n \in Nat /\ n > 0
      /\ PagesOf(b) = Run(off, n)
      /\ \A p : p \in PagesOf(b) <=> p \in Nat /\ off <= p /\ p < off + n
    BY <1>3, BlockPages
<1>5. \A p \in PagesOf(b) : p \notin Free[own[t]] /\ p < bump[own[t]]
    BY <1>1, <1>2, <1>3 DEF Ledger
<1>6. Run(off, n) \cap FreePages(list[own[t]]) = {}
    BY <1>1, <1>4, <1>5 DEF Free
<1>7. off + n <= bump[own[t]]
  <2> DEFINE last == off + n - 1
  <2>1. last \in PagesOf(b)
      BY <1>4
  <2> QED
      BY <1>1, <1>4, <1>5, <2>1
<1> QED
    BY <1>1, <1>2, <1>3, <1>4, <1>6, <1>7 DEF b

\* An entry in the log.
LEMMA AppendFacts ==
    ASSUME ArenaTypeOK, NEW t \in Threads, own[t] \in Arenas,
           NEW change \in Int, Append(t, change)
    PROVE  /\ balance' \in [Arenas -> [Pages -> Int]]
           /\ \A a \in Arenas, p \in Pages :
                 balance'[a][p] = IF a = FrameBlock(t).arena /\ p \in PagesOf(FrameBlock(t))
                                  THEN balance[a][p] + change ELSE balance[a][p]
<1> DEFINE a0 == own[t]
           g == [p \in Pages |-> IF p \in PagesOf(FrameBlock(t)) THEN balance[a0][p] + change
                                                                 ELSE balance[a0][p]]
<1>1. balance' = [balance EXCEPT ![a0] = g]
    BY DEF Append, EntryArena
<1>2. balance \in [Arenas -> [Pages -> Int]]
    BY DEF ArenaTypeOK
<1>3. g \in [Pages -> Int]
    BY <1>2
<1>4. \A p \in Pages : g[p] = IF p \in PagesOf(FrameBlock(t)) THEN balance[a0][p] + change
                                                              ELSE balance[a0][p]
    OBVIOUS
<1>5. FrameBlock(t).arena = a0
    BY DEF FrameBlock
<1> HIDE DEF g
<1>6. balance' \in [Arenas -> [Pages -> Int]]
    BY <1>1, <1>2, <1>3
<1>7. \A a \in Arenas : balance'[a] = IF a = a0 THEN g ELSE balance[a]
    BY <1>1, <1>2
<1> QED
    BY <1>4, <1>5, <1>6, <1>7

\* Logging the Alloc and handing the block to the client.
LEMMA ArenaInvRLog ==
    ASSUME ArenaInv, LockInv', NEW t \in Threads, R_Log(t)
    PROVE  ArenaInv'
<1> DEFINE a == own[t]
           p == ProcOf[t]
           L == list[a]
           b == FrameBlock(t)
           off == frame[t].off
           n == frame[t].n
           L1 == Overwrite(L, off, n)
           c == BusyClaim(t)
           d == HeldClaim(p, b)
<1>1. /\ pc[t] = "r_place" /\ Return(t) /\ Append(t, 1)
      /\ bump' = bump /\ lost' = lost
      /\ list' = [list EXCEPT ![a] = L1]
      /\ held' = [held EXCEPT ![p] = @ \cup {b}]
    BY DEF R_Log, At
<1>2. /\ LockInv /\ ArenaTypeOK /\ FrameTypeOK /\ ListsOK /\ StagesOK
      /\ Ledger(Claims, Free, bump) /\ Balanced(Logged, balance)
      /\ a \in Arenas /\ p \in Procs /\ L \in Lists /\ Logged \subseteq Claims
    BY ArenaNow
<1>3. OthersStay(t) /\ ~Busy(t)' /\ StageOK(t)' /\ FrameTypeOK'
    BY <1>1, <1>2, ReturnFacts
<1>4. a \in Holds(t) /\ Good(L, bump[a]) /\ Busy(t) /\ ~Logging(t)
    BY <1>1, <1>2, StageHolds, LockedIsGood DEF Busy, Taking, Logging
<1>5. b \in Blocks /\ off \in Nat /\ n \in Nat /\ Run(off, n) \cap FreePages(L) = {}
    BY <1>4, BusyFacts
<1>6. Good(L1, bump[a]) /\ FreePages(L1) = FreePages(L)
    BY <1>4, <1>5, OverwriteGood
<1>7. L1 \in Lists
    BY <1>6, GoodFacts
<1> HIDE DEF L1, L
<1>8. /\ balance' \in [Arenas -> [Pages -> Int]]
      /\ \A o \in Arenas, q \in Pages :
            balance'[o][q] = IF o = b.arena /\ q \in PagesOf(b)
                             THEN balance[o][q] + 1 ELSE balance[o][q]
    BY <1>1, <1>2, AppendFacts
<1> HIDE DEF b
<1>9. /\ Free[a] = FreePages(L) /\ Free'[a] = FreePages(L1) /\ list'[a] = L1
      /\ \A o \in Arenas : o # a => Free'[o] = Free[o] /\ list'[o] = list[o]
    BY <1>1, <1>2, FreeChanges DEF L
<1>10. \A o \in Arenas : Free'[o] = Free[o]
    BY <1>6, <1>9
<1>11. ArenaTypeOK'
    BY <1>1, <1>2, <1>3, <1>5, <1>7, <1>8 DEF ArenaTypeOK
<1>12. ListsOK' /\ StagesOK'
    BY <1>1, <1>2, <1>3, <1>4, <1>6, <1>9, ListStep
<1>13. /\ Claims' = (Claims \ {c}) \cup {d} /\ Logged' = Logged \cup {d}
       /\ c \in Claims /\ c \notin Logged /\ d.block = c.block /\ c.block = b
  <2>1. held \in [Procs -> SUBSET Blocks]
      BY <1>2 DEF ArenaTypeOK
  <2>2. c.block = b
      BY DEF BusyClaim, b
  <2> QED
      BY <1>1, <1>2, <1>3, <1>4, <2>1, <2>2, ClaimHanded DEF b
<1> HIDE DEF c, d
<1>14. Ledger((Claims \ {c}) \cup {d}, Free, bump)
    BY <1>2, <1>13, LedgerMove
<1>15. Free' = Free
    BY <1>10 DEF Free
<1>16. Balanced(Logged \cup {d}, balance')
  <2> DEFINE bal1 == balance'
  <2>1. \A o \in Arenas, q \in Pages :
           bal1[o][q] = IF o = c.block.arena /\ q \in PagesOf(c.block)
                        THEN balance[o][q] + 1 ELSE balance[o][q]
      BY <1>8, <1>13
  <2> HIDE DEF bal1
  <2>2. Balanced(Logged \cup {d}, bal1)
      BY <1>2, <1>13, <2>1, BalanceAdd
  <2> QED
      BY <2>2 DEF bal1
<1> QED
    BY <1>1, <1>11, <1>12, <1>13, <1>14, <1>15, <1>16, ArenaNext

\* Giving a block back to the free list it was taken from.
LEMMA ArenaInvRUndoFree ==
    ASSUME ArenaInv, LockInv', NEW t \in Threads, R_Undo(t), frame[t].best # End
    PROVE  ArenaInv'
<1> DEFINE a == own[t]
           best == frame[t].best
           off == frame[t].off
           n == frame[t].n
           L == list[a]
           K == PutBack(L, best, off, n)
           c == BusyClaim(t)
<1>1. /\ pc[t] = "r_place" /\ Return(t)
      /\ bump' = bump /\ held' = held /\ lost' = lost /\ balance' = balance
      /\ list' = [list EXCEPT ![a] = K]
    BY DEF R_Undo, At
<1>2. /\ LockInv /\ ArenaTypeOK /\ FrameTypeOK /\ ListsOK /\ StagesOK /\ StageOK(t)
      /\ Ledger(Claims, Free, bump) /\ Balanced(Logged, balance)
      /\ a \in Arenas
    BY ArenaNow
<1>3. OthersStay(t) /\ ~Busy(t)' /\ StageOK(t)' /\ FrameTypeOK'
    BY <1>1, <1>2, ReturnFacts
<1>4. a \in Holds(t) /\ Busy(t) /\ ~Logging(t)
    BY <1>1, StageHolds DEF Busy, Taking, Logging
<1>5. n \in Nat \ {0} /\ PagesOf(FrameBlock(t)) = Run(off, n)
    BY <1>4, BusyFacts
<1>6. /\ Good(K, bump[a]) /\ best \in Nodes(K) /\ n <= K.blk[best].size
      /\ L = Take(K, best, n) /\ off = TakenAt(K, best, n)
    BY <1>1, <1>2 DEF StageOK, TakenOK
<1> HIDE DEF K
<1>7. FreePages(K) = FreePages(L) \cup Run(off, n)
  <2>1. Run(off, n) \subseteq FreePages(K) /\ FreePages(L) = FreePages(K) \ Run(off, n)
      BY <1>5, <1>6, TakeChain
  <2> QED
      BY <2>1
<1>8. K \in Lists
    BY <1>6, GoodFacts
<1>9. /\ Free[a] = FreePages(L) /\ Free'[a] = FreePages(K) /\ list'[a] = K
      /\ \A o \in Arenas : o # a => Free'[o] = Free[o] /\ list'[o] = list[o]
    BY <1>1, <1>2, FreeChanges
<1> HIDE DEF L
<1>10. ArenaTypeOK'
    BY <1>1, <1>2, <1>3, <1>8 DEF ArenaTypeOK
<1>11. ListsOK' /\ StagesOK'
    BY <1>1, <1>2, <1>3, <1>4, <1>6, <1>9, ListStep
<1>12. Claims' = Claims \ {c} /\ Logged' = Logged /\ c \in Claims
    BY <1>1, <1>3, <1>4, ClaimEnds
<1>13. c.block.arena = a /\ PagesOf(c.block) = Run(off, n)
    BY <1>5 DEF BusyClaim, FrameBlock
<1>14. Ledger(Claims \ {c}, Free', bump)
  <2> DEFINE F1 == Free'
  <2>1. /\ F1[c.block.arena] = Free[c.block.arena] \cup PagesOf(c.block)
        /\ \A o \in Arenas : o # c.block.arena => F1[o] = Free[o]
      BY <1>7, <1>9, <1>13
  <2> HIDE DEF F1, c
  <2>2. Ledger(Claims \ {c}, F1, bump)
      BY <1>2, <1>12, <2>1, LedgerGive
  <2> QED
      BY <2>2 DEF F1
<1> QED
    BY <1>1, <1>2, <1>10, <1>11, <1>12, <1>14, ArenaNext

\* Giving a block back to the bump area.
LEMMA ArenaInvRUndoBump ==
    ASSUME ArenaInv, LockInv', NEW t \in Threads, R_Undo(t), frame[t].best = End
    PROVE  ArenaInv'
<1> DEFINE a == own[t]
           off == frame[t].off
           n == frame[t].n
           c == BusyClaim(t)
<1>1. /\ pc[t] = "r_place" /\ Return(t)
      /\ list' = list /\ held' = held /\ lost' = lost /\ balance' = balance
      /\ bump' = [bump EXCEPT ![a] = bump[a] - n]
    BY DEF R_Undo, At, UndoneBump
<1>2. /\ LockInv /\ ArenaTypeOK /\ FrameTypeOK /\ ListsOK /\ StagesOK /\ StageOK(t)
      /\ Ledger(Claims, Free, bump) /\ Balanced(Logged, balance)
      /\ a \in Arenas /\ bump[a] \in 0 .. TotalPages
    BY ArenaNow
<1>3. OthersStay(t) /\ ~Busy(t)' /\ StageOK(t)' /\ FrameTypeOK'
    BY <1>1, <1>2, ReturnFacts
<1>4. a \in Holds(t) /\ Busy(t) /\ ~Logging(t)
    BY <1>1, StageHolds DEF Busy, Taking, Logging
<1>5. off \in Nat /\ n \in Nat \ {0} /\ Good(list[a], off) /\ bump[a] = off + n
  <2>1. off \in Nat /\ n \in Nat \ {0}
      BY <1>4, BusyFacts
  <2> QED
      BY <1>1, <1>2, <2>1 DEF StageOK, TakenOK
<1>6. /\ bump'[a] = off
      /\ \A b \in Arenas : b # a => bump'[b] = bump[b]
      /\ bump' \in [Arenas -> 0 .. TotalPages]
  <2>1. bump[a] - n = off /\ off \in 0 .. TotalPages
    <3> DEFINE m == bump[a]
    <3>1. m \in 0 .. TotalPages /\ off \in Nat /\ n \in Nat /\ m = off + n
        BY <1>2, <1>5
    <3> HIDE DEF m, off, n
    <3>2. m - n = off /\ off <= m
        BY <3>1
    <3>3. off \in 0 .. TotalPages
        BY <3>1, <3>2, GeometryAssumption
    <3> QED
        BY <3>2, <3>3 DEF m
  <2>2. bump' = [bump EXCEPT ![a] = off] /\ bump \in [Arenas -> 0 .. TotalPages]
      BY <1>1, <1>2, <2>1 DEF ArenaTypeOK
  <2> HIDE DEF off
  <2> QED
      BY <1>2, <2>1, <2>2
<1>7. ArenaTypeOK'
    BY <1>1, <1>2, <1>3, <1>6 DEF ArenaTypeOK
<1>8. Good(list'[a], bump'[a])
    BY <1>1, <1>5, <1>6
<1>9. ListsOK' /\ StagesOK'
    BY <1>1, <1>2, <1>3, <1>4, <1>6, <1>8, ListStep
<1>10. Claims' = Claims \ {c} /\ Logged' = Logged /\ c \in Claims
    BY <1>1, <1>3, <1>4, ClaimEnds
<1>11. c.block.arena = a /\ c.block.off = off /\ c.block.n = n
    BY DEF BusyClaim, FrameBlock
<1>12. Ledger(Claims \ {c}, Free, bump')
  <2> DEFINE m1 == bump'
  <2>1. /\ bump[c.block.arena] = c.block.off + c.block.n
        /\ m1[c.block.arena] = c.block.off
        /\ \A b \in Arenas : b # c.block.arena => m1[b] = bump[b]
      BY <1>5, <1>6, <1>11
  <2> HIDE DEF m1, c
  <2>2. Ledger(Claims \ {c}, Free, m1)
      BY <1>2, <1>10, <2>1, LedgerShrink
  <2> QED
      BY <2>2 DEF m1
<1>13. Free' = Free
    BY <1>1, FreeStays
<1> QED
    BY <1>1, <1>2, <1>7, <1>9, <1>10, <1>12, <1>13, ArenaNext

\* Entering store with a block the process holds.
LEMMA ArenaInvSCall ==
    ASSUME ArenaInv, LockInv', NEW t \in Threads, S_Call(t)
    PROVE  ArenaInv'
<1> DEFINE p == ProcOf[t]
<1>1. PICK b \in held[p] :
          /\ held' = [held EXCEPT ![p] = @ \ {b}]
          /\ own' = [own EXCEPT ![t] = b.arena]
          /\ frame' = [frame EXCEPT ![t] = [NoFrame EXCEPT !.off = b.off, !.n = b.n]]
    BY DEF S_Call
<1> DEFINE f == [NoFrame EXCEPT !.off = b.off, !.n = b.n]
           c == HeldClaim(p, b)
           d == BusyClaim(t)'
<1>2. /\ pc[t] = "idle" /\ Goto(t, "s_lock1")
      /\ list' = list /\ bump' = bump /\ lost' = lost /\ balance' = balance
    BY DEF S_Call, At, arenaVars
<1>3. /\ LockInv /\ ArenaTypeOK /\ FrameTypeOK /\ ListsOK /\ StagesOK
      /\ Ledger(Claims, Free, bump) /\ Balanced(Logged, balance) /\ p \in Procs
    BY ArenaNow
<1>4. held \in [Procs -> SUBSET Blocks] /\ b \in Blocks
    BY <1>3 DEF ArenaTypeOK
<1>5. b.off \in Nat /\ b.n \in Nat /\ b.n > 0 /\ b = [arena |-> b.arena, off |-> b.off, n |-> b.n]
  <2>1. b.off \in Nat /\ b.n \in Nat /\ b.n > 0
      BY <1>4, BlockPages
  <2> QED
      BY <1>4, <2>1 DEF Blocks
<1>6. f \in Frames /\ f.off = b.off /\ f.n = b.n
  <2> DEFINE off == b.off
             n == b.n
             f1 == [NoFrame EXCEPT !.off = off]
             f2 == [f1 EXCEPT !.n = n]
  <2>1. f = f2
      OBVIOUS
  <2> HIDE DEF f
  <2>2. off \in Nat /\ n \in Nat
      BY <1>5
  <2> HIDE DEF off, n
  <2>3. f1 \in Frames /\ f1.off = off
    <3>1. NoFrame \in Frames
        BY EndAssumption DEF NoFrame, Frames, Ends
    <3> QED
        BY <2>2, <3>1 DEF Frames
  <2> HIDE DEF f1
  <2>4. f2 \in Frames /\ f2.off = off /\ f2.n = n
      BY <2>2, <2>3 DEF Frames
  <2> QED
      BY <2>1, <2>4 DEF off, n
<1>7. frame' = [frame EXCEPT ![t] = f]
    BY <1>1
<1> HIDE DEF f
<1>8. pc'[t] = "s_lock1" /\ OthersStay(t) /\ own'[t] = b.arena /\ frame'[t] = f
    BY <1>1, <1>2, <1>3, <1>7 DEF Goto, OthersStay, LockInv, LockTypeOK, FrameTypeOK
<1>9. ~Busy(t) /\ Busy(t)' /\ Logging(t)' /\ StageOK(t)'
    BY <1>2, <1>8 DEF Busy, Taking, Storing, Logging, StageOK
<1>10. FrameBlock(t)' = b
    BY <1>5, <1>6, <1>8 DEF FrameBlock
<1>11. FrameTypeOK'
  <2>1. f.n > 0 /\ FrameBlock(t)' \in Blocks
      BY <1>4, <1>5, <1>6, <1>10
  <2> QED
      BY <1>3, <1>6, <1>7, <1>8, <2>1, FrameStep
<1>12. ArenaTypeOK'
    BY <1>1, <1>2, <1>3, <1>4, <1>11 DEF ArenaTypeOK
<1>13. ListsOK' /\ StagesOK'
    BY <1>2, <1>3, <1>8, <1>9, ListsStay
<1>14. /\ Claims' = (Claims \ {c}) \cup {d} /\ Logged' = (Logged \ {c}) \cup {d}
       /\ c \in Claims /\ c \in Logged /\ d.block = c.block
    BY <1>1, <1>2, <1>3, <1>4, <1>8, <1>9, <1>10, ClaimStored
<1> HIDE DEF c, d
<1>15. Ledger((Claims \ {c}) \cup {d}, Free, bump)
    BY <1>3, <1>14, LedgerMove
<1>16. Balanced((Logged \ {c}) \cup {d}, balance)
    BY <1>3, <1>14, BalanceMove
<1>17. Free' = Free
    BY <1>2, FreeStays
<1> QED
    BY <1>2, <1>3, <1>12, <1>13, <1>14, <1>15, <1>16, <1>17, ArenaNext

\* Logging the Free.
LEMMA ArenaInvSLog ==
    ASSUME ArenaInv, LockInv', NEW t \in Threads, S_Log(t)
    PROVE  ArenaInv'
<1> DEFINE a == own[t]
           b == FrameBlock(t)
           c == BusyClaim(t)
<1>1. /\ pc[t] = "s_log" /\ Goto(t, "s_find") /\ Append(t, -1)
      /\ own' = own /\ frame' = frame
      /\ list' = list /\ bump' = bump /\ held' = held /\ lost' = lost
    BY DEF S_Log, At
<1>2. /\ LockInv /\ ArenaTypeOK /\ FrameTypeOK /\ ListsOK /\ StagesOK
      /\ Ledger(Claims, Free, bump) /\ Balanced(Logged, balance) /\ a \in Arenas
      /\ Logged \subseteq Claims
    BY ArenaNow
<1>3. pc'[t] = "s_find" /\ OthersStay(t) /\ FrameBlock(t)' = b
    BY <1>1, <1>2, GotoFacts
<1>4. Busy(t) /\ Busy(t)' /\ Logging(t) /\ ~Logging(t)' /\ StageOK(t)'
    BY <1>1, <1>3 DEF Busy, Taking, Storing, Logging, StageOK
<1>5. b \in Blocks
    BY <1>4, BusyFacts
<1>6. FrameTypeOK'
    BY <1>1, <1>2, <1>3, <1>5, GotoFacts DEF RetrieveStages
<1>7. /\ balance' \in [Arenas -> [Pages -> Int]]
      /\ \A o \in Arenas, q \in Pages :
            balance'[o][q] = IF o = b.arena /\ q \in PagesOf(b)
                             THEN balance[o][q] + (-1) ELSE balance[o][q]
    BY <1>1, <1>2, AppendFacts
<1>8. ArenaTypeOK'
    BY <1>1, <1>2, <1>6, <1>7 DEF ArenaTypeOK
<1>9. ListsOK' /\ StagesOK'
    BY <1>1, <1>2, <1>3, <1>4, ListsStay
<1>10. Claims' = Claims /\ Logged' = Logged \ {c} /\ c \in Claims /\ c \in Logged /\ c.block = b
  <2>1. c.block = b
      BY DEF BusyClaim
  <2> QED
      BY <1>1, <1>3, <1>4, <2>1, ClaimFreed
<1> HIDE DEF b, c
<1>11. Balanced(Logged \ {c}, balance')
  <2> DEFINE bal1 == balance'
  <2>1. \A o \in Arenas, q \in Pages :
           bal1[o][q] = IF o = c.block.arena /\ q \in PagesOf(c.block)
                        THEN balance[o][q] + (-1) ELSE balance[o][q]
      BY <1>7, <1>10
  <2> HIDE DEF bal1
  <2>2. Balanced(Logged \ {c}, bal1)
      BY <1>2, <1>10, <2>1, BalanceSub
  <2> QED
      BY <2>2 DEF bal1
<1>12. Free' = Free
    BY <1>1, FreeStays
<1> QED
    BY <1>1, <1>2, <1>8, <1>9, <1>10, <1>11, <1>12, ArenaNext

\* A block of a process without free list: logged, and never handed out again.
LEMMA ArenaInvSQuarantine ==
    ASSUME ArenaInv, LockInv', NEW t \in Threads, S_Quarantine(t)
    PROVE  ArenaInv'
<1> DEFINE why == "quarantined"
           a == own[t]
           b == FrameBlock(t)
           c == BusyClaim(t)
           d == LostClaim(why, b)
<1>1. /\ pc[t] = "s_log" /\ Return(t) /\ Append(t, -1)
      /\ list' = list /\ bump' = bump /\ held' = held
      /\ lost' = lost \cup {Loss(t, why)}
    BY DEF S_Quarantine, At
<1>2. /\ LockInv /\ ArenaTypeOK /\ FrameTypeOK /\ ListsOK /\ StagesOK
      /\ Ledger(Claims, Free, bump) /\ Balanced(Logged, balance) /\ a \in Arenas
      /\ Logged \subseteq Claims
    BY ArenaNow
<1>3. OthersStay(t) /\ ~Busy(t)' /\ StageOK(t)' /\ FrameTypeOK'
    BY <1>1, <1>2, ReturnFacts
<1>4. Busy(t) /\ Logging(t)
    BY <1>1 DEF Busy, Storing, Logging
<1>5. b \in Blocks
    BY <1>4, BusyFacts
<1>6. why \in Whys /\ why # "refused"
    BY DEF Whys
<1>7. /\ balance' \in [Arenas -> [Pages -> Int]]
      /\ \A o \in Arenas, q \in Pages :
            balance'[o][q] = IF o = b.arena /\ q \in PagesOf(b)
                             THEN balance[o][q] + (-1) ELSE balance[o][q]
    BY <1>1, <1>2, AppendFacts
<1>8. ArenaTypeOK'
  <2>1. Loss(t, why) \in [arena : Arenas, off : Pages, n : 1 .. TotalPages, why : Whys]
      BY <1>5, <1>6 DEF Loss, FrameBlock, Blocks
  <2> QED
      BY <1>1, <1>2, <1>3, <1>7, <2>1 DEF ArenaTypeOK
<1>9. ListsOK' /\ StagesOK'
    BY <1>1, <1>2, <1>3, ListsStay
<1> HIDE DEF why
<1>10. /\ Claims' = (Claims \ {c}) \cup {d} /\ Logged' = Logged \ {c}
       /\ c \in Claims /\ c \in Logged /\ d.block = c.block /\ c.block = b
  <2>1. c.block = b
      BY DEF BusyClaim
  <2> QED
      BY <1>1, <1>3, <1>4, <1>5, <1>6, <2>1, ClaimLost
<1> HIDE DEF b, c, d
<1>11. Ledger((Claims \ {c}) \cup {d}, Free, bump)
    BY <1>2, <1>10, LedgerMove
<1>12. Balanced(Logged \ {c}, balance')
  <2> DEFINE bal1 == balance'
  <2>1. \A o \in Arenas, q \in Pages :
           bal1[o][q] = IF o = c.block.arena /\ q \in PagesOf(c.block)
                        THEN balance[o][q] + (-1) ELSE balance[o][q]
      BY <1>7, <1>10
  <2> HIDE DEF bal1
  <2>2. Balanced(Logged \ {c}, bal1)
      BY <1>2, <1>10, <2>1, BalanceSub
  <2> QED
      BY <2>2 DEF bal1
<1>13. Free' = Free
    BY <1>1, FreeStays
<1> QED
    BY <1>1, <1>2, <1>8, <1>9, <1>10, <1>11, <1>12, <1>13, ArenaNext

\* A store the ring refuses: the block is lost, and its Alloc entry stays.
LEMMA ArenaInvSRefused ==
    ASSUME ArenaInv, LockInv', NEW t \in Threads, S_Refused(t)
    PROVE  ArenaInv'
<1> DEFINE why == "refused"
           c == BusyClaim(t)
           d == LostClaim(why, FrameBlock(t))
<1>1. /\ pc[t] = "s_log" /\ Return(t)
      /\ list' = list /\ bump' = bump /\ held' = held /\ balance' = balance
      /\ lost' = lost \cup {Loss(t, why)}
    BY DEF S_Refused, At
<1>2. /\ LockInv /\ ArenaTypeOK /\ FrameTypeOK /\ ListsOK /\ StagesOK
      /\ Ledger(Claims, Free, bump) /\ Balanced(Logged, balance)
    BY ArenaNow
<1>3. OthersStay(t) /\ ~Busy(t)' /\ StageOK(t)' /\ FrameTypeOK'
    BY <1>1, <1>2, ReturnFacts
<1>4. Busy(t) /\ Logging(t)
    BY <1>1 DEF Busy, Storing, Logging
<1>5. FrameBlock(t) \in Blocks
    BY <1>4, BusyFacts
<1>6. why \in Whys /\ why = "refused"
    BY DEF Whys
<1>7. ArenaTypeOK'
  <2>1. Loss(t, why) \in [arena : Arenas, off : Pages, n : 1 .. TotalPages, why : Whys]
      BY <1>5, <1>6 DEF Loss, FrameBlock, Blocks
  <2> QED
      BY <1>1, <1>2, <1>3, <2>1 DEF ArenaTypeOK
<1>8. ListsOK' /\ StagesOK'
    BY <1>1, <1>2, <1>3, ListsStay
<1> HIDE DEF why
<1>9. /\ Claims' = (Claims \ {c}) \cup {d} /\ Logged' = (Logged \ {c}) \cup {d}
      /\ c \in Claims /\ c \in Logged /\ d.block = c.block
    BY <1>1, <1>3, <1>4, <1>5, <1>6, ClaimLost
<1> HIDE DEF c, d
<1>10. Ledger((Claims \ {c}) \cup {d}, Free, bump)
    BY <1>2, <1>9, LedgerMove
<1>11. Balanced((Logged \ {c}) \cup {d}, balance)
    BY <1>2, <1>9, BalanceMove
<1>12. Free' = Free
    BY <1>1, FreeStays
<1> QED
    BY <1>1, <1>2, <1>7, <1>8, <1>9, <1>10, <1>11, <1>12, ArenaNext

\* Finding the place of a block in the list.
LEMMA ArenaInvSFind ==
    ASSUME ArenaInv, LockInv', NEW t \in Threads, S_Find(t)
    PROVE  ArenaInv'
<1> DEFINE a == own[t]
           L == list[a]
           place == FindPlace(L, frame[t].off)
           prev == place.prev
           next == place.next
           f == [frame[t] EXCEPT !.prev = prev, !.next = next]
<1>1. /\ pc[t] = "s_find" /\ Goto(t, "s_link") /\ own' = own
      /\ bump' = bump /\ held' = held /\ lost' = lost /\ balance' = balance
      /\ list' = [list EXCEPT ![a] = place.list]
      /\ frame' = [frame EXCEPT ![t].prev = prev, ![t].next = next]
    BY DEF S_Find, At
<1>2. /\ LockInv /\ ArenaTypeOK /\ FrameTypeOK /\ ListsOK /\ a \in Arenas /\ frame[t] \in Frames
    BY ArenaNow
<1>3. a \in Holds(t) /\ Good(L, bump[a]) /\ Busy(t)
    BY <1>1, <1>2, StageHolds, LockedIsGood DEF Busy, Storing
<1>4. frame[t].off \in Pages /\ frame[t].off \notin FreePages(L) /\ FrameBlock(t) \in Blocks
  <2> DEFINE off == frame[t].off
             n == frame[t].n
  <2>1. /\ off \in Pages /\ off \in Nat /\ n \in Nat \ {0} /\ FrameBlock(t) \in Blocks
        /\ Run(off, n) \cap FreePages(L) = {}
      BY <1>3, BusyFacts
  <2>2. off \in Run(off, n)
      BY <2>1 DEF Run
  <2> QED
      BY <2>1, <2>2
<1>5. place.list = L /\ Placed(L, frame[t].off, prev, next) /\ prev \in Ends /\ next \in Ends
    BY <1>3, <1>4, PlaceInList
<1>6. list' = list
    BY <1>1, <1>2, <1>5 DEF ArenaTypeOK
<1> HIDE DEF prev, next
<1>7. /\ f \in Frames /\ frame' = [frame EXCEPT ![t] = f]
      /\ f.prev = prev /\ f.next = next /\ f.off = frame[t].off /\ f.n = frame[t].n
  <2> DEFINE f1 == [frame[t] EXCEPT !.prev = prev]
             f2 == [f1 EXCEPT !.next = next]
  <2>1. f = f2
      OBVIOUS
  <2>2. frame' = [frame EXCEPT ![t] = f]
      BY <1>1, <1>2 DEF FrameTypeOK
  <2> HIDE DEF f
  <2>3. f1 \in Frames /\ f1.prev = prev /\ f1.off = frame[t].off /\ f1.n = frame[t].n
      BY <1>2, <1>5 DEF Frames
  <2> HIDE DEF f1
  <2>4. f2 \in Frames /\ f2.next = next /\ f2.prev = f1.prev /\ f2.off = f1.off /\ f2.n = f1.n
      BY <1>5, <2>3 DEF Frames
  <2> QED
      BY <2>1, <2>2, <2>3, <2>4
<1> HIDE DEF f
<1>8. pc'[t] = "s_link" /\ frame'[t] = f /\ OthersStay(t) /\ own'[t] = a
    BY <1>1, <1>2, <1>7 DEF Goto, OthersStay, LockInv, LockTypeOK, FrameTypeOK
<1>9. Busy(t)' /\ ~Logging(t) /\ ~Logging(t)' /\ FrameBlock(t)' = FrameBlock(t)
    BY <1>1, <1>7, <1>8 DEF Busy, Taking, Storing, Logging, FrameBlock
<1>10. StageOK(t)'
    BY <1>5, <1>6, <1>7, <1>8 DEF StageOK
<1>11. FrameTypeOK'
  <2>1. FrameBlock(t)' \in Blocks /\ f.n > 0
    <3>1. f.n \in Nat \ {0}
        BY <1>3, <1>7, BusyFacts
    <3> QED
        BY <1>4, <1>9, <3>1
  <2> QED
      BY <1>2, <1>7, <1>8, <2>1, FrameStep
<1> QED
    BY <1>1, <1>3, <1>6, <1>8, <1>9, <1>10, <1>11, QuietStep

\* Linking the block.
LEMMA ArenaInvSLink ==
    ASSUME ArenaInv, LockInv', NEW t \in Threads, S_Link(t)
    PROVE  ArenaInv'
<1> DEFINE a == own[t]
           off == frame[t].off
           n == frame[t].n
           prev == frame[t].prev
           next == frame[t].next
           L == list[a]
           L1 == Link(L, off, n, prev, next)
           c == BusyClaim(t)
<1>1. /\ pc[t] = "s_link" /\ Goto(t, "s_merge") /\ own' = own /\ frame' = frame
      /\ bump' = bump /\ held' = held /\ lost' = lost /\ balance' = balance
      /\ list' = [list EXCEPT ![a] = L1]
    BY DEF S_Link, At
<1>2. /\ LockInv /\ ArenaTypeOK /\ FrameTypeOK /\ ListsOK /\ StagesOK /\ StageOK(t)
      /\ Ledger(Claims, Free, bump) /\ Balanced(Logged, balance) /\ a \in Arenas
    BY ArenaNow
<1>3. pc'[t] = "s_merge" /\ OthersStay(t) /\ FrameTypeOK'
  <2>1. pc'[t] = "s_merge" /\ OthersStay(t)
      BY <1>1, <1>2, GotoFacts
  <2>2. ~Busy(t)'
      BY <2>1 DEF Busy, Taking, Storing
  <2> QED
      BY <1>1, <1>2, <2>1, <2>2, GotoFacts DEF RetrieveStages
<1>4. a \in Holds(t) /\ Good(L, bump[a]) /\ Busy(t) /\ ~Busy(t)' /\ ~Logging(t)
    BY <1>1, <1>2, <1>3, StageHolds, LockedIsGood DEF Busy, Taking, Storing, Logging
<1>5. /\ off \in Pages /\ n \in Nat \ {0} /\ off + n <= bump[a]
      /\ PagesOf(FrameBlock(t)) = Run(off, n)
      /\ Run(off, n) \cap FreePages(L) = {}
    BY <1>4, BusyFacts
<1>6. Placed(L, off, prev, next)
    BY <1>1, <1>2 DEF StageOK
<1>7. Linked(L1, bump[a], off) /\ FreePages(L1) = FreePages(L) \cup Run(off, n)
    BY <1>4, <1>5, <1>6, LinkInList
<1>8. L1 \in Lists
    BY <1>7 DEF Linked, Chain
<1> HIDE DEF L1
<1>9. /\ Free[a] = FreePages(L) /\ Free'[a] = FreePages(L1) /\ list'[a] = L1
      /\ \A o \in Arenas : o # a => Free'[o] = Free[o] /\ list'[o] = list[o]
    BY <1>1, <1>2, FreeChanges
<1>10. ArenaTypeOK'
    BY <1>1, <1>2, <1>3, <1>8 DEF ArenaTypeOK
<1>11. StageOK(t)'
    BY <1>1, <1>3, <1>7, <1>9 DEF StageOK
<1>12. ListsOK' /\ StagesOK'
    BY <1>1, <1>2, <1>3, <1>4, <1>9, <1>11, ListStep
<1>13. Claims' = Claims \ {c} /\ Logged' = Logged /\ c \in Claims
    BY <1>1, <1>3, <1>4, ClaimEnds
<1>14. c.block.arena = a /\ PagesOf(c.block) = Run(off, n)
    BY <1>5 DEF BusyClaim, FrameBlock
<1>15. Ledger(Claims \ {c}, Free', bump)
  <2> DEFINE F1 == Free'
  <2>1. /\ F1[c.block.arena] = Free[c.block.arena] \cup PagesOf(c.block)
        /\ \A o \in Arenas : o # c.block.arena => F1[o] = Free[o]
      BY <1>7, <1>9, <1>14
  <2> HIDE DEF F1, c
  <2>2. Ledger(Claims \ {c}, F1, bump)
      BY <1>2, <1>13, <2>1, LedgerGive
  <2> QED
      BY <2>2 DEF F1
<1> QED
    BY <1>1, <1>2, <1>10, <1>12, <1>13, <1>15, ArenaNext

\* Merging the block with its neighbours.
LEMMA ArenaInvSMerge ==
    ASSUME ArenaInv, LockInv', NEW t \in Threads, S_Merge(t)
    PROVE  ArenaInv'
<1> DEFINE a == own[t]
           off == frame[t].off
           L == list[a]
           L1 == MergePrev(MergeNext(L, off), off)
<1>1. /\ pc[t] = "s_merge" /\ Return(t)
      /\ bump' = bump /\ held' = held /\ lost' = lost /\ balance' = balance
      /\ list' = [list EXCEPT ![a] = L1]
    BY DEF S_Merge, At
<1>2. /\ LockInv /\ ArenaTypeOK /\ FrameTypeOK /\ ListsOK /\ StagesOK /\ StageOK(t)
      /\ Ledger(Claims, Free, bump) /\ Balanced(Logged, balance) /\ a \in Arenas
    BY ArenaNow
<1>3. OthersStay(t) /\ ~Busy(t)' /\ StageOK(t)' /\ FrameTypeOK'
    BY <1>1, <1>2, ReturnFacts
<1>4. a \in Holds(t) /\ ~Busy(t) /\ Linked(L, bump[a], off)
    BY <1>1, <1>2, StageHolds DEF Busy, Taking, Storing, StageOK
<1>5. Good(L1, bump[a]) /\ FreePages(L1) = FreePages(L)
    BY <1>4, MergeInList
<1>6. L1 \in Lists
    BY <1>5, GoodFacts
<1> HIDE DEF L1
<1>7. /\ Free[a] = FreePages(L) /\ Free'[a] = FreePages(L1) /\ list'[a] = L1
      /\ \A o \in Arenas : o # a => Free'[o] = Free[o] /\ list'[o] = list[o]
    BY <1>1, <1>2, FreeChanges
<1>8. ArenaTypeOK'
    BY <1>1, <1>2, <1>3, <1>6 DEF ArenaTypeOK
<1>9. ListsOK' /\ StagesOK'
    BY <1>1, <1>2, <1>3, <1>4, <1>5, <1>7, ListStep
<1>10. Claims' = Claims /\ Logged' = Logged
    BY <1>1, <1>3, <1>4, ClaimsStay
<1>11. Free' = Free
  <2>1. \A o \in Arenas : Free'[o] = Free[o]
      BY <1>5, <1>7
  <2> QED
      BY <2>1 DEF Free
<1> QED
    BY <1>1, <1>2, <1>8, <1>9, <1>10, <1>11, ArenaNext

\* A crash, the kernel and a stuttering step leave all the invariant is about alone.
LEMMA ArenaInvStutter ==
    ASSUME ArenaInv, LockInv',
           UNCHANGED <<bump, list, held, pc, own, frame, lost, balance>>
    PROVE  ArenaInv'
<1>1. ArenaTypeOK'
    BY DEF ArenaInv, ArenaTypeOK, FrameTypeOK, Busy, Taking, Storing, FrameBlock
<1>2. ListsOK'
    BY DEF ArenaInv, ListsOK
<1>3. StagesOK'
    BY DEF ArenaInv, StagesOK, StageOK, ChosenOK, TakenOK
<1>4. HeldClaims' = HeldClaims /\ LostClaims' = LostClaims
    BY DEF HeldClaims, LostClaims
<1>5. BusyClaims' = BusyClaims /\ \A u : Logging(u)' <=> Logging(u)
    BY DEF BusyClaims, BusyClaim, FrameBlock, Busy, Taking, Storing, Logging
<1>6. Claims' = Claims
    BY <1>4, <1>5 DEF Claims
<1>7. Logged' = Logged
    BY <1>5, <1>6 DEF Logged, LoggedClaim
<1>8. Free' = Free
    BY FreeStays
<1>9. Ledger(Claims', Free', bump') /\ Balanced(Logged', balance')
    BY <1>6, <1>7, <1>8 DEF ArenaInv
<1> QED
    BY <1>1, <1>2, <1>3, <1>9, ArenaNext

\* The invariant holds when the arenas have just been initialised.
LEMMA ArenaInvInit == Init => ArenaInv
<1> SUFFICES ASSUME Init
             PROVE  ArenaInv
    OBVIOUS
<1>1. LockInv
    BY LockInvInit
<1>2. \A t \in Threads : pc[t] = "idle" /\ ~Busy(t)
    BY DEF Init, Busy, Taking, Storing
<1>3. \A a \in Arenas : bump[a] = 0 /\ Good(list[a], bump[a]) /\ FreePages(list[a]) = {}
    BY EmptyGood DEF Init
<1>4. FrameTypeOK
  <2>1. NoFrame \in Frames
      BY EndAssumption DEF NoFrame, Frames, Ends
  <2>2. frame \in [Threads -> Frames]
      BY <2>1 DEF Init
  <2> QED
      BY <1>2, <2>2 DEF FrameTypeOK, RetrieveStages
<1>5. EmptyList \in Lists
    BY EmptyGood, GoodFacts
<1>6. ArenaTypeOK
  <2>1. 0 \in 0 .. TotalPages /\ 0 \in Int
      BY GeometryAssumption
  <2>2. list \in [Arenas -> Lists]
      BY <1>5 DEF Init
  <2>3. bump \in [Arenas -> 0 .. TotalPages] /\ balance \in [Arenas -> [Pages -> Int]]
      BY <2>1 DEF Init
  <2> QED
      BY <1>4, <2>2, <2>3 DEF Init, ArenaTypeOK
<1>7. ListsOK /\ StagesOK
    BY <1>2, <1>3 DEF ListsOK, StagesOK, StageOK
<1>8. Claims = {}
  <2>1. HeldClaims = {} /\ LostClaims = {}
      BY DEF Init, HeldClaims, LostClaims
  <2>2. BusyClaims = {}
      BY <1>2 DEF BusyClaims
  <2> QED
      BY <2>1, <2>2 DEF Claims
<1>9. Ledger(Claims, Free, bump)
  <2> DEFINE C == Claims
             F == Free
  <2>1. C = {} /\ \A a \in Arenas : F[a] = {} /\ bump[a] = 0
      BY <1>3, <1>8 DEF Free
  <2> HIDE DEF C, F
  <2>2. Ledger(C, F, bump)
      BY <2>1 DEF Ledger
  <2> QED
      BY <2>2 DEF C, F
<1>10. Balanced(Logged, balance)
  <2>1. Logged = {}
      BY <1>8 DEF Logged
  <2>2. \A a \in Arenas, p \in Pages : balance[a][p] = 0
      BY DEF Init
  <2> QED
      BY <2>1, <2>2 DEF Balanced
<1> QED
    BY <1>1, <1>6, <1>7, <1>9, <1>10 DEF ArenaInv

\* Every step keeps the invariant.
LEMMA ArenaInvNext == ArenaInv /\ [Next]_vars => ArenaInv'
<1> SUFFICES ASSUME ArenaInv, [Next]_vars
             PROVE  ArenaInv'
    OBVIOUS
<1>1. LockInv'
    BY LockInvNext DEF ArenaInv
<1>2. ASSUME NEW t \in Threads, Call(t) PROVE ArenaInv'
    BY <1>1, <1>2, ArenaInvRCall, ArenaInvSCall DEF Call
<1>3. ASSUME NEW t \in Threads, Retrieve(t) PROVE ArenaInv'
  <2>1. CASE R_Lock(t)
      BY <1>1, <2>1, ArenaInvLock
  <2>2. CASE R_Scan(t)
      BY <1>1, <2>2, ArenaInvRScan
  <2>3. CASE R_TakeFree(t)
      BY <1>1, <2>3, ArenaInvRTakeFree
  <2>4. CASE R_TakeBump(t)
      BY <1>1, <2>4, ArenaInvRTakeBump
  <2>5. CASE R_Exhausted(t)
      BY <1>1, <2>5, ArenaInvRExhausted
  <2>6. CASE R_Misplaced(t)
      BY <1>1, <2>6, ArenaInvRMisplaced
  <2>7. CASE R_Log(t)
      BY <1>1, <2>7, ArenaInvRLog
  <2>8. CASE R_Undo(t)
      BY <1>1, <2>8, ArenaInvRUndoFree, ArenaInvRUndoBump
  <2> QED
      BY <1>3, <2>1, <2>2, <2>3, <2>4, <2>5, <2>6, <2>7, <2>8 DEF Retrieve
<1>4. ASSUME NEW t \in Threads, Store(t) PROVE ArenaInv'
  <2>1. CASE S_Lock1(t) \/ S_Lock2(t)
      BY <1>1, <2>1, ArenaInvLock
  <2>2. CASE S_Log(t)
      BY <1>1, <2>2, ArenaInvSLog
  <2>3. CASE S_Quarantine(t)
      BY <1>1, <2>3, ArenaInvSQuarantine
  <2>4. CASE S_Refused(t)
      BY <1>1, <2>4, ArenaInvSRefused
  <2>5. CASE S_Find(t)
      BY <1>1, <2>5, ArenaInvSFind
  <2>6. CASE S_Link(t)
      BY <1>1, <2>6, ArenaInvSLink
  <2>7. CASE S_Merge(t)
      BY <1>1, <2>7, ArenaInvSMerge
  <2> QED
      BY <1>4, <2>1, <2>2, <2>3, <2>4, <2>5, <2>6, <2>7 DEF Store
<1>5. ASSUME NEW p \in Procs, Crash(p) PROVE ArenaInv'
    BY <1>1, <1>5, ArenaInvStutter DEF Crash, arenaVars
<1>6. ASSUME NEW p \in Procs, NEW a \in Arenas, Consume(p, a) PROVE ArenaInv'
    BY <1>1, <1>6, ArenaInvStutter DEF Consume
<1>7. CASE UNCHANGED vars
    BY <1>1, <1>7, ArenaInvStutter DEF vars
<1> QED
    BY <1>2, <1>3, <1>4, <1>5, <1>6, <1>7 DEF Next

\* Every reachable state satisfies the arena invariant: retrieve and store, their rollbacks
\* and their failures keep the lists, the pages and the log entries in step.
THEOREM ArenaInvariant == Spec => []ArenaInv
BY ArenaInvInit, ArenaInvNext, PTL DEF Spec

-----------------------------------------------------------------------------
(***************************************************************************)
(* What the invariant says of the lists, the pages and the log.            *)
(***************************************************************************)

\* The invariant keeps the list of an unlocked arena in order.
LEMMA ArenaInvList == ArenaInv => ListIntact
<1> SUFFICES ASSUME ArenaInv, NEW a \in Arenas, \A t \in Threads : a \notin Holds(t)
             PROVE  WellFormed(list[a], bump[a])
    BY DEF ListIntact
<1>1. \A t \in Threads : pc[t] = "s_merge" => own[t] # a
    BY StageHolds
<1>2. Good(list[a], bump[a])
    BY <1>1 DEF ArenaInv, ListsOK
<1> QED
    BY <1>2, GoodIsWellFormed

\* The blocks out of an arena are those that are claimed.
LEMMA BlocksOutAreClaims ==
    ASSUME ArenaInv, NEW a \in Arenas
    PROVE  \A b : b \in BlocksOut(a) <=> \E c \in Claims : c.block = b /\ b.arena = a
<1> SUFFICES ASSUME NEW b
             PROVE  b \in BlocksOut(a) <=> \E c \in Claims : c.block = b /\ b.arena = a
    OBVIOUS
<1>1. ArenaTypeOK
    BY DEF ArenaInv
<1>2. ASSUME NEW p \in Procs, b \in held[p], b.arena = a
      PROVE  \E c \in Claims : c.block = b
  <2>1. HeldClaim(p, b) \in HeldClaims /\ HeldClaim(p, b).block = b
      BY <1>2 DEF HeldClaims, HeldClaim
  <2> QED
      BY <2>1 DEF Claims
<1>3. ASSUME NEW u \in Threads, own[u] = a, Busy(u), b = FrameBlock(u)
      PROVE  b.arena = a /\ \E c \in Claims : c.block = b
  <2>1. BusyClaim(u) \in BusyClaims /\ BusyClaim(u).block = b
      BY <1>3, BusyMembers DEF BusyClaim
  <2> QED
      BY <1>3, <2>1 DEF Claims, FrameBlock
<1>4. ASSUME NEW x \in lost, x.arena = a, b = [arena |-> x.arena, off |-> x.off, n |-> x.n]
      PROVE  b.arena = a /\ \E c \in Claims : c.block = b
  <2>1. x \in [arena : Arenas, off : Pages, n : 1 .. TotalPages, why : Whys]
      BY <1>1 DEF ArenaTypeOK
  <2>2. b \in Blocks /\ LossOf(b, x.why) = x /\ x.why \in Whys
      BY <1>4, <2>1 DEF LossOf, Blocks
  <2>3. LostClaim(x.why, b) \in LostClaims /\ LostClaim(x.why, b).block = b
      BY <2>2 DEF LostClaims, LostClaim
  <2> QED
      BY <1>4, <2>3 DEF Claims
<1>5. ASSUME NEW c \in HeldClaims, c.block = b, b.arena = a
      PROVE  b \in BlocksOut(a)
  <2>1. PICK p \in Procs : b \in held[p]
      BY <1>5 DEF HeldClaims, HeldClaim
  <2> QED
      BY <1>5, <2>1 DEF BlocksOut
<1>6. ASSUME NEW c \in BusyClaims, c.block = b, b.arena = a
      PROVE  b \in BlocksOut(a)
  <2>1. PICK u \in Threads : Busy(u) /\ c = BusyClaim(u)
      BY <1>6, BusyMembers
  <2>2. own[u] = a /\ (Taking(u) \/ Storing(u)) /\ b = FrameBlock(u)
      BY <1>6, <2>1 DEF Busy, BusyClaim, FrameBlock
  <2> QED
      BY <2>2 DEF BlocksOut
<1>7. ASSUME NEW c \in LostClaims, c.block = b, b.arena = a
      PROVE  b \in BlocksOut(a)
  <2>1. PICK w \in Whys : b \in Blocks /\ LossOf(b, w) \in lost
      BY <1>7 DEF LostClaims, LostClaim
  <2> DEFINE x == LossOf(b, w)
  <2>2. x \in lost /\ x.arena = a /\ b = [arena |-> x.arena, off |-> x.off, n |-> x.n]
      BY <1>7, <2>1 DEF LossOf, Blocks
  <2> HIDE DEF x
  <2> QED
      BY <2>2 DEF BlocksOut
<1>8. ASSUME b \in BlocksOut(a) PROVE \E c \in Claims : c.block = b /\ b.arena = a
    BY <1>2, <1>3, <1>4, <1>8 DEF BlocksOut, Busy
<1> QED
    BY <1>5, <1>6, <1>7, <1>8 DEF Claims

\* The invariant accounts for every page.
LEMMA ArenaInvPages == ArenaInv => PagesAccounted
<1> SUFFICES ASSUME ArenaInv, NEW a \in Arenas
             PROVE  LET out == BlocksOut(a)
                        outPages == UNION {PagesOf(b) : b \in out}
                        freePages == FreePages(list[a])
                    IN  /\ \A b, c \in out : b = c \/ PagesOf(b) \cap PagesOf(c) = {}
                        /\ outPages \cap freePages = {}
                        /\ outPages \cup freePages = Run(0, bump[a])
    BY DEF PagesAccounted
<1> DEFINE out == BlocksOut(a)
           outPages == UNION {PagesOf(b) : b \in out}
           freePages == FreePages(list[a])
<1>1. \A b : b \in out <=> \E c \in Claims : c.block = b /\ b.arena = a
    BY BlocksOutAreClaims
<1>2. Ledger(Claims, Free, bump) /\ Free[a] = freePages
    BY DEF ArenaInv, Free
<1> HIDE DEF out
<1>3. ASSUME NEW b \in out, NEW e \in out, b # e
      PROVE  PagesOf(b) \cap PagesOf(e) = {}
  <2>1. PICK c \in Claims : c.block = b /\ b.arena = a
      BY <1>1
  <2>2. PICK d \in Claims : d.block = e /\ e.arena = a
      BY <1>1
  <2>3. ~Clash(b, e)
      BY <1>2, <1>3, <2>1, <2>2 DEF Ledger
  <2> QED
      BY <2>1, <2>2, <2>3 DEF Clash
<1>4. \A p \in outPages : p \in Nat /\ p \notin freePages /\ p < bump[a]
  <2> SUFFICES ASSUME NEW b \in out, NEW p \in PagesOf(b)
               PROVE  p \in Nat /\ p \notin freePages /\ p < bump[a]
      OBVIOUS
  <2>1. PICK c \in Claims : c.block = b /\ b.arena = a
      BY <1>1
  <2>2. b \in Blocks /\ p \notin freePages /\ p < bump[a]
      BY <1>2, <2>1 DEF Ledger
  <2>3. p \in Nat
      BY <2>2, BlockPages
  <2> QED
      BY <2>2, <2>3
<1>5. \A p \in freePages : p \in Nat /\ p < bump[a]
    BY <1>2 DEF Ledger
<1>6. ASSUME NEW p \in Nat, p < bump[a]
      PROVE  p \in outPages \cup freePages
  <2>1. CASE p \in freePages
      BY <2>1
  <2>2. CASE p \notin freePages
    <3>1. PICK c \in Claims : c.block.arena = a /\ p \in PagesOf(c.block)
        BY <1>2, <1>6, <2>2 DEF Ledger
    <3>2. c.block \in out
        BY <1>1, <3>1
    <3> QED
        BY <3>1, <3>2
  <2> QED
      BY <2>1, <2>2
<1>7. bump[a] \in Nat
    BY <1>2 DEF Ledger
<1> HIDE DEF outPages, freePages
<1>8. outPages \cap freePages = {}
    BY <1>4
<1>9. outPages \cup freePages = Run(0, bump[a])
  <2>1. \A p : p \in Run(0, bump[a]) <=> p \in Nat /\ p < bump[a]
      BY <1>7 DEF Run
  <2> QED
      BY <1>4, <1>5, <1>6, <2>1
<1> QED
    BY <1>3, <1>8, <1>9 DEF out, outPages, freePages

\* The invariant balances the log.
LEMMA ArenaInvLog == ArenaInv => LogAgrees
<1> SUFFICES ASSUME ArenaInv, NEW a \in Arenas
             PROVE  LET logged == {b \in UNION {held[p] : p \in Procs} : b.arena = a}
                            \cup {b \in lost : b.arena = a /\ b.why = "refused"}
                            \cup {FrameBlock(t) : t \in {u \in Threads :
                                     own[u] = a /\ pc[u] \in {"s_lock1", "s_lock2", "s_log"}}}
                    IN  \A p \in Pages :
                           balance[a][p] = IF \E b \in logged : p \in PagesOf(b) THEN 1 ELSE 0
    BY DEF LogAgrees
<1> DEFINE logged == {b \in UNION {held[p] : p \in Procs} : b.arena = a}
                \cup {b \in lost : b.arena = a /\ b.why = "refused"}
                \cup {FrameBlock(t) : t \in {u \in Threads :
                         own[u] = a /\ pc[u] \in {"s_lock1", "s_lock2", "s_log"}}}
<1> SUFFICES ASSUME NEW p \in Pages
             PROVE  balance[a][p] = IF \E b \in logged : p \in PagesOf(b) THEN 1 ELSE 0
    OBVIOUS
<1>1. ArenaTypeOK /\ Balanced(Logged, balance)
    BY DEF ArenaInv
<1>2. ASSUME NEW q \in Procs, NEW b \in held[q], b.arena = a, p \in PagesOf(b)
      PROVE  \E c \in Logged : c.block.arena = a /\ p \in PagesOf(c.block)
  <2>1. HeldClaim(q, b) \in HeldClaims /\ HeldClaim(q, b).block = b
      BY DEF HeldClaims, HeldClaim
  <2> QED
      BY <1>2, <2>1, LoggedMembers
<1>3. ASSUME NEW x \in lost, x.arena = a, x.why = "refused", p \in PagesOf(x)
      PROVE  \E c \in Logged : c.block.arena = a /\ p \in PagesOf(c.block)
  <2> DEFINE b == [arena |-> x.arena, off |-> x.off, n |-> x.n]
             why == "refused"
             c == LostClaim(why, b)
  <2>1. x \in [arena : Arenas, off : Pages, n : 1 .. TotalPages, why : Whys]
      BY <1>1 DEF ArenaTypeOK
  <2>2. b \in Blocks /\ LossOf(b, why) = x /\ why \in Whys
      BY <1>3, <2>1 DEF LossOf, Blocks, Whys
  <2>3. b.arena = a /\ PagesOf(b) = PagesOf(x)
      BY <1>3 DEF PagesOf
  <2>4. why = "refused"
      OBVIOUS
  <2> HIDE DEF b, why
  <2>5. c \in LostClaims /\ c.block = b /\ c.who = why
      BY <2>2 DEF LostClaims, LostClaim
  <2> HIDE DEF c
  <2>6. c \in Logged
      BY <2>4, <2>5, LoggedMembers
  <2> QED
      BY <1>3, <2>3, <2>5, <2>6
<1>4. ASSUME NEW u \in Threads, own[u] = a, Logging(u), p \in PagesOf(FrameBlock(u))
      PROVE  \E c \in Logged : c.block.arena = a /\ p \in PagesOf(c.block)
  <2>1. BusyClaim(u) \in BusyClaims /\ BusyClaim(u).who = u /\ BusyClaim(u).block = FrameBlock(u)
      BY <1>4, BusyMembers DEF BusyClaim, Busy, Storing, Logging
  <2>2. BusyClaim(u) \in Logged
      BY <1>4, <2>1, LoggedMembers
  <2> QED
      BY <1>4, <2>1, <2>2 DEF FrameBlock
<1>5. ASSUME NEW c \in Logged, c.block.arena = a, p \in PagesOf(c.block)
      PROVE  \E b \in logged : p \in PagesOf(b)
  <2>1. CASE c \in HeldClaims
    <3>1. PICK q \in Procs : c.block \in held[q]
        BY <2>1 DEF HeldClaims, HeldClaim
    <3>2. c.block \in logged
        BY <1>5, <3>1
    <3> QED
        BY <1>5, <3>2
  <2>2. CASE c \in BusyClaims
    <3>1. PICK u \in Threads : Busy(u) /\ c = BusyClaim(u)
        BY <2>2, BusyMembers
    <3>2. c.who = u /\ c.block = FrameBlock(u)
        BY <3>1 DEF BusyClaim
    <3>3. Logging(u)
        BY <2>2, <3>2, LoggedMembers
    <3>4. FrameBlock(u) \in logged
        BY <1>5, <3>2, <3>3 DEF Logging, FrameBlock
    <3> QED
        BY <1>5, <3>2, <3>4
  <2>3. CASE c \in LostClaims
    <3>1. PICK w \in Whys : c = LostClaim(w, c.block) /\ c.block \in Blocks /\ LossOf(c.block, w) \in lost
        BY <2>3 DEF LostClaims, LostClaim
    <3>2. w = "refused"
        BY <2>3, <3>1, LoggedMembers DEF LostClaim
    <3> DEFINE x == LossOf(c.block, w)
    <3>3. x \in lost /\ x.arena = a /\ x.why = "refused" /\ PagesOf(x) = PagesOf(c.block)
        BY <1>5, <3>1, <3>2 DEF LossOf, PagesOf
    <3> HIDE DEF x
    <3>4. x \in logged
        BY <3>3
    <3> QED
        BY <1>5, <3>3, <3>4
  <2> QED
      BY <2>1, <2>2, <2>3, LoggedMembers
<1>6. (\E b \in logged : p \in PagesOf(b)) <=> \E c \in Logged : c.block.arena = a /\ p \in PagesOf(c.block)
  <2>1. ASSUME NEW b \in logged, p \in PagesOf(b)
        PROVE  \E c \in Logged : c.block.arena = a /\ p \in PagesOf(c.block)
      BY <1>2, <1>3, <1>4, <2>1 DEF Logging
  <2> HIDE DEF logged
  <2> QED
      BY <1>5, <2>1
<1> HIDE DEF logged
<1> QED
    BY <1>1, <1>6 DEF Balanced

\* The free list of an arena that nobody has locked is always in order: a chain of
\* FreeCount blocks by address with mirrored links, none beyond the bump offset, no two
\* overlapping or touching; store's merge and retrieve's rollback both restore it.
THEOREM ListsAlwaysIntact == Spec => []ListIntact
BY ArenaInvariant, ArenaInvList, PTL

\* retrieve and store always account for every page below the bump offset: it is free or
\* in exactly one block that is held, under way or lost.
THEOREM PagesAlwaysAccounted == Spec => []PagesAccounted
BY ArenaInvariant, ArenaInvPages, PTL

\* The Alloc and Free entries of all rings always balance: one more Alloc than Free for the
\* pages of a block that is held, waits for its Free entry or was refused it, none for the
\* others.
THEOREM LogAlwaysAgrees == Spec => []LogAgrees
BY ArenaInvariant, ArenaInvLog, PTL

-----------------------------------------------------------------------------
(***************************************************************************)
(* The refinement of PageArena: what the scan of retrieve chose.           *)
(***************************************************************************)

\* The block that the scan chose is as small as one that fits can be; when it chose none,
\* the list was skipped or has none.
SmallestFit(K, best, n, skips) ==
    IF best = End
    THEN skips \/ \A o \in Nodes(K) : K.blk[o].size < n
    ELSE ~skips /\ \A o \in Nodes(K) : K.blk[o].size >= n => K.blk[best].size <= K.blk[o].size

\* The list that the scan of thread t has seen.
Scanned(t) ==
    LET L == list[own[t]]  f == frame[t]
    IN  IF pc[t] = "r_place" /\ f.best # End THEN PutBack(L, f.best, f.off, f.n) ELSE L

\* Until the block is logged, its choice stands.
FitOK(t) ==
    pc[t] \in {"r_take", "r_place"} =>
        SmallestFit(Scanned(t), frame[t].best, frame[t].n, SkipsList(t))

FitsOK == \A t \in Threads : FitOK(t)

\* What a step of a thread leaves alone.
LEMMA StepShape ==
    ASSUME ArenaInv, NEW t \in Threads, Call(t) \/ Retrieve(t) \/ Store(t)
    PROVE  /\ OthersStay(t)
           /\ \A a \in Arenas : a # own[t] => list'[a] = list[a] /\ bump'[a] = bump[a]
           /\ own[t] \notin Holds(t) => list' = list /\ bump' = bump
<1> USE DEF OthersStay, Goto
<1>1. /\ pc = [u \in Threads |-> pc[u]] /\ own = [u \in Threads |-> own[u]]
      /\ frame = [u \in Threads |-> frame[u]]
      /\ list = [a \in Arenas |-> list[a]] /\ bump = [a \in Arenas |-> bump[a]]
      /\ own[t] \in Arenas
    BY DEF ArenaInv, LockInv, LockTypeOK, ArenaTypeOK, FrameTypeOK
<1>2. CASE Call(t)
  <2>1. CASE R_Call(t)
      BY <1>1, <2>1 DEF R_Call, arenaVars
  <2>2. CASE S_Call(t)
      BY <1>1, <2>2 DEF S_Call, arenaVars
  <2> QED
      BY <1>2, <2>1, <2>2 DEF Call
<1>3. CASE R_Lock(t) \/ S_Lock1(t) \/ S_Lock2(t) \/ S_Log(t)
    BY <1>1, <1>3 DEF R_Lock, S_Lock1, S_Lock2, S_Log
<1>4. ASSUME R_Scan(t) \/ R_TakeFree(t) \/ R_TakeBump(t)
      PROVE  OthersStay(t) /\ pc[t] \in {"r_scan", "r_take"}
             /\ \A a \in Arenas : a # own[t] => list'[a] = list[a] /\ bump'[a] = bump[a]
  <2>1. CASE R_Scan(t)
      BY <1>1, <2>1 DEF R_Scan, At
  <2>2. CASE R_TakeFree(t)
      BY <1>1, <2>2 DEF R_TakeFree, At
  <2>3. CASE R_TakeBump(t)
      BY <1>1, <2>3 DEF R_TakeBump, At
  <2> QED
      BY <1>4, <2>1, <2>2, <2>3
<1>5. ASSUME Return(t) PROVE OthersStay(t)
    BY <1>1, <1>5 DEF Return
<1>6. ASSUME R_Exhausted(t) \/ R_Misplaced(t) \/ R_Log(t) \/ R_Undo(t)
      PROVE  OthersStay(t) /\ pc[t] \in {"r_take", "r_place"}
             /\ \A a \in Arenas : a # own[t] => list'[a] = list[a] /\ bump'[a] = bump[a]
  <2>1. CASE R_Exhausted(t) \/ R_Misplaced(t)
      BY <1>5, <2>1 DEF R_Exhausted, R_Misplaced, At
  <2>2. CASE R_Log(t)
      BY <1>1, <1>5, <2>2 DEF R_Log, At
  <2>3. CASE R_Undo(t)
      BY <1>1, <1>5, <2>3 DEF R_Undo, At
  <2> QED
      BY <1>6, <2>1, <2>2, <2>3
<1>7. CASE S_Quarantine(t) \/ S_Refused(t)
    BY <1>5, <1>7 DEF S_Quarantine, S_Refused
<1>8. ASSUME S_Find(t) \/ S_Link(t) \/ S_Merge(t)
      PROVE  OthersStay(t) /\ pc[t] \in {"s_find", "s_link", "s_merge"}
             /\ \A a \in Arenas : a # own[t] => list'[a] = list[a] /\ bump'[a] = bump[a]
  <2>1. CASE S_Find(t)
      BY <1>1, <2>1 DEF S_Find, At
  <2>2. CASE S_Link(t)
      BY <1>1, <2>2 DEF S_Link, At
  <2>3. CASE S_Merge(t)
      BY <1>1, <1>5, <2>3 DEF S_Merge, At
  <2> QED
      BY <1>8, <2>1, <2>2, <2>3
<1> QED
    BY <1>2, <1>3, <1>4, <1>6, <1>7, <1>8, StageHolds DEF Retrieve, Store

\* Whoever scanned a list has its lock, so that it stays what it was.
LEMMA FitsStay ==
    ASSUME ArenaInv, FitsOK, NEW t \in Threads, Call(t) \/ Retrieve(t) \/ Store(t), FitOK(t)'
    PROVE  FitsOK'
<1>1. ASSUME NEW u \in Threads, u # t PROVE FitOK(u)'
  <2>1. pc'[u] = pc[u] /\ own'[u] = own[u] /\ frame'[u] = frame[u] /\ own[u] \in Arenas
      BY <1>1, StepShape DEF OthersStay, ArenaInv, LockInv, LockTypeOK
  <2>2. ASSUME pc[u] \in {"r_take", "r_place"}
        PROVE  list'[own[u]] = list[own[u]]
    <3>1. own[u] \in Holds(u)
        BY <2>2, StageHolds
    <3>2. own[u] \notin Holds(t)
        BY <1>1, <2>1, <3>1 DEF ArenaInv, LockInv, MutualExclusion
    <3> QED
        BY <2>1, <3>2, StepShape
  <2>3. pc[u] \in {"r_take", "r_place"} => Scanned(u)' = Scanned(u)
      BY <2>1, <2>2 DEF Scanned
  <2> QED
      BY <1>1, <2>1, <2>3 DEF FitsOK, FitOK, SkipsList
<1> QED
    BY <1>1 DEF FitsOK

\* The scan makes its choice.
LEMMA FitRScan ==
    ASSUME ArenaInv, NEW t \in Threads, R_Scan(t)
    PROVE  FitOK(t)'
<1> DEFINE a == own[t]
           n == frame[t].n
           found == BestFit(list[a], n)
           skips == SkipsList(t)
           best == IF skips THEN End ELSE found.best
<1>1. /\ pc[t] = "r_scan" /\ Goto(t, "r_take") /\ own' = own
      /\ list' = [list EXCEPT ![a] = IF skips THEN @ ELSE found.list]
      /\ frame' = [frame EXCEPT ![t].best = best]
    BY DEF R_Scan, At
<1>2. /\ LockInv /\ ListsOK /\ ArenaTypeOK /\ a \in Arenas /\ frame[t] \in Frames
      /\ frame \in [Threads -> Frames] /\ pc \in [Threads -> Stages]
    BY ArenaNow DEF FrameTypeOK, LockInv, LockTypeOK
<1>3. Good(list[a], bump[a]) /\ n \in Nat
    BY <1>1, <1>2, StageHolds, LockedIsGood DEF Frames
<1>4. /\ found.list = list[a]
      /\ found.best = End => \A o \in Nodes(list[a]) : list[a].blk[o].size < n
      /\ found.best # End =>
            \A o \in Nodes(list[a]) : list[a].blk[o].size >= n =>
                list[a].blk[found.best].size <= list[a].blk[o].size
    BY <1>3, BestInList
<1> HIDE DEF found
<1>5. SmallestFit(list[a], best, n, skips)
    BY <1>4 DEF SmallestFit
<1>6. list' = list
    BY <1>1, <1>2, <1>4 DEF ArenaTypeOK
<1> HIDE DEF best
<1>7. pc'[t] = "r_take" /\ own'[t] = a /\ frame'[t].best = best /\ frame'[t].n = n
    BY <1>1, <1>2 DEF Goto, Frames
<1>8. Scanned(t)' = list[a] /\ SkipsList(t)' = skips
    BY <1>6, <1>7 DEF Scanned, SkipsList
<1> HIDE DEF skips, n, a
<1> QED
    BY <1>5, <1>7, <1>8 DEF FitOK, a

\* Taking the block does not change what the scan has seen.
LEMMA FitRTake ==
    ASSUME ArenaInv, NEW t \in Threads, FitOK(t), R_TakeFree(t) \/ R_TakeBump(t)
    PROVE  FitOK(t)'
<1> DEFINE a == own[t]
           n == frame[t].n
           best == frame[t].best
           L == list[a]
           off == IF best # End THEN TakenAt(L, best, n) ELSE bump[a]
           L1 == IF best # End THEN Take(L, best, n) ELSE L
<1>1. /\ pc[t] = "r_take" /\ Goto(t, "r_place") /\ own' = own
      /\ list' = [list EXCEPT ![a] = L1]
      /\ frame' = [frame EXCEPT ![t].off = off]
  <2>1. CASE R_TakeFree(t)
      BY <2>1 DEF R_TakeFree, At
  <2>2. CASE R_TakeBump(t)
    <3>1. list' = list /\ best = End /\ list \in [Arenas -> Lists]
        BY <2>2 DEF R_TakeBump, ArenaInv, ArenaTypeOK
    <3>2. list' = [list EXCEPT ![a] = L1]
        BY <3>1
    <3> QED
        BY <2>2, <3>1, <3>2 DEF R_TakeBump, At
  <2> QED
      BY <2>1, <2>2
<1>2. /\ LockInv /\ ListsOK /\ ArenaTypeOK /\ StageOK(t) /\ a \in Arenas /\ frame[t] \in Frames
      /\ frame \in [Threads -> Frames] /\ pc \in [Threads -> Stages]
      /\ list \in [Arenas -> Lists] /\ FrameTypeOK
    BY ArenaNow DEF FrameTypeOK, LockInv, LockTypeOK, ArenaTypeOK
<1>3. Good(L, bump[a]) /\ n \in Nat \ {0}
    BY <1>1, <1>2, StageHolds, LockedIsGood DEF Frames, FrameTypeOK, RetrieveStages
<1>4. best # End => PutBack(L1, best, off, n) = L
  <2> SUFFICES ASSUME best # End
               PROVE  PutBack(Take(L, best, n), best, TakenAt(L, best, n), n) = L
      OBVIOUS
  <2>1. best \in Nodes(L) /\ L.blk[best].size >= n /\ L.blk[best].size \in Nat
      BY <1>1, <1>2, <1>3, GoodFacts DEF StageOK, ChosenOK
  <2>2. n <= L.blk[best].size
      BY <1>3, <2>1
  <2> QED
      BY <1>3, <2>1, <2>2, PutBackTake
<1> HIDE DEF L1, off
<1>5. /\ pc'[t] = "r_place" /\ own'[t] = a /\ list'[a] = L1
      /\ frame'[t].best = best /\ frame'[t].n = n /\ frame'[t].off = off
    BY <1>1, <1>2 DEF Goto, Frames
<1>6. best = End => L1 = L
    BY DEF L1
<1>7. Scanned(t)' = L /\ Scanned(t) = L /\ SkipsList(t)' = SkipsList(t)
    BY <1>1, <1>4, <1>5, <1>6 DEF Scanned, SkipsList
<1>8. SmallestFit(L, best, n, SkipsList(t))
    BY <1>1, <1>7 DEF FitOK
<1> HIDE DEF L, best, n
<1> QED
    BY <1>5, <1>7, <1>8 DEF FitOK

\* No scan has chosen anything in freshly initialised arenas.
LEMMA FitsInit == Init => FitsOK
BY DEF Init, FitsOK, FitOK

\* The scans stay right about the lists.
LEMMA FitsNext == ArenaInv /\ FitsOK /\ [Next]_vars => FitsOK'
<1> SUFFICES ASSUME ArenaInv, FitsOK, [Next]_vars
             PROVE  FitsOK'
    OBVIOUS
<1>1. ASSUME NEW t \in Threads, Call(t) \/ Retrieve(t) \/ Store(t)
      PROVE  FitsOK'
  <2>1. pc \in [Threads -> Stages] /\ FitOK(t)
      BY DEF ArenaInv, LockInv, LockTypeOK, FitsOK
  <2>2. CASE R_Scan(t)
      BY <1>1, <2>2, FitRScan, FitsStay
  <2>3. CASE R_TakeFree(t) \/ R_TakeBump(t)
      BY <1>1, <2>1, <2>3, FitRTake, FitsStay
  <2>4. CASE ~(R_Scan(t) \/ R_TakeFree(t) \/ R_TakeBump(t))
    <3>1. PICK s \in Stages \ {"r_take", "r_place"} : Goto(t, s)
      <4>1. CASE Call(t)
          BY <4>1 DEF Call, R_Call, S_Call, Stages, RetrieveStages, StoreStages
      <4>2. CASE Retrieve(t)
          BY <2>4, <4>2 DEF Retrieve, R_Lock, R_Exhausted, R_Misplaced, R_Log, R_Undo, Return,
                            Stages, RetrieveStages
      <4>3. CASE Store(t)
          BY <4>3 DEF Store, S_Lock1, S_Lock2, S_Log, S_Quarantine, S_Refused, S_Find, S_Link,
                      S_Merge, Return, Stages, StoreStages
      <4> QED
          BY <1>1, <4>1, <4>2, <4>3
    <3>2. FitOK(t)'
        BY <2>1, <3>1 DEF Goto, FitOK
    <3> QED
        BY <1>1, <3>2, FitsStay
  <2> QED
      BY <2>2, <2>3, <2>4
<1>2. ASSUME UNCHANGED <<list, pc, own, frame>> PROVE FitsOK'
    BY <1>2 DEF FitsOK, FitOK, Scanned, SkipsList
<1>3. ASSUME NEW p \in Procs, Crash(p) \/ \E a \in Arenas : Consume(p, a) PROVE FitsOK'
    BY <1>2, <1>3 DEF Crash, Consume, arenaVars
<1>4. CASE UNCHANGED vars
    BY <1>2, <1>4 DEF vars
<1> QED
    BY <1>1, <1>3, <1>4 DEF Next

-----------------------------------------------------------------------------
(***************************************************************************)
(* The refinement of PageArena: free runs are the blocks of the list.      *)
(***************************************************************************)

\* The n pages from off are in F and the pages around them are not.
FullRun(F, off, n) ==
    /\ Run(off, n) \subseteq F
    /\ off - 1 \notin F
    /\ off + n \notin F

\* F has a full run whose length is among N.
SomeRun(F, N) == \E off \in F, n \in N : FullRun(F, off, n)

\* No two blocks of the list touch, so each is a full run, and there are no other ones.
LEMMA RunsOfList ==
    ASSUME NEW K, NEW m, Good(K, m)
    PROVE  /\ \A o \in Nodes(K) : FullRun(FreePages(K), o, K.blk[o].size)
           /\ \A off \in FreePages(K), n \in Nat \ {0} :
                 FullRun(FreePages(K), off, n) => off \in Nodes(K) /\ n = K.blk[off].size
<1> DEFINE N == Nodes(K)
           F == FreePages(K)
<1>1. /\ \A o \in N : o \in Nat /\ K.blk[o].size \in Nat /\ K.blk[o].size > 0
      /\ \A o, q \in N : o < q => o + K.blk[o].size < q
    BY GoodFacts
<1>2. \A p : p \in F <=> \E o \in N : p \in Int /\ o <= p /\ p < o + K.blk[o].size
    BY FreeIsCovered
<1> HIDE DEF N, F
<1>3. ASSUME NEW o \in N PROVE o + K.blk[o].size \notin F
  <2> SUFFICES ASSUME NEW q \in N, q <= o + K.blk[o].size, o + K.blk[o].size < q + K.blk[q].size
               PROVE  FALSE
      BY <1>2
  <2>1. CASE q = o
      BY <1>1, <2>1
  <2>2. CASE o < q
      BY <1>1, <2>2
  <2>3. CASE q < o
      BY <1>1, <2>3
  <2> QED
      BY <1>1, <2>1, <2>2, <2>3
<1>4. ASSUME NEW o \in N PROVE o - 1 \notin F
  <2> SUFFICES ASSUME NEW q \in N, q <= o - 1, o - 1 < q + K.blk[q].size
               PROVE  FALSE
      BY <1>2
  <2>1. q < o
      BY <1>1
  <2> QED
      BY <1>1, <2>1
<1>5. ASSUME NEW o \in N PROVE Run(o, K.blk[o].size) \subseteq F
  <2>1. o \in Nat /\ K.blk[o].size \in Nat
      BY <1>1
  <2>2. \A p \in Run(o, K.blk[o].size) : p \in Int /\ o <= p /\ p < o + K.blk[o].size
      BY <2>1 DEF Run
  <2> QED
      BY <1>2, <2>2
<1>6. ASSUME NEW off \in F, NEW n \in Nat \ {0}, FullRun(F, off, n)
      PROVE  off \in N /\ n = K.blk[off].size
  <2>1. PICK o \in N : off \in Int /\ o <= off /\ off < o + K.blk[o].size
      BY <1>2
  <2>2. off = o
    <3>1. ASSUME o < off PROVE off - 1 \in F
      <4>1. off - 1 \in Int /\ o <= off - 1 /\ off - 1 < o + K.blk[o].size
          BY <1>1, <2>1, <3>1
      <4> QED
          BY <1>2, <4>1
    <3> QED
        BY <1>1, <1>6, <2>1, <3>1 DEF FullRun
  <2> DEFINE s == K.blk[o].size
  <2>3. o \in Nat /\ s \in Nat /\ s > 0
      BY <1>1
  <2>4. ~(n < s)
    <3> SUFFICES ASSUME n < s PROVE o + n \in F
        BY <1>6, <2>2 DEF FullRun
    <3>1. o + n \in Int /\ o <= o + n /\ o + n < o + s
        BY <2>3
    <3> QED
        BY <1>2, <3>1
  <2>5. ~(s < n)
    <3> SUFFICES ASSUME s < n PROVE o + s \in F
        BY <1>3
    <3>1. o + s \in Run(o, n)
        BY <2>3 DEF Run
    <3> QED
        BY <1>6, <2>2, <3>1 DEF FullRun
  <2> QED
      BY <2>2, <2>3, <2>4, <2>5
<1> QED
    BY <1>3, <1>4, <1>5, <1>6 DEF FullRun, N, F

\* What is taken from the chosen block is the tail of a smallest run that fits.
LEMMA TakenIsTail ==
    ASSUME NEW K, NEW m, Good(K, m), NEW best \in Nodes(K), NEW n \in Nat \ {0},
           n <= K.blk[best].size, best # End, NEW skips, SmallestFit(K, best, n, skips)
    PROVE  LET F == FreePages(K)
               off == TakenAt(K, best, n)
           IN  \E k \in n .. TotalPages :
                  FullRun(F, off + n - k, k) /\ ~SomeRun(F, n .. (k - 1))
<1> DEFINE F == FreePages(K)
           off == TakenAt(K, best, n)
           k == K.blk[best].size
<1>1. /\ \A o \in Nodes(K) : o \in Nat /\ K.blk[o].size \in Nat
      /\ best + k <= m /\ m \in Nat /\ m <= TotalPages
    BY GoodFacts
<1>2. best \in Nat /\ k \in n .. TotalPages
    BY <1>1, GeometryAssumption
<1>3. off + n - k = best
    BY <1>2 DEF TakenAt
<1>4. \A o \in Nodes(K) : K.blk[o].size >= n => k <= K.blk[o].size
    BY DEF SmallestFit
<1> HIDE DEF F, off, k
<1>5. FullRun(F, off + n - k, k)
    BY <1>3, RunsOfList DEF F, k
<1>6. ~SomeRun(F, n .. (k - 1))
  <2> SUFFICES ASSUME NEW o \in F, NEW j \in n .. (k - 1), FullRun(F, o, j)
               PROVE  FALSE
      BY DEF SomeRun
  <2>1. j \in Nat \ {0} /\ j >= n /\ j < k
      BY <1>2
  <2>2. o \in Nodes(K) /\ j = K.blk[o].size
      BY <2>1, RunsOfList DEF F
  <2> QED
      BY <1>1, <1>2, <1>4, <2>1, <2>2
<1> QED
    BY <1>2, <1>5, <1>6 DEF F, off

\* A list without a block that is large enough has no such run.
LEMMA NoneFits ==
    ASSUME NEW K, NEW m, Good(K, m), NEW n \in Nat \ {0}, \A o \in Nodes(K) : K.blk[o].size < n
    PROVE  ~SomeRun(FreePages(K), n .. TotalPages)
<1> DEFINE F == FreePages(K)
<1> SUFFICES ASSUME NEW o \in F, NEW j \in n .. TotalPages, FullRun(F, o, j)
             PROVE  FALSE
    BY DEF SomeRun
<1>1. j \in Nat \ {0} /\ j >= n
    BY GeometryAssumption
<1>2. o \in Nodes(K) /\ j = K.blk[o].size
    BY <1>1, RunsOfList
<1> QED
    BY <1>1, <1>2

-----------------------------------------------------------------------------
(***************************************************************************)
(* The refinement of PageArena: the free pages and the bump offset that    *)
(* PageArena sees.                                                         *)
(***************************************************************************)

Takes(t, a) == Taking(t) /\ own[t] = a

\* What a block that is taken but not logged hides from PageArena.
View(a) ==
    /\ (\A t \in Threads : ~Takes(t, a)) =>
          AbsFree[a] = FreePages(list[a]) /\ AbsBump[a] = bump[a]
    /\ \A t \in Threads : Takes(t, a) /\ frame[t].best = End =>
          AbsFree[a] = FreePages(list[a]) /\ AbsBump[a] = frame[t].off
    /\ \A t \in Threads : Takes(t, a) /\ frame[t].best # End =>
          AbsFree[a] = FreePages(list[a]) \cup PagesOf(FrameBlock(t)) /\ AbsBump[a] = bump[a]

\* The lock of an arena lets one thread at a time take a block from it.
LEMMA Views == LockInv => \A a \in Arenas : View(a)
<1> SUFFICES ASSUME LockInv, NEW a \in Arenas PROVE View(a)
    OBVIOUS
<1> DEFINE From == {u \in Threads : Taking(u) /\ own[u] = a /\ frame[u].best # End}
           Some == \E u \in Threads : Taking(u) /\ own[u] = a /\ frame[u].best = End
           who == CHOOSE u \in Threads : Taking(u) /\ own[u] = a
<1>1. /\ AbsFree[a] = FreePages(list[a]) \cup UNION {PagesOf(FrameBlock(u)) : u \in From}
      /\ AbsBump[a] = IF Some THEN frame[who].off ELSE bump[a]
    BY DEF AbsFree, AbsBump
<1>2. ASSUME \A u \in Threads : ~Takes(u, a)
      PROVE  From = {} /\ ~Some
    BY <1>2 DEF Takes
<1>3. ASSUME NEW t \in Threads, Takes(t, a)
      PROVE  /\ who = t
             /\ Some <=> frame[t].best = End
             /\ From = IF frame[t].best # End THEN {t} ELSE {}
  <2>1. \A u \in Threads : Taking(u) /\ own[u] = a => a \in Holds(u)
      BY StageHolds DEF Taking
  <2>2. \A u \in Threads : Taking(u) /\ own[u] = a => u = t
      BY <1>3, <2>1 DEF LockInv, MutualExclusion, Takes
  <2>3. who = t
      BY <1>3, <2>2 DEF Takes
  <2> HIDE DEF who
  <2> QED
      BY <1>3, <2>2, <2>3 DEF Takes
<1> HIDE DEF From, Some, who
<1>4. From = {} => UNION {PagesOf(FrameBlock(u)) : u \in From} = {}
    OBVIOUS
<1>5. ASSUME NEW t, From = {t}
      PROVE  UNION {PagesOf(FrameBlock(u)) : u \in From} = PagesOf(FrameBlock(t))
    BY <1>5
<1>6. ASSUME \A u \in Threads : ~Takes(u, a)
      PROVE  AbsFree[a] = FreePages(list[a]) /\ AbsBump[a] = bump[a]
    BY <1>1, <1>2, <1>4, <1>6
<1>7. ASSUME NEW t \in Threads, Takes(t, a), frame[t].best = End
      PROVE  AbsFree[a] = FreePages(list[a]) /\ AbsBump[a] = frame[t].off
    BY <1>1, <1>3, <1>4, <1>7
<1>8. ASSUME NEW t \in Threads, Takes(t, a), frame[t].best # End
      PROVE  AbsFree[a] = FreePages(list[a]) \cup PagesOf(FrameBlock(t)) /\ AbsBump[a] = bump[a]
    BY <1>1, <1>3, <1>5, <1>8
<1> QED
    BY <1>6, <1>7, <1>8 DEF View

\* The same after a step.
LEMMA ViewsNext == LockInv' => \A a \in Arenas : View(a)'
<1>1. (LockInv => \A a \in Arenas : View(a))'
    BY Views, PTL
<1> QED
    BY <1>1

\* An arena whose list and bump offset a step leaves alone looks the same afterwards when
\* the thread takes nothing from it before and after.
LEMMA ViewStays ==
    ASSUME LockInv, LockInv', NEW t \in Threads, OthersStay(t), NEW a \in Arenas,
           FreePages(list'[a]) = FreePages(list[a]), bump'[a] = bump[a],
           ~Takes(t, a), ~Takes(t, a)'
    PROVE  AbsFree'[a] = AbsFree[a] /\ AbsBump'[a] = AbsBump[a]
<1>1. View(a) /\ View(a)'
    BY Views, ViewsNext
<1>2. \A u \in Threads : /\ Takes(u, a)' <=> Takes(u, a)
                         /\ Takes(u, a) => /\ frame'[u] = frame[u]
                                           /\ FrameBlock(u)' = FrameBlock(u)
    BY DEF OthersStay, Takes, Taking, FrameBlock
<1>3. CASE \A u \in Threads : ~Takes(u, a)
    BY <1>1, <1>2, <1>3 DEF View
<1>4. ASSUME NEW u \in Threads, Takes(u, a)
      PROVE  AbsFree'[a] = AbsFree[a] /\ AbsBump'[a] = AbsBump[a]
  <2>1. /\ Takes(u, a)' /\ frame'[u] = frame[u]
        /\ PagesOf(FrameBlock(u)') = PagesOf(FrameBlock(u))
      BY <1>2, <1>4
  <2>2. CASE frame[u].best = End
      BY <1>1, <1>4, <2>1, <2>2 DEF View
  <2>3. CASE frame[u].best # End
    <3>1. /\ AbsFree[a] = FreePages(list[a]) \cup PagesOf(FrameBlock(u)) /\ AbsBump[a] = bump[a]
        BY <1>1, <1>4, <2>3 DEF View
    <3>2. /\ AbsFree'[a] = FreePages(list'[a]) \cup PagesOf(FrameBlock(u)') /\ AbsBump'[a] = bump'[a]
        BY <1>1, <2>1, <2>3 DEF View, PagesOf
    <3> QED
        BY <2>1, <3>1, <3>2
  <2> QED
      BY <2>2, <2>3
<1> QED
    BY <1>3, <1>4

\* Both are functions on the arenas.
LEMMA ViewFunctions ==
    /\ AbsFree = [a \in Arenas |-> AbsFree[a]] /\ AbsBump = [a \in Arenas |-> AbsBump[a]]
    /\ AbsFree' = [a \in Arenas |-> AbsFree'[a]] /\ AbsBump' = [a \in Arenas |-> AbsBump'[a]]
BY DEF AbsFree, AbsBump

\* A step that neither begins nor ends the taking of a block is invisible unless the free
\* pages or the bump offset of an arena change.
LEMMA ViewQuiet ==
    ASSUME LockInv, LockInv', NEW t \in Threads, OthersStay(t), ~Taking(t), ~Taking(t)',
           bump' = bump, \A a \in Arenas : FreePages(list'[a]) = FreePages(list[a])
    PROVE  AbsFree' = AbsFree /\ AbsBump' = AbsBump
<1>1. \A a \in Arenas : AbsFree'[a] = AbsFree[a] /\ AbsBump'[a] = AbsBump[a]
    BY ViewStays DEF Takes
<1> QED
    BY <1>1, ViewFunctions

\* What PageArena sees of the arena that a thread has locked.
LEMMA ViewLocal ==
    ASSUME LockInv, LockInv', NEW t \in Threads, OthersStay(t),
           NEW a \in Arenas, own[t] = a, a \in Holds(t), Taking(t)' => own'[t] = a
    PROVE  /\ ~Taking(t) => AbsFree[a] = FreePages(list[a]) /\ AbsBump[a] = bump[a]
           /\ ~Taking(t)' => AbsFree'[a] = FreePages(list'[a]) /\ AbsBump'[a] = bump'[a]
           /\ Taking(t) /\ frame[t].best = End =>
                 AbsFree[a] = FreePages(list[a]) /\ AbsBump[a] = frame[t].off
           /\ Taking(t)' /\ frame'[t].best = End =>
                 AbsFree'[a] = FreePages(list'[a]) /\ AbsBump'[a] = frame'[t].off
           /\ Taking(t) /\ frame[t].best # End =>
                 /\ AbsFree[a] = FreePages(list[a]) \cup PagesOf(FrameBlock(t))
                 /\ AbsBump[a] = bump[a]
           /\ Taking(t)' /\ frame'[t].best # End =>
                 /\ AbsFree'[a] = FreePages(list'[a]) \cup PagesOf(FrameBlock(t)')
                 /\ AbsBump'[a] = bump'[a]
<1>1. View(a) /\ View(a)'
    BY Views, ViewsNext
<1>2. \A u \in Threads \ {t} : ~Takes(u, a)
  <2>1. \A u \in Threads : Takes(u, a) => a \in Holds(u)
      BY StageHolds DEF Taking, Takes
  <2> QED
      BY <2>1 DEF LockInv, MutualExclusion
<1>3. \A u \in Threads \ {t} : ~Takes(u, a)'
    BY <1>2 DEF OthersStay, Takes, Taking
<1>4. (Takes(t, a) <=> Taking(t)) /\ (Takes(t, a)' <=> Taking(t)')
    BY DEF Takes, Taking
<1>5. /\ ~Taking(t) => \A u \in Threads : ~Takes(u, a)
      /\ ~Taking(t)' => \A u \in Threads : ~Takes(u, a)'
    BY <1>2, <1>3, <1>4
<1>6. /\ ~Taking(t) => AbsFree[a] = FreePages(list[a]) /\ AbsBump[a] = bump[a]
      /\ Taking(t) /\ frame[t].best = End =>
            AbsFree[a] = FreePages(list[a]) /\ AbsBump[a] = frame[t].off
      /\ Taking(t) /\ frame[t].best # End =>
            AbsFree[a] = FreePages(list[a]) \cup PagesOf(FrameBlock(t)) /\ AbsBump[a] = bump[a]
    BY <1>1, <1>4, <1>5 DEF View
<1>7. /\ (\A u \in Threads : ~Takes(u, a)') =>
            AbsFree'[a] = FreePages(list'[a]) /\ AbsBump'[a] = bump'[a]
      /\ Takes(t, a)' /\ frame'[t].best = End =>
            AbsFree'[a] = FreePages(list'[a]) /\ AbsBump'[a] = frame'[t].off
      /\ Takes(t, a)' /\ frame'[t].best # End =>
            /\ AbsFree'[a] = FreePages(list'[a]) \cup PagesOf(FrameBlock(t)')
            /\ AbsBump'[a] = bump'[a]
    BY <1>1 DEF View, PagesOf
<1> QED
    BY <1>4, <1>5, <1>6, <1>7

\* What the others see does not change.
LEMMA ViewElsewhere ==
    ASSUME LockInv, LockInv', NEW t \in Threads, OthersStay(t), own[t] \in Arenas,
           \A a \in Arenas : a # own[t] =>
              FreePages(list'[a]) = FreePages(list[a]) /\ bump'[a] = bump[a],
           Taking(t)' => own'[t] = own[t]
    PROVE  /\ AbsFree' = [AbsFree EXCEPT ![own[t]] = AbsFree'[own[t]]]
           /\ AbsBump' = [AbsBump EXCEPT ![own[t]] = AbsBump'[own[t]]]
<1>1. \A a \in Arenas : a # own[t] => AbsFree'[a] = AbsFree[a] /\ AbsBump'[a] = AbsBump[a]
  <2> SUFFICES ASSUME NEW a \in Arenas, a # own[t]
               PROVE  AbsFree'[a] = AbsFree[a] /\ AbsBump'[a] = AbsBump[a]
      OBVIOUS
  <2>1. ~Takes(t, a) /\ ~Takes(t, a)'
      BY DEF Takes, Taking
  <2> QED
      BY <2>1, ViewStays
<1> DEFINE f == AbsFree  f1 == AbsFree'  b == AbsBump  b1 == AbsBump'
<1>2. /\ f = [a \in Arenas |-> f[a]] /\ b = [a \in Arenas |-> b[a]]
      /\ f1 = [a \in Arenas |-> f1[a]] /\ b1 = [a \in Arenas |-> b1[a]]
    BY ViewFunctions
<1> HIDE DEF f, f1, b, b1
<1> QED
    BY <1>1, <1>2 DEF f, f1, b, b1

-----------------------------------------------------------------------------
(***************************************************************************)
(* The refinement of PageArena: the blocks that processes have.            *)
(***************************************************************************)

\* A process has the blocks it holds and those its threads are storing.
LEMMA OutMembers ==
    /\ AbsOut = [p \in Procs |-> AbsOut[p]]
    /\ \A p \in Procs : \A b : b \in AbsOut[p] <=>
          b \in held[p] \/ \E u \in Threads : ProcOf[u] = p /\ Storing(u) /\ b = FrameBlock(u)
<1> DEFINE Under(p) == {u \in Threads : ProcOf[u] = p /\ Storing(u)}
<1>1. AbsOut = [p \in Procs |-> held[p] \cup {FrameBlock(u) : u \in Under(p)}]
    BY DEF AbsOut
<1>2. \A p, u : u \in Under(p) <=> u \in Threads /\ ProcOf[u] = p /\ Storing(u)
    OBVIOUS
<1> HIDE DEF Under
<1>3. \A p \in Procs : AbsOut[p] = held[p] \cup {FrameBlock(u) : u \in Under(p)}
    BY <1>1
<1>4. \A p \in Procs : \A b : b \in AbsOut[p] <=>
          b \in held[p] \/ \E u \in Under(p) : b = FrameBlock(u)
    BY <1>3
<1> QED
    BY <1>1, <1>2, <1>3, <1>4

\* The same after a step.
LEMMA OutMembersNext ==
    /\ AbsOut' = [p \in Procs |-> AbsOut'[p]]
    /\ \A p \in Procs : \A b : b \in AbsOut'[p] <=>
          b \in held'[p] \/ \E u \in Threads : ProcOf[u] = p /\ Storing(u)' /\ b = FrameBlock(u)'
<1>1. (/\ AbsOut = [p \in Procs |-> AbsOut[p]]
       /\ \A p \in Procs : \A b : b \in AbsOut[p] <=>
             b \in held[p] \/ \E u \in Threads : ProcOf[u] = p /\ Storing(u) /\ b = FrameBlock(u))'
    BY OutMembers, PTL
<1> QED
    BY <1>1

\* What the step of one thread leaves of the others' stores.
LEMMA OthersStore ==
    ASSUME NEW t \in Threads, OthersStay(t)
    PROVE  \A u \in Threads \ {t} : (Storing(u)' <=> Storing(u)) /\ FrameBlock(u)' = FrameBlock(u)
BY DEF OthersStay, Storing, FrameBlock

\* A step that neither begins nor ends a store keeps the processes' blocks.
LEMMA OutStays ==
    ASSUME NEW t \in Threads, OthersStay(t), held' = held, Storing(t)' <=> Storing(t),
           Storing(t) => FrameBlock(t)' = FrameBlock(t)
    PROVE  AbsOut' = AbsOut
<1>1. \A u \in Threads : /\ Storing(u)' <=> Storing(u)
                         /\ Storing(u) => FrameBlock(u)' = FrameBlock(u)
    BY OthersStore
<1>2. ASSUME NEW p \in Procs PROVE AbsOut'[p] = AbsOut[p]
  <2>1. \A b : b \in AbsOut'[p] <=> b \in AbsOut[p]
      BY <1>1, OutMembers, OutMembersNext
  <2>2. AbsOut'[p] = held'[p] \cup {FrameBlock(u)' : u \in {v \in Threads : ProcOf[v] = p /\ Storing(v)'}}
      BY DEF AbsOut
  <2>3. AbsOut[p] = held[p] \cup {FrameBlock(u) : u \in {v \in Threads : ProcOf[v] = p /\ Storing(v)}}
      BY DEF AbsOut
  <2> QED
      BY <2>1, <2>2, <2>3
<1> QED
    BY <1>2, OutMembers, OutMembersNext

\* Sets with the same members are equal.
LEMMA SameMembers ==
    ASSUME NEW S, NEW T, \A x : x \in S <=> x \in T
    PROVE  S = T
OBVIOUS

\* A logged block is its process'.
LEMMA OutObtained ==
    ASSUME ArenaTypeOK, NEW t \in Threads, OthersStay(t), ProcOf[t] \in Procs,
           held' = [held EXCEPT ![ProcOf[t]] = @ \cup {FrameBlock(t)}],
           ~Storing(t), ~Storing(t)'
    PROVE  AbsOut' = [AbsOut EXCEPT ![ProcOf[t]] = @ \cup {FrameBlock(t)}]
<1> DEFINE p == ProcOf[t]
           b == FrameBlock(t)
           new == [AbsOut EXCEPT ![p] = @ \cup {b}]
<1>1. \A u \in Threads : /\ Storing(u)' <=> Storing(u)
                         /\ Storing(u) => FrameBlock(u)' = FrameBlock(u)
    BY OthersStore
<1>2. \A q \in Procs : \A x : x \in held'[q] <=> x \in held[q] \/ (q = p /\ x = b)
    BY DEF ArenaTypeOK
<1>3. \A q \in Procs : \A x : x \in new[q] <=> x \in AbsOut[q] \/ (q = p /\ x = b)
    BY OutMembers
<1> HIDE DEF b, p
<1>4. \A q \in Procs : \A x : x \in AbsOut'[q] <=> x \in new[q]
    BY <1>1, <1>2, <1>3, OutMembers, OutMembersNext
<1>5. new = [q \in Procs |-> new[q]]
    BY OutMembers
<1> HIDE DEF new
<1>6. \A q \in Procs : AbsOut'[q] = new[q]
    BY <1>4, SameMembers
<1> QED
    BY <1>5, <1>6, OutMembersNext DEF new, b, p

\* A block that a store takes from its process is still under way.
LEMMA OutStored ==
    ASSUME ArenaTypeOK, NEW t \in Threads, OthersStay(t), ProcOf[t] \in Procs,
           NEW b \in held[ProcOf[t]],
           held' = [held EXCEPT ![ProcOf[t]] = @ \ {b}],
           ~Storing(t), Storing(t)', FrameBlock(t)' = b
    PROVE  AbsOut' = AbsOut
<1> DEFINE p == ProcOf[t]
<1>1. \A u \in Threads \ {t} : /\ Storing(u)' <=> Storing(u)
                               /\ Storing(u) => FrameBlock(u)' = FrameBlock(u)
    BY OthersStore
<1>2. \A q \in Procs : \A x : x \in held'[q] <=> x \in held[q] /\ ~(q = p /\ x = b)
    BY DEF ArenaTypeOK
<1>3. b \in held[p] /\ (\A q : ProcOf[t] = q <=> p = q)
    OBVIOUS
<1> HIDE DEF p
<1>4. \A q \in Procs : \A x : x \in AbsOut'[q] <=> x \in AbsOut[q]
    BY <1>1, <1>2, <1>3, OutMembers, OutMembersNext
<1>5. \A q \in Procs : AbsOut'[q] = AbsOut[q]
    BY <1>4, SameMembers
<1> QED
    BY <1>5, OutMembers, OutMembersNext

\* The block of a store is in nobody else's hands.
LEMMA StoredOnce ==
    ASSUME ArenaInv, NEW t \in Threads, Storing(t)
    PROVE  /\ \A p \in Procs : FrameBlock(t) \notin held[p]
           /\ \A u \in Threads \ {t} : Storing(u) => FrameBlock(u) # FrameBlock(t)
<1> DEFINE b == FrameBlock(t)
           c == BusyClaim(t)
<1>1. c \in Claims /\ b \in Blocks /\ Ledger(Claims, Free, bump) /\ Busy(t)
    BY BusyFacts DEF Busy, ArenaInv
<1>2. c.block = b /\ c.kind = "busy" /\ c.who = t
    BY DEF BusyClaim
<1>3. Clash(b, b)
    BY <1>1, BlockPages DEF Clash
<1> HIDE DEF c
<1>4. ASSUME NEW d \in Claims, d.block = b PROVE d = c
    BY <1>1, <1>2, <1>3, <1>4 DEF Ledger
<1>5. ASSUME NEW p \in Procs, b \in held[p] PROVE FALSE
  <2> DEFINE d == HeldClaim(p, b)
  <2>1. d.block = b /\ d.kind = "held"
      BY DEF HeldClaim
  <2>2. d \in Claims
      BY <1>5 DEF Claims, HeldClaims
  <2> HIDE DEF d
  <2>3. d = c
      BY <1>4, <2>1, <2>2
  <2> QED
      BY <1>2, <2>1, <2>3
<1>6. ASSUME NEW u \in Threads \ {t}, Storing(u), FrameBlock(u) = b PROVE FALSE
  <2> DEFINE d == BusyClaim(u)
  <2>1. d.block = b /\ d.who = u
      BY <1>6 DEF BusyClaim
  <2>2. d \in Claims
      BY <1>6, BusyFacts DEF Busy
  <2> HIDE DEF d
  <2>3. d = c
      BY <1>4, <2>1, <2>2
  <2> QED
      BY <1>2, <2>1, <2>3
<1> QED
    BY <1>5, <1>6

\* A store that ends takes its block from the process.
LEMMA OutLeaves ==
    ASSUME ArenaInv, NEW t \in Threads, OthersStay(t), held' = held, Storing(t), ~Storing(t)'
    PROVE  /\ FrameBlock(t) \in AbsOut[ProcOf[t]]
           /\ AbsOut' = [AbsOut EXCEPT ![ProcOf[t]] = @ \ {FrameBlock(t)}]
<1> DEFINE p == ProcOf[t]
           b == FrameBlock(t)
           new == [AbsOut EXCEPT ![p] = @ \ {b}]
<1>1. \A u \in Threads \ {t} : /\ Storing(u)' <=> Storing(u)
                               /\ Storing(u) => FrameBlock(u)' = FrameBlock(u)
    BY OthersStore
<1>2. /\ \A q \in Procs : b \notin held[q]
      /\ \A u \in Threads \ {t} : Storing(u) => FrameBlock(u) # b
      /\ p \in Procs /\ FrameBlock(t) = b /\ (\A q : ProcOf[t] = q <=> p = q)
    BY StoredOnce, ArenaNow
<1>3. \A q \in Procs : \A x : x \in new[q] <=> x \in AbsOut[q] /\ ~(q = p /\ x = b)
    BY OutMembers
<1>4. new = [q \in Procs |-> new[q]]
    BY OutMembers
<1> HIDE DEF b, p, new
<1>5. \A q \in Procs : \A x : x \in AbsOut'[q] <=> x \in new[q]
    BY <1>1, <1>2, <1>3, OutMembers, OutMembersNext
<1>6. \A q \in Procs : AbsOut'[q] = new[q]
    BY <1>5, SameMembers
<1>7. b \in AbsOut[p]
    BY <1>2, OutMembers
<1> QED
    BY <1>4, <1>6, <1>7, OutMembersNext DEF new, b, p

-----------------------------------------------------------------------------
(***************************************************************************)
(* The refinement of PageArena: its actions.                               *)
(***************************************************************************)

\* The blocks that PageArena sees as lost are those of the ghost variable.
LEMMA LostStays ==
    ASSUME lost' = lost
    PROVE  AbsLost' = AbsLost
BY DEF AbsLost

\* A block that a call loses is the one of its frame.
LEMMA LostGrows ==
    ASSUME NEW t \in Threads, NEW why, lost' = lost \cup {Loss(t, why)}
    PROVE  AbsLost' = AbsLost \cup {FrameBlock(t)}
<1> DEFINE Block(x) == [arena |-> x.arena, off |-> x.off, n |-> x.n]
           l == Loss(t, why)
<1>1. Block(l) = FrameBlock(t)
    BY DEF Loss, FrameBlock
<1>2. AbsLost = {Block(x) : x \in lost} /\ AbsLost' = {Block(x) : x \in lost'}
    BY DEF AbsLost
<1> HIDE DEF l, Block
<1>3. \A b : b \in AbsLost' <=> b \in AbsLost \cup {Block(l)}
    BY <1>2 DEF l
<1> QED
    BY <1>1, <1>3, SameMembers

\* How block b leaves the free pages or the bump area.
Leaves(p, b) ==
    \/ /\ p \notin NoFreelist
       /\ \E k \in b.n .. TotalPages :
             /\ FullRun(AbsFree[b.arena], b.off + b.n - k, k)
             /\ ~SomeRun(AbsFree[b.arena], b.n .. (k - 1))
       /\ AbsFree' = [AbsFree EXCEPT ![b.arena] = @ \ PagesOf(b)]
       /\ AbsBump' = AbsBump
    \/ /\ b.off = AbsBump[b.arena]
       /\ b.off + b.n <= TotalPages
       /\ p \in NoFreelist \/ ~SomeRun(AbsFree[b.arena], b.n .. TotalPages)
       /\ AbsBump' = [AbsBump EXCEPT ![b.arena] = @ + b.n]
       /\ AbsFree' = AbsFree

\* The actions of PageArena under the refinement mapping.
LEMMA PromiseActions ==
    /\ Promise!Init <=> /\ AbsFree = [a \in Arenas |-> {}] /\ AbsBump = [a \in Arenas |-> 0]
                        /\ AbsOut = [p \in Procs |-> {}] /\ AbsLost = {}
    /\ \A p, b : Leaves(p, b) <=> Promise!TakeFree(p, b) \/ Promise!TakeBump(p, b)
    /\ \A p, b : Promise!Obtain(p, b) <=>
          /\ AbsOut' = [AbsOut EXCEPT ![p] = @ \cup {b}]
          /\ Leaves(p, b) /\ AbsLost' = AbsLost
    /\ \A p, b : Promise!Misplace(p, b) <=>
          /\ AbsLost' = AbsLost \cup {b}
          /\ Leaves(p, b) /\ AbsOut' = AbsOut
    /\ \A p, b : Promise!GiveBack(p, b) <=>
          /\ b \in AbsOut[p]
          /\ AbsOut' = [AbsOut EXCEPT ![p] = @ \ {b}]
          /\ AbsFree' = [AbsFree EXCEPT ![b.arena] = @ \cup PagesOf(b)]
          /\ AbsBump' = AbsBump /\ AbsLost' = AbsLost
    /\ \A p, b : Promise!Forget(p, b) <=>
          /\ b \in AbsOut[p]
          /\ AbsOut' = [AbsOut EXCEPT ![p] = @ \ {b}]
          /\ AbsLost' = AbsLost \cup {b}
          /\ AbsFree' = AbsFree /\ AbsBump' = AbsBump
    /\ AbsFree' = AbsFree /\ AbsBump' = AbsBump /\ AbsOut' = AbsOut /\ AbsLost' = AbsLost
          => UNCHANGED Promise!vars
    /\ \A p \in Procs, b \in Blocks :
          Promise!Obtain(p, b) \/ Promise!Misplace(p, b) \/ Promise!GiveBack(p, b)
             \/ Promise!Forget(p, b) => Promise!Next
<1>1. \A F, off, n : Promise!IsRun(F, off, n) <=> FullRun(F, off, n)
    BY DEF Promise!IsRun, FullRun, Promise!Run, Run
<1>2. \A F, N : Promise!HasRun(F, N) <=> SomeRun(F, N)
    BY <1>1 DEF Promise!HasRun, SomeRun
<1>3. \A b : Promise!PagesOf(b) = PagesOf(b)
    BY DEF Promise!PagesOf, PagesOf, Promise!Run, Run
<1>4. \A p, b : Leaves(p, b) <=> Promise!TakeFree(p, b) \/ Promise!TakeBump(p, b)
    BY <1>1, <1>2, <1>3 DEF Leaves, Promise!TakeFree, Promise!TakeBump
<1>5. Promise!Init <=> /\ AbsFree = [a \in Arenas |-> {}] /\ AbsBump = [a \in Arenas |-> 0]
                       /\ AbsOut = [p \in Procs |-> {}] /\ AbsLost = {}
    BY DEF Promise!Init, Promise!Arenas, Arenas
<1>6. \A p, b : Promise!Obtain(p, b) <=>
          /\ AbsOut' = [AbsOut EXCEPT ![p] = @ \cup {b}]
          /\ Leaves(p, b) /\ AbsLost' = AbsLost
    BY <1>4 DEF Promise!Obtain
<1>7. \A p, b : Promise!Misplace(p, b) <=>
          /\ AbsLost' = AbsLost \cup {b}
          /\ Leaves(p, b) /\ AbsOut' = AbsOut
    BY <1>4 DEF Promise!Misplace
<1>8. \A p, b : Promise!GiveBack(p, b) <=>
          /\ b \in AbsOut[p]
          /\ AbsOut' = [AbsOut EXCEPT ![p] = @ \ {b}]
          /\ AbsFree' = [AbsFree EXCEPT ![b.arena] = @ \cup PagesOf(b)]
          /\ AbsBump' = AbsBump /\ AbsLost' = AbsLost
    BY <1>3 DEF Promise!GiveBack
<1>9. \A p, b : Promise!Forget(p, b) <=>
          /\ b \in AbsOut[p]
          /\ AbsOut' = [AbsOut EXCEPT ![p] = @ \ {b}]
          /\ AbsLost' = AbsLost \cup {b}
          /\ AbsFree' = AbsFree /\ AbsBump' = AbsBump
    BY DEF Promise!Forget
<1>10. AbsFree' = AbsFree /\ AbsBump' = AbsBump /\ AbsOut' = AbsOut /\ AbsLost' = AbsLost
          => UNCHANGED Promise!vars
    BY DEF Promise!vars
<1>11. \A p \in Procs, b \in Blocks :
          Promise!Obtain(p, b) \/ Promise!Misplace(p, b) \/ Promise!GiveBack(p, b)
             \/ Promise!Forget(p, b) => Promise!Next
    BY DEF Promise!Next, Promise!Blocks, Blocks, Promise!Arenas, Arenas, Promise!Pages, Pages
<1> QED
    BY <1>4, <1>5, <1>6, <1>7, <1>8, <1>9, <1>10, <1>11

\* When the taking of a block ends with the block in a process' hands or lost, it comes from
\* the tail of a smallest run that fits or, when there is none, from the bump area.
LEMMA BlockLeaves ==
    ASSUME ArenaInv, LockInv', FitsOK, NEW t \in Threads, OthersStay(t), Taking(t), ~Taking(t)',
           bump' = bump, \A a \in Arenas : FreePages(list'[a]) = FreePages(list[a])
    PROVE  Leaves(ProcOf[t], FrameBlock(t))
<1>1. PICK a \in Arenas : own[t] = a
    BY ArenaNow
<1> DEFINE p == ProcOf[t]
           b == FrameBlock(t)
           n == frame[t].n
           off == frame[t].off
           best == frame[t].best
           L == list[a]
           K == PutBack(L, best, off, n)
           F == AbsFree[a]
<1>2. /\ b.arena = a /\ b.off = off /\ b.n = n /\ a \in Holds(t)
      /\ n \in Nat \ {0} /\ off \in Nat /\ off + n <= bump[a] /\ PagesOf(b) = Run(off, n)
      /\ PagesOf(b) \cap FreePages(L) = {}
      /\ bump[a] \in 0 .. TotalPages
    BY <1>1, BusyFacts, ArenaNow, StageHolds DEF Busy, Taking, FrameBlock
<1>3. TakenOK(t) /\ SmallestFit(Scanned(t), best, n, SkipsList(t))
    BY ArenaNow DEF StageOK, Taking, FitsOK, FitOK
<1>4. /\ best = End => F = FreePages(L) /\ AbsBump[a] = off
      /\ best # End => F = FreePages(L) \cup PagesOf(b) /\ AbsBump[a] = bump[a]
      /\ AbsFree'[a] = FreePages(list'[a]) /\ AbsBump'[a] = bump'[a]
    BY <1>1, <1>2, ArenaNow, ViewLocal DEF ArenaInv
<1>5. /\ AbsFree' = [AbsFree EXCEPT ![a] = AbsFree'[a]]
      /\ AbsBump' = [AbsBump EXCEPT ![a] = AbsBump'[a]]
    BY <1>1, ArenaNow, ViewElsewhere
<1>6. /\ AbsFree = [x \in Arenas |-> AbsFree[x]] /\ AbsBump = [x \in Arenas |-> AbsBump[x]]
    BY ViewFunctions
<1>7. FreePages(list'[a]) = FreePages(L) /\ bump'[a] = bump[a]
    OBVIOUS
<1> HIDE DEF p, b, n, off, best, L, K, F
<1>8. CASE best # End
  <2>1. /\ Good(K, bump[a]) /\ best \in Nodes(K) /\ n <= K.blk[best].size
        /\ L = Take(K, best, n) /\ off = TakenAt(K, best, n)
      BY <1>1, <1>3, <1>8 DEF TakenOK, L, K, n, off, best
  <2>2. SmallestFit(K, best, n, SkipsList(t))
      BY <1>1, <1>3, <1>8 DEF Scanned, Taking, L, K, n, off, best
  <2>3. F = FreePages(K)
    <3>1. Run(off, n) \subseteq FreePages(K) /\ FreePages(L) = FreePages(K) \ Run(off, n)
        BY <1>2, <2>1, TakeChain
    <3> QED
        BY <1>2, <1>4, <1>8, <3>1
  <2>4. \E k \in n .. TotalPages :
            FullRun(F, off + n - k, k) /\ ~SomeRun(F, n .. (k - 1))
      BY <1>2, <1>8, <2>1, <2>2, <2>3, TakenIsTail
  <2>5. p \notin NoFreelist
      BY <1>8, <2>2 DEF SmallestFit, SkipsList, p
  <2>6. AbsFree'[a] = F \ PagesOf(b) /\ AbsBump'[a] = AbsBump[a]
      BY <1>2, <1>4, <1>7, <1>8
  <2>7. AbsFree' = [AbsFree EXCEPT ![a] = @ \ PagesOf(b)] /\ AbsBump' = AbsBump
      BY <1>5, <1>6, <2>6 DEF F
  <2> QED
      BY <1>2, <2>4, <2>5, <2>7 DEF Leaves, F, b, p
<1>9. CASE best = End
  <2>1. Good(L, off) /\ bump[a] = off + n
      BY <1>1, <1>3, <1>9 DEF TakenOK, L, n, off, best
  <2>2. SmallestFit(L, best, n, SkipsList(t))
      BY <1>1, <1>3, <1>9 DEF Scanned, Taking, L, n, off, best
  <2>3. p \in NoFreelist \/ ~SomeRun(F, n .. TotalPages)
    <3>1. SkipsList(t) \/ \A o \in Nodes(L) : L.blk[o].size < n
        BY <1>9, <2>2 DEF SmallestFit
    <3>2. CASE SkipsList(t)
        BY <3>2 DEF SkipsList, p
    <3>3. CASE \A o \in Nodes(L) : L.blk[o].size < n
        BY <1>2, <1>4, <1>9, <2>1, <3>3, NoneFits
    <3> QED
        BY <3>1, <3>2, <3>3
  <2>4. AbsFree'[a] = F /\ AbsBump'[a] = AbsBump[a] + n /\ off = AbsBump[a]
      BY <1>4, <1>7, <1>9, <2>1
  <2>5. AbsBump' = [AbsBump EXCEPT ![a] = @ + n] /\ AbsFree' = AbsFree
      BY <1>5, <1>6, <2>4 DEF F
  <2>6. off + n <= TotalPages
      BY <1>2, GeometryAssumption
  <2> QED
      BY <1>2, <2>3, <2>4, <2>5, <2>6 DEF Leaves, F, b, p
<1> QED
    BY <1>8, <1>9

-----------------------------------------------------------------------------
(***************************************************************************)
(* The refinement of PageArena: steps that it does not see.                *)
(***************************************************************************)

Unseen == AbsFree' = AbsFree /\ AbsBump' = AbsBump /\ AbsOut' = AbsOut /\ AbsLost' = AbsLost

\* A step outside the taking of a block that moves no block and frees no page.
LEMMA QuietUnseen ==
    ASSUME ArenaInv, LockInv', NEW t \in Threads, OthersStay(t), ~Taking(t), ~Taking(t)',
           Storing(t)' <=> Storing(t), Storing(t) => FrameBlock(t)' = FrameBlock(t),
           held' = held, lost' = lost, bump' = bump,
           \A a \in Arenas : FreePages(list'[a]) = FreePages(list[a])
    PROVE  Unseen
<1>1. AbsFree' = AbsFree /\ AbsBump' = AbsBump
    BY ViewQuiet DEF ArenaInv
<1>2. AbsOut' = AbsOut /\ AbsLost' = AbsLost
    BY OutStays, LostStays
<1> QED
    BY <1>1, <1>2 DEF Unseen

\* The start of retrieve and the locks.
LEMMA UnseenCall ==
    ASSUME ArenaInv, LockInv', NEW t \in Threads,
           R_Call(t) \/ R_Lock(t) \/ S_Lock1(t) \/ S_Lock2(t) \/ S_Log(t)
    PROVE  Unseen
<1>1. OthersStay(t)
    BY StepShape DEF Call, Retrieve, Store
<1>2. pc \in [Threads -> Stages]
    BY DEF ArenaInv, LockInv, LockTypeOK
<1>3. CASE R_Call(t)
  <2>1. pc[t] = "idle" /\ pc'[t] = "r_lock"
      BY <1>2, <1>3 DEF R_Call, At, Goto
  <2>2. held' = held /\ lost' = lost /\ bump' = bump /\ list' = list
      BY <1>3 DEF R_Call, arenaVars
  <2> QED
      BY <1>1, <2>1, <2>2, QuietUnseen DEF Taking, Storing
<1>4. CASE R_Lock(t) \/ S_Lock1(t) \/ S_Lock2(t) \/ S_Log(t)
  <2>1. /\ ~Taking(t) /\ ~Taking(t)' /\ (Storing(t)' <=> Storing(t))
        /\ own' = own /\ frame' = frame /\ held' = held /\ lost' = lost
        /\ bump' = bump /\ list' = list
    <3>1. CASE R_Lock(t)
        BY <1>2, <3>1 DEF R_Lock, At, Goto, Taking, Storing
    <3>2. CASE S_Lock1(t)
        BY <1>2, <3>2 DEF S_Lock1, At, Goto, Taking, Storing
    <3>3. CASE S_Lock2(t)
        BY <1>2, <3>3 DEF S_Lock2, At, Goto, Taking, Storing
    <3>4. CASE S_Log(t)
        BY <1>2, <3>4 DEF S_Log, At, Goto, Taking, Storing
    <3> QED
        BY <1>4, <3>1, <3>2, <3>3, <3>4
  <2>2. FrameBlock(t)' = FrameBlock(t)
      BY <2>1 DEF FrameBlock
  <2> QED
      BY <1>1, <2>1, <2>2, QuietUnseen
<1> QED
    BY <1>3, <1>4

\* retrieve's scan and its failure.
LEMMA UnseenScan ==
    ASSUME ArenaInv, LockInv', NEW t \in Threads, R_Scan(t) \/ R_Exhausted(t)
    PROVE  Unseen
<1>1. OthersStay(t)
    BY StepShape DEF Retrieve
<1>2. /\ pc \in [Threads -> Stages] /\ LockInv /\ ListsOK /\ ArenaTypeOK
      /\ own[t] \in Arenas /\ frame[t] \in Frames
    BY ArenaNow DEF LockInv, LockTypeOK
<1>3. CASE R_Scan(t)
  <2> DEFINE found == BestFit(list[own[t]], frame[t].n)
  <2>1. /\ pc[t] = "r_scan" /\ pc'[t] = "r_take"
        /\ held' = held /\ lost' = lost /\ bump' = bump
        /\ list' = [list EXCEPT ![own[t]] = IF SkipsList(t) THEN @ ELSE found.list]
      BY <1>2, <1>3 DEF R_Scan, At, Goto
  <2>2. Good(list[own[t]], bump[own[t]]) /\ frame[t].n \in Nat
      BY <1>2, <2>1, StageHolds, LockedIsGood DEF Frames
  <2>3. found.list = list[own[t]]
      BY <2>2, BestInList
  <2> HIDE DEF found
  <2>4. list' = list
      BY <1>2, <2>1, <2>3 DEF ArenaTypeOK
  <2> QED
      BY <1>1, <2>1, <2>4, QuietUnseen DEF Taking, Storing
<1>4. CASE R_Exhausted(t)
  <2>1. pc[t] = "r_take" /\ pc'[t] = "idle"
      BY <1>2, <1>4 DEF R_Exhausted, At, Return, Goto
  <2>2. held' = held /\ lost' = lost /\ bump' = bump /\ list' = list
      BY <1>4 DEF R_Exhausted
  <2> QED
      BY <1>1, <2>1, <2>2, QuietUnseen DEF Taking, Storing
<1> QED
    BY <1>3, <1>4

\* store's search.
LEMMA UnseenFind ==
    ASSUME ArenaInv, LockInv', NEW t \in Threads, S_Find(t)
    PROVE  Unseen
<1> DEFINE a == own[t]
           place == FindPlace(list[a], frame[t].off)
<1>1. OthersStay(t)
    BY StepShape DEF Store
<1>2. /\ pc \in [Threads -> Stages] /\ LockInv /\ ListsOK /\ ArenaTypeOK
      /\ a \in Arenas /\ frame \in [Threads -> Frames]
    BY ArenaNow DEF LockInv, LockTypeOK, FrameTypeOK
<1>3. /\ pc[t] = "s_find" /\ pc'[t] = "s_link" /\ own' = own
      /\ held' = held /\ lost' = lost /\ bump' = bump
      /\ list' = [list EXCEPT ![a] = place.list]
      /\ frame' = [frame EXCEPT ![t].prev = place.prev, ![t].next = place.next]
    BY <1>2 DEF S_Find, At, Goto
<1>4. Good(list[a], bump[a])
    BY <1>2, <1>3, StageHolds, LockedIsGood
<1>5. /\ frame[t].off \in Pages /\ frame[t].off \notin FreePages(list[a])
  <2>1. Busy(t)
      BY <1>3 DEF Busy, Storing
  <2>2. /\ FrameBlock(t) \in Blocks /\ frame[t].off \in Pages
        /\ PagesOf(FrameBlock(t)) \cap FreePages(list[a]) = {}
        /\ FrameBlock(t).off = frame[t].off
      BY <2>1, BusyFacts DEF FrameBlock
  <2>3. FrameBlock(t).off \in PagesOf(FrameBlock(t))
      BY <2>2, BlockPages
  <2> QED
      BY <2>2, <2>3
<1>6. place.list = list[a]
    BY <1>4, <1>5, PlaceInList
<1> HIDE DEF place
<1>7. list' = list
    BY <1>2, <1>3, <1>6 DEF ArenaTypeOK
<1>8. FrameBlock(t)' = FrameBlock(t)
    BY <1>2, <1>3 DEF FrameBlock, Frames
<1> QED
    BY <1>1, <1>3, <1>7, <1>8, QuietUnseen DEF Taking, Storing

\* store's merges.
LEMMA UnseenMerge ==
    ASSUME ArenaInv, LockInv', NEW t \in Threads, S_Merge(t)
    PROVE  Unseen
<1> DEFINE a == own[t]
           L1 == MergePrev(MergeNext(list[a], frame[t].off), frame[t].off)
<1>1. OthersStay(t)
    BY StepShape DEF Store
<1>2. pc \in [Threads -> Stages] /\ ArenaTypeOK /\ a \in Arenas /\ StageOK(t)
    BY ArenaNow DEF ArenaInv, LockInv, LockTypeOK
<1>3. /\ pc[t] = "s_merge" /\ pc'[t] = "idle"
      /\ held' = held /\ lost' = lost /\ bump' = bump
      /\ list' = [list EXCEPT ![a] = L1]
    BY <1>2 DEF S_Merge, At, Return, Goto
<1>4. FreePages(L1) = FreePages(list[a])
    BY <1>2, <1>3, MergeInList DEF StageOK
<1> HIDE DEF L1
<1>5. \A x \in Arenas : FreePages(list'[x]) = FreePages(list[x])
    BY <1>2, <1>3, <1>4 DEF ArenaTypeOK
<1> QED
    BY <1>1, <1>3, <1>5, QuietUnseen DEF Taking, Storing

\* The start of store.
LEMMA UnseenStore ==
    ASSUME ArenaInv, LockInv', NEW t \in Threads, S_Call(t)
    PROVE  Unseen
<1> DEFINE p == ProcOf[t]
<1>1. PICK b \in held[p] :
          /\ held' = [held EXCEPT ![p] = @ \ {b}]
          /\ own' = [own EXCEPT ![t] = b.arena]
          /\ frame' = [frame EXCEPT ![t] = [NoFrame EXCEPT !.off = b.off, !.n = b.n]]
    BY DEF S_Call
<1>2. OthersStay(t)
    BY StepShape DEF Call
<1>3. /\ pc \in [Threads -> Stages] /\ own \in [Threads -> Arenas] /\ frame \in [Threads -> Frames]
      /\ ArenaTypeOK /\ p \in Procs
    BY ArenaNow DEF ArenaInv, LockInv, LockTypeOK, FrameTypeOK
<1>4. /\ pc[t] = "idle" /\ pc'[t] = "s_lock1" /\ list' = list /\ bump' = bump /\ lost' = lost
    BY <1>3 DEF S_Call, At, Goto, arenaVars
<1>5. FrameBlock(t)' = b
  <2>1. b = [arena |-> b.arena, off |-> b.off, n |-> b.n]
      BY <1>3 DEF ArenaTypeOK, Blocks
  <2>2. own'[t] = b.arena /\ frame'[t].off = b.off /\ frame'[t].n = b.n
      BY <1>1, <1>3 DEF NoFrame
  <2> QED
      BY <2>1, <2>2 DEF FrameBlock
<1>6. ~Taking(t) /\ ~Taking(t)' /\ ~Storing(t) /\ Storing(t)'
    BY <1>4 DEF Taking, Storing
<1>7. AbsFree' = AbsFree /\ AbsBump' = AbsBump
    BY <1>2, <1>4, <1>6, ViewQuiet DEF ArenaInv
<1>8. AbsOut' = AbsOut
    BY <1>1, <1>2, <1>3, <1>5, <1>6, OutStored
<1> QED
    BY <1>4, <1>7, <1>8, LostStays DEF Unseen

\* A step of a thread that has locked an arena is unseen when what PageArena sees of that
\* arena does not change.
LEMMA LocalUnseen ==
    ASSUME ArenaInv, LockInv', NEW t \in Threads, OthersStay(t),
           NEW a \in Arenas, own[t] = a, Taking(t)' => own'[t] = a,
           AbsFree'[a] = AbsFree[a], AbsBump'[a] = AbsBump[a],
           \A x \in Arenas : x # a => list'[x] = list[x] /\ bump'[x] = bump[x],
           ~Storing(t), ~Storing(t)', held' = held, lost' = lost
    PROVE  Unseen
<1>1. /\ AbsFree' = [AbsFree EXCEPT ![a] = AbsFree'[a]]
      /\ AbsBump' = [AbsBump EXCEPT ![a] = AbsBump'[a]]
    BY ViewElsewhere DEF ArenaInv
<1>2. AbsFree' = AbsFree /\ AbsBump' = AbsBump
    BY <1>1, ViewFunctions
<1>3. AbsOut' = AbsOut /\ AbsLost' = AbsLost
    BY OutStays, LostStays
<1> QED
    BY <1>2, <1>3 DEF Unseen

\* The taking of a block from the list.
LEMMA UnseenTakeFree ==
    ASSUME ArenaInv, LockInv', NEW t \in Threads, R_TakeFree(t)
    PROVE  Unseen
<1>0. PICK a \in Arenas : own[t] = a
    BY ArenaNow
<1>1. PICK L : list[a] = L
    OBVIOUS
<1>2. PICK n, best : frame[t].n = n /\ frame[t].best = best
    OBVIOUS
<1> DEFINE off == TakenAt(L, best, n)
           L1 == Take(L, best, n)
<1>3. /\ pc[t] = "r_take" /\ best # End /\ Goto(t, "r_place") /\ own' = own
      /\ bump' = bump /\ held' = held /\ lost' = lost
      /\ list' = [list EXCEPT ![a] = L1]
      /\ frame' = [frame EXCEPT ![t].off = off]
    BY <1>0, <1>1, <1>2 DEF R_TakeFree, At
<1>4. /\ LockInv /\ ListsOK /\ ArenaTypeOK /\ FrameTypeOK /\ StageOK(t) /\ OthersStay(t)
      /\ pc \in [Threads -> Stages] /\ frame \in [Threads -> Frames]
    BY ArenaNow, StepShape DEF Retrieve, LockInv, LockTypeOK, FrameTypeOK
<1>5. a \in Holds(t) /\ Good(L, bump[a])
    BY <1>0, <1>1, <1>3, <1>4, StageHolds, LockedIsGood
<1>6. best \in Nodes(L) /\ n \in Nat \ {0} /\ n <= L.blk[best].size
  <2>1. best \in Nodes(L) /\ L.blk[best].size >= n
      BY <1>0, <1>1, <1>2, <1>3, <1>4 DEF StageOK, ChosenOK
  <2>2. n \in Nat \ {0}
      BY <1>2, <1>3, <1>4 DEF FrameTypeOK, Frames, RetrieveStages
  <2>3. L.blk[best].size \in Nat
      BY <1>5, <2>1, GoodFacts
  <2> QED
      BY <2>1, <2>2, <2>3
<1>7. Run(off, n) \subseteq FreePages(L) /\ FreePages(L1) = FreePages(L) \ Run(off, n)
    BY <1>5, <1>6, TakeChain
<1> HIDE DEF off, L1
<1>8. /\ pc'[t] = "r_place" /\ own'[t] = a /\ list'[a] = L1
      /\ \A x \in Arenas : x # a => list'[x] = list[x]
    BY <1>0, <1>3, <1>4 DEF Goto, ArenaTypeOK
<1>9. frame'[t].best = best /\ frame'[t].off = off /\ frame'[t].n = n
    BY <1>2, <1>3, <1>4 DEF Frames
<1>10. ~Taking(t) /\ Taking(t)' /\ ~Storing(t) /\ ~Storing(t)'
    BY <1>3, <1>8 DEF Taking, Storing
<1>11. PagesOf(FrameBlock(t)') = Run(off, n)
    BY <1>9 DEF FrameBlock, PagesOf
<1>12. /\ AbsFree[a] = FreePages(L) /\ AbsBump[a] = bump[a]
       /\ AbsFree'[a] = FreePages(L1) \cup Run(off, n) /\ AbsBump'[a] = bump[a]
    BY <1>0, <1>1, <1>3, <1>4, <1>5, <1>8, <1>9, <1>10, <1>11, ViewLocal
<1>13. AbsFree'[a] = AbsFree[a] /\ AbsBump'[a] = AbsBump[a]
    BY <1>7, <1>12
<1> QED
    BY <1>0, <1>3, <1>4, <1>8, <1>10, <1>13, LocalUnseen

\* The taking of a block from the bump area.
LEMMA UnseenTakeBump ==
    ASSUME ArenaInv, LockInv', NEW t \in Threads, R_TakeBump(t)
    PROVE  Unseen
<1>0. PICK a \in Arenas : own[t] = a
    BY ArenaNow
<1>1. /\ pc[t] = "r_take" /\ frame[t].best = End /\ Goto(t, "r_place") /\ own' = own
      /\ list' = list /\ held' = held /\ lost' = lost
      /\ bump' = [bump EXCEPT ![a] = @ + frame[t].n]
      /\ frame' = [frame EXCEPT ![t].off = bump[a]]
    BY <1>0 DEF R_TakeBump, At
<1>2. /\ LockInv /\ OthersStay(t) /\ bump \in [Arenas -> 0 .. TotalPages]
      /\ pc \in [Threads -> Stages] /\ frame \in [Threads -> Frames]
    BY ArenaNow, StepShape DEF Retrieve, LockInv, LockTypeOK, FrameTypeOK, ArenaTypeOK
<1>3. /\ pc'[t] = "r_place" /\ own'[t] = a
      /\ \A x \in Arenas : x # a => bump'[x] = bump[x]
    BY <1>0, <1>1, <1>2 DEF Goto
<1>4. frame'[t].best = End /\ frame'[t].off = bump[a]
    BY <1>1, <1>2 DEF Frames
<1>5. ~Taking(t) /\ Taking(t)' /\ ~Storing(t) /\ ~Storing(t)' /\ a \in Holds(t)
    BY <1>0, <1>1, <1>3, StageHolds DEF Taking, Storing
<1>6. AbsFree'[a] = AbsFree[a] /\ AbsBump'[a] = AbsBump[a]
    BY <1>0, <1>1, <1>2, <1>3, <1>4, <1>5, ViewLocal
<1> QED
    BY <1>0, <1>1, <1>2, <1>3, <1>5, <1>6, LocalUnseen

\* The rollback of a block that could not be logged.
LEMMA UnseenUndo ==
    ASSUME ArenaInv, LockInv', NEW t \in Threads, R_Undo(t)
    PROVE  Unseen
<1>0. PICK a \in Arenas : own[t] = a
    BY ArenaNow
<1>1. PICK L, f : list[a] = L /\ frame[t] = f
    OBVIOUS
<1> DEFINE n == f.n  off == f.off  best == f.best
           K == PutBack(L, best, off, n)
<1>2. /\ pc[t] = "r_place" /\ Return(t) /\ held' = held /\ lost' = lost
      /\ best # End => list' = [list EXCEPT ![a] = K] /\ bump' = bump
      /\ best = End => list' = list /\ bump' = [bump EXCEPT ![a] = bump[a] - n]
    BY <1>0, <1>1 DEF R_Undo, At, UndoneBump
<1>3. /\ LockInv /\ OthersStay(t) /\ ArenaTypeOK /\ bump \in [Arenas -> 0 .. TotalPages]
      /\ list \in [Arenas -> Lists] /\ pc \in [Threads -> Stages]
    BY ArenaNow, StepShape DEF Retrieve, LockInv, LockTypeOK, ArenaTypeOK
<1>4. pc'[t] = "idle"
    BY <1>2, <1>3 DEF Return, Goto
<1>5. Taking(t) /\ ~Taking(t)' /\ ~Storing(t) /\ ~Storing(t)' /\ a \in Holds(t)
    BY <1>0, <1>2, <1>4, StageHolds DEF Taking, Storing
<1>6. n \in Nat \ {0} /\ off \in Nat /\ PagesOf(FrameBlock(t)) = Run(off, n)
    BY <1>1, <1>5, BusyFacts DEF Busy
<1>7. IF best = End
      THEN bump[a] = off + n
      ELSE /\ Good(K, bump[a]) /\ best \in Nodes(K) /\ n <= K.blk[best].size
           /\ L = Take(K, best, n) /\ off = TakenAt(K, best, n)
    BY <1>0, <1>1, <1>2, ArenaNow DEF StageOK, TakenOK
<1> HIDE DEF n, off, best, K
<1>8. /\ best = End => AbsFree[a] = FreePages(L) /\ AbsBump[a] = off
      /\ best # End => AbsFree[a] = FreePages(L) \cup Run(off, n) /\ AbsBump[a] = bump[a]
      /\ AbsFree'[a] = FreePages(list'[a]) /\ AbsBump'[a] = bump'[a]
    BY <1>0, <1>1, <1>3, <1>5, <1>6, ViewLocal DEF best, off
<1>9. CASE best # End
  <2>1. list'[a] = K /\ bump' = bump /\ \A x \in Arenas : x # a => list'[x] = list[x]
      BY <1>2, <1>3, <1>9
  <2>2. Run(off, n) \subseteq FreePages(K) /\ FreePages(L) = FreePages(K) \ Run(off, n)
      BY <1>6, <1>7, <1>9, TakeChain
  <2>3. AbsFree'[a] = AbsFree[a] /\ AbsBump'[a] = AbsBump[a]
      BY <1>8, <1>9, <2>1, <2>2
  <2> QED
      BY <1>0, <1>2, <1>3, <1>5, <2>1, <2>3, LocalUnseen
<1>10. CASE best = End
  <2>1. bump'[a] = bump[a] - n /\ list' = list /\ \A x \in Arenas : x # a => bump'[x] = bump[x]
      BY <1>2, <1>3, <1>10
  <2>2. AbsFree'[a] = AbsFree[a] /\ AbsBump'[a] = AbsBump[a]
      BY <1>1, <1>6, <1>7, <1>8, <1>10, <2>1
  <2> QED
      BY <1>0, <1>2, <1>3, <1>5, <2>1, <2>2, LocalUnseen
<1> QED
    BY <1>9, <1>10

-----------------------------------------------------------------------------
(***************************************************************************)
(* The refinement of PageArena: steps that it sees.                        *)
(***************************************************************************)

\* retrieve fails with its block taken.
LEMMA SeenMisplaced ==
    ASSUME ArenaInv, LockInv', FitsOK, NEW t \in Threads, R_Misplaced(t)
    PROVE  Promise!Misplace(ProcOf[t], FrameBlock(t))
<1>1. OthersStay(t) /\ pc \in [Threads -> Stages]
    BY ArenaNow, StepShape DEF Retrieve, LockInv, LockTypeOK
<1>2. /\ pc[t] = "r_place" /\ pc'[t] = "idle" /\ bump' = bump /\ list' = list /\ held' = held
      /\ lost' = lost \cup {Loss(t, "misplaced")}
    BY <1>1 DEF R_Misplaced, At, Return, Goto
<1>3. Taking(t) /\ ~Taking(t)' /\ ~Storing(t) /\ ~Storing(t)'
    BY <1>2 DEF Taking, Storing
<1>4. Leaves(ProcOf[t], FrameBlock(t))
    BY <1>1, <1>2, <1>3, BlockLeaves
<1>5. AbsOut' = AbsOut
    BY <1>1, <1>2, <1>3, OutStays
<1> DEFINE why == "misplaced"
<1>6. lost' = lost \cup {Loss(t, why)}
    BY <1>2
<1> HIDE DEF why
<1>7. AbsLost' = AbsLost \cup {FrameBlock(t)}
    BY <1>6, LostGrows
<1> QED
    BY <1>4, <1>5, <1>7, PromiseActions

\* retrieve hands out its block.
LEMMA SeenLog ==
    ASSUME ArenaInv, LockInv', FitsOK, NEW t \in Threads, R_Log(t)
    PROVE  Promise!Obtain(ProcOf[t], FrameBlock(t))
<1>0. PICK a \in Arenas : own[t] = a
    BY ArenaNow
<1>1. PICK L, off, n : list[a] = L /\ frame[t].off = off /\ frame[t].n = n
    OBVIOUS
<1> DEFINE L1 == Overwrite(L, off, n)
<1>2. /\ OthersStay(t) /\ pc \in [Threads -> Stages] /\ LockInv /\ ListsOK /\ ArenaTypeOK
      /\ ProcOf[t] \in Procs
    BY ArenaNow, StepShape DEF Retrieve, LockInv, LockTypeOK
<1>3. /\ pc[t] = "r_place" /\ pc'[t] = "idle" /\ bump' = bump /\ lost' = lost
      /\ list' = [list EXCEPT ![a] = L1]
      /\ held' = [held EXCEPT ![ProcOf[t]] = @ \cup {FrameBlock(t)}]
    BY <1>0, <1>1, <1>2 DEF R_Log, At, Return, Goto
<1>4. Taking(t) /\ ~Taking(t)' /\ ~Storing(t) /\ ~Storing(t)' /\ a \in Holds(t)
    BY <1>0, <1>3, StageHolds DEF Taking, Storing
<1>5. FreePages(L1) = FreePages(L)
  <2>1. off \in Nat /\ n \in Nat /\ Run(off, n) \cap FreePages(L) = {}
      BY <1>0, <1>1, <1>4, BusyFacts DEF Busy
  <2>2. Good(L, bump[a])
      BY <1>0, <1>1, <1>2, <1>3, <1>4, LockedIsGood
  <2> QED
      BY <2>1, <2>2, OverwriteGood
<1> HIDE DEF L1
<1>6. \A x \in Arenas : FreePages(list'[x]) = FreePages(list[x])
    BY <1>1, <1>2, <1>3, <1>5 DEF ArenaTypeOK
<1>7. Leaves(ProcOf[t], FrameBlock(t))
    BY <1>2, <1>3, <1>4, <1>6, BlockLeaves
<1>8. AbsOut' = [AbsOut EXCEPT ![ProcOf[t]] = @ \cup {FrameBlock(t)}]
    BY <1>2, <1>3, <1>4, OutObtained
<1> QED
    BY <1>3, <1>7, <1>8, LostStays, PromiseActions

\* store drops its block: it was refused, or the process keeps no free list.
LEMMA SeenDropped ==
    ASSUME ArenaInv, LockInv', NEW t \in Threads, S_Quarantine(t) \/ S_Refused(t)
    PROVE  Promise!Forget(ProcOf[t], FrameBlock(t))
<1>1. OthersStay(t) /\ pc \in [Threads -> Stages]
    BY ArenaNow, StepShape DEF Store, LockInv, LockTypeOK
<1>2. PICK why : /\ pc[t] = "s_log" /\ pc'[t] = "idle" /\ bump' = bump /\ list' = list
                 /\ held' = held /\ lost' = lost \cup {Loss(t, why)}
  <2>1. CASE S_Quarantine(t)
      BY <1>1, <2>1 DEF S_Quarantine, At, Return, Goto
  <2>2. CASE S_Refused(t)
      BY <1>1, <2>2 DEF S_Refused, At, Return, Goto
  <2> QED
      BY <2>1, <2>2
<1>3. Storing(t) /\ ~Storing(t)' /\ ~Taking(t) /\ ~Taking(t)'
    BY <1>2 DEF Taking, Storing
<1>4. AbsFree' = AbsFree /\ AbsBump' = AbsBump
    BY <1>1, <1>2, <1>3, ViewQuiet DEF ArenaInv
<1>5. /\ FrameBlock(t) \in AbsOut[ProcOf[t]]
      /\ AbsOut' = [AbsOut EXCEPT ![ProcOf[t]] = @ \ {FrameBlock(t)}]
    BY <1>1, <1>2, <1>3, OutLeaves
<1>6. AbsLost' = AbsLost \cup {FrameBlock(t)}
    BY <1>2, LostGrows
<1> QED
    BY <1>4, <1>5, <1>6, PromiseActions

\* store links its block.
LEMMA SeenLink ==
    ASSUME ArenaInv, LockInv', NEW t \in Threads, S_Link(t)
    PROVE  Promise!GiveBack(ProcOf[t], FrameBlock(t))
<1>0. PICK a \in Arenas : own[t] = a
    BY ArenaNow
<1>1. PICK L, off, n, prev, next :
          /\ list[a] = L /\ frame[t].off = off /\ frame[t].n = n
          /\ frame[t].prev = prev /\ frame[t].next = next
    OBVIOUS
<1> DEFINE L1 == Link(L, off, n, prev, next)
           b == FrameBlock(t)
<1>2. /\ OthersStay(t) /\ pc \in [Threads -> Stages] /\ LockInv /\ ListsOK /\ ArenaTypeOK
      /\ StageOK(t)
    BY ArenaNow, StepShape DEF Store, LockInv, LockTypeOK
<1>3. /\ pc[t] = "s_link" /\ pc'[t] = "s_merge" /\ bump' = bump /\ lost' = lost /\ held' = held
      /\ list' = [list EXCEPT ![a] = L1]
    BY <1>0, <1>1, <1>2 DEF S_Link, At, Goto
<1>4. Storing(t) /\ ~Storing(t)' /\ ~Taking(t) /\ ~Taking(t)' /\ a \in Holds(t) /\ Busy(t)
    BY <1>0, <1>3, StageHolds DEF Taking, Storing, Busy
<1>5. /\ off \in Pages /\ n \in Nat \ {0} /\ off + n <= bump[a]
      /\ PagesOf(b) = Run(off, n) /\ b.arena = a
      /\ Run(off, n) \cap FreePages(L) = {}
    BY <1>0, <1>1, <1>4, BusyFacts DEF FrameBlock
<1>6. Good(L, bump[a]) /\ Placed(L, off, prev, next)
    BY <1>0, <1>1, <1>2, <1>3, <1>4, LockedIsGood DEF StageOK
<1>7. FreePages(L1) = FreePages(L) \cup Run(off, n)
    BY <1>5, <1>6, LinkInList
<1> HIDE DEF L1, b
<1>8. list'[a] = L1 /\ \A x \in Arenas : x # a => list'[x] = list[x]
    BY <1>2, <1>3 DEF ArenaTypeOK
<1>9. /\ AbsFree[a] = FreePages(L) /\ AbsBump[a] = bump[a]
      /\ AbsFree'[a] = FreePages(L1) /\ AbsBump'[a] = bump[a]
    BY <1>0, <1>1, <1>2, <1>3, <1>4, <1>8, ViewLocal
<1>10. /\ AbsFree' = [AbsFree EXCEPT ![a] = AbsFree'[a]]
       /\ AbsBump' = [AbsBump EXCEPT ![a] = AbsBump'[a]]
    BY <1>0, <1>2, <1>3, <1>4, <1>8, ViewElsewhere
<1>11. AbsFree'[a] = AbsFree[a] \cup PagesOf(b) /\ AbsBump'[a] = AbsBump[a]
    BY <1>5, <1>7, <1>9
<1>12. AbsFree' = [AbsFree EXCEPT ![b.arena] = @ \cup PagesOf(b)] /\ AbsBump' = AbsBump
    BY <1>5, <1>10, <1>11, ViewFunctions
<1>13. b \in AbsOut[ProcOf[t]] /\ AbsOut' = [AbsOut EXCEPT ![ProcOf[t]] = @ \ {b}]
    BY <1>2, <1>3, <1>4, OutLeaves DEF b
<1> QED
    BY <1>3, <1>12, <1>13, LostStays, PromiseActions DEF b

\* Deaths and the kernel's draining of the rings are nothing to PageArena.
LEMMA UnseenStutter ==
    ASSUME UNCHANGED <<bump, list, held, pc, own, frame, lost>>
    PROVE  Unseen
BY DEF Unseen, AbsFree, AbsBump, AbsOut, AbsLost, Taking, Storing, FrameBlock

\* Fresh arenas are a fresh PageArena.
LEMMA PromiseInit == Init => Promise!Init
<1> SUFFICES ASSUME Init PROVE Promise!Init
    OBVIOUS
<1>1. \A t \in Threads : ~Taking(t) /\ ~Storing(t)
    BY DEF Init, Taking, Storing
<1>2. \A a \in Arenas : View(a) /\ bump[a] = 0 /\ FreePages(list[a]) = {}
    BY LockInvInit, Views, EmptyGood DEF Init
<1>3. \A a \in Arenas : AbsFree[a] = {} /\ AbsBump[a] = 0
    BY <1>1, <1>2 DEF View, Takes
<1>4. \A p \in Procs : AbsOut[p] = {}
    BY <1>1, OutMembers DEF Init
<1>5. AbsLost = {}
    BY DEF Init, AbsLost
<1> QED
    BY <1>3, <1>4, <1>5, ViewFunctions, OutMembers, PromiseActions

\* Every step of retrieve, store and the environment is an action of PageArena or unseen.
LEMMA PromiseNext == ArenaInv /\ ArenaInv' /\ FitsOK /\ [Next]_vars => [Promise!Next]_(Promise!vars)
<1> SUFFICES ASSUME ArenaInv, LockInv', FitsOK, [Next]_vars
             PROVE  Promise!Next \/ UNCHANGED Promise!vars
    BY DEF ArenaInv
<1>1. Unseen => UNCHANGED Promise!vars
    BY PromiseActions DEF Unseen
<1>2. \A t \in Threads : Busy(t) => ProcOf[t] \in Procs /\ FrameBlock(t) \in Blocks
    BY ArenaNow, BusyFacts
<1>3. ASSUME NEW t \in Threads, Call(t) PROVE Unseen
    BY <1>3, UnseenCall, UnseenStore DEF Call
<1>4. ASSUME NEW t \in Threads, Retrieve(t) PROVE Promise!Next \/ Unseen
  <2>1. CASE R_Lock(t)
      BY <2>1, UnseenCall
  <2>2. CASE R_Scan(t) \/ R_Exhausted(t)
      BY <2>2, UnseenScan
  <2>3. CASE R_TakeFree(t)
      BY <2>3, UnseenTakeFree
  <2>4. CASE R_TakeBump(t)
      BY <2>4, UnseenTakeBump
  <2>5. CASE R_Misplaced(t)
    <3>1. Busy(t)
        BY <2>5 DEF R_Misplaced, At, Busy, Taking
    <3> QED
        BY <1>2, <2>5, <3>1, SeenMisplaced, PromiseActions
  <2>6. CASE R_Log(t)
    <3>1. Busy(t)
        BY <2>6 DEF R_Log, At, Busy, Taking
    <3> QED
        BY <1>2, <2>6, <3>1, SeenLog, PromiseActions
  <2>7. CASE R_Undo(t)
      BY <2>7, UnseenUndo
  <2> QED
      BY <1>4, <2>1, <2>2, <2>3, <2>4, <2>5, <2>6, <2>7 DEF Retrieve
<1>5. ASSUME NEW t \in Threads, Store(t) PROVE Promise!Next \/ Unseen
  <2>1. CASE S_Lock1(t) \/ S_Lock2(t) \/ S_Log(t)
      BY <2>1, UnseenCall
  <2>2. CASE S_Quarantine(t) \/ S_Refused(t)
    <3>1. Busy(t)
        BY <2>2 DEF S_Quarantine, S_Refused, At, Busy, Storing
    <3> QED
        BY <1>2, <2>2, <3>1, SeenDropped, PromiseActions
  <2>3. CASE S_Find(t)
      BY <2>3, UnseenFind
  <2>4. CASE S_Link(t)
    <3>1. Busy(t)
        BY <2>4 DEF S_Link, At, Busy, Storing
    <3> QED
        BY <1>2, <2>4, <3>1, SeenLink, PromiseActions
  <2>5. CASE S_Merge(t)
      BY <2>5, UnseenMerge
  <2> QED
      BY <1>5, <2>1, <2>2, <2>3, <2>4, <2>5 DEF Store
<1>6. ASSUME NEW p \in Procs, Crash(p) PROVE Unseen
    BY <1>6, UnseenStutter DEF Crash, arenaVars
<1>7. ASSUME NEW p \in Procs, NEW a \in Arenas, Consume(p, a) PROVE Unseen
    BY <1>7, UnseenStutter DEF Consume
<1>8. CASE UNCHANGED vars
    BY <1>1, <1>8, UnseenStutter DEF vars
<1> QED
    BY <1>1, <1>3, <1>4, <1>5, <1>6, <1>7, <1>8 DEF Next

\* The arenas keep the promise of PageArena: retrieve takes the tail of a smallest free run
\* that fits or else from the bump area, store gives it back, and rollbacks, merges, deaths
\* and the rings do not show.
THEOREM ArenasKeepPromise == Spec => KeepsPromise
<1>1. Spec => []FitsOK
  <2>1. Init => FitsOK
      BY FitsInit
  <2>2. ArenaInv /\ FitsOK /\ [Next]_vars => FitsOK'
      BY FitsNext
  <2> QED
      BY <2>1, <2>2, ArenaInvariant, PTL DEF Spec
<1>2. Init => Promise!Init
    BY PromiseInit
<1>3. ArenaInv /\ ArenaInv' /\ FitsOK /\ [Next]_vars => [Promise!Next]_(Promise!vars)
    BY PromiseNext
<1> QED
    BY <1>1, <1>2, <1>3, ArenaInvariant, PTL DEF Spec, KeepsPromise, Promise!Spec

-----------------------------------------------------------------------------
(* What the promise is worth: PageArena hands out no page twice.           *)

\* The types of the variables.
PageTypes ==
    /\ AbsFree \in [Arenas -> SUBSET Pages]
    /\ AbsBump \in [Arenas -> 0 .. TotalPages]
    /\ AbsOut \in [Procs -> SUBSET Blocks]
    /\ AbsLost \subseteq Blocks

\* Free pages and claimed pages have been handed out before: what the bump area still
\* offers is nobody's.  GrantedOnce alone does not survive TakeBump.
PagesBelowBump ==
    /\ \A a \in Arenas : AbsFree[a] \subseteq Run(0, AbsBump[a])
    /\ \A p \in Procs : \A b \in AbsOut[p] : PagesOf(b) \subseteq Run(0, AbsBump[b.arena])
    /\ \A b \in AbsLost : PagesOf(b) \subseteq Run(0, AbsBump[b.arena])

\* What PageArena's GrantedOnce says.
PagesGrantedOnce ==
    /\ \A p, q \in Procs : \A b \in AbsOut[p], c \in AbsOut[q] :
          b.arena = c.arena /\ PagesOf(b) \cap PagesOf(c) # {} => b = c /\ p = q
    /\ \A p \in Procs : \A b \in AbsOut[p] :
          /\ PagesOf(b) \cap AbsFree[b.arena] = {}
          /\ \A c \in AbsLost : b.arena = c.arena => PagesOf(b) \cap PagesOf(c) = {}
    /\ \A c \in AbsLost : PagesOf(c) \cap AbsFree[c.arena] = {}

PageInv == PageTypes /\ PagesBelowBump /\ PagesGrantedOnce

-----------------------------------------------------------------------------

\* The invariant holds for freshly initialised arenas.
LEMMA PromiseInvInit == Promise!Init => PageInv
BY GeometryAssumption, PromiseActions DEF PageInv, PageTypes, PagesBelowBump, PagesGrantedOnce, Arenas, Run

\* No claim has a page of b.
ClearOfAbsOut(b) ==
    /\ \A q \in Procs : \A c \in AbsOut[q] :
          c.arena = b.arena => PagesOf(c) \cap PagesOf(b) = {}
    /\ \A c \in AbsLost :
          c.arena = b.arena => PagesOf(c) \cap PagesOf(b) = {}

\* The pages of a block that is taken were free or beyond the bump offset, hence in
\* nobody's hands, and are neither afterwards.
LEMMA TakeIsFresh ==
    ASSUME PageInv, NEW p \in Procs, NEW b \in Blocks, Leaves(p, b)
    PROVE  /\ AbsFree' \in [Arenas -> SUBSET Pages]
           /\ AbsBump' \in [Arenas -> 0 .. TotalPages]
           /\ \A a \in Arenas : AbsFree'[a] \subseteq AbsFree[a] /\ AbsBump[a] <= AbsBump'[a]
           /\ PagesOf(b) \cap AbsFree'[b.arena] = {}
           /\ PagesOf(b) \subseteq Run(0, AbsBump'[b.arena])
           /\ ClearOfAbsOut(b)
<1> USE GeometryAssumption DEF ClearOfAbsOut
<1>0. b.arena \in Arenas /\ b.off \in Nat /\ b.n \in Nat /\ b.n >= 1
    BY DEF Blocks, Pages
<1>1. CASE /\ \E n \in b.n .. TotalPages : FullRun(AbsFree[b.arena], b.off + b.n - n, n)
           /\ AbsFree' = [AbsFree EXCEPT ![b.arena] = @ \ PagesOf(b)]
           /\ AbsBump' = AbsBump
    <2>1. PagesOf(b) \subseteq AbsFree[b.arena]
        <3>1. PICK n \in b.n .. TotalPages :
                  Run(b.off + b.n - n, n) \subseteq AbsFree[b.arena]
            BY <1>1 DEF FullRun
        <3>2. PagesOf(b) \subseteq Run(b.off + b.n - n, n)
            BY <1>0 DEF PagesOf, Run
        <3> QED
            BY <3>1, <3>2
    <2>2. AbsFree' = [AbsFree EXCEPT ![b.arena] = @ \ PagesOf(b)] /\ AbsBump' = AbsBump
        BY <1>1
    <2> QED
        BY <1>0, <2>1, <2>2 DEF PageInv, PageTypes, PagesBelowBump, PagesGrantedOnce
<1>2. CASE /\ b.off = AbsBump[b.arena]
           /\ b.off + b.n <= TotalPages
           /\ AbsBump' = [AbsBump EXCEPT ![b.arena] = @ + b.n]
           /\ AbsFree' = AbsFree
    <2>1. /\ b.off = AbsBump[b.arena]
          /\ b.off + b.n <= TotalPages
          /\ AbsBump' = [AbsBump EXCEPT ![b.arena] = @ + b.n]
          /\ AbsFree' = AbsFree
        BY <1>2
    <2>2. AbsBump[b.arena] \in Nat
        BY <1>0 DEF PageInv, PageTypes
    <2>3. AbsBump'[b.arena] = b.off + b.n /\ AbsBump[b.arena] <= AbsBump'[b.arena]
        BY <1>0, <2>1, <2>2 DEF PageInv, PageTypes
    <2>4. AbsBump' \in [Arenas -> 0 .. TotalPages]
        BY <1>0, <2>1, <2>2 DEF PageInv, PageTypes
    <2>5. PagesOf(b) \subseteq Run(0, AbsBump'[b.arena])
        BY <1>0, <2>3 DEF PagesOf, Run
    <2>6. Run(0, AbsBump[b.arena]) \cap PagesOf(b) = {}
        BY <1>0, <2>1 DEF PagesOf, Run
    <2>7. ASSUME NEW a \in Arenas PROVE AbsBump[a] <= AbsBump'[a]
        BY <1>0, <2>1, <2>2 DEF PageInv, PageTypes
    <2>8. PagesOf(b) \cap AbsFree'[b.arena] = {}
        BY <1>0, <2>1, <2>6 DEF PageInv, PagesBelowBump
    <2>9. /\ \A q \in Procs : \A c \in AbsOut[q] :
                c.arena = b.arena => PagesOf(c) \cap PagesOf(b) = {}
          /\ \A c \in AbsLost :
                c.arena = b.arena => PagesOf(c) \cap PagesOf(b) = {}
        BY <2>6 DEF PageInv, PagesBelowBump
    <2> QED
        BY <2>1, <2>4, <2>5, <2>7, <2>8, <2>9 DEF PageInv, PageTypes
<1> QED
    BY <1>1, <1>2 DEF Leaves

\* What it means to be one of the Blocks.
LEMMA BlockFacts ==
    ASSUME PageInv
    PROVE  /\ \A p \in Procs : \A b \in AbsOut[p] : b \in Blocks /\ b.arena \in Arenas
           /\ \A b \in AbsLost : b \in Blocks /\ b.arena \in Arenas
           /\ \A b \in Blocks : PagesOf(b) # {} /\ b.arena \in Arenas
<1>1. ASSUME NEW b \in Blocks PROVE b.off \in PagesOf(b) /\ b.arena \in Arenas
    BY GeometryAssumption DEF Blocks, PagesOf, Run, Pages
<1> QED
    BY <1>1 DEF PageInv, PageTypes

\* A larger bump offset still lies above what lay below the old one.
LEMMA BumpGrows ==
    ASSUME NEW m \in Int, NEW n \in Int, m <= n
    PROVE  Run(0, m) \subseteq Run(0, n)
BY DEF Run

\* A retrieve that succeeds keeps the invariant.
LEMMA ObtainInv ==
    ASSUME PageInv, NEW p \in Procs, NEW b \in Blocks, Promise!Obtain(p, b)
    PROVE  PageInv'
<1>0. Leaves(p, b)
    BY PromiseActions
<1>1. /\ AbsFree' \in [Arenas -> SUBSET Pages]
      /\ AbsBump' \in [Arenas -> 0 .. TotalPages]
      /\ \A a \in Arenas : AbsFree'[a] \subseteq AbsFree[a] /\ AbsBump[a] <= AbsBump'[a]
      /\ PagesOf(b) \cap AbsFree'[b.arena] = {}
      /\ PagesOf(b) \subseteq Run(0, AbsBump'[b.arena])
      /\ ClearOfAbsOut(b)
    BY <1>0, TakeIsFresh
<1>2. AbsOut' = [AbsOut EXCEPT ![p] = @ \cup {b}] /\ AbsLost' = AbsLost
    BY PromiseActions
<1>3. \A q \in Procs : AbsOut'[q] = IF q = p THEN AbsOut[q] \cup {b} ELSE AbsOut[q]
    BY <1>2 DEF PageInv, PageTypes
<1>4. \A a \in Arenas : Run(0, AbsBump[a]) \subseteq Run(0, AbsBump'[a])
    BY <1>1, BumpGrows DEF PageInv, PageTypes
<1>5. PageTypes'
    BY <1>1, <1>2 DEF PageInv, PageTypes
<1>6. PagesBelowBump'
    <2>1. \A a \in Arenas : AbsFree'[a] \subseteq Run(0, AbsBump'[a])
        BY <1>1, <1>4 DEF PageInv, PagesBelowBump
    <2>2. \A q \in Procs : \A c \in AbsOut'[q] : PagesOf(c) \subseteq Run(0, AbsBump'[c.arena])
        <3> SUFFICES ASSUME NEW q \in Procs, NEW c \in AbsOut'[q]
                     PROVE  PagesOf(c) \subseteq Run(0, AbsBump'[c.arena])
            OBVIOUS
        <3>1. CASE c = b
            BY <1>1, <3>1 DEF PagesOf
        <3>2. CASE c \in AbsOut[q]
            BY <1>4, <3>2, BlockFacts DEF PageInv, PagesBelowBump
        <3> QED
            BY <1>3, <3>1, <3>2
    <2>3. \A c \in AbsLost : PagesOf(c) \subseteq Run(0, AbsBump'[c.arena])
        BY <1>4, BlockFacts DEF PageInv, PagesBelowBump
    <2> QED
        BY <1>2, <2>1, <2>2, <2>3 DEF PagesBelowBump
<1>7. PagesGrantedOnce'
    <2>1. \A q, r \in Procs : \A c \in AbsOut'[q], d \in AbsOut'[r] :
              c.arena = d.arena /\ PagesOf(c) \cap PagesOf(d) # {} => c = d /\ q = r
        <3> SUFFICES ASSUME NEW q \in Procs, NEW r \in Procs,
                            NEW c \in AbsOut'[q], NEW d \in AbsOut'[r],
                            c.arena = d.arena, PagesOf(c) \cap PagesOf(d) # {}
                     PROVE  c = d /\ q = r
            OBVIOUS
        <3>1. c \in AbsOut[q] \/ (c = b /\ q = p)
            BY <1>3
        <3>2. d \in AbsOut[r] \/ (d = b /\ r = p)
            BY <1>3
        <3> QED
            BY <1>1, <3>1, <3>2 DEF PageInv, PagesGrantedOnce, ClearOfAbsOut, PagesOf
    <2>2. ASSUME NEW q \in Procs, NEW c \in AbsOut'[q]
          PROVE  /\ PagesOf(c) \cap AbsFree'[c.arena] = {}
                 /\ \A d \in AbsLost :
                       c.arena = d.arena => PagesOf(c) \cap PagesOf(d) = {}
        <3>1. CASE c = b
            BY <1>1, <3>1 DEF ClearOfAbsOut, PagesOf
        <3>2. CASE c \in AbsOut[q]
            BY <1>1, <3>2, BlockFacts DEF PageInv, PagesGrantedOnce
        <3> QED
            BY <1>3, <3>1, <3>2
    <2>3. \A d \in AbsLost : PagesOf(d) \cap AbsFree'[d.arena] = {}
        BY <1>1, BlockFacts DEF PageInv, PagesGrantedOnce
    <2> QED
        BY <1>2, <2>1, <2>2, <2>3 DEF PagesGrantedOnce
<1> QED
    BY <1>5, <1>6, <1>7 DEF PageInv

\* A retrieve that leaves its block taken keeps the invariant.
LEMMA MisplaceInv ==
    ASSUME PageInv, NEW p \in Procs, NEW b \in Blocks, Promise!Misplace(p, b)
    PROVE  PageInv'
<1>0. Leaves(p, b)
    BY PromiseActions
<1>1. /\ AbsFree' \in [Arenas -> SUBSET Pages]
      /\ AbsBump' \in [Arenas -> 0 .. TotalPages]
      /\ \A a \in Arenas : AbsFree'[a] \subseteq AbsFree[a] /\ AbsBump[a] <= AbsBump'[a]
      /\ PagesOf(b) \cap AbsFree'[b.arena] = {}
      /\ PagesOf(b) \subseteq Run(0, AbsBump'[b.arena])
      /\ ClearOfAbsOut(b)
    BY <1>0, TakeIsFresh
<1>2. AbsLost' = AbsLost \cup {b} /\ AbsOut' = AbsOut
    BY PromiseActions
<1>4. \A a \in Arenas : Run(0, AbsBump[a]) \subseteq Run(0, AbsBump'[a])
    BY <1>1, BumpGrows DEF PageInv, PageTypes
<1>5. PageTypes'
    BY <1>1, <1>2 DEF PageInv, PageTypes
<1>6. PagesBelowBump'
    BY <1>1, <1>2, <1>4, BlockFacts DEF PageInv, PagesBelowBump
<1>7. PagesGrantedOnce'
    BY <1>1, <1>2, BlockFacts DEF PageInv, PagesGrantedOnce, ClearOfAbsOut
<1> QED
    BY <1>5, <1>6, <1>7 DEF PageInv

\* A block some process has is clear of the lost blocks and of the free pages.
ClaimedOnce(b) ==
    /\ b.arena \in Arenas
    /\ PagesOf(b) \cap AbsFree[b.arena] = {}
    /\ \A d \in AbsLost : b.arena = d.arena => PagesOf(b) \cap PagesOf(d) = {}

\* What leaves a process' hands is in no other claim.
LEMMA OwnClaimOnly ==
    ASSUME PageInv, NEW p \in Procs, NEW b \in AbsOut[p],
           AbsOut' = [AbsOut EXCEPT ![p] = @ \ {b}]
    PROVE  /\ AbsOut' \in [Procs -> SUBSET Blocks]
           /\ \A q \in Procs : AbsOut'[q] \subseteq AbsOut[q]
           /\ \A q \in Procs : \A c \in AbsOut'[q] :
                 c.arena = b.arena => PagesOf(c) \cap PagesOf(b) = {}
           /\ ClaimedOnce(b)
<1>1. \A q \in Procs : AbsOut'[q] = IF q = p THEN AbsOut[q] \ {b} ELSE AbsOut[q]
    BY DEF PageInv, PageTypes
<1>2. AbsOut' \in [Procs -> SUBSET Blocks]
    BY DEF PageInv, PageTypes
<1>3. ASSUME NEW q \in Procs, NEW c \in AbsOut'[q], c.arena = b.arena
      PROVE  PagesOf(c) \cap PagesOf(b) = {}
    BY <1>1, <1>3 DEF PageInv, PagesGrantedOnce
<1>4. ClaimedOnce(b)
    BY BlockFacts DEF PageInv, PagesGrantedOnce, ClaimedOnce
<1> QED
    BY <1>1, <1>2, <1>3, <1>4

\* A store that links its block keeps the invariant.
LEMMA GiveBackInv ==
    ASSUME PageInv, NEW p \in Procs, NEW b \in Blocks, Promise!GiveBack(p, b)
    PROVE  PageInv'
<1>0. /\ b \in AbsOut[p]
      /\ AbsOut' = [AbsOut EXCEPT ![p] = @ \ {b}]
      /\ AbsFree' = [AbsFree EXCEPT ![b.arena] = @ \cup PagesOf(b)]
      /\ AbsBump' = AbsBump /\ AbsLost' = AbsLost
    BY PromiseActions
<1>1. /\ AbsOut' \in [Procs -> SUBSET Blocks]
      /\ \A q \in Procs : \A c \in AbsOut'[q] :
            c \in AbsOut[q] /\ (c.arena = b.arena => PagesOf(c) \cap PagesOf(b) = {})
      /\ ClaimedOnce(b)
    BY <1>0, OwnClaimOnly
<1>2. PagesOf(b) \subseteq Pages
    <2>1. PagesOf(b) \subseteq Run(0, AbsBump[b.arena]) /\ AbsBump[b.arena] \in 0 .. TotalPages
        BY <1>0, BlockFacts DEF PageInv, PagesBelowBump, PageTypes
    <2> QED
        BY <2>1, GeometryAssumption DEF Run, Pages
<1>3. AbsFree' \in [Arenas -> SUBSET Pages]
    BY <1>0, <1>2, BlockFacts DEF PageInv, PageTypes
<1>4. \A a \in Arenas : AbsFree'[a] = IF a = b.arena THEN AbsFree[a] \cup PagesOf(b) ELSE AbsFree[a]
    BY <1>0, BlockFacts DEF PageInv, PageTypes
<1>5. PageTypes'
    BY <1>1, <1>0, <1>3 DEF PageInv, PageTypes
<1>6. PagesBelowBump'
    BY <1>1, <1>0, <1>4, BlockFacts DEF PageInv, PagesBelowBump
<1>7. PagesGrantedOnce'
    <2>1. \A q, r \in Procs : \A c \in AbsOut'[q], d \in AbsOut'[r] :
              c.arena = d.arena /\ PagesOf(c) \cap PagesOf(d) # {} => c = d /\ q = r
        BY <1>1, <1>0 DEF PageInv, PagesGrantedOnce, ClaimedOnce
    <2>2. \A q \in Procs : \A c \in AbsOut'[q] : PagesOf(c) \cap AbsFree'[c.arena] = {}
        BY <1>1, <1>0, <1>4, BlockFacts DEF PageInv, PagesGrantedOnce
    <2>3. \A q \in Procs : \A c \in AbsOut'[q] : \A d \in AbsLost :
              c.arena = d.arena => PagesOf(c) \cap PagesOf(d) = {}
        BY <1>1, <1>0 DEF PageInv, PagesGrantedOnce, ClaimedOnce
    <2>4. \A d \in AbsLost : PagesOf(d) \cap AbsFree'[d.arena] = {}
        <3> SUFFICES ASSUME NEW d \in AbsLost
                     PROVE  PagesOf(d) \cap AbsFree'[d.arena] = {}
            OBVIOUS
        <3>1. d.arena \in Arenas /\ PagesOf(d) \cap AbsFree[d.arena] = {}
            BY BlockFacts DEF PageInv, PagesGrantedOnce
        <3>2. d.arena = b.arena => PagesOf(b) \cap PagesOf(d) = {}
            BY <1>0 DEF PageInv, PagesGrantedOnce
        <3> QED
            BY <1>4, <3>1, <3>2
    <2> QED
        BY <1>0, <2>1, <2>2, <2>3, <2>4 DEF PagesGrantedOnce
<1> QED
    BY <1>5, <1>6, <1>7 DEF PageInv

\* A store that is refused or keeps no list keeps the invariant.
LEMMA ForgetInv ==
    ASSUME PageInv, NEW p \in Procs, NEW b \in Blocks, Promise!Forget(p, b)
    PROVE  PageInv'
<1>0. /\ b \in AbsOut[p]
      /\ AbsOut' = [AbsOut EXCEPT ![p] = @ \ {b}]
      /\ AbsLost' = AbsLost \cup {b}
      /\ AbsFree' = AbsFree /\ AbsBump' = AbsBump
    BY PromiseActions
<1>1. /\ AbsOut' \in [Procs -> SUBSET Blocks]
      /\ \A q \in Procs : \A c \in AbsOut'[q] :
            c \in AbsOut[q] /\ (c.arena = b.arena => PagesOf(c) \cap PagesOf(b) = {})
      /\ ClaimedOnce(b)
    BY <1>0, OwnClaimOnly
<1>2. PageTypes'
    BY <1>1, <1>0 DEF PageInv, PageTypes
<1>3. PagesBelowBump'
    BY <1>1, <1>0 DEF PageInv, PagesBelowBump
<1>4. PagesGrantedOnce'
    <2>1. \A q, r \in Procs : \A c \in AbsOut'[q], d \in AbsOut'[r] :
              c.arena = d.arena /\ PagesOf(c) \cap PagesOf(d) # {} => c = d /\ q = r
        BY <1>1, <1>0 DEF PageInv, PagesGrantedOnce, ClaimedOnce
    <2>2. \A q \in Procs : \A c \in AbsOut'[q] : PagesOf(c) \cap AbsFree'[c.arena] = {}
        BY <1>1, <1>0 DEF PageInv, PagesGrantedOnce, ClaimedOnce
    <2>3. \A q \in Procs : \A c \in AbsOut'[q] : \A d \in AbsLost' :
              c.arena = d.arena => PagesOf(c) \cap PagesOf(d) = {}
        BY <1>1, <1>0 DEF PageInv, PagesGrantedOnce, ClaimedOnce
    <2>4. \A d \in AbsLost' : PagesOf(d) \cap AbsFree'[d.arena] = {}
        BY <1>0 DEF PageInv, PagesGrantedOnce
    <2> QED
        BY <2>1, <2>2, <2>3, <2>4 DEF PagesGrantedOnce
<1> QED
    BY <1>2, <1>3, <1>4 DEF PageInv

\* Every step of PageArena keeps the invariant.
LEMMA PromiseInvNext == PageInv /\ [Promise!Next]_(Promise!vars) => PageInv'
<1> SUFFICES ASSUME PageInv, [Promise!Next]_(Promise!vars)
             PROVE  PageInv'
    OBVIOUS
<1>1. ASSUME NEW p \in Procs, NEW b \in Blocks,
             \/ Promise!Obtain(p, b) \/ Promise!Misplace(p, b)
             \/ Promise!GiveBack(p, b) \/ Promise!Forget(p, b)
      PROVE  PageInv'
    BY <1>1, ObtainInv, MisplaceInv, GiveBackInv, ForgetInv
<1>2. CASE UNCHANGED Promise!vars
    BY <1>2 DEF Promise!vars, PageInv, PageTypes, PagesBelowBump, PagesGrantedOnce
<1>3. Promise!Blocks = Blocks
    BY DEF Promise!Blocks, Blocks, Promise!Arenas, Arenas, Promise!Pages, Pages
<1> QED
    BY <1>1, <1>2, <1>3 DEF Promise!Next

\* PageArena hands out no page twice, by its actions alone: two claims on pages of an arena
\* never share a page and no claimed page is free, whatever is retrieved, stored, refused
\* or misplaced, and in whatever order.
THEOREM PromiseGrantsOnce == Promise!Spec => []Promise!GrantedOnce
<1>1. Promise!Init => PageInv
    BY PromiseInvInit
<1>2. PageInv /\ [Promise!Next]_(Promise!vars) => PageInv'
    BY PromiseInvNext
<1>3. PageInv => Promise!GrantedOnce
  <2>1. \A b : Promise!PagesOf(b) = PagesOf(b)
      BY DEF Promise!PagesOf, PagesOf, Promise!Run, Run
  <2> QED
      BY <2>1 DEF PageInv, PagesGrantedOnce, Promise!GrantedOnce
<1> QED
    BY <1>1, <1>2, <1>3, PTL DEF Promise!Spec

\* Hence the arenas hand out no page twice: what processes have and are giving back, what
\* nobody will have again and what is free or hidden by a call are apart at every stage.
THEOREM NoPageGrantedTwice == Spec => []Promise!GrantedOnce
BY ArenasKeepPromise, PromiseGrantsOnce, PTL DEF KeepsPromise
=============================================================================
