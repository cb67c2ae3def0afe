-------------------------- MODULE HybridMutex_proofs --------------------------
(***************************************************************************)
(* HybridMutex excludes and loses no wake-up, for any number of threads.   *)
(***************************************************************************)
EXTENDS HybridMutex, TLAPS

\* A thread between obtaining the mutex and writing Unlocked: an unlocker that found
\* Sleeping still keeps the word from reading Unlocked after its decrement.
Keeps(t) == pc[t] \in {"in", "store"}

\* The word reads Unlocked exactly when no thread keeps it.
WordTellsKeeper ==
    /\ \A t, u \in Threads : Keeps(t) /\ Keeps(u) => t = u
    /\ M # Unlocked <=> \E t \in Threads : Keeps(t)

Inv == TypeOK /\ WordTellsKeeper /\ NoLostWakeup

-----------------------------------------------------------------------------

\* The invariant holds for an unlocked mutex nobody uses.
LEMMA InitInv == Init => Inv
BY DEF Init, Inv, TypeOK, WordTellsKeeper, NoLostWakeup, Keeps, Stages,
       Unlocked, Locked, Sleeping

\* Every access of lock, lockSlow and unlock leaves one of the three values in the word.
LEMMA TypeStep == TypeOK /\ WordTellsKeeper /\ [Next]_vars => TypeOK'
<1> SUFFICES ASSUME TypeOK, WordTellsKeeper, [Next]_vars
             PROVE  TypeOK'
    OBVIOUS
<1> USE DEF TypeOK, At, Goto, Stages, Unlocked, Locked, Sleeping, Obtained, AfterWait
<1>1. ASSUME NEW t \in Threads, Lock(t) \/ TryLock(t) \/ GiveUp(t)
      PROVE  TypeOK'
    BY <1>1 DEF Lock, TryLock, GiveUp
<1>2. ASSUME NEW t \in Threads, CompareExchange(t) \/ Exchange(t)
      PROVE  TypeOK'
    BY <1>2 DEF CompareExchange, Exchange
<1>3. ASSUME NEW t \in Threads, FutexWait(t) \/ WokenEarly(t)
      PROVE  TypeOK'
    BY <1>3 DEF FutexWait, WokenEarly
<1>4. ASSUME NEW t \in Threads, FutexWake(t)
      PROVE  TypeOK'
    BY <1>4 DEF FutexWake
<1>5. ASSUME NEW t \in Threads, FetchSub(t)
      PROVE  TypeOK'
    <2>1. M # Unlocked
        BY <1>5 DEF FetchSub, WordTellsKeeper, Keeps
    <2> QED
        BY <1>5, <2>1 DEF FetchSub
<1>6. ASSUME NEW t \in Threads, StoreUnlocked(t)
      PROVE  TypeOK'
    BY <1>6 DEF StoreUnlocked
<1>7. CASE UNCHANGED vars
    BY <1>7 DEF vars
<1> QED
    BY <1>1, <1>2, <1>3, <1>4, <1>5, <1>6, <1>7 DEF Next, Step

\* Every step keeps the word in agreement with whoever is inside: unlock's decrement of a
\* Sleeping word leaves Locked until StoreUnlocked, so nobody enters in between.
LEMMA KeeperStep == TypeOK /\ WordTellsKeeper /\ [Next]_vars => WordTellsKeeper'
<1> SUFFICES ASSUME TypeOK, WordTellsKeeper, [Next]_vars
             PROVE  WordTellsKeeper'
    OBVIOUS
<1> USE DEF TypeOK, WordTellsKeeper, Keeps, At, Goto, Unlocked, Locked, Sleeping,
            Obtained, AfterWait
<1>1. ASSUME NEW t \in Threads, Lock(t) \/ GiveUp(t)
      PROVE  WordTellsKeeper'
    BY <1>1 DEF Lock, GiveUp
<1>2. ASSUME NEW t \in Threads, TryLock(t)
      PROVE  WordTellsKeeper'
    BY <1>2 DEF TryLock
<1>3. ASSUME NEW t \in Threads, CompareExchange(t)
      PROVE  WordTellsKeeper'
    <2>1. CASE M = Unlocked
        BY <1>3, <2>1 DEF CompareExchange
    <2>2. CASE M # Unlocked
        BY <1>3, <2>2 DEF CompareExchange
    <2> QED
        BY <2>1, <2>2
<1>4. ASSUME NEW t \in Threads, Exchange(t)
      PROVE  WordTellsKeeper'
    <2>1. CASE M = Unlocked
        BY <1>4, <2>1 DEF Exchange
    <2>2. CASE M # Unlocked
        BY <1>4, <2>2 DEF Exchange
    <2> QED
        BY <2>1, <2>2
<1>5. ASSUME NEW t \in Threads, FutexWait(t) \/ WokenEarly(t)
      PROVE  WordTellsKeeper'
    BY <1>5 DEF FutexWait, WokenEarly
<1>6. ASSUME NEW t \in Threads, FutexWake(t)
      PROVE  WordTellsKeeper'
    BY <1>6 DEF FutexWake
<1>7. ASSUME NEW t \in Threads, FetchSub(t)
      PROVE  WordTellsKeeper'
    <2>1. CASE M = Locked
        BY <1>7, <2>1 DEF FetchSub, NeedsWake
    <2>2. CASE M = Sleeping
        BY <1>7, <2>2 DEF FetchSub, NeedsWake
    <2>3. M # Unlocked
        BY <1>7 DEF FetchSub
    <2> QED
        BY <2>1, <2>2, <2>3
<1>8. ASSUME NEW t \in Threads, StoreUnlocked(t)
      PROVE  WordTellsKeeper'
    BY <1>8 DEF StoreUnlocked
<1>9. CASE UNCHANGED vars
    BY <1>9 DEF vars
<1> QED
    BY <1>1, <1>2, <1>3, <1>4, <1>5, <1>6, <1>7, <1>8, <1>9 DEF Next, Step

\* Every step keeps a waker for the sleepers.
LEMMA WakeupStep == Inv /\ [Next]_vars => NoLostWakeup'
<1> SUFFICES ASSUME Inv, [Next]_vars
             PROVE  NoLostWakeup'
    OBVIOUS
<1> USE DEF Inv, TypeOK, NoLostWakeup, At, Goto, Unlocked, Locked, Sleeping,
            Obtained, AfterWait
<1>1. ASSUME NEW t \in Threads, Lock(t) \/ GiveUp(t) \/ TryLock(t)
      PROVE  NoLostWakeup'
    BY <1>1 DEF Lock, GiveUp, TryLock
<1>2. ASSUME NEW t \in Threads, CompareExchange(t)
      PROVE  NoLostWakeup'
    BY <1>2 DEF CompareExchange
<1>3. ASSUME NEW t \in Threads, Exchange(t)
      PROVE  NoLostWakeup'
    BY <1>3 DEF Exchange
<1>4. ASSUME NEW t \in Threads, FutexWait(t) \/ WokenEarly(t)
      PROVE  NoLostWakeup'
    BY <1>4 DEF FutexWait, WokenEarly
<1>5. ASSUME NEW t \in Threads, FutexWake(t)
      PROVE  NoLostWakeup'
    BY <1>5 DEF FutexWake
<1>6. ASSUME NEW t \in Threads, FetchSub(t)
      PROVE  NoLostWakeup'
    BY <1>6 DEF FetchSub, NeedsWake
<1>7. ASSUME NEW t \in Threads, StoreUnlocked(t)
      PROVE  NoLostWakeup'
    BY <1>7 DEF StoreUnlocked
<1>8. CASE UNCHANGED vars
    BY <1>8 DEF vars
<1> QED
    BY <1>1, <1>2, <1>3, <1>4, <1>5, <1>6, <1>7, <1>8 DEF Next, Step

\* Every step keeps the invariant.
LEMMA NextInv == Inv /\ [Next]_vars => Inv'
BY TypeStep, KeeperStep, WakeupStep DEF Inv

\* The futex word, the stages and the sleepers agree in every reachable state.
THEOREM MutexInvariant == Spec => []Inv
BY InitInv, NextInv, PTL DEF Spec

\* The word keeps its three values and the futex queue holds the threads that wait.
THEOREM MutexTypes == Spec => []TypeOK
<1>1. Inv => TypeOK
    BY DEF Inv
<1> QED
    BY MutexInvariant, <1>1, PTL

\* lock() lets one thread in at a time.
THEOREM MutexExcludes == Spec => []MutualExclusion
<1>1. Inv => MutualExclusion
    BY DEF Inv, WordTellsKeeper, Keeps, MutualExclusion
<1> QED
    BY MutexInvariant, <1>1, PTL

\* No thread sleeps on the futex without somebody who will wake it.
THEOREM MutexLosesNoWakeup == Spec => []NoLostWakeup
<1>1. Inv => NoLostWakeup
    BY DEF Inv
<1> QED
    BY MutexInvariant, <1>1, PTL
=============================================================================
