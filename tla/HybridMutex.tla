----------------------------- MODULE HybridMutex -----------------------------
(***************************************************************************)
(* HybridMutex on Linux (mutex.h, linux.cpp): a futex word with the states *)
(* Unlocked, Locked and Sleeping.  A step is one atomic access to the word *)
(* or one futex call.  The futex itself is the kernel's.                   *)
(***************************************************************************)
EXTENDS Naturals, FiniteSets

CONSTANT Threads

Unlocked == 0
Locked == 1
Sleeping == 2

VARIABLES
    M,         \* the futex word
    asleep,    \* threads the kernel has queued on the word
    pc         \* where each thread is in lock() or unlock()

vars == <<M, asleep, pc>>

Init ==
    /\ M = Unlocked
    /\ asleep = {}
    /\ pc = [t \in Threads |-> "out"]

At(t, stage) == pc[t] = stage

Goto(t, stage) == pc' = [pc EXCEPT ![t] = stage]

-----------------------------------------------------------------------------
(***************************************************************************)
(* lock: tryLock, some more tryLocks between delays, then lockSlow.        *)
(***************************************************************************)

Lock(t) ==
    /\ At(t, "out")
    /\ Goto(t, "try")
    /\ UNCHANGED <<M, asleep>>

\* tryLock's compare-and-exchange, on entry or in the spin loop.
TryLock(t) ==
    /\ At(t, "try")
    /\ M = Unlocked
    /\ M' = Locked
    /\ Goto(t, "in")
    /\ UNCHANGED asleep

\* The last of NumberOfTries attempts has failed; the ones before changed nothing.
GiveUp(t) ==
    /\ At(t, "try")
    /\ M # Unlocked
    /\ Goto(t, "cas")
    /\ UNCHANGED <<M, asleep>>

\* As if every word but Sleeping meant success.
Obtained_NotSleeping(v) == v # Sleeping

\* An atomic access to the word that found it to be v has obtained the mutex.
Obtained(v) == v = Unlocked

\* lockSlow's own compare-and-exchange; its result decides what follows.
CompareExchange(t) ==
    /\ At(t, "cas")
    /\ M' = IF M = Unlocked THEN Locked ELSE M
    /\ Goto(t, IF Obtained(M) THEN "in" ELSE IF M = Sleeping THEN "wait" ELSE "exchange")
    /\ UNCHANGED asleep

Exchange(t) ==
    /\ At(t, "exchange")
    /\ M' = Sleeping
    /\ Goto(t, IF Obtained(M) THEN "in" ELSE "wait")
    /\ UNCHANGED asleep

-----------------------------------------------------------------------------
(***************************************************************************)
(* The futex: FUTEX_WAIT sleeps only if the word is still Sleeping, and    *)
(* may return for no reason; FUTEX_WAKE wakes one thread if there is any.  *)
(***************************************************************************)

\* As if a woken thread tried for Locked again.
AfterWait_Cas == "cas"

\* Back from the futex a thread cannot know of other sleepers, so it marks the word again.
AfterWait == "exchange"

FutexWait(t) ==
    /\ At(t, "wait")
    /\ IF M = Sleeping
       THEN asleep' = asleep \cup {t} /\ Goto(t, "asleep")
       ELSE asleep' = asleep /\ Goto(t, AfterWait)
    /\ UNCHANGED M

WokenEarly(t) ==
    /\ At(t, "asleep")
    /\ asleep' = asleep \ {t}
    /\ Goto(t, AfterWait)
    /\ UNCHANGED M

FutexWake(t) ==
    /\ At(t, "wake")
    /\ \/ /\ asleep = {}
          /\ Goto(t, "out")
          /\ UNCHANGED asleep
       \/ \E u \in asleep :
             /\ asleep' = asleep \ {u}
             /\ pc' = [pc EXCEPT ![t] = "out", ![u] = AfterWait]
    /\ UNCHANGED M

-----------------------------------------------------------------------------
(***************************************************************************)
(* unlock: the decrement ends the critical section; only a word that said  *)
(* Sleeping needs the store and the wake-up.                               *)
(***************************************************************************)

\* As if unlock never woke anybody.
NeedsWake_Never(old) == FALSE

NeedsWake(old) == old # Locked

FetchSub(t) ==
    /\ At(t, "in")
    /\ M' = M - 1
    /\ Goto(t, IF NeedsWake(M) THEN "store" ELSE "out")
    /\ UNCHANGED asleep

StoreUnlocked(t) ==
    /\ At(t, "store")
    /\ M' = Unlocked
    /\ Goto(t, "wake")
    /\ UNCHANGED asleep

Step(t) ==
    \/ TryLock(t) \/ GiveUp(t) \/ CompareExchange(t) \/ Exchange(t) \/ FutexWait(t)
    \/ FetchSub(t) \/ StoreUnlocked(t) \/ FutexWake(t)

Next == \E t \in Threads : Lock(t) \/ Step(t) \/ WokenEarly(t)

Spec == Init /\ [][Next]_vars

\* A thread that runs takes its next step, and leaves the critical section; a sleeping
\* thread depends on being woken.
FairSpec == Spec /\ \A t \in Threads : WF_vars(Step(t))

-----------------------------------------------------------------------------
(***************************************************************************)
(* Properties.                                                             *)
(***************************************************************************)

Stages == {"out", "try", "cas", "exchange", "wait", "asleep", "in", "store", "wake"}

\* The types of the variables.
TypeOK ==
    /\ M \in {Unlocked, Locked, Sleeping}
    /\ pc \in [Threads -> Stages]
    /\ asleep = {t \in Threads : pc[t] = "asleep"}

\* Between lock() and unlock() of the same mutex there is one thread: neither the
\* exchange of a waiter nor the store of an unlocker lets a second one in.
MutualExclusion ==
    \A t, u \in Threads : pc[t] = "in" /\ pc[u] = "in" => t = u

\* Somebody always has it in hand to wake a sleeper: the word says Sleeping while the
\* mutex is taken, or an unlocker is about to wake, or a woken thread is about to write
\* Sleeping again.
NoLostWakeup ==
    asleep # {} =>
        \/ M = Sleeping
        \/ \E t \in Threads : pc[t] \in {"exchange", "store", "wake"}

\* When no new thread comes, everybody who called lock() gets in and out again.
EveryoneLeaves ==
    <>[][\A t \in Threads : ~Lock(t)]_vars => <>[](\A t \in Threads : pc[t] = "out")
=============================================================================
