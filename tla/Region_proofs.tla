--------------------------- MODULE Region_proofs ---------------------------
(***************************************************************************)
(* What holds in a region for any number of threads, any size of the       *)
(* batches, groups and mappings, and any memory reserved for it.           *)
(*                                                                         *)
(* The condition variable loses no wake-up.  What the free list holds      *)
(* plays no part in that: the argument is about the stages of the threads, *)
(* isPopulating and the counter alone.                                     *)
(*                                                                         *)
(* And every block is in one place, every record is counted and the groups *)
(* are in order.  That argument goes from the bottom up: folds over finite *)
(* sets, the batches of a group, the groups of a list, the free list       *)
(* together with the groups that a release has taken from it, and at last  *)
(* the steps, under an invariant that says who may borrow groups and that  *)
(* there is memory for the blocks about to be carved.                      *)
(***************************************************************************)
EXTENDS Region, FiniteSetTheorems, SequenceTheorems, TLAPS

\* A thread that a later notifyAll has to wake.
Waits(t) == pc[t] = "asleep" \/ (pc[t] = "parking" /\ fresh = t)

\* Stages of the thread that set isPopulating.
Populating == {"claimed", "map", "fill", "populated"}

\* Stages that only popBlocksWithCV has.
WithCV == {"claim", "claimed", "populated", "check", "parking", "asleep", "woken"}

WaitTypes ==
    /\ pc \in [Threads -> Stages]
    /\ fresh \in Threads \cup {NoThread}
    /\ notified \in BOOLEAN /\ isPopulating \in BOOLEAN /\ condVar \in BOOLEAN

OnlyWithCV == \A t \in Threads : pc[t] \in WithCV => condVar

\* Whoever set the flag is still on its way to clear it.
SomebodyPopulates ==
    condVar /\ isPopulating => \E t \in Threads : pc[t] \in Populating

WaitersCounted == \A t \in Threads : Waits(t) => isPopulating /\ ~notified

Inv == WaitTypes /\ OnlyWithCV /\ SomebodyPopulates /\ WaitersCounted

-----------------------------------------------------------------------------

\* A region starts with everybody idle (UnpaddedRegionInfo).
LEMMA InitInv == Init => Inv
BY RegionAssumption DEF RegionAssumption, Init, Inv, WaitTypes, OnlyWithCV, SomebodyPopulates,
   WaitersCounted, Waits, Stages, WithCV

\* A thread moves to a stage that does not wait, and the condition is left alone: enough
\* for most steps (popBlocks, releaseToOSMaybe).
LEMMA QuietStep ==
    ASSUME Inv, NEW t \in Threads, NEW stage \in Stages,
           pc' = [pc EXCEPT ![t] = stage],
           UNCHANGED <<condVar, isPopulating, condition>>,
           stage \notin {"asleep", "parking"},
           stage \in WithCV => condVar,
           condVar /\ pc[t] \in Populating => stage \in Populating
    PROVE  Inv'
<1> USE DEF Inv, WaitTypes, condition
<1>1. WaitTypes'
    OBVIOUS
<1>2. OnlyWithCV'
    BY DEF OnlyWithCV
<1>3. SomebodyPopulates'
    BY DEF SomebodyPopulates
<1>4. WaitersCounted'
    BY DEF WaitersCounted, Waits
<1> QED
    BY <1>1, <1>2, <1>3, <1>4

\* notifyAll leaves nobody waiting, whether it calls the futex or not (notifyAllImpl).
LEMMA AfterNotifyAll ==
    ASSUME Inv, NEW t \in Threads, NEW stage \in Stages, NotifyAllAndGoto(t, stage),
           stage \notin {"asleep", "parking"}
    PROVE  /\ pc' \in [Threads -> Stages]
           /\ \A u \in Threads : ~Waits(u)'
<1> USE DEF Inv, WaitTypes, NotifyAllAndGoto
<1>1. pc' \in [Threads -> Stages]
    BY DEF Stages, Waiting
<1>2. ASSUME NEW u \in Threads
      PROVE  ~Waits(u)'
    <2>1. fresh' # u
        BY RegionAssumption DEF RegionAssumption
    <2>2. pc'[u] # "asleep"
        BY DEF WaitersCounted, Waits
    <2> QED
        BY <2>1, <2>2 DEF Waits
<1> QED
    BY <1>1, <1>2

\* Pushing and merging back announce the blocks (pushBlocks, mergeGroupsToReleaseBack).
LEMMA AnnounceStep ==
    ASSUME Inv, NEW t \in Threads, AnnounceAndGoto(t, "idle"),
           UNCHANGED <<condVar, isPopulating>>,
           pc[t] \notin Populating
    PROVE  Inv'
<1> "idle" \in Stages
    BY DEF Stages
<1>1. CASE condVar
    <2>1. NotifyAllAndGoto(t, "idle")
        BY <1>1 DEF AnnounceAndGoto
    <2>2. /\ pc' \in [Threads -> Stages]
          /\ \A u \in Threads : ~Waits(u)'
        BY <2>1, AfterNotifyAll
    <2>3. WaitTypes'
        BY <2>1, <2>2 DEF Inv, WaitTypes, NotifyAllAndGoto
    <2>4. OnlyWithCV'
        BY <1>1 DEF OnlyWithCV
    <2>5. SomebodyPopulates'
        <3> SUFFICES ASSUME isPopulating
                     PROVE  \E u \in Threads : pc'[u] \in Populating
            BY DEF SomebodyPopulates
        <3>1. PICK u \in Threads : pc[u] \in Populating
            BY <1>1 DEF Inv, SomebodyPopulates
        <3>2. pc'[u] = pc[u]
            BY <2>1, <3>1 DEF NotifyAllAndGoto, Populating
        <3> QED
            BY <3>1, <3>2
    <2> QED
        BY <2>2, <2>3, <2>4, <2>5 DEF Inv, WaitersCounted
<1>2. CASE ~condVar
    BY <1>2, QuietStep DEF AnnounceAndGoto, Goto, WithCV
<1> QED
    BY <1>1, <1>2

\* Every step keeps the invariant, action by action.
LEMMA StepInv == Inv /\ [Next]_vars => Inv'
<1> SUFFICES ASSUME Inv, [Next]_vars
             PROVE  Inv'
    OBVIOUS
<1> USE DEF At, Goto
<1>1. CASE UNCHANGED vars
    BY <1>1 DEF vars, condition, Inv, WaitTypes, OnlyWithCV, SomebodyPopulates,
       WaitersCounted, Waits
<1>2. ASSUME NEW t \in Threads, NEW from, NEW to \in Stages, TakeMMLock(t, from, to),
             from \notin WithCV \ {"claimed"},
             to \notin WithCV,
             from = "claimed" => to \in Populating,
             from \notin {"map", "fill"}
      PROVE  Inv'
    BY <1>2, QuietStep DEF TakeMMLock, Populating, WithCV
<1>3. ASSUME NEW t \in Threads, LeavePopulation(t), pc[t] \in {"map", "fill"},
             UNCHANGED <<condVar, isPopulating, condition>>
      PROVE  Inv'
    BY <1>3, QuietStep DEF LeavePopulation, Populating, WithCV, Stages, Locked
<1>4. ASSUME NEW t \in Threads, PopStep(t)
      PROVE  Inv'
    <2>1. CASE PopFromList(t)
        <3>1. pc' = pc /\ condVar' = condVar /\ isPopulating' = isPopulating
            BY <2>1 DEF PopFromList
        <3>2. fresh' = fresh /\ notified' = notified
            BY <2>1 DEF PopFromList, condition
        <3>3. WaitTypes'
            BY <3>1, <3>2 DEF Inv, WaitTypes
        <3>4. OnlyWithCV'
            BY <3>1 DEF Inv, OnlyWithCV
        <3>5. SomebodyPopulates'
          <4>1. SomebodyPopulates
              BY DEF Inv
          <4> QED
              BY <3>1, <4>1 DEF SomebodyPopulates
        <3>6. WaitersCounted'
            BY <3>1, <3>2 DEF Inv, WaitersCounted, Waits
        <3> QED
            BY <3>3, <3>4, <3>5, <3>6 DEF Inv
    <2>2. CASE FindEmpty(t)
        <3> DEFINE stage == IF condVar THEN "claim" ELSE "lock"
        <3>1. /\ pc' = [pc EXCEPT ![t] = stage] /\ pc[t] = "idle"
              /\ UNCHANGED <<condVar, isPopulating, condition>>
            BY <2>2 DEF FindEmpty, condition
        <3>2. /\ stage \in Stages /\ stage \notin {"asleep", "parking"}
              /\ stage \in WithCV => condVar
              /\ "idle" \notin Populating
            BY DEF Populating, WithCV, Stages, Waiting
        <3> HIDE DEF stage
        <3> QED
            BY <3>1, <3>2, QuietStep
    <2>3. CASE LockToPopulate(t)
        BY <2>3, <1>2 DEF LockToPopulate, Populating, WithCV, Stages, Locked
    <2>4. CASE Recheck(t)
        BY <2>4, QuietStep DEF Recheck, Populating, WithCV, Stages, Locked
    <2>5. CASE Map(t)
        <3>1. CASE LeavePopulation(t)
            BY <2>5, <3>1, <1>3 DEF Map
        <3>2. CASE Goto(t, "fill")
            BY <2>5, <3>2, QuietStep DEF Map, Populating, WithCV, Stages, Locked
        <3> QED
            BY <2>5, <3>1, <3>2 DEF Map
    <2>6. CASE Fill(t)
        BY <2>6, <1>3 DEF Fill
    <2>7. CASE Claim(t)
        <3>1. CASE isPopulating
            <4>1. /\ pc' = [pc EXCEPT ![t] = "check"] /\ pc[t] = "claim"
                  /\ UNCHANGED <<condVar, isPopulating, condition>>
                BY <2>7, <3>1 DEF Claim
            <4>2. condVar
                BY <4>1 DEF Inv, OnlyWithCV, WithCV
            <4>3. "check" \in Stages
                BY DEF Stages, Waiting
            <4> QED
                BY <4>1, <4>2, <4>3, QuietStep DEF Populating
        <3>2. CASE ~isPopulating
            <4>1. /\ pc' = [pc EXCEPT ![t] = "claimed"] /\ isPopulating' = TRUE
                  /\ UNCHANGED <<condVar, fresh, notified>> /\ pc[t] = "claim"
                BY <2>7, <3>2 DEF Claim, condition
            <4>2. "claimed" \in Stages
                BY DEF Stages, Waiting
            <4>3. WaitTypes'
                BY <4>1, <4>2 DEF Inv, WaitTypes
            <4>4. OnlyWithCV'
                BY <4>1 DEF Inv, WaitTypes, OnlyWithCV, WithCV
            <4>5. SomebodyPopulates'
                BY <4>1 DEF Inv, WaitTypes, SomebodyPopulates, Populating
            <4>6. WaitersCounted'
                BY <3>2, <4>1 DEF Inv, WaitTypes, WaitersCounted, Waits
            <4> QED
                BY <4>3, <4>4, <4>5, <4>6 DEF Inv
        <3> QED
            BY <3>1, <3>2
    <2>8. CASE LockClaimed(t)
        BY <2>8, <1>2 DEF LockClaimed, Populating, WithCV, Stages, Locked
    <2>9. CASE Populated(t)
        <3> "idle" \in Stages
            BY DEF Stages
        <3>1. /\ pc' \in [Threads -> Stages]
              /\ \A u \in Threads : ~Waits(u)'
            BY <2>9, AfterNotifyAll DEF Populated
        <3>2. condVar'
            BY <2>9 DEF Populated, Inv, OnlyWithCV, WithCV
        <3>3. /\ isPopulating' = FALSE /\ condVar' = condVar
              /\ fresh' = NoThread /\ notified' = TRUE
            BY <2>9 DEF Populated, NotifyAllAndGoto
        <3>4. WaitTypes'
            BY <3>1, <3>3 DEF Inv, WaitTypes
        <3>5. OnlyWithCV' /\ SomebodyPopulates'
            BY <3>2, <3>3 DEF OnlyWithCV, SomebodyPopulates
        <3>6. WaitersCounted'
            BY <3>1 DEF WaitersCounted
        <3> QED
            BY <3>4, <3>5, <3>6 DEF Inv
    <2>10. CASE Check(t)
        <3>1. condVar
            BY <2>10 DEF Check, Inv, OnlyWithCV, WithCV
        <3>2. CASE UNCHANGED condition /\ (Goto(t, "idle") \/ Goto(t, "claim"))
            BY <2>10, <3>1, <3>2, QuietStep DEF Check, Populating, Stages, Waiting
        <3>3. CASE isPopulating /\ Goto(t, "parking") /\ fresh' = t /\ notified' = FALSE
            <4>1. UNCHANGED <<condVar, isPopulating>> /\ pc[t] = "check"
                BY <2>10 DEF Check
            <4>2. "parking" \in Stages
                BY DEF Stages, Waiting
            <4>3. WaitTypes'
                BY <3>3, <4>1, <4>2 DEF Inv, WaitTypes
            <4>4. OnlyWithCV'
                BY <3>1, <4>1 DEF OnlyWithCV
            <4>5. SomebodyPopulates'
                BY <3>3, <4>1 DEF Inv, WaitTypes, SomebodyPopulates, Populating
            <4>6. WaitersCounted'
                BY <3>3, <4>1 DEF WaitersCounted
            <4> QED
                BY <4>3, <4>4, <4>5, <4>6 DEF Inv
        <3> QED
            BY <2>10, <3>2, <3>3 DEF Check
    <2>11. CASE PopAfterWait(t)
        BY <2>11, QuietStep
           DEF PopAfterWait, Inv, OnlyWithCV, Populating, WithCV, Stages, Waiting
    <2> QED
        BY <1>4, <2>1, <2>2, <2>3, <2>4, <2>5, <2>6, <2>7, <2>8, <2>9, <2>10, <2>11
           DEF PopStep
<1>5. ASSUME NEW t \in Threads, Push(t)
      PROVE  Inv'
    BY <1>5, AnnounceStep DEF Push, Populating
<1>6. ASSUME NEW t \in Threads, ReleaseStep(t)
      PROVE  Inv'
    <2>1. CASE ReleaseToOS(t)
        BY <2>1, QuietStep DEF ReleaseToOS, Populating, WithCV, Stages, Waiting
    <2>2. CASE LockToRelease(t)
        BY <2>2, <1>2 DEF LockToRelease, Populating, WithCV, Stages, Locked
    <2>3. CASE TryReleaseToOS(t)
        BY <2>3, <1>2 DEF TryReleaseToOS, Populating, WithCV, Stages, Locked
    <2>4. CASE Extract(t)
        <3>1. /\ pc[t] = "extract"
              /\ UNCHANGED <<condVar, isPopulating, condition>>
              /\ Goto(t, "idle") \/ Goto(t, "merge")
            BY <2>4 DEF Extract, SkipRelease
        <3>2. "idle" \in Stages /\ "merge" \in Stages
            BY DEF Stages, Locked
        <3> QED
            BY <3>1, <3>2, QuietStep DEF Populating, WithCV
    <2>5. CASE Merge(t)
        BY <2>5, AnnounceStep DEF Merge, Populating
    <2> QED
        BY <1>6, <2>1, <2>2, <2>3, <2>4, <2>5 DEF ReleaseStep
<1>7. ASSUME NEW t \in Threads, FutexStep(t)
      PROVE  Inv'
    <2>1. CASE Park(t)
        <3>1. condVar /\ pc[t] = "parking" /\ UNCHANGED <<condVar, isPopulating, fresh, notified>>
            BY <2>1 DEF Park, Inv, OnlyWithCV, WithCV, condition
        <3>2. CASE fresh = t
            <4>1. pc' = [pc EXCEPT ![t] = "asleep"]
                BY <2>1, <3>2 DEF Park
            <4>2. "asleep" \in Stages
                BY DEF Stages, Waiting
            <4>3. WaitTypes'
                BY <3>1, <4>1, <4>2 DEF Inv, WaitTypes
            <4>4. OnlyWithCV'
                BY <3>1 DEF OnlyWithCV
            <4>5. SomebodyPopulates'
                BY <3>1, <4>1 DEF Inv, WaitTypes, SomebodyPopulates, Populating
            <4>6. WaitersCounted'
                BY <3>1, <3>2, <4>1 DEF Inv, WaitTypes, WaitersCounted, Waits
            <4> QED
                BY <4>3, <4>4, <4>5, <4>6 DEF Inv
        <3>3. CASE fresh # t
            <4>1. pc' = [pc EXCEPT ![t] = "woken"]
                BY <2>1, <3>3 DEF Park
            <4>2. "woken" \in Stages
                BY DEF Stages, Waiting
            <4> QED
                BY <3>1, <4>1, <4>2, QuietStep DEF Populating, condition
        <3> QED
            BY <3>2, <3>3
    <2>2. CASE WakeSpuriously(t)
        BY <2>2, QuietStep
           DEF WakeSpuriously, Inv, OnlyWithCV, Populating, WithCV, Stages, Waiting
    <2> QED
        BY <1>7, <2>1, <2>2 DEF FutexStep
<1>8. ASSUME NEW t \in Threads, Disable(t)
      PROVE  Inv'
    BY <1>8, <1>2 DEF Disable, Populating, WithCV, Stages, Locked
<1>9. ASSUME NEW t \in Threads, Enable(t)
      PROVE  Inv'
    BY <1>9, QuietStep DEF Enable, Populating, WithCV, Stages
<1> QED
    BY <1>1, <1>4, <1>5, <1>6, <1>7, <1>8, <1>9 DEF Next

-----------------------------------------------------------------------------

\* Whoever sleeps on the condition variable, or is about to, has somebody who populates
\* the list, will notify, and is not skipped (popBlocksWithCV, condition_variable_linux).
THEOREM RegionLosesNoWakeup == Spec => []NoLostWakeup
<1>1. Inv => NoLostWakeup
    BY DEF Inv, OnlyWithCV, SomebodyPopulates, WaitersCounted, Waits, NoLostWakeup,
       WithCV, Populating
<1> QED
    BY <1>1, InitInv, StepInv, PTL DEF Spec

-----------------------------------------------------------------------------
(* Finite sets, folds and sums.                                            *)

\* A set of numbers that is not empty has a least one.
LEMMA LeastNumber ==
    ASSUME NEW T \in SUBSET Nat, T # {} PROVE \E n \in T : \A m \in T : n <= m
<1>1. PICK n \in T : \A m \in T : ~ (<<m, n>> \in OpToRel(<, Nat))
    BY NatLessThanWellFounded, WFMin
<1>2. \A m \in T : ~(m < n)
    BY <1>1 DEF OpToRel
<1> QED
    BY <1>2

\* The parts of a finite set are finite, and one less without one of their elements.
LEMMA PartSizes ==
    ASSUME NEW S, IsFiniteSet(S)
    PROVE  \A s \in SUBSET S :
             /\ IsFiniteSet(s) /\ Cardinality(s) \in Nat
             /\ \A x \in s : Cardinality(s \ {x}) = Cardinality(s) - 1 /\ Cardinality(s) > 0
<1>1. \A s \in SUBSET S : IsFiniteSet(s) /\ Cardinality(s) \in Nat
    BY FS_Subset, FS_CardinalityType
<1>2. ASSUME NEW s \in SUBSET S, NEW x \in s
      PROVE  Cardinality(s \ {x}) = Cardinality(s) - 1 /\ Cardinality(s) > 0
  <2>1. IsFiniteSet(s) /\ s # {}
      BY <1>1
  <2>2. Cardinality(s \ {x}) = IF x \in s THEN Cardinality(s) - 1 ELSE Cardinality(s)
      BY <2>1, FS_RemoveElement
  <2>3. Cardinality(s) # 0
      BY <2>1, FS_EmptySet
  <2> QED
      BY <1>1, <2>2, <2>3
<1> QED
    BY <1>1, <1>2

\* A fold over a finite set S takes its elements in the order of ch: if its value for what is
\* left of a subset is one it may have, so is the value for the subset.
LEMMA SubsetInduction ==
    ASSUME NEW S, IsFiniteSet(S), NEW ch, NEW D, NEW f,
           f[{}] \in D[{}],
           \A s \in SUBSET S : s # {} =>
              ch[s] \in s /\ (f[s \ {ch[s]}] \in D[s \ {ch[s]}] => f[s] \in D[s])
    PROVE  \A s \in SUBSET S : f[s] \in D[s]
<1> DEFINE Bad == {n \in Nat : \E s \in SUBSET S : Cardinality(s) = n /\ f[s] \notin D[s]}
<1>1. \A s \in SUBSET S : Cardinality(s) \in Nat
    BY PartSizes
<1>2. SUFFICES ASSUME Bad # {} PROVE FALSE
    BY <1>1
<1>3. PICK n \in Bad : \A m \in Bad : n <= m
    BY <1>2, LeastNumber
<1>4. PICK s \in SUBSET S : Cardinality(s) = n /\ f[s] \notin D[s]
    BY <1>3
<1>5. s # {} /\ ch[s] \in s
    BY <1>4
<1>6. Cardinality(s \ {ch[s]}) = n - 1 /\ n - 1 \in Nat
    BY <1>1, <1>4, <1>5, PartSizes
<1>7. f[s \ {ch[s]}] \in D[s \ {ch[s]}]
    BY <1>3, <1>6
<1> QED
    BY <1>4, <1>5, <1>7

\* f is the fold of h over the elements of S, in the order of ch.
IsFold(f, S, ch, base, h) ==
    f = [s \in SUBSET S |-> IF s = {} THEN base ELSE h[<<ch[s], f[s \ {ch[s]}]>>]]

\* The equation of a fold has a solution.
LEMMA FoldExists ==
    ASSUME NEW S, IsFiniteSet(S), NEW ch, NEW base, NEW h,
           \A s \in SUBSET S : s # {} => ch[s] \in s
    PROVE  \E f : IsFold(f, S, ch, base, h)
<1> DEFINE Solves(f, n) ==
             \A s \in SUBSET S : Cardinality(s) <= n =>
                f[s] = IF s = {} THEN base ELSE h[<<ch[s], f[s \ {ch[s]}]>>]
           Bad == {n \in Nat : ~ \E f : Solves(f, n)}
<1>1. \A s \in SUBSET S : Cardinality(s) \in Nat
    BY PartSizes
<1>2. Bad = {}
  <2> SUFFICES ASSUME Bad # {} PROVE FALSE
      OBVIOUS
  <2>1. PICK n \in Nat : /\ ~ \E f : Solves(f, n)
                         /\ \A m \in Nat : ~ (\E f : Solves(f, m)) => n <= m
    <3> HIDE DEF Solves
    <3>1. PICK n \in Bad : \A m \in Bad : n <= m
        BY LeastNumber
    <3> QED
        BY <3>1
  <2>2. n # 0
    <3> DEFINE f == [s \in SUBSET S |-> base]
    <3>1. \A s \in SUBSET S : Cardinality(s) <= 0 => s = {}
        BY <1>1, PartSizes, FS_EmptySet
    <3>2. Solves(f, 0)
        BY <3>1
    <3> HIDE DEF f, Solves
    <3> QED
        BY <2>1, <3>2
  <2>3. PICK f : Solves(f, n - 1)
    <3> HIDE DEF Solves
    <3> QED
        BY <2>1, <2>2
  <2> DEFINE g == [s \in SUBSET S |-> IF s = {} THEN base ELSE h[<<ch[s], f[s \ {ch[s]}]>>]]
  <2>4. ASSUME NEW s \in SUBSET S, Cardinality(s) <= n, s # {}
        PROVE  g[s \ {ch[s]}] = f[s \ {ch[s]}]
    <3>1. ch[s] \in s /\ s \ {ch[s]} \in SUBSET S
        BY <2>4
    <3>2. Cardinality(s \ {ch[s]}) = Cardinality(s) - 1 /\ Cardinality(s) \in Nat
        BY <3>1, PartSizes
    <3>3. Cardinality(s \ {ch[s]}) <= n - 1
        BY <2>4, <3>2
    <3> QED
        BY <2>3, <3>1, <3>3
  <2>5. Solves(g, n)
      BY <2>4
  <2> HIDE DEF g, Solves
  <2> QED
      BY <2>1, <2>5
<1>3. PICK f : Solves(f, Cardinality(S))
    BY <1>1, <1>2
<1> DEFINE g == [s \in SUBSET S |-> f[s]]
<1>4. \A s \in SUBSET S : Cardinality(s) <= Cardinality(S)
    BY FS_Subset
<1>5. g = [s \in SUBSET S |-> IF s = {} THEN base ELSE h[<<ch[s], g[s \ {ch[s]}]>>]]
  <2>1. ASSUME NEW s \in SUBSET S
        PROVE  f[s] = IF s = {} THEN base ELSE h[<<ch[s], g[s \ {ch[s]}]>>]
    <3>1. s \ {ch[s]} \in SUBSET S /\ g[s \ {ch[s]}] = f[s \ {ch[s]}]
        OBVIOUS
    <3> HIDE DEF g
    <3> QED
        BY <1>3, <1>4, <3>1
  <2> QED
      BY <2>1
<1> HIDE DEF g
<1> QED
    BY <1>5 DEF IsFold

\* A fold whose steps stay within the values that are right for a subset, a
\* value for the base and one per element that h adds, exists and its value is right.
LEMMA FoldWithin ==
    ASSUME NEW S, IsFiniteSet(S), NEW ch, NEW base, NEW D, NEW h, base \in D[{}],
           \A s \in SUBSET S : s # {} =>
              ch[s] \in s /\ \A v \in D[s \ {ch[s]}] : h[<<ch[s], v>>] \in D[s]
    PROVE  \E f : IsFold(f, S, ch, base, h) /\ \A s \in SUBSET S : f[s] \in D[s]
<1>1. PICK f : IsFold(f, S, ch, base, h)
  <2>1. \A s \in SUBSET S : s # {} => ch[s] \in s
      OBVIOUS
  <2> QED
      BY <2>1, FoldExists
<1>2. f[{}] = base
    BY <1>1 DEF IsFold
<1>3. \A s \in SUBSET S : s # {} => f[s] = h[<<ch[s], f[s \ {ch[s]}]>>]
    BY <1>1 DEF IsFold
<1>4. \A s \in SUBSET S : f[s] \in D[s]
  <2>1. \A s \in SUBSET S : s # {} =>
              ch[s] \in s /\ (f[s \ {ch[s]}] \in D[s \ {ch[s]}] => f[s] \in D[s])
      BY <1>3
  <2> QED
      BY <1>2, <2>1, SubsetInduction
<1> QED
    BY <1>1, <1>4

\* The largest and the least of some numbers.
LEMMA MaxOf ==
    ASSUME NEW n \in Nat, NEW s \in SUBSET (1 .. n), s # {}
    PROVE  Max(s) \in s /\ \A y \in s : Max(s) >= y
<1> DEFINE T == {m \in Nat : \E x \in s : m = n - x}
<1>1. T # {}
  <2>1. PICK x \in s : TRUE
      OBVIOUS
  <2>2. n - x \in T
      BY <2>1
  <2> QED
      BY <2>2
<1>2. PICK m \in T : \A k \in T : m <= k
    BY <1>1, LeastNumber
<1>3. PICK x \in s : m = n - x
    BY <1>2
<1>4. \A y \in s : x >= y
  <2> SUFFICES ASSUME NEW y \in s PROVE x >= y
      OBVIOUS
  <2>1. n - y \in T /\ x \in Nat /\ y \in Nat
      OBVIOUS
  <2>2. m <= n - y
      BY <1>2, <2>1
  <2> QED
      BY <1>3, <2>1, <2>2
<1> QED
    BY <1>3, <1>4 DEF Max

\* Where the walk along the list stops is a least place (the loops of pushBlocksImpl).
LEMMA MinOf ==
    ASSUME NEW s \in SUBSET Nat, s # {}
    PROVE  Min(s) \in s /\ \A y \in s : Min(s) <= y
<1>1. \E n \in s : \A m \in s : n <= m
    BY LeastNumber
<1> QED
    BY <1>1 DEF Min

\* Sums over the positions of a list: there is one, and when it counts the elements of
\* disjoint sets it is the size of their union.
LEMMA SumExists ==
    ASSUME NEW n \in Nat, NEW c \in [1 .. n -> Nat]
    PROVE  \E f : f = [s \in SUBSET (1 .. n) |->
                         IF s = {} THEN 0 ELSE f[s \ {Max(s)}] + c[Max(s)]]
<1> DEFINE S  == 1 .. n
           ch == [s \in SUBSET S |-> Max(s)]
           h  == [p \in S \X Nat |-> p[2] + c[p[1]]]
           D  == [s \in SUBSET S |-> Nat]
<1>1. IsFiniteSet(S)
    BY FS_Interval
<1>2. 0 \in D[{}]
    OBVIOUS
<1>3. \A s \in SUBSET S : s # {} => ch[s] = Max(s) /\ ch[s] \in s
    BY MaxOf
<1>4. \A i \in S, v \in Nat : h[<<i, v>>] = v + c[i] /\ h[<<i, v>>] \in Nat
    OBVIOUS
<1>5. \A s \in SUBSET S : D[s] = Nat
    OBVIOUS
<1> HIDE DEF S, ch, h, D
<1>6. PICK f : IsFold(f, S, ch, 0, h) /\ \A s \in SUBSET S : f[s] \in D[s]
  <2>1. \A s \in SUBSET S : s # {} =>
              ch[s] \in s /\ \A v \in D[s \ {ch[s]}] : h[<<ch[s], v>>] \in D[s]
      BY <1>3, <1>4, <1>5
  <2> QED
      BY <1>1, <1>2, <2>1, FoldWithin
<1>7. ASSUME NEW s \in SUBSET S, s # {}
      PROVE  h[<<ch[s], f[s \ {ch[s]}]>>] = f[s \ {Max(s)}] + c[Max(s)]
  <2>1. s \ {Max(s)} \in SUBSET S /\ Max(s) \in S /\ ch[s] = Max(s)
      BY <1>3, <1>7
  <2>2. f[s \ {Max(s)}] \in Nat
      BY <1>5, <1>6, <2>1
  <2>3. h[<<Max(s), f[s \ {Max(s)}]>>] = f[s \ {Max(s)}] + c[Max(s)]
      BY <1>4, <2>1, <2>2
  <2> QED
      BY <2>1, <2>3
<1>8. f = [s \in SUBSET S |-> IF s = {} THEN 0 ELSE f[s \ {Max(s)}] + c[Max(s)]]
    BY <1>6, <1>7 DEF IsFold
<1> QED
    BY <1>8 DEF S

\* What the sets w[i] have for the i of I.
Covered(V, I, w) == {x \in V : \E i \in I : x \in w[i]}

\* Finite sets of elements of V, no two of them with one in common.
Apart(V, w, n) ==
    /\ w \in [1 .. n -> SUBSET V]
    /\ \A i \in 1 .. n : IsFiniteSet(w[i])
    /\ \A i, j \in 1 .. n : i # j => w[i] \cap w[j] = {}

\* f adds the sizes up, from the first set on.
AddsSizes(f, w, n) ==
    /\ f[{}] = 0
    /\ \A s \in SUBSET (1 .. n) :
         s # {} => f[s] = f[s \ {Max(s)}] + Cardinality(w[Max(s)])

\* The sum of the sizes of finite sets without a common element is the size of their union
\* (the blocks of batches, the records of groups).
LEMMA SumOfSizes ==
    ASSUME NEW n \in Nat, NEW V, NEW w, Apart(V, w, n), NEW f, AddsSizes(f, w, n)
    PROVE  /\ IsFiniteSet(Covered(V, 1 .. n, w))
           /\ f[1 .. n] = Cardinality(Covered(V, 1 .. n, w))
<1> DEFINE S    == 1 .. n
           U(s) == Covered(V, s, w)
           ch   == [s \in SUBSET S |-> Max(s)]
           D    == [s \in SUBSET S |-> {v \in Nat : IsFiniteSet(U(s)) /\ v = Cardinality(U(s))}]
<1>1. IsFiniteSet(S)
    BY FS_Interval
<1> USE DEF Apart, AddsSizes
<1>2. f[{}] \in D[{}]
  <2>1. U({}) = {}
      BY DEF Covered
  <2>2. D[{}] = {v \in Nat : IsFiniteSet(U({})) /\ v = Cardinality(U({}))}
      OBVIOUS
  <2> HIDE DEF U, D
  <2> QED
      BY <2>1, <2>2, FS_EmptySet
<1>3. ASSUME NEW s \in SUBSET S, s # {}
      PROVE  ch[s] \in s /\ (f[s \ {ch[s]}] \in D[s \ {ch[s]}] => f[s] \in D[s])
  <2>1. PICK x \in s : x = Max(s)
      BY <1>3, MaxOf
  <2>2. PICK r \in SUBSET S : r = s \ {x}
      OBVIOUS
  <2>3. U(s) = U(r) \cup w[x]
      BY <2>2 DEF Covered
  <2>4. U(r) \cap w[x] = {}
    <3>1. \A i \in r : w[i] \cap w[x] = {}
        BY <2>2
    <3> QED
        BY <3>1 DEF Covered
  <2>5. ch[s] = x
      BY <2>1
  <2>6. f[s] = f[r] + Cardinality(w[x])
      BY <1>3, <2>1, <2>2
  <2>7. IsFiniteSet(w[x])
      OBVIOUS
  <2>8. /\ D[r] = {v \in Nat : IsFiniteSet(U(r)) /\ v = Cardinality(U(r))}
        /\ D[s] = {v \in Nat : IsFiniteSet(U(s)) /\ v = Cardinality(U(s))}
      OBVIOUS
  <2> HIDE DEF D, U, ch
  <2>9. ASSUME f[r] \in D[r] PROVE f[s] \in D[s]
    <3>1. IsFiniteSet(U(r)) /\ f[r] = Cardinality(U(r)) /\ f[r] \in Nat
        BY <2>8, <2>9
    <3>2. Cardinality(U(r) \cap w[x]) = 0
        BY <2>4, FS_EmptySet
    <3>3. Cardinality(w[x]) \in Nat
        BY <2>7, FS_CardinalityType
    <3>4. PICK old, more : old = U(r) /\ more = w[x]
        OBVIOUS
    <3>5. IsFiniteSet(old) /\ IsFiniteSet(more) /\ Cardinality(old \cap more) = 0
        BY <2>7, <3>1, <3>2, <3>4
    <3>6. /\ IsFiniteSet(old \cup more)
          /\ Cardinality(old \cup more)
               = Cardinality(old) + Cardinality(more) - Cardinality(old \cap more)
        BY ONLY <3>5, FS_Union
    <3>7. U(s) = old \cup more
        BY <2>3, <3>4
    <3>8. IsFiniteSet(U(s)) /\ Cardinality(U(s)) = f[r] + Cardinality(w[x])
        BY <3>1, <3>3, <3>4, <3>5, <3>6, <3>7
    <3> QED
        BY <2>6, <2>8, <3>1, <3>3, <3>8
  <2> QED
      BY <2>1, <2>2, <2>5, <2>9
<1>4. f[S] \in D[S]
  <2> HIDE DEF S, D, ch
  <2>1. \A s \in SUBSET S : f[s] \in D[s]
      BY <1>1, <1>2, <1>3, SubsetInduction
  <2> QED
      BY <2>1
<1>5. D[S] = {v \in Nat : IsFiniteSet(U(S)) /\ v = Cardinality(U(S))}
    OBVIOUS
<1> HIDE DEF D
<1> QED
    BY <1>4, <1>5

\* A set has a subset of every size up to its own.
LEMMA SubsetOfSize ==
    ASSUME NEW S, IsFiniteSet(S), NEW k \in Nat, k <= Cardinality(S)
    PROVE  kSubset(k, S) # {}
<1> DEFINE T == {m \in Nat : m >= k /\ \E s \in SUBSET S : Cardinality(s) = m}
<1>1. T # {}
  <2>1. Cardinality(S) \in T
      BY PartSizes
  <2> QED
      BY <2>1
<1>2. PICK m \in T : \A n \in T : m <= n
    BY <1>1, LeastNumber
<1>3. PICK s \in SUBSET S : Cardinality(s) = m
    BY <1>2
<1>4. m = k
  <2> SUFFICES ASSUME m > k PROVE FALSE
      BY <1>2
  <2>1. s # {}
      BY <1>3, FS_EmptySet
  <2>2. PICK x \in s : TRUE
      BY <2>1
  <2>3. Cardinality(s \ {x}) = m - 1 /\ s \ {x} \in SUBSET S
      BY <1>3, <2>2, PartSizes
  <2>4. m - 1 \in T
      BY <2>3
  <2> QED
      BY <1>2, <2>4
<1> QED
    BY <1>3, <1>4 DEF kSubset

-----------------------------------------------------------------------------
(* The batches of a group.                                                 *)

BlocksIn(batches) == {b \in Int : \E i \in 1 .. Len(batches) : b \in batches[i]}

\* A batch of the group, which may be empty.
BatchFits(batch, base) ==
    /\ batch \in SUBSET Int /\ IsFiniteSet(batch)
    /\ Cardinality(batch) <= MaxNumCached
    /\ \A b \in batch : GroupOf(b) = base

\* Full batches of the group, without a block in common.
Packed(batches, base) ==
    /\ batches \in Seq(SUBSET Int)
    /\ \A i \in 1 .. Len(batches) : BatchFits(batches[i], base) /\ Full(batches[i])
    /\ \A i, j \in 1 .. Len(batches) : i # j => batches[i] \cap batches[j] = {}

\* What the list operations keep of the batches of a group: only the first may have room.
BatchesFit(batches, base) ==
    \E first, rest :
       /\ batches = <<first>> \o rest
       /\ BatchFits(first, base) /\ Packed(rest, base)
       /\ first \cap BlocksIn(rest) = {}

\* A TransferBatch has room for a block at least (TransferBatch::MaxNumCached).
LEMMA MaxNumCachedPositive == MaxNumCached \in Nat /\ MaxNumCached >= 1
BY BlockListAssumption DEF BlockListAssumption

\* The blocks of a first batch and the others (every operation on a group works on the
\* first batch).
LEMMA FirstAndRest ==
    ASSUME NEW first \in SUBSET Int, NEW rest \in Seq(SUBSET Int)
    PROVE  /\ <<first>> \o rest \in Seq(SUBSET Int)
           /\ Len(<<first>> \o rest) = Len(rest) + 1
           /\ Head(<<first>> \o rest) = first
           /\ (<<first>> \o rest)[1] = first
           /\ Tail(<<first>> \o rest) = rest
           /\ BlocksIn(<<first>> \o rest) = first \cup BlocksIn(rest)
<1> DEFINE bs == <<first>> \o rest
<1>1. /\ bs \in Seq(SUBSET Int) /\ Len(bs) = Len(rest) + 1 /\ Head(bs) = first /\ bs[1] = first
      /\ Len(rest) \in Nat
    OBVIOUS
<1>2. \A i \in 1 .. Len(rest) : bs[i + 1] = rest[i] /\ i + 1 \in 1 .. Len(bs)
    OBVIOUS
<1>3. \A i \in 1 .. Len(bs) : i # 1 => bs[i] = rest[i - 1] /\ i - 1 \in 1 .. Len(rest)
    OBVIOUS
<1>4. Tail(bs) = rest
  <2>1. Tail(bs) \in Seq(SUBSET Int) /\ Len(Tail(bs)) = Len(rest)
      BY <1>1
  <2>2. \A i \in 1 .. Len(rest) : Tail(bs)[i] = rest[i]
      BY <1>1, <1>2
  <2> HIDE DEF bs
  <2> QED
      BY <2>1, <2>2, SeqEqual
<1> HIDE DEF bs
<1>5. 1 \in 1 .. Len(bs)
    BY <1>1
<1>6. ASSUME NEW b \in Int
      PROVE  (\E i \in 1 .. Len(bs) : b \in bs[i])
               <=> b \in first \/ \E i \in 1 .. Len(rest) : b \in rest[i]
  <2>1. ASSUME NEW i \in 1 .. Len(bs), b \in bs[i]
        PROVE  b \in first \/ \E k \in 1 .. Len(rest) : b \in rest[k]
      BY <1>1, <1>3, <2>1
  <2>2. ASSUME NEW i \in 1 .. Len(rest), b \in rest[i]
        PROVE  \E k \in 1 .. Len(bs) : b \in bs[k]
      BY <1>2, <2>2
  <2> QED
      BY <1>1, <1>5, <2>1, <2>2
<1>7. BlocksIn(bs) = first \cup BlocksIn(rest)
    BY <1>6 DEF BlocksIn
<1> QED
    BY <1>1, <1>4, <1>7 DEF bs

\* One more full batch in front.
LEMMA PackMore ==
    ASSUME NEW base, NEW first, BatchFits(first, base), Full(first), NEW rest,
           Packed(rest, base), first \cap BlocksIn(rest) = {}
    PROVE  Packed(<<first>> \o rest, base)
<1> DEFINE bs == <<first>> \o rest
<1>1. first \in SUBSET Int /\ rest \in Seq(SUBSET Int) /\ Len(rest) \in Nat
    BY DEF BatchFits, Packed
<1>2. bs \in Seq(SUBSET Int) /\ Len(bs) = Len(rest) + 1 /\ bs[1] = first
    BY <1>1
<1>3. \A i \in 1 .. Len(bs) : i # 1 => bs[i] = rest[i - 1] /\ i - 1 \in 1 .. Len(rest)
    BY <1>1
<1>4. \A i \in 1 .. Len(rest) : first \cap rest[i] = {}
    BY <1>1 DEF BlocksIn
<1> HIDE DEF bs
<1>5. \A i \in 1 .. Len(bs) : BatchFits(bs[i], base) /\ Full(bs[i])
    BY <1>2, <1>3 DEF Packed
<1>6. ASSUME NEW i \in 1 .. Len(bs), NEW j \in 1 .. Len(bs), i # j
      PROVE  bs[i] \cap bs[j] = {}
  <2>1. CASE i = 1 \/ j = 1
      BY <1>2, <1>3, <1>4, <1>6, <2>1
  <2>2. CASE i # 1 /\ j # 1
    <3>1. i - 1 # j - 1
        BY <1>6
    <3> QED
        BY <1>3, <2>2, <3>1 DEF Packed
  <2> QED
      BY <2>1, <2>2
<1>7. Packed(bs, base)
    BY <1>2, <1>5, <1>6 DEF Packed
<1> QED
    BY <1>7 DEF bs

\* The batches of two lists, one behind the other.
LEMMA BlocksOfBoth ==
    ASSUME NEW s \in Seq(SUBSET Int), NEW t \in Seq(SUBSET Int)
    PROVE  BlocksIn(s \o t) = BlocksIn(s) \cup BlocksIn(t)
<1>1. PICK bs : bs = s \o t
    OBVIOUS
<1>2. \A i \in 1 .. Len(bs) : \/ i \in 1 .. Len(s) /\ bs[i] = s[i]
                              \/ i - Len(s) \in 1 .. Len(t) /\ bs[i] = t[i - Len(s)]
    BY <1>1
<1>3. \A i \in 1 .. Len(s) : bs[i] = s[i] /\ i \in 1 .. Len(bs)
    BY <1>1
<1>4. \A i \in 1 .. Len(t) : bs[i + Len(s)] = t[i] /\ i + Len(s) \in 1 .. Len(bs)
    BY <1>1
<1>5. ASSUME NEW b \in Int
      PROVE  (\E i \in 1 .. Len(bs) : b \in bs[i])
               <=> (\E i \in 1 .. Len(s) : b \in s[i]) \/ \E i \in 1 .. Len(t) : b \in t[i]
    BY <1>2, <1>3, <1>4
<1> QED
    BY <1>1, <1>5 DEF BlocksIn

\* Full batches behind full batches: what mergeGroupsToReleaseBack appends.
LEMMA PackBoth ==
    ASSUME NEW base, NEW s, NEW t, Packed(s, base), Packed(t, base),
           BlocksIn(s) \cap BlocksIn(t) = {}
    PROVE  Packed(s \o t, base) /\ Len(s \o t) = Len(s) + Len(t)
<1>1. s \in Seq(SUBSET Int) /\ t \in Seq(SUBSET Int) /\ Len(s) \in Nat /\ Len(t) \in Nat
    BY DEF Packed
<1>2. PICK bs : bs = s \o t
    OBVIOUS
<1>3. bs \in Seq(SUBSET Int) /\ Len(bs) = Len(s) + Len(t)
    BY <1>1, <1>2
<1>4. \A i \in 1 .. Len(bs) : \/ i \in 1 .. Len(s) /\ bs[i] = s[i]
                              \/ /\ i - Len(s) \in 1 .. Len(t) /\ bs[i] = t[i - Len(s)]
                                 /\ i \notin 1 .. Len(s)
    BY <1>1, <1>2
<1>5. \A i \in 1 .. Len(s), j \in 1 .. Len(t) : s[i] \cap t[j] = {}
    BY <1>1 DEF BlocksIn
<1>6. \A i \in 1 .. Len(bs) : BatchFits(bs[i], base) /\ Full(bs[i])
    BY <1>4 DEF Packed
<1>7. ASSUME NEW i \in 1 .. Len(bs), NEW j \in 1 .. Len(bs), i # j
      PROVE  bs[i] \cap bs[j] = {}
  <2>1. CASE i \in 1 .. Len(s) /\ j \in 1 .. Len(s)
      BY <1>4, <1>7, <2>1 DEF Packed
  <2>2. CASE i \in 1 .. Len(s) /\ j \notin 1 .. Len(s)
      BY <1>4, <1>5, <2>2
  <2>3. CASE i \notin 1 .. Len(s) /\ j \in 1 .. Len(s)
      BY <1>4, <1>5, <2>3
  <2>4. CASE i \notin 1 .. Len(s) /\ j \notin 1 .. Len(s)
    <3>1. i - Len(s) # j - Len(s)
        BY <1>1, <1>7
    <3>2. /\ bs[i] = t[i - Len(s)] /\ bs[j] = t[j - Len(s)]
          /\ i - Len(s) \in 1 .. Len(t) /\ j - Len(s) \in 1 .. Len(t)
        BY <1>4, <2>4
    <3> QED
        BY <3>1, <3>2 DEF Packed
  <2> QED
      BY <2>1, <2>2, <2>3, <2>4
<1>8. Packed(bs, base)
    BY <1>3, <1>6, <1>7 DEF Packed
<1> QED
    BY <1>2, <1>3, <1>8

\* A first batch that is full is one of the packed ones.
LEMMA AllPacked ==
    ASSUME NEW base, NEW batches, BatchesFit(batches, base), Full(Head(batches))
    PROVE  Packed(batches, base)
<1>1. PICK first, rest : /\ batches = <<first>> \o rest
                         /\ BatchFits(first, base) /\ Packed(rest, base)
                         /\ first \cap BlocksIn(rest) = {}
    BY DEF BatchesFit
<1>2. Head(batches) = first
    BY <1>1, FirstAndRest DEF BatchFits, Packed
<1> QED
    BY <1>1, <1>2, PackMore

\* The parts of the batches that fit, by name.
LEMMA BatchesSplit ==
    ASSUME NEW base, NEW batches, BatchesFit(batches, base)
    PROVE  /\ batches \in Seq(SUBSET Int) /\ Len(batches) \in Nat /\ Len(batches) >= 1
           /\ batches = <<Head(batches)>> \o Tail(batches)
           /\ batches[1] = Head(batches)
           /\ BatchFits(Head(batches), base) /\ Packed(Tail(batches), base)
           /\ Tail(batches) \in Seq(SUBSET Int)
           /\ Head(batches) \cap BlocksIn(Tail(batches)) = {}
           /\ Len(Tail(batches)) = Len(batches) - 1 /\ Len(Tail(batches)) \in Nat
           /\ BlocksIn(batches) = Head(batches) \cup BlocksIn(Tail(batches))
           /\ \A b \in BlocksIn(batches) : GroupOf(b) = base
<1>1. PICK first, rest : /\ batches = <<first>> \o rest
                         /\ BatchFits(first, base) /\ Packed(rest, base)
                         /\ first \cap BlocksIn(rest) = {}
    BY DEF BatchesFit
<1>2. /\ first \in SUBSET Int /\ rest \in Seq(SUBSET Int) /\ Len(rest) \in Nat
    BY <1>1 DEF BatchFits, Packed
<1>3. /\ batches \in Seq(SUBSET Int) /\ Len(batches) = Len(rest) + 1
      /\ Head(batches) = first /\ batches[1] = first /\ Tail(batches) = rest
      /\ BlocksIn(batches) = first \cup BlocksIn(rest)
    BY <1>1, <1>2, FirstAndRest
<1>4. \A b \in BlocksIn(rest) : GroupOf(b) = base
    BY <1>1 DEF BlocksIn, Packed, BatchFits
<1>5. \A b \in first : GroupOf(b) = base
    BY <1>1 DEF BatchFits
<1>6. batches = <<Head(batches)>> \o Tail(batches)
    BY <1>1, <1>3
<1>7. /\ BatchFits(Head(batches), base) /\ Packed(Tail(batches), base)
      /\ Head(batches) \cap BlocksIn(Tail(batches)) = {}
      /\ BlocksIn(batches) = Head(batches) \cup BlocksIn(Tail(batches))
    BY <1>1, <1>3
<1>8. /\ Len(batches) \in Nat /\ Len(batches) >= 1
      /\ Len(Tail(batches)) = Len(batches) - 1 /\ Len(Tail(batches)) \in Nat
      /\ batches[1] = Head(batches)
      /\ Tail(batches) \in Seq(SUBSET Int)
    BY <1>2, <1>3
<1>9. \A b \in BlocksIn(batches) : GroupOf(b) = base
    BY <1>3, <1>4, <1>5
<1> QED
    BY <1>3, <1>6, <1>7, <1>8, <1>9

\* Putting such parts together.
LEMMA BatchesJoin ==
    ASSUME NEW base, NEW first, NEW rest, BatchFits(first, base), Packed(rest, base),
           first \cap BlocksIn(rest) = {}
    PROVE  /\ BatchesFit(<<first>> \o rest, base)
           /\ <<first>> \o rest \in Seq(SUBSET Int)
           /\ Len(<<first>> \o rest) = Len(rest) + 1 /\ Len(rest) \in Nat
           /\ Head(<<first>> \o rest) = first
           /\ (<<first>> \o rest)[1] = first
           /\ BlocksIn(<<first>> \o rest) = first \cup BlocksIn(rest)
<1>1. first \in SUBSET Int /\ rest \in Seq(SUBSET Int) /\ Len(rest) \in Nat
    BY DEF BatchFits, Packed
<1>2. BatchesFit(<<first>> \o rest, base)
    BY DEF BatchesFit
<1> QED
    BY <1>1, <1>2, FirstAndRest

-----------------------------------------------------------------------------
(* The operations on the batches of a group.                               *)

Batches == [batches : Seq(SUBSET Int), used : Int]

\* The batches of r are those of a group, with the given blocks, and the BatchClass blocks
\* in use are excess more than them.
Holds(r, base, blocks, excess) ==
    /\ r \in Batches
    /\ BatchesFit(r.batches, base)
    /\ BlocksIn(r.batches) = blocks
    /\ r.used = excess + Len(r.batches)

\* The size of a batch with another block (InsertBlocks).
LEMMA BatchGrows ==
    ASSUME NEW base, NEW first, BatchFits(first, base), ~ Full(first),
           NEW b \in Int, GroupOf(b) = base, b \notin first
    PROVE  BatchFits(first \cup {b}, base)
<1>1. /\ IsFiniteSet(first) /\ Cardinality(first) \in Nat
      /\ Cardinality(first) <= MaxNumCached /\ Cardinality(first) # MaxNumCached
    BY FS_CardinalityType DEF BatchFits, Full
<1>2. IsFiniteSet(first \cup {b}) /\ Cardinality(first \cup {b}) = Cardinality(first) + 1
    BY <1>1, FS_AddElement
<1> QED
    BY <1>1, <1>2, MaxNumCachedPositive DEF BatchFits

\* A batch without some of its blocks (popBlocksImpl).
LEMMA BatchShrinks ==
    ASSUME NEW base, NEW first, BatchFits(first, base), NEW part \in SUBSET first
    PROVE  /\ BatchFits(part, base)
           /\ Full(first) /\ Full(part) => part = first
<1>1. /\ IsFiniteSet(first) /\ Cardinality(first) \in Nat /\ Cardinality(first) <= MaxNumCached
    BY FS_CardinalityType DEF BatchFits
<1>2. /\ IsFiniteSet(part) /\ Cardinality(part) \in Nat
      /\ Cardinality(part) <= Cardinality(first)
      /\ Cardinality(part) = Cardinality(first) => part = first
    BY <1>1, FS_Subset, FS_CardinalityType
<1> QED
    BY <1>1, <1>2, MaxNumCachedPositive DEF BatchFits, Full

\* A batch of one block.
LEMMA BatchOfOne ==
    ASSUME NEW base, NEW b \in Int, GroupOf(b) = base
    PROVE  BatchFits({b}, base)
BY FS_Singleton, MaxNumCachedPositive DEF BatchFits


\* The first batch of a list is replaced.
LEMMA NewFirst ==
    ASSUME NEW batches \in Seq(SUBSET Int), Len(batches) >= 1, NEW first \in SUBSET Int
    PROVE  [batches EXCEPT ![1] = first] = <<first>> \o Tail(batches)
<1>1. PICK s : s = [batches EXCEPT ![1] = first]
    OBVIOUS
<1>2. PICK t : t = <<first>> \o Tail(batches)
    OBVIOUS
<1>3. /\ s \in Seq(SUBSET Int) /\ Len(s) = Len(batches) /\ s[1] = first
      /\ \A i \in 1 .. Len(batches) : i # 1 => s[i] = batches[i]
    BY <1>1
<1>4. /\ t \in Seq(SUBSET Int) /\ Len(t) = Len(batches) /\ t[1] = first
      /\ \A i \in 1 .. Len(batches) : i # 1 => t[i] = batches[i]
    BY <1>2
<1>5. \A i \in 1 .. Len(s) : s[i] = t[i]
    BY <1>3, <1>4
<1>6. s = t
    BY <1>3, <1>4, <1>5, SeqEqual
<1> QED
    BY <1>1, <1>2, <1>6

\* A block goes to the first batch or, when that is full, to a new one (InsertBlocks).
LEMMA InsertOne ==
    ASSUME NEW base, NEW blocks, NEW excess \in Int, NEW acc, Holds(acc, base, blocks, excess),
           NEW b \in Int, GroupOf(b) = base, b \notin blocks
    PROVE  /\ Holds(InsertBlock(b, acc), base, blocks \cup {b}, excess)
           /\ InsertBlock(b, acc).batches[1] # {}
<1>1. PICK bs : bs = acc.batches
    OBVIOUS
<1>2. PICK first, rest : first = Head(bs) /\ rest = Tail(bs)
    OBVIOUS
<1>3. PICK r : r = InsertBlock(b, acc)
    OBVIOUS
<1>4. acc \in Batches /\ BatchesFit(bs, base) /\ acc.used = excess + Len(bs)
    BY <1>1 DEF Holds
<1>5. /\ bs \in Seq(SUBSET Int) /\ Len(bs) \in Nat /\ Len(bs) >= 1
      /\ bs[1] = first /\ Len(rest) = Len(bs) - 1
      /\ BatchFits(first, base) /\ Packed(rest, base) /\ first \cap BlocksIn(rest) = {}
      /\ BlocksIn(bs) = first \cup BlocksIn(rest)
    BY <1>2, <1>4, BatchesSplit
<1>6. BlocksIn(bs) = blocks
    BY <1>1 DEF Holds
<1>7. CASE Full(first)
  <2>1. r = [batches |-> <<{b}>> \o bs, used |-> acc.used + 1]
      BY <1>1, <1>2, <1>3, <1>7 DEF InsertBlock
  <2>2. {b} \cap BlocksIn(bs) = {}
      BY <1>6
  <2>3. BatchFits({b}, base) /\ Packed(bs, base)
      BY <1>2, <1>4, <1>7, BatchOfOne, AllPacked
  <2>4. PICK new : new = <<{b}>> \o bs
      OBVIOUS
  <2>5. /\ BatchesFit(new, base)
        /\ new \in Seq(SUBSET Int)
        /\ Len(new) = Len(bs) + 1
        /\ new[1] = {b}
        /\ BlocksIn(new) = {b} \cup BlocksIn(bs)
      BY <2>2, <2>3, <2>4, BatchesJoin
  <2>6. r.batches = new /\ r.used = acc.used + 1 /\ acc.used \in Int /\ r \in Batches
      BY <1>4, <2>1, <2>4, <2>5 DEF Batches
  <2>7. r.used = excess + Len(r.batches)
      BY <1>4, <1>5, <2>5, <2>6
  <2>8. BlocksIn(r.batches) = blocks \cup {b} /\ r.batches[1] # {}
      BY <1>6, <2>5, <2>6
  <2> QED
      BY <1>3, <2>5, <2>6, <2>7, <2>8 DEF Holds
<1>8. CASE ~ Full(first)
  <2>1. r = [acc EXCEPT !.batches[1] = @ \cup {b}]
      BY <1>1, <1>2, <1>3, <1>8 DEF InsertBlock
  <2>2. PICK more \in SUBSET Int : more = first \cup {b}
    <3>1. first \cup {b} \in SUBSET Int
        BY <1>5 DEF BatchFits
    <3> QED
        BY <3>1
  <2>3. PICK new : new = <<more>> \o rest
      OBVIOUS
  <2>4. [bs EXCEPT ![1] = first \cup {b}] = new
      BY <1>2, <1>5, <2>2, <2>3, NewFirst
  <2>5. r = [acc EXCEPT !.batches = new]
      BY <1>1, <1>4, <1>5, <2>1, <2>4 DEF Batches
  <2>6. b \notin first /\ b \notin BlocksIn(rest)
      BY <1>5, <1>6
  <2>7. BatchFits(more, base)
      BY <1>5, <1>8, <2>2, <2>6, BatchGrows
  <2>8. more \cap BlocksIn(rest) = {}
      BY <1>5, <2>2, <2>6
  <2>9. /\ BatchesFit(new, base)
        /\ new \in Seq(SUBSET Int)
        /\ Len(new) = Len(rest) + 1
        /\ new[1] = more
        /\ BlocksIn(new) = more \cup BlocksIn(rest)
      BY <1>5, <2>3, <2>7, <2>8, BatchesJoin
  <2>10. r.batches = new /\ r.used = acc.used /\ r \in Batches
      BY <1>4, <2>5, <2>9 DEF Batches
  <2>11. r.used = excess + Len(r.batches)
      BY <1>4, <1>5, <2>9, <2>10
  <2>12. BlocksIn(r.batches) = blocks \cup {b} /\ r.batches[1] # {}
      BY <1>5, <1>6, <2>2, <2>9, <2>10
  <2> QED
      BY <1>3, <2>9, <2>10, <2>11, <2>12 DEF Holds
<1> QED
    BY <1>7, <1>8

\* Full batches alone are those of a group, too.
LEMMA PackedFits ==
    ASSUME NEW base, NEW batches, Packed(batches, base), Len(batches) >= 1
    PROVE  BatchesFit(batches, base) /\ batches[1] # {}
<1>1. batches \in Seq(SUBSET Int) /\ Len(batches) \in Nat /\ 1 \in 1 .. Len(batches)
    BY DEF Packed
<1>2. PICK first \in SUBSET Int : first = batches[1]
    BY <1>1
<1>3. PICK rest : rest = Tail(batches)
    OBVIOUS
<1>4. /\ rest \in Seq(SUBSET Int) /\ Len(rest) = Len(batches) - 1 /\ Len(rest) \in Nat
      /\ \A i \in 1 .. Len(rest) : rest[i] = batches[i + 1] /\ i + 1 \in 1 .. Len(batches)
    BY <1>1, <1>3
<1>5. BatchFits(first, base) /\ Full(first)
    BY <1>1, <1>2 DEF Packed
<1>6. \A i \in 1 .. Len(rest) : BatchFits(rest[i], base) /\ Full(rest[i])
    BY <1>4 DEF Packed
<1>7. ASSUME NEW i \in 1 .. Len(rest), NEW j \in 1 .. Len(rest), i # j
      PROVE  rest[i] \cap rest[j] = {}
  <2>1. i + 1 # j + 1
      BY <1>4, <1>7
  <2> QED
      BY <1>4, <2>1 DEF Packed
<1>8. Packed(rest, base)
    BY <1>4, <1>6, <1>7 DEF Packed
<1>9. \A i \in 1 .. Len(rest) : first \cap rest[i] = {}
  <2> SUFFICES ASSUME NEW i \in 1 .. Len(rest) PROVE first \cap rest[i] = {}
      OBVIOUS
  <2>1. i + 1 # 1 /\ i + 1 \in 1 .. Len(batches) /\ rest[i] = batches[i + 1]
      BY <1>4
  <2> QED
      BY <1>1, <1>2, <2>1 DEF Packed
<1>10. first \cap BlocksIn(rest) = {}
    BY <1>9 DEF BlocksIn
<1>11. batches = <<first>> \o rest
  <2>1. PICK t : t = <<first>> \o rest
      OBVIOUS
  <2>2. t \in Seq(SUBSET Int) /\ Len(t) = Len(batches) /\ t[1] = batches[1]
      BY <1>2, <1>4, <2>1
  <2>3. \A i \in 1 .. Len(batches) : i # 1 => t[i] = batches[i]
    <3> SUFFICES ASSUME NEW i \in 1 .. Len(batches), i # 1 PROVE t[i] = batches[i]
        OBVIOUS
    <3>1. t[i] = rest[i - 1] /\ i - 1 \in 1 .. Len(rest) /\ (i - 1) + 1 = i
        BY <1>1, <1>4, <2>1
    <3> QED
        BY <1>4, <3>1
  <2>4. \A i \in 1 .. Len(t) : t[i] = batches[i]
      BY <2>2, <2>3
  <2> QED
      BY <1>1, <2>1, <2>2, <2>4, SeqEqual
<1>12. first # {}
    BY <1>5, FS_EmptySet, MaxNumCachedPositive DEF Full
<1> QED
    BY <1>2, <1>5, <1>8, <1>10, <1>11, <1>12 DEF BatchesFit

\* The records of a fold over the blocks to insert: what is left of InsertBlocks when its
\* definition is expanded.
LEMMA InsertBlocksFold ==
    ASSUME NEW batches, NEW blocks, NEW used
    PROVE  InsertBlocks(batches, blocks, used) =
             (CHOOSE f : f = [s \in SUBSET blocks |->
                IF s = {} THEN [batches |-> batches, used |-> used]
                ELSE InsertBlock(CHOOSE b \in s : TRUE, f[s \ {CHOOSE b \in s : TRUE}])])[blocks]
BY DEF InsertBlocks, FoldSet, MapThenFoldSet

\* Inserting blocks of a group loses none, duplicates none and takes a record per new batch
\* (InsertBlocks).
LEMMA InsertAll ==
    ASSUME NEW base, NEW batches, BatchesFit(batches, base), NEW used \in Int,
           NEW blocks \in SUBSET Int, IsFiniteSet(blocks),
           \A b \in blocks : GroupOf(b) = base,
           blocks \cap BlocksIn(batches) = {}
    PROVE  LET r == InsertBlocks(batches, blocks, used)
           IN  /\ Holds(r, base, BlocksIn(batches) \cup blocks, used - Len(batches))
               /\ batches[1] # {} \/ blocks # {} => r.batches[1] # {}
<1>1. PICK excess \in Int : excess = used - Len(batches)
  <2>1. used - Len(batches) \in Int
      BY BatchesSplit
  <2> QED
      BY <2>1
<1>2. PICK old : old = BlocksIn(batches)
    OBVIOUS
<1>3. PICK start : start = [batches |-> batches, used |-> used]
    OBVIOUS
<1> DEFINE ch      == [s \in SUBSET blocks |-> CHOOSE b \in s : TRUE]
           Right(s, v) == /\ Holds(v, base, old \cup s, excess)
                          /\ batches[1] # {} \/ s # {} => v.batches[1] # {}
           D       == [s \in SUBSET blocks |-> {v \in Batches : Right(s, v)}]
           h       == [p \in blocks \X Batches |-> InsertBlock(p[1], p[2])]
           Eq(f)   == f = [s \in SUBSET blocks |->
                             IF s = {} THEN start
                             ELSE InsertBlock(CHOOSE b \in s : TRUE,
                                              f[s \ {CHOOSE b \in s : TRUE}])]
<1>4. \A s \in SUBSET blocks : s # {} => ch[s] = (CHOOSE b \in s : TRUE) /\ ch[s] \in s
    OBVIOUS
<1>5. \A s \in SUBSET blocks : \A v : v \in D[s] <=> v \in Batches /\ Right(s, v)
    OBVIOUS
<1>6. \A b \in blocks, v \in Batches : h[<<b, v>>] = InsertBlock(b, v)
    OBVIOUS
<1>7. start \in D[{}]
  <2>1. batches \in Seq(SUBSET Int) /\ Len(batches) \in Nat
      BY BatchesSplit
  <2>2. start \in Batches /\ start.batches = batches /\ start.used = excess + Len(batches)
      BY <1>1, <1>3, <2>1 DEF Batches
  <2>3. Right({}, start)
      BY <1>2, <2>2 DEF Holds
  <2> HIDE DEF D, Right
  <2> QED
      BY <1>5, <2>2, <2>3
<1>8. ASSUME NEW s \in SUBSET blocks, s # {}, NEW v \in D[s \ {ch[s]}]
      PROVE  InsertBlock(ch[s], v) \in D[s]
  <2>1. PICK b \in blocks : b = ch[s] /\ b \in s
      BY <1>4, <1>8
  <2>2. PICK less \in SUBSET blocks : less = s \ {b}
      OBVIOUS
  <2>3. Right(less, v)
      BY <1>5, <1>8, <2>1, <2>2
  <2>4. GroupOf(b) = base /\ b \notin old \cup less /\ b \in Int
      BY <1>2, <2>1, <2>2
  <2>5. PICK r : r = InsertBlock(b, v)
      OBVIOUS
  <2>6. Holds(r, base, (old \cup less) \cup {b}, excess) /\ r.batches[1] # {}
      BY <2>3, <2>4, <2>5, InsertOne
  <2>7. (old \cup less) \cup {b} = old \cup s
      BY <2>1, <2>2
  <2>8. Right(s, r) /\ r \in Batches
      BY <2>6, <2>7 DEF Holds
  <2> HIDE DEF D, Right, ch
  <2> QED
      BY <1>5, <2>1, <2>5, <2>8
<1>9. \A s \in SUBSET blocks : D[s] \in SUBSET Batches
    OBVIOUS
<1> HIDE DEF ch, D, h, Right
<1>10. \E f : Eq(f)
  <2>1. ASSUME NEW s \in SUBSET blocks, s # {}
        PROVE  ch[s] \in s /\ \A v \in D[s \ {ch[s]}] : h[<<ch[s], v>>] \in D[s]
    <3>1. ch[s] \in blocks /\ s \ {ch[s]} \in SUBSET blocks /\ ch[s] \in s
        BY <1>4, <2>1
    <3>2. ASSUME NEW v \in D[s \ {ch[s]}]
          PROVE  h[<<ch[s], v>>] \in D[s]
      <4>1. v \in Batches
          BY <1>9, <3>1
      <4>2. h[<<ch[s], v>>] = InsertBlock(ch[s], v)
          BY <1>6, <3>1, <4>1
      <4> QED
          BY <1>8, <2>1, <4>2
    <3> QED
        BY <3>1, <3>2
  <2>2. PICK f : IsFold(f, blocks, ch, start, h) /\ \A s \in SUBSET blocks : f[s] \in D[s]
      BY <1>7, <2>1, FoldWithin
  <2>3. ASSUME NEW s \in SUBSET blocks, s # {}
        PROVE  h[<<ch[s], f[s \ {ch[s]}]>>] =
                 InsertBlock(CHOOSE b \in s : TRUE, f[s \ {CHOOSE b \in s : TRUE}])
    <3>1. ch[s] \in blocks /\ s \ {ch[s]} \in SUBSET blocks
        BY <1>4, <2>3
    <3>2. f[s \ {ch[s]}] \in Batches
        BY <1>9, <2>2, <3>1
    <3>3. h[<<ch[s], f[s \ {ch[s]}]>>] = InsertBlock(ch[s], f[s \ {ch[s]}])
        BY <1>6, <3>1, <3>2
    <3> QED
        BY <1>4, <2>3, <3>3
  <2>4. Eq(f)
      BY <2>2, <2>3 DEF IsFold
  <2> QED
      BY <2>4
<1>11. PICK f : f = (CHOOSE g : Eq(g))
    OBVIOUS
<1>12. Eq(f)
  <2> HIDE DEF Eq
  <2> QED
      BY <1>10, <1>11
<1>13. f[{}] = start
    BY <1>12
<1>14. \A s \in SUBSET blocks : s # {} => f[s] = InsertBlock(ch[s], f[s \ {ch[s]}])
    BY <1>4, <1>12
<1>15. f[blocks] = InsertBlocks(batches, blocks, used)
    BY <1>3, <1>11, InsertBlocksFold
<1> HIDE DEF Eq
<1>16. \A s \in SUBSET blocks : f[s] \in D[s]
  <2>1. ASSUME NEW s \in SUBSET blocks, s # {}
        PROVE  ch[s] \in s /\ (f[s \ {ch[s]}] \in D[s \ {ch[s]}] => f[s] \in D[s])
    <3>1. ASSUME f[s \ {ch[s]}] \in D[s \ {ch[s]}]
          PROVE  InsertBlock(ch[s], f[s \ {ch[s]}]) \in D[s]
        BY <1>8, <2>1, <3>1
    <3> QED
        BY <1>4, <1>14, <2>1, <3>1
  <2>2. f[{}] \in D[{}]
      BY <1>7, <1>13
  <2> QED
      BY <2>1, <2>2, SubsetInduction
<1>17. Right(blocks, f[blocks])
    BY <1>5, <1>16
<1> QED
    BY <1>1, <1>2, <1>15, <1>17 DEF Right

\* Two batches in front of the others (mergeGroupsToReleaseBack, when one of them has room).
LEMMA TwoInFront ==
    ASSUME NEW a \in SUBSET Int, NEW b \in SUBSET Int, NEW rest \in Seq(SUBSET Int)
    PROVE  <<a, b>> \o rest = <<a>> \o (<<b>> \o rest)
<1>1. <<a, b>> = <<a>> \o <<b>>
  <2>1. PICK s, t : s = <<a, b>> /\ t = <<a>> \o <<b>>
      OBVIOUS
  <2>2. s \in Seq(SUBSET Int) /\ Len(s) = 2 /\ s[1] = a /\ s[2] = b
      BY <2>1
  <2>3. t \in Seq(SUBSET Int) /\ Len(t) = 2 /\ t[1] = a /\ t[2] = b
    <3>1. <<a>> \in Seq(SUBSET Int) /\ <<b>> \in Seq(SUBSET Int)
        OBVIOUS
    <3> QED
        BY <2>1, <3>1, ConcatProperties
  <2>4. \A i \in 1 .. Len(s) : s[i] = t[i]
      BY <2>2, <2>3
  <2>5. s = t
      BY <2>2, <2>3, <2>4, SeqEqual
  <2> QED
      BY <2>1, <2>5
<1>2. <<a>> \in Seq(SUBSET Int) /\ <<b>> \in Seq(SUBSET Int)
    OBVIOUS
<1> QED
    BY <1>1, <1>2, ConcatAssociative

\* The batches of a group that a release had borrowed go back to the group that was created
\* meanwhile (mergeGroupsToReleaseBack).
LEMMA MergeBoth ==
    ASSUME NEW base, NEW bg, NEW cur, BatchesFit(bg, base), BatchesFit(cur, base),
           bg[1] # {}, cur[1] # {}, BlocksIn(bg) \cap BlocksIn(cur) = {}, NEW used \in Int
    PROVE  LET r == MergeBatches(bg, cur, used)
           IN  /\ Holds(r, base, BlocksIn(bg) \cup BlocksIn(cur), used - Len(bg) - Len(cur))
               /\ r.batches[1] # {}
<1>1. PICK front, bt : front = Head(bg) /\ bt = Tail(bg)
    OBVIOUS
<1>2. PICK nonFull, ct : nonFull = Head(cur) /\ ct = Tail(cur)
    OBVIOUS
<1>3. PICK rest : rest = bt \o ct
    OBVIOUS
<1>4. PICK room : room = MaxNumCached - Cardinality(front)
    OBVIOUS
<1>5. PICK moved : moved = CHOOSE m \in kSubset(Min({room, Cardinality(nonFull)}), nonFull) : TRUE
    OBVIOUS
<1>6. PICK left : left = nonFull \ moved
    OBVIOUS
<1>7. PICK r : r = MergeBatches(bg, cur, used)
    OBVIOUS
<1>8. r = CASE Full(nonFull)               -> [batches |-> bg \o cur, used |-> used]
            [] ~Full(nonFull) /\ room = 0  ->
                 [batches |-> <<nonFull, front>> \o rest, used |-> used]
            [] ~Full(nonFull) /\ room > 0 /\ left # {} ->
                 [batches |-> <<left, front \cup moved>> \o rest, used |-> used]
            [] OTHER ->
                 [batches |-> <<front \cup moved>> \o rest, used |-> used - 1]
    BY <1>1, <1>2, <1>3, <1>4, <1>5, <1>6, <1>7 DEF MergeBatches
<1>9. /\ bg \in Seq(SUBSET Int) /\ Len(bg) \in Nat /\ Len(bt) = Len(bg) - 1 /\ Len(bt) \in Nat
      /\ bg = <<front>> \o bt /\ bt \in Seq(SUBSET Int) /\ front # {}
      /\ BatchFits(front, base) /\ Packed(bt, base) /\ front \cap BlocksIn(bt) = {}
      /\ BlocksIn(bg) = front \cup BlocksIn(bt)
    BY <1>1, BatchesSplit
<1>10. /\ cur \in Seq(SUBSET Int) /\ Len(cur) \in Nat /\ Len(ct) = Len(cur) - 1 /\ Len(ct) \in Nat
       /\ ct \in Seq(SUBSET Int) /\ nonFull # {}
       /\ BatchFits(nonFull, base) /\ Packed(ct, base) /\ nonFull \cap BlocksIn(ct) = {}
       /\ BlocksIn(cur) = nonFull \cup BlocksIn(ct)
  <2>1. /\ cur \in Seq(SUBSET Int) /\ Len(cur) \in Nat /\ Len(ct) = Len(cur) - 1
        /\ Len(ct) \in Nat /\ ct \in Seq(SUBSET Int) /\ nonFull = cur[1]
      BY <1>2, BatchesSplit
  <2>2. /\ BatchFits(nonFull, base) /\ Packed(ct, base) /\ nonFull \cap BlocksIn(ct) = {}
        /\ BlocksIn(cur) = nonFull \cup BlocksIn(ct)
      BY <1>2, BatchesSplit
  <2> QED
      BY <2>1, <2>2
<1>11. /\ Packed(rest, base) /\ Len(rest) = Len(bt) + Len(ct) /\ rest \in Seq(SUBSET Int)
       /\ BlocksIn(rest) = BlocksIn(bt) \cup BlocksIn(ct)
  <2>1. BlocksIn(bt) \cap BlocksIn(ct) = {}
      BY <1>9, <1>10
  <2>2. Packed(bt, base) /\ Packed(ct, base)
      BY <1>9, <1>10
  <2>3. Packed(rest, base) /\ Len(rest) = Len(bt) + Len(ct)
      BY <1>3, <2>1, <2>2, PackBoth
  <2>4. BlocksIn(rest) = BlocksIn(bt) \cup BlocksIn(ct)
      BY <1>3, <1>9, <1>10, BlocksOfBoth
  <2> QED
      BY <2>3, <2>4 DEF Packed
<1>12. /\ IsFiniteSet(front) /\ Cardinality(front) \in Nat /\ front \in SUBSET Int
       /\ IsFiniteSet(nonFull) /\ Cardinality(nonFull) \in Nat /\ nonFull \in SUBSET Int
       /\ room \in Nat
    BY <1>4, <1>9, <1>10, FS_CardinalityType, MaxNumCachedPositive DEF BatchFits
<1>13. /\ moved \in SUBSET nonFull /\ IsFiniteSet(moved) /\ Cardinality(moved) \in Nat
       /\ Cardinality(moved) <= room /\ Cardinality(moved) <= Cardinality(nonFull)
       /\ Cardinality(moved) = room \/ Cardinality(moved) = Cardinality(nonFull)
  <2>1. PICK k : k = Min({room, Cardinality(nonFull)})
      OBVIOUS
  <2>2. /\ k \in Nat /\ k <= room /\ k <= Cardinality(nonFull)
        /\ k = room \/ k = Cardinality(nonFull)
    <3>1. PICK T \in SUBSET Nat : T = {room, Cardinality(nonFull)}
      <4>1. {room, Cardinality(nonFull)} \in SUBSET Nat
          BY <1>12
      <4> QED
          BY <4>1
    <3>2. k \in T /\ \A y \in T : k <= y
        BY <2>1, <3>1, MinOf
    <3> QED
        BY <3>1, <3>2
  <2>3. kSubset(k, nonFull) # {}
      BY <1>12, <2>2, SubsetOfSize
  <2>4. moved \in kSubset(k, nonFull)
      BY <1>5, <2>1, <2>3
  <2>5. moved \in SUBSET nonFull /\ Cardinality(moved) = k
      BY <2>4 DEF kSubset
  <2> QED
      BY <1>12, <2>2, <2>5, PartSizes
<1>14. PICK filled \in SUBSET Int : filled = front \cup moved
  <2>1. front \cup moved \in SUBSET Int
      BY <1>12, <1>13
  <2> QED
      BY <2>1
<1>15. BatchFits(filled, base) /\ Cardinality(filled) = Cardinality(front) + Cardinality(moved)
  <2>1. front \cap moved = {}
      BY <1>9, <1>10, <1>13
  <2>2. Cardinality(front \cap moved) = 0
      BY <2>1, FS_EmptySet
  <2>3. /\ IsFiniteSet(front \cup moved)
        /\ Cardinality(front \cup moved)
             = Cardinality(front) + Cardinality(moved) - Cardinality(front \cap moved)
      BY <1>12, <1>13, FS_Union
  <2>4. \A b \in filled : GroupOf(b) = base
      BY <1>9, <1>10, <1>13, <1>14 DEF BatchFits
  <2>5. /\ IsFiniteSet(filled)
        /\ Cardinality(filled) = Cardinality(front) + Cardinality(moved)
      BY <1>12, <1>13, <1>14, <2>2, <2>3
  <2>6. Cardinality(filled) <= MaxNumCached
      BY <1>4, <1>12, <1>13, <2>5, MaxNumCachedPositive
  <2> QED
      BY <2>4, <2>5, <2>6 DEF BatchFits
<1>16. BatchFits(left, base) /\ left \in SUBSET Int
    BY <1>6, <1>10, <1>12, BatchShrinks
<1>17. /\ \A m \in Int : m = Len(bt) + Len(cur) => used - m - 1 = used - Len(bg) - Len(cur)
       /\ \A m \in Int : m = Len(rest) + 1 => used - m - 1 = used - Len(bg) - Len(cur)
       /\ (used - 1) - Len(rest) - 1 = used - Len(bg) - Len(cur)
       /\ Len(rest) \in Nat
  <2>1. /\ Len(bg) \in Int /\ Len(cur) \in Int /\ Len(bt) \in Nat /\ Len(ct) \in Nat
        /\ Len(bt) = Len(bg) - 1 /\ Len(ct) = Len(cur) - 1
      BY <1>9, <1>10
  <2>2. Len(rest) = Len(bt) + Len(ct)
      BY <1>11
  <2> QED
      BY <2>1, <2>2
<1>18. ASSUME NEW first \in SUBSET Int, NEW behind, NEW u \in Int,
              BatchFits(first, base), Packed(behind, base), first # {},
              first \cap BlocksIn(behind) = {},
              first \cup BlocksIn(behind) = BlocksIn(bg) \cup BlocksIn(cur),
              r = [batches |-> <<first>> \o behind, used |-> u],
              u - Len(behind) - 1 = used - Len(bg) - Len(cur)
       PROVE  /\ Holds(r, base, BlocksIn(bg) \cup BlocksIn(cur), used - Len(bg) - Len(cur))
              /\ r.batches[1] # {}
  <2>1. PICK bs : bs = <<first>> \o behind
      OBVIOUS
  <2>2. /\ BatchesFit(bs, base) /\ bs \in Seq(SUBSET Int) /\ Len(bs) = Len(behind) + 1
        /\ Len(behind) \in Nat /\ bs[1] = first
        /\ BlocksIn(bs) = first \cup BlocksIn(behind)
      BY <1>18, <2>1, BatchesJoin
  <2>3. r.batches = bs /\ r.used = u /\ r \in Batches
      BY <1>18, <2>1, <2>2 DEF Batches
  <2>4. r.used = used - Len(bg) - Len(cur) + Len(r.batches)
      BY <1>9, <1>10, <1>18, <2>2, <2>3
  <2> QED
      BY <1>18, <2>2, <2>3, <2>4 DEF Holds
<1>19. CASE Full(nonFull)
  <2>1. r = [batches |-> bg \o cur, used |-> used]
      BY <1>8, <1>19
  <2>2. Packed(cur, base)
      BY <1>2, <1>19, AllPacked
  <2>3. PICK behind : behind = bt \o cur
      OBVIOUS
  <2>4. Packed(bt, base) /\ BlocksIn(bt) \cap BlocksIn(cur) = {}
      BY <1>9
  <2>5. /\ Packed(behind, base) /\ Len(behind) = Len(bt) + Len(cur)
        /\ BlocksIn(behind) = BlocksIn(bt) \cup BlocksIn(cur)
    <3>1. Packed(behind, base) /\ Len(behind) = Len(bt) + Len(cur)
        BY <2>2, <2>3, <2>4, PackBoth
    <3>2. BlocksIn(behind) = BlocksIn(bt) \cup BlocksIn(cur)
        BY <1>9, <1>10, <2>3, BlocksOfBoth
    <3> QED
        BY <3>1, <3>2
  <2>6. bg \o cur = <<front>> \o behind
    <3>1. <<front>> \in Seq(SUBSET Int)
        BY <1>12
    <3> QED
        BY <1>9, <1>10, <2>3, <3>1, ConcatAssociative
  <2>7. front \cap BlocksIn(behind) = {}
      BY <1>9, <2>5
  <2>8. front \cup BlocksIn(behind) = BlocksIn(bg) \cup BlocksIn(cur)
      BY <1>9, <2>5
  <2>9. used - Len(behind) - 1 = used - Len(bg) - Len(cur)
      BY <1>9, <1>10, <1>17, <2>5
  <2> QED
      BY <1>7, <1>9, <1>12, <1>18, <2>1, <2>5, <2>6, <2>7, <2>8, <2>9
<1>20. CASE ~Full(nonFull) /\ room = 0
  <2>1. r = [batches |-> <<nonFull, front>> \o rest, used |-> used]
      BY <1>8, <1>20
  <2>2. Full(front)
      BY <1>4, <1>12, <1>20, MaxNumCachedPositive DEF Full
  <2>3. PICK behind : behind = <<front>> \o rest
      OBVIOUS
  <2>4. front \cap BlocksIn(rest) = {}
      BY <1>9, <1>10, <1>11
  <2>5. /\ Packed(behind, base) /\ Len(behind) = Len(rest) + 1
        /\ BlocksIn(behind) = front \cup BlocksIn(rest)
      BY <1>9, <1>11, <1>12, <2>2, <2>3, <2>4, PackMore, FirstAndRest
  <2>6. <<nonFull, front>> \o rest = <<nonFull>> \o behind
      BY <1>11, <1>12, <2>3, TwoInFront
  <2>7. nonFull \cap BlocksIn(behind) = {}
      BY <1>9, <1>10, <1>11, <2>5
  <2>8. nonFull \cup BlocksIn(behind) = BlocksIn(bg) \cup BlocksIn(cur)
      BY <1>9, <1>10, <1>11, <2>5
  <2>9. used - Len(behind) - 1 = used - Len(bg) - Len(cur)
      BY <1>17, <2>5
  <2> QED
      BY <1>7, <1>10, <1>12, <1>18, <2>1, <2>5, <2>6, <2>7, <2>8, <2>9
<1>21. CASE ~Full(nonFull) /\ room > 0 /\ left # {}
  <2>1. r = [batches |-> <<left, filled>> \o rest, used |-> used]
      BY <1>8, <1>14, <1>21
  <2>2. Full(filled)
    <3>1. Cardinality(moved) # Cardinality(nonFull)
        BY <1>6, <1>12, <1>13, <1>21, FS_Subset
    <3> QED
        BY <1>4, <1>12, <1>13, <1>15, <3>1, MaxNumCachedPositive DEF Full
  <2>3. PICK behind : behind = <<filled>> \o rest
      OBVIOUS
  <2>4. filled \cap BlocksIn(rest) = {}
      BY <1>9, <1>10, <1>11, <1>13, <1>14
  <2>5. /\ Packed(behind, base) /\ Len(behind) = Len(rest) + 1
        /\ BlocksIn(behind) = filled \cup BlocksIn(rest)
      BY <1>11, <1>15, <2>2, <2>3, <2>4, PackMore, FirstAndRest
  <2>6. <<left, filled>> \o rest = <<left>> \o behind
      BY <1>11, <1>16, <2>3, TwoInFront
  <2>7. left \cap BlocksIn(behind) = {}
      BY <1>6, <1>9, <1>10, <1>11, <1>14, <2>5
  <2>8. left \cup BlocksIn(behind) = BlocksIn(bg) \cup BlocksIn(cur)
      BY <1>6, <1>9, <1>10, <1>11, <1>13, <1>14, <2>5
  <2>9. used - Len(behind) - 1 = used - Len(bg) - Len(cur)
      BY <1>17, <2>5
  <2> QED
      BY <1>7, <1>16, <1>18, <1>21, <2>1, <2>5, <2>6, <2>7, <2>8, <2>9
<1>22. CASE ~Full(nonFull) /\ room # 0 /\ left = {}
  <2>1. r = [batches |-> <<filled>> \o rest, used |-> used - 1]
      BY <1>8, <1>14, <1>22
  <2>2. filled \cap BlocksIn(rest) = {}
      BY <1>9, <1>10, <1>11, <1>13, <1>14
  <2>3. filled \cup BlocksIn(rest) = BlocksIn(bg) \cup BlocksIn(cur)
      BY <1>6, <1>9, <1>10, <1>11, <1>13, <1>14, <1>22
  <2>4. (used - 1) - Len(rest) - 1 = used - Len(bg) - Len(cur) /\ used - 1 \in Int
      BY <1>17
  <2>5. filled # {}
      BY <1>9, <1>14
  <2> QED
      BY <1>7, <1>11, <1>15, <1>18, <2>1, <2>2, <2>3, <2>4, <2>5
<1> QED
    BY <1>7, <1>12, <1>19, <1>20, <1>21, <1>22

-----------------------------------------------------------------------------
(* Lists of groups.                                                        *)

Groups == [base : Int, batches : Seq(SUBSET Int)]

GroupFits(g) == g \in Groups /\ BatchesFit(g.batches, g.base) /\ g.batches[1] # {}

\* The groups of a list, and the blocks of groups.
Elems(list) == {g \in Groups : \E i \in 1 .. Len(list) : list[i] = g}

BlocksAt(G) == {b \in Int : \E g \in G : b \in BlocksIn(g.batches)}

\* One number per record of the groups: that of the group, and of each of its batches.
Slots(G) == {p \in G \X Nat : p[2] <= Len(p[1].batches)}

\* The records of a list.
Records(list) == Cardinality(Slots(Elems(list)))

\* The groups of a list in order, each once.
InOrder(list) ==
    /\ list \in Seq(Groups)
    /\ \A i \in 1 .. Len(list) : GroupFits(list[i])
    /\ \A i, j \in 1 .. Len(list) : i < j => list[i].base < list[j].base

\* What the operations may rely on in a group: a batch at least, and blocks of the group
\* alone (popBlocksImpl reads the first batch unasked).
LEMMA GroupBatches ==
    ASSUME NEW g, GroupFits(g)
    PROVE  /\ g \in Groups /\ g.base \in Int /\ g.batches \in Seq(SUBSET Int)
           /\ Len(g.batches) \in Nat /\ Len(g.batches) >= 1
           /\ BatchesFit(g.batches, g.base)
           /\ \A b \in BlocksIn(g.batches) : GroupOf(b) = g.base
BY BatchesSplit DEF GroupFits, Groups

\* The records of one group more (CreateGroup, popBlocksImpl, mergeGroupsToReleaseBack).
LEMMA RecordsOfOne ==
    ASSUME NEW g \in Groups
    PROVE  /\ IsFiniteSet(Slots({g}))
           /\ Cardinality(Slots({g})) = Len(g.batches) + 1
<1>1. Len(g.batches) \in Nat
    BY DEF Groups
<1>2. PICK n \in Nat : n = Len(g.batches)
    BY <1>1
<1>3. PICK P : P = {g} \X (0 .. n)
    OBVIOUS
<1>7. Slots({g}) = P
  <2>1. \A p : p \in P <=> p \in {g} \X Nat /\ p[2] <= Len(p[1].batches)
      BY <1>2, <1>3
  <2> QED
      BY <2>1 DEF Slots
<1>4. IsFiniteSet(0 .. n) /\ Cardinality(0 .. n) = n + 1
    BY FS_Interval
<1>5. IsFiniteSet({g}) /\ Cardinality({g}) = 1
    BY FS_Singleton
<1>6. IsFiniteSet(P) /\ Cardinality(P) = n + 1
  <2>1. IsFiniteSet(P) /\ Cardinality(P) = Cardinality({g}) * Cardinality(0 .. n)
      BY <1>3, <1>4, <1>5, FS_Product
  <2> QED
      BY <1>4, <1>5, <2>1
<1> QED
    BY <1>2, <1>6, <1>7

\* A group more: its record and those of its batches (CreateGroup).
LEMMA RecordsOfMore ==
    ASSUME NEW G \in SUBSET Groups, IsFiniteSet(Slots(G)), NEW g \in Groups, g \notin G
    PROVE  /\ IsFiniteSet(Slots(G \cup {g}))
           /\ Cardinality(Slots(G)) \in Nat
           /\ Cardinality(Slots(G \cup {g})) = Cardinality(Slots(G)) + Len(g.batches) + 1
<1>1. IsFiniteSet(Slots({g})) /\ Cardinality(Slots({g})) = Len(g.batches) + 1
    BY RecordsOfOne
<1>2. PICK old, new : old = Slots(G) /\ new = Slots({g})
    OBVIOUS
<1>3. Slots(G \cup {g}) = old \cup new
    BY <1>2 DEF Slots
<1>4. old \cap new = {}
    BY <1>2 DEF Slots
<1>5. /\ IsFiniteSet(old \cup new)
      /\ Cardinality(old \cup new)
           = Cardinality(old) + Cardinality(new) - Cardinality(old \cap new)
    BY <1>1, <1>2, FS_Union
<1>6. Cardinality(old) \in Nat /\ Len(g.batches) \in Nat /\ Cardinality(old \cap new) = 0
  <2>1. Cardinality(old) \in Nat
      BY <1>2, FS_CardinalityType
  <2>2. Len(g.batches) \in Nat
      BY DEF Groups
  <2>3. Cardinality(old \cap new) = 0
      BY <1>4, FS_EmptySet
  <2> QED
      BY <2>1, <2>2, <2>3
<1>7. Cardinality(old \cup new) = Cardinality(old) + Len(g.batches) + 1
    BY <1>1, <1>2, <1>5, <1>6
<1> QED
    BY <1>2, <1>3, <1>5, <1>6, <1>7

\* A group less.
LEMMA RecordsOfFewer ==
    ASSUME NEW G \in SUBSET Groups, IsFiniteSet(Slots(G)), NEW g \in G
    PROVE  /\ IsFiniteSet(Slots(G \ {g}))
           /\ Cardinality(Slots(G \ {g})) \in Nat
           /\ Cardinality(Slots(G \ {g})) = Cardinality(Slots(G)) - Len(g.batches) - 1
<1>1. PICK R \in SUBSET Groups : R = G \ {g}
    OBVIOUS
<1>2. g \in Groups /\ g \notin R /\ G = R \cup {g} /\ Len(g.batches) \in Nat
    BY <1>1 DEF Groups
<1>3. Slots(R) \in SUBSET Slots(G)
    BY <1>1 DEF Slots
<1>4. IsFiniteSet(Slots(R))
    BY <1>3, FS_Subset
<1>5. /\ Cardinality(Slots(R)) \in Nat
      /\ Cardinality(Slots(G)) = Cardinality(Slots(R)) + Len(g.batches) + 1
    BY <1>2, <1>4, RecordsOfMore
<1> QED
    BY <1>1, <1>2, <1>4, <1>5

\* The elements of a list are its entries.
LEMMA ElemsOf ==
    ASSUME NEW list \in Seq(Groups)
    PROVE  /\ Len(list) \in Nat
           /\ Elems(list) = ToSet(list)
           /\ \A i \in 1 .. Len(list) : list[i] \in Groups /\ list[i] \in Elems(list)
           /\ \A g \in Elems(list) : \E i \in 1 .. Len(list) : list[i] = g
<1>1. \A i \in 1 .. Len(list) : list[i] \in Groups
    OBVIOUS
<1>2. DOMAIN list = 1 .. Len(list)
    OBVIOUS
<1> QED
    BY <1>1, <1>2 DEF Elems, ToSet

\* What FoldLeft computes for the records of a list (the sum of RecordsAccounted).
LEMMA RecordsFold ==
    ASSUME NEW list
    PROVE  FoldLeft(LAMBDA n, g : n + RecordsOf(g), 0, list) =
             (CHOOSE f : f = [s \in SUBSET DOMAIN list |->
                IF s = {} THEN 0 ELSE f[s \ {Max(s)}] + RecordsOf(list[Max(s)])])[DOMAIN list]
BY DEF FoldLeft, MapThenFoldSet

\* Records counted group by group, as RecordsAccounted does, are those of the list.
LEMMA RecordsAddUp ==
    ASSUME NEW list \in Seq(Groups), \A i, j \in 1 .. Len(list) : i # j => list[i] # list[j]
    PROVE  /\ IsFiniteSet(Slots(Elems(list)))
           /\ FoldLeft(LAMBDA n, g : n + RecordsOf(g), 0, list) = Records(list)
<1>1. PICK n \in Nat : n = Len(list) /\ DOMAIN list = 1 .. n
    OBVIOUS
<1>2. PICK V : V = Groups \X Nat
    OBVIOUS
<1>3. PICK w \in [1 .. n -> SUBSET V] : \A i \in 1 .. n : w[i] = Slots({list[i]})
  <2>1. \A i \in 1 .. n : Slots({list[i]}) \in SUBSET V
      BY <1>1, <1>2 DEF Slots
  <2>2. [i \in 1 .. n |-> Slots({list[i]})] \in [1 .. n -> SUBSET V]
      BY <2>1
  <2> QED
      BY <2>2
<1>4. PICK c \in [1 .. n -> Nat] : \A i \in 1 .. n : c[i] = RecordsOf(list[i])
  <2>1. \A i \in 1 .. n : RecordsOf(list[i]) \in Nat
      BY <1>1 DEF RecordsOf, Groups
  <2>2. [i \in 1 .. n |-> RecordsOf(list[i])] \in [1 .. n -> Nat]
      BY <2>1
  <2> QED
      BY <2>2
<1>5. \A i \in 1 .. n : IsFiniteSet(w[i]) /\ Cardinality(w[i]) = c[i]
  <2> SUFFICES ASSUME NEW i \in 1 .. n PROVE IsFiniteSet(w[i]) /\ Cardinality(w[i]) = c[i]
      OBVIOUS
  <2>1. list[i] \in Groups
      BY <1>1
  <2>2. /\ IsFiniteSet(Slots({list[i]}))
        /\ Cardinality(Slots({list[i]})) = Len(list[i].batches) + 1
      BY <2>1, RecordsOfOne
  <2>3. Len(list[i].batches) \in Nat
      BY <2>1 DEF Groups
  <2> QED
      BY <1>3, <1>4, <2>2, <2>3 DEF RecordsOf
<1>6. \A i, j \in 1 .. n : i # j => w[i] \cap w[j] = {}
    BY <1>1, <1>3 DEF Slots
<1> DEFINE Eq(f) == f = [s \in SUBSET DOMAIN list |->
                           IF s = {} THEN 0 ELSE f[s \ {Max(s)}] + RecordsOf(list[Max(s)])]
<1>7. \E f : Eq(f)
  <2>1. PICK f : f = [s \in SUBSET (1 .. n) |-> IF s = {} THEN 0 ELSE f[s \ {Max(s)}] + c[Max(s)]]
      BY SumExists
  <2>2. \A s \in SUBSET (1 .. n) : s # {} => c[Max(s)] = RecordsOf(list[Max(s)])
      BY <1>4, MaxOf
  <2>3. Eq(f)
      BY <1>1, <2>1, <2>2
  <2> QED
      BY <2>3
<1>8. PICK f : f = (CHOOSE g : Eq(g))
    OBVIOUS
<1>9. Eq(f)
  <2> HIDE DEF Eq
  <2> QED
      BY <1>7, <1>8
<1>10. f[{}] = 0
    BY <1>1, <1>9
<1>11. ASSUME NEW s \in SUBSET (1 .. n), s # {}
       PROVE  f[s] = f[s \ {Max(s)}] + Cardinality(w[Max(s)])
  <2>1. f[s] = f[s \ {Max(s)}] + RecordsOf(list[Max(s)])
      BY <1>1, <1>9, <1>11
  <2>2. Max(s) \in 1 .. n
      BY <1>11, MaxOf
  <2> QED
      BY <1>4, <1>5, <2>1, <2>2
<1>12. f[1 .. n] = FoldLeft(LAMBDA m, g : m + RecordsOf(g), 0, list)
    BY <1>1, <1>8, RecordsFold
<1> HIDE DEF Eq
<1>13. PICK U : U = Covered(V, 1 .. n, w)
    OBVIOUS
<1>14. IsFiniteSet(U) /\ f[1 .. n] = Cardinality(U)
  <2>1. Apart(V, w, n)
      BY <1>5, <1>6 DEF Apart
  <2>2. AddsSizes(f, w, n)
      BY <1>10, <1>11 DEF AddsSizes
  <2>3. /\ IsFiniteSet(Covered(V, 1 .. n, w))
        /\ f[1 .. n] = Cardinality(Covered(V, 1 .. n, w))
      BY <2>1, <2>2, SumOfSizes
  <2> QED
      BY <1>13, <2>3
<1>15. U = Slots(Elems(list))
  <2>1. \A x : x \in U <=> x \in V /\ \E i \in 1 .. n : x \in Slots({list[i]})
      BY <1>3, <1>13 DEF Covered
  <2>2. \A x : x \in Slots(Elems(list)) <=> x \in V /\ \E i \in 1 .. n : x \in Slots({list[i]})
      BY <1>1, <1>2, ElemsOf DEF Slots
  <2> QED
      BY <2>1, <2>2
<1> QED
    BY <1>12, <1>14, <1>15 DEF Records

\* A list that is in order, with its types (BlockList of FreeListInfo).
LEMMA ListTyped ==
    ASSUME NEW list, InOrder(list)
    PROVE  /\ list \in Seq(Groups) /\ Len(list) \in Nat
           /\ \A i \in 1 .. Len(list) : list[i] \in Groups /\ list[i].base \in Int
           /\ \A i, j \in 1 .. Len(list) : i < j => list[i].base < list[j].base
<1>1. list \in Seq(Groups)
    BY DEF InOrder
<1>2. Len(list) \in Nat /\ \A i \in 1 .. Len(list) : list[i] \in Groups
    BY <1>1
<1>3. \A g \in Groups : g.base \in Int
    BY DEF Groups
<1> QED
    BY <1>1, <1>2, <1>3 DEF InOrder

\* A list in order has finitely many records (BatchClass blocks are finitely many).
LEMMA ListsFinite ==
    ASSUME NEW list, InOrder(list)
    PROVE  IsFiniteSet(Slots(Elems(list))) /\ Records(list) \in Nat
<1>1. list \in Seq(Groups) /\ \A i \in 1 .. Len(list) : list[i].base \in Int
    BY ListTyped
<1>2. \A i, j \in 1 .. Len(list) : i # j => list[i] # list[j]
  <2> SUFFICES ASSUME NEW i \in 1 .. Len(list), NEW j \in 1 .. Len(list), i < j
               PROVE  list[i] # list[j]
      BY <1>1
  <2> QED
      BY <1>1 DEF InOrder
<1>3. IsFiniteSet(Slots(Elems(list)))
    BY <1>1, <1>2, RecordsAddUp
<1> QED
    BY <1>3, FS_CardinalityType DEF Records

\* In a list in order, one group has a base, and it has the blocks of that base.
LEMMA OneGroupEach ==
    ASSUME NEW list, InOrder(list)
    PROVE  /\ Elems(list) \in SUBSET Groups
           /\ \A g \in Elems(list) : GroupFits(g)
           /\ \A i, j \in 1 .. Len(list) : list[i].base = list[j].base => i = j
           /\ \A g, h \in Elems(list) : g.base = h.base => g = h
           /\ \A i \in 1 .. Len(list) : GroupFits(list[i]) /\ list[i] \in Elems(list)
<1>1. list \in Seq(Groups) /\ \A i \in 1 .. Len(list) : list[i].base \in Int
    BY ListTyped
<1>2. \A i, j \in 1 .. Len(list) : list[i].base = list[j].base => i = j
  <2> SUFFICES ASSUME NEW i \in 1 .. Len(list), NEW j \in 1 .. Len(list),
                      list[i].base = list[j].base, i < j
               PROVE  FALSE
      BY <1>1
  <2> QED
      BY <1>1 DEF InOrder
<1> QED
    BY <1>1, <1>2 DEF InOrder, Elems

\* Where the walk stops (the loops of pushBlocksImpl and mergeGroupsToReleaseBack).
LEMMA PlaceFound ==
    ASSUME NEW list, InOrder(list), NEW base \in Int
    PROVE  /\ Len(list) \in Nat
           /\ PlaceOf(list, base) \in 1 .. Len(list) + 1
           /\ \A k \in 1 .. Len(list) :
                 /\ k < PlaceOf(list, base) => list[k].base < base
                 /\ k >= PlaceOf(list, base) => list[k].base >= base
           /\ Has(list, base) => /\ PlaceOf(list, base) \in 1 .. Len(list)
                                 /\ list[PlaceOf(list, base)].base = base
           /\ ~ Has(list, base) => \A k \in 1 .. Len(list) : list[k].base # base
<1>1. /\ list \in Seq(Groups) /\ Len(list) \in Nat
      /\ \A i \in 1 .. Len(list) : list[i].base \in Int
      /\ \A i, j \in 1 .. Len(list) : i < j => list[i].base < list[j].base
    BY ListTyped
<1>2. PICK i : i = PlaceOf(list, base)
    OBVIOUS
<1>3. PICK notBelow \in SUBSET Nat : notBelow = {k \in 1 .. Len(list) : list[k].base >= base}
  <2>1. {k \in 1 .. Len(list) : list[k].base >= base} \in SUBSET Nat
      OBVIOUS
  <2> QED
      BY <2>1
<1>4. i = IF notBelow = {} THEN Len(list) + 1 ELSE Min(notBelow)
    BY <1>2, <1>3 DEF PlaceOf
<1>5. /\ i \in 1 .. Len(list) + 1
      /\ \A k \in 1 .. Len(list) : k < i => list[k].base < base
      /\ \A k \in 1 .. Len(list) : k >= i => list[k].base >= base
  <2>1. CASE notBelow = {}
      BY <1>1, <1>3, <1>4, <2>1
  <2>2. CASE notBelow # {}
    <3>1. i \in notBelow /\ \A k \in notBelow : i <= k
        BY <1>4, <2>2, MinOf
    <3>2. i \in 1 .. Len(list) /\ list[i].base >= base
        BY <1>3, <3>1
    <3>3. ASSUME NEW k \in 1 .. Len(list), k < i PROVE list[k].base < base
      <4>1. k \notin notBelow
          BY <3>1, <3>2, <3>3
      <4> QED
          BY <1>1, <1>3, <4>1
    <3>4. ASSUME NEW k \in 1 .. Len(list), k >= i PROVE list[k].base >= base
      <4>1. CASE k = i
          BY <3>2, <4>1
      <4>2. CASE k > i
        <5>1. list[i].base < list[k].base /\ list[i].base \in Int /\ list[k].base \in Int
            BY <1>1, <3>2, <4>2
        <5> QED
            BY <3>2, <5>1
      <4> QED
          BY <3>2, <3>4, <4>1, <4>2
    <3> QED
        BY <3>2, <3>3, <3>4
  <2> QED
      BY <2>1, <2>2
<1>6. Has(list, base) <=> i <= Len(list) /\ list[i].base = base
    BY <1>2 DEF Has
<1>7. Has(list, base) => i \in 1 .. Len(list) /\ list[i].base = base
    BY <1>1, <1>5, <1>6
<1>8. ASSUME ~ Has(list, base), NEW k \in 1 .. Len(list), list[k].base = base
      PROVE  FALSE
  <2>1. k >= i /\ i \in 1 .. Len(list)
      BY <1>1, <1>5, <1>8
  <2>2. list[i].base >= base /\ list[i].base # base /\ list[i].base \in Int
      BY <1>1, <1>5, <1>6, <1>8, <2>1
  <2>3. k # i
      BY <1>8, <2>2
  <2>4. list[i].base < list[k].base
      BY <1>1, <2>1, <2>3
  <2> QED
      BY <1>1, <1>8, <2>2, <2>4
<1> QED
    BY <1>1, <1>2, <1>5, <1>7, <1>8

\* What replacing, adding or removing a group does to the records and to the blocks.
LEMMA GroupAdded ==
    ASSUME NEW l, NEW r, InOrder(l), InOrder(r), NEW g, GroupFits(g), g \notin Elems(l),
           Elems(r) = Elems(l) \cup {g}
    PROVE  /\ Records(r) = Records(l) + Len(g.batches) + 1
           /\ BlocksAt(Elems(r)) = BlocksAt(Elems(l)) \cup BlocksIn(g.batches)
<1>1. Elems(l) \in SUBSET Groups /\ IsFiniteSet(Slots(Elems(l)))
    BY ListsFinite, OneGroupEach
<1>2. Records(r) = Records(l) + Len(g.batches) + 1
    BY <1>1, RecordsOfMore DEF GroupFits, Records
<1>3. BlocksAt(Elems(r)) = BlocksAt(Elems(l)) \cup BlocksIn(g.batches)
    BY DEF BlocksAt, BlocksIn
<1> QED
    BY <1>2, <1>3

\* A group goes, with its blocks and its records (popBlocksImpl, releaseToOSMaybe).
LEMMA GroupRemoved ==
    ASSUME NEW l, NEW r, InOrder(l), InOrder(r), NEW g \in Elems(l),
           Elems(r) = Elems(l) \ {g}
    PROVE  /\ Records(r) = Records(l) - Len(g.batches) - 1
           /\ BlocksAt(Elems(r)) = BlocksAt(Elems(l)) \ BlocksIn(g.batches)
<1>1. Elems(l) \in SUBSET Groups /\ IsFiniteSet(Slots(Elems(l)))
    BY ListsFinite, OneGroupEach
<1>2. Records(r) = Records(l) - Len(g.batches) - 1
    BY <1>1, RecordsOfFewer DEF Records
<1>3. \A h \in Elems(l) : h # g => BlocksIn(h.batches) \cap BlocksIn(g.batches) = {}
  <2> SUFFICES ASSUME NEW h \in Elems(l), h # g,
                      NEW b \in BlocksIn(h.batches), b \in BlocksIn(g.batches)
               PROVE  FALSE
      OBVIOUS
  <2>1. GroupFits(h) /\ GroupFits(g) /\ h.base # g.base
      BY OneGroupEach
  <2> QED
      BY <2>1, GroupBatches
<1>4. BlocksAt(Elems(r)) = BlocksAt(Elems(l)) \ BlocksIn(g.batches)
    BY <1>3 DEF BlocksAt
<1> QED
    BY <1>2, <1>4

\* r has the groups of l, with g for old.
Exchanged(r, l, old, g) == Elems(r) = (Elems(l) \ {old}) \cup {g}

\* A group gets other batches: more of them, fewer, or other blocks (InsertBlocks,
\* popBlocksImpl, mergeGroupsToReleaseBack).
LEMMA GroupReplaced ==
    ASSUME NEW l, NEW r, InOrder(l), InOrder(r), NEW old \in Elems(l), NEW g, GroupFits(g),
           g.base = old.base, Exchanged(r, l, old, g)
    PROVE  /\ Records(r) = Records(l) - Len(old.batches) + Len(g.batches)
           /\ BlocksAt(Elems(r)) =
                (BlocksAt(Elems(l)) \ BlocksIn(old.batches)) \cup BlocksIn(g.batches)
<1>1. Elems(l) \in SUBSET Groups /\ IsFiniteSet(Slots(Elems(l))) /\ Records(l) \in Nat
    BY ListsFinite, OneGroupEach
<1>2. PICK R \in SUBSET Groups : R = Elems(l) \ {old}
    BY <1>1
<1>3. GroupFits(old) /\ old \in Groups /\ g \in Groups
      /\ Len(old.batches) \in Nat /\ Len(g.batches) \in Nat
    BY OneGroupEach, GroupBatches
<1>4. g \notin R
  <2> SUFFICES ASSUME g \in R PROVE FALSE
      OBVIOUS
  <2>1. g \in Elems(l) /\ g # old
      BY <1>2
  <2> QED
      BY <2>1, OneGroupEach
<1>5. /\ IsFiniteSet(Slots(R)) /\ Cardinality(Slots(R)) \in Nat
      /\ Cardinality(Slots(R)) = Records(l) - Len(old.batches) - 1
    BY <1>1, <1>2, RecordsOfFewer DEF Records
<1>6. Cardinality(Slots(R \cup {g})) = Cardinality(Slots(R)) + Len(g.batches) + 1
    BY <1>3, <1>4, <1>5, RecordsOfMore
<1>12. Elems(r) = R \cup {g}
    BY <1>2 DEF Exchanged
<1>7. Records(r) = Cardinality(Slots(R \cup {g}))
    BY <1>12 DEF Records
<1>8. Records(r) = Records(l) - Len(old.batches) + Len(g.batches)
    BY <1>1, <1>3, <1>5, <1>6, <1>7
<1>9. \A h \in Elems(l) : h # old => BlocksIn(h.batches) \cap BlocksIn(old.batches) = {}
  <2> SUFFICES ASSUME NEW h \in Elems(l), h # old,
                      NEW b \in BlocksIn(h.batches), b \in BlocksIn(old.batches)
               PROVE  FALSE
      OBVIOUS
  <2>1. GroupFits(h) /\ GroupFits(old) /\ h.base # old.base
      BY OneGroupEach
  <2> QED
      BY <2>1, GroupBatches
<1>10. BlocksAt(R) = BlocksAt(Elems(l)) \ BlocksIn(old.batches)
    BY <1>2, <1>9 DEF BlocksAt
<1>11. BlocksAt(R \cup {g}) = BlocksAt(R) \cup BlocksIn(g.batches)
    BY DEF BlocksAt, BlocksIn
<1> QED
    BY <1>8, <1>10, <1>11, <1>12

-----------------------------------------------------------------------------
(* The operations on a list.                                               *)

\* A group of the list gets other batches: r has g where l has its group i.
LEMMA ListReplace ==
    ASSUME NEW l, InOrder(l), NEW i \in 1 .. Len(l), NEW g, GroupFits(g), g.base = l[i].base,
           NEW r \in Seq(Groups), Len(r) = Len(l), r[i] = g,
           \A k \in 1 .. Len(l) : k # i => r[k] = l[k]
    PROVE  /\ InOrder(r)
           /\ Records(r) = Records(l) - Len(l[i].batches) + Len(g.batches)
           /\ BlocksAt(Elems(r)) =
                (BlocksAt(Elems(l)) \ BlocksIn(l[i].batches)) \cup BlocksIn(g.batches)
<1>1. /\ l \in Seq(Groups) /\ Len(l) \in Nat /\ g \in Groups
      /\ \A k \in 1 .. Len(l) : l[k] \in Groups /\ l[k].base \in Int
    BY ListTyped DEF GroupFits
<1>2. /\ r \in Seq(Groups) /\ Len(r) = Len(l) /\ r[i] = g
      /\ \A k \in 1 .. Len(l) : k # i => r[k] = l[k]
    OBVIOUS
<1>3. \A k \in 1 .. Len(l) : r[k].base = l[k].base /\ GroupFits(r[k])
    BY <1>2 DEF InOrder
<1>4. InOrder(r)
    BY <1>2, <1>3 DEF InOrder
<1>5. PICK old \in Elems(l) : old = l[i]
    BY <1>1, ElemsOf
<1>6. Elems(r) = (Elems(l) \ {old}) \cup {g}
  <2>1. ASSUME NEW h \in Elems(r) PROVE h \in (Elems(l) \ {old}) \cup {g}
    <3>1. PICK k \in 1 .. Len(l) : r[k] = h
        BY <1>2, ElemsOf
    <3>2. CASE k = i
        BY <1>2, <3>1, <3>2
    <3>3. CASE k # i
      <4>1. h = l[k] /\ h \in Elems(l)
          BY <1>1, <1>2, <3>1, <3>3, ElemsOf
      <4>2. l[k].base # l[i].base
          BY <3>3, OneGroupEach
      <4> QED
          BY <1>5, <4>1, <4>2
    <3> QED
        BY <3>2, <3>3
  <2>2. ASSUME NEW h \in Elems(l), h # old PROVE h \in Elems(r)
    <3>1. PICK k \in 1 .. Len(l) : l[k] = h
        BY <1>1, ElemsOf
    <3>2. k # i /\ r[k] = h
        BY <1>2, <1>5, <2>2, <3>1
    <3> QED
        BY <1>2, <3>2, ElemsOf
  <2>3. g \in Elems(r)
    <3>1. r \in Seq(Groups) /\ i \in 1 .. Len(r)
        BY <1>2
    <3>2. r[i] \in Elems(r)
        BY <3>1, ElemsOf
    <3> QED
        BY <1>2, <3>2
  <2> QED
      BY <2>1, <2>2, <2>3
<1>7. g.base = old.base
    BY <1>5
<1>8. /\ Records(r) = Records(l) - Len(old.batches) + Len(g.batches)
      /\ BlocksAt(Elems(r)) =
           (BlocksAt(Elems(l)) \ BlocksIn(old.batches)) \cup BlocksIn(g.batches)
  <2>1. Exchanged(r, l, old, g)
      BY <1>6 DEF Exchanged
  <2> QED
      BY <1>4, <1>7, <2>1, GroupReplaced
<1> QED
    BY <1>4, <1>5, <1>8

\* A new group at its place (CreateGroup).
LEMMA ListInsert ==
    ASSUME NEW l, InOrder(l), NEW g, GroupFits(g), ~ Has(l, g.base),
           NEW r, r = InsertAt(l, PlaceOf(l, g.base), g)
    PROVE  /\ InOrder(r)
           /\ Records(r) = Records(l) + Len(g.batches) + 1
           /\ BlocksAt(Elems(r)) = BlocksAt(Elems(l)) \cup BlocksIn(g.batches)
<1>1. /\ l \in Seq(Groups) /\ Len(l) \in Nat /\ g \in Groups /\ g.base \in Int
      /\ \A k \in 1 .. Len(l) : l[k] \in Groups /\ l[k].base \in Int
      /\ \A k, m \in 1 .. Len(l) : k < m => l[k].base < l[m].base
    BY ListTyped, GroupBatches
<1>2. PICK i \in 1 .. Len(l) + 1 :
         /\ i = PlaceOf(l, g.base)
         /\ \A k \in 1 .. Len(l) : k < i => l[k].base < g.base
         /\ \A k \in 1 .. Len(l) : k >= i => l[k].base > g.base
  <2>1. /\ PlaceOf(l, g.base) \in 1 .. Len(l) + 1
        /\ \A k \in 1 .. Len(l) :
              /\ k < PlaceOf(l, g.base) => l[k].base < g.base
              /\ k >= PlaceOf(l, g.base) => l[k].base >= g.base
        /\ \A k \in 1 .. Len(l) : l[k].base # g.base
      BY <1>1, PlaceFound
  <2>2. \A k \in 1 .. Len(l) : k >= PlaceOf(l, g.base) => l[k].base > g.base
      BY <1>1, <2>1
  <2> QED
      BY <2>1, <2>2
<1>3. /\ r \in Seq(Groups) /\ Len(r) = Len(l) + 1 /\ r[i] = g
      /\ \A k \in 1 .. Len(l) : k < i => r[k] = l[k]
      /\ \A k \in 1 .. Len(l) + 1 : k > i => r[k] = l[k - 1]
  <2>1. r = SubSeq(l, 1, i - 1) \o <<g>> \o SubSeq(l, i, Len(l))
      BY <1>2 DEF InsertAt
  <2>2. PICK a : a = SubSeq(l, 1, i - 1)
      OBVIOUS
  <2>3. PICK b : b = SubSeq(l, i, Len(l))
      OBVIOUS
  <2>4. a \in Seq(Groups) /\ Len(a) = i - 1 /\ \A k \in 1 .. i - 1 : a[k] = l[k]
      BY <1>1, <2>2
  <2>5. /\ b \in Seq(Groups) /\ Len(b) = Len(l) - i + 1
        /\ \A k \in 1 .. Len(l) - i + 1 : b[k] = l[k + i - 1]
      BY <1>1, <2>3
  <2>6. PICK c : c = a \o <<g>>
      OBVIOUS
  <2>7. c \in Seq(Groups) /\ Len(c) = i /\ c[i] = g /\ \A k \in 1 .. i - 1 : c[k] = l[k]
      BY <1>1, <2>4, <2>6
  <2>8. r = c \o b
      BY <2>1, <2>2, <2>3, <2>6
  <2>9. r \in Seq(Groups) /\ Len(r) = Len(l) + 1 /\ r[i] = g
    <3>1. r \in Seq(Groups) /\ Len(r) = Len(c) + Len(b)
      <4>1. c \o b \in Seq(Groups) /\ Len(c \o b) = Len(c) + Len(b)
          BY <2>5, <2>7, ConcatProperties
      <4> QED
          BY <2>8, <4>1
    <3>2. r[i] = c[i]
        BY <1>1, <2>5, <2>7, <2>8
    <3> QED
        BY <1>1, <2>5, <2>7, <3>1, <3>2
  <2>10. \A k \in 1 .. Len(l) : k < i => r[k] = l[k]
      BY <1>1, <2>5, <2>7, <2>8
  <2>11. ASSUME NEW k \in 1 .. Len(l) + 1, k > i PROVE r[k] = l[k - 1]
    <3>1. r[k] = b[k - i]
        BY <1>1, <2>5, <2>7, <2>8, <2>11
    <3>2. k - i \in 1 .. Len(l) - i + 1 /\ (k - i) + i - 1 = k - 1
        BY <1>1, <2>11
    <3> QED
        BY <2>5, <3>1, <3>2
  <2> QED
      BY <2>9, <2>10, <2>11
<1>4. \A k \in 1 .. Len(r) : k < i \/ k = i \/ k > i
    BY <1>1, <1>3
<1>5. \A k \in 1 .. Len(r) : k > i => r[k] = l[k - 1] /\ k - 1 \in 1 .. Len(l) /\ k - 1 >= i
    BY <1>1, <1>3
<1>6. \A k \in 1 .. Len(r) : k < i => r[k] = l[k] /\ k \in 1 .. Len(l)
    BY <1>1, <1>3
<1>7. InOrder(r)
  <2>1. \A k \in 1 .. Len(r) : GroupFits(r[k])
      BY <1>3, <1>4, <1>5, <1>6 DEF InOrder
  <2>2. ASSUME NEW k \in 1 .. Len(r), NEW m \in 1 .. Len(r), k < m
        PROVE  r[k].base < r[m].base
    <3>1. CASE k < i /\ m < i
        BY <1>1, <1>6, <2>2, <3>1
    <3>2. CASE k < i /\ m = i
        BY <1>2, <1>3, <1>6, <3>2
    <3>3. CASE k < i /\ m > i
      <4>1. k < m - 1
          BY <1>1, <3>3
      <4> QED
          BY <1>1, <1>5, <1>6, <3>3, <4>1
    <3>4. CASE k = i
        BY <1>1, <1>2, <1>3, <1>5, <2>2, <3>4
    <3>5. CASE k > i
      <4>1. k - 1 < m - 1 /\ m > i
          BY <1>1, <2>2, <3>5
      <4> QED
          BY <1>1, <1>5, <3>5, <4>1
    <3> QED
        BY <1>4, <2>2, <3>1, <3>2, <3>3, <3>4, <3>5
  <2> QED
      BY <1>3, <2>1, <2>2 DEF InOrder
<1>8. g \notin Elems(l)
  <2> SUFFICES ASSUME g \in Elems(l) PROVE FALSE
      OBVIOUS
  <2>1. PICK k \in 1 .. Len(l) : l[k] = g
      BY <1>1, ElemsOf
  <2>2. l[k].base # g.base
      BY <1>1, PlaceFound
  <2> QED
      BY <2>1, <2>2
<1>9. Elems(r) = Elems(l) \cup {g}
  <2>1. ASSUME NEW h \in Elems(r) PROVE h \in Elems(l) \cup {g}
    <3>1. PICK k \in 1 .. Len(r) : r[k] = h
        BY <1>3, ElemsOf
    <3> QED
        BY <1>1, <1>3, <1>4, <1>5, <1>6, <3>1, ElemsOf
  <2>2. ASSUME NEW h \in Elems(l) PROVE h \in Elems(r)
    <3>1. PICK k \in 1 .. Len(l) : l[k] = h
        BY <1>1, ElemsOf
    <3>2. CASE k < i
      <4>1. r[k] = h /\ k \in 1 .. Len(r)
          BY <1>1, <1>3, <3>1, <3>2
      <4> QED
          BY <1>3, <4>1, ElemsOf
    <3>3. CASE k >= i
      <4>1. k + 1 \in 1 .. Len(r) /\ k + 1 > i /\ (k + 1) - 1 = k
          BY <1>1, <1>3, <3>3
      <4>2. r[k + 1] = h
          BY <1>3, <3>1, <4>1
      <4> QED
          BY <1>3, <4>1, <4>2, ElemsOf
    <3> QED
        BY <1>1, <3>2, <3>3
  <2>3. g \in Elems(r)
    <3>1. i \in 1 .. Len(r)
        BY <1>1, <1>3
    <3> QED
        BY <1>3, <3>1, ElemsOf
  <2> QED
      BY <2>1, <2>2, <2>3
<1> QED
    BY <1>7, <1>8, <1>9, GroupAdded

\* The first group leaves (popBlocksImpl).
LEMMA ListTail ==
    ASSUME NEW l, InOrder(l), l # <<>>, NEW r, r = Tail(l)
    PROVE  /\ InOrder(r)
           /\ Records(r) = Records(l) - Len(l[1].batches) - 1
           /\ BlocksAt(Elems(r)) = BlocksAt(Elems(l)) \ BlocksIn(l[1].batches)
<1>1. /\ l \in Seq(Groups) /\ Len(l) \in Nat /\ Len(l) >= 1
      /\ \A k, m \in 1 .. Len(l) : k < m => l[k].base < l[m].base
    BY ListTyped
<1>2. /\ r \in Seq(Groups) /\ Len(r) = Len(l) - 1
      /\ \A k \in 1 .. Len(r) : r[k] = l[k + 1] /\ k + 1 \in 1 .. Len(l)
    BY <1>1
<1>3. InOrder(r)
  <2>1. \A k \in 1 .. Len(r) : GroupFits(r[k])
      BY <1>2 DEF InOrder
  <2>2. ASSUME NEW k \in 1 .. Len(r), NEW m \in 1 .. Len(r), k < m
        PROVE  r[k].base < r[m].base
      BY <1>1, <1>2, <2>2
  <2> QED
      BY <1>2, <2>1, <2>2 DEF InOrder
<1>4. PICK old \in Elems(l) : old = l[1]
    BY <1>1, ElemsOf
<1>5. Elems(r) = Elems(l) \ {old}
  <2>1. ASSUME NEW h \in Elems(r) PROVE h \in Elems(l) /\ h # old
    <3>1. PICK k \in 1 .. Len(r) : r[k] = h
        BY <1>2, ElemsOf
    <3>2. h = l[k + 1] /\ k + 1 \in 1 .. Len(l) /\ 1 \in 1 .. Len(l)
        BY <1>1, <1>2, <3>1
    <3>3. l[k + 1].base # l[1].base
        BY <3>2, OneGroupEach
    <3> QED
        BY <1>1, <1>4, <3>2, <3>3, ElemsOf
  <2>2. ASSUME NEW h \in Elems(l), h # old PROVE h \in Elems(r)
    <3>1. PICK k \in 1 .. Len(l) : l[k] = h
        BY <1>1, ElemsOf
    <3>2. k - 1 \in 1 .. Len(r) /\ (k - 1) + 1 = k
        BY <1>1, <1>2, <1>4, <2>2, <3>1
    <3>3. r[k - 1] = h
        BY <1>2, <3>1, <3>2
    <3> QED
        BY <1>2, <3>2, <3>3, ElemsOf
  <2> QED
      BY <2>1, <2>2
<1> QED
    BY <1>3, <1>4, <1>5, GroupRemoved

Lists == [list : Seq(Groups), used : Int]

\* The list of r is in order and has the given blocks, and the BatchClass blocks in use are
\* excess more than its records.
Keeps(r, blocks, excess) ==
    /\ r \in Lists
    /\ InOrder(r.list)
    /\ BlocksAt(Elems(r.list)) = blocks
    /\ r.used = excess + Records(r.list)

\* A new group starts with an empty batch (CreateGroup).
LEMMA EmptyBatch ==
    ASSUME NEW base
    PROVE  BatchesFit(<<{}>>, base) /\ BlocksIn(<<{}>>) = {} /\ Len(<<{}>>) = 1
<1>1. PICK none \in Seq(SUBSET Int) : none = <<>>
  <2>1. <<>> \in Seq(SUBSET Int)
      OBVIOUS
  <2> QED
      BY <2>1
<1>2. Packed(none, base) /\ BlocksIn(none) = {} /\ Len(none) = 0
    BY <1>1 DEF Packed, BlocksIn
<1>3. BatchFits({}, base)
    BY FS_EmptySet, MaxNumCachedPositive DEF BatchFits
<1>4. PICK first : first = {}
    OBVIOUS
<1>5. first \cap BlocksIn(none) = {} /\ first \in SUBSET Int
    BY <1>4
<1>6. PICK bs : bs = <<first>> \o none
    OBVIOUS
<1>9. BatchFits(first, base)
    BY <1>3, <1>4
<1>10. /\ BatchesFit(bs, base) /\ Len(bs) = Len(none) + 1
       /\ BlocksIn(bs) = first \cup BlocksIn(none)
  <2>1. Packed(none, base) /\ first \cap BlocksIn(none) = {}
      BY <1>2, <1>5
  <2>2. /\ BatchesFit(<<first>> \o none, base)
        /\ Len(<<first>> \o none) = Len(none) + 1
        /\ BlocksIn(<<first>> \o none) = first \cup BlocksIn(none)
      BY <1>9, <2>1, BatchesJoin
  <2> QED
      BY <1>6, <2>2
<1>7. /\ BatchesFit(bs, base) /\ Len(bs) = 1 /\ BlocksIn(bs) = {}
    BY <1>2, <1>4, <1>10
<1>8. bs = <<{}>>
    BY <1>1, <1>4, <1>6
<1> QED
    BY <1>7, <1>8

\* The group of an entry has part of the list's blocks.
LEMMA PartOfList ==
    ASSUME NEW l, InOrder(l), NEW i \in 1 .. Len(l)
    PROVE  /\ GroupFits(l[i]) /\ l[i] \in Elems(l)
           /\ BlocksIn(l[i].batches) \in SUBSET BlocksAt(Elems(l))
BY OneGroupEach DEF BlocksAt, BlocksIn

\* The blocks of one group are pushed (a segment of pushBlocksImpl).
LEMMA PushOne ==
    ASSUME NEW old, NEW excess \in Int, NEW acc, Keeps(acc, old, excess), NEW base \in Int,
           NEW blocks \in SUBSET Int, IsFiniteSet(blocks), blocks # {},
           \A b \in blocks : GroupOf(b) = base, blocks \cap old = {}
    PROVE  /\ Keeps(PushGroup(base, blocks, acc), old \cup blocks, excess)
           /\ PushGroup(base, blocks, acc).list # <<>>
<1>1. PICK l : l = acc.list
    OBVIOUS
<1>2. PICK i : i = PlaceOf(l, base)
    OBVIOUS
<1>3. PICK r : r = PushGroup(base, blocks, acc)
    OBVIOUS
<1>4. /\ InOrder(l) /\ acc.used \in Int /\ l \in Seq(Groups) /\ Len(l) \in Nat
      /\ BlocksAt(Elems(l)) = old /\ acc.used = excess + Records(l) /\ Records(l) \in Nat
    BY <1>1, ListTyped, ListsFinite DEF Keeps, Lists
<1>5. CASE Has(l, base)
  <2>1. i \in 1 .. Len(l) /\ l[i].base = base
      BY <1>2, <1>4, <1>5, PlaceFound
  <2>2. PICK bs : bs = l[i].batches
      OBVIOUS
  <2>3. /\ BatchesFit(bs, base) /\ BlocksIn(bs) \in SUBSET old /\ bs[1] # {}
        /\ Len(bs) \in Nat
      BY <1>4, <2>1, <2>2, PartOfList, GroupBatches DEF GroupFits
  <2>4. PICK inserted : inserted = InsertBlocks(bs, blocks, acc.used)
      OBVIOUS
  <2>5. blocks \cap BlocksIn(bs) = {}
      BY <2>3
  <2>6. /\ Holds(inserted, base, BlocksIn(bs) \cup blocks, acc.used - Len(bs))
        /\ inserted.batches[1] # {}
      BY <1>4, <2>3, <2>4, <2>5, InsertAll
  <2>7. PICK g : g = [base |-> base, batches |-> inserted.batches]
      OBVIOUS
  <2>8. /\ GroupFits(g) /\ g.base = base /\ g.batches = inserted.batches
        /\ BlocksIn(g.batches) = BlocksIn(bs) \cup blocks
        /\ inserted.used = acc.used - Len(bs) + Len(g.batches)
        /\ Len(g.batches) \in Nat
      BY <2>6, <2>7 DEF Holds, Batches, GroupFits, Groups
  <2>9. PICK new : new = [l EXCEPT ![i] = g]
      OBVIOUS
  <2>10. /\ new \in Seq(Groups) /\ Len(new) = Len(l) /\ new[i] = g
         /\ \A k \in 1 .. Len(l) : k # i => new[k] = l[k]
      BY <1>4, <2>1, <2>8, <2>9 DEF GroupFits
  <2>11. /\ InOrder(new)
         /\ Records(new) = Records(l) - Len(bs) + Len(g.batches)
         /\ BlocksAt(Elems(new)) = (old \ BlocksIn(bs)) \cup BlocksIn(g.batches)
      BY <1>4, <2>1, <2>2, <2>8, <2>10, ListReplace
  <2>12. BlocksAt(Elems(new)) = old \cup blocks
      BY <2>3, <2>8, <2>11
  <2>13. r = [list |-> new, used |-> inserted.used]
      BY <1>1, <1>2, <1>3, <1>5, <2>2, <2>4, <2>7, <2>9 DEF PushGroup
  <2>14. inserted.used \in Int /\ inserted.used = excess + Records(new)
      BY <1>4, <2>3, <2>8, <2>11
  <2>15. r \in Lists /\ r.list = new /\ r.used = inserted.used
      BY <2>10, <2>13, <2>14 DEF Lists
  <2>16. new # <<>>
      BY <1>4, <2>1, <2>10
  <2> QED
      BY <1>3, <2>11, <2>12, <2>14, <2>15, <2>16 DEF Keeps
<1>6. CASE ~ Has(l, base)
  <2>1. PICK bs : bs = <<{}>>
      OBVIOUS
  <2>2. BatchesFit(bs, base) /\ BlocksIn(bs) = {} /\ Len(bs) = 1
      BY <2>1, EmptyBatch
  <2>3. PICK inserted : inserted = InsertBlocks(bs, blocks, acc.used + 2)
      OBVIOUS
  <2>4. PICK u \in Int : u = acc.used + 2
      BY <1>4
  <2>5. /\ Holds(inserted, base, BlocksIn(bs) \cup blocks, u - Len(bs))
        /\ inserted.batches[1] # {}
      BY <2>2, <2>3, <2>4, InsertAll
  <2>6. PICK g : g = [base |-> base, batches |-> inserted.batches]
      OBVIOUS
  <2>7. /\ GroupFits(g) /\ g.base = base /\ g.batches = inserted.batches
        /\ BlocksIn(g.batches) = BlocksIn(bs) \cup blocks
        /\ inserted.used = u - Len(bs) + Len(g.batches)
        /\ Len(g.batches) \in Nat
      BY <2>5, <2>6 DEF Holds, Batches, GroupFits, Groups
  <2>8. PICK new : new = InsertAt(l, i, g)
      OBVIOUS
  <2>9. /\ InOrder(new)
        /\ Records(new) = Records(l) + Len(g.batches) + 1
        /\ BlocksAt(Elems(new)) = old \cup BlocksIn(g.batches)
      BY <1>2, <1>4, <1>6, <2>7, <2>8, ListInsert
  <2>10. BlocksAt(Elems(new)) = old \cup blocks
      BY <2>2, <2>7, <2>9
  <2>11. r = [list |-> new, used |-> inserted.used]
      BY <1>1, <1>2, <1>3, <1>6, <2>1, <2>3, <2>6, <2>8 DEF PushGroup
  <2>12. inserted.used \in Int /\ inserted.used = excess + Records(new)
      BY <1>4, <2>2, <2>4, <2>7, <2>9
  <2>13. r \in Lists /\ r.list = new /\ r.used = inserted.used
      BY <2>9, <2>11, <2>12 DEF Lists, InOrder
  <2>14. new # <<>>
    <3>1. PICK b \in blocks : b \in BlocksAt(Elems(new))
        BY <2>10
    <3> QED
        BY <3>1 DEF BlocksAt, Elems
  <2> QED
      BY <1>3, <2>9, <2>10, <2>12, <2>13, <2>14 DEF Keeps
<1> QED
    BY <1>5, <1>6

\* popBlocksImpl takes blocks from the first batch; the batch goes when it is empty, and the
\* group with its last batch.
LEMMA PopRight ==
    ASSUME NEW l, InOrder(l), l # <<>>, NEW blocks, blocks \in SUBSET Head(Head(l).batches),
           NEW used \in Int
    PROVE  /\ Keeps(PopBlocks(l, blocks, used), BlocksAt(Elems(l)) \ blocks, used - Records(l))
           /\ blocks \in SUBSET BlocksAt(Elems(l))
           /\ IsFiniteSet(blocks)
<1>1. PICK bs : bs = Head(l).batches
    OBVIOUS
<1>2. PICK first : first = Head(bs)
    OBVIOUS
<1>3. PICK left : left = first \ blocks
    OBVIOUS
<1>4. PICK r : r = PopBlocks(l, blocks, used)
    OBVIOUS
<1>5. PICK rest : rest = Tail(bs)
    OBVIOUS
<1>6. /\ l \in Seq(Groups) /\ Len(l) \in Nat /\ 1 \in 1 .. Len(l) /\ Head(l) = l[1]
      /\ Records(l) \in Nat
    BY ListTyped, ListsFinite
<1>7. PICK old \in Groups : old = l[1]
    BY <1>6
<1>8. GroupFits(old) /\ bs = old.batches /\ BlocksIn(bs) \in SUBSET BlocksAt(Elems(l))
    BY <1>1, <1>6, <1>7, PartOfList
<1>9. /\ BatchesFit(bs, old.base) /\ bs[1] # {} /\ old.base \in Int
    BY <1>8, GroupBatches DEF GroupFits
<1>10. /\ bs \in Seq(SUBSET Int) /\ Len(bs) \in Nat /\ Len(bs) >= 1 /\ first = bs[1]
       /\ BatchFits(first, old.base) /\ Packed(rest, old.base) /\ rest \in Seq(SUBSET Int)
       /\ first \cap BlocksIn(rest) = {} /\ Len(rest) = Len(bs) - 1
       /\ BlocksIn(bs) = first \cup BlocksIn(rest)
    BY <1>2, <1>5, <1>9, BatchesSplit
<1>11. blocks \in SUBSET first /\ first \in SUBSET Int
    BY <1>1, <1>2, <1>10 DEF BatchFits
<1>12. IsFiniteSet(blocks) /\ blocks \in SUBSET BlocksAt(Elems(l))
  <2>1. IsFiniteSet(first)
      BY <1>10 DEF BatchFits
  <2> QED
      BY <1>8, <1>10, <1>11, <2>1, FS_Subset
<1>13. r = CASE left # {} -> [list |-> [l EXCEPT ![1].batches[1] = left], used |-> used]
             [] left = {} /\ Len(bs) > 1 ->
                  [list |-> [l EXCEPT ![1].batches = Tail(@)], used |-> used - 1]
             [] left = {} /\ Len(bs) = 1 -> [list |-> Tail(l), used |-> used - 2]
    BY <1>1, <1>2, <1>3, <1>4 DEF PopBlocks
<1>14. ASSUME NEW newBs, BatchesFit(newBs, old.base), newBs[1] # {}, newBs \in Seq(SUBSET Int),
              BlocksIn(newBs) = BlocksIn(bs) \ blocks,
              NEW new, new = [l EXCEPT ![1] = [old EXCEPT !.batches = newBs]],
              r = [list |-> new, used |-> used - Len(bs) + Len(newBs)]
       PROVE  Keeps(r, BlocksAt(Elems(l)) \ blocks, used - Records(l))
  <2>1. PICK g : g = [old EXCEPT !.batches = newBs]
      OBVIOUS
  <2>2. /\ g \in Groups /\ g.base = old.base /\ g.batches = newBs /\ Len(newBs) \in Nat
      BY <1>14, <2>1 DEF Groups
  <2>3. GroupFits(g)
      BY <1>14, <2>2 DEF GroupFits
  <2>4. /\ new \in Seq(Groups) /\ Len(new) = Len(l) /\ new[1] = g
        /\ \A k \in 1 .. Len(l) : k # 1 => new[k] = l[k]
      BY <1>6, <1>14, <2>1, <2>2
  <2>5. PICK n : n = new
      OBVIOUS
  <2>6. /\ InOrder(n)
        /\ Records(n) = Records(l) - Len(bs) + Len(newBs)
        /\ BlocksAt(Elems(n)) = (BlocksAt(Elems(l)) \ BlocksIn(bs)) \cup BlocksIn(newBs)
      BY <1>6, <1>7, <1>8, <2>2, <2>3, <2>4, <2>5, ListReplace
  <2>7. BlocksAt(Elems(n)) = BlocksAt(Elems(l)) \ blocks
      BY <1>8, <1>10, <1>11, <1>14, <2>6
  <2>8. r.list = n /\ r.used = used - Len(bs) + Len(newBs) /\ r \in Lists
      BY <1>10, <1>14, <2>2, <2>4, <2>5 DEF Lists
  <2>9. r.used = (used - Records(l)) + Records(n)
      BY <1>6, <1>10, <2>2, <2>6, <2>8
  <2> QED
      BY <2>6, <2>7, <2>8, <2>9 DEF Keeps
<1>15. CASE left # {}
  <2>1. r = [list |-> [l EXCEPT ![1].batches[1] = left], used |-> used]
      BY <1>13, <1>15
  <2>2. BatchFits(left, old.base) /\ left \in SUBSET Int /\ left \cap BlocksIn(rest) = {}
      BY <1>3, <1>10, <1>11, BatchShrinks
  <2>3. PICK newBs : newBs = <<left>> \o rest
      OBVIOUS
  <2>4. /\ BatchesFit(newBs, old.base) /\ newBs \in Seq(SUBSET Int) /\ newBs[1] = left
        /\ Len(newBs) = Len(rest) + 1
        /\ BlocksIn(newBs) = left \cup BlocksIn(rest)
      BY <1>10, <2>2, <2>3, BatchesJoin
  <2>5. [bs EXCEPT ![1] = left] = newBs
      BY <1>5, <1>10, <2>2, <2>3, NewFirst
  <2>6. [l EXCEPT ![1].batches[1] = left] = [l EXCEPT ![1] = [old EXCEPT !.batches = newBs]]
      BY <1>7, <1>8, <2>5
  <2>7. BlocksIn(newBs) = BlocksIn(bs) \ blocks
      BY <1>3, <1>10, <1>11, <2>4
  <2>8. used - Len(bs) + Len(newBs) = used
      BY <1>10, <2>4
  <2> QED
      BY <1>4, <1>12, <1>14, <1>15, <2>1, <2>4, <2>6, <2>7, <2>8
<1>16. CASE left = {} /\ Len(bs) > 1
  <2>1. r = [list |-> [l EXCEPT ![1].batches = Tail(@)], used |-> used - 1]
    <3>1. ~ (left # {}) /\ left = {} /\ Len(bs) > 1 /\ Len(bs) # 1
        BY <1>10, <1>16
    <3> QED
        BY <1>13, <3>1
  <2>2. Packed(rest, old.base) /\ Len(rest) >= 1 /\ rest \in Seq(SUBSET Int) /\ Len(rest) \in Nat
      BY <1>10, <1>16
  <2>3. BatchesFit(rest, old.base) /\ rest[1] # {}
      BY <2>2, PackedFits
  <2>4. [l EXCEPT ![1].batches = Tail(@)] = [l EXCEPT ![1] = [old EXCEPT !.batches = rest]]
      BY <1>5, <1>7, <1>8
  <2>5. blocks = first /\ BlocksIn(rest) = BlocksIn(bs) \ blocks
      BY <1>3, <1>10, <1>11, <1>16
  <2>6. used - Len(bs) + Len(rest) = used - 1
      BY <1>10, <2>2
  <2> QED
      BY <1>4, <1>12, <1>14, <2>1, <2>2, <2>3, <2>4, <2>5, <2>6
<1>17. CASE left = {} /\ Len(bs) = 1
  <2>1. r = [list |-> Tail(l), used |-> used - 2]
      BY <1>13, <1>17
  <2>2. PICK n : n = Tail(l)
      OBVIOUS
  <2>3. /\ InOrder(n)
        /\ Records(n) = Records(l) - Len(bs) - 1
        /\ BlocksAt(Elems(n)) = BlocksAt(Elems(l)) \ BlocksIn(bs)
      BY <1>7, <1>8, <2>2, ListTail
  <2>4. BlocksIn(rest) = {}
      BY <1>10, <1>17 DEF BlocksIn
  <2>5. BlocksIn(bs) = blocks
      BY <1>3, <1>10, <1>11, <1>17, <2>4
  <2>6. r \in Lists /\ r.list = n /\ r.used = used - 2
      BY <2>1, <2>2, <2>3 DEF Lists, InOrder
  <2>7. r.used = (used - Records(l)) + Records(n)
      BY <1>6, <1>17, <2>3, <2>6
  <2>8. Keeps(r, BlocksAt(Elems(l)) \ blocks, used - Records(l))
      BY <2>3, <2>5, <2>6, <2>7 DEF Keeps
  <2> QED
      BY <1>4, <1>12, <2>8
<1> QED
    BY <1>10, <1>15, <1>16, <1>17

\* The records of a fold over the groups of the blocks: what is left of PushBlocks when its
\* definition is expanded.
LEMMA PushBlocksFold ==
    ASSUME NEW list, NEW blocks, NEW used
    PROVE  PushBlocks(list, blocks, used) =
             (CHOOSE f : f = [s \in SUBSET {GroupOf(b) : b \in blocks} |->
                IF s = {} THEN [list |-> list, used |-> used]
                ELSE PushGroup(CHOOSE x \in s : TRUE,
                               {b \in blocks : GroupOf(b) = (CHOOSE x \in s : TRUE)},
                               f[s \ {CHOOSE x \in s : TRUE}])])[{GroupOf(b) : b \in blocks}]
BY DEF PushBlocks, FoldSet, MapThenFoldSet

\* The groups of finitely many blocks (compactPtrGroup).
LEMMA BasesOf ==
    ASSUME NEW blocks \in SUBSET Int, IsFiniteSet(blocks)
    PROVE  /\ {GroupOf(b) : b \in blocks} \in SUBSET Int
           /\ IsFiniteSet({GroupOf(b) : b \in blocks})
<1>1. \A b \in blocks : GroupOf(b) \in Int
    BY BlockListAssumption DEF BlockListAssumption, GroupOf
<1>2. PICK bases : bases = {GroupOf(b) : b \in blocks}
    OBVIOUS
<1>3. PICK m : m = [b \in blocks |-> GroupOf(b)]
    OBVIOUS
<1>4. m \in [blocks -> bases] /\ \A x \in bases : \E b \in blocks : m[b] = x
    BY <1>2, <1>3
<1>5. m \in Surjection(blocks, bases)
    BY <1>4 DEF Surjection
<1>6. IsFiniteSet(bases)
    BY <1>5, FS_Surjection
<1> QED
    BY <1>1, <1>2, <1>6

\* Pushing blocks that are not in the list puts each of them into it once and takes a record
\* per new group and per new batch (pushBlocksImpl).
LEMMA PushAll ==
    ASSUME NEW l, InOrder(l), NEW used \in Int, NEW blocks \in SUBSET Int, IsFiniteSet(blocks),
           blocks \cap BlocksAt(Elems(l)) = {}
    PROVE  LET r == PushBlocks(l, blocks, used)
           IN  /\ Keeps(r, BlocksAt(Elems(l)) \cup blocks, used - Records(l))
               /\ blocks # {} => r.list # <<>>
<1>1. PICK excess \in Int : excess = used - Records(l)
  <2>1. used - Records(l) \in Int
      BY ListsFinite
  <2> QED
      BY <2>1
<1>2. PICK old : old = BlocksAt(Elems(l))
    OBVIOUS
<1>3. PICK start : start = [list |-> l, used |-> used]
    OBVIOUS
<1>4. PICK bases \in SUBSET Int : bases = {GroupOf(b) : b \in blocks} /\ IsFiniteSet(bases)
    BY BasesOf
<1> DEFINE Seg(base) == {b \in blocks : GroupOf(b) = base}
           Upto(s)   == {b \in blocks : GroupOf(b) \in s}
           ch        == [s \in SUBSET bases |-> CHOOSE x \in s : TRUE]
           Right(s, v) == Keeps(v, old \cup Upto(s), excess) /\ (s # {} => v.list # <<>>)
           D         == [s \in SUBSET bases |-> {v \in Lists : Right(s, v)}]
           h         == [p \in bases \X Lists |-> PushGroup(p[1], Seg(p[1]), p[2])]
           Eq(f)     == f = [s \in SUBSET bases |->
                               IF s = {} THEN start
                               ELSE PushGroup(CHOOSE x \in s : TRUE, Seg(CHOOSE x \in s : TRUE),
                                              f[s \ {CHOOSE x \in s : TRUE}])]
<1>5. \A s \in SUBSET bases : s # {} => ch[s] = (CHOOSE x \in s : TRUE) /\ ch[s] \in s
    OBVIOUS
<1>6. \A s \in SUBSET bases : \A v : v \in D[s] <=> v \in Lists /\ Right(s, v)
    OBVIOUS
<1>7. \A x \in bases, v \in Lists : h[<<x, v>>] = PushGroup(x, Seg(x), v)
    OBVIOUS
<1>8. \A s \in SUBSET bases : D[s] \in SUBSET Lists
    OBVIOUS
<1>9. start \in D[{}]
  <2>1. /\ start \in Lists /\ start.list = l /\ start.used = excess + Records(l)
      BY <1>1, <1>3, ListTyped, ListsFinite DEF Lists
  <2>2. Upto({}) = {}
      OBVIOUS
  <2>3. Keeps(start, old \cup Upto({}), excess)
      BY <1>2, <2>1, <2>2 DEF Keeps
  <2>4. Right({}, start)
      BY <2>3
  <2> HIDE DEF D, Right
  <2> QED
      BY <1>6, <2>1, <2>4
<1>10. ASSUME NEW s \in SUBSET bases, s # {}, NEW v \in D[s \ {ch[s]}]
       PROVE  PushGroup(ch[s], Seg(ch[s]), v) \in D[s]
  <2>1. PICK x \in bases : x = ch[s] /\ x \in s
      BY <1>5, <1>10
  <2>2. PICK less \in SUBSET bases : less = s \ {x}
      OBVIOUS
  <2>3. Keeps(v, old \cup Upto(less), excess)
    <3>1. Right(less, v)
      <4> HIDE DEF D, Right, ch
      <4> QED
          BY <1>6, <1>10, <2>1, <2>2
    <3> QED
        BY <3>1
  <2>4. PICK part \in SUBSET Int : part = Seg(x)
      OBVIOUS
  <2>5. /\ IsFiniteSet(part) /\ part # {} /\ \A b \in part : GroupOf(b) = x
        /\ part \cap (old \cup Upto(less)) = {}
    <3>1. IsFiniteSet(part)
        BY <2>4, FS_Subset
    <3>2. part # {}
        BY <1>4, <2>1, <2>4
    <3>3. part \cap (old \cup Upto(less)) = {}
        BY <1>2, <2>2, <2>4
    <3> QED
        BY <2>4, <3>1, <3>2, <3>3
  <2>6. PICK known : known = old \cup Upto(less)
      OBVIOUS
  <2>7. PICK r : r = PushGroup(x, part, v)
      OBVIOUS
  <2>8. Keeps(r, known \cup part, excess) /\ r.list # <<>>
      BY <2>1, <2>3, <2>5, <2>6, <2>7, PushOne
  <2>9. known \cup part = old \cup Upto(s)
      BY <2>1, <2>2, <2>4, <2>6
  <2>10. Right(s, r) /\ r \in Lists
      BY <2>8, <2>9 DEF Keeps
  <2> HIDE DEF D, Right, ch, Seg
  <2> QED
      BY <1>6, <2>1, <2>4, <2>7, <2>10
<1> HIDE DEF ch, D, h, Right, Seg, Upto
<1>11. \E f : Eq(f)
  <2>1. ASSUME NEW s \in SUBSET bases, s # {}
        PROVE  ch[s] \in s /\ \A v \in D[s \ {ch[s]}] : h[<<ch[s], v>>] \in D[s]
    <3>1. ch[s] \in bases /\ s \ {ch[s]} \in SUBSET bases /\ ch[s] \in s
        BY <1>5, <2>1
    <3>2. ASSUME NEW v \in D[s \ {ch[s]}]
          PROVE  h[<<ch[s], v>>] \in D[s]
      <4>1. v \in Lists
          BY <1>8, <3>1
      <4>2. h[<<ch[s], v>>] = PushGroup(ch[s], Seg(ch[s]), v)
          BY <1>7, <3>1, <4>1
      <4> QED
          BY <1>10, <2>1, <4>2
    <3> QED
        BY <3>1, <3>2
  <2>2. PICK f : IsFold(f, bases, ch, start, h) /\ \A s \in SUBSET bases : f[s] \in D[s]
      BY <1>4, <1>9, <2>1, FoldWithin
  <2>3. ASSUME NEW s \in SUBSET bases, s # {}
        PROVE  h[<<ch[s], f[s \ {ch[s]}]>>] =
                 PushGroup(CHOOSE x \in s : TRUE, Seg(CHOOSE x \in s : TRUE),
                           f[s \ {CHOOSE x \in s : TRUE}])
    <3>1. ch[s] \in bases /\ s \ {ch[s]} \in SUBSET bases
        BY <1>5, <2>3
    <3>2. f[s \ {ch[s]}] \in Lists
        BY <1>8, <2>2, <3>1
    <3>3. h[<<ch[s], f[s \ {ch[s]}]>>] = PushGroup(ch[s], Seg(ch[s]), f[s \ {ch[s]}])
        BY <1>7, <3>1, <3>2
    <3> QED
        BY <1>5, <2>3, <3>3
  <2>4. Eq(f)
      BY <2>2, <2>3 DEF IsFold
  <2> QED
      BY <2>4
<1>12. PICK f : f = (CHOOSE g : Eq(g))
    OBVIOUS
<1>13. Eq(f)
  <2> HIDE DEF Eq
  <2> QED
      BY <1>11, <1>12
<1>14. f[{}] = start
    BY <1>13
<1>15. \A s \in SUBSET bases : s # {} => f[s] = PushGroup(ch[s], Seg(ch[s]), f[s \ {ch[s]}])
    BY <1>5, <1>13
<1>16. f[bases] = PushBlocks(l, blocks, used)
    BY <1>3, <1>4, <1>12, PushBlocksFold DEF Seg
<1> HIDE DEF Eq
<1>17. \A s \in SUBSET bases : f[s] \in D[s]
  <2>1. ASSUME NEW s \in SUBSET bases, s # {}
        PROVE  ch[s] \in s /\ (f[s \ {ch[s]}] \in D[s \ {ch[s]}] => f[s] \in D[s])
    <3>1. ASSUME f[s \ {ch[s]}] \in D[s \ {ch[s]}]
          PROVE  PushGroup(ch[s], Seg(ch[s]), f[s \ {ch[s]}]) \in D[s]
        BY <1>10, <2>1, <3>1
    <3> QED
        BY <1>5, <1>15, <2>1, <3>1
  <2>2. f[{}] \in D[{}]
      BY <1>9, <1>14
  <2> QED
      BY <1>4, <2>1, <2>2, SubsetInduction
<1>18. Right(bases, f[bases])
    BY <1>6, <1>17
<1>19. Upto(bases) = blocks
    BY <1>4 DEF Upto
<1>20. blocks # {} => bases # {}
    BY <1>4
<1> QED
    BY <1>1, <1>2, <1>16, <1>18, <1>19, <1>20 DEF Right

\* A group that a release had extracted returns to the list (an iteration of
\* mergeGroupsToReleaseBack).
LEMMA MergeOne ==
    ASSUME NEW old, NEW excess \in Int, NEW acc, Keeps(acc, old, excess), NEW cur,
           GroupFits(cur), BlocksIn(cur.batches) \cap old = {}
    PROVE  Keeps(MergeGroup(acc, cur), old \cup BlocksIn(cur.batches),
                 excess - Len(cur.batches) - 1)
<1>1. PICK l : l = acc.list
    OBVIOUS
<1>2. PICK base \in Int : base = cur.base
    BY GroupBatches
<1>3. PICK i : i = PlaceOf(l, base)
    OBVIOUS
<1>4. PICK r : r = MergeGroup(acc, cur)
    OBVIOUS
<1>5. /\ InOrder(l) /\ acc.used \in Int /\ l \in Seq(Groups) /\ Len(l) \in Nat
      /\ BlocksAt(Elems(l)) = old /\ acc.used = excess + Records(l) /\ Records(l) \in Nat
      /\ acc = [list |-> l, used |-> acc.used]
    BY <1>1, ListTyped, ListsFinite DEF Keeps, Lists
<1>6. PICK cs : cs = cur.batches
    OBVIOUS
<1>7. /\ BatchesFit(cs, base) /\ cs[1] # {} /\ Len(cs) \in Nat /\ cur \in Groups
      /\ BlocksIn(cs) \cap old = {}
    BY <1>2, <1>6, GroupBatches DEF GroupFits
<1>8. CASE Has(l, base)
  <2>1. i \in 1 .. Len(l) /\ l[i].base = base
      BY <1>3, <1>5, <1>8, PlaceFound
  <2>2. PICK bs : bs = l[i].batches
      OBVIOUS
  <2>3. /\ BatchesFit(bs, base) /\ BlocksIn(bs) \in SUBSET old /\ bs[1] # {}
        /\ Len(bs) \in Nat /\ l[i] \in Groups
      BY <1>5, <2>1, <2>2, PartOfList, GroupBatches DEF GroupFits
  <2>4. PICK u \in Int : u = acc.used - 1
      BY <1>5
  <2>5. PICK merged : merged = MergeBatches(bs, cs, u)
      OBVIOUS
  <2>6. BlocksIn(bs) \cap BlocksIn(cs) = {}
      BY <1>7, <2>3
  <2>7. /\ Holds(merged, base, BlocksIn(bs) \cup BlocksIn(cs), u - Len(bs) - Len(cs))
        /\ merged.batches[1] # {}
      BY <1>7, <2>3, <2>5, <2>6, MergeBoth
  <2>8. PICK g : g = [l[i] EXCEPT !.batches = merged.batches]
      OBVIOUS
  <2>9. /\ GroupFits(g) /\ g.base = base /\ g.batches = merged.batches
        /\ BlocksIn(g.batches) = BlocksIn(bs) \cup BlocksIn(cs)
        /\ merged.used = u - Len(bs) - Len(cs) + Len(g.batches)
        /\ Len(g.batches) \in Nat
    <3>1. /\ merged.batches \in Seq(SUBSET Int) /\ BatchesFit(merged.batches, base)
          /\ BlocksIn(merged.batches) = BlocksIn(bs) \cup BlocksIn(cs)
          /\ merged.used = u - Len(bs) - Len(cs) + Len(merged.batches)
        BY <2>7 DEF Holds, Batches
    <3>2. g \in Groups /\ g.base = base /\ g.batches = merged.batches
        BY <2>1, <2>3, <2>8, <3>1 DEF Groups
    <3> QED
        BY <2>7, <3>1, <3>2 DEF GroupFits
  <2>10. PICK new : new = [l EXCEPT ![i] = g]
      OBVIOUS
  <2>11. /\ new \in Seq(Groups) /\ Len(new) = Len(l) /\ new[i] = g
         /\ \A k \in 1 .. Len(l) : k # i => new[k] = l[k]
      BY <1>5, <2>1, <2>9, <2>10 DEF GroupFits
  <2>12. /\ InOrder(new)
         /\ Records(new) = Records(l) - Len(bs) + Len(g.batches)
         /\ BlocksAt(Elems(new)) = (old \ BlocksIn(bs)) \cup BlocksIn(g.batches)
    <3>1. GroupFits(g) /\ g.base = l[i].base
        BY <2>1, <2>9
    <3>2. PICK n : n = new
        OBVIOUS
    <3>3. /\ n \in Seq(Groups) /\ Len(n) = Len(l) /\ n[i] = g
          /\ \A k \in 1 .. Len(l) : k # i => n[k] = l[k]
        BY <2>11, <3>2
    <3>4. /\ InOrder(n)
          /\ Records(n) = Records(l) - Len(l[i].batches) + Len(g.batches)
          /\ BlocksAt(Elems(n)) =
               (BlocksAt(Elems(l)) \ BlocksIn(l[i].batches)) \cup BlocksIn(g.batches)
        BY <1>5, <2>1, <3>1, <3>3, ListReplace
    <3> QED
        BY <1>5, <2>2, <3>2, <3>4
  <2>13. BlocksAt(Elems(new)) = old \cup BlocksIn(cs)
      BY <2>3, <2>9, <2>12
  <2>14. r = [list |-> new, used |-> merged.used]
      BY <1>1, <1>2, <1>3, <1>4, <1>6, <1>8, <2>2, <2>4, <2>5, <2>8, <2>10 DEF MergeGroup
  <2>15. merged.used \in Int /\ merged.used = (excess - Len(cs) - 1) + Records(new)
    <3>1. PICK n1, n2, n3 \in Int : n1 = Len(bs) /\ n2 = Len(cs) /\ n3 = Len(g.batches)
        BY <1>7, <2>3, <2>9
    <3>2. PICK k1, k2 \in Int : k1 = Records(l) /\ k2 = Records(new)
        BY <1>5, <2>12, <3>1
    <3>3. u = excess + k1 - 1 /\ k2 = k1 - n1 + n3
        BY <1>5, <2>4, <2>12, <3>1, <3>2
    <3>4. merged.used = u - n1 - n2 + n3
        BY <2>9, <3>1
    <3>5. merged.used \in Int /\ merged.used = (excess - n2 - 1) + k2
        BY <3>3, <3>4
    <3> QED
        BY <3>1, <3>2, <3>5
  <2>16. r \in Lists /\ r.list = new /\ r.used = merged.used
      BY <2>11, <2>14, <2>15 DEF Lists
  <2> QED
      BY <1>4, <1>6, <2>12, <2>13, <2>15, <2>16 DEF Keeps
<1>9. CASE ~ Has(l, base)
  <2>1. PICK new : new = InsertAt(l, i, cur)
      OBVIOUS
  <2>2. /\ InOrder(new)
        /\ Records(new) = Records(l) + Len(cs) + 1
        /\ BlocksAt(Elems(new)) = old \cup BlocksIn(cs)
      BY <1>2, <1>3, <1>5, <1>6, <1>9, <2>1, ListInsert
  <2>3. r = [acc EXCEPT !.list = new]
      BY <1>1, <1>2, <1>3, <1>4, <1>9, <2>1 DEF MergeGroup
  <2>4. r.list = new /\ r.used = acc.used /\ r \in Lists
      BY <1>5, <2>2, <2>3 DEF Lists, InOrder
  <2>5. r.used = (excess - Len(cs) - 1) + Records(new)
      BY <1>5, <1>7, <2>2, <2>4
  <2> QED
      BY <1>4, <1>6, <2>2, <2>4, <2>5 DEF Keeps
<1> QED
    BY <1>8, <1>9

\* The groups of a list at some of its places.
Part(list, s) == {g \in Groups : \E i \in s : list[i] = g}

\* The places of a list taken one after the other: the last of them adds its group.
LEMMA PartGrows ==
    ASSUME NEW list, InOrder(list), NEW s \in SUBSET (1 .. Len(list)), s # {}
    PROVE  /\ Max(s) \in s /\ Max(s) \in 1 .. Len(list) /\ \A y \in s : y <= Max(s)
           /\ GroupFits(list[Max(s)]) /\ list[Max(s)] \in Groups
           /\ list[Max(s)] \notin Part(list, s \ {Max(s)})
           /\ Part(list, s) = Part(list, s \ {Max(s)}) \cup {list[Max(s)]}
           /\ Part(list, s) \in SUBSET Elems(list)
<1>1. list \in Seq(Groups) /\ Len(list) \in Nat /\ \A i \in 1 .. Len(list) : list[i] \in Groups
    BY ListTyped
<1>2. PICK i \in 1 .. Len(list) : i = Max(s)
    BY <1>1, MaxOf
<1>3. i \in s /\ \A y \in s : y <= i
    BY <1>1, <1>2, MaxOf
<1>4. GroupFits(list[i]) /\ list[i] \in Groups
    BY <1>1, OneGroupEach
<1>5. list[i] \notin Part(list, s \ {i})
    BY OneGroupEach DEF Part
<1>6. Part(list, s) = Part(list, s \ {i}) \cup {list[i]}
    BY <1>3, <1>4 DEF Part
<1>7. Part(list, s) \in SUBSET Elems(list)
    BY DEF Part, Elems
<1> QED
    BY <1>2, <1>3, <1>4, <1>5, <1>6, <1>7

\* No two groups of a list have a block in common.
LEMMA PartsApart ==
    ASSUME NEW list, InOrder(list), NEW G \in SUBSET Elems(list), NEW g \in Elems(list), g \notin G
    PROVE  BlocksIn(g.batches) \cap BlocksAt(G) = {}
<1> SUFFICES ASSUME NEW h \in G, NEW b \in BlocksIn(h.batches), b \in BlocksIn(g.batches)
             PROVE  FALSE
    BY DEF BlocksAt
<1>1. GroupFits(h) /\ GroupFits(g) /\ h.base # g.base
    BY OneGroupEach
<1> QED
    BY <1>1, GroupBatches

\* The records of a fold over a list of groups: what is left of MergeBack when its definition
\* is expanded.
LEMMA MergeBackFold ==
    ASSUME NEW list, NEW groups, NEW used
    PROVE  MergeBack(list, groups, used) =
             (CHOOSE f : f = [s \in SUBSET DOMAIN groups |->
                IF s = {} THEN [list |-> list, used |-> used]
                ELSE MergeGroup(f[s \ {Max(s)}], groups[Max(s)])])[DOMAIN groups]
BY DEF MergeBack, FoldLeft, MapThenFoldSet

\* When a release is over the list has the blocks of its groups again, each once, and the
\* records in use are those it has (mergeGroupsToReleaseBack).
LEMMA MergeAll ==
    ASSUME NEW l, InOrder(l), NEW groups, InOrder(groups), NEW used \in Int,
           BlocksAt(Elems(l)) \cap BlocksAt(Elems(groups)) = {}
    PROVE  Keeps(MergeBack(l, groups, used), BlocksAt(Elems(l)) \cup BlocksAt(Elems(groups)),
                 used - Records(l) - Records(groups))
<1>1. PICK excess \in Int : excess = used - Records(l)
  <2>1. used - Records(l) \in Int
      BY ListsFinite
  <2> QED
      BY <2>1
<1>2. PICK old : old = BlocksAt(Elems(l))
    OBVIOUS
<1>3. PICK start : start = [list |-> l, used |-> used]
    OBVIOUS
<1>4. PICK n \in Nat : n = Len(groups) /\ DOMAIN groups = 1 .. n
    BY ListTyped
<1>5. PICK S : S = 1 .. n
    OBVIOUS
<1>6. IsFiniteSet(S)
    BY <1>5, FS_Interval
<1> DEFINE ch         == [s \in SUBSET S |-> Max(s)]
           Size(s)    == Cardinality(Slots(Part(groups, s)))
           Right(s, v) == Keeps(v, old \cup BlocksAt(Part(groups, s)), excess - Size(s))
           D          == [s \in SUBSET S |-> {v \in Lists : Right(s, v)}]
           h          == [p \in S \X Lists |-> MergeGroup(p[2], groups[p[1]])]
           Eq(f)      == f = [s \in SUBSET S |->
                                IF s = {} THEN start
                                ELSE MergeGroup(f[s \ {Max(s)}], groups[Max(s)])]
<1>7. \A s \in SUBSET S : s # {} => ch[s] = Max(s) /\ ch[s] \in s
    BY <1>4, <1>5, MaxOf
<1>8. \A s \in SUBSET S : \A v : v \in D[s] <=> v \in Lists /\ Right(s, v)
    OBVIOUS
<1>9. \A i \in S, v \in Lists : h[<<i, v>>] = MergeGroup(v, groups[i])
    OBVIOUS
<1>10. \A s \in SUBSET S : D[s] \in SUBSET Lists
    OBVIOUS
<1>11. start \in D[{}]
  <2>1. start \in Lists /\ start.list = l /\ start.used = excess + Records(l)
      BY <1>1, <1>3, ListTyped, ListsFinite DEF Lists
  <2>2. Part(groups, {}) = {}
      BY DEF Part
  <2>3. BlocksAt({}) = {} /\ Slots({}) = {}
      BY DEF BlocksAt, Slots
  <2>4. Size({}) = 0
      BY <2>2, <2>3, FS_EmptySet
  <2>5. old \cup BlocksAt(Part(groups, {})) = old /\ excess - Size({}) = excess
      BY <2>2, <2>3, <2>4
  <2>6. Keeps(start, old, excess)
      BY <1>2, <2>1 DEF Keeps
  <2>7. Right({}, start)
      BY <2>5, <2>6
  <2> HIDE DEF D, Right
  <2> QED
      BY <1>8, <2>1, <2>7
<1>12. ASSUME NEW s \in SUBSET S, s # {}, NEW v \in D[s \ {ch[s]}]
       PROVE  MergeGroup(v, groups[ch[s]]) \in D[s]
  <2>1. PICK x \in S : x = Max(s) /\ x = ch[s] /\ x \in s
      BY <1>7, <1>12
  <2>2. PICK less \in SUBSET S : less = s \ {x}
      OBVIOUS
  <2>3. PICK G : G = Part(groups, less)
      OBVIOUS
  <2>4. PICK cur : cur = groups[x]
      OBVIOUS
  <2>5. /\ GroupFits(cur) /\ cur \in Groups /\ cur \in Elems(groups) /\ cur \notin G
        /\ G \in SUBSET Elems(groups) /\ Part(groups, s) = G \cup {cur}
    <3>1. s \in SUBSET (1 .. Len(groups))
        BY <1>4, <1>5
    <3>2. /\ GroupFits(cur) /\ cur \in Groups /\ cur \notin G
          /\ Part(groups, s) = G \cup {cur} /\ Part(groups, s) \in SUBSET Elems(groups)
        BY <1>12, <2>1, <2>2, <2>3, <2>4, <3>1, PartGrows
    <3> QED
        BY <3>2
  <2>6. IsFiniteSet(Slots(G)) /\ G \in SUBSET Groups
    <3>1. Slots(G) \in SUBSET Slots(Elems(groups)) /\ G \in SUBSET Groups
        BY <2>5, OneGroupEach DEF Slots
    <3> QED
        BY <3>1, ListsFinite, FS_Subset
  <2>7. PICK k \in Nat : k = Cardinality(Slots(G))
      BY <2>6, FS_CardinalityType
  <2>8. PICK m \in Nat : m = Len(cur.batches)
      BY <2>5, GroupBatches
  <2>9. Size(s) = k + m + 1
    <3>1. Cardinality(Slots(G \cup {cur})) = Cardinality(Slots(G)) + Len(cur.batches) + 1
        BY <2>5, <2>6, RecordsOfMore
    <3> QED
        BY <2>5, <2>7, <2>8, <3>1
  <2>10. Keeps(v, old \cup BlocksAt(G), excess - k)
    <3>1. Right(less, v)
      <4> HIDE DEF D, Right, ch
      <4> QED
          BY <1>8, <1>12, <2>1, <2>2
    <3> QED
        BY <2>3, <2>7, <3>1
  <2>11. PICK known : known = old \cup BlocksAt(G)
      OBVIOUS
  <2>12. BlocksIn(cur.batches) \cap known = {}
    <3>1. BlocksIn(cur.batches) \cap BlocksAt(G) = {}
        BY <2>5, PartsApart
    <3>2. BlocksIn(cur.batches) \in SUBSET BlocksAt(Elems(groups))
        BY <2>5 DEF BlocksAt, BlocksIn
    <3> QED
        BY <1>2, <2>11, <3>1, <3>2
  <2>13. PICK e \in Int : e = excess - k
      OBVIOUS
  <2>14. PICK r : r = MergeGroup(v, cur)
      OBVIOUS
  <2>15. Keeps(r, known \cup BlocksIn(cur.batches), e - Len(cur.batches) - 1)
      BY <2>5, <2>10, <2>11, <2>12, <2>13, <2>14, MergeOne
  <2>16. known \cup BlocksIn(cur.batches) = old \cup BlocksAt(Part(groups, s))
    <3>1. BlocksAt(G \cup {cur}) = BlocksAt(G) \cup BlocksIn(cur.batches)
        BY DEF BlocksAt, BlocksIn
    <3> QED
        BY <2>5, <2>11, <3>1
  <2>17. e - Len(cur.batches) - 1 = excess - Size(s)
      BY <2>8, <2>9, <2>13
  <2>18. Right(s, r) /\ r \in Lists
      BY <2>15, <2>16, <2>17 DEF Keeps
  <2> HIDE DEF D, Right, ch
  <2> QED
      BY <1>8, <2>1, <2>4, <2>14, <2>18
<1> HIDE DEF ch, D, h, Right, Size
<1>13. \E f : Eq(f)
  <2>1. ASSUME NEW s \in SUBSET S, s # {}
        PROVE  ch[s] \in s /\ \A v \in D[s \ {ch[s]}] : h[<<ch[s], v>>] \in D[s]
    <3>1. ch[s] \in S /\ s \ {ch[s]} \in SUBSET S /\ ch[s] \in s
        BY <1>7, <2>1
    <3>2. ASSUME NEW v \in D[s \ {ch[s]}]
          PROVE  h[<<ch[s], v>>] \in D[s]
      <4>1. v \in Lists
          BY <1>10, <3>1
      <4>2. h[<<ch[s], v>>] = MergeGroup(v, groups[ch[s]])
          BY <1>9, <3>1, <4>1
      <4> QED
          BY <1>12, <2>1, <4>2
    <3> QED
        BY <3>1, <3>2
  <2>2. PICK f : IsFold(f, S, ch, start, h) /\ \A s \in SUBSET S : f[s] \in D[s]
      BY <1>6, <1>11, <2>1, FoldWithin
  <2>3. ASSUME NEW s \in SUBSET S, s # {}
        PROVE  h[<<ch[s], f[s \ {ch[s]}]>>] = MergeGroup(f[s \ {Max(s)}], groups[Max(s)])
    <3>1. ch[s] \in S /\ s \ {ch[s]} \in SUBSET S
        BY <1>7, <2>3
    <3>2. f[s \ {ch[s]}] \in Lists
        BY <1>10, <2>2, <3>1
    <3>3. h[<<ch[s], f[s \ {ch[s]}]>>] = MergeGroup(f[s \ {ch[s]}], groups[ch[s]])
        BY <1>9, <3>1, <3>2
    <3> QED
        BY <1>7, <2>3, <3>3
  <2>4. Eq(f)
      BY <2>2, <2>3 DEF IsFold
  <2> QED
      BY <2>4
<1>14. PICK f : f = (CHOOSE g : Eq(g))
    OBVIOUS
<1>15. Eq(f)
  <2> HIDE DEF Eq
  <2> QED
      BY <1>13, <1>14
<1>16. f[{}] = start
    BY <1>15
<1>17. \A s \in SUBSET S : s # {} => f[s] = MergeGroup(f[s \ {ch[s]}], groups[ch[s]])
    BY <1>7, <1>15
<1>18. f[S] = MergeBack(l, groups, used)
    BY <1>3, <1>4, <1>5, <1>14, MergeBackFold
<1> HIDE DEF Eq
<1>19. \A s \in SUBSET S : f[s] \in D[s]
  <2>1. ASSUME NEW s \in SUBSET S, s # {}
        PROVE  ch[s] \in s /\ (f[s \ {ch[s]}] \in D[s \ {ch[s]}] => f[s] \in D[s])
    <3>1. ASSUME f[s \ {ch[s]}] \in D[s \ {ch[s]}]
          PROVE  MergeGroup(f[s \ {ch[s]}], groups[ch[s]]) \in D[s]
        BY <1>12, <2>1, <3>1
    <3> QED
        BY <1>7, <1>17, <2>1, <3>1
  <2>2. f[{}] \in D[{}]
      BY <1>11, <1>16
  <2> QED
      BY <1>6, <2>1, <2>2, SubsetInduction
<1>20. Right(S, f[S])
    BY <1>8, <1>19
<1>21. Part(groups, S) = Elems(groups)
    BY <1>4, <1>5 DEF Part, Elems
<1>22. excess - Size(S) = used - Records(l) - Records(groups)
    BY <1>1, <1>21 DEF Size, Records
<1> QED
    BY <1>2, <1>18, <1>20, <1>21, <1>22 DEF Right

\* A group behind the others (releaseToOSMaybe appends the groups it takes).
LEMMA ListAppend ==
    ASSUME NEW v, InOrder(v), NEW g, GroupFits(g), \A x \in Elems(v) : x.base < g.base
    PROVE  InOrder(Append(v, g)) /\ Elems(Append(v, g)) = Elems(v) \cup {g}
<1>1. /\ v \in Seq(Groups) /\ Len(v) \in Nat /\ g \in Groups
      /\ \A k, m \in 1 .. Len(v) : k < m => v[k].base < v[m].base
      /\ \A k \in 1 .. Len(v) : GroupFits(v[k]) /\ v[k].base < g.base /\ v[k] \in Elems(v)
    BY ListTyped, GroupBatches, OneGroupEach
<1>2. PICK r : r = Append(v, g)
    OBVIOUS
<1>3. /\ r \in Seq(Groups) /\ Len(r) = Len(v) + 1 /\ r[Len(v) + 1] = g
      /\ \A k \in 1 .. Len(v) : r[k] = v[k]
    BY <1>1, <1>2
<1>4. PICK n \in Nat : n = Len(v)
    BY <1>1
<1>5. \A k \in 1 .. n + 1 : k \in 1 .. n \/ k = n + 1
    OBVIOUS
<1>6. \A k \in 1 .. n + 1 : GroupFits(r[k])
    BY <1>1, <1>3, <1>4, <1>5
<1>7. ASSUME NEW k \in 1 .. n + 1, NEW m \in 1 .. n + 1, k < m PROVE r[k].base < r[m].base
  <2>1. k \in 1 .. n
      BY <1>7
  <2>2. CASE m \in 1 .. n
      BY <1>1, <1>3, <1>4, <1>7, <2>1, <2>2
  <2>3. CASE m = n + 1
      BY <1>1, <1>3, <1>4, <2>1, <2>3
  <2> QED
      BY <1>5, <2>2, <2>3
<1>8. InOrder(r)
    BY <1>3, <1>4, <1>6, <1>7 DEF InOrder
<1>9. Elems(r) = Elems(v) \cup {g}
  <2>1. ASSUME NEW x \in Elems(r) PROVE x \in Elems(v) \cup {g}
    <3>1. PICK k \in 1 .. n + 1 : r[k] = x
        BY <1>3, <1>4 DEF Elems
    <3> QED
        BY <1>1, <1>3, <1>4, <1>5, <3>1
  <2>2. ASSUME NEW x \in Elems(v) PROVE x \in Elems(r)
    <3>1. PICK k \in 1 .. n : v[k] = x
        BY <1>4 DEF Elems
    <3>2. r[k] = x /\ k \in 1 .. Len(r)
        BY <1>3, <1>4, <3>1
    <3> QED
        BY <2>2, <3>2 DEF Elems
  <2>3. g \in Elems(r)
    <3>1. n + 1 \in 1 .. Len(r) /\ r[n + 1] = g
        BY <1>3, <1>4
    <3> QED
        BY <1>1, <3>1 DEF Elems
  <2> QED
      BY <2>1, <2>2, <2>3
<1> QED
    BY <1>2, <1>8, <1>9

\* The records of a fold that picks groups of the list: what is left of GroupsAt when its
\* definition is expanded.
LEMMA GroupsAtFold ==
    ASSUME NEW bases
    PROVE  GroupsAt(bases) =
             (CHOOSE f : f = [s \in SUBSET DOMAIN blockList |->
                IF s = {} THEN <<>>
                ELSE IF blockList[Max(s)].base \in bases
                     THEN Append(f[s \ {Max(s)}], blockList[Max(s)])
                     ELSE f[s \ {Max(s)}]])[DOMAIN blockList]
BY DEF GroupsAt, FoldLeft, MapThenFoldSet

\* Picking groups of a list that is in order gives a list in order, of those groups
\* (collectGroupsToRelease).
LEMMA GroupsPicked ==
    ASSUME NEW bases, InOrder(blockList)
    PROVE  /\ InOrder(GroupsAt(bases))
           /\ Elems(GroupsAt(bases)) = {g \in Elems(blockList) : g.base \in bases}
<1>1. PICK l : l = blockList
    OBVIOUS
<1>2. PICK n \in Nat : n = Len(l) /\ DOMAIN l = 1 .. n
    BY <1>1, ListTyped
<1>3. PICK S : S = 1 .. n
    OBVIOUS
<1>4. IsFiniteSet(S) /\ InOrder(l)
    BY <1>1, <1>3, FS_Interval
<1>5. PICK start : start = <<>>
    OBVIOUS
<1> DEFINE ch         == [s \in SUBSET S |-> Max(s)]
           Step(i, v) == IF l[i].base \in bases THEN Append(v, l[i]) ELSE v
           Picked(s)  == {g \in Part(l, s) : g.base \in bases}
           Right(s, v) == InOrder(v) /\ Elems(v) = Picked(s)
           D          == [s \in SUBSET S |-> {v \in Seq(Groups) : Right(s, v)}]
           h          == [p \in S \X Seq(Groups) |-> Step(p[1], p[2])]
           Eq(f)      == f = [s \in SUBSET S |->
                                IF s = {} THEN start ELSE Step(Max(s), f[s \ {Max(s)}])]
<1>6. \A s \in SUBSET S : s # {} => ch[s] = Max(s) /\ ch[s] \in s
    BY <1>3, MaxOf
<1>7. \A s \in SUBSET S : \A v : v \in D[s] <=> v \in Seq(Groups) /\ Right(s, v)
    OBVIOUS
<1>8. \A i \in S, v \in Seq(Groups) : h[<<i, v>>] = Step(i, v)
    OBVIOUS
<1>9. \A s \in SUBSET S : D[s] \in SUBSET Seq(Groups)
    OBVIOUS
<1>10. start \in D[{}]
  <2>1. <<>> \in Seq(Groups) /\ Len(<<>>) = 0
      OBVIOUS
  <2>2. start \in Seq(Groups) /\ Len(start) = 0
      BY <1>5, <2>1
  <2>3. InOrder(start) /\ Elems(start) = {}
      BY <2>2 DEF InOrder, Elems
  <2>4. Picked({}) = {}
      BY DEF Part
  <2>5. Right({}, start)
      BY <2>3, <2>4
  <2> HIDE DEF D, Right
  <2> QED
      BY <1>7, <2>2, <2>5
<1>11. ASSUME NEW s \in SUBSET S, s # {}, NEW v \in D[s \ {ch[s]}]
       PROVE  Step(ch[s], v) \in D[s]
  <2>1. PICK x \in S : x = Max(s) /\ x = ch[s] /\ x \in s
      BY <1>6, <1>11
  <2>2. PICK less \in SUBSET S : less = s \ {x}
      OBVIOUS
  <2>3. PICK g : g = l[x]
      OBVIOUS
  <2>4. s \in SUBSET (1 .. Len(l)) /\ x \in 1 .. Len(l)
      BY <1>2, <1>3
  <2>5. GroupFits(g) /\ g \in Groups /\ Part(l, s) = Part(l, less) \cup {g}
      BY <1>4, <1>11, <2>1, <2>2, <2>3, <2>4, PartGrows
  <2>6. \A y \in less : y < x /\ y \in 1 .. Len(l)
    <3>1. \A y \in s : y <= x
      <4>1. x \in s /\ \A y \in s : x >= y
          BY <1>3, <1>11, <2>1, MaxOf
      <4> QED
          BY <1>3, <4>1
    <3> QED
        BY <1>3, <2>2, <2>4, <3>1
  <2>7. \A k \in Part(l, less) : k.base < g.base
      BY <1>4, <2>3, <2>4, <2>6, ListTyped DEF Part
  <2>8. Right(less, v) /\ v \in Seq(Groups)
    <3> HIDE DEF D, Right, ch
    <3> QED
        BY <1>7, <1>11, <2>1, <2>2
  <2>9. InOrder(v) /\ Elems(v) = Picked(less)
      BY <2>8
  <2>10. \A k \in Elems(v) : k.base < g.base
      BY <2>7, <2>9
  <2>11. PICK r : r = Step(x, v)
      OBVIOUS
  <2>12. Right(s, r) /\ r \in Seq(Groups)
    <3>1. CASE g.base \in bases
      <4>1. r = Append(v, g)
          BY <2>3, <2>11, <3>1
      <4>2. InOrder(Append(v, g)) /\ Elems(Append(v, g)) = Elems(v) \cup {g}
          BY <2>5, <2>9, <2>10, ListAppend
      <4>3. Picked(s) = Picked(less) \cup {g}
          BY <2>5, <3>1
      <4> QED
          BY <2>9, <4>1, <4>2, <4>3 DEF InOrder
    <3>2. CASE g.base \notin bases
      <4>1. r = v
          BY <2>3, <2>11, <3>2
      <4>2. Picked(s) = Picked(less)
          BY <2>5, <3>2
      <4> QED
          BY <2>8, <2>9, <4>1, <4>2
    <3> QED
        BY <3>1, <3>2
  <2> HIDE DEF D, Right, ch, Step
  <2> QED
      BY <1>7, <2>1, <2>11, <2>12
<1>12. GroupsAt(bases) = (CHOOSE f : Eq(f))[S]
    BY <1>1, <1>2, <1>3, <1>5, GroupsAtFold
<1> HIDE DEF ch, D, h, Right, Step, Picked
<1>13. \E f : Eq(f)
  <2>1. ASSUME NEW s \in SUBSET S, s # {}
        PROVE  ch[s] \in s /\ \A v \in D[s \ {ch[s]}] : h[<<ch[s], v>>] \in D[s]
    <3>1. ch[s] \in S /\ s \ {ch[s]} \in SUBSET S /\ ch[s] \in s
        BY <1>6, <2>1
    <3>2. ASSUME NEW v \in D[s \ {ch[s]}]
          PROVE  h[<<ch[s], v>>] \in D[s]
      <4>1. v \in Seq(Groups)
          BY <1>9, <3>1
      <4>2. h[<<ch[s], v>>] = Step(ch[s], v)
          BY <1>8, <3>1, <4>1
      <4> QED
          BY <1>11, <2>1, <4>2
    <3> QED
        BY <3>1, <3>2
  <2>2. PICK f : IsFold(f, S, ch, start, h) /\ \A s \in SUBSET S : f[s] \in D[s]
      BY <1>4, <1>10, <2>1, FoldWithin
  <2>3. ASSUME NEW s \in SUBSET S, s # {}
        PROVE  h[<<ch[s], f[s \ {ch[s]}]>>] = Step(Max(s), f[s \ {Max(s)}])
    <3>1. ch[s] \in S /\ s \ {ch[s]} \in SUBSET S
        BY <1>6, <2>3
    <3>2. f[s \ {ch[s]}] \in Seq(Groups)
        BY <1>9, <2>2, <3>1
    <3>3. h[<<ch[s], f[s \ {ch[s]}]>>] = Step(ch[s], f[s \ {ch[s]}])
        BY <1>8, <3>1, <3>2
    <3> QED
        BY <1>6, <2>3, <3>3
  <2>4. Eq(f)
      BY <2>2, <2>3 DEF IsFold
  <2> QED
      BY <2>4
<1>14. PICK f : f = (CHOOSE g : Eq(g))
    OBVIOUS
<1>15. Eq(f)
  <2> HIDE DEF Eq
  <2> QED
      BY <1>13, <1>14
<1>16. f[{}] = start
    BY <1>15
<1>17. \A s \in SUBSET S : s # {} => f[s] = Step(ch[s], f[s \ {ch[s]}])
    BY <1>6, <1>15
<1>18. f[S] = GroupsAt(bases)
  <2> HIDE DEF Eq
  <2> QED
      BY <1>12, <1>14
<1> HIDE DEF Eq
<1>19. \A s \in SUBSET S : f[s] \in D[s]
  <2>1. ASSUME NEW s \in SUBSET S, s # {}
        PROVE  ch[s] \in s /\ (f[s \ {ch[s]}] \in D[s \ {ch[s]}] => f[s] \in D[s])
    <3>1. ASSUME f[s \ {ch[s]}] \in D[s \ {ch[s]}]
          PROVE  Step(ch[s], f[s \ {ch[s]}]) \in D[s]
        BY <1>11, <2>1, <3>1
    <3> QED
        BY <1>6, <1>17, <2>1, <3>1
  <2>2. f[{}] \in D[{}]
      BY <1>10, <1>16
  <2> QED
      BY <1>4, <2>1, <2>2, SubsetInduction
<1>20. Right(S, f[S])
    BY <1>7, <1>19
<1>21. Part(l, S) = Elems(blockList)
    BY <1>1, <1>2, <1>3 DEF Part, Elems
<1> QED
    BY <1>18, <1>20, <1>21 DEF Right, Picked

\* What a release takes and what it leaves are the groups of the list, their blocks and
\* their records, without one in common (releaseToOSMaybe).
LEMMA ListSplits ==
    ASSUME NEW l, InOrder(l), NEW a, InOrder(a), NEW b, InOrder(b),
           Elems(a) \cap Elems(b) = {}, Elems(a) \cup Elems(b) = Elems(l)
    PROVE  /\ BlocksAt(Elems(a)) \cup BlocksAt(Elems(b)) = BlocksAt(Elems(l))
           /\ BlocksAt(Elems(a)) \cap BlocksAt(Elems(b)) = {}
           /\ Records(a) + Records(b) = Records(l)
<1>1. PICK A, B \in SUBSET Elems(l) :
         /\ A = Elems(a) /\ B = Elems(b) /\ A \cap B = {} /\ A \cup B = Elems(l)
  <2>1. Elems(a) \in SUBSET Elems(l) /\ Elems(b) \in SUBSET Elems(l)
      OBVIOUS
  <2> QED
      BY <2>1
<1>2. BlocksAt(A) \cup BlocksAt(B) = BlocksAt(Elems(l))
    BY <1>1 DEF BlocksAt
<1>3. BlocksAt(A) \cap BlocksAt(B) = {}
  <2> SUFFICES ASSUME NEW x \in BlocksAt(A), x \in BlocksAt(B) PROVE FALSE
      OBVIOUS
  <2>1. PICK g \in A : x \in BlocksIn(g.batches)
      BY DEF BlocksAt
  <2>2. g \in Elems(l) /\ g \notin B
      BY <1>1
  <2>3. BlocksIn(g.batches) \cap BlocksAt(B) = {}
      BY <2>2, PartsApart
  <2> QED
      BY <2>1, <2>3
<1>4. Records(a) + Records(b) = Records(l)
  <2>1. PICK P, Q : P = Slots(A) /\ Q = Slots(B)
      OBVIOUS
  <2>2. P \cap Q = {}
      BY <1>1, <2>1 DEF Slots
  <2>3. P \cup Q = Slots(Elems(l))
      BY <1>1, <2>1 DEF Slots
  <2>4. IsFiniteSet(P) /\ IsFiniteSet(Q)
      BY <1>1, <2>1, ListsFinite
  <2>5. Cardinality(P \cup Q) = Cardinality(P) + Cardinality(Q) - Cardinality(P \cap Q)
      BY <2>4, FS_Union
  <2>6. Cardinality(P \cap Q) = 0 /\ Cardinality(P) \in Nat /\ Cardinality(Q) \in Nat
      BY <2>2, <2>4, FS_EmptySet, FS_CardinalityType
  <2>7. Records(a) = Cardinality(P) /\ Records(b) = Cardinality(Q)
      BY <1>1, <2>1 DEF Records
  <2>8. Records(l) = Cardinality(P \cup Q)
      BY <2>3 DEF Records
  <2> QED
      BY <2>5, <2>6, <2>7, <2>8
<1> QED
    BY <1>1, <1>2, <1>3, <1>4

\* The groups chosen for a release and the others (the two lists of TakeGroups).
LEMMA GroupsTaken ==
    ASSUME InOrder(blockList), NEW chosen, NEW a, a = GroupsAt(chosen),
           NEW b, b = GroupsAt({g.base : g \in ToSet(blockList)} \ chosen)
    PROVE  /\ InOrder(a) /\ InOrder(b)
           /\ BlocksAt(Elems(a)) \cup BlocksAt(Elems(b)) = BlocksAt(Elems(blockList))
           /\ BlocksAt(Elems(a)) \cap BlocksAt(Elems(b)) = {}
           /\ Records(a) + Records(b) = Records(blockList)
<1>1. PICK others : others = {g.base : g \in ToSet(blockList)} \ chosen
    OBVIOUS
<1>2. PICK L : L = Elems(blockList) /\ L = ToSet(blockList)
    BY ListTyped, ElemsOf
<1>3. InOrder(a) /\ Elems(a) = {g \in L : g.base \in chosen}
    BY <1>2, GroupsPicked
<1>4. InOrder(b) /\ Elems(b) = {g \in L : g.base \in others}
    BY <1>1, <1>2, GroupsPicked
<1>5. \A g \in L : g.base \in others <=> g.base \notin chosen
    BY <1>1, <1>2
<1>6. Elems(a) \cap Elems(b) = {} /\ Elems(a) \cup Elems(b) = Elems(blockList)
    BY <1>2, <1>3, <1>4, <1>5
<1>7. PICK p, q, l : p = a /\ q = b /\ l = blockList
    OBVIOUS
<1>8. /\ InOrder(l) /\ InOrder(p) /\ InOrder(q)
      /\ Elems(p) \cap Elems(q) = {} /\ Elems(p) \cup Elems(q) = Elems(l)
    BY <1>3, <1>4, <1>6, <1>7
<1>9. /\ BlocksAt(Elems(p)) \cup BlocksAt(Elems(q)) = BlocksAt(Elems(l))
      /\ BlocksAt(Elems(p)) \cap BlocksAt(Elems(q)) = {}
      /\ Records(p) + Records(q) = Records(l)
    BY <1>8, ListSplits
<1> QED
    BY <1>7, <1>8, <1>9

-----------------------------------------------------------------------------
(* Counting blocks.                                                        *)

\* Sets of the same size, as the full batches of a group are.
LEMMA EqualSizes ==
    ASSUME NEW n \in Nat, NEW V, NEW w, Apart(V, w, n), NEW m \in Nat,
           \A i \in 1 .. n : Cardinality(w[i]) = m
    PROVE  /\ IsFiniteSet(Covered(V, 1 .. n, w))
           /\ Cardinality(Covered(V, 1 .. n, w)) = n * m
<1>1. PICK S : S = 1 .. n
    OBVIOUS
<1>2. IsFiniteSet(S) /\ Cardinality(S) = n
    BY <1>1, FS_Interval
<1>3. PICK c \in [1 .. n -> Nat] : \A i \in 1 .. n : c[i] = m
  <2>1. [i \in 1 .. n |-> m] \in [1 .. n -> Nat]
      OBVIOUS
  <2> QED
      BY <2>1
<1>4. PICK f : f = [s \in SUBSET (1 .. n) |-> IF s = {} THEN 0 ELSE f[s \ {Max(s)}] + c[Max(s)]]
    BY SumExists
<1>5. f[{}] = 0
    BY <1>4
<1>6. \A s \in SUBSET S : s # {} => Max(s) \in s /\ f[s] = f[s \ {Max(s)}] + m
  <2> SUFFICES ASSUME NEW s \in SUBSET S, s # {}
               PROVE  Max(s) \in s /\ f[s] = f[s \ {Max(s)}] + m
      OBVIOUS
  <2>1. Max(s) \in s
      BY <1>1, MaxOf
  <2>2. f[s] = f[s \ {Max(s)}] + c[Max(s)]
      BY <1>1, <1>4
  <2> QED
      BY <1>1, <1>3, <2>1, <2>2
<1>7. AddsSizes(f, w, n)
    BY <1>1, <1>5, <1>6 DEF AddsSizes
<1>8. /\ IsFiniteSet(Covered(V, 1 .. n, w))
      /\ f[1 .. n] = Cardinality(Covered(V, 1 .. n, w))
    BY <1>7, SumOfSizes
<1>9. PICK D : D = [s \in SUBSET S |-> {Cardinality(s) * m}]
    OBVIOUS
<1>10. PICK ch : ch = [s \in SUBSET S |-> Max(s)]
    OBVIOUS
<1>11. f[{}] \in D[{}]
  <2>1. D[{}] = {Cardinality({}) * m} /\ Cardinality({}) = 0
      BY <1>9, FS_EmptySet
  <2>2. 0 * m = 0
      OBVIOUS
  <2> QED
      BY <1>5, <2>1, <2>2
<1>12. ASSUME NEW s \in SUBSET S, s # {}
       PROVE  ch[s] \in s /\ (f[s \ {ch[s]}] \in D[s \ {ch[s]}] => f[s] \in D[s])
  <2>1. PICK x \in s : x = Max(s) /\ x = ch[s]
      BY <1>6, <1>10, <1>12
  <2>2. PICK k \in Nat : k = Cardinality(s)
      BY <1>2, PartSizes
  <2>3. Cardinality(s \ {x}) = k - 1
      BY <1>2, <2>1, <2>2, PartSizes
  <2>4. D[s] = {k * m} /\ D[s \ {x}] = {(k - 1) * m}
      BY <1>9, <2>2, <2>3
  <2>5. (k - 1) * m + m = k * m
      OBVIOUS
  <2>6. f[s] = f[s \ {x}] + m
      BY <1>6, <1>12, <2>1
  <2> QED
      BY <2>1, <2>4, <2>5, <2>6
<1>13. f[S] \in D[S]
  <2>1. \A s \in SUBSET S : f[s] \in D[s]
      BY <1>2, <1>11, <1>12, SubsetInduction
  <2> QED
      BY <2>1
<1>14. f[S] = n * m
    BY <1>2, <1>9, <1>13
<1> QED
    BY <1>1, <1>8, <1>14

\* The blocks of a group, counted as the release code does: the batches behind the first are
\* full (NumBlocks in collectGroupsToRelease and markFreeBlocks).
LEMMA GroupCounts ==
    ASSUME NEW g, GroupFits(g)
    PROVE  /\ BlocksOf(g) = BlocksIn(g.batches)
           /\ IsFiniteSet(BlocksIn(g.batches))
           /\ BlocksIn(g.batches) # {}
           /\ {} \notin ToSet(g.batches)
           /\ NumBlocks(g) = Cardinality(BlocksIn(g.batches))
           /\ Apart(Int, g.batches, Len(g.batches))
<1>1. PICK base, bs : base = g.base /\ bs = g.batches
    OBVIOUS
<1>2. PICK first, rest : first = Head(bs) /\ rest = Tail(bs)
    OBVIOUS
<1>3. BatchesFit(bs, base) /\ bs[1] # {}
    BY <1>1 DEF GroupFits
<1>4. /\ bs \in Seq(SUBSET Int) /\ Len(bs) \in Nat /\ Len(bs) >= 1
      /\ bs[1] = first /\ BatchFits(first, base) /\ Packed(rest, base)
      /\ rest \in Seq(SUBSET Int) /\ first \cap BlocksIn(rest) = {}
      /\ Len(rest) = Len(bs) - 1
      /\ BlocksIn(bs) = first \cup BlocksIn(rest)
    BY <1>2, <1>3, BatchesSplit
<1>5. PICK n \in Nat : n = Len(rest)
    BY <1>4
<1>6. PICK m \in Nat : m = MaxNumCached /\ m >= 1
    BY MaxNumCachedPositive
<1>7. \A i \in 1 .. n : rest[i] \in SUBSET Int /\ IsFiniteSet(rest[i]) /\ Cardinality(rest[i]) = m
    BY <1>4, <1>5, <1>6 DEF Packed, BatchFits, Full
<1>8. Apart(Int, rest, n)
  <2>1. rest \in [1 .. n -> SUBSET Int]
      BY <1>4, <1>5
  <2> QED
      BY <1>4, <1>5, <1>7, <2>1 DEF Packed, Apart
<1>9. Covered(Int, 1 .. n, rest) = BlocksIn(rest)
    BY <1>5 DEF Covered, BlocksIn
<1>10. IsFiniteSet(BlocksIn(rest)) /\ Cardinality(BlocksIn(rest)) = n * m
    BY <1>7, <1>8, <1>9, EqualSizes
<1>11. IsFiniteSet(first) /\ first \in SUBSET Int /\ first # {}
    BY <1>3, <1>4 DEF BatchFits
<1>12. /\ IsFiniteSet(BlocksIn(bs))
       /\ Cardinality(BlocksIn(bs)) = n * m + Cardinality(first)
  <2>1. PICK P, Q : P = first /\ Q = BlocksIn(rest)
      OBVIOUS
  <2>2. /\ IsFiniteSet(P \cup Q)
        /\ Cardinality(P \cup Q) = Cardinality(P) + Cardinality(Q) - Cardinality(P \cap Q)
      BY <1>10, <1>11, <2>1, FS_Union
  <2>3. Cardinality(P \cap Q) = 0 /\ Cardinality(P) \in Nat
      BY <1>4, <1>11, <2>1, FS_EmptySet, FS_CardinalityType
  <2>4. PICK k \in Nat : k = n * m
      OBVIOUS
  <2>5. Cardinality(Q) = k
      BY <1>10, <2>1, <2>4
  <2>6. Cardinality(P \cup Q) = k + Cardinality(P)
      BY <2>2, <2>3, <2>5
  <2> QED
      BY <1>4, <2>1, <2>2, <2>4, <2>6
<1>13. NumBlocks(g) = n * m + Cardinality(first)
  <2>1. NumBlocks(g) = (Len(bs) - 1) * MaxNumCached + Cardinality(Head(bs))
      BY <1>1 DEF NumBlocks
  <2> QED
      BY <1>2, <1>4, <1>5, <1>6, <2>1
<1>14. \A i \in 1 .. Len(bs) : bs[i] \in SUBSET Int /\ IsFiniteSet(bs[i]) /\ bs[i] # {}
  <2> SUFFICES ASSUME NEW i \in 1 .. Len(bs)
               PROVE  bs[i] \in SUBSET Int /\ IsFiniteSet(bs[i]) /\ bs[i] # {}
      OBVIOUS
  <2>1. CASE i = 1
      BY <1>4, <1>11, <2>1
  <2>2. CASE i # 1
    <3>1. bs[i] = rest[i - 1] /\ i - 1 \in 1 .. n
        BY <1>2, <1>4, <1>5, <2>2
    <3>2. bs[i] \in SUBSET Int /\ IsFiniteSet(bs[i]) /\ Cardinality(bs[i]) = m
        BY <1>7, <3>1
    <3> QED
        BY <1>6, <3>2, FS_EmptySet
  <2> QED
      BY <2>1, <2>2
<1>15. \A i, j \in 1 .. Len(bs) : i # j => bs[i] \cap bs[j] = {}
  <2>1. \A i \in 1 .. Len(bs) : i # 1 => bs[i] = rest[i - 1] /\ i - 1 \in 1 .. n
      BY <1>2, <1>4, <1>5
  <2>2. \A i \in 1 .. n : rest[i] \in SUBSET BlocksIn(rest)
      BY <1>5, <1>7 DEF BlocksIn
  <2>3. \A i \in 1 .. Len(bs) : i # 1 => bs[i] \in SUBSET BlocksIn(rest)
      BY <2>1, <2>2
  <2>4. \A i, j \in 1 .. n : i # j => rest[i] \cap rest[j] = {}
      BY <1>8 DEF Apart
  <2> SUFFICES ASSUME NEW i \in 1 .. Len(bs), NEW j \in 1 .. Len(bs), i # j
               PROVE  bs[i] \cap bs[j] = {}
      OBVIOUS
  <2>5. CASE i = 1
      BY <1>4, <2>3, <2>5
  <2>6. CASE j = 1
      BY <1>4, <2>3, <2>6
  <2>7. CASE i # 1 /\ j # 1
    <3>1. i - 1 # j - 1
        BY <1>4
    <3> QED
        BY <2>1, <2>4, <2>7, <3>1
  <2> QED
      BY <2>5, <2>6, <2>7
<1>16. Apart(Int, bs, Len(bs))
  <2>1. bs \in [1 .. Len(bs) -> SUBSET Int]
      BY <1>4
  <2> QED
      BY <1>14, <1>15, <2>1 DEF Apart
<1>17. ToSet(bs) \in SUBSET SUBSET Int
       /\ \A x : x \in ToSet(bs) <=> \E i \in 1 .. Len(bs) : bs[i] = x
    BY <1>4, <1>14 DEF ToSet
<1>18. {} \notin ToSet(bs)
    BY <1>14, <1>17
<1>19. UNION ToSet(bs) = BlocksIn(bs)
    BY <1>14, <1>17 DEF BlocksIn
<1>20. BlocksIn(bs) # {}
    BY <1>4, <1>11
<1> QED
    BY <1>1, <1>12, <1>13, <1>16, <1>18, <1>19, <1>20 DEF BlocksOf

\* The sum of c over 1 .. n, as a fold leaves it.
SumOver(n, c) ==
    (CHOOSE f : f = [s \in SUBSET (1 .. n) |->
        IF s = {} THEN 0 ELSE f[s \ {Max(s)}] + c[Max(s)]])[1 .. n]

\* The sum of the sizes of sets without an element in common.
LEMMA SizesAddUp ==
    ASSUME NEW n \in Nat, NEW V, NEW w, Apart(V, w, n),
           NEW c, \A i \in 1 .. n : c[i] = Cardinality(w[i])
    PROVE  /\ IsFiniteSet(Covered(V, 1 .. n, w))
           /\ SumOver(n, c) = Cardinality(Covered(V, 1 .. n, w))
<1> DEFINE Eq(f) == f = [s \in SUBSET (1 .. n) |->
                           IF s = {} THEN 0 ELSE f[s \ {Max(s)}] + c[Max(s)]]
<1>1. PICK k \in [1 .. n -> Nat] : \A i \in 1 .. n : k[i] = Cardinality(w[i])
  <2>1. \A i \in 1 .. n : Cardinality(w[i]) \in Nat
      BY FS_CardinalityType DEF Apart
  <2>2. [i \in 1 .. n |-> Cardinality(w[i])] \in [1 .. n -> Nat]
      BY <2>1
  <2> QED
      BY <2>2
<1>2. \E f : Eq(f)
  <2>1. PICK f : f = [s \in SUBSET (1 .. n) |-> IF s = {} THEN 0 ELSE f[s \ {Max(s)}] + k[Max(s)]]
      BY SumExists
  <2>2. \A s \in SUBSET (1 .. n) : s # {} => c[Max(s)] = k[Max(s)]
      BY <1>1, MaxOf
  <2>3. Eq(f)
      BY <2>1, <2>2
  <2> QED
      BY <2>3
<1>3. PICK f : f = (CHOOSE g : Eq(g))
    OBVIOUS
<1>4. Eq(f)
  <2> HIDE DEF Eq
  <2> QED
      BY <1>2, <1>3
<1>5. AddsSizes(f, w, n)
  <2>1. f[{}] = 0
      BY <1>4
  <2>2. ASSUME NEW s \in SUBSET (1 .. n), s # {}
        PROVE  f[s] = f[s \ {Max(s)}] + Cardinality(w[Max(s)])
    <3>1. f[s] = f[s \ {Max(s)}] + c[Max(s)]
        BY <1>4, <2>2
    <3>2. Max(s) \in 1 .. n
        BY <2>2, MaxOf
    <3> QED
        BY <3>1, <3>2
  <2> HIDE DEF Eq
  <2> QED
      BY <2>1, <2>2 DEF AddsSizes
<1>6. /\ IsFiniteSet(Covered(V, 1 .. n, w))
      /\ f[1 .. n] = Cardinality(Covered(V, 1 .. n, w))
  <2> HIDE DEF Eq
  <2> QED
      BY <1>5, SumOfSizes
<1> QED
    BY <1>3, <1>6 DEF SumOver

\* What TotalBlocks is when its definition is expanded.
LEMMA TotalFold ==
    ASSUME NEW list
    PROVE  TotalBlocks(list) =
             (CHOOSE f : f = [s \in SUBSET DOMAIN list |->
                IF s = {} THEN 0 ELSE f[s \ {Max(s)}] + CountBlocks(list[Max(s)])])[DOMAIN list]
BY DEF TotalBlocks, FoldLeft, MapThenFoldSet

\* A group records its blocks once each, batch by batch.
LEMMA CountsGroup ==
    ASSUME NEW g, GroupFits(g)
    PROVE  CountBlocks(g) = Cardinality(BlocksIn(g.batches))
<1>1. PICK bs : bs = g.batches
    OBVIOUS
<1>2. PICK n \in Nat : n = Len(bs) /\ DOMAIN bs = 1 .. n
    BY <1>1, GroupBatches
<1>3. Apart(Int, bs, n)
    BY <1>1, <1>2, GroupCounts
<1>4. PICK c : c = [i \in 1 .. n |-> Cardinality(bs[i])]
    OBVIOUS
<1>5. \A i \in 1 .. n : c[i] = Cardinality(bs[i])
    BY <1>4
<1>6. \A s \in SUBSET (1 .. n) : s # {} => c[Max(s)] = Cardinality(bs[Max(s)])
    BY <1>5, MaxOf
<1>7. \A f : [s \in SUBSET (1 .. n) |-> IF s = {} THEN 0 ELSE f[s \ {Max(s)}] + c[Max(s)]]
           = [s \in SUBSET (1 .. n) |->
                IF s = {} THEN 0 ELSE f[s \ {Max(s)}] + Cardinality(bs[Max(s)])]
    BY <1>6
<1>8. (CHOOSE f : f = [s \in SUBSET (1 .. n) |->
         IF s = {} THEN 0 ELSE f[s \ {Max(s)}] + Cardinality(bs[Max(s)])])[1 .. n]
        = SumOver(n, c)
    BY <1>7 DEF SumOver
<1>9. SumOver(n, c) = Cardinality(Covered(Int, 1 .. n, bs))
    BY <1>3, <1>5, SizesAddUp
<1>11. CountBlocks(g) = SumOver(n, c)
  <2>1. CountBlocks(g) =
          (CHOOSE f : f = [s \in SUBSET DOMAIN bs |->
             IF s = {} THEN 0 ELSE f[s \ {Max(s)}] + Cardinality(bs[Max(s)])])[DOMAIN bs]
      BY <1>1 DEF CountBlocks, FoldLeft, MapThenFoldSet
  <2> QED
      BY <1>2, <1>8, <2>1
<1>10. Covered(Int, 1 .. n, bs) = BlocksIn(bs)
    BY <1>2 DEF Covered, BlocksIn
<1> QED
    BY <1>1, <1>9, <1>10, <1>11

\* The blocks of the groups of a list, when no two groups have one in common.
LEMMA CountsList ==
    ASSUME NEW list \in Seq(Groups), \A i \in 1 .. Len(list) : GroupFits(list[i]),
           \A i, j \in 1 .. Len(list) :
              i # j => BlocksIn(list[i].batches) \cap BlocksIn(list[j].batches) = {}
    PROVE  /\ IsFiniteSet(BlocksAt(Elems(list)))
           /\ TotalBlocks(list) = Cardinality(BlocksAt(Elems(list)))
<1>1. PICK n \in Nat : n = Len(list) /\ DOMAIN list = 1 .. n
    OBVIOUS
<1>2. PICK w \in [1 .. n -> SUBSET Int] : \A i \in 1 .. n : w[i] = BlocksIn(list[i].batches)
  <2>1. [i \in 1 .. n |-> BlocksIn(list[i].batches)] \in [1 .. n -> SUBSET Int]
      BY DEF BlocksIn
  <2> QED
      BY <2>1
<1>3. Apart(Int, w, n)
  <2>1. \A i \in 1 .. n : IsFiniteSet(w[i])
      BY <1>1, <1>2, GroupCounts
  <2>2. \A i, j \in 1 .. n : i # j => w[i] \cap w[j] = {}
      BY <1>1, <1>2
  <2> QED
      BY <2>1, <2>2 DEF Apart
<1>4. PICK c : c = [i \in 1 .. n |-> CountBlocks(list[i])]
    OBVIOUS
<1>5. \A i \in 1 .. n : c[i] = Cardinality(w[i])
    BY <1>1, <1>2, <1>4, CountsGroup
<1>6. \A s \in SUBSET (1 .. n) : s # {} => c[Max(s)] = CountBlocks(list[Max(s)])
    BY <1>4, MaxOf
<1>7. \A f : [s \in SUBSET (1 .. n) |-> IF s = {} THEN 0 ELSE f[s \ {Max(s)}] + c[Max(s)]]
           = [s \in SUBSET (1 .. n) |->
                IF s = {} THEN 0 ELSE f[s \ {Max(s)}] + CountBlocks(list[Max(s)])]
    BY <1>6
<1>8. (CHOOSE f : f = [s \in SUBSET (1 .. n) |->
         IF s = {} THEN 0 ELSE f[s \ {Max(s)}] + CountBlocks(list[Max(s)])])[1 .. n]
        = SumOver(n, c)
    BY <1>7 DEF SumOver
<1>9. /\ IsFiniteSet(Covered(Int, 1 .. n, w))
      /\ SumOver(n, c) = Cardinality(Covered(Int, 1 .. n, w))
    BY <1>3, <1>5, SizesAddUp
<1>11. TotalBlocks(list) = SumOver(n, c)
    BY <1>1, <1>8, TotalFold
<1>10. Covered(Int, 1 .. n, w) = BlocksAt(Elems(list))
  <2>1. \A b \in Int : b \in Covered(Int, 1 .. n, w)
                         <=> \E i \in 1 .. n : b \in BlocksIn(list[i].batches)
      BY <1>2 DEF Covered
  <2>2. \A b \in Int : b \in BlocksAt(Elems(list))
                         <=> \E i \in 1 .. n : b \in BlocksIn(list[i].batches)
      BY <1>1, ElemsOf DEF BlocksAt
  <2> QED
      BY <2>1, <2>2 DEF Covered, BlocksAt
<1> QED
    BY <1>9, <1>10, <1>11

\* Two lists in order without a block in common: the free list and the groups that a release
\* has extracted from it.
LEMMA TwoLists ==
    ASSUME NEW a, InOrder(a), NEW b, InOrder(b), BlocksAt(Elems(a)) \cap BlocksAt(Elems(b)) = {},
           NEW l, l = a \o b
    PROVE  /\ l \in Seq(Groups)
           /\ \A i \in 1 .. Len(l) : GroupFits(l[i])
           /\ \A i, j \in 1 .. Len(l) :
                i # j => BlocksIn(l[i].batches) \cap BlocksIn(l[j].batches) = {}
           /\ \A i, j \in 1 .. Len(l) : i # j => l[i] # l[j]
           /\ Elems(l) = Elems(a) \cup Elems(b)
           /\ Records(l) = Records(a) + Records(b)
<1>1. /\ a \in Seq(Groups) /\ Len(a) \in Nat /\ b \in Seq(Groups) /\ Len(b) \in Nat
      /\ \A i \in 1 .. Len(a) : GroupFits(a[i]) /\ a[i] \in Elems(a)
      /\ \A i \in 1 .. Len(b) : GroupFits(b[i]) /\ b[i] \in Elems(b)
    BY ListTyped, OneGroupEach
<1>2. l \in Seq(Groups) /\ Len(l) = Len(a) + Len(b)
  <2>1. a \o b \in Seq(Groups) /\ Len(a \o b) = Len(a) + Len(b)
      BY <1>1, ConcatProperties
  <2> QED
      BY <2>1
<1>3. \A i \in 1 .. Len(l) : \/ i \in 1 .. Len(a) /\ l[i] = a[i]
                             \/ /\ i - Len(a) \in 1 .. Len(b) /\ l[i] = b[i - Len(a)]
                                /\ i \notin 1 .. Len(a)
    BY <1>1
<1>4. \A i \in 1 .. Len(a) : l[i] = a[i] /\ i \in 1 .. Len(l)
    BY <1>1
<1>5. \A i \in 1 .. Len(b) : l[i + Len(a)] = b[i] /\ i + Len(a) \in 1 .. Len(l)
    BY <1>1
<1>6. \A i \in 1 .. Len(l) : GroupFits(l[i])
    BY <1>1, <1>3
<1>7. \A i \in 1 .. Len(a) : BlocksIn(a[i].batches) \in SUBSET BlocksAt(Elems(a))
    BY PartOfList
<1>8. \A i \in 1 .. Len(b) : BlocksIn(b[i].batches) \in SUBSET BlocksAt(Elems(b))
    BY PartOfList
<1>9. \A i, j \in 1 .. Len(a) : i # j => BlocksIn(a[i].batches) \cap BlocksIn(a[j].batches) = {}
  <2> SUFFICES ASSUME NEW i \in 1 .. Len(a), NEW j \in 1 .. Len(a), i # j,
                      NEW x \in BlocksIn(a[i].batches), x \in BlocksIn(a[j].batches)
               PROVE  FALSE
      OBVIOUS
  <2>1. a[i].base # a[j].base
      BY OneGroupEach
  <2> QED
      BY <1>1, <2>1, GroupBatches
<1>10. \A i, j \in 1 .. Len(b) : i # j => BlocksIn(b[i].batches) \cap BlocksIn(b[j].batches) = {}
  <2> SUFFICES ASSUME NEW i \in 1 .. Len(b), NEW j \in 1 .. Len(b), i # j,
                      NEW x \in BlocksIn(b[i].batches), x \in BlocksIn(b[j].batches)
               PROVE  FALSE
      OBVIOUS
  <2>1. b[i].base # b[j].base
      BY OneGroupEach
  <2> QED
      BY <1>1, <2>1, GroupBatches
<1>11. ASSUME NEW i \in 1 .. Len(l), NEW j \in 1 .. Len(l), i # j
       PROVE  BlocksIn(l[i].batches) \cap BlocksIn(l[j].batches) = {}
  <2>1. CASE i \in 1 .. Len(a) /\ j \in 1 .. Len(a)
      BY <1>4, <1>9, <1>11, <2>1
  <2>2. CASE i \in 1 .. Len(a) /\ j \notin 1 .. Len(a)
      BY <1>3, <1>7, <1>8, <2>2
  <2>3. CASE i \notin 1 .. Len(a) /\ j \in 1 .. Len(a)
      BY <1>3, <1>7, <1>8, <2>3
  <2>4. CASE i \notin 1 .. Len(a) /\ j \notin 1 .. Len(a)
    <3>1. i - Len(a) # j - Len(a)
        BY <1>1, <1>11
    <3>2. /\ l[i] = b[i - Len(a)] /\ l[j] = b[j - Len(a)]
          /\ i - Len(a) \in 1 .. Len(b) /\ j - Len(a) \in 1 .. Len(b)
        BY <1>3, <2>4
    <3> QED
        BY <1>10, <3>1, <3>2
  <2> QED
      BY <2>1, <2>2, <2>3, <2>4
<1>12. \A i, j \in 1 .. Len(l) : i # j => l[i] # l[j]
  <2> SUFFICES ASSUME NEW i \in 1 .. Len(l), NEW j \in 1 .. Len(l), i # j, l[i] = l[j]
               PROVE  FALSE
      OBVIOUS
  <2>1. BlocksIn(l[i].batches) # {}
      BY <1>6, GroupCounts
  <2> QED
      BY <1>11, <2>1
<1>13. Elems(l) = Elems(a) \cup Elems(b)
  <2>1. ASSUME NEW g \in Elems(l) PROVE g \in Elems(a) \cup Elems(b)
    <3>1. PICK i \in 1 .. Len(l) : l[i] = g
        BY <1>2, ElemsOf
    <3> QED
        BY <1>1, <1>3, <3>1
  <2>2. ASSUME NEW g \in Elems(a) PROVE g \in Elems(l)
    <3>1. PICK i \in 1 .. Len(a) : a[i] = g
        BY <1>1, ElemsOf
    <3> QED
        BY <1>2, <1>4, <3>1, ElemsOf
  <2>3. ASSUME NEW g \in Elems(b) PROVE g \in Elems(l)
    <3>1. PICK i \in 1 .. Len(b) : b[i] = g
        BY <1>1, ElemsOf
    <3> QED
        BY <1>2, <1>5, <3>1, ElemsOf
  <2> QED
      BY <2>1, <2>2, <2>3
<1>14. Records(l) = Records(a) + Records(b)
  <2>1. PICK P, Q : P = Slots(Elems(a)) /\ Q = Slots(Elems(b))
      OBVIOUS
  <2>2. Elems(a) \cap Elems(b) = {}
    <3> SUFFICES ASSUME NEW g \in Elems(a), g \in Elems(b) PROVE FALSE
        OBVIOUS
    <3>1. GroupFits(g)
        BY OneGroupEach
    <3>2. PICK x : x \in BlocksIn(g.batches)
        BY <3>1, GroupCounts
    <3>3. x \in BlocksAt(Elems(a)) /\ x \in BlocksAt(Elems(b))
        BY <3>2 DEF BlocksAt, BlocksIn
    <3> QED
        BY <3>3
  <2>3. P \cap Q = {}
      BY <2>1, <2>2 DEF Slots
  <2>4. P \cup Q = Slots(Elems(l))
      BY <1>13, <2>1 DEF Slots
  <2>5. IsFiniteSet(P) /\ IsFiniteSet(Q)
      BY <2>1, ListsFinite
  <2>6. Cardinality(P \cup Q) = Cardinality(P) + Cardinality(Q) - Cardinality(P \cap Q)
      BY <2>5, FS_Union
  <2>7. Cardinality(P \cap Q) = 0 /\ Cardinality(P) \in Nat /\ Cardinality(Q) \in Nat
      BY <2>3, <2>5, FS_EmptySet, FS_CardinalityType
  <2>8. Records(a) = Cardinality(P) /\ Records(b) = Cardinality(Q)
      BY <2>1 DEF Records
  <2>9. Records(l) = Cardinality(P \cup Q)
      BY <2>4 DEF Records
  <2> QED
      BY <2>6, <2>7, <2>8, <2>9
<1> QED
    BY <1>2, <1>6, <1>11, <1>12, <1>13, <1>14

-----------------------------------------------------------------------------
(* Where the blocks of a region are.                                       *)

\* The blocks 1 .. carved are held, or free: in the list bl, or in the groups ex that a
\* release has extracted from it; and used counts the records of both lists.
Sound(bl, ex, used, h, carved) ==
    /\ InOrder(bl) /\ InOrder(ex)
    /\ BlocksAt(Elems(bl)) \cap BlocksAt(Elems(ex)) = {}
    /\ used = Records(bl) + Records(ex)
    /\ h \in SUBSET Int /\ IsFiniteSet(h) /\ carved \in Nat
    /\ h \cap (BlocksAt(Elems(bl)) \cup BlocksAt(Elems(ex))) = {}
    /\ h \cup BlocksAt(Elems(bl)) \cup BlocksAt(Elems(ex)) = 1 .. carved

\* An empty list (a region at its start, GroupsToRelease after the merge).
LEMMA NoGroups ==
    /\ InOrder(<<>>) /\ BlocksAt(Elems(<<>>)) = {} /\ Records(<<>>) = 0
<1>1. PICK none \in Seq(Groups) : none = <<>> /\ Len(none) = 0
  <2>1. <<>> \in Seq(Groups) /\ Len(<<>>) = 0
      OBVIOUS
  <2> QED
      BY <2>1
<1>2. InOrder(none)
    BY <1>1 DEF InOrder
<1>3. Elems(none) = {}
    BY <1>1 DEF Elems
<1>4. BlocksAt({}) = {} /\ Slots({}) = {}
    BY DEF BlocksAt, Slots
<1>5. Records(none) = 0
    BY <1>3, <1>4, FS_EmptySet DEF Records
<1> QED
    BY <1>1, <1>2, <1>3, <1>4, <1>5

\* A pop hands blocks of the list to the caller (popBlocksImpl).
LEMMA SoundPop ==
    ASSUME NEW bl, NEW ex, NEW used, NEW h, NEW carved, Sound(bl, ex, used, h, carved),
           bl # <<>>, NEW blocks, blocks \in SUBSET Head(Head(bl).batches)
    PROVE  LET r == PopBlocks(bl, blocks, used)
           IN  /\ Sound(r.list, ex, r.used, h \cup blocks, carved)
               /\ IsFiniteSet(blocks) /\ h \cap blocks = {}
<1>1. PICK free, gone : free = BlocksAt(Elems(bl)) /\ gone = BlocksAt(Elems(ex))
    OBVIOUS
<1>2. PICK n, m \in Int : n = Records(bl) /\ m = Records(ex)
    BY ListsFinite DEF Sound
<1>3. /\ InOrder(bl) /\ InOrder(ex) /\ free \cap gone = {} /\ used = n + m
      /\ h \in SUBSET Int /\ IsFiniteSet(h) /\ carved \in Nat
      /\ h \cap (free \cup gone) = {} /\ h \cup free \cup gone = 1 .. carved
    BY <1>1, <1>2 DEF Sound
<1>4. PICK r : r = PopBlocks(bl, blocks, used)
    OBVIOUS
<1>5. /\ Keeps(r, free \ blocks, used - Records(bl))
      /\ blocks \in SUBSET free /\ IsFiniteSet(blocks)
    BY <1>1, <1>2, <1>3, <1>4, PopRight
<1>6. free \in SUBSET Int
    BY <1>1 DEF BlocksAt
<1>7. /\ InOrder(r.list) /\ BlocksAt(Elems(r.list)) = free \ blocks
      /\ r.used = used - n + Records(r.list)
    BY <1>2, <1>5 DEF Keeps
<1>8. PICK k \in Int : k = Records(r.list)
    BY <1>7, ListsFinite
<1>9. r.used = k + m
    BY <1>3, <1>7, <1>8
<1>10. IsFiniteSet(h \cup blocks)
    BY <1>3, <1>5, FS_Union
<1>11. /\ (free \ blocks) \cap gone = {}
       /\ h \cup blocks \in SUBSET Int /\ h \cap blocks = {}
       /\ (h \cup blocks) \cap ((free \ blocks) \cup gone) = {}
       /\ (h \cup blocks) \cup (free \ blocks) \cup gone = 1 .. carved
    BY <1>3, <1>5, <1>6
<1>12. Sound(r.list, ex, r.used, h \cup blocks, carved)
    BY <1>1, <1>2, <1>3, <1>7, <1>8, <1>9, <1>10, <1>11 DEF Sound
<1> QED
    BY <1>4, <1>5, <1>11, <1>12

\* A push puts blocks into the list that were in neither (pushBlocksImpl): some of those
\* held, or newly carved ones.
LEMMA SoundPush ==
    ASSUME NEW bl, NEW ex, NEW used, NEW h, NEW carved, Sound(bl, ex, used, h, carved),
           NEW blocks \in SUBSET Int, IsFiniteSet(blocks),
           blocks \cap (BlocksAt(Elems(bl)) \cup BlocksAt(Elems(ex))) = {},
           NEW kept \in SUBSET h, kept \cap blocks = {},
           NEW n \in Nat, (h \ kept) \cup (1 .. carved) \cup blocks = 1 .. n,
           h \ kept \in SUBSET blocks
    PROVE  LET r == PushBlocks(bl, blocks, used)
           IN  /\ Sound(r.list, ex, r.used, kept, n)
               /\ blocks # {} => r.list # <<>>
<1>1. PICK free, gone : free = BlocksAt(Elems(bl)) /\ gone = BlocksAt(Elems(ex))
    OBVIOUS
<1>2. PICK p, m \in Int : p = Records(bl) /\ m = Records(ex)
    BY ListsFinite DEF Sound
<1>3. /\ InOrder(bl) /\ InOrder(ex) /\ free \cap gone = {} /\ used = p + m
      /\ h \in SUBSET Int /\ IsFiniteSet(h)
      /\ h \cap (free \cup gone) = {} /\ h \cup free \cup gone = 1 .. carved
      /\ blocks \cap free = {} /\ blocks \cap gone = {}
    BY <1>1, <1>2 DEF Sound
<1>4. PICK r : r = PushBlocks(bl, blocks, used)
    OBVIOUS
<1>5. used \in Int
    BY <1>3
<1>6. /\ Keeps(r, free \cup blocks, used - Records(bl))
      /\ blocks # {} => r.list # <<>>
    BY <1>1, <1>3, <1>4, <1>5, PushAll
<1>7. /\ InOrder(r.list) /\ BlocksAt(Elems(r.list)) = free \cup blocks
      /\ r.used = used - p + Records(r.list)
    BY <1>2, <1>6 DEF Keeps
<1>8. PICK k \in Int : k = Records(r.list)
    BY <1>7, ListsFinite
<1>9. r.used = k + m
    BY <1>3, <1>7, <1>8
<1>10. IsFiniteSet(kept) /\ kept \in SUBSET Int
    BY <1>3, FS_Subset
<1>11. /\ (free \cup blocks) \cap gone = {}
       /\ kept \cap ((free \cup blocks) \cup gone) = {}
    BY <1>3
<1>12. kept \cup (free \cup blocks) \cup gone = 1 .. n
    BY <1>3
<1>13. Sound(r.list, ex, r.used, kept, n)
    BY <1>1, <1>2, <1>3, <1>7, <1>8, <1>9, <1>10, <1>11, <1>12 DEF Sound
<1> QED
    BY <1>4, <1>6, <1>13

\* The extracted groups return (mergeGroupsToReleaseBack).
LEMMA SoundMerge ==
    ASSUME NEW bl, NEW ex, NEW used, NEW h, NEW carved, Sound(bl, ex, used, h, carved)
    PROVE  LET r == MergeBack(bl, ex, used) IN Sound(r.list, <<>>, r.used, h, carved)
<1>1. PICK free, gone : free = BlocksAt(Elems(bl)) /\ gone = BlocksAt(Elems(ex))
    OBVIOUS
<1>2. PICK n, m \in Int : n = Records(bl) /\ m = Records(ex)
    BY ListsFinite DEF Sound
<1>3. /\ InOrder(bl) /\ InOrder(ex) /\ free \cap gone = {} /\ used = n + m
      /\ h \in SUBSET Int /\ IsFiniteSet(h) /\ carved \in Nat
      /\ h \cap (free \cup gone) = {} /\ h \cup free \cup gone = 1 .. carved
    BY <1>1, <1>2 DEF Sound
<1>4. PICK r : r = MergeBack(bl, ex, used)
    OBVIOUS
<1>5. used \in Int
    BY <1>3
<1>6. Keeps(r, free \cup gone, used - Records(bl) - Records(ex))
    BY <1>1, <1>3, <1>4, <1>5, MergeAll
<1>7. /\ InOrder(r.list) /\ BlocksAt(Elems(r.list)) = free \cup gone
      /\ r.used = used - n - m + Records(r.list)
    BY <1>2, <1>6 DEF Keeps
<1>8. PICK k \in Int : k = Records(r.list)
    BY <1>7, ListsFinite
<1>9. r.used = k
    BY <1>3, <1>7, <1>8
<1>10. PICK none : none = <<>>
    OBVIOUS
<1>11. InOrder(none) /\ BlocksAt(Elems(none)) = {} /\ Records(none) = 0
    BY <1>10, NoGroups
<1>12. Sound(r.list, none, r.used, h, carved)
    BY <1>3, <1>7, <1>8, <1>9, <1>11 DEF Sound
<1> QED
    BY <1>4, <1>10, <1>12

\* A release takes groups from the list (releaseToOSMaybe, while no other does).
LEMMA SoundExtract ==
    ASSUME NEW used, NEW h, NEW carved, Sound(blockList, <<>>, used, h, carved),
           NEW chosen, NEW a, a = GroupsAt(chosen),
           NEW b, b = GroupsAt({g.base : g \in ToSet(blockList)} \ chosen)
    PROVE  Sound(b, a, used, h, carved)
<1>1. InOrder(blockList)
    BY DEF Sound
<1>2. PICK p, q, l, none : p = a /\ q = b /\ l = blockList /\ none = <<>>
    OBVIOUS
<1>3. /\ InOrder(p) /\ InOrder(q)
      /\ BlocksAt(Elems(p)) \cup BlocksAt(Elems(q)) = BlocksAt(Elems(l))
      /\ BlocksAt(Elems(p)) \cap BlocksAt(Elems(q)) = {}
      /\ Records(p) + Records(q) = Records(l)
    BY <1>1, <1>2, GroupsTaken
<1>4. Sound(l, none, used, h, carved) /\ BlocksAt(Elems(none)) = {} /\ Records(none) = 0
    BY <1>2, NoGroups
<1>5. PICK n, m \in Int : n = Records(p) /\ m = Records(q)
    BY <1>3, ListsFinite
<1>6. used = m + n
    BY <1>3, <1>4, <1>5 DEF Sound
<1>7. Sound(q, p, used, h, carved)
    BY <1>3, <1>4, <1>5, <1>6 DEF Sound
<1> QED
    BY <1>2, <1>7

\* Sizes of the blocks of a region: those held and those free are as many as were carved.
LEMMA SoundSizes ==
    ASSUME NEW bl, NEW ex, NEW used, NEW h, NEW carved, Sound(bl, ex, used, h, carved),
           NEW list, list = bl \o ex
    PROVE  /\ Cardinality(h) \in Nat /\ TotalBlocks(list) \in Nat
           /\ Cardinality(h) + TotalBlocks(list) = carved
           /\ TotalBlocks(list) = Cardinality(BlocksAt(Elems(list)))
           /\ BlocksAt(Elems(list)) = BlocksAt(Elems(bl)) \cup BlocksAt(Elems(ex))
           /\ FoldLeft(LAMBDA n, g : n + RecordsOf(g), 0, list) = used
           /\ \A g \in Elems(list) : GroupFits(g)
           /\ Elems(list) = ToSet(list)
<1>1. PICK F : F = BlocksAt(Elems(list))
    OBVIOUS
<1>2. /\ InOrder(bl) /\ InOrder(ex) /\ BlocksAt(Elems(bl)) \cap BlocksAt(Elems(ex)) = {}
      /\ used = Records(bl) + Records(ex) /\ IsFiniteSet(h) /\ carved \in Nat
    BY DEF Sound
<1>3. list = bl \o ex
    OBVIOUS
<1>4. /\ list \in Seq(Groups)
      /\ \A i \in 1 .. Len(list) : GroupFits(list[i])
      /\ \A i, j \in 1 .. Len(list) :
           i # j => BlocksIn(list[i].batches) \cap BlocksIn(list[j].batches) = {}
      /\ \A i, j \in 1 .. Len(list) : i # j => list[i] # list[j]
      /\ Elems(list) = Elems(bl) \cup Elems(ex)
      /\ Records(list) = Records(bl) + Records(ex)
    BY <1>2, <1>3, TwoLists
<1>5. F = BlocksAt(Elems(bl)) \cup BlocksAt(Elems(ex))
    BY <1>1, <1>4 DEF BlocksAt
<1>6. IsFiniteSet(F) /\ TotalBlocks(list) = Cardinality(F)
    BY <1>1, <1>4, CountsList
<1>7. h \cap F = {} /\ h \cup F = 1 .. carved
    BY <1>5 DEF Sound
<1>8. Cardinality(h \cup F) = carved
  <2>1. Cardinality(1 .. carved) = carved
    <3>1. PICK n \in Nat : n = carved
        BY <1>2
    <3>2. Cardinality(1 .. n) = n
        BY FS_Interval
    <3> QED
        BY <3>1, <3>2
  <2> QED
      BY <1>7, <2>1
<1>9. Cardinality(h \cup F) = Cardinality(h) + Cardinality(F) - Cardinality(h \cap F)
    BY <1>2, <1>6, FS_Union
<1>10. Cardinality(h \cap F) = 0 /\ Cardinality(h) \in Nat /\ Cardinality(F) \in Nat
    BY <1>2, <1>6, <1>7, FS_EmptySet, FS_CardinalityType
<1>11. FoldLeft(LAMBDA n, g : n + RecordsOf(g), 0, list) = used
    BY <1>2, <1>4, RecordsAddUp
<1>12. \A g \in Elems(list) : GroupFits(g)
    BY <1>4 DEF Elems
<1>13. Elems(list) = ToSet(list)
    BY <1>4, ElemsOf
<1> QED
  <2>1. /\ Cardinality(h) \in Nat /\ Cardinality(F) \in Nat
        /\ Cardinality(h) + Cardinality(F) = carved
      BY <1>8, <1>9, <1>10
  <2> QED
      BY <1>1, <1>5, <1>6, <1>11, <1>12, <1>13, <2>1

-----------------------------------------------------------------------------
(* MMLock.                                                                 *)

\* Only the holder of MMLock is in its critical sections, and groups are borrowed from the
\* list only while a release is between its two.
HolderAlone ==
    /\ pc \in [Threads -> Stages]
    /\ \A t \in Threads : pc[t] \in Locked => mm = t
    /\ extracted # <<>> => \E t \in Threads : pc[t] = "merge"

\* What a step of t may do to the stages, to MMLock and to the borrowed groups.
Moves(t) ==
    /\ pc' \in [Threads -> Stages]
    /\ \A u \in Threads : u # t /\ pc'[u] \in Locked => pc'[u] = pc[u]
    /\ \A u \in Threads : u # t /\ pc[u] \in Locked => pc'[u] = pc[u]

Takes(t)  == mm = NoThread /\ mm' = t /\ extracted' = extracted
Remains(t) == /\ mm' = mm /\ (pc'[t] \in Locked => pc[t] \in Locked)
             /\ extracted' = extracted /\ pc[t] # "merge"
Leaves(t) == /\ mm' = NoThread /\ pc[t] \in Locked /\ pc'[t] \notin Locked
             /\ (extracted' = extracted /\ pc[t] # "merge") \/ extracted' = <<>>
Borrows(t) == mm' = mm /\ pc[t] = "extract" /\ pc'[t] = "merge"

\* Such a step leaves MMLock with the thread in its critical sections.
LEMMA MovesKeepHolder ==
    ASSUME HolderAlone, NEW t \in Threads, Moves(t),
           Takes(t) \/ Remains(t) \/ Leaves(t) \/ Borrows(t)
    PROVE  HolderAlone'
<1>1. NoThread \notin Threads
    BY RegionAssumption DEF RegionAssumption
<1>2. \A u \in Threads : pc'[u] \in Locked => mm' = u
  <2> SUFFICES ASSUME NEW u \in Threads, pc'[u] \in Locked PROVE mm' = u
      OBVIOUS
  <2>1. CASE u = t
      BY <2>1 DEF HolderAlone, Takes, Remains, Leaves, Borrows, Locked
  <2>2. CASE u # t
    <3>1. pc[u] \in Locked /\ mm = u
        BY <2>2 DEF HolderAlone, Moves
    <3>2. ~ Takes(t)
        BY <1>1, <3>1 DEF Takes
    <3>3. ~ Leaves(t)
        BY <2>2, <3>1 DEF HolderAlone, Leaves
    <3> QED
        BY <3>1, <3>2, <3>3 DEF Remains, Borrows
  <2> QED
      BY <2>1, <2>2
<1>3. ASSUME extracted' # <<>> PROVE \E u \in Threads : pc'[u] = "merge"
  <2>1. CASE Borrows(t)
      BY <2>1 DEF Borrows
  <2>2. CASE extracted' = extracted /\ (pc[t] # "merge" \/ Takes(t))
    <3>1. PICK u \in Threads : pc[u] = "merge"
        BY <1>3, <2>2 DEF HolderAlone
    <3>2. pc[u] \in Locked /\ mm = u
        BY <3>1 DEF HolderAlone, Locked
    <3>3. u # t
        BY <1>1, <2>2, <3>1, <3>2 DEF Takes
    <3> QED
        BY <3>1, <3>2, <3>3 DEF Moves
  <2> QED
      BY <1>3, <2>1, <2>2 DEF Takes, Remains, Leaves
<1> QED
    BY <1>2, <1>3 DEF HolderAlone, Moves

\* A thread goes from one stage to another.
LEMMA GotoMoves ==
    ASSUME HolderAlone, NEW t \in Threads, NEW stage \in Stages, Goto(t, stage)
    PROVE  Moves(t) /\ pc'[t] = stage
BY DEF HolderAlone, Goto, Moves

\* One thread goes on and the others are woken (notifyAllImpl).
LEMMA NotifyMoves ==
    ASSUME HolderAlone, NEW t \in Threads, NEW stage \in Stages,
           NotifyAllAndGoto(t, stage) \/ AnnounceAndGoto(t, stage)
    PROVE  Moves(t) /\ pc'[t] = stage
<1>1. CASE NotifyAllAndGoto(t, stage)
  <2>1. "asleep" \notin Locked /\ "woken" \notin Locked /\ "woken" \in Stages
      BY DEF Locked, Stages, Waiting
  <2>2. \A u \in Threads : pc'[u] = IF u = t THEN stage
                                    ELSE IF ~notified /\ pc[u] = "asleep" THEN "woken" ELSE pc[u]
      BY <1>1 DEF NotifyAllAndGoto
  <2>3. pc' \in [Threads -> Stages]
      BY <1>1, <2>1, <2>2 DEF HolderAlone, NotifyAllAndGoto
  <2> QED
      BY <2>1, <2>2, <2>3 DEF Moves
<1>2. CASE Goto(t, stage)
    BY <1>2, GotoMoves
<1> QED
    BY <1>1, <1>2 DEF AnnounceAndGoto

\* Every step is one of these.
LEMMA HolderStep == HolderAlone /\ [Next]_vars => HolderAlone'
<1> SUFFICES ASSUME HolderAlone, [Next]_vars PROVE HolderAlone'
    OBVIOUS
<1> USE DEF At
<1>1. CASE UNCHANGED vars
    BY <1>1 DEF HolderAlone, vars
<1>2. ASSUME NEW t \in Threads, NEW from, NEW to \in Stages, TakeMMLock(t, from, to)
      PROVE  HolderAlone'
  <2>1. Takes(t) /\ Goto(t, to)
      BY <1>2 DEF TakeMMLock, Takes
  <2> QED
      BY <2>1, GotoMoves, MovesKeepHolder
<1>3. ASSUME NEW t \in Threads, NEW to \in Stages, Goto(t, to), UNCHANGED <<mm, extracted>>,
             pc[t] # "merge", to \in Locked => pc[t] \in Locked
      PROVE  HolderAlone'
  <2>1. Moves(t) /\ pc'[t] = to
      BY <1>3, GotoMoves
  <2>2. Remains(t)
      BY <1>3, <2>1 DEF Remains
  <2> QED
      BY <2>1, <2>2, MovesKeepHolder
<1>4. ASSUME NEW t \in Threads, Goto(t, "idle"), mm' = NoThread, extracted' = extracted,
             pc[t] \in Locked, pc[t] # "merge"
      PROVE  HolderAlone'
  <2>1. Moves(t) /\ pc'[t] = "idle" /\ "idle" \notin Locked
      BY <1>4, GotoMoves DEF Stages, Locked
  <2>2. Leaves(t)
      BY <1>4, <2>1 DEF Leaves
  <2> QED
      BY <2>1, <2>2, MovesKeepHolder
<1>5. ASSUME NEW t \in Threads, LeavePopulation(t), extracted' = extracted,
             pc[t] \in {"map", "fill"}
      PROVE  HolderAlone'
  <2>1. pc[t] \in Locked /\ pc[t] # "merge" /\ "populated" \in Stages /\ "populated" \in Locked
      BY <1>5 DEF Locked, Stages
  <2>2. CASE condVar
      BY <1>3, <1>5, <2>1, <2>2 DEF LeavePopulation
  <2>3. CASE ~ condVar
      BY <1>4, <1>5, <2>1, <2>3 DEF LeavePopulation
  <2> QED
      BY <2>2, <2>3
<1>6. ASSUME NEW t \in Threads, PopStep(t) PROVE HolderAlone'
  <2>1. CASE PopFromList(t)
      BY <2>1 DEF PopFromList, HolderAlone
  <2>2. CASE FindEmpty(t)
    <3>1. PICK to \in {"claim", "lock"} : Goto(t, to)
        BY <2>2 DEF FindEmpty
    <3>2. to \in Stages /\ to \notin Locked /\ pc[t] = "idle" /\ UNCHANGED <<mm, extracted>>
        BY <2>2 DEF FindEmpty, Stages, Waiting, Locked
    <3> QED
        BY <1>3, <3>1, <3>2
  <2>3. CASE LockToPopulate(t)
      BY <1>2, <2>3 DEF LockToPopulate, Stages, Locked
  <2>4. CASE Recheck(t)
    <3>1. pc[t] = "recheck" /\ extracted' = extracted
        BY <2>4 DEF Recheck
    <3>2. "recheck" \in Locked /\ "map" \in Stages
        BY DEF Locked, Stages
    <3>3. CASE Goto(t, "idle") /\ mm' = NoThread
        BY <1>4, <3>1, <3>2, <3>3
    <3>4. CASE Goto(t, "map") /\ mm' = mm
        BY <1>3, <3>1, <3>2, <3>4
    <3> QED
        BY <2>4, <3>3, <3>4 DEF Recheck
  <2>5. CASE Map(t)
    <3>1. pc[t] = "map" /\ extracted' = extracted
        BY <2>5 DEF Map
    <3>2. "map" \in Locked /\ "fill" \in Stages
        BY DEF Locked, Stages
    <3>3. CASE LeavePopulation(t)
        BY <1>5, <3>1, <3>3
    <3>4. CASE Goto(t, "fill") /\ mm' = mm
        BY <1>3, <3>1, <3>2, <3>4
    <3> QED
        BY <2>5, <3>3, <3>4 DEF Map
  <2>6. CASE Fill(t)
      BY <1>5, <2>6 DEF Fill
  <2>7. CASE Claim(t)
    <3>1. PICK to \in {"check", "claimed"} : Goto(t, to)
        BY <2>7 DEF Claim
    <3>2. to \in Stages /\ to \notin Locked /\ pc[t] = "claim" /\ UNCHANGED <<mm, extracted>>
        BY <2>7 DEF Claim, Stages, Waiting, Locked
    <3> QED
        BY <1>3, <3>1, <3>2
  <2>8. CASE LockClaimed(t)
      BY <1>2, <2>8 DEF LockClaimed, Stages, Locked
  <2>9. CASE Populated(t)
    <3>1. /\ pc[t] = "populated" /\ extracted' = extracted /\ mm' = NoThread
          /\ NotifyAllAndGoto(t, "idle")
        BY <2>9 DEF Populated
    <3>2. "populated" \in Locked /\ "idle" \in Stages /\ "idle" \notin Locked
        BY DEF Locked, Stages
    <3>3. Moves(t) /\ pc'[t] = "idle"
        BY <3>1, <3>2, NotifyMoves
    <3>4. Leaves(t)
        BY <3>1, <3>2, <3>3 DEF Leaves
    <3> QED
        BY <3>3, <3>4, MovesKeepHolder
  <2>10. CASE Check(t)
    <3>1. PICK to \in {"idle", "claim", "parking"} : Goto(t, to)
        BY <2>10 DEF Check
    <3>2. to \in Stages /\ to \notin Locked /\ pc[t] = "check" /\ UNCHANGED <<mm, extracted>>
        BY <2>10 DEF Check, Stages, Waiting, Locked
    <3> QED
        BY <1>3, <3>1, <3>2
  <2>11. CASE PopAfterWait(t)
    <3>1. PICK to \in {"idle", "claim"} : Goto(t, to)
        BY <2>11 DEF PopAfterWait
    <3>2. to \in Stages /\ to \notin Locked /\ pc[t] = "woken" /\ UNCHANGED <<mm, extracted>>
        BY <2>11 DEF PopAfterWait, Stages, Waiting, Locked
    <3> QED
        BY <1>3, <3>1, <3>2
  <2> QED
      BY <1>6, <2>1, <2>2, <2>3, <2>4, <2>5, <2>6, <2>7, <2>8, <2>9, <2>10, <2>11 DEF PopStep
<1>7. ASSUME NEW t \in Threads, Push(t) PROVE HolderAlone'
  <2>1. AnnounceAndGoto(t, "idle") /\ pc[t] = "idle" /\ UNCHANGED <<mm, extracted>>
      BY <1>7 DEF Push
  <2>2. "idle" \in Stages /\ "idle" \notin Locked
      BY DEF Stages, Locked
  <2>3. Moves(t) /\ pc'[t] = "idle"
      BY <2>1, <2>2, NotifyMoves
  <2>4. Remains(t)
      BY <2>1, <2>2, <2>3 DEF Remains
  <2> QED
      BY <2>3, <2>4, MovesKeepHolder
<1>8. ASSUME NEW t \in Threads, ReleaseStep(t) PROVE HolderAlone'
  <2>1. CASE ReleaseToOS(t)
      BY <1>3, <2>1 DEF ReleaseToOS, Stages, Waiting, Locked
  <2>2. CASE LockToRelease(t)
      BY <1>2, <2>2 DEF LockToRelease, Stages, Locked
  <2>3. CASE TryReleaseToOS(t)
      BY <1>2, <2>3 DEF TryReleaseToOS, Stages, Locked
  <2>4. CASE Extract(t)
    <3>1. pc[t] = "extract" /\ "extract" \in Locked /\ "merge" \in Stages
        BY <2>4 DEF Extract, Locked, Stages
    <3>2. CASE SkipRelease(t)
        BY <1>4, <3>1, <3>2 DEF SkipRelease
    <3>3. CASE Goto(t, "merge") /\ mm' = mm
      <4>1. Moves(t) /\ pc'[t] = "merge"
          BY <3>1, <3>3, GotoMoves
      <4>2. Borrows(t)
          BY <3>1, <3>3, <4>1 DEF Borrows
      <4> QED
          BY <4>1, <4>2, MovesKeepHolder
    <3> QED
        BY <2>4, <3>2, <3>3 DEF Extract
  <2>5. CASE Merge(t)
    <3>1. /\ pc[t] = "merge" /\ extracted' = <<>> /\ mm' = NoThread
          /\ AnnounceAndGoto(t, "idle")
        BY <2>5 DEF Merge
    <3>2. "merge" \in Locked /\ "idle" \in Stages /\ "idle" \notin Locked
        BY DEF Locked, Stages
    <3>3. Moves(t) /\ pc'[t] = "idle"
        BY <3>1, <3>2, NotifyMoves
    <3>4. Leaves(t)
        BY <3>1, <3>2, <3>3 DEF Leaves
    <3> QED
        BY <3>3, <3>4, MovesKeepHolder
  <2> QED
      BY <1>8, <2>1, <2>2, <2>3, <2>4, <2>5 DEF ReleaseStep
<1>9. ASSUME NEW t \in Threads, FutexStep(t) PROVE HolderAlone'
  <2>1. PICK to \in {"asleep", "woken"} : Goto(t, to)
      BY <1>9 DEF FutexStep, Park, WakeSpuriously
  <2>2. /\ to \in Stages /\ to \notin Locked /\ pc[t] \in {"parking", "asleep"}
        /\ UNCHANGED <<mm, extracted>>
      BY <1>9 DEF FutexStep, Park, WakeSpuriously, Stages, Waiting, Locked
  <2> QED
      BY <1>3, <2>1, <2>2
<1>10. ASSUME NEW t \in Threads, Disable(t) PROVE HolderAlone'
    BY <1>2, <1>10 DEF Disable, Stages, Locked
<1>11. ASSUME NEW t \in Threads, Enable(t) PROVE HolderAlone'
  <2>1. pc[t] = "disabled" /\ mm' = NoThread /\ Goto(t, "idle") /\ extracted' = extracted
      BY <1>11 DEF Enable
  <2>2. "disabled" \in Locked
      BY DEF Locked
  <2> QED
      BY <1>4, <2>1, <2>2
<1> QED
    BY <1>1, <1>6, <1>7, <1>8, <1>9, <1>10, <1>11 DEF Next

-----------------------------------------------------------------------------
(* The mapped memory.                                                      *)

\* A population that is about to carve blocks has mapped the memory of at least MaxCached.
RoomToFill ==
    /\ allocatedUser \in Nat /\ mappedUser \in Nat
    /\ \A t \in Threads :
         pc[t] = "fill" => mappedUser - allocatedUser >= MaxCached * BlockSize

\* Every block carved is held or free, and the counters say how many.
Accounted ==
    /\ inUse = Cardinality(held)
    /\ \E n \in Nat : /\ allocatedUser = n * BlockSize
                      /\ Sound(blockList, extracted, batchUsed, held, n)

\* Sizes are multiples of the block size, and of the increment (Size, MapSizeIncrement).
LEMMA Multiples ==
    ASSUME NEW n \in Nat, NEW b \in Nat, b # 0
    PROVE  (n * b) \div b = n
<1>1. PICK q \in Int : q = (n * b) \div b
    OBVIOUS
<1>2. n * b \in Int
    OBVIOUS
<1>3. b * q <= n * b /\ n * b < b * (q + 1)
    BY <1>1, <1>2
<1>4. ASSUME q < n PROVE FALSE
  <2>1. q + 1 <= n
      BY <1>4
  <2>2. b * (q + 1) <= b * n
      BY <2>1
  <2>3. b * n = n * b
      OBVIOUS
  <2> QED
      BY <1>3, <2>2, <2>3
<1>5. ASSUME q > n PROVE FALSE
  <2>1. q >= n + 1
      BY <1>5
  <2>2. b * q >= b * (n + 1)
      BY <2>1
  <2>3. b * (n + 1) = n * b + b
      OBVIOUS
  <2> QED
      BY <1>3, <2>2, <2>3
<1> QED
    BY <1>1, <1>4, <1>5

\* Rounding up to the increment gives no less (roundUp of the size to map).
LEMMA RoundsUp ==
    ASSUME NEW m \in Nat, NEW i \in Nat, i # 0
    PROVE  /\ ((m + i - 1) \div i) * i \in Nat
           /\ ((m + i - 1) \div i) * i >= m
<1>1. PICK k \in Nat : k = m + i - 1
    OBVIOUS
<1>2. PICK q \in Int : q = k \div i
    OBVIOUS
<1>3. k < i * (q + 1) /\ q >= 0
    BY <1>1, <1>2
<1>4. i * (q + 1) = q * i + i
    OBVIOUS
<1>5. q * i > k - i
    BY <1>3, <1>4
<1>6. q * i \in Nat
    BY <1>3
<1> QED
    BY <1>1, <1>2, <1>5, <1>6

\* Fewer blocks in room for more (NumberOfBlocks).
LEMMA FitsAtLeast ==
    ASSUME NEW m \in Nat, NEW b \in Nat, b # 0, NEW c \in Nat, c >= 1, m >= c * b
    PROVE  m \div b \in Nat /\ m \div b >= 1
<1>1. PICK q \in Int : q = m \div b
    OBVIOUS
<1>2. m < b * (q + 1)
    BY <1>1
<1>3. c * b >= b
    OBVIOUS
<1>4. ASSUME q < 1 PROVE FALSE
  <2>1. q + 1 <= 1
      BY <1>4
  <2>2. b * (q + 1) <= b * 1
      BY <2>1
  <2> QED
      BY <1>2, <1>3, <2>2
<1> QED
    BY <1>1, <1>4

\* What is mapped is enough for MaxCached blocks (populateFreeListAndPopBlocks).
LEMMA MapSizeEnough ==
    ASSUME allocatedUser \in Nat, mappedUser \in Nat
    PROVE  /\ MapSize \in Nat
           /\ mappedUser + MapSize - allocatedUser >= MaxCached * BlockSize
<1>1. MaxCached \in Nat /\ BlockSize \in Nat /\ MapSizeIncrement \in Nat /\ MapSizeIncrement # 0
    BY RegionAssumption, MaxNumCachedPositive DEF RegionAssumption
<1>2. PICK need \in Nat : need = MaxCached * BlockSize
    BY <1>1
<1>3. PICK missing \in Int : missing = allocatedUser + need - mappedUser
    OBVIOUS
<1>4. MapSize = IF missing <= 0 THEN 0
                ELSE ((missing + MapSizeIncrement - 1) \div MapSizeIncrement) * MapSizeIncrement
    BY <1>2, <1>3 DEF MapSize
<1>5. CASE missing <= 0
    BY <1>2, <1>3, <1>4, <1>5
<1>6. CASE missing > 0
  <2>1. missing \in Nat
      BY <1>6
  <2>2. PICK size :
          size = ((missing + MapSizeIncrement - 1) \div MapSizeIncrement) * MapSizeIncrement
      OBVIOUS
  <2>3. size \in Nat /\ size >= missing
      BY <1>1, <2>1, <2>2, RoundsUp
  <2>4. MapSize = size
      BY <1>4, <1>6, <2>2
  <2> QED
      BY <1>2, <1>3, <2>3, <2>4
<1> QED
    BY <1>5, <1>6

\* The blocks that a population carves come after those carved before, and there is at
\* least one (populateFreeListAndPopBlocks).
LEMMA CarvedRoom ==
    ASSUME RoomToFill, NEW t \in Threads, pc[t] = "fill",
           NEW n \in Nat, allocatedUser = n * BlockSize
    PROVE  \E k \in Nat : /\ k >= 1 /\ NewBlocks = n + 1 .. n + k
                          /\ Cardinality(NewBlocks) = k /\ IsFiniteSet(NewBlocks)
                          /\ allocatedUser + BlockSize * k = (n + k) * BlockSize
<1>1. /\ MaxCached \in Nat /\ MaxCached >= 1 /\ BlockSize \in Nat /\ BlockSize # 0
      /\ MaxNumBatches \in Nat /\ MaxNumBatches >= 1
    BY RegionAssumption, MaxNumCachedPositive DEF RegionAssumption
<1>2. PICK room \in Nat : room = mappedUser - allocatedUser /\ room >= MaxCached * BlockSize
  <2>1. PICK diff \in Int : diff = mappedUser - allocatedUser
      BY DEF RoomToFill
  <2>2. PICK need \in Nat : need = MaxCached * BlockSize
      BY <1>1
  <2>3. diff >= need
      BY <2>1, <2>2 DEF RoomToFill
  <2>4. diff \in Nat
      BY <2>3
  <2> QED
      BY <2>1, <2>2, <2>3, <2>4
<1>3. PICK fits \in Nat : fits = room \div BlockSize /\ fits >= 1
    BY <1>1, <1>2, FitsAtLeast
<1>4. PICK most \in Nat : most = MaxNumBatches * MaxCached /\ most >= 1
  <2>1. MaxNumBatches * MaxCached >= 1 /\ MaxNumBatches * MaxCached \in Nat
      BY <1>1
  <2> QED
      BY <2>1
<1>5. PICK k \in Nat : k = Min({most, fits}) /\ k >= 1
  <2>1. {most, fits} \in SUBSET Nat /\ {most, fits} # {}
      OBVIOUS
  <2>2. Min({most, fits}) \in {most, fits}
      BY <2>1, MinOf
  <2> QED
      BY <1>3, <1>4, <2>2
<1>6. allocatedUser \div BlockSize = n
    BY <1>1, Multiples
<1>7. NewBlocks = n + 1 .. n + k
  <2>1. Min({MaxNumBatches * MaxCached, (mappedUser - allocatedUser) \div BlockSize}) = k
      BY <1>2, <1>3, <1>4, <1>5
  <2>2. NewBlocks = n + 1 .. n + 1 + k - 1
      BY <1>6, <2>1 DEF NewBlocks
  <2> QED
      BY <2>2
<1>8. Cardinality(NewBlocks) = k /\ IsFiniteSet(NewBlocks)
  <2>1. PICK a, b \in Int : a = n + 1 /\ b = n + k
      OBVIOUS
  <2>2. IsFiniteSet(a .. b) /\ Cardinality(a .. b) = IF a > b THEN 0 ELSE b - a + 1
      BY FS_Interval
  <2>3. Cardinality(a .. b) = k
      BY <2>1, <2>2
  <2> QED
      BY <1>7, <2>1, <2>2, <2>3
<1>9. allocatedUser + BlockSize * k = (n + k) * BlockSize
  <2>1. (n + k) * BlockSize = n * BlockSize + BlockSize * k
      BY <1>1
  <2> QED
      BY <2>1
<1> QED
    BY <1>5, <1>7, <1>8, <1>9

\* In a step of t that neither maps nor carves, and does not go on to carve, the room is
\* what it was.
LEMMA RoomKept ==
    ASSUME RoomToFill, UNCHANGED <<allocatedUser, mappedUser>>,
           \A u \in Threads : pc'[u] = "fill" => pc[u] = "fill"
    PROVE  RoomToFill'
BY DEF RoomToFill

\* The same, told by where the step takes t: anywhere but to the carving
\* (populateFreeListAndPopBlocks).
LEMMA GotoKeepsRoom ==
    ASSUME HolderAlone, RoomToFill, NEW t \in Threads, NEW stage, stage # "fill",
           \/ Goto(t, stage) \/ NotifyAllAndGoto(t, stage) \/ AnnounceAndGoto(t, stage)
           \/ pc' = pc,
           UNCHANGED <<allocatedUser, mappedUser>>
    PROVE  RoomToFill'
<1>1. \A u \in Threads : pc'[u] = "fill" => pc[u] = "fill"
  <2>1. CASE Goto(t, stage)
      BY <2>1 DEF Goto, HolderAlone
  <2>2. CASE NotifyAllAndGoto(t, stage)
      BY <2>2 DEF NotifyAllAndGoto
  <2> QED
      BY <2>1, <2>2 DEF AnnounceAndGoto
<1> QED
    BY <1>1, RoomKept

\* A population maps before it carves, and holds MMLock for both.
LEMMA RoomStep == HolderAlone /\ RoomToFill /\ Accounted /\ [Next]_vars => RoomToFill'
<1> SUFFICES ASSUME HolderAlone, RoomToFill, Accounted, [Next]_vars PROVE RoomToFill'
    OBVIOUS
<1> USE DEF At, memory
<1>1. CASE UNCHANGED vars
    BY <1>1 DEF RoomToFill, vars
<1>2. ASSUME NEW t \in Threads, NEW from, NEW to, TakeMMLock(t, from, to), to # "fill"
      PROVE  RoomToFill'
    BY <1>2, GotoKeepsRoom DEF TakeMMLock
<1>3. ASSUME NEW t \in Threads, pc[t] \in Locked, NEW u \in Threads, u # t
      PROVE  pc[u] # "fill"
    BY <1>3 DEF HolderAlone, Locked
<1>4. ASSUME NEW t \in Threads, Map(t) PROVE RoomToFill'
  <2>1. pc[t] = "map" /\ allocatedUser' = allocatedUser /\ pc[t] \in Locked
      BY <1>4 DEF Map, Locked
  <2>2. CASE LeavePopulation(t) /\ mappedUser' = mappedUser
    <3>1. Goto(t, "populated") \/ Goto(t, "idle")
        BY <2>2 DEF LeavePopulation
    <3> QED
        BY <2>1, <2>2, <3>1, GotoKeepsRoom
  <2>3. CASE mappedUser' = mappedUser + MapSize /\ Goto(t, "fill")
    <3>1. /\ MapSize \in Nat
          /\ mappedUser + MapSize - allocatedUser >= MaxCached * BlockSize
        BY MapSizeEnough DEF RoomToFill
    <3>2. mappedUser' - allocatedUser' >= MaxCached * BlockSize
      <4>1. PICK a, m \in Nat : a = allocatedUser /\ m = mappedUser + MapSize
          BY <3>1 DEF RoomToFill
      <4>2. PICK need \in Nat : need = MaxCached * BlockSize
        <5>1. MaxCached \in Nat /\ BlockSize \in Nat
            BY RegionAssumption, MaxNumCachedPositive DEF RegionAssumption
        <5> QED
            BY <5>1
      <4>3. m - a >= need
        <5>1. mappedUser \in Nat /\ allocatedUser \in Nat
            BY DEF RoomToFill
        <5> QED
            BY <3>1, <4>1, <4>2, <5>1
      <4>4. mappedUser' = m /\ allocatedUser' = a
          BY <2>1, <2>3, <4>1
      <4>5. mappedUser' - allocatedUser' >= need
          BY <4>3, <4>4
      <4> QED
          BY <4>2, <4>5
    <3> QED
        BY <2>1, <2>3, <3>1, <3>2 DEF RoomToFill
  <2> QED
      BY <1>4, <2>2, <2>3 DEF Map
<1>5. ASSUME NEW t \in Threads, Fill(t) PROVE RoomToFill'
  <2>1. pc[t] = "fill" /\ pc[t] \in Locked /\ mappedUser' = mappedUser
      BY <1>5 DEF Fill, Locked
  <2>2. Goto(t, "populated") \/ Goto(t, "idle")
      BY <1>5 DEF Fill, LeavePopulation
  <2>3. \A u \in Threads : pc'[u] # "fill"
      BY <1>3, <2>1, <2>2 DEF Goto, HolderAlone
  <2>4. allocatedUser' \in Nat
    <3>1. PICK n \in Nat : allocatedUser = n * BlockSize
        BY DEF Accounted
    <3>2. PICK k \in Nat : /\ Cardinality(NewBlocks) = k
                           /\ allocatedUser + BlockSize * k = (n + k) * BlockSize
        BY <2>1, <3>1, CarvedRoom
    <3>3. allocatedUser' = (n + k) * BlockSize
        BY <1>5, <3>2 DEF Fill
    <3>4. BlockSize \in Nat
        BY RegionAssumption DEF RegionAssumption
    <3> QED
        BY <3>3, <3>4
  <2> QED
      BY <2>1, <2>3, <2>4 DEF RoomToFill
<1>6. ASSUME NEW t \in Threads, PopStep(t), ~ Map(t), ~ Fill(t) PROVE RoomToFill'
  <2>1. CASE PopFromList(t)
      BY <2>1, GotoKeepsRoom DEF PopFromList
  <2>2. CASE FindEmpty(t)
      BY <2>2, GotoKeepsRoom DEF FindEmpty
  <2>3. CASE LockToPopulate(t)
      BY <1>2, <2>3 DEF LockToPopulate
  <2>4. CASE Recheck(t)
      BY <2>4, GotoKeepsRoom DEF Recheck
  <2>5. CASE Claim(t)
      BY <2>5, GotoKeepsRoom DEF Claim
  <2>6. CASE LockClaimed(t)
      BY <1>2, <2>6 DEF LockClaimed
  <2>7. CASE Populated(t)
      BY <2>7, GotoKeepsRoom DEF Populated
  <2>8. CASE Check(t)
      BY <2>8, GotoKeepsRoom DEF Check
  <2>9. CASE PopAfterWait(t)
      BY <2>9, GotoKeepsRoom DEF PopAfterWait
  <2> QED
      BY <1>6, <2>1, <2>2, <2>3, <2>4, <2>5, <2>6, <2>7, <2>8, <2>9 DEF PopStep
<1>7. ASSUME NEW t \in Threads, Push(t) PROVE RoomToFill'
    BY <1>7, GotoKeepsRoom DEF Push
<1>8. ASSUME NEW t \in Threads, ReleaseStep(t) PROVE RoomToFill'
  <2>1. CASE ReleaseToOS(t)
      BY <2>1, GotoKeepsRoom DEF ReleaseToOS
  <2>2. CASE LockToRelease(t)
      BY <1>2, <2>2 DEF LockToRelease
  <2>3. CASE TryReleaseToOS(t)
      BY <1>2, <2>3 DEF TryReleaseToOS
  <2>4. CASE Extract(t)
      BY <2>4, GotoKeepsRoom DEF Extract, SkipRelease
  <2>5. CASE Merge(t)
      BY <2>5, GotoKeepsRoom DEF Merge
  <2> QED
      BY <1>8, <2>1, <2>2, <2>3, <2>4, <2>5 DEF ReleaseStep
<1>9. ASSUME NEW t \in Threads, FutexStep(t) PROVE RoomToFill'
  <2>1. CASE Park(t)
      BY <2>1, GotoKeepsRoom DEF Park
  <2>2. CASE WakeSpuriously(t)
      BY <2>2, GotoKeepsRoom DEF WakeSpuriously
  <2> QED
      BY <1>9, <2>1, <2>2 DEF FutexStep
<1>10. ASSUME NEW t \in Threads, Disable(t) PROVE RoomToFill'
    BY <1>2, <1>10 DEF Disable
<1>11. ASSUME NEW t \in Threads, Enable(t) PROVE RoomToFill'
    BY <1>11, GotoKeepsRoom DEF Enable
<1> QED
    BY <1>1, <1>4, <1>5, <1>6, <1>7, <1>8, <1>9, <1>10, <1>11 DEF Next

-----------------------------------------------------------------------------
(* The steps that move blocks.                                             *)

\* popBlocks in any of its critical sections but the one that populates.
LEMMA PopAccounted ==
    ASSUME Accounted, Pop, UNCHANGED <<extracted, allocatedUser>>
    PROVE  Accounted'
<1>1. PICK n \in Nat : /\ allocatedUser = n * BlockSize
                       /\ Sound(blockList, extracted, batchUsed, held, n)
    BY DEF Accounted
<1>2. PICK blocks \in Poppable(blockList, MaxCached) :
         /\ SetFreeList(PopBlocks(blockList, blocks, batchUsed))
         /\ inUse' = inUse + Cardinality(blocks)
         /\ held' = held \cup blocks
    BY DEF Pop
<1>3. blockList # <<>> /\ blocks \in SUBSET Head(Head(blockList).batches)
    BY <1>2 DEF Pop, Poppable, kSubset
<1>4. PICK r : r = PopBlocks(blockList, blocks, batchUsed)
    OBVIOUS
<1>5. /\ Sound(r.list, extracted, r.used, held \cup blocks, n)
      /\ IsFiniteSet(blocks) /\ held \cap blocks = {}
    BY <1>1, <1>3, <1>4, SoundPop
<1>6. blockList' = r.list /\ batchUsed' = r.used
    BY <1>2, <1>4 DEF SetFreeList
<1>7. Sound(blockList', extracted', batchUsed', held', n)
    BY <1>2, <1>5, <1>6
<1>8. Cardinality(held \cup blocks) = Cardinality(held) + Cardinality(blocks)
  <2>1. IsFiniteSet(held)
      BY <1>1 DEF Sound
  <2>2. Cardinality(held \cup blocks)
          = Cardinality(held) + Cardinality(blocks) - Cardinality(held \cap blocks)
      BY <1>5, <2>1, FS_Union
  <2>3. /\ Cardinality(held \cap blocks) = 0
        /\ Cardinality(held) \in Nat /\ Cardinality(blocks) \in Nat
      BY <1>5, <2>1, FS_EmptySet, FS_CardinalityType
  <2> QED
      BY <2>2, <2>3
<1>9. inUse' = Cardinality(held')
    BY <1>2, <1>8 DEF Accounted
<1> QED
    BY <1>1, <1>7, <1>9 DEF Accounted

\* pushBlocks.
LEMMA PushAccounted ==
    ASSUME Accounted, NEW t \in Threads, Push(t)
    PROVE  Accounted'
<1>1. PICK n \in Nat : /\ allocatedUser = n * BlockSize
                       /\ Sound(blockList, extracted, batchUsed, held, n)
    BY DEF Accounted
<1>2. PICK blocks :
         /\ blocks \in SUBSET held
         /\ SetFreeList(PushBlocks(blockList, blocks, batchUsed))
         /\ inUse' = inUse - Cardinality(blocks)
         /\ held' = held \ blocks
    BY DEF Push, kSubset
<1>3. blocks \in SUBSET held
    BY <1>2
<1>4. /\ held \in SUBSET Int /\ IsFiniteSet(held) /\ held \in SUBSET (1 .. n)
      /\ held \cap (BlocksAt(Elems(blockList)) \cup BlocksAt(Elems(extracted))) = {}
    BY <1>1 DEF Sound
<1>5. IsFiniteSet(blocks) /\ blocks \in SUBSET Int
    BY <1>3, <1>4, FS_Subset
<1>6. PICK kept \in SUBSET held : kept = held \ blocks
    OBVIOUS
<1>7. /\ blocks \cap (BlocksAt(Elems(blockList)) \cup BlocksAt(Elems(extracted))) = {}
      /\ kept \cap blocks = {} /\ held \ kept \in SUBSET blocks
    BY <1>3, <1>4, <1>6
<1>8. (held \ kept) \cup (1 .. n) \cup blocks = 1 .. n
    BY <1>3, <1>4, <1>6
<1>9. PICK r : r = PushBlocks(blockList, blocks, batchUsed)
    OBVIOUS
<1>10. Sound(r.list, extracted, r.used, kept, n)
    BY <1>1, <1>5, <1>7, <1>8, <1>9, SoundPush
<1>11. /\ blockList' = r.list /\ batchUsed' = r.used /\ held' = kept
       /\ extracted' = extracted /\ allocatedUser' = allocatedUser
    BY <1>2, <1>6, <1>9, <1>1 DEF SetFreeList, Push, memory
<1>12. Sound(blockList', extracted', batchUsed', held', n)
    BY <1>10, <1>11
<1>13. Cardinality(held) = Cardinality(kept) + Cardinality(blocks)
  <2>1. IsFiniteSet(kept) /\ kept \cap blocks = {} /\ held = kept \cup blocks
      BY <1>3, <1>4, <1>6, FS_Subset
  <2>2. Cardinality(kept \cup blocks)
          = Cardinality(kept) + Cardinality(blocks) - Cardinality(kept \cap blocks)
      BY <1>5, <2>1, FS_Union
  <2>3. /\ Cardinality(kept \cap blocks) = 0
        /\ Cardinality(kept) \in Nat /\ Cardinality(blocks) \in Nat
      BY <1>5, <2>1, FS_EmptySet, FS_CardinalityType
  <2> QED
      BY <2>1, <2>2, <2>3
<1>14. Cardinality(kept) \in Nat /\ Cardinality(blocks) \in Nat
    BY <1>4, <1>5, <1>6, FS_Subset, FS_CardinalityType
<1>15. inUse' = Cardinality(held')
  <2>1. PICK a \in Nat : a = Cardinality(kept)
      BY <1>14
  <2>2. PICK b \in Nat : b = Cardinality(blocks)
      BY <1>14
  <2>3. inUse = a + b
      BY <1>13, <2>1, <2>2 DEF Accounted
  <2>4. inUse' = inUse - b
      BY <1>2, <2>2
  <2>5. inUse' = a
      BY <2>3, <2>4
  <2> QED
      BY <1>11, <2>1, <2>5
<1> QED
    BY <1>1, <1>11, <1>12, <1>15 DEF Accounted

\* populateFreeListAndPopBlocks: the new blocks go into the list, and some are popped.
LEMMA FillAccounted ==
    ASSUME Accounted, RoomToFill, NEW t \in Threads, Fill(t)
    PROVE  Accounted'
<1>1. PICK n \in Nat : /\ allocatedUser = n * BlockSize
                       /\ Sound(blockList, extracted, batchUsed, held, n)
    BY DEF Accounted
<1>2. pc[t] = "fill"
    BY DEF Fill, At
<1>3. PICK k \in Nat : /\ k >= 1 /\ NewBlocks = n + 1 .. n + k
                       /\ Cardinality(NewBlocks) = k /\ IsFiniteSet(NewBlocks)
                       /\ allocatedUser + BlockSize * k = (n + k) * BlockSize
    BY <1>1, <1>2, CarvedRoom
<1>4. PICK new : new = NewBlocks
    OBVIOUS
<1>5. PICK pushed : pushed = PushBlocks(blockList, new, batchUsed)
    OBVIOUS
<1>6. new = n + 1 .. n + k /\ new \in SUBSET Int /\ IsFiniteSet(new) /\ new # {}
  <2>1. new = n + 1 .. n + k /\ IsFiniteSet(new)
      BY <1>3, <1>4
  <2>2. n + 1 .. n + k \in SUBSET Int
      OBVIOUS
  <2>3. k \in Nat /\ k >= 1 /\ n + 1 \in n + 1 .. n + k
      BY <1>3
  <2> QED
      BY <2>1, <2>2, <2>3
<1>7. /\ held \in SUBSET Int /\ IsFiniteSet(held)
      /\ held \cup BlocksAt(Elems(blockList)) \cup BlocksAt(Elems(extracted)) = 1 .. n
    BY <1>1 DEF Sound
<1>8. /\ new \cap (BlocksAt(Elems(blockList)) \cup BlocksAt(Elems(extracted))) = {}
      /\ held \cap new = {}
  <2>1. new \cap (1 .. n) = {}
      BY <1>6
  <2> QED
      BY <1>7, <2>1
<1>9. PICK m \in Nat : m = n + k
    OBVIOUS
<1>10. PICK kept \in SUBSET held : kept = held
    OBVIOUS
<1>11. (held \ kept) \cup (1 .. n) \cup new = 1 .. m /\ held \ kept \in SUBSET new
       /\ kept \cap new = {}
    BY <1>6, <1>8, <1>9, <1>10
<1>12. Sound(pushed.list, extracted, pushed.used, kept, m) /\ pushed.list # <<>>
    BY <1>1, <1>5, <1>6, <1>8, <1>11, SoundPush
<1>13. PICK blocks \in Poppable(pushed.list, MaxCached) :
         /\ SetFreeList(PopBlocks(pushed.list, blocks, pushed.used))
         /\ inUse' = inUse + Cardinality(blocks)
         /\ held' = held \cup blocks
    BY <1>4, <1>5 DEF Fill
<1>14. blocks \in SUBSET Head(Head(pushed.list).batches)
    BY <1>13 DEF Poppable, kSubset
<1>15. PICK l : l = pushed.list
    OBVIOUS
<1>16. PICK u : u = pushed.used
    OBVIOUS
<1>17. PICK r : r = PopBlocks(l, blocks, u)
    OBVIOUS
<1>18. Sound(l, extracted, u, kept, m) /\ l # <<>> /\ blocks \in SUBSET Head(Head(l).batches)
    BY <1>12, <1>14, <1>15, <1>16
<1>19. /\ Sound(r.list, extracted, r.used, kept \cup blocks, m)
       /\ IsFiniteSet(blocks) /\ kept \cap blocks = {}
    BY <1>17, <1>18, SoundPop
<1>20. /\ blockList' = r.list /\ batchUsed' = r.used /\ held' = kept \cup blocks
       /\ extracted' = extracted
    BY <1>10, <1>13, <1>15, <1>16, <1>17 DEF SetFreeList, Fill
<1>21. Sound(blockList', extracted', batchUsed', held', m)
    BY <1>19, <1>20
<1>22. allocatedUser' = m * BlockSize
  <2>1. allocatedUser' = allocatedUser + BlockSize * Cardinality(NewBlocks)
      BY DEF Fill
  <2> QED
      BY <1>3, <1>9, <2>1
<1>23. Cardinality(held \cup blocks) = Cardinality(held) + Cardinality(blocks)
  <2>1. Cardinality(held \cup blocks)
          = Cardinality(held) + Cardinality(blocks) - Cardinality(held \cap blocks)
      BY <1>7, <1>19, FS_Union
  <2>2. /\ Cardinality(held \cap blocks) = 0
        /\ Cardinality(held) \in Nat /\ Cardinality(blocks) \in Nat
      BY <1>7, <1>10, <1>19, FS_EmptySet, FS_CardinalityType
  <2> QED
      BY <2>1, <2>2
<1>24. inUse' = Cardinality(held')
    BY <1>13, <1>23 DEF Accounted
<1> QED
    BY <1>21, <1>22, <1>24 DEF Accounted

\* releaseToOSMaybe takes its groups while no other release has any.
LEMMA ExtractAccounted ==
    ASSUME Accounted, HolderAlone, NEW t \in Threads, Extract(t)
    PROVE  Accounted'
<1>1. PICK n \in Nat : /\ allocatedUser = n * BlockSize
                       /\ Sound(blockList, extracted, batchUsed, held, n)
    BY DEF Accounted
<1>2. UNCHANGED <<inUse, batchUsed, allocatedUser, held>>
    BY DEF Extract, memory
<1>3. CASE UNCHANGED <<blockList, extracted>>
    BY <1>1, <1>2, <1>3 DEF Accounted
<1>4. CASE \E chosen \in Selections \ {{}} : TakeGroups(chosen)
  <2>1. PICK chosen : TakeGroups(chosen)
      BY <1>4
  <2>2. extracted = <<>>
    <3>1. pc[t] = "extract" /\ mm = t
        BY DEF Extract, At, HolderAlone, Locked
    <3>2. \A u \in Threads : pc[u] # "merge"
        BY <3>1 DEF HolderAlone, Locked
    <3> QED
        BY <3>2 DEF HolderAlone
  <2>3. PICK a, b : a = extracted' /\ b = blockList'
      OBVIOUS
  <2>4. /\ a = GroupsAt(chosen)
        /\ b = GroupsAt({g.base : g \in ToSet(blockList)} \ chosen)
      BY <2>1, <2>3 DEF TakeGroups
  <2>5. Sound(blockList, <<>>, batchUsed, held, n)
      BY <1>1, <2>2
  <2>6. Sound(b, a, batchUsed, held, n)
      BY <2>4, <2>5, SoundExtract
  <2>7. Sound(blockList', extracted', batchUsed', held', n)
      BY <1>2, <2>3, <2>6
  <2>8. inUse' = Cardinality(held')
      BY <1>2 DEF Accounted
  <2> QED
      BY <1>1, <1>2, <2>7, <2>8 DEF Accounted
<1> QED
    BY <1>3, <1>4 DEF Extract, SkipRelease

\* mergeGroupsToReleaseBack.
LEMMA MergeAccounted ==
    ASSUME Accounted, NEW t \in Threads, Merge(t)
    PROVE  Accounted'
<1>1. PICK n \in Nat : /\ allocatedUser = n * BlockSize
                       /\ Sound(blockList, extracted, batchUsed, held, n)
    BY DEF Accounted
<1>2. PICK r : r = MergeBack(blockList, extracted, batchUsed)
    OBVIOUS
<1>3. Sound(r.list, <<>>, r.used, held, n)
    BY <1>1, <1>2, SoundMerge
<1>4. /\ blockList' = r.list /\ batchUsed' = r.used /\ extracted' = <<>>
      /\ UNCHANGED <<inUse, allocatedUser, held>>
    BY <1>2 DEF Merge, SetFreeList, memory
<1>5. Sound(blockList', extracted', batchUsed', held', n)
    BY <1>3, <1>4
<1>6. inUse' = Cardinality(held')
    BY <1>4 DEF Accounted
<1> QED
    BY <1>1, <1>4, <1>5, <1>6 DEF Accounted

\* Every step moves blocks in one of these ways, or none.
LEMMA AccountedStep ==
    Accounted /\ HolderAlone /\ RoomToFill /\ [Next]_vars => Accounted'
<1> SUFFICES ASSUME Accounted, HolderAlone, RoomToFill, [Next]_vars PROVE Accounted'
    OBVIOUS
<1> USE DEF memory, lists
<1>1. ASSUME UNCHANGED <<blockList, inUse, batchUsed, allocatedUser, extracted, held>>
      PROVE  Accounted'
    BY <1>1 DEF Accounted
<1>2. CASE UNCHANGED vars
    BY <1>1, <1>2 DEF vars
<1>3. ASSUME NEW t \in Threads, NEW from, NEW to, TakeMMLock(t, from, to) PROVE Accounted'
    BY <1>1, <1>3 DEF TakeMMLock
<1>4. ASSUME NEW t \in Threads, PopStep(t) PROVE Accounted'
  <2>1. CASE PopFromList(t)
      BY <2>1, PopAccounted DEF PopFromList
  <2>2. CASE FindEmpty(t)
      BY <1>1, <2>2 DEF FindEmpty
  <2>3. CASE LockToPopulate(t)
      BY <1>3, <2>3 DEF LockToPopulate
  <2>4. CASE Recheck(t)
    <3>1. UNCHANGED <<extracted, allocatedUser>>
        BY <2>4 DEF Recheck
    <3>2. Pop \/ UNCHANGED <<blockList, inUse, batchUsed, held>>
        BY <2>4 DEF Recheck
    <3> QED
        BY <1>1, <3>1, <3>2, PopAccounted
  <2>5. CASE Map(t)
      BY <1>1, <2>5 DEF Map
  <2>6. CASE Fill(t)
      BY <2>6, FillAccounted
  <2>7. CASE Claim(t)
      BY <1>1, <2>7 DEF Claim
  <2>8. CASE LockClaimed(t)
      BY <1>3, <2>8 DEF LockClaimed
  <2>9. CASE Populated(t)
      BY <1>1, <2>9 DEF Populated
  <2>10. CASE Check(t)
    <3>1. UNCHANGED <<extracted, allocatedUser>>
        BY <2>10 DEF Check
    <3>2. Pop \/ UNCHANGED <<blockList, inUse, batchUsed, held>>
        BY <2>10 DEF Check
    <3> QED
        BY <1>1, <3>1, <3>2, PopAccounted
  <2>11. CASE PopAfterWait(t)
    <3>1. UNCHANGED <<extracted, allocatedUser>>
        BY <2>11 DEF PopAfterWait
    <3>2. Pop \/ UNCHANGED <<blockList, inUse, batchUsed, held>>
        BY <2>11 DEF PopAfterWait
    <3> QED
        BY <1>1, <3>1, <3>2, PopAccounted
  <2> QED
      BY <1>4, <2>1, <2>2, <2>3, <2>4, <2>5, <2>6, <2>7, <2>8, <2>9, <2>10, <2>11 DEF PopStep
<1>5. ASSUME NEW t \in Threads, ReleaseStep(t) PROVE Accounted'
  <2>1. CASE ReleaseToOS(t)
      BY <1>1, <2>1 DEF ReleaseToOS
  <2>2. CASE LockToRelease(t)
      BY <1>3, <2>2 DEF LockToRelease
  <2>3. CASE TryReleaseToOS(t)
      BY <1>3, <2>3 DEF TryReleaseToOS
  <2>4. CASE Extract(t)
      BY <2>4, ExtractAccounted
  <2>5. CASE Merge(t)
      BY <2>5, MergeAccounted
  <2> QED
      BY <1>5, <2>1, <2>2, <2>3, <2>4, <2>5 DEF ReleaseStep
<1>6. ASSUME NEW t \in Threads, FutexStep(t) PROVE Accounted'
    BY <1>1, <1>6 DEF FutexStep, Park, WakeSpuriously
<1>7. ASSUME NEW t \in Threads, Disable(t) PROVE Accounted'
    BY <1>3, <1>7 DEF Disable
<1>8. ASSUME NEW t \in Threads, Enable(t) PROVE Accounted'
    BY <1>1, <1>8 DEF Enable
<1> QED
    BY <1>2, <1>4, <1>5, <1>6, <1>7, <1>8, PushAccounted DEF Next

-----------------------------------------------------------------------------

\* The inductive invariant: who may borrow, what may be carved, and where every block is.
AllSound == HolderAlone /\ RoomToFill /\ Accounted

\* A region starts without memory, blocks or records (initLinkerInitialized).
LEMMA InitSound == Init => AllSound
<1> SUFFICES ASSUME Init PROVE AllSound
    OBVIOUS
<1>1. HolderAlone /\ RoomToFill
    BY DEF Init, HolderAlone, RoomToFill, Stages, Locked
<1>2. Accounted
  <2>1. PICK none : none = <<>>
      OBVIOUS
  <2>2. InOrder(none) /\ BlocksAt(Elems(none)) = {} /\ Records(none) = 0
      BY <2>1, NoGroups
  <2>3. PICK h \in SUBSET Int : h = {}
      OBVIOUS
  <2>4. IsFiniteSet(h) /\ Cardinality(h) = 0
      BY <2>3, FS_EmptySet
  <2>5. Sound(none, none, 0, h, 0)
    <3>1. 1 .. 0 = {}
        OBVIOUS
    <3> QED
        BY <2>2, <2>3, <2>4, <3>1 DEF Sound
  <2>6. 0 = 0 * BlockSize
      BY RegionAssumption DEF RegionAssumption
  <2>7. Sound(blockList, extracted, batchUsed, held, 0) /\ inUse = Cardinality(held)
      BY <2>1, <2>3, <2>4, <2>5 DEF Init
  <2>8. allocatedUser = 0 * BlockSize
      BY <2>6 DEF Init
  <2> QED
      BY <2>7, <2>8 DEF Accounted
<1> QED
    BY <1>1, <1>2 DEF AllSound

\* The three parts together are inductive: carving needs the room, extracting needs MMLock
\* (populateFreeListAndPopBlocks, releaseToOSMaybe).
LEMMA StepSound == AllSound /\ [Next]_vars => AllSound'
BY HolderStep, RoomStep, AccountedStep DEF AllSound

\* What is where in a region, however its operations overlap.
LEMMA RegionSound == Spec => []AllSound
BY InitSound, StepSound, PTL DEF Spec

\* The parts of the invariant that the properties are read from.
LEMMA SoundGives ==
    ASSUME AllSound
    PROVE  \E n \in Nat : /\ allocatedUser = n * BlockSize /\ allocatedUser \div BlockSize = n
                          /\ Sound(blockList, extracted, batchUsed, held, n)
                          /\ FreeBlocks = BlocksAt(Elems(AllGroups))
                          /\ inUse = Cardinality(held)
<1>1. PICK n \in Nat : /\ allocatedUser = n * BlockSize
                       /\ Sound(blockList, extracted, batchUsed, held, n)
    BY DEF AllSound, Accounted
<1>2. allocatedUser \div BlockSize = n
    BY <1>1, RegionAssumption, Multiples DEF RegionAssumption
<1>3. PICK list : list = AllGroups
    OBVIOUS
<1>4. Elems(list) = ToSet(list) /\ \A g \in Elems(list) : GroupFits(g)
    BY <1>1, <1>3, SoundSizes DEF AllGroups
<1>5. \A g \in Elems(list) : BlocksOf(g) = BlocksIn(g.batches)
    BY <1>4, GroupCounts
<1>6. FreeBlocks = UNION {BlocksOf(g) : g \in Elems(list)}
    BY <1>3, <1>4 DEF FreeBlocks
<1>7. BlocksAt(Elems(list)) = UNION {BlocksOf(g) : g \in Elems(list)}
    BY <1>5 DEF BlocksAt, BlocksIn
<1> QED
    BY <1>1, <1>2, <1>3, <1>6, <1>7 DEF AllSound, Accounted

\* Whatever the operations overlap, groups are in order, one each, both in the list and among
\* those a release has taken, and NumBlocks counts their blocks (pushBlocksImpl,
\* popBlocksImpl, mergeGroupsToReleaseBack): for any number of threads, of blocks in a batch
\* and in a memory group, and any size of the region.
THEOREM RegionGroupsInOrder == Spec => []GroupsInOrder
<1>1. ASSUME AllSound PROVE GroupsInOrder
  <2>1. PICK n : Sound(blockList, extracted, batchUsed, held, n)
      BY <1>1, SoundGives
  <2>2. \A l \in {blockList, extracted} : \A i, j \in 1 .. Len(l) :
          i < j => l[i].base < l[j].base
      BY <2>1 DEF Sound, InOrder
  <2>3. PICK list : list = AllGroups
      OBVIOUS
  <2>4. Elems(list) = ToSet(list) /\ \A g \in Elems(list) : GroupFits(g)
      BY <2>1, <2>3, SoundSizes DEF AllGroups
  <2>5. ASSUME NEW g \in ToSet(AllGroups)
        PROVE  /\ \A b \in BlocksOf(g) : GroupOf(b) = g.base
               /\ {} \notin ToSet(g.batches)
               /\ NumBlocks(g) = Cardinality(BlocksOf(g))
    <3>1. GroupFits(g)
        BY <2>3, <2>4, <2>5
    <3> QED
        BY <3>1, GroupBatches, GroupCounts
  <2> QED
      BY <2>2, <2>5 DEF GroupsInOrder
<1> QED
    BY <1>1, RegionSound, PTL

\* The records in use are those of the list and of the borrowed groups: none is lost or given
\* back twice (CreateGroup, InsertBlocks, popBlocksImpl, mergeGroupsToReleaseBack).
THEOREM RegionRecordsAccounted == Spec => []RecordsAccounted
<1>1. ASSUME AllSound PROVE RecordsAccounted
  <2>1. PICK n : Sound(blockList, extracted, batchUsed, held, n)
      BY <1>1, SoundGives
  <2>2. PICK list : list = AllGroups
      OBVIOUS
  <2>3. FoldLeft(LAMBDA k, g : k + RecordsOf(g), 0, list) = batchUsed
      BY <2>1, <2>2, SoundSizes DEF AllGroups
  <2> QED
      BY <2>2, <2>3 DEF RecordsAccounted
<1> QED
    BY <1>1, RegionSound, PTL

\* Every block carved from the region is at one place, once, and the counters give the bytes
\* in the free list; a fork, which disables the region, gives the child a list from which
\* nothing is borrowed (pushBlocks, popBlocks, populateFreeListAndPopBlocks,
\* releaseToOSMaybe, disable).
THEOREM RegionBlocksAccounted == Spec => []BlocksAccounted
<1>1. ASSUME AllSound PROVE BlocksAccounted
  <2>1. PICK n \in Nat : /\ allocatedUser = n * BlockSize /\ allocatedUser \div BlockSize = n
                         /\ Sound(blockList, extracted, batchUsed, held, n)
                         /\ FreeBlocks = BlocksAt(Elems(AllGroups))
                         /\ inUse = Cardinality(held)
      BY <1>1, SoundGives
  <2>2. PICK list : list = AllGroups
      OBVIOUS
  <2>3. PICK h, k \in Nat : h = Cardinality(held) /\ k = TotalBlocks(list) /\ h + k = n
    <3>1. list = blockList \o extracted
        BY <2>2 DEF AllGroups
    <3>2. Sound(blockList, extracted, batchUsed, held, n)
        BY <2>1
    <3>3. Cardinality(held) \in Nat /\ TotalBlocks(list) \in Nat
        BY ONLY <3>1, <3>2, SoundSizes
    <3>4. Cardinality(held) + TotalBlocks(list) = n
        BY ONLY <3>1, <3>2, SoundSizes
    <3> QED
        BY <3>3, <3>4
  <2>4. /\ k = Cardinality(BlocksAt(Elems(list)))
        /\ BlocksAt(Elems(list)) = BlocksAt(Elems(blockList)) \cup BlocksAt(Elems(extracted))
      BY <2>1, <2>2, <2>3, SoundSizes DEF AllGroups
  <2>5. held \cap FreeBlocks = {} /\ held \cup FreeBlocks = 1 .. (allocatedUser \div BlockSize)
      BY <2>1, <2>2, <2>4 DEF Sound
  <2>6. TotalBlocks(AllGroups) = Cardinality(FreeBlocks)
      BY <2>1, <2>2, <2>3, <2>4
  <2>7. BytesInFreeList = TotalBlocks(AllGroups) * BlockSize
    <3>1. PICK s \in Nat : s = BlockSize
        BY RegionAssumption DEF RegionAssumption
    <3>2. (h + k) * s - h * s = k * s
        OBVIOUS
    <3>3. BytesInFreeList = (h + k) * s - h * s
        BY <2>1, <2>3, <3>1 DEF BytesInFreeList
    <3> QED
        BY <2>2, <2>3, <3>1, <3>2, <3>3
  <2>8. Disabled => extracted = <<>>
    <3> SUFFICES ASSUME NEW t \in Threads, pc[t] = "disabled" PROVE extracted = <<>>
        BY DEF Disabled, At
    <3>1. HolderAlone
        BY <1>1 DEF AllSound
    <3>2. \A u \in Threads : pc[u] # "merge"
        BY <3>1 DEF HolderAlone, Locked
    <3> QED
        BY <3>1, <3>2 DEF HolderAlone
  <2> QED
      BY <2>5, <2>6, <2>7, <2>8 DEF BlocksAccounted
<1> QED
    BY <1>1, RegionSound, PTL
=============================================================================
