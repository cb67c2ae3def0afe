-------------------------- MODULE Frontend_proofs ---------------------------
(***************************************************************************)
(* The locks of the combined allocator, for any threads, TSDs, programs    *)
(* and sizes and with either registry: which ones a call has at each of    *)
(* its stages.  It follows that a TSD is worked with by one thread at a    *)
(* time, that all calls take locks in the order of disable, and that       *)
(* nothing moves while a thread has the allocator disabled.  With it, that *)
(* the destructors of a thread leave nothing in its TSD.  Last come lemmas *)
(* about operators: folds and sums over finite sets, and what enqueue,     *)
(* transfer, mergeBatches and dequeueBatch do to lists of batches and to   *)
(* their counters.                                                         *)
(***************************************************************************)
EXTENDS Frontend, FiniteSetTheorems, NaturalsInduction, SequenceTheorems,
        WellFoundedInduction, TLAPS

-----------------------------------------------------------------------------
(* The invariant.                                                          *)

\* A job has its eight fields, whatever they are.
JobOver(S) == [op : S, tsd : S, size : S, align : S, ptr : S, result : S, batches : S,
               todo : S]
IsJob(work) == \E S : work \in JobOver(S)

\* The TSDs of the registry that have a lock, and those that a thread may use.
RegistryLocks == IF registry = "shared" THEN SharedTSDs ELSE {FallbackTSD}
Reachable(t) == {t} \cup RegistryLocks

\* Where a lock is in the order of disable: all TSDs are at one place.
Rank(l) ==
    CASE l \in {"Mutex", "TSDs"} -> 0
      [] l = "Stats" -> 2
      [] l = "Recycle" -> 3
      [] l = "Cache" -> 4
      [] l = "Primary" -> 5
      [] l = "Secondary" -> 6
      [] OTHER -> 1

Below(l, m) == Rank(l) < Rank(m) \/ (Rank(l) = 1 /\ Rank(m) = 1)

Ordered(s) == \A i, j \in DOMAIN s : i < j => Below(s[i], s[j])

ClientOps == {"malloc", "free", "realloc"}
NeedTSD == {"take", "fallback", "slow", "await", "pop", "map", "mark", "resize", "push",
            "unmap", "put"}

\* What a call of t may work on at a stage.
Fit(t, stage, work) ==
    /\ IsJob(work) /\ work.tsd \in Reachable(t) \cup {NoTSD}
    /\ stage \in InHand => work.tsd # NoTSD
    /\ stage \in NeedTSD => work.op \in ClientOps
    /\ stage \in {"slow", "await"} => registry = "shared"
    /\ stage = "fallback" => registry # "shared"
    /\ stage = "await" => work.tsd \in SharedTSDs
    /\ stage \in {"init", "attach"} => work.op \in ClientOps \cup {"drain", "disable"}
    /\ stage \in {"init", "attach"} /\ work.op = "disable" => work.todo = DisableOrder
    /\ stage \in {"disabling", "disabled"} => work.op = "disable"
    /\ stage = "disabled" => work.todo = <<>>
    /\ stage = "tryrecycle" => work.op # "drain"
    /\ stage = "flush" => work.op \in {"drain", "exit"}
    /\ stage = "unlink" => work.op = "exit"
    /\ stage \in {"locktsds", "nexttsd"} => work.op = "drain"
    /\ work.op = "exit" => work.tsd = t /\ registry # "shared"
    /\ work.op = "drain" => work.todo \in Seq(Reachable(t))

\* The locks it may hold there, unless it disables the allocator, and those that it has.
Known(stage) == stage \notin {"disabling", "disabled", "aborted"}
ForDrain(work) == IF work.op = "drain" THEN {"TSDs"} ELSE {}

Allowed(stage, work) ==
    CASE stage \in {"pop", "push", "put", "tryrecycle"} -> {work.tsd}
      [] stage \in {"transfer", "lockrecycle", "scrub", "flush"} ->
           {work.tsd} \cup ForDrain(work)
      [] stage \in {"recycle", "unlock"} -> {work.tsd, "Recycle"} \cup ForDrain(work)
      [] stage = "nexttsd" -> ForDrain(work)
      [] OTHER -> {}

Holds(t, stage, work) ==
    /\ Known(stage) => \A l \in Locks : lock[l] = t => l \in Allowed(stage, work)
    /\ stage \in InHand => work.tsd = t \/ lock[work.tsd] = t
    /\ stage \in {"recycle", "unlock"} => lock["Recycle"] = t

\* What disable takes: "flag" stands for the store to Disabled.
ToDisable == PartLocks \cup RegistryLocks \cup {"flag"}

\* What disable has taken comes before what it has yet to take, and is Mutex first.
ElementsOf(s) == {s[i] : i \in DOMAIN s}

Has(t, l) == IF l = "flag" THEN disabled /\ lock["Mutex"] = t ELSE lock[l] = t

Disables(t, stage, work) ==
    /\ stage = "disabling" =>
          /\ work.todo \in Seq(ToDisable) /\ work.todo # <<>>
          /\ Ordered(work.todo)
          /\ \A l \in Locks : lock[l] = t => Below(l, Head(work.todo))
          /\ Head(work.todo) # "Mutex" => lock["Mutex"] = t
    /\ stage \in {"disabling", "disabled"} =>
          \A l \in ElementsOf(DisableOrder) \ ElementsOf(work.todo) : Has(t, l)

\* A thread of the shared registry has a TSD once it is initialized, and no destructor.
Associated(t, stage) ==
    registry = "shared" =>
      /\ key[t] = "unset"
      /\ initState[t] # "NotInitialized" => current[t] \in SharedTSDs
      /\ stage \in NeedTSD => initState[t] # "NotInitialized"

LockTypes ==
    /\ lock \in [Locks -> Threads \cup {NoThread}]
    /\ \A l \in Locks : lock[l] # NoThread => l \in PartLocks \cup RegistryLocks
    /\ current \in [Threads -> SharedTSDs \cup {NoTSD}]
    /\ DOMAIN pc = Threads /\ DOMAIN job = Threads
    /\ DOMAIN initState = Threads /\ DOMAIN key = Threads

Sound(t) ==
    /\ Fit(t, pc[t], job[t])
    /\ Holds(t, pc[t], job[t])
    /\ Disables(t, pc[t], job[t])
    /\ Associated(t, pc[t])

LockInv == LockTypes /\ \A t \in Threads : Sound(t)

-----------------------------------------------------------------------------
(* Jobs, and the order of disable.                                         *)

\* NoJob is a job.
LEMMA NoJobFacts ==
    /\ IsJob(NoJob) /\ NoJob.tsd = NoTSD /\ NoJob.op = "none" /\ NoJob.todo = <<>>
<1>1. NoJob \in JobOver({"none", NoTSD, 0, MinAlignment, None, <<>>})
    BY DEF JobOver, NoJob
<1>2. NoJob.tsd = NoTSD /\ NoJob.op = "none" /\ NoJob.todo = <<>>
    BY DEF NoJob
<1> QED
    BY <1>1, <1>2 DEF IsJob

\* The job of a new call, and that of commitBack.
NewJob(op, size, align, p, todo) ==
    [NoJob EXCEPT !.op = op, !.size = size, !.align = align, !.ptr = p, !.todo = todo]
ExitJob(t) == [NoJob EXCEPT !.op = "exit", !.tsd = t]

\* A new call has no TSD yet.
LEMMA CallFacts ==
    ASSUME NEW op, NEW size, NEW align, NEW p, NEW todo
    PROVE  /\ IsJob(NewJob(op, size, align, p, todo))
           /\ NewJob(op, size, align, p, todo).tsd = NoTSD
           /\ NewJob(op, size, align, p, todo).op = op
           /\ NewJob(op, size, align, p, todo).todo = todo
<1>1. PICK S : NoJob \in JobOver(S)
    BY NoJobFacts DEF IsJob
<1> DEFINE w == NewJob(op, size, align, p, todo)
<1>2. /\ w \in JobOver(S \cup {op, size, align, p, todo})
      /\ w.tsd = NoJob.tsd /\ w.op = op /\ w.todo = todo
    BY <1>1 DEF JobOver, NewJob
<1> QED
    BY <1>2, NoJobFacts DEF IsJob

\* commitBack has no TSD but the thread's own.
LEMMA ExitFacts ==
    ASSUME NEW t
    PROVE  IsJob(ExitJob(t)) /\ ExitJob(t).tsd = t /\ ExitJob(t).op = "exit"
<1>1. PICK S : NoJob \in JobOver(S)
    BY NoJobFacts DEF IsJob
<1>2. /\ ExitJob(t) \in JobOver(S \cup {"exit", t})
      /\ ExitJob(t).tsd = t /\ ExitJob(t).op = "exit"
    BY <1>1 DEF JobOver, ExitJob
<1> QED
    BY <1>2 DEF IsJob

\* A job goes on with another TSD, with the new block of a resize, with the next TSD of
\* a drain, with other batches, or with less to lock.
WithTSD(work, x) == [work EXCEPT !.tsd = x]
WithResult(work, x, y) == [work EXCEPT !.tsd = x, !.result = y]
WithNext(work, x, y) == [work EXCEPT !.tsd = x, !.todo = y]
WithBatches(work, x) == [work EXCEPT !.batches = x]
WithTodo(work, x) == [work EXCEPT !.todo = x]

\* Its other fields stay as they are.
LEMMA JobFacts ==
    ASSUME NEW work, IsJob(work), NEW x, NEW y
    PROVE  /\ LET w == WithTSD(work, x)
              IN  IsJob(w) /\ w.tsd = x /\ w.op = work.op /\ w.todo = work.todo
           /\ LET w == WithResult(work, x, y)
              IN  IsJob(w) /\ w.tsd = x /\ w.op = work.op /\ w.todo = work.todo
           /\ LET w == WithNext(work, x, y)
              IN  IsJob(w) /\ w.tsd = x /\ w.op = work.op /\ w.todo = y
           /\ LET w == WithBatches(work, x)
              IN  IsJob(w) /\ w.tsd = work.tsd /\ w.op = work.op /\ w.todo = work.todo
           /\ LET w == WithTodo(work, x)
              IN  IsJob(w) /\ w.tsd = work.tsd /\ w.op = work.op /\ w.todo = x
<1>1. PICK S : work \in JobOver(S)
    BY DEF IsJob
<1> DEFINE v1 == WithTSD(work, x)
           v2 == WithResult(work, x, y)
           v3 == WithNext(work, x, y)
           v4 == WithBatches(work, x)
           v5 == WithTodo(work, x)
<1>2. v1 \in JobOver(S \cup {x}) /\ v1.tsd = x /\ v1.op = work.op /\ v1.todo = work.todo
    BY <1>1 DEF JobOver, WithTSD
<1>3. v2 \in JobOver(S \cup {x, y}) /\ v2.tsd = x /\ v2.op = work.op /\ v2.todo = work.todo
    BY <1>1 DEF JobOver, WithResult
<1>4. v3 \in JobOver(S \cup {x, y}) /\ v3.tsd = x /\ v3.op = work.op /\ v3.todo = y
    BY <1>1 DEF JobOver, WithNext
<1>5. v4 \in JobOver(S \cup {x}) /\ v4.tsd = work.tsd /\ v4.op = work.op /\ v4.todo = work.todo
    BY <1>1 DEF JobOver, WithBatches
<1>6. v5 \in JobOver(S \cup {x}) /\ v5.tsd = work.tsd /\ v5.op = work.op /\ v5.todo = x
    BY <1>1 DEF JobOver, WithTodo
<1> HIDE DEF v1, v2, v3, v4, v5
<1>7. IsJob(v1) /\ IsJob(v2) /\ IsJob(v3) /\ IsJob(v4) /\ IsJob(v5)
    BY <1>2, <1>3, <1>4, <1>5, <1>6 DEF IsJob
<1> QED
    BY <1>2, <1>3, <1>4, <1>5, <1>6, <1>7 DEF v1, v2, v3, v4, v5

\* Ranks are numbers; those of TSDs are 1.
LEMMA RankFacts ==
    /\ \A l : Rank(l) \in Nat
    /\ \A l \in TSDLocks : l \in Locks /\ Rank(l) = 1
    /\ \A t \in Threads \cup {NoThread} : t \notin Locks
    /\ \A l \in AllTSDs \cup {NoTSD} : l \notin PartLocks /\ (l \in Locks => Rank(l) = 1)
    /\ PartLocks \subseteq Locks /\ NoThread \notin Threads
<1>1. \A l : Rank(l) \in Nat
    BY DEF Rank
<1>2. \A l \in TSDLocks : l \in Locks /\ l \notin PartLocks
    BY FrontendAssumption DEF FrontendAssumption, Locks
<1>3. \A l : l \notin PartLocks => Rank(l) = 1
    BY DEF Rank, PartLocks
<1>4. \A t \in Threads \cup {NoThread} : t \notin Locks
    BY FrontendAssumption DEF FrontendAssumption
<1>5. PartLocks \subseteq Locks /\ NoThread \notin Threads
    BY FrontendAssumption DEF FrontendAssumption, Locks
<1>6. \A l \in AllTSDs \cup {NoTSD} : l \in TSDLocks \/ l \in Threads \cup {NoThread}
    BY DEF AllTSDs, NoTSD
<1>7. \A l \in AllTSDs \cup {NoTSD} : l \notin PartLocks /\ (l \in Locks => Rank(l) = 1)
    BY <1>2, <1>3, <1>4, <1>5, <1>6
<1> QED
    BY <1>1, <1>2, <1>3, <1>4, <1>5, <1>7

UpTo(s, n) == \A i \in DOMAIN s : Rank(s[i]) <= n

\* A list goes on with locks of higher rank.
LEMMA JoinOrdered ==
    ASSUME NEW S, NEW r \in Seq(S), NEW s \in Seq(S), NEW n \in Nat, NEW m \in Nat,
           r # <<>>, Ordered(r), Ordered(s), UpTo(r, n), UpTo(s, m), n <= m,
           \A j \in DOMAIN s : Rank(s[j]) > n
    PROVE  /\ r \o s \in Seq(S) /\ r \o s # <<>> /\ Head(r \o s) = Head(r)
           /\ Ordered(r \o s) /\ UpTo(r \o s, m)
<1> DEFINE c == r \o s
<1>1. /\ Len(r) \in Nat \ {0} /\ DOMAIN r = 1 .. Len(r)
      /\ Len(s) \in Nat /\ DOMAIN s = 1 .. Len(s)
    BY EmptySeq
<1>2. /\ c \in Seq(S) /\ Len(c) = Len(r) + Len(s) /\ DOMAIN c = 1 .. Len(r) + Len(s)
      /\ \A k \in 1 .. Len(r) + Len(s) : c[k] = IF k <= Len(r) THEN r[k] ELSE s[k - Len(r)]
    BY <1>1, ConcatProperties
<1> HIDE DEF c
<1>3. \A k \in DOMAIN c : \/ k \in DOMAIN r /\ c[k] = r[k]
                          \/ k > Len(r) /\ k - Len(r) \in DOMAIN s /\ c[k] = s[k - Len(r)]
    BY <1>1, <1>2
<1>4. UpTo(c, m)
    BY <1>3, RankFacts DEF UpTo
<1>5. Ordered(c)
  <2> SUFFICES ASSUME NEW i \in DOMAIN c, NEW j \in DOMAIN c, i < j
               PROVE  Below(c[i], c[j])
      BY DEF Ordered
  <2>0. i \in Nat /\ j \in Nat
      BY <1>1, <1>2
  <2>1. CASE i \in DOMAIN r /\ c[i] = r[i] /\ j \in DOMAIN r /\ c[j] = r[j]
      BY <2>1 DEF Ordered
  <2>2. CASE /\ i > Len(r) /\ i - Len(r) \in DOMAIN s /\ c[i] = s[i - Len(r)]
             /\ j > Len(r) /\ j - Len(r) \in DOMAIN s /\ c[j] = s[j - Len(r)]
    <3>1. i - Len(r) < j - Len(r)
        BY <1>1, <2>0
    <3> QED
        BY <2>2, <3>1 DEF Ordered
  <2>3. CASE /\ i \in DOMAIN r /\ c[i] = r[i]
             /\ j - Len(r) \in DOMAIN s /\ c[j] = s[j - Len(r)]
    <3>1. Rank(c[i]) <= n /\ Rank(c[j]) > n
        BY <2>3 DEF UpTo
    <3> QED
        BY <3>1, RankFacts DEF Below
  <2>4. ~(i > Len(r) /\ j \in DOMAIN r)
      BY <1>1, <2>0
  <2> QED
      BY <1>3, <2>1, <2>2, <2>3, <2>4
<1>6. c # <<>> /\ Head(c) = Head(r)
  <2>1. Len(c) # 0 /\ c[1] = r[1]
      BY <1>1, <1>2
  <2>2. c # <<>>
      BY <1>2, <2>1, EmptySeq
  <2> QED
      BY <1>2, <2>1, <2>2
<1> QED
    BY <1>2, <1>4, <1>5, <1>6 DEF c

\* The shared TSDs as a sequence.
LEMMA SharedSequence == SetToSeq(SharedTSDs) \in Seq(SharedTSDs)
<1> DEFINE n == Cardinality(SharedTSDs)
<1>1. n \in Nat /\ ExistsBijection(1 .. n, SharedTSDs)
    BY FrontendAssumption, FS_CardinalityType DEF FrontendAssumption
<1> HIDE DEF n
<1>2. \E f \in [1 .. n -> SharedTSDs] : IsInjective(f)
    BY <1>1 DEF ExistsBijection, Bijection, Injection, Surjection, IsInjective
<1>3. SetToSeq(SharedTSDs) \in [1 .. n -> SharedTSDs]
    BY <1>2 DEF SetToSeq, n
<1> QED
    BY <1>1, <1>3

\* The first lock of disable is Mutex, and ranks rise.
LEMMA DisableOrderFacts ==
    /\ DisableOrder \in Seq(ToDisable) /\ DisableOrder # <<>>
    /\ Ordered(DisableOrder) /\ Head(DisableOrder) = "Mutex"
<1> DEFINE S == ToDisable
           registryLocks == IF registry = "shared" THEN SharedLocks ELSE ExclusiveLocks
<1>0. /\ Rank("Mutex") = 0 /\ Rank("Stats") = 2 /\ Rank("Recycle") = 3 /\ Rank("Cache") = 4
      /\ Rank("Primary") = 5 /\ Rank("Secondary") = 6 /\ Rank("flag") = 1
      /\ \A l \in RegistryLocks : Rank(l) = 1 /\ l \in S
      /\ \A l \in PartLocks : l \in S
    BY RankFacts DEF Rank, RegistryLocks, TSDLocks, ToDisable
<1>1. /\ registryLocks \in Seq(S) /\ registryLocks # <<>> /\ Ordered(registryLocks)
      /\ UpTo(registryLocks, 1) /\ Head(registryLocks) = "Mutex"
  <2>1. CASE registry = "shared"
    <3> DEFINE r == <<"Mutex">>
               s == SetToSeq(SharedTSDs)
    <3>1. r \in Seq(S) /\ r # <<>> /\ Head(r) = "Mutex" /\ Ordered(r) /\ UpTo(r, 0)
        BY <1>0 DEF Ordered, UpTo, PartLocks
    <3>2. s \in Seq(S) /\ \A j \in DOMAIN s : Rank(s[j]) = 1
      <4>1. s \in Seq(SharedTSDs) /\ \A l \in SharedTSDs : l \in S /\ Rank(l) = 1
          BY <1>0, <2>1, SharedSequence DEF RegistryLocks
      <4>2. DOMAIN s = 1 .. Len(s) /\ Len(s) \in Nat /\ \A j \in DOMAIN s : s[j] \in SharedTSDs
          BY <4>1
      <4> HIDE DEF s, S
      <4>3. s \in Seq(S)
          BY <4>1, <4>2
      <4> QED
          BY <4>1, <4>2, <4>3
    <3> HIDE DEF r, s, S
    <3>3. Ordered(s) /\ UpTo(s, 1)
        BY <3>2 DEF Ordered, UpTo, Below
    <3>4. /\ r \o s \in Seq(S) /\ r \o s # <<>> /\ Head(r \o s) = "Mutex"
          /\ Ordered(r \o s) /\ UpTo(r \o s, 1)
        BY <3>1, <3>2, <3>3, JoinOrdered, 0 <= 1
    <3> QED
        BY <2>1, <3>4 DEF SharedLocks, r, s
  <2>2. CASE registry # "shared"
    <3>1. Rank(FallbackTSD) = 1 /\ {"Mutex", FallbackTSD, "flag"} \subseteq S
        BY <1>0, <2>2 DEF RegistryLocks, PartLocks, ToDisable
    <3> HIDE DEF S
    <3> QED
        BY <1>0, <2>2, <3>1 DEF ExclusiveLocks, Ordered, UpTo, Below, PartLocks
  <2> QED
      BY <2>1, <2>2
<1>2. /\ <<"Stats">> \in Seq(S) /\ QuarantineLocks \in Seq(S)
      /\ <<"Primary", "Secondary">> \in Seq(S)
    BY <1>0 DEF QuarantineLocks, PartLocks
<1>3. /\ Ordered(<<"Stats">>) /\ UpTo(<<"Stats">>, 2)
      /\ \A j \in DOMAIN <<"Stats">> : Rank(<<"Stats">>[j]) > 1
    BY <1>0 DEF Ordered, UpTo
<1>4. /\ Ordered(QuarantineLocks) /\ UpTo(QuarantineLocks, 4)
      /\ \A j \in DOMAIN QuarantineLocks : Rank(QuarantineLocks[j]) > 2
    BY <1>0 DEF Ordered, UpTo, Below, QuarantineLocks
<1>5. /\ Ordered(<<"Primary", "Secondary">>) /\ UpTo(<<"Primary", "Secondary">>, 6)
      /\ \A j \in DOMAIN <<"Primary", "Secondary">> : Rank(<<"Primary", "Secondary">>[j]) > 4
    BY <1>0 DEF Ordered, UpTo, Below
<1> HIDE DEF S, registryLocks
<1> DEFINE a == registryLocks \o <<"Stats">>
           b == a \o QuarantineLocks
           c == b \o <<"Primary", "Secondary">>
<1>6. a \in Seq(S) /\ a # <<>> /\ Head(a) = "Mutex" /\ Ordered(a) /\ UpTo(a, 2)
    BY <1>1, <1>2, <1>3, JoinOrdered, 1 <= 2
<1> HIDE DEF a
<1>7. b \in Seq(S) /\ b # <<>> /\ Head(b) = "Mutex" /\ Ordered(b) /\ UpTo(b, 4)
    BY <1>2, <1>4, <1>6, JoinOrdered, 2 <= 4
<1> HIDE DEF b
<1>8. c \in Seq(S) /\ c # <<>> /\ Head(c) = "Mutex" /\ Ordered(c)
    BY <1>2, <1>5, <1>7, JoinOrdered, 4 <= 6
<1>9. c = DisableOrder
    BY DEF DisableOrder, registryLocks, a, b
<1> QED
    BY <1>8, <1>9 DEF S

\* Its elements are those of its parts.
LEMMA ConcatElements ==
    ASSUME NEW S, NEW r \in Seq(S), NEW s \in Seq(S)
    PROVE  /\ r \o s \in Seq(S)
           /\ \A l \in ElementsOf(r) \cup ElementsOf(s) : l \in ElementsOf(r \o s)
<1> DEFINE c == r \o s
<1>1. /\ Len(r) \in Nat /\ DOMAIN r = 1 .. Len(r) /\ Len(s) \in Nat /\ DOMAIN s = 1 .. Len(s)
    OBVIOUS
<1>2. /\ c \in Seq(S) /\ Len(c) = Len(r) + Len(s) /\ DOMAIN c = 1 .. Len(r) + Len(s)
      /\ \A k \in 1 .. Len(r) + Len(s) : c[k] = IF k <= Len(r) THEN r[k] ELSE s[k - Len(r)]
    BY <1>1, ConcatProperties
<1> HIDE DEF c
<1>3. ASSUME NEW i \in DOMAIN r
      PROVE  i \in DOMAIN c /\ c[i] = r[i]
    BY <1>1, <1>2
<1>4. ASSUME NEW i \in DOMAIN s
      PROVE  Len(r) + i \in DOMAIN c /\ c[Len(r) + i] = s[i]
    BY <1>1, <1>2
<1>5. ASSUME NEW l \in ElementsOf(r)
      PROVE  l \in ElementsOf(c)
  <2>1. PICK i \in DOMAIN r : l = r[i]
      BY DEF ElementsOf
  <2> QED
      BY <1>3, <2>1 DEF ElementsOf
<1>6. ASSUME NEW l \in ElementsOf(s)
      PROVE  l \in ElementsOf(c)
  <2>1. PICK i \in DOMAIN s : l = s[i]
      BY DEF ElementsOf
  <2>2. Len(r) + i \in DOMAIN c /\ c[Len(r) + i] = l
      BY <1>4, <2>1
  <2> QED
      BY <2>2 DEF ElementsOf
<1> QED
    BY <1>2, <1>5, <1>6 DEF c

\* SetToSeq leaves out no TSD.
LEMMA SharedElements == SharedTSDs \subseteq ElementsOf(SetToSeq(SharedTSDs))
<1> DEFINE n == Cardinality(SharedTSDs)
           s == SetToSeq(SharedTSDs)
<1>1. n \in Nat /\ ExistsBijection(1 .. n, SharedTSDs)
    BY FrontendAssumption, FS_CardinalityType DEF FrontendAssumption
<1>2. n = Cardinality(SharedTSDs)
    OBVIOUS
<1> HIDE DEF n
<1>3. \E f \in [1 .. n -> SharedTSDs] : IsInjective(f)
    BY <1>1 DEF ExistsBijection, Bijection, Injection, Surjection, IsInjective
<1>4. s \in [1 .. n -> SharedTSDs] /\ IsInjective(s)
    BY <1>3 DEF SetToSeq, n
<1> HIDE DEF s
<1>5. s \in Injection(1 .. n, SharedTSDs)
    BY <1>4 DEF Injection
<1>6. Cardinality(1 .. n) = Cardinality(SharedTSDs)
    BY <1>1, <1>2, FS_Interval
<1>7. s \in Surjection(1 .. n, SharedTSDs)
    BY <1>5, <1>6, FS_Injection, FrontendAssumption DEF FrontendAssumption
<1> QED
    BY <1>4, <1>7 DEF Surjection, ElementsOf, s

\* disable takes every lock but TSDs and those of TSDs that the registry does not have.
LEMMA DisableTakes ==
    /\ PartLocks \ {"TSDs"} \subseteq ElementsOf(DisableOrder)
    /\ RegistryLocks \subseteq ElementsOf(DisableOrder)
    /\ registry # "shared" => "flag" \in ElementsOf(DisableOrder)
<1> DEFINE S == Locks \cup {"flag"}
           registryLocks == IF registry = "shared" THEN SharedLocks ELSE ExclusiveLocks
<1>0. PartLocks \subseteq S /\ TSDLocks \subseteq S
    BY RankFacts
<1>1. /\ registryLocks \in Seq(S) /\ "Mutex" \in ElementsOf(registryLocks)
      /\ RegistryLocks \subseteq ElementsOf(registryLocks)
      /\ registry # "shared" => "flag" \in ElementsOf(registryLocks)
  <2>1. CASE registry = "shared"
    <3>1. SetToSeq(SharedTSDs) \in Seq(S)
      <4> DEFINE s == SetToSeq(SharedTSDs)
      <4>1. s \in Seq(SharedTSDs) /\ SharedTSDs \subseteq S
          BY <1>0, SharedSequence DEF TSDLocks
      <4>2. DOMAIN s = 1 .. Len(s) /\ Len(s) \in Nat /\ \A j \in DOMAIN s : s[j] \in SharedTSDs
          BY <4>1
      <4> HIDE DEF s, S
      <4>3. s \in Seq(S)
          BY <4>1, <4>2
      <4> QED
          BY <4>3 DEF s
    <3>2. <<"Mutex">> \in Seq(S) /\ "Mutex" \in ElementsOf(<<"Mutex">>)
        BY <1>0 DEF PartLocks, ElementsOf
    <3> HIDE DEF S
    <3>3. /\ SharedLocks \in Seq(S) /\ "Mutex" \in ElementsOf(SharedLocks)
          /\ SharedTSDs \subseteq ElementsOf(SharedLocks)
        BY <3>1, <3>2, SharedElements, ConcatElements DEF SharedLocks
    <3> QED
        BY <2>1, <3>3 DEF RegistryLocks
  <2>2. CASE registry # "shared"
    <3>1. /\ ExclusiveLocks \in Seq(S)
          /\ {"Mutex", FallbackTSD, "flag"} \subseteq ElementsOf(ExclusiveLocks)
        BY <1>0 DEF ExclusiveLocks, ElementsOf, PartLocks, TSDLocks
    <3> QED
        BY <2>2, <3>1 DEF RegistryLocks
  <2> QED
      BY <2>1, <2>2
<1>2. /\ <<"Stats">> \in Seq(S) /\ "Stats" \in ElementsOf(<<"Stats">>)
      /\ QuarantineLocks \in Seq(S) /\ {"Recycle", "Cache"} \subseteq ElementsOf(QuarantineLocks)
      /\ <<"Primary", "Secondary">> \in Seq(S)
      /\ {"Primary", "Secondary"} \subseteq ElementsOf(<<"Primary", "Secondary">>)
    BY <1>0 DEF QuarantineLocks, PartLocks, ElementsOf
<1> HIDE DEF S, registryLocks
<1> DEFINE a == registryLocks \o <<"Stats">>
           b == a \o QuarantineLocks
           c == b \o <<"Primary", "Secondary">>
<1>3. /\ a \in Seq(S) /\ {"Mutex", "Stats"} \subseteq ElementsOf(a)
      /\ RegistryLocks \subseteq ElementsOf(a)
      /\ registry # "shared" => "flag" \in ElementsOf(a)
    BY <1>1, <1>2, ConcatElements
<1> HIDE DEF a
<1>4. /\ b \in Seq(S) /\ {"Mutex", "Stats", "Recycle", "Cache"} \subseteq ElementsOf(b)
      /\ RegistryLocks \subseteq ElementsOf(b)
      /\ registry # "shared" => "flag" \in ElementsOf(b)
    BY <1>2, <1>3, ConcatElements
<1> HIDE DEF b
<1>5. /\ {"Mutex", "Stats", "Recycle", "Cache", "Primary", "Secondary"} \subseteq ElementsOf(c)
      /\ RegistryLocks \subseteq ElementsOf(c)
      /\ registry # "shared" => "flag" \in ElementsOf(c)
    BY <1>2, <1>4, ConcatElements
<1>6. c = DisableOrder
    BY DEF DisableOrder, registryLocks, a, b
<1> QED
    BY <1>5, <1>6 DEF PartLocks

\* The TSDs that a thread may use, beside its own, have locks.
LEMMA ReachFacts ==
    ASSUME NEW t \in Threads
    PROVE  /\ \A l \in Reachable(t) \cup {NoTSD} : l \notin PartLocks /\ (l \in Locks => Rank(l) = 1)
           /\ \A l \in Reachable(t) : l = t \/ (l \in RegistryLocks /\ l \in Locks)
           /\ \A l \in RegistryLocks : l \in Locks /\ l \notin Threads /\ l \notin PartLocks
           /\ t \in Reachable(t) /\ RegistryLocks \subseteq Reachable(t)
           /\ NoTSD \notin Reachable(t)
<1>1. RegistryLocks \subseteq TSDLocks
    BY DEF RegistryLocks, TSDLocks
<1>2. Reachable(t) = {t} \cup RegistryLocks /\ Reachable(t) \subseteq AllTSDs
    BY <1>1 DEF Reachable, AllTSDs
<1> QED
    BY <1>1, <1>2, RankFacts DEF NoTSD

\* The TSDs that drainCaches goes through.
LEMMA DrainableFacts == ASSUME NEW t \in Threads PROVE Drainable(t) \in Seq(Reachable(t))
<1>1. CASE registry = "shared"
  <2> DEFINE s == SetToSeq(SharedTSDs)
  <2>1. s \in Seq(SharedTSDs)
      BY SharedSequence
  <2>2. s = Drainable(t)
      BY <1>1 DEF Drainable
  <2> HIDE DEF s
  <2>3. DOMAIN s = 1 .. Len(s) /\ Len(s) \in Nat /\ \A j \in DOMAIN s : s[j] \in Reachable(t)
      BY <1>1, <2>1 DEF Reachable, RegistryLocks
  <2>4. s \in Seq(Reachable(t))
      BY <2>1, <2>3
  <2> QED
      BY <2>2, <2>4
<1>2. CASE registry # "shared"
    BY <1>2 DEF Drainable, Reachable, RegistryLocks
<1> QED
    BY <1>1, <1>2

-----------------------------------------------------------------------------
(* Steps of one thread.                                                    *)

\* Nobody holds a lock at the start.
LEMMA LockInvInit == Init => LockInv
<1> SUFFICES ASSUME Init PROVE LockInv
    OBVIOUS
<1>1. /\ lock = [l \in Locks |-> NoThread] /\ current = [t \in Threads |-> NoTSD]
      /\ pc = [t \in Threads |-> "idle"] /\ job = [t \in Threads |-> NoJob]
      /\ initState = [t \in Threads |-> "NotInitialized"] /\ key = [t \in Threads |-> "unset"]
    BY DEF Init
<1>2. LockTypes
    BY <1>1 DEF LockTypes
<1>3. ASSUME NEW t \in Threads
      PROVE  Sound(t)
  <2>1. pc[t] = "idle" /\ job[t] = NoJob
      BY <1>1
  <2>2. Fit(t, pc[t], job[t])
      BY <2>1, NoJobFacts DEF Fit, NeedTSD, InHand
  <2>3. Holds(t, pc[t], job[t])
      BY <1>1, <2>1, RankFacts DEF Holds, InHand
  <2>4. Disables(t, pc[t], job[t]) /\ Associated(t, pc[t])
      BY <1>1, <2>1 DEF Disables, Associated, NeedTSD
  <2> QED
      BY <2>2, <2>3, <2>4 DEF Sound
<1> QED
    BY <1>2, <1>3 DEF LockInv

\* What a step of t may do to the locks: other threads keep theirs and gain none, and t
\* takes those of the registry only.
Touched(t, locks) ==
    /\ locks \in [Locks -> Threads \cup {NoThread}]
    /\ \A u \in Threads \ {t} : \A l \in Locks : locks[l] = u <=> lock[l] = u
    /\ \A l \in Locks : locks[l] = t => l \in PartLocks \cup RegistryLocks

\* What it may do to the rest: to its own thread state, and to the flag with Mutex.
Setting(t) ==
    /\ registry' = registry
    /\ disabled => disabled' \/ lock["Mutex"] = t
    /\ current' \in [Threads -> SharedTSDs \cup {NoTSD}]
    /\ DOMAIN initState' = Threads /\ DOMAIN key' = Threads
    /\ \A u \in Threads \ {t} :
         current'[u] = current[u] /\ initState'[u] = initState[u] /\ key'[u] = key[u]

\* What has to hold of its next stage.
HoldsNext(t, stage, work) ==
    /\ Known(stage) => \A l \in Locks : lock'[l] = t => l \in Allowed(stage, work)
    /\ stage \in InHand => work.tsd = t \/ lock'[work.tsd] = t
    /\ stage \in {"recycle", "unlock"} => lock'["Recycle"] = t

HasNext(t, l) == IF l = "flag" THEN disabled' /\ lock'["Mutex"] = t ELSE lock'[l] = t

DisablesNext(t, stage, work) ==
    /\ stage = "disabling" =>
          /\ work.todo \in Seq(ToDisable) /\ work.todo # <<>>
          /\ Ordered(work.todo)
          /\ \A l \in Locks : lock'[l] = t => Below(l, Head(work.todo))
          /\ Head(work.todo) # "Mutex" => lock'["Mutex"] = t
    /\ stage \in {"disabling", "disabled"} =>
          \A l \in ElementsOf(DisableOrder) \ ElementsOf(work.todo) : HasNext(t, l)

AssociatedNext(t, stage) ==
    registry = "shared" =>
      /\ key'[t] = "unset"
      /\ initState'[t] # "NotInitialized" => current'[t] \in SharedTSDs
      /\ stage \in NeedTSD => initState'[t] # "NotInitialized"

\* What every step of a thread comes to, unless it aborts.
Kept(t) ==
    /\ LockInv' /\ Touched(t, lock')
    /\ \A u \in Threads \ {t} : pc'[u] = pc[u]

\* The order of disable depends on the registry only.
LEMMA SameOrder ==
    ASSUME registry' = registry
    PROVE  /\ DisableOrder' = DisableOrder /\ RegistryLocks' = RegistryLocks
           /\ ToDisable' = ToDisable
BY DEF ToDisable, DisableOrder, SharedLocks, ExclusiveLocks, QuarantineLocks, RegistryLocks

\* Another thread does not notice.
LEMMA OthersKeep ==
    ASSUME LockInv, NEW t \in Threads, Touched(t, lock'), Setting(t),
           NEW u \in Threads \ {t}, pc'[u] = pc[u], job'[u] = job[u]
    PROVE  Sound(u)'
<1>1. Sound(u) /\ registry' = registry
    BY DEF LockInv, Setting
<1>2. \A l \in Locks : lock'[l] = u <=> lock[l] = u
    BY DEF Touched
<1>3. Fit(u, pc[u], job[u])'
    BY <1>1, SameOrder DEF Sound, Fit, Reachable
<1>4. /\ "Mutex" \in Locks /\ "Recycle" \in Locks
      /\ pc[u] \in InHand => job[u].tsd = u \/ job[u].tsd \in Locks
  <2>1. "Mutex" \in Locks /\ "Recycle" \in Locks
      BY RankFacts DEF PartLocks
  <2>2. pc[u] \in InHand => job[u].tsd \in Reachable(u)
      BY <1>1 DEF Sound, Fit
  <2> QED
      BY <2>1, <2>2, ReachFacts
<1>5. Holds(u, pc[u], job[u])'
    BY <1>1, <1>2, <1>4 DEF Sound, Holds
<1>6. disabled => disabled' \/ lock["Mutex"] # u
    BY DEF Setting
<1>7. ASSUME NEW l \in Locks \cup {"flag"}, Has(u, l)
      PROVE  Has(u, l)'
    BY <1>2, <1>4, <1>6, <1>7 DEF Has
<1>8. Disables(u, pc[u], job[u])'
  <2>1. ASSUME pc[u] = "disabling"
        PROVE  /\ \A l \in Locks : lock'[l] = u => Below(l, Head(job[u].todo))
               /\ Head(job[u].todo) # "Mutex" => lock'["Mutex"] = u
      BY <1>1, <1>2, <1>4, <2>1 DEF Sound, Disables
  <2>2. ElementsOf(DisableOrder) \subseteq Locks \cup {"flag"}
    <3> DEFINE s == DisableOrder
    <3>1. s \in Seq(ToDisable) /\ ToDisable \subseteq Locks \cup {"flag"}
        BY DisableOrderFacts, RankFacts, ReachFacts DEF ToDisable
    <3> HIDE DEF s
    <3>2. \A i \in DOMAIN s : s[i] \in Locks \cup {"flag"}
        BY <3>1
    <3> QED
        BY <3>2 DEF ElementsOf, s
  <2>3. ASSUME pc[u] \in {"disabling", "disabled"},
               NEW l \in ElementsOf(DisableOrder) \ ElementsOf(job[u].todo)
        PROVE  Has(u, l)'
      BY <1>1, <1>7, <2>2, <2>3 DEF Sound, Disables
  <2> QED
      BY <1>1, <2>1, <2>3, SameOrder DEF Sound, Disables
<1>9. Associated(u, pc[u])'
    BY <1>1 DEF Sound, Associated, Setting
<1> QED
    BY <1>3, <1>5, <1>8, <1>9 DEF Sound

\* The types stay.
LEMMA TypesKeep ==
    ASSUME LockInv, NEW t \in Threads, Touched(t, lock'), Setting(t),
           DOMAIN pc' = Threads, DOMAIN job' = Threads
    PROVE  LockTypes'
<1>1. RegistryLocks' = RegistryLocks
    BY SameOrder DEF Setting
<1>2. \A l \in Locks : lock'[l] # NoThread => l \in PartLocks \cup RegistryLocks
    BY DEF LockInv, LockTypes, Touched
<1> QED
    BY <1>1, <1>2 DEF LockTypes, Touched, Setting

\* A thread goes to a stage for which its job and its locks are right.
LEMMA StepKeeps ==
    ASSUME LockInv, NEW t \in Threads, NEW stage, NEW work, Step(t, stage, work),
           Fit(t, stage, work), Touched(t, lock'), Setting(t), HoldsNext(t, stage, work),
           DisablesNext(t, stage, work), AssociatedNext(t, stage)
    PROVE  Kept(t)
<1>1. DOMAIN pc = Threads /\ DOMAIN job = Threads
    BY DEF LockInv, LockTypes
<1>2. /\ DOMAIN pc' = Threads /\ DOMAIN job' = Threads
      /\ pc'[t] = stage /\ job'[t] = work
      /\ \A u \in Threads \ {t} : pc'[u] = pc[u] /\ job'[u] = job[u]
    BY <1>1 DEF Step
<1>3. LockTypes'
    BY <1>2, TypesKeep
<1>4. Sound(t)'
  <2>1. /\ registry' = registry /\ DisableOrder' = DisableOrder
        /\ RegistryLocks' = RegistryLocks /\ ToDisable' = ToDisable
      BY SameOrder DEF Setting
  <2>2. Fit(t, pc[t], job[t])'
      BY <1>2, <2>1 DEF Fit, Reachable
  <2>3. Holds(t, pc[t], job[t])'
      BY <1>2 DEF Holds, HoldsNext
  <2>4. Disables(t, pc[t], job[t])'
      BY <1>2, <2>1 DEF Disables, DisablesNext, Has, HasNext
  <2>5. Associated(t, pc[t])'
      BY <1>2, <2>1 DEF Associated, AssociatedNext
  <2> QED
      BY <2>2, <2>3, <2>4, <2>5 DEF Sound
<1>5. \A u \in Threads \ {t} : Sound(u)'
    BY <1>2, OthersKeep
<1> QED
    BY <1>2, <1>3, <1>4, <1>5 DEF LockInv, Kept

\* The settings and thread states stay as they are, as in most steps.
Frame == UNCHANGED <<registry, disabled, initState, key, current>>

\* Then they are as they have to be.
LEMMA FrameFacts ==
    ASSUME LockInv, NEW t \in Threads, Frame, NEW stage,
           stage \in NeedTSD => pc[t] \in NeedTSD \/ registry # "shared"
    PROVE  Setting(t) /\ AssociatedNext(t, stage)
BY DEF LockInv, LockTypes, Frame, Setting, AssociatedNext, Sound, Associated

\* A thread goes on with locks that its next stage allows.
LEMMA MoveKeeps ==
    ASSUME LockInv, NEW t \in Threads, NEW stage, NEW work, Step(t, stage, work),
           Known(stage), stage \in NeedTSD => pc[t] \in NeedTSD \/ registry # "shared",
           Fit(t, stage, work), Touched(t, lock'), Frame, HoldsNext(t, stage, work)
    PROVE  Kept(t)
<1>1. Setting(t) /\ AssociatedNext(t, stage)
    BY FrameFacts
<1>2. DisablesNext(t, stage, work)
    BY DEF DisablesNext, Known
<1> QED
    BY <1>1, <1>2, StepKeeps

\* The locks stay as they are.
LEMMA TouchNothing ==
    ASSUME LockInv, NEW t \in Threads PROVE Touched(t, lock)
<1>1. NoThread \notin Threads
    BY RankFacts
<1> QED
    BY <1>1 DEF LockInv, LockTypes, Touched

\* Calls and locks stay as they are.
LEMMA StandStill ==
    ASSUME LockInv, NEW t \in Threads, UNCHANGED <<lock, callVars, disabled>>, Setting(t),
           AssociatedNext(t, pc[t])
    PROVE  Kept(t)
<1>1. /\ lock' = lock /\ pc' = pc /\ job' = job /\ registry' = registry
      /\ DOMAIN pc = Threads /\ DOMAIN job = Threads /\ disabled' = disabled
    BY DEF callVars, Setting, LockInv, LockTypes
<1>2. Touched(t, lock')
    BY <1>1, TouchNothing
<1>3. LockTypes'
    BY <1>1, <1>2, TypesKeep
<1>4. \A u \in Threads \ {t} : Sound(u)'
    BY <1>1, <1>2, OthersKeep
<1>5. Sound(t)'
  <2>1. /\ Sound(t) /\ DisableOrder' = DisableOrder /\ RegistryLocks' = RegistryLocks
        /\ ToDisable' = ToDisable
      BY <1>1, SameOrder DEF LockInv
  <2>2. Fit(t, pc[t], job[t])'
      BY <1>1, <2>1 DEF Sound, Fit, Reachable
  <2>3. Holds(t, pc[t], job[t])'
      BY <1>1, <2>1 DEF Sound, Holds
  <2>4. Disables(t, pc[t], job[t])'
      BY <1>1, <2>1 DEF Sound, Disables, Has
  <2>5. Associated(t, pc[t])'
      BY <1>1 DEF Associated, AssociatedNext
  <2> QED
      BY <2>2, <2>3, <2>4, <2>5 DEF Sound
<1> QED
    BY <1>1, <1>2, <1>3, <1>4, <1>5 DEF LockInv, Kept

\* A lock is taken.
LEMMA AcquireTouches ==
    ASSUME LockInv, NEW t \in Threads, NEW l \in PartLocks \cup RegistryLocks, Acquire(t, l)
    PROVE  /\ Touched(t, lock')
           /\ \A m \in Locks : lock'[m] = t <=> m = l \/ lock[m] = t
           /\ l \in Locks
<1>1. /\ lock \in [Locks -> Threads \cup {NoThread}] /\ lock[l] = NoThread
      /\ lock' = [lock EXCEPT ![l] = t]
    BY DEF LockInv, LockTypes, Acquire, Free
<1>2. NoThread \notin Threads /\ l \in Locks
    BY RankFacts, ReachFacts
<1>3. \A m \in Locks : lock[m] = t => m \in PartLocks \cup RegistryLocks
    BY <1>2 DEF LockInv, LockTypes
<1>4. \A m \in Locks : lock'[m] = IF m = l THEN t ELSE lock[m]
    BY <1>1, <1>2
<1>5. lock' \in [Locks -> Threads \cup {NoThread}]
    BY <1>1
<1>6. \A u \in Threads \ {t} : \A m \in Locks : lock'[m] = u <=> lock[m] = u
    BY <1>1, <1>2, <1>4
<1> QED
    BY <1>2, <1>3, <1>4, <1>5, <1>6 DEF Touched

\* What is known of a call's job at any stage.
LEMMA FitAt ==
    ASSUME LockInv, NEW t \in Threads
    PROVE  /\ Fit(t, pc[t], job[t]) /\ IsJob(job[t])
           /\ job[t].tsd \in Reachable(t) \cup {NoTSD}
           /\ pc[t] \in NeedTSD => job[t].op \in ClientOps
BY DEF LockInv, Sound, Fit

\* What a thread holds at a stage, and what it has.
LEMMA HoldsAt ==
    ASSUME LockInv, NEW t \in Threads
    PROVE  /\ Known(pc[t]) => \A l \in Locks : lock[l] = t => l \in Allowed(pc[t], job[t])
           /\ pc[t] \in {"recycle", "unlock"} => lock["Recycle"] = t
BY DEF LockInv, Sound, Holds

\* A TSD in hand is the thread's own, or one that it has locked.
LEMMA InHandFacts ==
    ASSUME LockInv, NEW t \in Threads, pc[t] \in InHand
    PROVE  /\ job[t].tsd \in Threads => job[t].tsd = t
           /\ job[t].tsd = t \/ (job[t].tsd \in RegistryLocks /\ lock[job[t].tsd] = t)
           /\ job[t].tsd \notin PartLocks /\ job[t].tsd \in Reachable(t)
<1>1. job[t].tsd \in Reachable(t) /\ (job[t].tsd = t \/ lock[job[t].tsd] = t)
    BY DEF LockInv, Sound, Fit, Holds
<1> QED
    BY <1>1, ReachFacts

\* The TSD in hand is unlocked.
LEMMA ReleaseTouches ==
    ASSUME LockInv, NEW t \in Threads, pc[t] \in InHand, NEW locks, Touched(t, locks),
           job[t].tsd \in Locks => locks[job[t].tsd] = t,
           lock' = WithoutTSD(t, locks)
    PROVE  /\ Touched(t, lock')
           /\ \A m \in Locks : lock'[m] = t <=> locks[m] = t /\ m # job[t].tsd
<1>1. /\ job[t].tsd \in Threads => job[t].tsd \notin Locks
      /\ job[t].tsd \notin Threads => job[t].tsd \in Locks
      /\ NoThread \notin Threads
    BY InHandFacts, ReachFacts, RankFacts
<1>2. locks \in [Locks -> Threads \cup {NoThread}]
    BY DEF Touched
<1>3. CASE job[t].tsd \in Threads
  <2>1. lock' = locks
      BY <1>3 DEF WithoutTSD
  <2> QED
      BY <1>1, <1>3, <2>1
<1>4. CASE job[t].tsd \notin Threads
  <2>1. lock' = [locks EXCEPT ![job[t].tsd] = NoThread]
      BY <1>4 DEF WithoutTSD
  <2>2. /\ lock' \in [Locks -> Threads \cup {NoThread}]
        /\ \A m \in Locks : lock'[m] = IF m = job[t].tsd THEN NoThread ELSE locks[m]
      BY <1>2, <2>1
  <2>3. \A m \in Locks : lock'[m] = t <=> locks[m] = t /\ m # job[t].tsd
      BY <1>1, <2>2
  <2>4. \A u \in Threads \ {t} : \A m \in Locks : lock'[m] = u <=> lock[m] = u
      BY <1>1, <1>4, <2>2 DEF Touched
  <2>5. \A m \in Locks : lock'[m] = t => m \in PartLocks \cup RegistryLocks
      BY <2>3 DEF Touched
  <2> QED
      BY <2>2, <2>3, <2>4, <2>5 DEF Touched
<1> QED
    BY <1>3, <1>4

FreeHanded(t) == \A l \in Locks : lock[l] # t

\* Stages at which a call holds no lock.
LEMMA FreeHandedAt ==
    ASSUME LockInv, NEW t \in Threads,
           pc[t] \in {"idle", "init", "attach", "take", "fallback", "slow", "await", "map",
                      "mark", "resize", "unmap", "unlink", "locktsds"}
    PROVE  FreeHanded(t)
BY HoldsAt DEF Known, Allowed, FreeHanded

\* A thread that holds no lock goes on.
LEMMA FreeMove ==
    ASSUME LockInv, NEW t \in Threads, FreeHanded(t), lock' = lock, Frame,
           NEW stage, NEW work, Step(t, stage, work), Fit(t, stage, work),
           Known(stage), stage \notin InHand,
           stage \in NeedTSD => pc[t] \in NeedTSD \/ registry # "shared"
    PROVE  Kept(t)
<1>1. Touched(t, lock')
    BY TouchNothing
<1>2. HoldsNext(t, stage, work)
    BY DEF FreeHanded, HoldsNext, InHand
<1> QED
    BY <1>1, <1>2, MoveKeeps

\* A call is over.
LEMMA FitIdle == ASSUME NEW t \in Threads PROVE Fit(t, "idle", NoJob)
BY NoJobFacts DEF Fit, NeedTSD, InHand

\* A call as initThreadMaybe finds it.
Fresh(t, work) ==
    /\ IsJob(work) /\ work.tsd \in Reachable(t) \cup {NoTSD}
    /\ work.op \in ClientOps \cup {"drain", "disable"}
    /\ work.op = "drain" => work.todo \in Seq(Reachable(t))
    /\ work.op = "disable" => work.todo = DisableOrder

\* It goes to the first stage of its operation, or a resize to that of allocate.
LEMMA FirstStageKeeps ==
    ASSUME LockInv, NEW t \in Threads, FreeHanded(t), lock' = lock, Setting(t),
           NEW op, NEW work, Fresh(t, work),
           registry = "shared" =>
              key'[t] = "unset" /\ initState'[t] # "NotInitialized" /\ current'[t] \in SharedTSDs,
           op = work.op \/ (op = "malloc" /\ work.op \in ClientOps),
           Step(t, FirstStage(op, work), work)
    PROVE  Kept(t)
<1> DEFINE stage == FirstStage(op, work)
<1>1. /\ op \in ClientOps => stage \in {"take", "map", "mark", "resize"}
      /\ op = "drain" => stage \in {"locktsds", "nexttsd"}
      /\ op = "disable" => stage = "disabling"
      /\ op \in ClientOps \cup {"drain", "disable"}
    BY DEF FirstStage, Fresh, ClientOps
<1>2. Step(t, stage, work)
    OBVIOUS
<1> HIDE DEF stage
<1>3. Fit(t, stage, work)
    BY <1>1 DEF Fit, Fresh, NeedTSD, ClientOps, InHand
<1>4. AssociatedNext(t, stage) /\ Touched(t, lock')
    BY TouchNothing DEF AssociatedNext
<1>5. HoldsNext(t, stage, work)
    BY <1>1 DEF FreeHanded, HoldsNext, InHand, ClientOps
<1>6. DisablesNext(t, stage, work)
  <2>1. CASE op = "disable"
    <3>1. stage = "disabling" /\ work.op = "disable" /\ work.todo = DisableOrder
        BY <1>1, <2>1 DEF Fresh
    <3>2. /\ work.todo \in Seq(ToDisable) /\ work.todo # <<>>
          /\ Ordered(work.todo) /\ Head(work.todo) = "Mutex"
        BY <3>1, DisableOrderFacts
    <3>3. \A l \in Locks : lock'[l] # t
        BY DEF FreeHanded
    <3> QED
        BY <3>1, <3>2, <3>3 DEF DisablesNext
  <2>2. CASE op # "disable"
    <3>1. stage \notin {"disabling", "disabled"}
        BY <1>1, <2>2 DEF ClientOps
    <3> QED
        BY <3>1 DEF DisablesNext
  <2> QED
      BY <2>1, <2>2
<1> QED
    BY <1>2, <1>3, <1>4, <1>5, <1>6, StepKeeps

\* A thread calls an operation.
LEMMA CallKeeps ==
    ASSUME LockInv, NEW t \in Threads, NEW op \in ClientOps \cup {"drain", "disable"},
           NEW p, NEW todo, Call(t, op, p, todo),
           op = "drain" => todo \in Seq(Reachable(t)),
           op = "disable" => todo = DisableOrder
    PROVE  Kept(t)
<1>1. PICK c \in calls[t] :
         /\ At(t, "idle") /\ UNCHANGED <<registryVars, lock, threadVars>>
         /\ LET work == [NoJob EXCEPT !.op = op, !.size = c.size, !.align = c.align,
                                      !.ptr = p, !.todo = todo]
            IN  Step(t, IF initState[t] = "NotInitialized" THEN "init"
                        ELSE FirstStage(op, work), work)
    BY DEF Call
<1> DEFINE work == NewJob(op, c.size, c.align, p, todo)
<1>2. IsJob(work) /\ work.tsd = NoTSD /\ work.op = op /\ work.todo = todo
    BY CallFacts
<1>3. \/ Step(t, "init", work)
      \/ initState[t] # "NotInitialized" /\ Step(t, FirstStage(op, work), work)
    BY <1>1 DEF NewJob
<1> HIDE DEF work
<1>4. lock' = lock /\ Frame
    BY <1>1 DEF threadVars, registryVars, Frame
<1>5. FreeHanded(t)
    BY <1>1, FreeHandedAt DEF At
<1>6. Fresh(t, work)
    BY <1>2 DEF Fresh
<1>7. CASE Step(t, "init", work)
  <2>1. Fit(t, "init", work)
      BY <1>2, <1>6 DEF Fit, Fresh, NeedTSD, ClientOps, InHand
  <2>2. Known("init") /\ "init" \notin InHand /\ "init" \notin NeedTSD
      BY DEF Known, InHand, NeedTSD
  <2> QED
      BY <1>4, <1>5, <1>7, <2>1, <2>2, FreeMove
<1>8. CASE initState[t] # "NotInitialized" /\ Step(t, FirstStage(op, work), work)
  <2>1. Setting(t)
      BY <1>4, FrameFacts, "idle" \notin NeedTSD DEF NeedTSD
  <2>2. registry = "shared" =>
            key'[t] = "unset" /\ initState'[t] # "NotInitialized" /\ current'[t] \in SharedTSDs
      BY <1>4, <1>8 DEF Frame, LockInv, Sound, Associated
  <2> QED
      BY <1>2, <1>4, <1>5, <1>6, <1>8, <2>1, <2>2, FirstStageKeeps
<1> QED
    BY <1>3, <1>7, <1>8

\* Every operation that a program calls.
LEMMA CallsKeep ==
    ASSUME LockInv, NEW t \in Threads,
           Malloc(t) \/ Dealloc(t) \/ Realloc(t) \/ DrainCaches(t) \/ Disable(t)
    PROVE  Kept(t)
<1>1. CASE Malloc(t)
    BY <1>1, CallKeeps DEF Malloc, ClientOps
<1>2. CASE Dealloc(t)
    BY <1>2, CallKeeps DEF Dealloc, ClientOps
<1>3. CASE Realloc(t)
    BY <1>3, CallKeeps DEF Realloc, ClientOps
<1>4. CASE DrainCaches(t)
    BY <1>4, CallKeeps, DrainableFacts DEF DrainCaches
<1>5. CASE Disable(t)
    BY <1>5, CallKeeps DEF Disable
<1> QED
    BY <1>1, <1>2, <1>3, <1>4, <1>5

\* The job of a call that is being initialized is fresh.
LEMMA FreshAt ==
    ASSUME LockInv, NEW t \in Threads, pc[t] \in {"init", "attach"}
    PROVE  Fresh(t, job[t])
BY DEF LockInv, Sound, Fit, Fresh

\* initThreadMaybe takes no lock that it keeps.
LEMMA InitializeKeeps ==
    ASSUME LockInv, NEW t \in Threads, Initialize(t) PROVE Kept(t)
<1>1. pc[t] \in {"init", "attach"} /\ lock' = lock
    BY DEF Initialize, InitOnce, AttachExclusive, AttachShared, At
<1>2. FreeHanded(t) /\ Fresh(t, job[t])
    BY <1>1, FreeHandedAt, FreshAt
<1>3. CASE InitOnce(t)
  <2>1. PICK stage \in {"mark", "attach"} :
            /\ Step(t, stage, job[t])
            /\ stage = "mark" => job[t].op = "free" /\ registry = "exclusive"
      BY <1>3 DEF InitOnce, Goto
  <2>2. Fit(t, stage, job[t]) /\ Known(stage) /\ stage \notin InHand
      BY <1>2, <2>1 DEF Fit, Fresh, NeedTSD, ClientOps, InHand, Known
  <2>3. stage \in NeedTSD => registry # "shared"
      BY <2>1 DEF NeedTSD
  <2>4. Frame
      BY <1>3 DEF InitOnce, Frame, threadVars
  <2> QED
      BY <1>1, <1>2, <2>1, <2>2, <2>3, <2>4, FreeMove
<1>4. CASE AttachExclusive(t)
  <2>1. Step(t, FirstStage(job[t].op, job[t]), job[t]) /\ registry # "shared"
      BY <1>4 DEF AttachExclusive, Goto
  <2>2. Setting(t)
      BY <1>4 DEF AttachExclusive, Setting, registryVars, LockInv, LockTypes
  <2> QED
      BY <1>1, <1>2, <2>1, <2>2, FirstStageKeeps
<1>5. CASE AttachShared(t)
  <2>1. Step(t, FirstStage(job[t].op, job[t]), job[t]) /\ registry = "shared"
      BY <1>5 DEF AttachShared, Goto
  <2>2. PICK tsd \in SharedTSDs : current' = [current EXCEPT ![t] = tsd]
      BY <1>5 DEF AttachShared
  <2>3. initState' = [initState EXCEPT ![t] = "Initialized"] /\ key' = key
        /\ registry' = registry /\ disabled' = disabled
      BY <1>5 DEF AttachShared, registryVars
  <2>4. Setting(t)
      BY <2>2, <2>3 DEF Setting, LockInv, LockTypes
  <2>5. key'[t] = "unset" /\ initState'[t] # "NotInitialized" /\ current'[t] \in SharedTSDs
      BY <2>1, <2>2, <2>3 DEF LockInv, LockTypes, Sound, Associated
  <2> QED
      BY <1>1, <1>2, <2>1, <2>4, <2>5, FirstStageKeeps
<1> QED
    BY <1>3, <1>4, <1>5 DEF Initialize

\* A TSD is in hand, be it locked or the thread's own.
LEMMA TakeKeeps ==
    ASSUME LockInv, NEW t \in Threads, FreeHanded(t), pc[t] \in NeedTSD,
           NEW tsd, Take(t, tsd), Setting(t), UNCHANGED <<initState, key>>,
           \/ tsd = t /\ lock' = lock
           \/ tsd \in RegistryLocks /\ Acquire(t, tsd),
           registry = "shared" => current'[t] \in SharedTSDs
    PROVE  Kept(t)
<1> DEFINE work == WithTSD(job[t], tsd)
<1>1. PICK stage \in {"pop", "put", "push"} : Step(t, stage, work)
    BY DEF Take, UseOf, WithTSD
<1>2. IsJob(work) /\ work.tsd = tsd /\ work.op = job[t].op /\ job[t].op \in ClientOps
    BY FitAt, JobFacts
<1> HIDE DEF work
<1>3. tsd \in Reachable(t) /\ tsd # NoTSD
    BY ReachFacts
<1>4. Fit(t, stage, work)
    BY <1>2, <1>3 DEF Fit, NeedTSD, ClientOps, InHand
<1>5. Touched(t, lock') /\ \A l \in Locks : lock'[l] = t => l = tsd
    BY TouchNothing, AcquireTouches DEF FreeHanded
<1>6. work.tsd = t \/ lock'[work.tsd] = t
  <2>1. CASE tsd = t
      BY <1>2, <2>1
  <2>2. CASE tsd \in RegistryLocks /\ Acquire(t, tsd)
      BY <1>2, <2>2, AcquireTouches
  <2> QED
      BY <2>1, <2>2
<1>7. Allowed(stage, work) = {tsd}
    BY <1>2 DEF Allowed
<1>8. HoldsNext(t, stage, work)
    BY <1>5, <1>6, <1>7 DEF HoldsNext
<1>9. AssociatedNext(t, stage)
    BY DEF AssociatedNext, LockInv, Sound, Associated
<1>10. DisablesNext(t, stage, work)
    BY DEF DisablesNext
<1> QED
    BY <1>1, <1>4, <1>5, <1>8, <1>9, <1>10, StepKeeps

\* getTSDAndLock waits for a TSD with empty hands.
LEMMA GetTSDKeeps ==
    ASSUME LockInv, NEW t \in Threads, GetTSD(t) PROVE Kept(t)
<1>1. pc[t] \in {"take", "fallback", "slow", "await"}
    BY DEF GetTSD, TakeOwn, TakeFallback, LockFallback, TakeCurrent, TakeSlow, TakeCandidate, At
<1>2. FreeHanded(t) /\ pc[t] \in NeedTSD /\ job[t].op \in ClientOps
    BY <1>1, FreeHandedAt, FitAt DEF NeedTSD
<1>3. current \in [Threads -> SharedTSDs \cup {NoTSD}]
    BY DEF LockInv, LockTypes
<1>4. registry = "shared" => current[t] \in SharedTSDs
    BY <1>2 DEF LockInv, Sound, Associated
<1>5. ASSUME NEW stage \in {"fallback", "slow"}, Goto(t, stage), lock' = lock, Frame,
             stage = "slow" <=> registry = "shared"
      PROVE  Kept(t)
  <2>1. Fit(t, stage, job[t])
      BY <1>2, <1>5, FitAt DEF Fit, NeedTSD, ClientOps, InHand
  <2>2. Known(stage) /\ stage \notin InHand
      BY DEF Known, InHand
  <2> QED
      BY <1>2, <1>5, <2>1, <2>2, FreeMove DEF Goto
<1>6. ASSUME NEW tsd, Take(t, tsd), Frame,
             \/ tsd = t /\ lock' = lock
             \/ tsd \in RegistryLocks /\ Acquire(t, tsd)
      PROVE  Kept(t)
  <2>1. Setting(t) /\ UNCHANGED <<initState, key>> /\ current' = current
      BY <1>2, <1>6, FrameFacts DEF Frame
  <2> QED
      BY <1>2, <1>4, <1>6, <2>1, TakeKeeps
<1>7. ASSUME NEW tsd \in SharedTSDs, Take(t, tsd), Acquire(t, tsd), registry = "shared",
             current' = [current EXCEPT ![t] = tsd],
             UNCHANGED <<registryVars, initState, key>>
      PROVE  Kept(t)
  <2>1. Setting(t)
      BY <1>3, <1>7 DEF Setting, registryVars, LockInv, LockTypes
  <2>2. current'[t] \in SharedTSDs /\ tsd \in RegistryLocks
      BY <1>3, <1>7 DEF RegistryLocks
  <2> QED
      BY <1>2, <1>7, <2>1, <2>2, TakeKeeps
<1>8. CASE TakeOwn(t)
    BY <1>6, <1>8 DEF TakeOwn, threadVars, registryVars, Frame
<1>9. CASE TakeFallback(t)
  <2>1. registry # "shared" /\ Goto(t, "fallback") /\ lock' = lock /\ Frame
      BY <1>9 DEF TakeFallback, threadVars, registryVars, Frame
  <2> QED
      BY <1>5, <2>1
<1>10. CASE LockFallback(t)
  <2>1. pc[t] = "fallback" /\ Take(t, FallbackTSD) /\ Acquire(t, FallbackTSD) /\ Frame
      BY <1>10 DEF LockFallback, At, threadVars, registryVars, Frame
  <2>2. FallbackTSD \in RegistryLocks
      BY <2>1, FitAt DEF Fit, RegistryLocks
  <2> QED
      BY <1>6, <2>1, <2>2
<1>11. CASE TakeCurrent(t)
  <2>1. /\ registry = "shared" /\ Frame
        /\ \/ Acquire(t, current[t]) /\ Take(t, current[t])
           \/ Goto(t, "slow") /\ lock' = lock
      BY <1>11 DEF TakeCurrent, threadVars, registryVars, Frame
  <2>2. current[t] \in RegistryLocks
      BY <1>4, <2>1 DEF RegistryLocks
  <2> QED
      BY <1>5, <1>6, <2>1, <2>2
<1>12. CASE TakeSlow(t)
  <2>0. registry = "shared" /\ UNCHANGED <<registryVars, initState, key>>
      BY <1>12, FitAt DEF TakeSlow, At, Fit
  <2>1. PICK tsd \in SharedTSDs :
           \/ /\ Acquire(t, tsd) /\ Take(t, tsd)
              /\ current' = [current EXCEPT ![t] = tsd]
           \/ /\ Step(t, "await", [job[t] EXCEPT !.tsd = tsd])
              /\ UNCHANGED <<current, lock>>
      BY <1>12 DEF TakeSlow, Candidates
  <2>2. CASE Take(t, tsd) /\ Acquire(t, tsd) /\ current' = [current EXCEPT ![t] = tsd]
      BY <1>7, <2>0, <2>2
  <2>3. CASE Step(t, "await", [job[t] EXCEPT !.tsd = tsd]) /\ UNCHANGED <<current, lock>>
    <3> DEFINE work == WithTSD(job[t], tsd)
    <3>1. IsJob(work) /\ work.tsd = tsd /\ work.op = job[t].op
        BY FitAt, JobFacts
    <3>2. Step(t, "await", work) /\ Frame
        BY <2>0, <2>3 DEF WithTSD, Frame, registryVars
    <3> HIDE DEF work
    <3>3. Fit(t, "await", work)
        BY <1>2, <2>0, <3>1 DEF Fit, NeedTSD, ClientOps, InHand, Reachable, RegistryLocks
    <3>4. Known("await") /\ "await" \notin InHand
        BY DEF Known, InHand
    <3> QED
        BY <1>2, <2>3, <3>2, <3>3, <3>4, FreeMove
  <2> QED
      BY <2>1, <2>2, <2>3
<1>13. CASE TakeCandidate(t)
  <2>1. job[t].tsd \in SharedTSDs /\ registry = "shared"
      BY <1>13, FitAt DEF TakeCandidate, At, Fit
  <2> QED
      BY <1>7, <1>13, <2>1 DEF TakeCandidate
<1> QED
    BY <1>8, <1>9, <1>10, <1>11, <1>12, <1>13 DEF GetTSD

-----------------------------------------------------------------------------
(* Steps with a TSD in hand.                                               *)

\* Stages that ask nothing of a job but what its operation does; the TSD stays in hand.
LEMMA FitOn ==
    ASSUME LockInv, NEW t \in Threads, pc[t] \in InHand,
           NEW stage \in {"transfer", "recycle", "unlock", "scrub", "lockrecycle"}
    PROVE  /\ Fit(t, stage, job[t]) /\ Known(stage) /\ stage \in InHand
           /\ stage \notin NeedTSD
BY FitAt DEF Fit, NeedTSD, InHand, Known

\* A call that holds nothing after its last step is over.
LEMMA ReturnKeeps ==
    ASSUME LockInv, NEW t \in Threads, Return(t), Touched(t, lock'), Frame,
           \A l \in Locks : lock'[l] # t
    PROVE  Kept(t)
<1>1. Step(t, "idle", NoJob)
    BY DEF Return
<1>2. Known("idle") /\ "idle" \notin NeedTSD /\ "idle" \notin InHand
    BY DEF Known, NeedTSD, InHand
<1>3. HoldsNext(t, "idle", NoJob)
    BY <1>2 DEF HoldsNext
<1> QED
    BY <1>1, <1>2, <1>3, FitIdle, MoveKeeps

\* initChunk ends an allocation; a resize goes on with its old chunk.
LEMMA InitChunkMoves ==
    ASSUME LockInv, NEW t \in Threads, pc[t] \in {"pop", "map"}, NEW block, NEW classId,
           InitChunk(t, block, classId)
    PROVE  \/ Return(t)
           \/ \E work : Step(t, "mark", work) /\ Fit(t, "mark", work)
<1> DEFINE p == UserPtr(block, job[t].align)
           work == WithResult(job[t], NoTSD, p)
<1>1. IsJob(work) /\ work.tsd = NoTSD /\ work.op = job[t].op
    BY FitAt, JobFacts
<1>2. Return(t) \/ Step(t, "mark", work)
    BY DEF InitChunk, WithResult
<1> HIDE DEF work
<1>3. work.op \in ClientOps
    BY <1>1, FitAt DEF NeedTSD
<1>4. Fit(t, "mark", work)
    BY <1>1, <1>3 DEF Fit, NeedTSD, ClientOps, InHand
<1> QED
    BY <1>2, <1>4

\* With nothing in hand a thread returns, maps a block, or looks at a chunk.
LEMMA EmptyHands ==
    ASSUME LockInv, NEW t \in Threads, pc[t] \in NeedTSD, Touched(t, lock'), Frame,
           \A l \in Locks : lock'[l] # t,
           \/ Return(t)
           \/ \E stage \in {"map", "mark"} : \E work : Step(t, stage, work) /\ Fit(t, stage, work)
    PROVE  Kept(t)
<1>1. CASE Return(t)
    BY <1>1, ReturnKeeps
<1>2. CASE \E stage \in {"map", "mark"} : \E work : Step(t, stage, work) /\ Fit(t, stage, work)
  <2>0. PICK stage \in {"map", "mark"} : \E work : Step(t, stage, work) /\ Fit(t, stage, work)
      BY <1>2
  <2>1. PICK work : Step(t, stage, work) /\ Fit(t, stage, work)
      BY <2>0
  <2>2. Known(stage) /\ HoldsNext(t, stage, work)
      BY DEF Known, HoldsNext, InHand
  <2> QED
      BY <2>1, <2>2, MoveKeeps
<1> QED
    BY <1>1, <1>2

\* The TSD goes back, and with it the last lock of the call.
LEMMA PutBack ==
    ASSUME LockInv, NEW t \in Threads, pc[t] \in {"pop", "push"},
           lock' = WithoutTSD(t, lock)
    PROVE  Touched(t, lock') /\ \A l \in Locks : lock'[l] # t
<1>1. pc[t] \in InHand /\ Touched(t, lock)
    BY TouchNothing DEF InHand
<1>2. job[t].tsd \in Locks => lock[job[t].tsd] = t
    BY <1>1, InHandFacts, ReachFacts, RankFacts
<1>3. \A l \in Locks : lock[l] = t => l = job[t].tsd
    BY HoldsAt DEF Known, Allowed
<1> QED
    BY <1>1, <1>2, <1>3, ReleaseTouches

\* allocate gives the TSD back before it looks at the Secondary.
LEMMA AllocateKeeps ==
    ASSUME LockInv, NEW t \in Threads, Pop(t) \/ Map(t) PROVE Kept(t)
<1>1. CASE Pop(t)
  <2> DEFINE work == WithTSD(job[t], NoTSD)
  <2>1. /\ pc[t] = "pop" /\ lock' = WithoutTSD(t, lock) /\ Frame
      BY <1>1 DEF Pop, At, threadVars, registryVars, Frame
  <2>2. Step(t, "map", work) \/ \E block, classId : InitChunk(t, block, classId)
      BY <1>1 DEF Pop, WithTSD
  <2>3. IsJob(work) /\ work.tsd = NoTSD /\ work.op = job[t].op
      BY FitAt, JobFacts
  <2> HIDE DEF work
  <2>4. work.op \in ClientOps /\ pc[t] \in NeedTSD
      BY <2>1, <2>3, FitAt DEF NeedTSD
  <2>5. Fit(t, "map", work)
      BY <2>3, <2>4 DEF Fit, NeedTSD, ClientOps, InHand
  <2>6. \/ Return(t)
        \/ \E stage \in {"map", "mark"} : \E w : Step(t, stage, w) /\ Fit(t, stage, w)
      BY <2>1, <2>2, <2>5, InitChunkMoves
  <2>7. Touched(t, lock') /\ \A l \in Locks : lock'[l] # t
      BY <2>1, PutBack
  <2> QED
      BY <2>1, <2>4, <2>6, <2>7, EmptyHands
<1>2. CASE Map(t)
  <2>1. pc[t] = "map" /\ pc[t] \in NeedTSD /\ lock' = lock /\ Frame
      BY <1>2 DEF Map, At, threadVars, registryVars, Frame, NeedTSD
  <2>2. Return(t) \/ \E block, classId : InitChunk(t, block, classId)
      BY <1>2 DEF Map
  <2>3. \/ Return(t)
        \/ \E stage \in {"map", "mark"} : \E w : Step(t, stage, w) /\ Fit(t, stage, w)
      BY <2>1, <2>2, InitChunkMoves
  <2>4. Touched(t, lock') /\ \A l \in Locks : lock'[l] # t
      BY <2>1, FreeHandedAt, TouchNothing DEF FreeHanded
  <2> QED
      BY <2>1, <2>3, <2>4, EmptyHands
<1> QED
    BY <1>1, <1>2

\* deallocate and reallocate hold a TSD only while they push a block.
LEMMA DeallocateKeeps ==
    ASSUME LockInv, NEW t \in Threads, Resize(t) \/ Mark(t) \/ Push(t) \/ Unmap(t)
    PROVE  Kept(t)
<1>1. CASE Resize(t)
  <2>1. pc[t] = "resize" /\ lock' = lock /\ Frame
      BY <1>1 DEF Resize, At, threadVars, registryVars, Frame
  <2>2. FreeHanded(t) /\ Touched(t, lock') /\ \A l \in Locks : lock'[l] # t
      BY <2>1, FreeHandedAt, TouchNothing DEF FreeHanded
  <2>3. Return(t) \/ Step(t, FirstStage("malloc", job[t]), job[t])
      BY <1>1 DEF Resize, Goto
  <2>4. Fresh(t, job[t]) /\ job[t].op \in ClientOps
      BY <2>1, FitAt DEF Fresh, NeedTSD, ClientOps
  <2>5. Setting(t)
      BY <2>1, FrameFacts DEF NeedTSD
  <2>6. registry = "shared" =>
            key'[t] = "unset" /\ initState'[t] # "NotInitialized" /\ current'[t] \in SharedTSDs
      BY <2>1 DEF Frame, LockInv, Sound, Associated, NeedTSD
  <2> QED
      BY <2>1, <2>2, <2>3, <2>4, <2>5, <2>6, ReturnKeeps, FirstStageKeeps
<1>2. CASE Mark(t)
  <2>1. pc[t] = "mark" /\ pc[t] \in NeedTSD /\ lock' = lock /\ Frame
      BY <1>2 DEF Mark, At, threadVars, registryVars, Frame, NeedTSD
  <2>2. PICK stage \in {"unmap", "take"} : Step(t, stage, job[t])
      BY <1>2 DEF Mark, Goto
  <2>3. Fit(t, stage, job[t]) /\ Known(stage) /\ stage \notin InHand
      BY <2>1, FitAt DEF Fit, NeedTSD, ClientOps, InHand, Known
  <2>4. FreeHanded(t)
      BY <2>1, FreeHandedAt
  <2> QED
      BY <2>1, <2>2, <2>3, <2>4, FreeMove
<1>3. CASE Push(t)
  <2>1. pc[t] = "push" /\ lock' = WithoutTSD(t, lock) /\ Frame /\ Return(t)
      BY <1>3 DEF Push, Finish, At, threadVars, registryVars, Frame
  <2> QED
      BY <2>1, PutBack, ReturnKeeps
<1>4. CASE Unmap(t)
  <2>1. pc[t] = "unmap" /\ lock' = lock /\ Frame /\ Return(t)
      BY <1>4 DEF Unmap, Finish, At, threadVars, registryVars, Frame
  <2> QED
      BY <2>1, FreeHandedAt, TouchNothing, ReturnKeeps DEF FreeHanded
<1> QED
    BY <1>1, <1>2, <1>3, <1>4

-----------------------------------------------------------------------------
(* The quarantine, and draining.                                           *)

\* Locks that a call with a TSD in hand has, beside Recycle.
HasTSD(t, locks) ==
    /\ Touched(t, locks)
    /\ job[t].tsd = t \/ locks[job[t].tsd] = t
    /\ \A l \in Locks : locks[l] = t => l \in {job[t].tsd} \cup ForDrain(job[t])

\* It has them as long as it has not locked Recycle.
LEMMA HasTSDAt ==
    ASSUME LockInv, NEW t \in Threads,
           pc[t] \in {"put", "transfer", "tryrecycle", "lockrecycle", "scrub", "flush"}
    PROVE  pc[t] \in InHand /\ HasTSD(t, lock)
<1>1. pc[t] \in InHand
    BY DEF InHand
<1>2. \A l \in Locks : lock[l] = t => l \in {job[t].tsd} \cup ForDrain(job[t])
    BY HoldsAt DEF Known, Allowed
<1> QED
    BY <1>1, <1>2, InHandFacts, TouchNothing DEF HasTSD

\* It goes on with the TSD in hand.
LEMMA KeepTSD ==
    ASSUME LockInv, NEW t \in Threads, HasTSD(t, lock'), Frame,
           NEW stage \in {"transfer", "tryrecycle", "lockrecycle", "scrub", "flush"},
           NEW work, work.tsd = job[t].tsd, work.op = job[t].op, Fit(t, stage, work),
           Step(t, stage, work)
    PROVE  Kept(t)
<1>1. Allowed(stage, work) = {job[t].tsd} \cup ForDrain(job[t])
    BY DEF Allowed, ForDrain, Fit
<1>2. HoldsNext(t, stage, work)
    BY <1>1 DEF HoldsNext, HasTSD
<1>3. Known(stage) /\ stage \notin NeedTSD
    BY DEF Known, NeedTSD
<1> QED
    BY <1>2, <1>3, MoveKeeps DEF HasTSD

\* After the quarantine a drain keeps its TSD, and TSDs with it; a free returns without.
LEMMA EndQuarantineKeeps ==
    ASSUME LockInv, NEW t \in Threads, pc[t] \in InHand, NEW locks, HasTSD(t, locks),
           EndQuarantine(t, locks), Frame
    PROVE  Kept(t)
<1>1. CASE job[t].op \in {"drain", "exit"}
  <2> DEFINE work == WithBatches(job[t], <<>>)
  <2>1. Step(t, "flush", work) /\ lock' = locks
      BY <1>1 DEF EndQuarantine, WithBatches
  <2>2. IsJob(work) /\ work.tsd = job[t].tsd /\ work.op = job[t].op /\ work.todo = job[t].todo
      BY FitAt, JobFacts
  <2> HIDE DEF work
  <2>3. Fit(t, "flush", work)
      BY <1>1, <2>2, FitAt, InHandFacts, ReachFacts DEF Fit, NeedTSD
  <2> QED
      BY <2>1, <2>2, <2>3, KeepTSD
<1>2. CASE job[t].op \notin {"drain", "exit"}
  <2>1. Return(t) /\ lock' = WithoutTSD(t, locks)
      BY <1>2 DEF EndQuarantine, Finish
  <2>2. ForDrain(job[t]) = {}
      BY <1>2 DEF ForDrain
  <2>3. job[t].tsd \in Locks => locks[job[t].tsd] = t
      BY RankFacts DEF HasTSD
  <2>4. Touched(t, lock') /\ \A m \in Locks : lock'[m] = t => locks[m] = t /\ m # job[t].tsd
      BY <2>1, <2>3, ReleaseTouches DEF HasTSD
  <2> QED
      BY <2>1, <2>2, <2>4, ReturnKeeps DEF HasTSD
<1> QED
    BY <1>1, <1>2

\* A chunk is put into the quarantine of the TSD in hand.
LEMMA PutKeeps == ASSUME LockInv, NEW t \in Threads, Put(t) PROVE Kept(t)
<1>1. /\ pc[t] = "put" /\ Frame
      /\ (Step(t, "transfer", job[t]) /\ lock' = lock) \/ EndQuarantine(t, lock)
    BY DEF Put, At, Goto, threadVars, registryVars, Frame
<1>2. pc[t] \in InHand /\ HasTSD(t, lock)
    BY <1>1, HasTSDAt
<1>3. CASE Step(t, "transfer", job[t]) /\ lock' = lock
    BY <1>1, <1>2, <1>3, FitOn, KeepTSD
<1> QED
    BY <1>1, <1>2, <1>3, EndQuarantineKeeps

\* transferBatches, after which a free may recycle or be over.
LEMMA TransferKeeps == ASSUME LockInv, NEW t \in Threads, TransferCache(t) PROVE Kept(t)
<1>1. /\ pc[t] = "transfer" /\ Frame
      /\ \/ Step(t, "lockrecycle", job[t]) /\ lock' = lock
         \/ Step(t, "tryrecycle", job[t]) /\ lock' = lock /\ job[t].op # "drain"
         \/ EndQuarantine(t, lock)
    BY DEF TransferCache, At, Goto, threadVars, registryVars, Frame
<1>2. pc[t] \in InHand /\ HasTSD(t, lock)
    BY <1>1, HasTSDAt
<1>3. CASE Step(t, "lockrecycle", job[t]) /\ lock' = lock
    BY <1>1, <1>2, <1>3, FitOn, KeepTSD
<1>4. CASE Step(t, "tryrecycle", job[t]) /\ lock' = lock /\ job[t].op # "drain"
  <2>1. Fit(t, "tryrecycle", job[t])
      BY <1>2, <1>4, FitAt, InHandFacts, ReachFacts DEF Fit, NeedTSD
  <2> QED
      BY <1>1, <1>2, <1>4, <2>1, KeepTSD
<1> QED
    BY <1>1, <1>2, <1>3, <1>4, EndQuarantineKeeps

\* Who recycles holds Recycle beside its TSD.
LEMMA StartRecycleKeeps ==
    ASSUME LockInv, NEW t \in Threads, TryRecycle(t) \/ LockRecycle(t) PROVE Kept(t)
<1>1. /\ pc[t] \in {"tryrecycle", "lockrecycle"} /\ Frame
      /\ \/ Acquire(t, "Recycle") /\ Step(t, "recycle", job[t])
         \/ EndQuarantine(t, lock)
    BY DEF TryRecycle, LockRecycle, At, Goto, threadVars, registryVars, Frame
<1>2. pc[t] \in InHand /\ HasTSD(t, lock)
    BY <1>1, HasTSDAt
<1>3. CASE Acquire(t, "Recycle") /\ Step(t, "recycle", job[t])
  <2>1. /\ Fit(t, "recycle", job[t]) /\ Known("recycle") /\ "recycle" \notin NeedTSD
        /\ Allowed("recycle", job[t]) = {job[t].tsd, "Recycle"} \cup ForDrain(job[t])
      BY <1>2, FitOn DEF Allowed
  <2>2. "Recycle" \in PartLocks \cup RegistryLocks
      BY DEF PartLocks
  <2>3. /\ Touched(t, lock') /\ "Recycle" \in Locks
        /\ \A m \in Locks : lock'[m] = t <=> m = "Recycle" \/ lock[m] = t
      BY <1>3, <2>2, AcquireTouches
  <2>4. job[t].tsd = t \/ lock'[job[t].tsd] = t
      BY <1>2, <2>3, InHandFacts, ReachFacts
  <2>5. HoldsNext(t, "recycle", job[t])
      BY <1>2, <2>1, <2>3, <2>4 DEF HoldsNext, HasTSD
  <2> QED
      BY <1>1, <1>3, <2>1, <2>3, <2>5, MoveKeeps
<1> QED
    BY <1>1, <1>2, <1>3, EndQuarantineKeeps

\* It gives Recycle back before it scrubs what it took out.
LEMMA RecycleKeeps ==
    ASSUME LockInv, NEW t \in Threads, Recycle(t) \/ UnlockRecycle(t) \/ Scrub(t)
    PROVE  Kept(t)
<1>1. CASE Recycle(t)
  <2> DEFINE work == WithBatches(job[t], Extract(quarantine, MinSizeFor(job[t].op)).out)
  <2>1. /\ pc[t] = "recycle" /\ lock' = lock /\ Frame
        /\ Step(t, "unlock", work)
      BY <1>1 DEF Recycle, At, threadVars, registryVars, Frame, WithBatches
  <2>2. IsJob(work) /\ work.tsd = job[t].tsd /\ work.op = job[t].op /\ work.todo = job[t].todo
      BY FitAt, JobFacts
  <2> HIDE DEF work
  <2>3. pc[t] \in InHand
      BY <2>1 DEF InHand
  <2>4. Fit(t, "unlock", work)
      BY <2>2, <2>3, FitAt, InHandFacts, ReachFacts DEF Fit, NeedTSD
  <2>5. Allowed("unlock", work) = Allowed("recycle", job[t])
      BY <2>2 DEF Allowed, ForDrain
  <2>6. HoldsNext(t, "unlock", work)
      BY <2>1, <2>2, <2>3, <2>5, HoldsAt, InHandFacts DEF Known, HoldsNext
  <2>7. Known("unlock") /\ "unlock" \notin NeedTSD
      BY DEF Known, NeedTSD
  <2> QED
      BY <2>1, <2>4, <2>6, <2>7, TouchNothing, MoveKeeps
<1>2. CASE UnlockRecycle(t)
  <2> DEFINE locks == [lock EXCEPT !["Recycle"] = NoThread]
  <2>1. /\ pc[t] = "unlock" /\ Frame
        /\ \/ EndQuarantine(t, locks)
           \/ Step(t, "scrub", job[t]) /\ lock' = locks
      BY <1>2 DEF UnlockRecycle, At, Goto, threadVars, registryVars, Frame
  <2>2. /\ lock \in [Locks -> Threads \cup {NoThread}] /\ "Recycle" \in Locks
        /\ NoThread \notin Threads /\ lock["Recycle"] = t
      BY <2>1, HoldsAt, RankFacts DEF LockInv, LockTypes, PartLocks
  <2>3. /\ locks \in [Locks -> Threads \cup {NoThread}]
        /\ \A l \in Locks : locks[l] = IF l = "Recycle" THEN NoThread ELSE lock[l]
      BY <2>2
  <2>4. pc[t] \in InHand
      BY <2>1 DEF InHand
  <2> HIDE DEF locks
  <2>5. Touched(t, locks)
      BY <2>2, <2>3, TouchNothing DEF Touched
  <2>6. job[t].tsd = t \/ locks[job[t].tsd] = t
      BY <2>3, <2>4, InHandFacts, ReachFacts DEF PartLocks
  <2>7. \A l \in Locks : locks[l] = t => l \in {job[t].tsd} \cup ForDrain(job[t])
    <3>1. \A l \in Locks : locks[l] = t => lock[l] = t /\ l # "Recycle"
        BY <2>2, <2>3
    <3> QED
        BY <2>1, <3>1, HoldsAt DEF Known, Allowed
  <2>8. HasTSD(t, locks)
      BY <2>5, <2>6, <2>7 DEF HasTSD
  <2>9. CASE Step(t, "scrub", job[t]) /\ lock' = locks
      BY <2>1, <2>4, <2>8, <2>9, FitOn, KeepTSD
  <2> QED
      BY <2>1, <2>4, <2>8, <2>9, EndQuarantineKeeps
<1>3. CASE Scrub(t)
  <2> DEFINE work == WithBatches(job[t], Tail(job[t].batches))
  <2>1. /\ pc[t] = "scrub" /\ Frame
        /\ \/ EndQuarantine(t, lock)
           \/ Step(t, "scrub", work) /\ lock' = lock
      BY <1>3 DEF Scrub, At, threadVars, registryVars, Frame, WithBatches
  <2>2. pc[t] \in InHand /\ HasTSD(t, lock)
      BY <2>1, HasTSDAt
  <2>3. IsJob(work) /\ work.tsd = job[t].tsd /\ work.op = job[t].op /\ work.todo = job[t].todo
      BY FitAt, JobFacts
  <2> HIDE DEF work
  <2>4. CASE Step(t, "scrub", work) /\ lock' = lock
    <3>1. Fit(t, "scrub", work)
        BY <2>2, <2>3, FitAt, InHandFacts, ReachFacts DEF Fit, NeedTSD
    <3> QED
        BY <2>1, <2>2, <2>3, <2>4, <3>1, KeepTSD
  <2> QED
      BY <2>1, <2>2, <2>4, EndQuarantineKeeps
<1> QED
    BY <1>1, <1>2, <1>3

\* Without memory for a batch every thread is aborted.
LEMMA AbortKeeps ==
    ASSUME LockInv, NEW t \in Threads, OutOfMemory(t)
    PROVE  LockInv' /\ \A u \in Threads : pc'[u] = "aborted"
<1>1. /\ pc' = [u \in Threads |-> "aborted"] /\ job' = job /\ lock' = lock /\ Frame
    BY DEF OutOfMemory, threadVars, registryVars, Frame
<1>2. RegistryLocks' = RegistryLocks
    BY <1>1, SameOrder DEF Frame
<1>3. LockTypes'
    BY <1>1, <1>2 DEF LockInv, LockTypes, Frame
<1>4. ASSUME NEW u \in Threads
      PROVE  Sound(u)'
  <2>1. pc'[u] = "aborted" /\ job'[u] = job[u] /\ registry' = registry
      BY <1>1 DEF Frame
  <2>2. Fit(u, pc[u], job[u])'
      BY <1>2, <2>1, FitAt DEF Fit, Reachable, InHand, NeedTSD
  <2>3. Holds(u, pc[u], job[u])'
      BY <2>1 DEF Holds, InHand, Known
  <2>4. Disables(u, pc[u], job[u])'
      BY <2>1 DEF Disables
  <2>5. Associated(u, pc[u])'
    <3>1. Associated(u, pc[u])
        BY DEF LockInv, Sound
    <3> QED
        BY <1>1, <2>1, <3>1 DEF Associated, Frame, NeedTSD
  <2> QED
      BY <2>2, <2>3, <2>4, <2>5 DEF Sound
<1> QED
    BY <1>1, <1>3, <1>4 DEF LockInv

\* drainCaches goes from TSD to TSD, with TSDs in the shared registry.
LEMMA DrainingKeeps ==
    ASSUME LockInv, NEW t \in Threads, LockTSDs(t) \/ NextTSD(t) \/ Flush(t)
    PROVE  Kept(t)
<1>1. CASE LockTSDs(t)
  <2>1. /\ pc[t] = "locktsds" /\ Frame /\ Acquire(t, "TSDs")
        /\ Step(t, "nexttsd", job[t])
      BY <1>1 DEF LockTSDs, At, Goto, threadVars, registryVars, Frame
  <2>2. job[t].op = "drain"
      BY <2>1, FitAt DEF Fit
  <2>3. Fit(t, "nexttsd", job[t]) /\ Allowed("nexttsd", job[t]) = {"TSDs"}
      BY <2>1, <2>2, FitAt DEF Fit, NeedTSD, InHand, Allowed, ForDrain
  <2>4. "TSDs" \in PartLocks \cup RegistryLocks
      BY DEF PartLocks
  <2>5. Touched(t, lock') /\ \A m \in Locks : lock'[m] = t => m = "TSDs" \/ lock[m] = t
      BY <2>1, <2>4, AcquireTouches
  <2>6. FreeHanded(t)
      BY <2>1, FreeHandedAt
  <2>7. HoldsNext(t, "nexttsd", job[t])
      BY <2>3, <2>5, <2>6 DEF HoldsNext, FreeHanded, InHand
  <2>8. Known("nexttsd") /\ "nexttsd" \notin NeedTSD
      BY DEF Known, NeedTSD
  <2> QED
      BY <2>1, <2>3, <2>5, <2>7, <2>8, MoveKeeps
<1>2. CASE NextTSD(t)
  <2>1. pc[t] = "nexttsd" /\ Frame
      BY <1>2 DEF NextTSD, At, threadVars, registryVars, Frame
  <2>2. job[t].op = "drain" /\ job[t].todo \in Seq(Reachable(t))
      BY <2>1, FitAt DEF Fit
  <2>3. Touched(t, lock) /\ \A l \in Locks : lock[l] = t => l = "TSDs"
      BY <2>1, <2>2, HoldsAt, TouchNothing DEF Known, Allowed, ForDrain
  <2>4. CASE job[t].todo = <<>>
    <3>1. /\ Return(t)
          /\ lock' = [l \in Locks |-> IF l = "TSDs" /\ lock[l] = t THEN NoThread ELSE lock[l]]
        BY <1>2, <2>4 DEF NextTSD
    <3>2. NoThread \notin Threads /\ lock \in [Locks -> Threads \cup {NoThread}]
        BY RankFacts DEF LockInv, LockTypes
    <3>3. Touched(t, lock') /\ \A l \in Locks : lock'[l] # t
        BY <2>3, <3>1, <3>2 DEF Touched
    <3> QED
        BY <2>1, <3>1, <3>3, ReturnKeeps
  <2>5. CASE job[t].todo # <<>>
    <3> DEFINE tsd == Head(job[t].todo)
               work == WithNext(job[t], tsd, Tail(job[t].todo))
    <3>1. /\ IF tsd = t THEN lock' = lock ELSE Acquire(t, tsd)
          /\ Step(t, "transfer", work)
        BY <1>2, <2>5 DEF NextTSD, WithNext
    <3>2. tsd \in Reachable(t) /\ Tail(job[t].todo) \in Seq(Reachable(t))
        BY <2>2, <2>5
    <3>3. IsJob(work) /\ work.tsd = tsd /\ work.op = "drain"
          /\ work.todo = Tail(job[t].todo)
        BY <2>2, FitAt, JobFacts
    <3> HIDE DEF work, tsd
    <3>4. tsd # NoTSD /\ (tsd = t \/ tsd \in RegistryLocks)
        BY <3>2, ReachFacts
    <3>5. Fit(t, "transfer", work)
        BY <3>2, <3>3, <3>4 DEF Fit, NeedTSD
    <3>6. Allowed("transfer", work) = {tsd, "TSDs"}
        BY <3>3 DEF Allowed, ForDrain
    <3>7. /\ Touched(t, lock') /\ \A m \in Locks : lock'[m] = t => m = tsd \/ m = "TSDs"
          /\ tsd = t \/ lock'[tsd] = t
        BY <2>3, <3>1, <3>4, AcquireTouches
    <3>8. HoldsNext(t, "transfer", work)
        BY <3>3, <3>6, <3>7 DEF HoldsNext
    <3>9. Known("transfer") /\ "transfer" \notin NeedTSD
        BY DEF Known, NeedTSD
    <3> QED
        BY <2>1, <3>1, <3>5, <3>7, <3>8, <3>9, MoveKeeps
  <2> QED
      BY <2>4, <2>5
<1>3. CASE Flush(t)
  <2>1. pc[t] = "flush" /\ Frame
      BY <1>3 DEF Flush, At, threadVars, registryVars, Frame
  <2>2. job[t].op \in {"drain", "exit"}
      BY <2>1, FitAt DEF Fit
  <2>3. pc[t] \in InHand /\ HasTSD(t, lock)
      BY <2>1, HasTSDAt
  <2>4. CASE job[t].op = "exit"
    <3>1. Step(t, "unlink", job[t]) /\ lock' = lock
        BY <1>3, <2>4 DEF Flush, Goto
    <3>2. Fit(t, "unlink", job[t]) /\ job[t].tsd = t
        BY <2>4, FitAt DEF Fit, NeedTSD, InHand
    <3>3. FreeHanded(t)
        BY <2>3, <2>4, <3>2, RankFacts DEF HasTSD, ForDrain, FreeHanded
    <3>4. Known("unlink") /\ "unlink" \notin InHand /\ "unlink" \notin NeedTSD
        BY DEF Known, InHand, NeedTSD
    <3> QED
        BY <2>1, <3>1, <3>2, <3>3, <3>4, FreeMove
  <2>5. CASE job[t].op = "drain"
    <3> DEFINE work == WithTSD(job[t], NoTSD)
    <3>1. Step(t, "nexttsd", work) /\ lock' = WithoutTSD(t, lock)
        BY <1>3, <2>5 DEF Flush, WithTSD
    <3>2. IsJob(work) /\ work.tsd = NoTSD /\ work.op = "drain" /\ work.todo = job[t].todo
        BY <2>5, FitAt, JobFacts
    <3> HIDE DEF work
    <3>3. Fit(t, "nexttsd", work)
        BY <2>5, <3>2, FitAt DEF Fit, NeedTSD, InHand
    <3>4. Allowed("nexttsd", work) = ForDrain(job[t])
        BY <2>5, <3>2 DEF Allowed, ForDrain
    <3>5. job[t].tsd \in Locks => lock[job[t].tsd] = t
        BY <2>3, RankFacts DEF HasTSD
    <3>6. Touched(t, lock') /\ \A m \in Locks : lock'[m] = t => lock[m] = t /\ m # job[t].tsd
        BY <2>3, <3>1, <3>5, ReleaseTouches DEF HasTSD
    <3>7. HoldsNext(t, "nexttsd", work)
        BY <2>3, <3>4, <3>6 DEF HoldsNext, InHand, HasTSD
    <3>8. Known("nexttsd") /\ "nexttsd" \notin NeedTSD
        BY DEF Known, NeedTSD
    <3> QED
        BY <2>1, <3>1, <3>3, <3>6, <3>7, <3>8, MoveKeeps
  <2> QED
      BY <2>2, <2>4, <2>5
<1> QED
    BY <1>1, <1>2, <1>3

-----------------------------------------------------------------------------
(* Exit, disable and enable.                                               *)

\* A thread that exits takes no lock; with the shared registry it has no destructor.
LEMMA ExitingKeeps == ASSUME LockInv, NEW t \in Threads, Exiting(t) PROVE Kept(t)
<1>1. /\ registry' = registry /\ disabled' = disabled /\ current' = current /\ lock' = lock
      /\ current \in [Threads -> SharedTSDs \cup {NoTSD}]
      /\ DOMAIN initState = Threads /\ DOMAIN key = Threads
    BY DEF Exiting, BeginExit, NextRound, TeardownThread, Unlink, registryVars, LockInv, LockTypes
<1>2. Associated(t, pc[t])
    BY DEF LockInv, Sound
<1>3. CASE BeginExit(t) \/ NextRound(t)
  <2>1. /\ pc[t] = "idle" /\ initState' = initState /\ UNCHANGED callVars
        /\ \E k : key' = [key EXCEPT ![t] = k]
        /\ key[t] = "unset" => key'[t] = "unset"
      BY <1>1, <1>3 DEF BeginExit, NextRound, At
  <2>2. Setting(t) /\ AssociatedNext(t, pc[t])
      BY <1>1, <1>2, <2>1 DEF Setting, AssociatedNext, Associated
  <2> QED
      BY <1>1, <2>1, <2>2, StandStill
<1>4. CASE TeardownThread(t)
  <2>1. /\ pc[t] = "idle" /\ initState' = initState /\ key[t] = "due"
        /\ \E k : key' = [key EXCEPT ![t] = k]
        /\ UNCHANGED callVars \/ Step(t, "transfer", ExitJob(t))
      BY <1>4 DEF TeardownThread, At, ExitJob
  <2>2. registry # "shared"
      BY <1>2, <2>1 DEF Associated
  <2>3. Setting(t) /\ \A stage : AssociatedNext(t, stage)
      BY <1>1, <2>1, <2>2 DEF Setting, AssociatedNext
  <2>4. CASE UNCHANGED callVars
      BY <1>1, <2>3, <2>4, StandStill
  <2>5. CASE Step(t, "transfer", ExitJob(t))
    <3>1. IsJob(ExitJob(t)) /\ ExitJob(t).tsd = t /\ ExitJob(t).op = "exit"
        BY ExitFacts
    <3>2. Fit(t, "transfer", ExitJob(t))
        BY <2>2, <3>1, ReachFacts DEF Fit, NeedTSD
    <3>3. Touched(t, lock') /\ \A l \in Locks : lock'[l] # t
        BY <1>1, <2>1, FreeHandedAt, TouchNothing DEF FreeHanded
    <3>4. HoldsNext(t, "transfer", ExitJob(t)) /\ DisablesNext(t, "transfer", ExitJob(t))
        BY <3>1, <3>3 DEF HoldsNext, DisablesNext
    <3> QED
        BY <2>3, <2>5, <3>2, <3>3, <3>4, StepKeeps
  <2> QED
      BY <2>1, <2>4, <2>5
<1>5. CASE Unlink(t)
  <2>1. /\ pc[t] = "unlink" /\ Step(t, "idle", NoJob) /\ key' = key
        /\ initState' = [initState EXCEPT ![t] = "TornDown"]
      BY <1>5 DEF Unlink, At, Return
  <2>2. registry # "shared"
      BY <2>1, FitAt DEF Fit
  <2>3. Setting(t) /\ AssociatedNext(t, "idle")
      BY <1>1, <2>1, <2>2 DEF Setting, AssociatedNext
  <2>4. Touched(t, lock') /\ \A l \in Locks : lock'[l] # t
      BY <1>1, <2>1, FreeHandedAt, TouchNothing DEF FreeHanded
  <2>5. HoldsNext(t, "idle", NoJob) /\ DisablesNext(t, "idle", NoJob)
      BY <2>4 DEF HoldsNext, DisablesNext, InHand
  <2> QED
      BY <2>1, <2>3, <2>4, <2>5, FitIdle, StepKeeps
<1> QED
    BY <1>3, <1>4, <1>5 DEF Exiting

\* What is left of a list are all its elements but the head.
LEMMA TailElements ==
    ASSUME NEW S, NEW s \in Seq(S), s # <<>>
    PROVE  /\ Tail(s) \in Seq(S) /\ Head(s) \in S
           /\ \A l \in ElementsOf(s) : l = Head(s) \/ l \in ElementsOf(Tail(s))
<1> DEFINE r == Tail(s)
<1>1. /\ Len(s) \in Nat /\ Len(s) # 0 /\ DOMAIN s = 1 .. Len(s)
      /\ r \in Seq(S) /\ Len(r) = Len(s) - 1 /\ DOMAIN r = 1 .. Len(r)
      /\ \A i \in 1 .. Len(r) : r[i] = s[i + 1]
      /\ Head(s) = s[1] /\ s[1] \in S
    BY EmptySeq
<1> HIDE DEF r
<1>2. ASSUME NEW l \in ElementsOf(s), l # s[1]
      PROVE  l \in ElementsOf(r)
  <2>1. PICK i \in DOMAIN s : l = s[i]
      BY DEF ElementsOf
  <2>2. i - 1 \in DOMAIN r /\ r[i - 1] = s[i]
      BY <1>1, <1>2, <2>1
  <2> QED
      BY <2>1, <2>2 DEF ElementsOf
<1> QED
    BY <1>1, <1>2 DEF r

\* It is ordered, and comes after the head.
LEMMA TailOrdered ==
    ASSUME NEW S, NEW s \in Seq(S), Ordered(s), s # <<>>, Tail(s) # <<>>
    PROVE  Ordered(Tail(s)) /\ Below(Head(s), Head(Tail(s)))
<1> DEFINE r == Tail(s)
<1>1. /\ Len(s) \in Nat /\ Len(s) # 0 /\ DOMAIN s = 1 .. Len(s)
      /\ r \in Seq(S) /\ Len(r) = Len(s) - 1 /\ DOMAIN r = 1 .. Len(r)
      /\ \A i \in 1 .. Len(r) : r[i] = s[i + 1]
    BY EmptySeq
<1>2. Len(r) \in Nat /\ Len(r) # 0
    BY <1>1, EmptySeq
<1> HIDE DEF r
<1>3. Ordered(r)
  <2> SUFFICES ASSUME NEW i \in DOMAIN r, NEW j \in DOMAIN r, i < j
               PROVE  Below(r[i], r[j])
      BY DEF Ordered
  <2>1. /\ i + 1 \in DOMAIN s /\ j + 1 \in DOMAIN s /\ i + 1 < j + 1
        /\ r[i] = s[i + 1] /\ r[j] = s[j + 1]
      BY <1>1, <1>2
  <2> QED
      BY <2>1 DEF Ordered
<1>4. 1 \in DOMAIN s /\ 2 \in DOMAIN s /\ 1 < 2 /\ r[1] = s[2]
    BY <1>1, <1>2
<1>5. Below(s[1], s[2])
    BY <1>4 DEF Ordered
<1>6. Head(s) = s[1] /\ Head(r) = r[1]
    BY <1>1, <1>2, <1>4
<1> QED
    BY <1>3, <1>4, <1>5, <1>6 DEF r

\* Places in the order of disable compare.
LEMMA BelowTransitive ==
    ASSUME NEW l, NEW m, NEW n, Below(l, m), Below(m, n) PROVE Below(l, n)
<1>1. Rank(l) \in Nat /\ Rank(m) \in Nat /\ Rank(n) \in Nat
    BY RankFacts
<1> QED
    BY <1>1 DEF Below

\* disable takes its next lock, or sets the flag of the exclusive registry.
LEMMA DisablingKeeps == ASSUME LockInv, NEW t \in Threads, Disabling(t) PROVE Kept(t)
<1> DEFINE todo == job[t].todo
           next == Head(todo)
           left == Tail(todo)
           work == WithTodo(job[t], left)
           stage == IF left = <<>> THEN "disabled" ELSE "disabling"
<1>1. /\ pc[t] = "disabling" /\ UNCHANGED <<registry, threadVars>>
      /\ Step(t, stage, work)
      /\ IF next = "flag" THEN disabled' = TRUE /\ lock' = lock
                          ELSE Acquire(t, next) /\ disabled' = disabled
    BY DEF Disabling, At, WithTodo
<1>2. /\ todo \in Seq(ToDisable) /\ todo # <<>> /\ Ordered(todo)
      /\ \A l \in Locks : lock[l] = t => Below(l, next)
      /\ next # "Mutex" => lock["Mutex"] = t
      /\ \A l \in ElementsOf(DisableOrder) \ ElementsOf(todo) : Has(t, l)
    BY <1>1 DEF LockInv, Sound, Disables
<1>3. /\ IsJob(work) /\ work.tsd = job[t].tsd /\ work.op = job[t].op /\ work.todo = left
    BY FitAt, JobFacts
<1> HIDE DEF work
<1>4. work.op = "disable"
  <2>1. Fit(t, pc[t], job[t]) /\ pc[t] = "disabling"
      BY <1>1, FitAt
  <2> QED
      BY <1>3, <2>1 DEF Fit
<1>5. /\ left \in Seq(ToDisable) /\ next \in ToDisable
      /\ \A l \in ElementsOf(todo) : l = next \/ l \in ElementsOf(left)
    BY <1>2, TailElements
<1>6. left # <<>> => Ordered(left) /\ Below(next, Head(left))
    BY <1>2, TailOrdered
<1>7. "Mutex" \in Locks /\ "flag" \notin Locks /\ "flag" # "Mutex"
    BY RankFacts, FrontendAssumption DEF FrontendAssumption, PartLocks, Locks
<1> HIDE DEF todo, next, left
<1>8. stage \in {"disabled", "disabling"} /\ Fit(t, stage, work)
    BY <1>3, <1>4, FitAt DEF Fit, NeedTSD, InHand
<1>9. /\ Touched(t, lock') /\ \A m \in Locks : lock'[m] = t <=> m = next \/ lock[m] = t
      /\ lock'["Mutex"] = t
  <2>1. CASE next = "flag"
      BY <1>1, <1>2, <1>7, <2>1, TouchNothing
  <2>2. CASE next # "flag"
    <3>1. next \in PartLocks \cup RegistryLocks
        BY <1>5, <2>2 DEF ToDisable
    <3> QED
        BY <1>1, <1>2, <1>7, <2>2, <3>1, AcquireTouches
  <2> QED
      BY <2>1, <2>2
<1>10. Setting(t) /\ AssociatedNext(t, stage)
  <2>1. disabled => disabled'
      BY <1>1
  <2>2. Associated(t, pc[t])
      BY DEF LockInv, Sound
  <2> QED
      BY <1>1, <2>1, <2>2 DEF Setting, AssociatedNext, Associated, threadVars, NeedTSD, LockInv,
                              LockTypes
<1>11. HoldsNext(t, stage, work)
    BY <1>8 DEF HoldsNext, Known, InHand
<1>12. \A l \in ElementsOf(DisableOrder) \ ElementsOf(left) : HasNext(t, l)
  <2> SUFFICES ASSUME NEW l \in ElementsOf(DisableOrder), l \notin ElementsOf(left)
               PROVE  HasNext(t, l)
      OBVIOUS
  <2>0. l \in Locks \cup {"flag"}
    <3> DEFINE s == DisableOrder
    <3>1. s \in Seq(ToDisable) /\ ToDisable \subseteq Locks \cup {"flag"}
        BY DisableOrderFacts, RankFacts, ReachFacts DEF ToDisable
    <3> HIDE DEF s
    <3>2. \A i \in DOMAIN s : s[i] \in Locks \cup {"flag"}
        BY <3>1
    <3> QED
        BY <3>2 DEF ElementsOf, s
  <2>1. CASE l = next
      BY <1>1, <1>9, <2>0, <2>1 DEF HasNext
  <2>2. CASE l \notin ElementsOf(todo)
    <3>1. Has(t, l)
        BY <1>2, <2>2
    <3>2. disabled => disabled'
        BY <1>1
    <3> QED
        BY <1>9, <2>0, <3>1, <3>2 DEF Has, HasNext
  <2> QED
      BY <1>5, <2>1, <2>2
<1>13. DisablesNext(t, stage, work)
  <2>1. left # <<>> => \A l \in Locks : lock'[l] = t => Below(l, Head(left))
      BY <1>2, <1>6, <1>9, BelowTransitive
  <2> QED
      BY <1>3, <1>5, <1>6, <1>9, <1>12, <2>1 DEF DisablesNext
<1> QED
    BY <1>1, <1>8, <1>9, <1>10, <1>11, <1>13, StepKeeps

\* A thread that has the allocator disabled holds what disable takes.
LEMMA DisabledHolds ==
    ASSUME LockInv, NEW t \in Threads, pc[t] = "disabled"
    PROVE  /\ \A l \in (PartLocks \ {"TSDs"}) \cup RegistryLocks : lock[l] = t
           /\ registry # "shared" => disabled
<1>1. job[t].todo = <<>>
    BY FitAt DEF Fit
<1>2. ElementsOf(job[t].todo) = {}
    BY <1>1 DEF ElementsOf
<1>3. \A l \in ElementsOf(DisableOrder) : Has(t, l)
    BY <1>2 DEF LockInv, Sound, Disables
<1>4. "flag" \notin PartLocks \cup RegistryLocks
    BY FrontendAssumption DEF FrontendAssumption, PartLocks, RegistryLocks, TSDLocks
<1> QED
    BY <1>3, <1>4, DisableTakes DEF Has

\* enable gives up every lock.
LEMMA EnableKeeps == ASSUME LockInv, NEW t \in Threads, Enable(t) PROVE Kept(t)
<1>1. /\ Step(t, "idle", NoJob) /\ UNCHANGED <<registry, threadVars>> /\ pc[t] = "disabled"
      /\ lock' = [l \in Locks |-> IF lock[l] = t THEN NoThread ELSE lock[l]]
    BY DEF Enable, At, Return
<1>2. NoThread \notin Threads /\ lock \in [Locks -> Threads \cup {NoThread}]
    BY RankFacts DEF LockInv, LockTypes
<1>3. Touched(t, lock') /\ \A l \in Locks : lock'[l] # t
    BY <1>1, <1>2 DEF Touched
<1>4. Setting(t) /\ AssociatedNext(t, "idle")
  <2>1. lock["Mutex"] = t
      BY <1>1, DisabledHolds DEF PartLocks
  <2>2. Associated(t, pc[t])
      BY DEF LockInv, Sound
  <2> QED
      BY <1>1, <2>1, <2>2 DEF Setting, AssociatedNext, Associated, threadVars, NeedTSD, LockInv,
                              LockTypes
<1>5. HoldsNext(t, "idle", NoJob) /\ DisablesNext(t, "idle", NoJob)
    BY <1>3 DEF HoldsNext, DisablesNext, InHand
<1> QED
    BY <1>1, <1>3, <1>4, <1>5, FitIdle, StepKeeps

\* What a step of a thread is.
Action(t) ==
    \/ Initialize(t) \/ GetTSD(t) \/ Allocate(t) \/ Deallocate(t)
    \/ Quarantining(t) \/ Draining(t) \/ Exiting(t) \/ Blocking(t)

\* It keeps the invariant and the locks of others, or aborts.
LEMMA ActionKeeps ==
    ASSUME LockInv, NEW t \in Threads, Action(t)
    PROVE  Kept(t) \/ OutOfMemory(t)
<1>1. CASE Initialize(t)
    BY <1>1, InitializeKeeps
<1>2. CASE GetTSD(t)
    BY <1>2, GetTSDKeeps
<1>3. CASE Allocate(t)
    BY <1>3, CallsKeep, AllocateKeeps DEF Allocate
<1>4. CASE Deallocate(t)
    BY <1>4, CallsKeep, DeallocateKeeps DEF Deallocate
<1>5. CASE Quarantining(t)
    BY <1>5, PutKeeps, TransferKeeps, StartRecycleKeeps, RecycleKeeps DEF Quarantining
<1>6. CASE Draining(t)
    BY <1>6, CallsKeep, DrainingKeeps DEF Draining
<1>7. CASE Exiting(t)
    BY <1>7, ExitingKeeps
<1>8. CASE Blocking(t)
    BY <1>8, CallsKeep, DisablingKeeps, EnableKeeps DEF Blocking
<1> QED
    BY <1>1, <1>2, <1>3, <1>4, <1>5, <1>6, <1>7, <1>8 DEF Action

\* Where nothing changes the invariant stays.
LEMMA Stutters == ASSUME LockInv, UNCHANGED vars PROVE LockInv'
<1>1. /\ registry' = registry /\ disabled' = disabled /\ lock' = lock /\ current' = current
      /\ initState' = initState /\ key' = key /\ pc' = pc /\ job' = job
    BY DEF vars, registryVars, threadVars, callVars
<1>2. DisableOrder' = DisableOrder /\ RegistryLocks' = RegistryLocks /\ ToDisable' = ToDisable
    BY <1>1, SameOrder
<1>3. LockTypes'
    BY <1>1, <1>2 DEF LockInv, LockTypes
<1>4. ASSUME NEW t \in Threads
      PROVE  Sound(t)'
  <2>1. Sound(t)
      BY DEF LockInv
  <2>2. Fit(t, pc[t], job[t])' /\ Holds(t, pc[t], job[t])'
      BY <1>1, <1>2, <2>1 DEF Sound, Fit, Reachable, Holds
  <2>3. Disables(t, pc[t], job[t])' /\ Associated(t, pc[t])'
      BY <1>1, <1>2, <2>1 DEF Sound, Disables, Has, Associated
  <2> QED
      BY <2>2, <2>3 DEF Sound
<1> QED
    BY <1>3, <1>4 DEF LockInv

\* Every step keeps the invariant.
LEMMA LockInvStep == LockInv /\ [Next]_vars => LockInv'
<1> SUFFICES ASSUME LockInv, [Next]_vars PROVE LockInv'
    OBVIOUS
<1>1. CASE UNCHANGED vars
    BY <1>1, Stutters
<1>2. ASSUME NEW t \in Threads, Action(t)
      PROVE  LockInv'
    BY <1>2, ActionKeeps, AbortKeeps DEF Kept
<1> QED
    BY <1>1, <1>2 DEF Next, Over, Action

\* A call holds at any time only the locks of its stage and has those that it works
\* under, and one that disables the allocator has all those that come before what it
\* has yet to take.
THEOREM LockInvariant == Spec => []LockInv
BY LockInvInit, LockInvStep, PTL DEF Spec

-----------------------------------------------------------------------------
(* No two threads wait for each other.                                     *)

\* A thread waits for a lock above those it holds; among TSDs only disable does, while it
\* holds Mutex.
LocksInOrder ==
    \A t \in Threads : \A m \in Locks :
      lock[m] = t /\ Awaited(t) \in Locks =>
        \/ Rank(m) < Rank(Awaited(t))
        \/ Rank(m) = 1 /\ Rank(Awaited(t)) = 1 /\ lock["Mutex"] = t

\* The stages of a call, and what each waits for.
LEMMA WaitsAbove ==
    ASSUME LockInv, NEW t \in Threads, NEW m \in Locks, lock[m] = t, Awaited(t) \in Locks
    PROVE  \/ Rank(m) < Rank(Awaited(t))
           \/ Rank(m) = 1 /\ Rank(Awaited(t)) = 1 /\ lock["Mutex"] = t
<1>1. /\ Rank("Mutex") = 0 /\ Rank("TSDs") = 0 /\ Rank("Stats") = 2 /\ Rank("Recycle") = 3
      /\ Rank("Cache") = 4 /\ Rank("Primary") = 5 /\ Rank("Secondary") = 6
    BY DEF Rank
<1>2. "none" \notin Locks
    BY FrontendAssumption DEF FrontendAssumption, Locks, PartLocks
<1>3. job[t].tsd \in Locks => Rank(job[t].tsd) = 1
    BY FitAt, ReachFacts
<1>4. CASE pc[t] = "disabling"
  <2>1. Awaited(t) = Head(job[t].todo)
      BY <1>4 DEF Awaited, At
  <2>2. /\ Below(m, Awaited(t)) /\ Awaited(t) # "Mutex" => lock["Mutex"] = t
        /\ Below(m, Awaited(t))
      BY <1>4, <2>1 DEF LockInv, Sound, Disables
  <2>3. Rank(m) \in Nat /\ Rank(Awaited(t)) \in Nat
      BY RankFacts
  <2> QED
      BY <1>1, <2>2, <2>3 DEF Below
<1>5. CASE pc[t] \in {"transfer", "recycle", "lockrecycle"}
  <2>1. m \in Allowed(pc[t], job[t])
      BY <1>5, HoldsAt DEF Known
  <2> QED
      BY <1>1, <1>3, <1>5, <2>1 DEF Allowed, ForDrain, Awaited, At
<1>6. CASE pc[t] \in {"pop", "put", "push", "scrub", "flush"}
  <2>1. m \in Allowed(pc[t], job[t])
      BY <1>6, HoldsAt DEF Known
  <2> QED
      BY <1>1, <1>3, <1>6, <2>1 DEF Allowed, ForDrain, Awaited, At
<1>7. CASE pc[t] = "nexttsd"
  <2>1. /\ m \in ForDrain(job[t]) /\ job[t].op = "drain" /\ job[t].todo \in Seq(Reachable(t))
      BY <1>7, HoldsAt, FitAt DEF Known, Allowed, Fit
  <2>2. m = "TSDs"
      BY <2>1 DEF ForDrain
  <2>3. job[t].todo # <<>> /\ Awaited(t) = Head(job[t].todo)
      BY <1>2, <1>7 DEF Awaited, At
  <2>4. Awaited(t) \in Reachable(t)
      BY <2>1, <2>3
  <2> QED
      BY <1>1, <2>2, <2>4, ReachFacts
<1>8. CASE pc[t] \in {"idle", "init", "attach", "take", "fallback", "slow", "await", "map",
                      "mark", "resize", "unmap", "unlink", "locktsds"}
    BY <1>8, FreeHandedAt DEF FreeHanded
<1>9. CASE pc[t] \notin {"disabling", "transfer", "recycle", "lockrecycle", "pop", "put",
                         "push", "scrub", "flush", "nexttsd", "idle", "init", "attach",
                         "take", "fallback", "slow", "await", "map", "mark", "resize",
                         "unmap", "unlink", "locktsds"}
    BY <1>2, <1>9 DEF Awaited, At
<1> QED
    BY <1>4, <1>5, <1>6, <1>7, <1>8, <1>9

\* Two threads that waited for each other would each be at a lower place than the other,
\* or both hold Mutex.
LEMMA NotCrossed == LockInv => NoCrossedLocks
<1> SUFFICES ASSUME LockInv, NEW t \in Threads, NEW u \in Threads, t # u,
                    Awaited(t) \in Locks, lock[Awaited(t)] = u,
                    Awaited(u) \in Locks, lock[Awaited(u)] = t
             PROVE  FALSE
    BY DEF NoCrossedLocks
<1> DEFINE a == Awaited(t)
           b == Awaited(u)
<1>1. Rank(b) < Rank(a) \/ (Rank(b) = 1 /\ Rank(a) = 1 /\ lock["Mutex"] = t)
    BY WaitsAbove
<1>2. Rank(a) < Rank(b) \/ (Rank(a) = 1 /\ Rank(b) = 1 /\ lock["Mutex"] = u)
    BY WaitsAbove
<1>3. Rank(a) \in Nat /\ Rank(b) \in Nat
    BY RankFacts
<1> HIDE DEF a, b
<1> QED
    BY <1>1, <1>2, <1>3

\* Every operation takes its locks in the order of disable, so that no cycle of threads,
\* however many, wait for each other: the rank of what they wait for would rise along it,
\* or stay at that of the TSDs, with the holder of Mutex as its only thread.
THEOREM LocksFollowOrder == Spec => []LocksInOrder
<1>1. LockInv => LocksInOrder
    BY WaitsAbove DEF LocksInOrder
<1> QED
    BY <1>1, LockInvariant, PTL

\* No two threads each hold a lock that the other is about to take, whatever they call,
\* with either registry and any number of TSDs.
THEOREM LocksNeverCross == Spec => []NoCrossedLocks
BY LockInvariant, NotCrossed, PTL

-----------------------------------------------------------------------------
(* No two threads work with the same TSD.                                  *)

\* The TSD in hand is the thread's own or one that it has locked, and no other thread
\* reaches its own.
LEMMA OneInTSD == LockInv => OneThreadInTSD
<1> SUFFICES ASSUME LockInv, NEW t \in Threads, NEW u \in Threads, t # u,
                    pc[t] \in InHand, pc[u] \in InHand, job[t].tsd = job[u].tsd
             PROVE  FALSE
    BY DEF OneThreadInTSD
<1>1. \/ job[t].tsd = t
      \/ job[t].tsd \in RegistryLocks /\ lock[job[t].tsd] = t
    BY InHandFacts
<1>2. \/ job[u].tsd = u
      \/ job[u].tsd \in RegistryLocks /\ lock[job[u].tsd] = u
    BY InHandFacts
<1> QED
    BY <1>1, <1>2, ReachFacts

\* The local cache and the quarantine of a TSD have one user at any time, whatever the
\* threads call, drain and exit with either registry.
THEOREM OneThreadPerTSD == Spec => []OneThreadInTSD
BY LockInvariant, OneInTSD, PTL

-----------------------------------------------------------------------------
(* Nothing moves while the allocator is disabled.                          *)

\* The locks of a part of the allocator that moves are with the thread that disabled it.
Blocked ==
    \A l \in {"Mutex", "Stats", "Cache", "Primary", "Secondary"} : ~Free(l)

\* What it iterates over, and the statistics it reads.
Quiet == UNCHANGED <<free, unmapped, quarantine, linked>>

\* It has them all.
LEMMA DisabledBlocks ==
    ASSUME LockInv, NEW t \in Threads, pc[t] = "disabled" PROVE Blocked
BY DisabledHolds, RankFacts DEF Blocked, Free, PartLocks

\* Blocks move between a cache and the Primary under its lock.
LEMMA StockStays == ASSUME Blocked, NEW u, NEW acc, SetStock(u, acc) PROVE free' = free
BY DEF Blocked, SetStock

\* A call moves nothing before it has a TSD.
LEMMA StartQuiet ==
    ASSUME Blocked, NEW u \in Threads, Initialize(u) \/ GetTSD(u) PROVE Quiet
<1>1. ~InitOnce(u) /\ ~AttachExclusive(u)
    BY DEF Blocked, InitOnce, AttachExclusive, LinkStats
<1>2. ASSUME AttachShared(u) PROVE Quiet
    BY <1>2 DEF AttachShared, Quiet, heapVars, quarantineVars
<1>3. ASSUME GetTSD(u) PROVE Quiet
    BY <1>3 DEF GetTSD, TakeOwn, TakeFallback, LockFallback, TakeCurrent, TakeSlow,
                TakeCandidate, Quiet, heapVars, quarantineVars
<1> QED
    BY <1>1, <1>2, <1>3 DEF Initialize

\* allocate and deallocate get along with what is in the cache, or wait.
LEMMA ClientQuiet ==
    ASSUME Blocked, NEW u \in Threads, Allocate(u) \/ Deallocate(u) PROVE Quiet
<1>1. ASSUME Malloc(u) \/ Dealloc(u) \/ Realloc(u) PROVE Quiet
    BY <1>1 DEF Malloc, Dealloc, Realloc, Call, Quiet, heapVars, quarantineVars
<1>2. ASSUME Pop(u) PROVE Quiet
  <2>1. UNCHANGED <<unmapped, linked, quarantineVars>>
      BY <1>2 DEF Pop
  <2>2. free' = free \/ \E acc : SetStock(u, acc)
      BY <1>2 DEF Pop
  <2> QED
      BY <2>1, <2>2, StockStays DEF Quiet, quarantineVars
<1>3. ~Map(u) /\ ~Unmap(u)
    BY DEF Map, Unmap, Blocked
<1>4. ASSUME Resize(u) \/ Mark(u) PROVE Quiet
    BY <1>4 DEF Resize, Mark, Quiet, heapVars, quarantineVars
<1>5. ASSUME Push(u) PROVE Quiet
  <2>1. UNCHANGED <<unmapped, linked, quarantineVars>> /\ \E acc : SetStock(u, acc)
      BY <1>5 DEF Push
  <2> QED
      BY <2>1, StockStays DEF Quiet, quarantineVars
<1> QED
    BY <1>1, <1>2, <1>3, <1>4, <1>5 DEF Allocate, Deallocate

\* So does the quarantine.
LEMMA QuarantineQuiet ==
    ASSUME Blocked, NEW u \in Threads, Quarantining(u) PROVE Quiet
<1>1. ASSUME Put(u) PROVE Quiet
  <2>1. UNCHANGED <<unmapped, linked, quarantine>>
      BY <1>1 DEF Put
  <2>2. free' = free \/ \E acc : SetStock(u, acc)
      BY <1>1 DEF Put
  <2> QED
      BY <2>1, <2>2, StockStays DEF Quiet
<1>2. ~TransferCache(u) /\ ~Recycle(u)
    BY DEF TransferCache, Recycle, Blocked
<1>3. ASSUME OutOfMemory(u) \/ TryRecycle(u) \/ LockRecycle(u) \/ UnlockRecycle(u) PROVE Quiet
    BY <1>3 DEF OutOfMemory, TryRecycle, LockRecycle, UnlockRecycle, Quiet, heapVars,
                quarantineVars
<1>4. ASSUME Scrub(u) PROVE Quiet
  <2>1. UNCHANGED <<unmapped, linked, quarantineVars>> /\ \E acc : SetStock(u, acc)
      BY <1>4 DEF Scrub
  <2> QED
      BY <2>1, StockStays DEF Quiet, quarantineVars
<1> QED
    BY <1>1, <1>2, <1>3, <1>4 DEF Quarantining

\* So do a drain and the end of a thread; disable and enable move nothing themselves.
LEMMA DrainQuiet ==
    ASSUME Blocked, NEW u \in Threads, Draining(u) \/ Exiting(u) \/ Blocking(u) PROVE Quiet
<1>1. ASSUME DrainCaches(u) \/ LockTSDs(u) \/ NextTSD(u) PROVE Quiet
    BY <1>1 DEF DrainCaches, Call, LockTSDs, NextTSD, Quiet, heapVars, quarantineVars
<1>2. ASSUME Flush(u) PROVE Quiet
  <2>1. /\ UNCHANGED <<unmapped, linked, quarantineVars>>
        /\ cache[job[u].tsd] = {} /\ free' = free \cup cache[job[u].tsd]
      BY <1>2 DEF Flush, Blocked
  <2>2. free' = free
      BY <2>1
  <2> QED
      BY <2>1, <2>2 DEF Quiet, quarantineVars
<1>3. ASSUME BeginExit(u) \/ NextRound(u) \/ TeardownThread(u) PROVE Quiet
    BY <1>3 DEF BeginExit, NextRound, TeardownThread, Quiet, heapVars, quarantineVars
<1>4. ~Unlink(u)
    BY DEF Unlink, UnlinkStats, Blocked
<1>5. ASSUME Blocking(u) PROVE Quiet
    BY <1>5 DEF Blocking, Disable, Call, Disabling, Enable, Quiet, heapVars, quarantineVars
<1> QED
    BY <1>1, <1>2, <1>3, <1>4, <1>5 DEF Draining, Exiting

\* Only enable ends the stage of a thread that disabled the allocator, and only three
\* steps that of one that is about to get a TSD.
LEMMA StageEnds ==
    ASSUME NEW u \in Threads, Action(u)
    PROVE  /\ pc[u] = "disabled" => Enable(u)
           /\ pc[u] = "take" => TakeOwn(u) \/ TakeFallback(u) \/ TakeCurrent(u)
<1>1. CASE Initialize(u)
    BY <1>1 DEF Initialize, InitOnce, AttachExclusive, AttachShared, At
<1>2. CASE GetTSD(u)
    BY <1>2 DEF GetTSD, TakeOwn, TakeFallback, LockFallback, TakeCurrent, TakeSlow,
                TakeCandidate, At
<1>3. CASE Allocate(u)
    BY <1>3 DEF Allocate, Malloc, Call, Pop, Map, At
<1>4. CASE Deallocate(u)
    BY <1>4 DEF Deallocate, Dealloc, Realloc, Call, Resize, Mark, Push, Unmap, At
<1>5. CASE Quarantining(u)
    BY <1>5 DEF Quarantining, Put, OutOfMemory, TransferCache, TryRecycle, LockRecycle,
                Recycle, UnlockRecycle, Scrub, At
<1>6. CASE Draining(u)
    BY <1>6 DEF Draining, DrainCaches, Call, LockTSDs, NextTSD, Flush, At
<1>7. CASE Exiting(u)
    BY <1>7 DEF Exiting, BeginExit, NextRound, TeardownThread, Unlink, At
<1>8. CASE Blocking(u)
  <2>1. CASE Disable(u) \/ Disabling(u)
      BY <2>1 DEF Disable, Call, Disabling, At
  <2>2. CASE Enable(u)
    <3>1. pc[u] = "disabled"
        BY <2>2 DEF Enable, At
    <3> QED
        BY <2>2, <3>1
  <2> QED
      BY <1>8, <2>1, <2>2 DEF Blocking
<1> QED
    BY <1>1, <1>2, <1>3, <1>4, <1>5, <1>6, <1>7, <1>8 DEF Action

\* Nobody else gets a TSD, be it the thread's own.
LEMMA NoneTaken ==
    ASSUME LockInv, NEW t \in Threads, pc[t] = "disabled",
           NEW u \in Threads \ {t}, pc[u] = "take", Action(u)
    PROVE  pc'[u] \in {"fallback", "slow"}
<1>1. /\ registry # "shared" => disabled
      /\ \A l \in RegistryLocks : ~Free(l)
    BY DisabledHolds, RankFacts DEF Free
<1>2. u \in DOMAIN pc
    BY DEF LockInv, LockTypes
<1>3. CASE TakeOwn(u)
    BY <1>1, <1>3 DEF TakeOwn
<1>4. CASE TakeFallback(u)
    BY <1>2, <1>4 DEF TakeFallback, Goto, Step
<1>5. CASE TakeCurrent(u)
  <2>1. registry = "shared" /\ current[u] \in RegistryLocks
      BY <1>5 DEF TakeCurrent, LockInv, Sound, Associated, NeedTSD, RegistryLocks
  <2>2. Goto(u, "slow")
      BY <1>1, <1>5, <2>1 DEF TakeCurrent, Acquire
  <2> QED
      BY <1>2, <2>2 DEF Goto, Step
<1> QED
    BY <1>3, <1>4, <1>5, StageEnds

\* What holds of a step while a thread has the allocator disabled.
Still ==
    (\E t \in Threads : At(t, "disabled") /\ At(t, "disabled")') =>
      /\ UNCHANGED <<free, unmapped, quarantine, linked>>
      /\ \A l \in Locks \ {"TSDs"} : lock'[l] = lock[l]
      /\ \A t \in Threads : At(t, "take") => pc'[t] \in {"take", "fallback", "slow"}

\* Every step of the code leaves the allocator still while a thread has it
\* disabled (combined.h:603): another thread's action cannot touch a lock it holds.
LEMMA StepIsStill == ASSUME LockInv, Next PROVE [Still]_vars
<1> SUFFICES ASSUME NEW t \in Threads, pc[t] = "disabled", pc'[t] = "disabled",
                    NEW u \in Threads, Action(u)
             PROVE  /\ Quiet
                    /\ \A l \in Locks \ {"TSDs"} : lock'[l] = lock[l]
                    /\ \A v \in Threads : pc[v] = "take" => pc'[v] \in {"take", "fallback", "slow"}
  <2>1. UNCHANGED vars \/ \E u \in Threads : Action(u)
      BY DEF Next, Over, Action
  <2> QED
      BY <2>1 DEF Still, Quiet, At
<1>1. u # t
  <2>1. ASSUME Enable(t) PROVE FALSE
      BY <2>1 DEF Enable, Return, Step, LockInv, LockTypes
  <2> QED
      BY <2>1, StageEnds
<1>2. Kept(u)
    BY ActionKeeps, AbortKeeps
<1>3. Quiet
    BY DisabledBlocks, StartQuiet, ClientQuiet, QuarantineQuiet, DrainQuiet DEF Action
<1>4. ASSUME NEW l \in Locks \ {"TSDs"}
      PROVE  lock'[l] = lock[l]
  <2>1. CASE l \in PartLocks \cup RegistryLocks
    <3>1. lock[l] = t
        BY <2>1, DisabledHolds
    <3> QED
        BY <1>1, <1>2, <3>1 DEF Kept, Touched
  <2>2. CASE l \notin PartLocks \cup RegistryLocks
    <3>1. lock[l] = NoThread /\ NoThread \notin Threads
        BY <2>2, RankFacts DEF LockInv, LockTypes
    <3>2. lock'[l] \in Threads \cup {NoThread} /\ lock'[l] # u
        BY <1>2, <2>2 DEF Kept, Touched
    <3>3. \A v \in Threads \ {u} : lock'[l] # v
        BY <1>2, <3>1 DEF Kept, Touched
    <3> QED
        BY <3>1, <3>2, <3>3
  <2> QED
      BY <2>1, <2>2
<1>5. ASSUME NEW v \in Threads, pc[v] = "take"
      PROVE  pc'[v] \in {"take", "fallback", "slow"}
  <2>1. CASE v = u
      BY <1>1, <1>5, <2>1, NoneTaken
  <2>2. CASE v # u
      BY <1>2, <1>5, <2>2 DEF Kept
  <2> QED
      BY <2>1, <2>2
<1> QED
    BY <1>3, <1>4, <1>5

\* While a thread has the allocator disabled, no call of another one moves a block, a
\* chunk of the global quarantine or the statistics of a TSD, takes or gives back a lock
\* but TSDs, or gets a TSD, its own included, whatever was under way before.
THEOREM DisableStopsAll == Spec => StillWhileDisabled
<1>1. LockInv /\ [Next]_vars => [Still]_vars
    BY StepIsStill
<1> QED
    BY <1>1, LockInvariant, PTL DEF Spec, StillWhileDisabled, Still

-----------------------------------------------------------------------------
(* What a thread that is gone leaves behind.                               *)

\* A thread that has a TSD of its own.
Owns(t) == registry # "shared" /\ initState[t] = "Initialized"

\* How many rounds of destructors its TSD has still to wait, and whether its destructor is
\* set for the next one or due in this one.
Ticking(t) ==
    \/ round[t] = 0 /\ key[t] = "set" /\ rounds[t] = Iterations
    \/ round[t] \in 1 .. Iterations /\ key[t] = "due" /\ rounds[t] = Iterations - round[t] + 1
    \/ round[t] \in 1 .. Iterations - 1 /\ key[t] = "set" /\ rounds[t] = Iterations - round[t]

\* The rounds of a thread fit those of its TSD, its key is set as long as commitBack is to
\* come, and a thread that is gone does nothing.
Timed(t) ==
    /\ round[t] \in 0 .. Iterations + 1
    /\ IF Owns(t) /\ job[t].op # "exit" THEN Ticking(t) ELSE key[t] = "unset"
    /\ job[t].op = "exit" => Owns(t) /\ round[t] \in 1 .. Iterations
    /\ Gone(t) => pc[t] \in {"idle", "aborted"} /\ job[t] = NoJob
    /\ pc[t] = "idle" => job[t] = NoJob
    /\ registry # "shared" =>
         /\ pc[t] = "attach" => round[t] = 0
         /\ pc[t] = "init" /\ job[t].op # "free" => round[t] = 0

\* A thread without a TSD of its own has nothing in it, unless it drains it right now, and one
\* in commitBack has emptied what commitBack is done with.
Clean(t) ==
    /\ ~Owns(t) =>
         /\ t \notin linked /\ pending[t] = EmptyCache
         /\ job[t].tsd = t => job[t].op = "drain"
         /\ job[t].tsd # t => cache[t] = {}
    /\ pc[t] \in {"init", "attach", "locktsds", "nexttsd"} => job[t].tsd = NoTSD
    /\ job[t].op = "exit" =>
         /\ pc[t] \notin {"transfer", "aborted"} => pending[t] = EmptyCache
         /\ pc[t] = "unlink" => cache[t] = {}

\* What the variables are functions of.
Shapes ==
    /\ registry \in {"exclusive", "shared"}
    /\ DOMAIN cache = AllTSDs /\ DOMAIN pending = AllTSDs
    /\ DOMAIN round = Threads /\ DOMAIN rounds = Threads

\* A step of another thread leaves those of this one alone, unless it aborts.
Stays(t) ==
    /\ registry' = registry /\ initState'[t] = initState[t] /\ key'[t] = key[t]
    /\ round'[t] = round[t] /\ rounds'[t] = rounds[t]
    /\ cache'[t] = cache[t] /\ pending'[t] = pending[t]
    /\ t \in linked' <=> t \in linked
    /\ job'[t] = job[t] /\ pc'[t] \in {pc[t], "aborted"}

\* Where nothing of a thread changes, its part of the invariant stays.
LEMMA StaysKeeps ==
    ASSUME NEW t \in Threads, Timed(t), Clean(t), Stays(t) PROVE Timed(t)' /\ Clean(t)'
<1>1. Owns(t)' = Owns(t) /\ Gone(t)' = Gone(t) /\ Ticking(t)' = Ticking(t)
    BY DEF Stays, Owns, Gone, Ticking
<1>2. Timed(t)'
    BY <1>1 DEF Stays, Timed
<1>3. Clean(t)'
    BY <1>1 DEF Stays, Clean
<1> QED
    BY <1>2, <1>3

\* A step moves its own thread only.
LEMMA StepAt ==
    ASSUME LockInv, NEW t \in Threads, NEW stage, NEW work, Step(t, stage, work)
    PROVE  /\ pc'[t] = stage /\ job'[t] = work
           /\ \A u \in Threads \ {t} : pc'[u] = pc[u] /\ job'[u] = job[u]
BY DEF LockInv, LockTypes, Step

\* What a step of u leaves alone, if it has the TSD in hand at most.
Local(u) ==
    /\ registry' = registry
    /\ \A t \in Threads \ {u} :
         /\ initState'[t] = initState[t] /\ key'[t] = key[t]
         /\ round'[t] = round[t] /\ rounds'[t] = rounds[t]
         /\ t \in linked' <=> t \in linked
    /\ \A t \in AllTSDs \ {u} :
         \/ pc[u] \in InHand /\ job[u].tsd = t
         \/ cache'[t] = cache[t] /\ pending'[t] = pending[t]
    /\ \A t \in Threads \ {u} : pc'[t] \in {pc[t], "aborted"} /\ job'[t] = job[t]
    /\ Shapes'

\* The steps of u that get it a TSD.
LEMMA StartLocal ==
    ASSUME LockInv, Shapes, NEW u \in Threads, Initialize(u) \/ GetTSD(u) PROVE Local(u)
<1>0. Threads \cap (TSDs \ Threads) = {}
    OBVIOUS
<1>1. ASSUME InitOnce(u) PROVE Local(u)
    BY <1>0, <1>1, StepAt DEF InitOnce, Goto, LinkStats, Local, Shapes, threadVars, quarantineVars
<1>2. ASSUME AttachExclusive(u) PROVE Local(u)
    BY <1>2, StepAt DEF AttachExclusive, Goto, LinkStats, Local, Shapes, LockInv, LockTypes,
                 registryVars, quarantineVars
<1>3. ASSUME AttachShared(u) PROVE Local(u)
    BY <1>3, StepAt DEF AttachShared, Goto, Local, Shapes, LockInv, LockTypes, registryVars,
                        heapVars, quarantineVars
<1>4. ASSUME GetTSD(u) PROVE Local(u)
  <2>1. UNCHANGED <<registry, initState, rounds, key, round, heapVars, quarantineVars>>
      BY <1>4 DEF GetTSD, TakeOwn, TakeFallback, LockFallback, TakeCurrent, TakeSlow,
                  TakeCandidate, registryVars, threadVars
  <2>2. \E stage, work : Step(u, stage, work)
      BY <1>4 DEF GetTSD, TakeOwn, TakeFallback, LockFallback, TakeCurrent, TakeSlow,
                  TakeCandidate, Goto, Take
  <2> QED
      BY <2>1, <2>2, StepAt DEF Local, Shapes, heapVars, quarantineVars
<1> QED
    BY <1>1, <1>2, <1>3, <1>4 DEF Initialize

\* A step that leaves the threads' state, the caches and the quarantines alone.
LEMMA StillLocal ==
    ASSUME LockInv, Shapes, NEW u \in Threads, NEW stage, NEW work, Step(u, stage, work),
           registry' = registry,
           UNCHANGED <<initState, rounds, key, round, cache, pending, linked>>
    PROVE  Local(u)
BY StepAt DEF Local, Shapes

\* One that fills or empties the cache of the TSD in hand.
LEMMA StockLocal ==
    ASSUME LockInv, Shapes, NEW u \in Threads, NEW stage, NEW work, Step(u, stage, work),
           pc[u] \in InHand, registry' = registry,
           UNCHANGED <<initState, rounds, key, round, linked>>,
           \/ cache' = cache
           \/ \E stock : cache' = [cache EXCEPT ![job[u].tsd] = stock],
           \/ pending' = pending
           \/ \E part : pending' = [pending EXCEPT ![job[u].tsd] = part]
    PROVE  Local(u)
<1>1. /\ DOMAIN cache' = AllTSDs /\ DOMAIN pending' = AllTSDs
      /\ \A t \in AllTSDs : job[u].tsd = t \/ (cache'[t] = cache[t] /\ pending'[t] = pending[t])
    BY DEF Shapes
<1> QED
    BY <1>1, StepAt DEF Local, Shapes

\* Those of allocate and deallocate.
LEMMA ClientLocal ==
    ASSUME LockInv, Shapes, NEW u \in Threads, Allocate(u) \/ Deallocate(u) PROVE Local(u)
<1>1. ASSUME Malloc(u) \/ Dealloc(u) \/ Realloc(u) PROVE Local(u)
  <2>1. \E stage, work : Step(u, stage, work)
      BY <1>1 DEF Malloc, Dealloc, Realloc, Call
  <2> QED
      BY <1>1, <2>1, StillLocal DEF Malloc, Dealloc, Realloc, Call, registryVars, threadVars,
                                    heapVars, quarantineVars
<1>2. ASSUME Pop(u) PROVE Local(u)
  <2>1. \E stage, work : Step(u, stage, work)
      BY <1>2 DEF Pop, InitChunk, Return
  <2>2. cache' = cache \/ \E acc : SetStock(u, acc)
      BY <1>2 DEF Pop
  <2>3. /\ UNCHANGED <<initState, rounds, key, round, linked, pending>> /\ registry' = registry
        /\ pc[u] \in InHand
      BY <1>2 DEF Pop, registryVars, threadVars, quarantineVars, At, InHand
  <2> QED
      BY <2>1, <2>2, <2>3, StockLocal DEF SetStock
<1>3. ASSUME Map(u) PROVE Local(u)
  <2>1. \E stage, work : Step(u, stage, work)
      BY <1>3 DEF Map, InitChunk, Return
  <2> QED
      BY <1>3, <2>1, StillLocal DEF Map, registryVars, threadVars, quarantineVars
<1>4. ASSUME Resize(u) \/ Mark(u) PROVE Local(u)
  <2>1. \E stage, work : Step(u, stage, work)
      BY <1>4 DEF Resize, Mark, Return, Goto
  <2> QED
      BY <1>4, <2>1, StillLocal DEF Resize, Mark, registryVars, threadVars, heapVars,
                                    quarantineVars
<1>5. ASSUME Push(u) PROVE Local(u)
  <2>1. /\ \E stage, work : Step(u, stage, work)
        /\ \E acc : SetStock(u, acc)
      BY <1>5 DEF Push, Finish, Return
  <2>2. /\ UNCHANGED <<initState, rounds, key, round, linked, pending>> /\ registry' = registry
        /\ pc[u] \in InHand
      BY <1>5 DEF Push, registryVars, threadVars, quarantineVars, At, InHand
  <2> QED
      BY <2>1, <2>2, StockLocal DEF SetStock
<1>6. ASSUME Unmap(u) PROVE Local(u)
  <2>1. \E stage, work : Step(u, stage, work)
      BY <1>6 DEF Unmap, Finish, Return
  <2> QED
      BY <1>6, <2>1, StillLocal DEF Unmap, registryVars, threadVars, quarantineVars
<1> QED
    BY <1>1, <1>2, <1>3, <1>4, <1>5, <1>6 DEF Allocate, Deallocate

\* The quarantine ends at some stage.
LEMMA EndsSomewhere ==
    ASSUME NEW u, NEW locks, EndQuarantine(u, locks) PROVE \E stage, work : Step(u, stage, work)
BY DEF EndQuarantine, Finish, Return

\* Those of the quarantine.
LEMMA QuarantineLocal ==
    ASSUME LockInv, Shapes, NEW u \in Threads, Quarantining(u) PROVE Local(u)
<1>1. ASSUME Put(u) PROVE Local(u)
  <2>1. \E stage, work : Step(u, stage, work)
      BY <1>1, EndsSomewhere DEF Put, Goto
  <2>2. cache' = cache \/ \E acc : SetStock(u, acc)
      BY <1>1 DEF Put
  <2>3. /\ UNCHANGED <<initState, rounds, key, round, linked>> /\ registry' = registry
        /\ pc[u] \in InHand
      BY <1>1 DEF Put, registryVars, threadVars, At, InHand
  <2>4. \E part : pending' = [pending EXCEPT ![job[u].tsd] = part]
      BY <1>1 DEF Put
  <2> QED
      BY <2>1, <2>2, <2>3, <2>4, StockLocal DEF SetStock
<1>2. ASSUME OutOfMemory(u) PROVE Local(u)
    BY <1>2 DEF OutOfMemory, Local, Shapes, registryVars, threadVars, heapVars, quarantineVars
<1>3. ASSUME TransferCache(u) PROVE Local(u)
  <2>1. \E stage, work : Step(u, stage, work)
      BY <1>3, EndsSomewhere DEF TransferCache, Goto
  <2>2. /\ UNCHANGED <<initState, rounds, key, round, linked, cache>> /\ registry' = registry
        /\ pc[u] \in InHand
      BY <1>3 DEF TransferCache, registryVars, threadVars, heapVars, At, InHand
  <2>3. \E part : pending' = [pending EXCEPT ![job[u].tsd] = part]
      BY <1>3 DEF TransferCache
  <2> QED
      BY <2>1, <2>2, <2>3, StockLocal
<1>4. ASSUME TryRecycle(u) \/ LockRecycle(u) \/ UnlockRecycle(u) PROVE Local(u)
  <2>1. \E stage, work : Step(u, stage, work)
      BY <1>4, EndsSomewhere DEF TryRecycle, LockRecycle, UnlockRecycle, Goto
  <2> QED
      BY <1>4, <2>1, StillLocal DEF TryRecycle, LockRecycle, UnlockRecycle, registryVars,
                                    threadVars, heapVars, quarantineVars
<1>5. ASSUME Recycle(u) PROVE Local(u)
    BY <1>5, StillLocal DEF Recycle, registryVars, threadVars, heapVars
<1>6. ASSUME Scrub(u) PROVE Local(u)
  <2>1. /\ \E stage, work : Step(u, stage, work)
        /\ \E acc : SetStock(u, acc)
      BY <1>6, EndsSomewhere DEF Scrub
  <2>2. /\ UNCHANGED <<initState, rounds, key, round, linked, pending>> /\ registry' = registry
        /\ pc[u] \in InHand
      BY <1>6 DEF Scrub, registryVars, threadVars, quarantineVars, At, InHand
  <2> QED
      BY <2>1, <2>2, StockLocal DEF SetStock
<1> QED
    BY <1>1, <1>2, <1>3, <1>4, <1>5, <1>6 DEF Quarantining

\* Those of a drain, of the end of a thread, and of disable.
LEMMA EndLocal ==
    ASSUME LockInv, Shapes, NEW u \in Threads, Draining(u) \/ Exiting(u) \/ Blocking(u)
    PROVE  Local(u)
<1>1. ASSUME DrainCaches(u) \/ LockTSDs(u) \/ NextTSD(u) PROVE Local(u)
  <2>1. \E stage, work : Step(u, stage, work)
      BY <1>1 DEF DrainCaches, Call, LockTSDs, NextTSD, Goto, Return
  <2> QED
      BY <1>1, <2>1, StillLocal DEF DrainCaches, Call, LockTSDs, NextTSD, registryVars, threadVars,
                                    heapVars, quarantineVars
<1>2. ASSUME Flush(u) PROVE Local(u)
  <2>1. /\ \E stage, work : Step(u, stage, work)
        /\ cache' = [cache EXCEPT ![job[u].tsd] = {}]
      BY <1>2 DEF Flush, Goto
  <2>2. /\ UNCHANGED <<initState, rounds, key, round, linked, pending>> /\ registry' = registry
        /\ pc[u] \in InHand
      BY <1>2 DEF Flush, registryVars, threadVars, quarantineVars, At, InHand
  <2> QED
      BY <2>1, <2>2, StockLocal
<1>3. ASSUME BeginExit(u) \/ NextRound(u) PROVE Local(u)
    BY <1>3 DEF BeginExit, NextRound, Local, Shapes, LockInv, LockTypes, registryVars, heapVars,
                quarantineVars, callVars
<1>4. ASSUME TeardownThread(u) PROVE Local(u)
  <2>1. \/ UNCHANGED <<pc, job>>
        \/ \E stage, work : Step(u, stage, work)
      BY <1>4 DEF TeardownThread, callVars
  <2>2. \A t \in Threads \ {u} : pc'[t] = pc[t] /\ job'[t] = job[t]
      BY <2>1, StepAt
  <2> QED
      BY <1>4, <2>2 DEF TeardownThread, Local, Shapes, LockInv, LockTypes, registryVars, heapVars,
                        quarantineVars
<1>5. ASSUME Unlink(u) PROVE Local(u)
    BY <1>5, StepAt DEF Unlink, UnlinkStats, Return, Local, Shapes, LockInv, LockTypes,
                        registryVars, quarantineVars
<1>6. ASSUME Blocking(u) PROVE Local(u)
  <2>1. \E stage, work : Step(u, stage, work)
      BY <1>6 DEF Blocking, Disable, Call, Disabling, Enable, Return
  <2> QED
      BY <1>6, <2>1, StillLocal DEF Blocking, Disable, Call, Disabling, Enable, registryVars,
                                    threadVars, heapVars, quarantineVars
<1> QED
    BY <1>1, <1>2, <1>3, <1>4, <1>5, <1>6 DEF Draining, Exiting

\* Nobody has the TSD of another thread in hand.
LEMMA OthersStay ==
    ASSUME LockInv, Shapes, NEW u \in Threads, Action(u), NEW t \in Threads \ {u}
    PROVE  Stays(t) /\ Shapes'
<1>1. Local(u)
    BY StartLocal, ClientLocal, QuarantineLocal, EndLocal DEF Action
<1>2. ~(pc[u] \in InHand /\ job[u].tsd = t)
    BY InHandFacts
<1> QED
    BY <1>1, <1>2 DEF Local, Stays, AllTSDs

-----------------------------------------------------------------------------
(* The thread that makes the step.                                         *)

\* Nothing changes in the state of the thread itself.
Calm(t) ==
    /\ registry' = registry /\ initState'[t] = initState[t] /\ key'[t] = key[t]
    /\ round'[t] = round[t] /\ rounds'[t] = rounds[t]
    /\ t \in linked' <=> t \in linked

\* A call goes on at a later stage, or returns.
LEMMA CalmKeeps ==
    ASSUME LockInv, NEW t \in Threads, Timed(t), Clean(t), Calm(t), ~Gone(t),
           NEW stage, NEW work, Step(t, stage, work),
           work.op = "exit" <=> job[t].op = "exit",
           stage = "idle" => work = NoJob,
           stage \notin {"init", "attach"},
           stage \in {"locktsds", "nexttsd"} => work.tsd = NoTSD,
           ~Owns(t) => /\ pending'[t] = EmptyCache
                       /\ work.tsd = t => work.op = "drain"
                       /\ work.tsd # t => cache'[t] = {},
           work.op = "exit" => /\ stage # "transfer" => pending'[t] = EmptyCache
                               /\ stage = "unlink" => cache'[t] = {}
    PROVE  Timed(t)' /\ Clean(t)'
<1>1. pc'[t] = stage /\ job'[t] = work
    BY StepAt
<1>2. Owns(t)' = Owns(t) /\ Gone(t)' = Gone(t) /\ Ticking(t)' = Ticking(t)
    BY DEF Calm, Owns, Gone, Ticking
<1>3. Timed(t)'
    BY <1>1, <1>2 DEF Timed, Calm
<1>4. Clean(t)'
    BY <1>1, <1>2 DEF Clean, Calm
<1> QED
    BY <1>3, <1>4

\* A call is under way.
LEMMA Busy ==
    ASSUME NEW t \in Threads, Timed(t), pc[t] \notin {"idle", "aborted"} PROVE ~Gone(t)
BY DEF Timed

\* A step of malloc, free or realloc, which works with the thread's own TSD if it has one and
\* with no other that a thread owns.
LEMMA ClientStep ==
    ASSUME LockInv, NEW t \in Threads, Timed(t), Clean(t), Calm(t),
           pc[t] \notin {"idle", "aborted"}, job[t].op \notin {"drain", "exit"},
           NEW stage, NEW work, Step(t, stage, work),
           stage \notin {"init", "attach", "locktsds", "nexttsd"},
           \/ work = NoJob
           \/ stage # "idle" /\ work.op = job[t].op,
           work.tsd = t => Owns(t),
           job[t].tsd = t \/ (cache'[t] = cache[t] /\ pending'[t] = pending[t])
    PROVE  Timed(t)' /\ Clean(t)'
<1>1. job[t].tsd = t => Owns(t)
    BY DEF Clean
<1>2. work.op # "exit" /\ job[t].op # "exit"
    BY NoJobFacts
<1>3. ~Owns(t) => pending'[t] = EmptyCache /\ cache'[t] = {}
    BY <1>1 DEF Clean
<1> QED
    BY <1>1, <1>2, <1>3, Busy, CalmKeeps

\* The stages that a call may begin with.
LEMMA FirstStageOf ==
    ASSUME NEW op \in ClientOps \cup {"drain", "disable"}, NEW work
    PROVE  /\ FirstStage(op, work) \in {"take", "map", "mark", "resize", "locktsds", "nexttsd",
                                        "disabling"}
           /\ op \in ClientOps => FirstStage(op, work) \in {"take", "map", "mark", "resize"}
BY DEF FirstStage, ClientOps

\* initThread gives the thread its TSD while the thread runs, with all rounds before it.
LEMMA InitializeClean ==
    ASSUME LockInv, Shapes, NEW t \in Threads, Timed(t), Clean(t), Initialize(t)
    PROVE  Timed(t)' /\ Clean(t)'
<1>1. ASSUME InitOnce(t) PROVE Timed(t)' /\ Clean(t)'
  <2>1. /\ pc[t] = "init" /\ Calm(t) /\ UNCHANGED <<cache, pending>>
        /\ Goto(t, IF job[t].op = "free" /\ registry = "exclusive" THEN "mark" ELSE "attach")
      BY <1>1 DEF InitOnce, LinkStats, Calm, threadVars, quarantineVars, At
  <2>2. job[t].op \in ClientOps \cup {"drain", "disable"} /\ job[t].tsd = NoTSD /\ NoTSD # t
      BY <2>1, FitAt, RankFacts DEF Fit, Clean, NoTSD
  <2>3. job'[t] = job[t]
        /\ pc'[t] = IF job[t].op = "free" /\ registry = "exclusive" THEN "mark" ELSE "attach"
      BY <2>1, StepAt DEF Goto
  <2>4. Owns(t)' = Owns(t) /\ Gone(t)' = Gone(t) /\ Ticking(t)' = Ticking(t)
      BY <2>1 DEF Calm, Owns, Gone, Ticking
  <2>5. registry # "shared" => registry = "exclusive"
      BY DEF Shapes
  <2>6. Timed(t)'
      BY <2>1, <2>2, <2>3, <2>4, <2>5, Busy DEF Timed, Calm
  <2>7. Clean(t)'
      BY <2>1, <2>2, <2>3, <2>4 DEF Clean, Calm
  <2> QED
      BY <2>6, <2>7
<1>2. ASSUME AttachExclusive(t) PROVE Timed(t)' /\ Clean(t)'
  <2>1. /\ pc[t] = "attach" /\ registry = "exclusive" /\ registry' = registry /\ round' = round
        /\ Goto(t, FirstStage(job[t].op, job[t])) /\ round[t] = 0
        /\ initState'[t] = "Initialized" /\ rounds'[t] = Iterations /\ key'[t] = "set"
      BY <1>2 DEF AttachExclusive, At, registryVars, Timed, LockInv, LockTypes, Shapes
  <2>2. job[t].op \in ClientOps \cup {"drain", "disable"} /\ job[t].tsd = NoTSD
      BY <2>1, FitAt DEF Fit, Clean
  <2>3. /\ pc'[t] \in {"take", "map", "mark", "resize", "locktsds", "nexttsd", "disabling"}
        /\ job'[t] = job[t]
      BY <2>1, <2>2, StepAt, FirstStageOf DEF Goto
  <2>4. Owns(t)' /\ ~Gone(t)' /\ Ticking(t)' /\ job[t].op # "exit"
      BY <2>1, <2>2, FrontendAssumption DEF Owns, Gone, Ticking, FrontendAssumption, ClientOps
  <2>5. Timed(t)'
      BY <2>1, <2>3, <2>4 DEF Timed
  <2>6. Clean(t)'
      BY <2>2, <2>3, <2>4 DEF Clean
  <2> QED
      BY <2>5, <2>6
<1>3. ASSUME AttachShared(t) PROVE Timed(t)' /\ Clean(t)'
  <2>1. /\ pc[t] = "attach" /\ registry = "shared" /\ registry' = registry
        /\ UNCHANGED <<key, round, rounds, cache, pending, linked>>
        /\ Goto(t, FirstStage(job[t].op, job[t]))
      BY <1>3 DEF AttachShared, At, registryVars, heapVars, quarantineVars
  <2>2. job[t].op \in ClientOps \cup {"drain", "disable"} /\ job[t].tsd = NoTSD /\ NoTSD # t
      BY <2>1, FitAt, RankFacts DEF Fit, Clean, NoTSD
  <2>3. /\ pc'[t] \in {"take", "map", "mark", "resize", "locktsds", "nexttsd", "disabling"}
        /\ job'[t] = job[t]
      BY <2>1, <2>2, StepAt, FirstStageOf DEF Goto
  <2>4. ~Owns(t)' /\ ~Owns(t) /\ Gone(t)' = Gone(t) /\ job[t].op # "exit"
      BY <2>1, <2>2 DEF Owns, Gone, ClientOps
  <2>5. Timed(t)'
      BY <2>1, <2>3, <2>4, Busy DEF Timed
  <2>6. Clean(t)'
      BY <2>1, <2>2, <2>3, <2>4 DEF Clean
  <2> QED
      BY <2>5, <2>6
<1> QED
    BY <1>1, <1>2, <1>3 DEF Initialize

\* A step that takes a TSD leads to its use.
LEMMA UseStage == ASSUME NEW t PROVE UseOf(t) \in {"pop", "put", "push"}
BY DEF UseOf

\* A TSD is taken: the thread's own only if it has one.
LEMMA TakeClean ==
    ASSUME LockInv, NEW t \in Threads, Timed(t), Clean(t), Calm(t),
           UNCHANGED <<cache, pending>>, pc[t] \in NeedTSD, NEW tsd, Take(t, tsd),
           tsd = t => Owns(t)
    PROVE  Timed(t)' /\ Clean(t)'
<1>1. Step(t, UseOf(t), WithTSD(job[t], tsd)) /\ job[t].op \in ClientOps
    BY FitAt DEF Take, WithTSD
<1>2. WithTSD(job[t], tsd).op = job[t].op /\ WithTSD(job[t], tsd).tsd = tsd
    BY FitAt, JobFacts
<1>3. pc[t] \notin {"idle", "aborted"} /\ job[t].op \notin {"drain", "exit"}
    BY <1>1 DEF NeedTSD, ClientOps
<1> QED
    BY <1>1, <1>2, <1>3, UseStage, ClientStep

\* getTSDAndLock.
LEMMA GetTSDClean ==
    ASSUME LockInv, Shapes, NEW t \in Threads, Timed(t), Clean(t), GetTSD(t)
    PROVE  Timed(t)' /\ Clean(t)'
<1>1. Calm(t) /\ UNCHANGED <<cache, pending>>
    BY DEF GetTSD, TakeOwn, TakeFallback, LockFallback, TakeCurrent, TakeSlow, TakeCandidate,
           Calm, threadVars, heapVars, quarantineVars, registryVars
<1>2. pc[t] \in {"take", "fallback", "slow", "await"} /\ pc[t] \in NeedTSD
    BY DEF GetTSD, TakeOwn, TakeFallback, LockFallback, TakeCurrent, TakeSlow, TakeCandidate,
           At, NeedTSD
<1>3. job[t].op \notin {"drain", "exit"} /\ pc[t] \notin {"idle", "aborted"}
    BY <1>2, FitAt DEF ClientOps
<1>4. job[t].tsd = t => Owns(t)
    BY <1>3 DEF Clean
<1>5. \A tsd \in {FallbackTSD} \cup SharedTSDs : tsd # t
    BY RankFacts DEF TSDLocks
<1>6. ASSUME TakeOwn(t) PROVE Timed(t)' /\ Clean(t)'
  <2>1. Owns(t) /\ Take(t, t)
      BY <1>6 DEF TakeOwn, Owns
  <2> QED
      BY <1>1, <1>2, <2>1, TakeClean
<1>7. ASSUME NEW stage \in {"fallback", "slow"}, Goto(t, stage) PROVE Timed(t)' /\ Clean(t)'
    BY <1>1, <1>3, <1>4, <1>7, ClientStep DEF Goto
<1>8. ASSUME LockFallback(t) PROVE Timed(t)' /\ Clean(t)'
    BY <1>1, <1>2, <1>5, <1>8, TakeClean DEF LockFallback
<1>9. ASSUME TakeCurrent(t) PROVE Timed(t)' /\ Clean(t)'
  <2>1. current[t] # t
      BY <1>5, RankFacts DEF LockInv, LockTypes, NoTSD
  <2> QED
      BY <1>1, <1>2, <1>7, <1>9, <2>1, TakeClean DEF TakeCurrent
<1>10. ASSUME TakeSlow(t) PROVE Timed(t)' /\ Clean(t)'
  <2>1. PICK tsd \in SharedTSDs :
          Take(t, tsd) \/ Step(t, "await", WithTSD(job[t], tsd))
      BY <1>10 DEF TakeSlow, Candidates, WithTSD
  <2>2. WithTSD(job[t], tsd).op = job[t].op /\ WithTSD(job[t], tsd).tsd = tsd
      BY FitAt, JobFacts
  <2>3. CASE Take(t, tsd)
      BY <1>1, <1>2, <1>5, <2>3, TakeClean
  <2>4. CASE Step(t, "await", WithTSD(job[t], tsd))
      BY <1>1, <1>3, <1>5, <2>2, <2>4, ClientStep
  <2> QED
      BY <2>1, <2>3, <2>4
<1>11. ASSUME TakeCandidate(t) PROVE Timed(t)' /\ Clean(t)'
    BY <1>1, <1>2, <1>4, <1>11, TakeClean DEF TakeCandidate
<1> QED
    BY <1>6, <1>7, <1>8, <1>9, <1>10, <1>11 DEF GetTSD, TakeFallback

\* A new call: the first of an exiting thread is not one that would initialize it.
LEMMA CallClean ==
    ASSUME LockInv, Shapes, NEW t \in Threads, Timed(t), Clean(t),
           NEW op \in ClientOps \cup {"drain", "disable"}, NEW p, NEW todo, Call(t, op, p, todo),
           op = "free" \/ round[t] = 0 \/ initState[t] # "NotInitialized"
    PROVE  Timed(t)' /\ Clean(t)'
<1>1. PICK c \in calls[t] :
        LET work == NewJob(op, c.size, c.align, p, todo)
        IN  Step(t, IF initState[t] = "NotInitialized" THEN "init" ELSE FirstStage(op, work), work)
    BY DEF Call, NewJob
<1> DEFINE work == NewJob(op, c.size, c.align, p, todo)
           stage == IF initState[t] = "NotInitialized" THEN "init" ELSE FirstStage(op, work)
<1>2. /\ pc[t] = "idle" /\ ~Gone(t) /\ Calm(t) /\ UNCHANGED <<cache, pending>>
    BY DEF Call, At, Calm, registryVars, threadVars, heapVars, quarantineVars
<1>3. job[t] = NoJob /\ NoJob.op = "none" /\ NoJob.tsd = NoTSD /\ NoTSD # t
    BY <1>2, NoJobFacts, RankFacts DEF Timed, NoTSD
<1>4. work.tsd = NoTSD /\ work.op = op /\ op # "exit"
    BY CallFacts DEF ClientOps
<1>5. \/ stage = "init" /\ initState[t] = "NotInitialized"
      \/ stage \in {"take", "map", "mark", "resize", "locktsds", "nexttsd", "disabling"}
    BY FirstStageOf
<1>6. pc'[t] = stage /\ job'[t] = work
    BY <1>1, StepAt
<1> HIDE DEF work, stage
<1>7. Owns(t)' = Owns(t) /\ Gone(t)' = Gone(t) /\ Ticking(t)' = Ticking(t)
    BY <1>2 DEF Calm, Owns, Gone, Ticking
<1>8. Timed(t)'
    BY <1>2, <1>3, <1>4, <1>5, <1>6, <1>7 DEF Timed, Calm
<1>9. Clean(t)'
    BY <1>2, <1>3, <1>4, <1>5, <1>6, <1>7 DEF Clean, Calm
<1> QED
    BY <1>8, <1>9

\* The calls of the program.
LEMMA CallsClean ==
    ASSUME LateInit = FALSE, LockInv, Shapes, NEW t \in Threads, Timed(t), Clean(t),
           Malloc(t) \/ Dealloc(t) \/ Realloc(t) \/ DrainCaches(t) \/ Disable(t)
    PROVE  Timed(t)' /\ Clean(t)'
<1>1. CASE Malloc(t)
    BY <1>1, CallClean DEF Malloc, MayInit, ClientOps
<1>2. CASE Dealloc(t)
    BY <1>2, CallClean DEF Dealloc, ClientOps
<1>3. CASE Realloc(t)
    BY <1>3, CallClean DEF Realloc, MayInit, ClientOps
<1>4. CASE DrainCaches(t)
    BY <1>4, CallClean DEF DrainCaches, MayInit
<1>5. CASE Disable(t)
    BY <1>5, CallClean DEF Disable
<1> QED
    BY <1>1, <1>2, <1>3, <1>4, <1>5

\* The TSD in hand is the only one that a step changes.
LEMMA HandOnly ==
    ASSUME Shapes, NEW t \in Threads,
           \/ cache' = cache
           \/ \E stock : cache' = [cache EXCEPT ![job[t].tsd] = stock],
           \/ pending' = pending
           \/ \E part : pending' = [pending EXCEPT ![job[t].tsd] = part]
    PROVE  job[t].tsd = t \/ (cache'[t] = cache[t] /\ pending'[t] = pending[t])
BY DEF Shapes, AllTSDs

\* allocate ends, or goes on without a TSD.
LEMMA InitChunkStep ==
    ASSUME LockInv, NEW t \in Threads, NEW block, NEW classId, InitChunk(t, block, classId)
    PROVE  \E stage, work : /\ Step(t, stage, work)
                            /\ \/ stage = "idle" /\ work = NoJob
                               \/ stage = "mark" /\ work.tsd = NoTSD /\ work.op = job[t].op
<1> DEFINE p == UserPtr(block, job[t].align)
<1>1. \/ Step(t, "idle", NoJob)
      \/ Step(t, "mark", WithResult(job[t], NoTSD, p))
    BY DEF InitChunk, Return, WithResult
<1>2. WithResult(job[t], NoTSD, p).tsd = NoTSD /\ WithResult(job[t], NoTSD, p).op = job[t].op
    BY FitAt, JobFacts
<1> QED
    BY <1>1, <1>2

\* allocate and deallocate.
LEMMA ClientClean ==
    ASSUME LateInit = FALSE, LockInv, Shapes, NEW t \in Threads, Timed(t), Clean(t),
           Allocate(t) \/ Deallocate(t)
    PROVE  Timed(t)' /\ Clean(t)'
<1>0. CASE Malloc(t) \/ Dealloc(t) \/ Realloc(t)
    BY <1>0, CallsClean
<1> SUFFICES ASSUME Pop(t) \/ Map(t) \/ Resize(t) \/ Mark(t) \/ Push(t) \/ Unmap(t)
             PROVE  Timed(t)' /\ Clean(t)'
    BY <1>0 DEF Allocate, Deallocate
<1>1. /\ pc[t] \in {"pop", "map", "resize", "mark", "push", "unmap"} /\ pc[t] \in NeedTSD
      /\ Calm(t)
    BY DEF Pop, Map, Resize, Mark, Push, Unmap, At, NeedTSD, Calm, registryVars, threadVars,
           heapVars
<1>2. /\ job[t].op \notin {"drain", "exit"} /\ pc[t] \notin {"idle", "aborted"}
      /\ NoTSD # t /\ NoJob.tsd = NoTSD
    BY <1>1, FitAt, NoJobFacts, RankFacts DEF NoTSD, ClientOps
<1>3. job[t].tsd = t => Owns(t)
    BY <1>2 DEF Clean
<1>4. ASSUME Pop(t) PROVE Timed(t)' /\ Clean(t)'
  <2>1. pending' = pending
      BY <1>4 DEF Pop, quarantineVars
  <2>2. cache' = cache \/ \E acc : SetStock(t, acc)
      BY <1>4 DEF Pop
  <2>3. job[t].tsd = t \/ (cache'[t] = cache[t] /\ pending'[t] = pending[t])
      BY <2>1, <2>2, HandOnly DEF SetStock
  <2>4. \/ Step(t, "map", WithTSD(job[t], NoTSD))
        \/ \E block, classId : InitChunk(t, block, classId)
      BY <1>4 DEF Pop, WithTSD
  <2>5. WithTSD(job[t], NoTSD).tsd = NoTSD /\ WithTSD(job[t], NoTSD).op = job[t].op
      BY FitAt, JobFacts
  <2>6. \E stage, work : /\ Step(t, stage, work)
                         /\ \/ stage = "idle" /\ work = NoJob
                            \/ /\ stage \in {"map", "mark"}
                               /\ work.tsd = NoTSD /\ work.op = job[t].op
      BY <2>4, <2>5, InitChunkStep
  <2> QED
      BY <1>1, <1>2, <2>3, <2>6, ClientStep
<1>5. ASSUME Map(t) PROVE Timed(t)' /\ Clean(t)'
  <2>1. UNCHANGED <<cache, pending>>
      BY <1>5 DEF Map, quarantineVars
  <2>2. Step(t, "idle", NoJob) \/ \E block, classId : InitChunk(t, block, classId)
      BY <1>5 DEF Map, Return
  <2> QED
      BY <1>1, <1>2, <2>1, <2>2, InitChunkStep, ClientStep
<1>6. ASSUME Resize(t) \/ Mark(t) \/ Unmap(t) PROVE Timed(t)' /\ Clean(t)'
  <2>1. UNCHANGED <<cache, pending>>
      BY <1>6 DEF Resize, Mark, Unmap, heapVars, quarantineVars
  <2>2. FirstStage("malloc", job[t]) \in {"take", "map", "mark", "resize"}
      BY FirstStageOf DEF ClientOps
  <2>3. \/ Step(t, "idle", NoJob)
        \/ \E stage \in {"take", "map", "mark", "resize", "unmap"} : Step(t, stage, job[t])
      BY <1>6, <2>2 DEF Resize, Mark, Unmap, Return, Goto, Finish
  <2> QED
      BY <1>1, <1>2, <1>3, <2>1, <2>3, ClientStep
<1>7. ASSUME Push(t) PROVE Timed(t)' /\ Clean(t)'
  <2>1. pending' = pending /\ \E acc : SetStock(t, acc)
      BY <1>7 DEF Push, quarantineVars
  <2>2. job[t].tsd = t \/ (cache'[t] = cache[t] /\ pending'[t] = pending[t])
      BY <2>1, HandOnly DEF SetStock
  <2>3. Step(t, "idle", NoJob)
      BY <1>7 DEF Push, Finish, Return
  <2> QED
      BY <1>1, <1>2, <2>2, <2>3, ClientStep
<1> QED
    BY <1>4, <1>5, <1>6, <1>7

\* A step of the quarantine: what it does to the TSD in hand is what a drain, an exit or the owner
\* may do.
LEMMA InHandStep ==
    ASSUME LockInv, NEW t \in Threads, Timed(t), Clean(t), Calm(t), pc[t] \in InHand,
           NEW stage, NEW work, Step(t, stage, work),
           stage \notin {"init", "attach", "locktsds", "nexttsd", "unlink"},
           \/ work = NoJob /\ job[t].op \notin {"drain", "exit"}
           \/ stage # "idle" /\ work.op = job[t].op /\ work.tsd = job[t].tsd,
           job[t].tsd = t \/ (cache'[t] = cache[t] /\ pending'[t] = pending[t]),
           pending'[t] \in {pending[t], EmptyCache} \/ job[t].op \notin {"drain", "exit"},
           pc[t] = "transfer" /\ job[t].op = "exit" => pending'[t] = EmptyCache
    PROVE  Timed(t)' /\ Clean(t)'
<1>1. pc[t] \notin {"idle", "aborted"}
    BY DEF InHand
<1>2. NoJob.tsd = NoTSD /\ NoTSD # t
    BY NoJobFacts, RankFacts DEF NoTSD
<1>3. CASE job[t].op \notin {"drain", "exit"}
  <2>1. job[t].tsd = t => Owns(t)
      BY <1>3 DEF Clean
  <2> QED
      BY <1>1, <1>2, <1>3, <2>1, ClientStep
<1>4. CASE job[t].op \in {"drain", "exit"}
  <2>1. stage # "idle" /\ work.op = job[t].op /\ work.tsd = job[t].tsd
      BY <1>4
  <2>2. pending'[t] \in {pending[t], EmptyCache}
      BY <1>4
  <2>3. ~Owns(t) => /\ pending'[t] = EmptyCache
                    /\ job[t].tsd = t => job[t].op = "drain"
                    /\ job[t].tsd # t => cache'[t] = {}
      BY <2>2 DEF Clean
  <2>4. job[t].op = "exit" => pending'[t] = EmptyCache
      BY <1>1, <2>2 DEF Clean
  <2> QED
      BY <1>1, <2>1, <2>3, <2>4, Busy, CalmKeeps
<1> QED
    BY <1>3, <1>4

\* After it a free is over, and a cache that is drained goes on.
LEMMA EndQuarantineStep ==
    ASSUME LockInv, NEW t \in Threads, pc[t] \in InHand, NEW locks, EndQuarantine(t, locks)
    PROVE  \E stage, work :
              /\ Step(t, stage, work)
              /\ \/ stage = "idle" /\ work = NoJob /\ job[t].op \notin {"drain", "exit"}
                 \/ stage = "flush" /\ work.op = job[t].op /\ work.tsd = job[t].tsd
<1>1. \/ Step(t, "idle", NoJob) /\ job[t].op \notin {"drain", "exit"}
      \/ Step(t, "flush", WithBatches(job[t], <<>>))
    BY DEF EndQuarantine, Finish, Return, WithBatches
<1>2. WithBatches(job[t], <<>>).op = job[t].op /\ WithBatches(job[t], <<>>).tsd = job[t].tsd
    BY FitAt, JobFacts
<1> QED
    BY <1>1, <1>2

\* The quarantine: a transfer leaves the TSD's part of it empty.
LEMMA QuarantineClean ==
    ASSUME LockInv, Shapes, NEW t \in Threads, Timed(t), Clean(t), Quarantining(t)
    PROVE  Timed(t)' /\ Clean(t)'
<1>1. ASSUME OutOfMemory(t) PROVE Timed(t)' /\ Clean(t)'
  <2>1. Stays(t)
      BY <1>1 DEF OutOfMemory, Stays, registryVars, threadVars, heapVars, quarantineVars
  <2> QED
      BY <2>1, StaysKeeps
<1> SUFFICES ASSUME \/ Put(t) \/ TransferCache(t) \/ TryRecycle(t) \/ LockRecycle(t)
                    \/ Recycle(t) \/ UnlockRecycle(t) \/ Scrub(t)
             PROVE  Timed(t)' /\ Clean(t)'
    BY <1>1 DEF Quarantining
<1>2. /\ pc[t] \in {"put", "transfer", "tryrecycle", "lockrecycle", "recycle", "unlock", "scrub"}
      /\ pc[t] \in InHand /\ Calm(t)
    BY DEF Put, TransferCache, TryRecycle, LockRecycle, Recycle, UnlockRecycle, Scrub, At, InHand,
           Calm, registryVars, threadVars, heapVars
<1>3. \A x : /\ WithBatches(job[t], x).op = job[t].op
             /\ WithBatches(job[t], x).tsd = job[t].tsd
    BY FitAt, JobFacts
<1>4. \E stage, work :
        /\ Step(t, stage, work)
        /\ \/ stage = "idle" /\ work = NoJob /\ job[t].op \notin {"drain", "exit"}
           \/ /\ stage \in {"transfer", "tryrecycle", "lockrecycle", "recycle", "unlock",
                            "scrub", "flush"}
              /\ work.op = job[t].op /\ work.tsd = job[t].tsd
  <2>1. CASE \E locks : EndQuarantine(t, locks)
      BY <1>2, <2>1, EndQuarantineStep
  <2>2. CASE \E stage \in {"transfer", "tryrecycle", "lockrecycle", "recycle", "scrub"} :
               Goto(t, stage)
      BY <2>2 DEF Goto
  <2>3. CASE \E stage \in {"unlock", "scrub"} : \E x : Step(t, stage, WithBatches(job[t], x))
      BY <1>3, <2>3
  <2>4. \/ \E locks : EndQuarantine(t, locks)
        \/ \E stage \in {"transfer", "tryrecycle", "lockrecycle", "recycle", "scrub"} :
             Goto(t, stage)
        \/ \E stage \in {"unlock", "scrub"} : \E x : Step(t, stage, WithBatches(job[t], x))
    <3>1. CASE Put(t) \/ TransferCache(t) \/ TryRecycle(t) \/ LockRecycle(t)
        BY <3>1 DEF Put, TransferCache, TryRecycle, LockRecycle
    <3>2. CASE UnlockRecycle(t)
        BY <3>2 DEF UnlockRecycle
    <3>3. CASE Recycle(t)
        BY <3>3 DEF Recycle, WithBatches
    <3>4. CASE Scrub(t)
      <4>1. \/ EndQuarantine(t, lock)
            \/ Step(t, "scrub", WithBatches(job[t], Tail(job[t].batches)))
          BY <3>4 DEF Scrub, WithBatches
      <4> QED
          BY <4>1
    <3> QED
        BY <3>1, <3>2, <3>3, <3>4
  <2> QED
      BY <2>1, <2>2, <2>3, <2>4
<1>5. job[t].tsd = t \/ (cache'[t] = cache[t] /\ pending'[t] = pending[t])
  <2>1. \/ cache' = cache
        \/ \E stock : cache' = [cache EXCEPT ![job[t].tsd] = stock]
      BY DEF Put, TransferCache, TryRecycle, LockRecycle, Recycle, UnlockRecycle, Scrub,
             SetStock, heapVars
  <2>2. \/ pending' = pending
        \/ \E part : pending' = [pending EXCEPT ![job[t].tsd] = part]
      BY DEF Put, TransferCache, TryRecycle, LockRecycle, Recycle, UnlockRecycle, Scrub,
             quarantineVars
  <2> QED
      BY <2>1, <2>2, HandOnly
<1>6. pending'[t] \in {pending[t], EmptyCache} \/ job[t].op \notin {"drain", "exit"}
  <2>1. CASE Put(t)
      BY <2>1, FitAt DEF Put, At, NeedTSD, ClientOps
  <2>2. CASE TransferCache(t)
    <3>1. pending' = [pending EXCEPT ![job[t].tsd] = EmptyCache] /\ t \in DOMAIN pending
        BY <2>2 DEF TransferCache, Shapes, AllTSDs
    <3> QED
        BY <3>1
  <2>3. CASE TryRecycle(t) \/ LockRecycle(t) \/ Recycle(t) \/ UnlockRecycle(t) \/ Scrub(t)
      BY <2>3 DEF TryRecycle, LockRecycle, Recycle, UnlockRecycle, Scrub, quarantineVars
  <2> QED
      BY <2>1, <2>2, <2>3
<1>7. pc[t] = "transfer" /\ job[t].op = "exit" => pending'[t] = EmptyCache
  <2> SUFFICES ASSUME pc[t] = "transfer", job[t].op = "exit" PROVE pending'[t] = EmptyCache
      OBVIOUS
  <2>1. TransferCache(t)
      BY DEF Put, TryRecycle, LockRecycle, Recycle, UnlockRecycle, Scrub, At
  <2>2. job[t].tsd = t /\ t \in DOMAIN pending
      BY FitAt DEF Fit, Shapes, AllTSDs
  <2> QED
      BY <2>1, <2>2 DEF TransferCache
<1> QED
    BY <1>2, <1>4, <1>5, <1>6, <1>7, InHandStep

\* Drains: what is in hand is empty at the end.
LEMMA DrainClean ==
    ASSUME LateInit = FALSE, LockInv, Shapes, NEW t \in Threads, Timed(t), Clean(t), Draining(t)
    PROVE  Timed(t)' /\ Clean(t)'
<1>0. NoJob.tsd = NoTSD /\ NoJob.op = "none" /\ NoTSD # t
    BY NoJobFacts, RankFacts DEF NoTSD
<1>1. ASSUME LockTSDs(t) PROVE Timed(t)' /\ Clean(t)'
  <2>1. /\ pc[t] = "locktsds" /\ Calm(t) /\ UNCHANGED <<cache, pending>>
        /\ Step(t, "nexttsd", job[t])
      BY <1>1 DEF LockTSDs, At, Calm, Goto, registryVars, threadVars, heapVars, quarantineVars
  <2>2. job[t].tsd = NoTSD /\ job[t].op = "drain"
      BY <2>1, FitAt DEF Clean, Fit
  <2> QED
      BY <1>0, <2>1, <2>2, Busy, CalmKeeps DEF Clean
<1>2. ASSUME NextTSD(t) PROVE Timed(t)' /\ Clean(t)'
  <2>1. /\ pc[t] = "nexttsd" /\ Calm(t) /\ UNCHANGED <<cache, pending>>
        /\ \/ Step(t, "idle", NoJob)
           \/ \E x, y : Step(t, "transfer", WithNext(job[t], x, y))
      BY <1>2 DEF NextTSD, At, Calm, Return, WithNext, registryVars, threadVars, heapVars,
                  quarantineVars
  <2>2. job[t].tsd = NoTSD /\ job[t].op = "drain"
      BY <2>1, FitAt DEF Clean, Fit
  <2>3. \A x, y : WithNext(job[t], x, y).op = job[t].op
      BY FitAt, JobFacts
  <2>4. ~Owns(t) => cache'[t] = {} /\ pending'[t] = EmptyCache
      BY <1>0, <2>1, <2>2 DEF Clean
  <2>5. CASE Step(t, "idle", NoJob)
      BY <1>0, <2>1, <2>2, <2>4, <2>5, Busy, CalmKeeps
  <2>6. ASSUME NEW x, NEW y, Step(t, "transfer", WithNext(job[t], x, y))
        PROVE  Timed(t)' /\ Clean(t)'
      BY <2>1, <2>2, <2>3, <2>4, <2>6, Busy, CalmKeeps
  <2> QED
      BY <2>1, <2>5, <2>6
<1>3. ASSUME Flush(t) PROVE Timed(t)' /\ Clean(t)'
  <2>1. /\ pc[t] = "flush" /\ Calm(t) /\ pending' = pending
        /\ cache' = [cache EXCEPT ![job[t].tsd] = {}]
        /\ \/ job[t].op = "exit" /\ Step(t, "unlink", job[t])
           \/ job[t].op # "exit" /\ Step(t, "nexttsd", WithTSD(job[t], NoTSD))
      BY <1>3 DEF Flush, At, Calm, Goto, WithTSD, registryVars, threadVars, quarantineVars
  <2>2. job[t].op \in {"drain", "exit"} /\ (job[t].op = "exit" => job[t].tsd = t)
      BY <2>1, FitAt DEF Fit
  <2>3. WithTSD(job[t], NoTSD).tsd = NoTSD /\ WithTSD(job[t], NoTSD).op = job[t].op
      BY FitAt, JobFacts
  <2>4. t \in DOMAIN cache /\ (job[t].tsd = t => cache'[t] = {})
      BY <2>1 DEF Shapes, AllTSDs
  <2>5. ~Owns(t) => cache'[t] = {} /\ pending'[t] = EmptyCache
      BY <2>1, <2>4 DEF Clean
  <2>6. CASE job[t].op = "exit" /\ Step(t, "unlink", job[t])
    <3>1. Owns(t) /\ pending'[t] = EmptyCache /\ cache'[t] = {}
        BY <2>1, <2>2, <2>4, <2>6 DEF Timed, Clean
    <3> QED
        BY <2>1, <2>6, <3>1, Busy, CalmKeeps
  <2>7. CASE job[t].op # "exit" /\ Step(t, "nexttsd", WithTSD(job[t], NoTSD))
      BY <1>0, <2>1, <2>2, <2>3, <2>5, <2>7, Busy, CalmKeeps
  <2> QED
      BY <2>1, <2>6, <2>7
<1> QED
    BY <1>1, <1>2, <1>3, CallsClean DEF Draining

\* The rounds of destructors: the last one that a TSD waits for is also the last one that there is.
LEMMA ExitClean ==
    ASSUME LockInv, Shapes, NEW t \in Threads, Timed(t), Clean(t), Exiting(t)
    PROVE  Timed(t)' /\ Clean(t)'
<1>0. /\ NoJob.tsd = NoTSD /\ NoJob.op = "none" /\ NoTSD # t
      /\ Iterations \in Nat \ {0}
    BY NoJobFacts, RankFacts, FrontendAssumption DEF NoTSD, FrontendAssumption
<1>1. ASSUME BeginExit(t) PROVE Timed(t)' /\ Clean(t)'
  <2>1. /\ pc[t] = "idle" /\ round[t] = 0 /\ round'[t] = 1
        /\ key'[t] = IF key[t] = "set" THEN "due" ELSE key[t]
        /\ UNCHANGED <<registry, initState, rounds, cache, pending, linked, pc, job>>
      BY <1>1 DEF BeginExit, At, LockInv, LockTypes, Shapes, registryVars, heapVars,
                  quarantineVars, callVars
  <2>2. job[t] = NoJob /\ ~Gone(t) /\ ~Gone(t)' /\ Owns(t)' = Owns(t)
      BY <1>0, <2>1 DEF Timed, Gone, Owns
  <2>3. Timed(t)'
      BY <1>0, <2>1, <2>2 DEF Timed, Ticking
  <2>4. Clean(t)'
      BY <2>1, <2>2 DEF Clean
  <2> QED
      BY <2>3, <2>4
<1>2. ASSUME NextRound(t) PROVE Timed(t)' /\ Clean(t)'
  <2>1. /\ pc[t] = "idle" /\ round[t] \in 1 .. Iterations /\ round'[t] = round[t] + 1
        /\ key[t] # "due"
        /\ key'[t] = IF key[t] = "set" /\ round'[t] <= Iterations THEN "due" ELSE key[t]
        /\ UNCHANGED <<registry, initState, rounds, cache, pending, linked, pc, job>>
      BY <1>2 DEF NextRound, At, LockInv, LockTypes, Shapes, registryVars, heapVars,
                  quarantineVars, callVars
  <2>2. job[t] = NoJob /\ Owns(t)' = Owns(t)
      BY <2>1 DEF Timed, Owns
  <2>3. Timed(t)'
      BY <1>0, <2>1, <2>2 DEF Timed, Ticking, Gone
  <2>4. Clean(t)'
      BY <2>1, <2>2 DEF Clean
  <2> QED
      BY <2>3, <2>4
<1>3. ASSUME TeardownThread(t) PROVE Timed(t)' /\ Clean(t)'
  <2>1. /\ pc[t] = "idle" /\ key[t] = "due"
        /\ UNCHANGED <<registry, initState, round, cache, pending, linked>>
        /\ rounds'[t] = IF rounds[t] > 1 THEN rounds[t] - 1 ELSE rounds[t]
        /\ \/ /\ rounds[t] > 1 /\ key'[t] = "set"
              /\ UNCHANGED <<pc, job>>
           \/ key'[t] = "unset" /\ Step(t, "transfer", ExitJob(t))
      BY <1>3 DEF TeardownThread, At, ExitJob, LockInv, LockTypes, Shapes, registryVars, heapVars,
                  quarantineVars, callVars
  <2>2. /\ job[t] = NoJob /\ Owns(t) /\ Owns(t)' /\ Gone(t)' = Gone(t)
        /\ round[t] \in 1 .. Iterations /\ rounds[t] = Iterations - round[t] + 1
      BY <1>0, <2>1 DEF Timed, Ticking, Owns, Gone
  <2>3. CASE rounds[t] > 1 /\ key'[t] = "set" /\ UNCHANGED <<pc, job>>
    <3>1. Ticking(t)' /\ ~Gone(t)
        BY <1>0, <2>1, <2>2, <2>3 DEF Ticking, Gone
    <3>2. Timed(t)'
        BY <1>0, <2>1, <2>2, <2>3, <3>1 DEF Timed
    <3>3. Clean(t)'
        BY <1>0, <2>1, <2>2, <2>3 DEF Clean
    <3> QED
        BY <3>2, <3>3
  <2>4. CASE key'[t] = "unset" /\ Step(t, "transfer", ExitJob(t))
    <3>1. pc'[t] = "transfer" /\ job'[t] = ExitJob(t) /\ ExitJob(t).op = "exit"
        BY <2>4, StepAt, ExitFacts
    <3>2. ~Gone(t)
        BY <1>0, <2>2 DEF Gone
    <3>3. Timed(t)'
        BY <1>0, <2>1, <2>2, <2>4, <3>1, <3>2 DEF Timed
    <3>4. Clean(t)'
        BY <2>2, <3>1 DEF Clean
    <3> QED
        BY <3>3, <3>4
  <2> QED
      BY <2>1, <2>3, <2>4
<1>4. ASSUME Unlink(t) PROVE Timed(t)' /\ Clean(t)'
  <2>1. /\ pc[t] = "unlink" /\ t \notin linked' /\ initState'[t] = "TornDown"
        /\ UNCHANGED <<registry, key, round, cache, pending>> /\ Step(t, "idle", NoJob)
      BY <1>4 DEF Unlink, UnlinkStats, At, Return, LockInv, LockTypes, registryVars,
                  quarantineVars
  <2>2. job[t].op = "exit" /\ pending[t] = EmptyCache /\ cache[t] = {} /\ key[t] = "unset"
      BY <2>1, FitAt DEF Fit, Clean, Timed
  <2>3. pc'[t] = "idle" /\ job'[t] = NoJob /\ ~Owns(t)' /\ Gone(t)' = Gone(t)
      BY <2>1, StepAt DEF Owns, Gone
  <2>4. Timed(t)'
      BY <1>0, <2>1, <2>2, <2>3 DEF Timed
  <2>5. Clean(t)'
      BY <1>0, <2>1, <2>2, <2>3 DEF Clean
  <2> QED
      BY <2>4, <2>5
<1> QED
    BY <1>1, <1>2, <1>3, <1>4 DEF Exiting

\* disable and enable.
LEMMA BlockClean ==
    ASSUME LateInit = FALSE, LockInv, Shapes, NEW t \in Threads, Timed(t), Clean(t), Blocking(t)
    PROVE  Timed(t)' /\ Clean(t)'
<1> SUFFICES ASSUME Disabling(t) \/ Enable(t) PROVE Timed(t)' /\ Clean(t)'
    BY CallsClean DEF Blocking
<1>1. /\ pc[t] \in {"disabling", "disabled"} /\ Calm(t) /\ UNCHANGED <<cache, pending>>
      /\ \/ Step(t, "idle", NoJob)
         \/ \E stage \in {"disabling", "disabled"} : \E x : Step(t, stage, WithTodo(job[t], x))
    BY DEF Disabling, Enable, At, Calm, Return, WithTodo, threadVars, heapVars, quarantineVars
<1>2. job[t].op = "disable"
    BY <1>1, FitAt DEF Fit
<1>3. \A x : WithTodo(job[t], x).op = job[t].op /\ WithTodo(job[t], x).tsd = job[t].tsd
    BY FitAt, JobFacts
<1>4. NoJob.tsd = NoTSD /\ NoTSD # t /\ (job[t].tsd = t => Owns(t))
    BY <1>2, NoJobFacts, RankFacts DEF NoTSD, Clean
<1> QED
    BY <1>1, <1>2, <1>3, <1>4, ClientStep

\* What holds of every thread.
ExitInv == Shapes /\ \A t \in Threads : Timed(t) /\ Clean(t)

\* The invariant holds before the first call, when no thread is initialized.
LEMMA ExitInvInit == Init => ExitInv
<1> SUFFICES ASSUME Init PROVE ExitInv
    OBVIOUS
<1>1. /\ registry \in {"exclusive", "shared"} /\ pc = [t \in Threads |-> "idle"]
      /\ job = [t \in Threads |-> NoJob] /\ linked = {}
    BY FrontendAssumption DEF Init, FrontendAssumption
<1>2. /\ initState = [t \in Threads |-> "NotInitialized"]
      /\ rounds = [t \in Threads |-> 0] /\ round = [t \in Threads |-> 0]
      /\ key = [t \in Threads |-> "unset"]
      /\ cache = [tsd \in AllTSDs |-> {}] /\ pending = [tsd \in AllTSDs |-> EmptyCache]
    BY DEF Init
<1>3. Shapes
    BY <1>1, <1>2 DEF Shapes
<1>4. ASSUME NEW t \in Threads PROVE Timed(t) /\ Clean(t)
  <2>1. /\ NoJob.tsd = NoTSD /\ NoJob.op = "none" /\ NoTSD # t /\ t \in AllTSDs
        /\ Iterations \in Nat \ {0}
      BY NoJobFacts, RankFacts, FrontendAssumption DEF NoTSD, AllTSDs, FrontendAssumption
  <2>2. Timed(t)
      BY <1>1, <1>2, <2>1 DEF Timed, Owns, Gone
  <2>3. Clean(t)
      BY <1>1, <1>2, <2>1 DEF Clean
  <2> QED
      BY <2>2, <2>3
<1> QED
    BY <1>3, <1>4 DEF ExitInv

\* Every step keeps it, if no destructor is its thread's first use of the allocator.
LEMMA ExitInvStep ==
    ASSUME LateInit = FALSE, LockInv, ExitInv, [Next]_vars PROVE ExitInv'
<1>1. CASE UNCHANGED vars
  <2>1. \A t \in Threads : Stays(t)
      BY <1>1 DEF vars, Stays, registryVars, threadVars, heapVars, quarantineVars, callVars
  <2>2. Shapes'
      BY <1>1 DEF ExitInv, Shapes, vars, registryVars, threadVars, heapVars, quarantineVars
  <2> QED
      BY <2>1, <2>2, StaysKeeps DEF ExitInv
<1>2. ASSUME NEW u \in Threads, Action(u) PROVE ExitInv'
  <2>1. \A t \in Threads \ {u} : Timed(t)' /\ Clean(t)'
      BY <1>2, OthersStay, StaysKeeps DEF ExitInv
  <2>2. Timed(u)' /\ Clean(u)'
      BY <1>2, InitializeClean, GetTSDClean, ClientClean, QuarantineClean, DrainClean, ExitClean,
         BlockClean DEF Action, ExitInv
  <2>3. Shapes'
      BY <1>2, StartLocal, ClientLocal, QuarantineLocal, EndLocal DEF Action, ExitInv, Local
  <2> QED
      BY <2>1, <2>2, <2>3 DEF ExitInv
<1>3. UNCHANGED vars \/ \E u \in Threads : Action(u)
    BY DEF Next, Over, Action
<1> QED
    BY <1>1, <1>2, <1>3

\* A thread that is gone has torn its TSD down, or never had one.
LEMMA GoneIsClean == LockInv /\ ExitInv => NothingStranded
<1> SUFFICES ASSUME LockInv, ExitInv, NEW t \in Threads, Gone(t)
             PROVE  cache[t] = {} /\ pending[t] = EmptyCache /\ t \notin linked
    BY DEF NothingStranded
<1>1. job[t] = NoJob /\ NoJob.tsd = NoTSD /\ NoJob.op = "none" /\ NoTSD # t
    BY NoJobFacts, RankFacts DEF ExitInv, Timed, NoTSD
<1>2. ~Owns(t)
    BY <1>1, FrontendAssumption DEF ExitInv, Timed, Ticking, Gone, FrontendAssumption
<1> QED
    BY <1>1, <1>2 DEF ExitInv, Clean

\* A thread that has gone through its destructors leaves no block in its cache, no chunk in its
\* part of the quarantine and no statistics that are still linked, whatever calls it and the
\* other threads make and however many rounds there are: teardownThread sets its key again for
\* as many rounds as there are, and commits in the last one.  Beyond that it takes that no
\* destructor is its thread's first allocation: initThread would set the key in a round that is
\* under way, and the TSD would wait for one round more than are left.
THEOREM NothingIsStranded == ASSUME LateInit = FALSE PROVE Spec => []NothingStranded
<1>1. LockInv /\ ExitInv /\ [Next]_vars => ExitInv'
    BY ExitInvStep
<1> QED
    BY <1>1, ExitInvInit, LockInvariant, GoneIsClean, PTL DEF Spec

-----------------------------------------------------------------------------
(* Numbers.                                                                *)

\* A set of numbers that is not empty has a least one.
LEMMA LeastNumber ==
    ASSUME NEW T \in SUBSET Nat, T # {} PROVE \E n \in T : \A m \in T : n <= m
<1>1. PICK n \in T : \A m \in T : ~ (<<m, n>> \in OpToRel(<, Nat))
    BY NatLessThanWellFounded, WFMin
<1>2. \A m \in T : ~(m < n)
    BY <1>1 DEF OpToRel
<1> QED
    BY <1>2

\* The least of some numbers, and the largest when there is a bound.
LEMMA MinIn == ASSUME NEW T \in SUBSET Nat, T # {} PROVE Min(T) \in T
BY LeastNumber DEF Min

LEMMA MaxIn ==
    ASSUME NEW n \in Nat, NEW T \in SUBSET (0 .. n), T # {}
    PROVE  Max(T) \in T /\ \A y \in T : Max(T) >= y
<1> DEFINE U == {m \in Nat : \E x \in T : m = n - x}
<1>1. U # {}
  <2>1. PICK x \in T : TRUE
      OBVIOUS
  <2>2. n - x \in U
      BY <2>1
  <2> QED
      BY <2>2
<1>2. PICK m \in U : \A k \in U : m <= k
    BY <1>1, LeastNumber
<1>3. PICK x \in T : m = n - x
    BY <1>2
<1>4. \A y \in T : x >= y
  <2> SUFFICES ASSUME NEW y \in T PROVE x >= y
      OBVIOUS
  <2>1. n - y \in U /\ x \in Nat /\ y \in Nat
      OBVIOUS
  <2>2. m <= n - y
      BY <1>2, <2>1
  <2> QED
      BY <1>3, <2>1, <2>2
<1> QED
    BY <1>3, <1>4 DEF Max

\* Products grow with their factors.
LEMMA Products ==
    ASSUME NEW a \in Nat, NEW b \in Nat, NEW c \in Nat, NEW d \in Nat, a <= b, c <= d
    PROVE  a * c \in Nat /\ b * d \in Nat /\ a * c <= b * d
<1>1. PICK x \in Nat : b = a + x
  <2>1. b - a \in Nat /\ b = a + (b - a)
      OBVIOUS
  <2> QED
      BY <2>1
<1>2. PICK y \in Nat : d = c + y
  <2>1. d - c \in Nat /\ d = c + (d - c)
      OBVIOUS
  <2> QED
      BY <2>1
<1>3. a * c \in Nat /\ a * y \in Nat /\ x * c \in Nat /\ x * y \in Nat
    OBVIOUS
<1>4. (a + x) * (c + y) = a * c + a * y + x * c + x * y
    OBVIOUS
<1> QED
    BY <1>1, <1>2, <1>3, <1>4

-----------------------------------------------------------------------------
(* What the caches of the quarantine are.                                  *)

\* The chunks in a list of batches, and the batches themselves.
ChunksOf(list) == UNION {list[i].chunks : i \in DOMAIN list}
AtsOf(list) == {list[i].at : i \in DOMAIN list}

\* Batches of finitely many chunks.
FiniteParts == {S \in SUBSET Ptrs : IsFiniteSet(S)}
Batches == [at : Ptrs, chunks : FiniteParts, size : Int]

\* No batch and no chunk is in the list twice.
Tidy(list) ==
    /\ list \in Seq(Batches)
    /\ \A i, j \in DOMAIN list :
         i # j => list[i].at # list[j].at /\ list[i].chunks \cap list[j].chunks = {}

\* A cache is such a list with a number beside it.
CacheOver(S) == [list : Seq(Batches), size : S]
IsCache(c) == (\E S : c \in CacheOver(S)) /\ Tidy(c.list)

-----------------------------------------------------------------------------
(* Lists of batches.                                                       *)

\* Other batches than those in the list, with other chunks.
Foreign(batch, list) ==
    batch \in Batches /\ batch.at \notin AtsOf(list) /\ batch.chunks \cap ChunksOf(list) = {}

\* A list without batches.
LEMMA EmptyList ==
    Tidy(<<>>) /\ ChunksOf(<<>>) = {} /\ AtsOf(<<>>) = {} /\ IsCache(EmptyCache)
    /\ EmptyCache.list = <<>>
<1>1. Tidy(<<>>) /\ ChunksOf(<<>>) = {} /\ AtsOf(<<>>) = {}
    BY DEF Tidy, ChunksOf, AtsOf
<1>2. EmptyCache \in CacheOver({0}) /\ EmptyCache.list = <<>>
    BY DEF EmptyCache, CacheOver
<1> QED
    BY <1>1, <1>2 DEF IsCache

\* One more batch.
LEMMA AppendList ==
    ASSUME NEW list, Tidy(list), NEW batch, Foreign(batch, list)
    PROVE  LET more == Append(list, batch)
           IN  /\ Tidy(more) /\ ChunksOf(more) = ChunksOf(list) \cup batch.chunks
               /\ AtsOf(more) = AtsOf(list) \cup {batch.at}
<1> DEFINE more == Append(list, batch)
<1>1. /\ list \in Seq(Batches) /\ batch \in Batches
      /\ \A i, j \in DOMAIN list :
           i # j => list[i].at # list[j].at /\ list[i].chunks \cap list[j].chunks = {}
    BY DEF Tidy, Foreign
<1>2. PICK n \in Nat : n = Len(list)
    BY <1>1
<1>3. /\ more \in Seq(Batches) /\ DOMAIN more = 1 .. n + 1 /\ DOMAIN list = 1 .. n
      /\ more[n + 1] = batch /\ \A i \in 1 .. n : more[i] = list[i]
    BY <1>1, <1>2
<1> HIDE DEF more
<1>4. \A i \in 1 .. n : list[i].at # batch.at /\ list[i].chunks \cap batch.chunks = {}
    BY <1>3 DEF Foreign, AtsOf, ChunksOf
<1>5. \A i \in 1 .. n + 1 : i \in 1 .. n \/ i = n + 1
    BY <1>2
<1>6. \A i, j \in DOMAIN more :
        i # j => more[i].at # more[j].at /\ more[i].chunks \cap more[j].chunks = {}
    BY <1>1, <1>3, <1>4, <1>5
<1>7. \A i \in 1 .. n : i \in 1 .. n + 1
    BY <1>2
<1>8. n + 1 \in 1 .. n + 1
    BY <1>2
<1>9. ChunksOf(more) = ChunksOf(list) \cup batch.chunks
    BY <1>3, <1>5, <1>7, <1>8 DEF ChunksOf
<1>10. AtsOf(more) = AtsOf(list) \cup {batch.at}
    BY <1>3, <1>5, <1>7, <1>8 DEF AtsOf
<1> QED
    BY <1>3, <1>6, <1>9, <1>10 DEF Tidy, more

\* One list behind another.
LEMMA ConcatLists ==
    ASSUME NEW a, NEW b, Tidy(a), Tidy(b), ChunksOf(a) \cap ChunksOf(b) = {},
           AtsOf(a) \cap AtsOf(b) = {}
    PROVE  LET c == a \o b
           IN  /\ Tidy(c) /\ ChunksOf(c) = ChunksOf(a) \cup ChunksOf(b)
               /\ AtsOf(c) = AtsOf(a) \cup AtsOf(b)
<1> DEFINE c == a \o b
<1>1. /\ a \in Seq(Batches) /\ b \in Seq(Batches)
      /\ \A i, j \in DOMAIN a :
           i # j => a[i].at # a[j].at /\ a[i].chunks \cap a[j].chunks = {}
      /\ \A i, j \in DOMAIN b :
           i # j => b[i].at # b[j].at /\ b[i].chunks \cap b[j].chunks = {}
    BY DEF Tidy
<1>2. PICK m \in Nat : m = Len(a)
    BY <1>1
<1>3. PICK n \in Nat : n = Len(b)
    BY <1>1
<1>4. /\ c \in Seq(Batches) /\ DOMAIN c = 1 .. m + n /\ DOMAIN a = 1 .. m /\ DOMAIN b = 1 .. n
      /\ \A i \in 1 .. m + n : c[i] = IF i <= m THEN a[i] ELSE b[i - m]
    BY <1>1, <1>2, <1>3
<1> HIDE DEF c
<1>5. \A i \in DOMAIN c : \/ i \in DOMAIN a /\ c[i] = a[i] /\ i <= m
                          \/ i - m \in DOMAIN b /\ c[i] = b[i - m] /\ i > m
    BY <1>2, <1>3, <1>4
<1>6. \A i \in DOMAIN a, j \in DOMAIN b : a[i].at # b[j].at /\ a[i].chunks \cap b[j].chunks = {}
    BY DEF ChunksOf, AtsOf
<1>7. ASSUME NEW i \in DOMAIN c, NEW j \in DOMAIN c, i # j
      PROVE  c[i].at # c[j].at /\ c[i].chunks \cap c[j].chunks = {}
  <2>1. i \in Int /\ j \in Int /\ (i - m # j - m)
      BY <1>4, <1>7
  <2> QED
      BY <1>1, <1>5, <1>6, <1>7, <2>1
<1>8. \A i \in DOMAIN a : i \in DOMAIN c /\ c[i] = a[i]
    BY <1>2, <1>3, <1>4
<1>9. \A i \in DOMAIN b : i + m \in DOMAIN c /\ c[i + m] = b[i]
  <2> SUFFICES ASSUME NEW i \in 1 .. n PROVE i + m \in 1 .. m + n /\ c[i + m] = b[i]
      BY <1>4
  <2>1. i + m \in 1 .. m + n /\ ~ (i + m <= m) /\ (i + m) - m = i
      BY <1>2, <1>3
  <2> QED
      BY <1>4, <2>1
<1>10. ChunksOf(c) = ChunksOf(a) \cup ChunksOf(b)
    BY <1>5, <1>8, <1>9 DEF ChunksOf
<1>11. AtsOf(c) = AtsOf(a) \cup AtsOf(b)
    BY <1>5, <1>8, <1>9 DEF AtsOf
<1> QED
    BY <1>4, <1>7, <1>10, <1>11 DEF Tidy, c

\* A part of a list is as tidy, and what it has is not in the rest.
LEMMA SplitList ==
    ASSUME NEW list, Tidy(list), NEW k \in 0 .. Len(list)
    PROVE  LET out  == SubSeq(list, 1, k)
               left == SubSeq(list, k + 1, Len(list))
           IN  /\ Tidy(out) /\ Tidy(left)
               /\ ChunksOf(out) \subseteq ChunksOf(list) /\ AtsOf(out) \subseteq AtsOf(list)
               /\ ChunksOf(left) = ChunksOf(list) \ ChunksOf(out)
               /\ AtsOf(left) = AtsOf(list) \ AtsOf(out)
<1>1. /\ list \in Seq(Batches)
      /\ \A i, j \in DOMAIN list :
           i # j => list[i].at # list[j].at /\ list[i].chunks \cap list[j].chunks = {}
    BY DEF Tidy
<1>2. PICK n \in Nat : n = Len(list) /\ k \in 0 .. n /\ DOMAIN list = 1 .. n
    BY <1>1
<1>3. PICK out : out = SubSeq(list, 1, k)
    OBVIOUS
<1>4. PICK left : left = SubSeq(list, k + 1, n)
    OBVIOUS
<1>5. /\ out \in Seq(Batches) /\ DOMAIN out = 1 .. k
      /\ \A i \in 1 .. k : out[i] = list[i]
    BY <1>1, <1>2, <1>3
<1>6. /\ left \in Seq(Batches) /\ DOMAIN left = 1 .. n - k
      /\ \A i \in 1 .. n - k : left[i] = list[i + k]
  <2>1. \A i \in k + 1 .. n : i \in 1 .. Len(list)
      BY <1>2
  <2>2. left \in Seq(Batches) /\ Len(left) = n - k
      BY <1>1, <1>2, <1>4, <2>1
  <2>3. \A i \in 1 .. n - k : left[i] = list[(k + 1) + i - 1]
      BY <1>1, <1>2, <1>4, <2>1
  <2>4. \A i \in 1 .. n - k : (k + 1) + i - 1 = i + k
      BY <1>2
  <2> QED
      BY <2>2, <2>3, <2>4
<1>7. \A i \in 1 .. k : i \in 1 .. n
    BY <1>2
<1>8. \A i \in 1 .. n - k : i + k \in 1 .. n /\ i + k \notin 1 .. k
    BY <1>2
<1>9. \A i \in 1 .. n : i \in 1 .. k \/ (i - k \in 1 .. n - k /\ (i - k) + k = i)
    BY <1>2
<1>10. Tidy(out)
    BY <1>1, <1>2, <1>5, <1>7 DEF Tidy
<1>11. Tidy(left)
  <2> SUFFICES ASSUME NEW i \in 1 .. n - k, NEW j \in 1 .. n - k, i # j
               PROVE  left[i].at # left[j].at /\ left[i].chunks \cap left[j].chunks = {}
      BY <1>6 DEF Tidy
  <2>1. i + k # j + k
      BY <1>2
  <2> QED
      BY <1>1, <1>2, <1>6, <1>8, <2>1
<1>12. ChunksOf(out) \subseteq ChunksOf(list) /\ AtsOf(out) \subseteq AtsOf(list)
    BY <1>2, <1>5, <1>7 DEF ChunksOf, AtsOf
<1>13. \A i \in 1 .. n - k, j \in 1 .. k :
         left[i].at # out[j].at /\ left[i].chunks \cap out[j].chunks = {}
  <2> SUFFICES ASSUME NEW i \in 1 .. n - k, NEW j \in 1 .. k
               PROVE  left[i].at # out[j].at /\ left[i].chunks \cap out[j].chunks = {}
      OBVIOUS
  <2>1. i + k \in DOMAIN list /\ j \in DOMAIN list /\ i + k # j
      BY <1>2, <1>7, <1>8
  <2> QED
      BY <1>1, <1>5, <1>6, <2>1
<1>14. ChunksOf(left) = ChunksOf(list) \ ChunksOf(out)
  <2>1. \A q : q \in ChunksOf(left) => q \in ChunksOf(list) /\ q \notin ChunksOf(out)
    <3> SUFFICES ASSUME NEW i \in 1 .. n - k, NEW q \in left[i].chunks
                 PROVE  q \in ChunksOf(list) /\ q \notin ChunksOf(out)
        BY <1>6 DEF ChunksOf
    <3>1. q \in ChunksOf(list)
        BY <1>2, <1>6, <1>8 DEF ChunksOf
    <3>2. \A j \in DOMAIN out : q \notin out[j].chunks
        BY <1>5, <1>13
    <3> QED
        BY <3>1, <3>2 DEF ChunksOf
  <2>2. \A q : q \in ChunksOf(list) => q \in ChunksOf(out) \/ q \in ChunksOf(left)
    <3> SUFFICES ASSUME NEW i \in 1 .. n, NEW q \in list[i].chunks
                 PROVE  q \in ChunksOf(out) \/ q \in ChunksOf(left)
        BY <1>2 DEF ChunksOf
    <3>1. CASE i \in 1 .. k
        BY <1>5, <3>1 DEF ChunksOf
    <3>2. CASE i - k \in 1 .. n - k /\ (i - k) + k = i
      <4>1. left[i - k] = list[i]
          BY <1>6, <3>2
      <4> QED
          BY <1>6, <3>2, <4>1 DEF ChunksOf
    <3> QED
        BY <1>9, <3>1, <3>2
  <2> QED
      BY <2>1, <2>2
<1>15. AtsOf(left) = AtsOf(list) \ AtsOf(out)
  <2>1. \A q : q \in AtsOf(left) => q \in AtsOf(list) /\ q \notin AtsOf(out)
    <3> SUFFICES ASSUME NEW i \in 1 .. n - k, NEW q, q = left[i].at
                 PROVE  q \in AtsOf(list) /\ q \notin AtsOf(out)
        BY <1>6 DEF AtsOf
    <3>1. q \in AtsOf(list)
        BY <1>2, <1>6, <1>8 DEF AtsOf
    <3>2. \A j \in DOMAIN out : q # out[j].at
        BY <1>5, <1>13
    <3> QED
        BY <3>1, <3>2 DEF AtsOf
  <2>2. \A q : q \in AtsOf(list) => q \in AtsOf(out) \/ q \in AtsOf(left)
    <3> SUFFICES ASSUME NEW i \in 1 .. n, NEW q, q = list[i].at
                 PROVE  q \in AtsOf(out) \/ q \in AtsOf(left)
        BY <1>2 DEF AtsOf
    <3>1. CASE i \in 1 .. k
        BY <1>5, <3>1 DEF AtsOf
    <3>2. CASE i - k \in 1 .. n - k /\ (i - k) + k = i
      <4>1. left[i - k] = list[i]
          BY <1>6, <3>2
      <4> QED
          BY <1>6, <3>2, <4>1 DEF AtsOf
    <3> QED
        BY <1>9, <3>1, <3>2
  <2> QED
      BY <2>1, <2>2
<1> QED
    BY <1>2, <1>3, <1>4, <1>10, <1>11, <1>12, <1>14, <1>15

\* Without the first batch.
LEMMA TailList ==
    ASSUME NEW list, Tidy(list), list # <<>>
    PROVE  LET first == Head(list)
               left  == Tail(list)
           IN  /\ first \in Batches /\ Tidy(left)
               /\ first.chunks \subseteq ChunksOf(list) /\ first.at \in AtsOf(list)
               /\ ChunksOf(left) = ChunksOf(list) \ first.chunks
               /\ AtsOf(left) = AtsOf(list) \ {first.at}
<1>1. list \in Seq(Batches) /\ Len(list) \in Nat /\ 1 \in 1 .. Len(list)
    BY DEF Tidy
<1>2. PICK out : out = SubSeq(list, 1, 1)
    OBVIOUS
<1>3. PICK left : left = SubSeq(list, 1 + 1, Len(list))
    OBVIOUS
<1>4. DOMAIN out = {1} /\ out[1] = Head(list) /\ Head(list) \in Batches
    BY <1>1, <1>2
<1>5. ChunksOf(out) = Head(list).chunks /\ AtsOf(out) = {Head(list).at}
    BY <1>4 DEF ChunksOf, AtsOf
<1>6. 1 \in 0 .. Len(list)
    BY <1>1
<1>7. /\ Tidy(left)
      /\ ChunksOf(out) \subseteq ChunksOf(list) /\ AtsOf(out) \subseteq AtsOf(list)
      /\ ChunksOf(left) = ChunksOf(list) \ ChunksOf(out)
      /\ AtsOf(left) = AtsOf(list) \ AtsOf(out)
    BY <1>2, <1>3, <1>6, SplitList
<1>8. Tail(list) = left
  <2>1. Tail(list) = SubSeq(list, 2, Len(list))
      BY <1>1, TailIsSubSeq
  <2> QED
      BY <1>3, <2>1
<1> QED
    BY <1>4, <1>5, <1>7, <1>8

\* A chunk more in the last batch, or the chunks of another batch.
LEMMA WidenList ==
    ASSUME NEW list, Tidy(list), NEW k \in DOMAIN list, NEW S \in FiniteParts,
           S \cap ChunksOf(list) = {}, NEW size \in Int,
           NEW wide, wide \in Seq(Batches), DOMAIN wide = DOMAIN list,
           \A i \in DOMAIN list \ {k} : wide[i] = list[i],
           wide[k].at = list[k].at, wide[k].chunks = list[k].chunks \cup S
    PROVE  /\ Tidy(wide) /\ AtsOf(wide) = AtsOf(list)
           /\ ChunksOf(wide) = ChunksOf(list) \cup S
<1>1. \A i, j \in DOMAIN list :
        i # j => list[i].at # list[j].at /\ list[i].chunks \cap list[j].chunks = {}
    BY DEF Tidy
<1>2. \A i \in DOMAIN list : list[i].chunks \cap S = {}
    BY DEF ChunksOf
<1>3. \A i \in DOMAIN list : wide[i].at = list[i].at
    OBVIOUS
<1>4. \A i, j \in DOMAIN wide :
        i # j => wide[i].at # wide[j].at /\ wide[i].chunks \cap wide[j].chunks = {}
  <2> SUFFICES ASSUME NEW i \in DOMAIN list, NEW j \in DOMAIN list, i # j
               PROVE  wide[i].at # wide[j].at /\ wide[i].chunks \cap wide[j].chunks = {}
      OBVIOUS
  <2>1. CASE i = k
      BY <1>1, <1>2, <1>3, <2>1
  <2>2. CASE j = k
      BY <1>1, <1>2, <1>3, <2>2
  <2>3. CASE i # k /\ j # k
      BY <1>1, <2>3
  <2> QED
      BY <2>1, <2>2, <2>3
<1>5. AtsOf(wide) = AtsOf(list)
    BY <1>3 DEF AtsOf
<1>6. ChunksOf(wide) = ChunksOf(list) \cup S
    BY DEF ChunksOf
<1> QED
    BY <1>4, <1>5, <1>6 DEF Tidy

-----------------------------------------------------------------------------
(* The operations of QuarantineCache.                                      *)

\* A cache is a list with a number beside it.
LEMMA CacheFields ==
    ASSUME NEW c, IsCache(c)
    PROVE  /\ Tidy(c.list)
           /\ \E S : c \in CacheOver(S)
BY DEF IsCache

\* enqueue adds the chunk, and the batch that is allocated when one is needed.
LEMMA EnqueueFacts ==
    ASSUME NEW c, IsCache(c), NEW p \in Ptrs, p \notin ChunksOf(c.list), NEW size \in Int,
           NEW at, NeedsBatch(c) => at \in Ptrs /\ at \notin AtsOf(c.list)
    PROVE  LET e == Enqueue(c, p, size, at)
           IN  /\ IsCache(e) /\ ChunksOf(e.list) = ChunksOf(c.list) \cup {p}
               /\ AtsOf(e.list) = AtsOf(c.list) \cup (IF NeedsBatch(c) THEN {at} ELSE {})
<1>1. PICK S : c \in CacheOver(S)
    BY DEF IsCache
<1>2. Tidy(c.list) /\ c.list \in Seq(Batches)
    BY DEF IsCache, Tidy
<1>3. {p} \in FiniteParts
  <2>1. IsFiniteSet({p})
      BY FS_Singleton
  <2> QED
      BY <2>1 DEF FiniteParts
<1>4. BatchBytes \in Nat
    BY QuarantineAssumption DEF QuarantineAssumption
<1>5. PICK e : e = Enqueue(c, p, size, at)
    OBVIOUS
<1>6. CASE NeedsBatch(c)
  <2>1. PICK b : b = NewBatch(at, p, size)
      OBVIOUS
  <2>2. b \in Batches /\ b.at = at /\ b.chunks = {p} /\ b.size = size + BatchBytes
      BY <1>3, <1>4, <1>6, <2>1 DEF NewBatch, Batches
  <2>3. e = [list |-> Append(c.list, b), size |-> c.size + b.size]
      BY <1>5, <1>6, <2>1 DEF Enqueue, EnqueueBatch
  <2>4. Foreign(b, c.list)
      BY <1>6, <2>2 DEF Foreign
  <2>5. PICK more : more = Append(c.list, b)
      OBVIOUS
  <2>6. /\ Tidy(more) /\ ChunksOf(more) = ChunksOf(c.list) \cup {p}
        /\ AtsOf(more) = AtsOf(c.list) \cup {at}
      BY <1>2, <2>2, <2>4, <2>5, AppendList
  <2>7. e.list = more /\ e \in CacheOver({c.size + b.size})
      BY <2>3, <2>5, <2>6 DEF CacheOver, Tidy
  <2> QED
      BY <1>5, <1>6, <2>6, <2>7 DEF IsCache
<1>7. CASE ~ NeedsBatch(c)
  <2>1. c.list # <<>>
      BY <1>7 DEF NeedsBatch
  <2>2. PICK last \in DOMAIN c.list : last = Len(c.list)
      BY <1>2, <2>1
  <2>3. PICK b : b = [c.list[last] EXCEPT !.chunks = @ \cup {p}, !.size = @ + size]
      OBVIOUS
  <2>4. c.list[last] \in Batches
      BY <1>2
  <2>5. /\ b.at = c.list[last].at /\ b.chunks = c.list[last].chunks \cup {p}
        /\ b \in Batches
    <3>1. /\ c.list[last].chunks \in FiniteParts /\ c.list[last].size \in Int
          /\ c.list[last].at \in Ptrs
        BY <2>4 DEF Batches
    <3>2. IsFiniteSet(c.list[last].chunks) /\ IsFiniteSet({p})
        BY <1>3, <3>1 DEF FiniteParts
    <3>3. IsFiniteSet(c.list[last].chunks \cup {p})
        BY <3>2, FS_Union
    <3>4. c.list[last].chunks \cup {p} \in FiniteParts /\ c.list[last].size + size \in Int
        BY <3>1, <3>3 DEF FiniteParts
    <3> QED
        BY <2>3, <2>4, <3>4 DEF Batches
  <2>6. PICK wide : wide = [c.list EXCEPT ![last] = b]
      OBVIOUS
  <2>7. e = [c EXCEPT !.list = wide, !.size = @ + size]
    <3>1. e = [c EXCEPT !.list[last].chunks = @ \cup {p}, !.list[last].size = @ + size,
                        !.size = @ + size]
        BY <1>5, <1>7, <2>2 DEF Enqueue
    <3> QED
        BY <1>1, <1>2, <2>3, <2>4, <2>6, <3>1 DEF CacheOver, Batches
  <2>8. /\ wide \in Seq(Batches) /\ DOMAIN wide = DOMAIN c.list /\ wide[last] = b
        /\ \A i \in DOMAIN c.list \ {last} : wide[i] = c.list[i]
      BY <1>2, <2>2, <2>5, <2>6
  <2>9. /\ Tidy(wide) /\ AtsOf(wide) = AtsOf(c.list)
        /\ ChunksOf(wide) = ChunksOf(c.list) \cup {p}
      BY <1>2, <1>3, <2>2, <2>5, <2>8, WidenList
  <2>10. e.list = wide /\ e \in CacheOver(S \cup {c.size + size})
      BY <1>1, <2>7, <2>8 DEF CacheOver
  <2> QED
      BY <1>5, <1>7, <2>9, <2>10 DEF IsCache
<1> QED
    BY <1>6, <1>7

\* transfer puts one list behind the other.
LEMMA TransferFacts ==
    ASSUME NEW c, NEW d, IsCache(c), IsCache(d), ChunksOf(c.list) \cap ChunksOf(d.list) = {},
           AtsOf(c.list) \cap AtsOf(d.list) = {}
    PROVE  LET e == Transfer(c, d)
           IN  /\ IsCache(e) /\ ChunksOf(e.list) = ChunksOf(c.list) \cup ChunksOf(d.list)
               /\ AtsOf(e.list) = AtsOf(c.list) \cup AtsOf(d.list)
<1>1. Tidy(c.list) /\ Tidy(d.list)
    BY DEF IsCache
<1>2. PICK list : list = c.list \o d.list
    OBVIOUS
<1>3. /\ Tidy(list) /\ ChunksOf(list) = ChunksOf(c.list) \cup ChunksOf(d.list)
      /\ AtsOf(list) = AtsOf(c.list) \cup AtsOf(d.list)
    BY <1>1, <1>2, ConcatLists
<1>4. PICK e : e = Transfer(c, d)
    OBVIOUS
<1>5. e.list = list /\ e \in CacheOver({c.size + d.size})
    BY <1>2, <1>3, <1>4 DEF Transfer, CacheOver, Tidy
<1> QED
    BY <1>3, <1>4, <1>5 DEF IsCache

\* What leaves a cache, and what it keeps.
Splits(c, kept, out) ==
    /\ IsCache(kept) /\ Tidy(out)
    /\ ChunksOf(out) \subseteq ChunksOf(c.list) /\ AtsOf(out) \subseteq AtsOf(c.list)
    /\ ChunksOf(kept.list) = ChunksOf(c.list) \ ChunksOf(out)
    /\ AtsOf(kept.list) = AtsOf(c.list) \ AtsOf(out)

\* dequeueBatch takes batches from the front.
LEMMA DequeueFacts ==
    ASSUME NEW c, IsCache(c), NEW min
    PROVE  LET r == DequeueDownTo(c, min) IN Splits(c, r.kept, r.out)
<1>1. Tidy(c.list) /\ Len(c.list) \in Nat
    BY DEF IsCache, Tidy
<1> DEFINE left(k) == c.size - SizeOfBatches(SubSeq(c.list, 1, k))
           enough  == {k \in 0 .. Len(c.list) : left(k) <= min}
<1>2. PICK k : k = IF enough = {} THEN Len(c.list) ELSE Min(enough)
    OBVIOUS
<1>3. k \in 0 .. Len(c.list)
  <2>1. enough \in SUBSET Nat /\ enough \in SUBSET (0 .. Len(c.list))
      BY <1>1
  <2>2. PICK E : E = enough
      OBVIOUS
  <2> HIDE DEF enough
  <2>3. CASE E = {}
      BY <1>1, <1>2, <2>2, <2>3
  <2>4. CASE E # {}
    <3>1. k = Min(E)
        BY <1>2, <2>2, <2>4
    <3>2. Min(E) \in E
        BY <2>1, <2>2, <2>4, MinIn
    <3> QED
        BY <2>1, <2>2, <3>1, <3>2
  <2> QED
      BY <2>3, <2>4
<1>4. PICK out : out = SubSeq(c.list, 1, k)
    OBVIOUS
<1>5. PICK rest : rest = SubSeq(c.list, k + 1, Len(c.list))
    OBVIOUS
<1>6. PICK r : r = DequeueDownTo(c, min)
    OBVIOUS
<1>7. r = [kept |-> [list |-> rest, size |-> left(k)], out |-> out]
    BY <1>2, <1>4, <1>5, <1>6 DEF DequeueDownTo
<1>8. /\ Tidy(out) /\ Tidy(rest)
      /\ ChunksOf(out) \subseteq ChunksOf(c.list) /\ AtsOf(out) \subseteq AtsOf(c.list)
      /\ ChunksOf(rest) = ChunksOf(c.list) \ ChunksOf(out)
      /\ AtsOf(rest) = AtsOf(c.list) \ AtsOf(out)
    BY <1>1, <1>3, <1>4, <1>5, SplitList
<1>9. r.kept \in CacheOver({left(k)}) /\ r.kept.list = rest /\ r.out = out
  <2> HIDE DEF left
  <2> QED
      BY <1>7, <1>8 DEF CacheOver, Tidy
<1>10. IsCache(r.kept)
  <2>1. \E S : r.kept \in CacheOver(S)
      BY <1>9
  <2> QED
      BY <1>8, <1>9, <2>1 DEF IsCache
<1> QED
    BY <1>6, <1>8, <1>9, <1>10 DEF Splits

-----------------------------------------------------------------------------
(* Folds over finite sets.                                                 *)

\* The parts of a finite set are finite, and one less without one of their elements.
LEMMA PartSizes ==
    ASSUME NEW S, IsFiniteSet(S)
    PROVE  \A s \in SUBSET S :
             /\ IsFiniteSet(s) /\ Cardinality(s) \in Nat
             /\ \A x \in s : Cardinality(s \ {x}) = Cardinality(s) - 1 /\ Cardinality(s) > 0
<1>1. \A s \in SUBSET S : IsFiniteSet(s) /\ Cardinality(s) \in Nat
    BY FS_Subset, FS_CardinalityType
<1>2. ASSUME NEW s \in SUBSET S, NEW x \in s
      PROVE  Cardinality(s \ {x}) = Cardinality(s) - 1 /\ Cardinality(s) > 0
  <2>1. IsFiniteSet(s) /\ s # {}
      BY <1>1
  <2>2. Cardinality(s \ {x}) = IF x \in s THEN Cardinality(s) - 1 ELSE Cardinality(s)
      BY <2>1, FS_RemoveElement
  <2>3. Cardinality(s) # 0
      BY <2>1, FS_EmptySet
  <2> QED
      BY <1>1, <2>2, <2>3
<1> QED
    BY <1>1, <1>2

\* A fold over a finite set S takes its elements in the order of ch: if its value for what is
\* left of a subset is one it may have, so is the value for the subset.
LEMMA SubsetInduction ==
    ASSUME NEW S, IsFiniteSet(S), NEW ch, NEW D, NEW f,
           f[{}] \in D[{}],
           \A s \in SUBSET S : s # {} =>
              ch[s] \in s /\ (f[s \ {ch[s]}] \in D[s \ {ch[s]}] => f[s] \in D[s])
    PROVE  \A s \in SUBSET S : f[s] \in D[s]
<1> DEFINE Bad == {n \in Nat : \E s \in SUBSET S : Cardinality(s) = n /\ f[s] \notin D[s]}
<1>1. \A s \in SUBSET S : Cardinality(s) \in Nat
    BY PartSizes
<1>2. SUFFICES ASSUME Bad # {} PROVE FALSE
    BY <1>1
<1>3. PICK n \in Bad : \A m \in Bad : n <= m
    BY <1>2, LeastNumber
<1>4. PICK s \in SUBSET S : Cardinality(s) = n /\ f[s] \notin D[s]
    BY <1>3
<1>5. s # {} /\ ch[s] \in s
    BY <1>4
<1>6. Cardinality(s \ {ch[s]}) = n - 1 /\ n - 1 \in Nat
    BY <1>1, <1>4, <1>5, PartSizes
<1>7. f[s \ {ch[s]}] \in D[s \ {ch[s]}]
    BY <1>3, <1>6
<1> QED
    BY <1>4, <1>5, <1>7

\* f is the fold of h over the elements of S, in the order of ch.
IsFold(f, S, ch, base, h) ==
    f = [s \in SUBSET S |-> IF s = {} THEN base ELSE h[<<ch[s], f[s \ {ch[s]}]>>]]

\* The equation of a fold has a solution.
LEMMA FoldExists ==
    ASSUME NEW S, IsFiniteSet(S), NEW ch, NEW base, NEW h,
           \A s \in SUBSET S : s # {} => ch[s] \in s
    PROVE  \E f : IsFold(f, S, ch, base, h)
<1> DEFINE Solves(f, n) ==
             \A s \in SUBSET S : Cardinality(s) <= n =>
                f[s] = IF s = {} THEN base ELSE h[<<ch[s], f[s \ {ch[s]}]>>]
           Bad == {n \in Nat : ~ \E f : Solves(f, n)}
<1>1. \A s \in SUBSET S : Cardinality(s) \in Nat
    BY PartSizes
<1>2. Bad = {}
  <2> SUFFICES ASSUME Bad # {} PROVE FALSE
      OBVIOUS
  <2>1. PICK n \in Nat : /\ ~ \E f : Solves(f, n)
                         /\ \A m \in Nat : ~ (\E f : Solves(f, m)) => n <= m
    <3> HIDE DEF Solves
    <3>1. PICK n \in Bad : \A m \in Bad : n <= m
        BY LeastNumber
    <3> QED
        BY <3>1
  <2>2. n # 0
    <3> DEFINE f == [s \in SUBSET S |-> base]
    <3>1. \A s \in SUBSET S : Cardinality(s) <= 0 => s = {}
        BY <1>1, PartSizes, FS_EmptySet
    <3>2. Solves(f, 0)
        BY <3>1
    <3> HIDE DEF f, Solves
    <3> QED
        BY <2>1, <3>2
  <2>3. PICK f : Solves(f, n - 1)
    <3> HIDE DEF Solves
    <3> QED
        BY <2>1, <2>2
  <2> DEFINE g == [s \in SUBSET S |-> IF s = {} THEN base ELSE h[<<ch[s], f[s \ {ch[s]}]>>]]
  <2>4. ASSUME NEW s \in SUBSET S, Cardinality(s) <= n, s # {}
        PROVE  g[s \ {ch[s]}] = f[s \ {ch[s]}]
    <3>1. ch[s] \in s /\ s \ {ch[s]} \in SUBSET S
        BY <2>4
    <3>2. Cardinality(s \ {ch[s]}) = Cardinality(s) - 1 /\ Cardinality(s) \in Nat
        BY <3>1, PartSizes
    <3>3. Cardinality(s \ {ch[s]}) <= n - 1
        BY <2>4, <3>2
    <3> QED
        BY <2>3, <3>1, <3>3
  <2>5. Solves(g, n)
      BY <2>4
  <2> HIDE DEF g, Solves
  <2> QED
      BY <2>1, <2>5
<1>3. PICK f : Solves(f, Cardinality(S))
    BY <1>1, <1>2
<1> DEFINE g == [s \in SUBSET S |-> f[s]]
<1>4. \A s \in SUBSET S : Cardinality(s) <= Cardinality(S)
    BY FS_Subset
<1>5. g = [s \in SUBSET S |-> IF s = {} THEN base ELSE h[<<ch[s], g[s \ {ch[s]}]>>]]
  <2>1. ASSUME NEW s \in SUBSET S
        PROVE  f[s] = IF s = {} THEN base ELSE h[<<ch[s], g[s \ {ch[s]}]>>]
    <3>1. s \ {ch[s]} \in SUBSET S /\ g[s \ {ch[s]}] = f[s \ {ch[s]}]
        OBVIOUS
    <3> HIDE DEF g
    <3> QED
        BY <1>3, <1>4, <3>1
  <2> QED
      BY <2>1
<1> HIDE DEF g
<1> QED
    BY <1>5 DEF IsFold

\* A fold whose steps stay within the values that are right for a subset, a
\* value for the base and one per element that h adds, exists and its value is right.
LEMMA FoldWithin ==
    ASSUME NEW S, IsFiniteSet(S), NEW ch, NEW base, NEW D, NEW h, base \in D[{}],
           \A s \in SUBSET S : s # {} =>
              ch[s] \in s /\ \A v \in D[s \ {ch[s]}] : h[<<ch[s], v>>] \in D[s]
    PROVE  \E f : IsFold(f, S, ch, base, h) /\ \A s \in SUBSET S : f[s] \in D[s]
<1>1. PICK f : IsFold(f, S, ch, base, h)
  <2>1. \A s \in SUBSET S : s # {} => ch[s] \in s
      OBVIOUS
  <2> QED
      BY <2>1, FoldExists
<1>2. f[{}] = base
    BY <1>1 DEF IsFold
<1>3. \A s \in SUBSET S : s # {} => f[s] = h[<<ch[s], f[s \ {ch[s]}]>>]
    BY <1>1 DEF IsFold
<1>4. \A s \in SUBSET S : f[s] \in D[s]
  <2>1. \A s \in SUBSET S : s # {} =>
              ch[s] \in s /\ (f[s \ {ch[s]}] \in D[s \ {ch[s]}] => f[s] \in D[s])
      BY <1>3
  <2> QED
      BY <1>2, <2>1, SubsetInduction
<1> QED
    BY <1>1, <1>4

-----------------------------------------------------------------------------
(* mergeBatches and extract.                                               *)

\* One step of mergeBatches.
Visited(acc, batch) ==
    IF acc.kept # <<>> /\ CanMerge(Last(acc.kept), batch)
    THEN [kept |-> Front(acc.kept) \o <<Merge(Last(acc.kept), batch)>>,
          out  |-> Append(acc.out, Emptied(batch))]
    ELSE [acc EXCEPT !.kept = Append(@, batch)]

\* What is kept, and the batches left empty, are those of these chunks and pointers.
Merges(v, chunks, ats) ==
    /\ Tidy(v.kept) /\ Tidy(v.out)
    /\ ChunksOf(v.kept) = chunks /\ ChunksOf(v.out) = {}
    /\ AtsOf(v.kept) \cup AtsOf(v.out) = ats /\ AtsOf(v.kept) \cap AtsOf(v.out) = {}

Merging == [kept : Seq(Batches), out : Seq(Batches)]

\* Another batch in the place of the last one.
LastBecomes(wide, s, e) == wide = Front(s) \o <<e>>

LEMMA ReplaceLast ==
    ASSUME NEW S, NEW s \in Seq(S), s # <<>>, NEW e \in S, NEW n, n = Len(s),
           NEW wide, LastBecomes(wide, s, e)
    PROVE  /\ wide \in Seq(S) /\ DOMAIN wide = DOMAIN s /\ wide[n] = e
           /\ \A i \in DOMAIN s \ {n} : wide[i] = s[i]
<1>1. n \in Nat /\ n > 0 /\ DOMAIN s = 1 .. n
    BY EmptySeq
<1>2. PICK m \in Nat : m = n - 1 /\ n = m + 1
    BY <1>1
<1>3. PICK front : front = SubSeq(s, 1, m)
    OBVIOUS
<1>4. Front(s) = front
    BY <1>2, <1>3 DEF Front
<1>5. front \in Seq(S) /\ Len(front) = m /\ \A i \in 1 .. m : front[i] = s[i]
    BY <1>1, <1>2, <1>3
<1>6. PICK one : one = <<e>>
    OBVIOUS
<1>7. one \in Seq(S) /\ Len(one) = 1 /\ one[1] = e /\ wide = front \o one
    BY <1>4, <1>6 DEF LastBecomes
<1>8. /\ wide \in Seq(S) /\ Len(wide) = m + 1
      /\ \A i \in 1 .. m + 1 : wide[i] = IF i <= m THEN front[i] ELSE one[i - m]
  <2>1. /\ front \o one \in Seq(S) /\ Len(front \o one) = Len(front) + Len(one)
        /\ \A i \in 1 .. Len(front) + Len(one) :
             (front \o one)[i] = IF i <= Len(front) THEN front[i] ELSE one[i - Len(front)]
    <3>1. front \in Seq(S) /\ one \in Seq(S)
        BY <1>5, <1>7
    <3> QED
        BY <3>1, ConcatProperties
  <2>2. wide = front \o one /\ Len(front) = m /\ Len(one) = 1
      BY <1>5, <1>7
  <2> QED
      BY <2>1, <2>2
<1>9. wide[m + 1] = e
  <2>1. m + 1 \in 1 .. m + 1 /\ ~ (m + 1 <= m) /\ (m + 1) - m = 1
      BY <1>2
  <2> QED
      BY <1>7, <1>8, <2>1
<1>10. \A i \in 1 .. n : i # n => i <= m /\ i \in 1 .. m /\ i \in 1 .. m + 1
    BY <1>2
<1>11. \A i \in DOMAIN s \ {n} : wide[i] = s[i]
    BY <1>1, <1>5, <1>8, <1>10
<1> QED
    BY <1>1, <1>2, <1>4, <1>6, <1>8, <1>9, <1>11

LEMMA EmptyPart == {} \in FiniteParts
BY FS_EmptySet DEF FiniteParts

LEMMA VisitFacts ==
    ASSUME NEW v \in Merging, NEW chunks, NEW ats, Merges(v, chunks, ats),
           NEW batch \in Batches, batch.at \notin ats, batch.chunks \cap chunks = {}
    PROVE  LET w == Visited(v, batch)
           IN  w \in Merging /\ Merges(w, chunks \cup batch.chunks, ats \cup {batch.at})
<1>1. /\ v.kept \in Seq(Batches) /\ v.out \in Seq(Batches)
      /\ Tidy(v.kept) /\ Tidy(v.out)
      /\ ChunksOf(v.kept) = chunks /\ ChunksOf(v.out) = {}
      /\ AtsOf(v.kept) \cup AtsOf(v.out) = ats /\ AtsOf(v.kept) \cap AtsOf(v.out) = {}
    BY DEF Merges, Merging
<1>2. batch.at \in Ptrs /\ batch.chunks \in FiniteParts /\ batch.size \in Int
    BY DEF Batches
<1>3. BatchBytes \in Nat
    BY QuarantineAssumption DEF QuarantineAssumption
<1>4. CASE v.kept # <<>> /\ CanMerge(Last(v.kept), batch)
  <2>0. PICK kept \in Seq(Batches) : kept = v.kept /\ kept # <<>>
      BY <1>1, <1>4
  <2>1. PICK n \in Nat : n = Len(kept) /\ n \in DOMAIN kept /\ DOMAIN kept = 1 .. n
      BY <2>0
  <2>2. PICK last \in Batches : last = kept[n]
      BY <2>0, <2>1
  <2>3. PICK b : b = Merge(last, batch)
      OBVIOUS
  <2>4. /\ b \in Batches /\ b.at = last.at /\ b.chunks = last.chunks \cup batch.chunks
    <3>1. last.chunks \in FiniteParts /\ last.size \in Int /\ last.at \in Ptrs
        BY DEF Batches
    <3>2. IsFiniteSet(last.chunks) /\ IsFiniteSet(batch.chunks)
        BY <1>2, <3>1 DEF FiniteParts
    <3>3. IsFiniteSet(last.chunks \cup batch.chunks)
        BY <3>2, FS_Union
    <3>4. last.chunks \cup batch.chunks \in FiniteParts
        BY <1>2, <3>1, <3>3 DEF FiniteParts
    <3>5. last.size + (batch.size - BatchBytes) \in Int
        BY <1>2, <1>3, <3>1
    <3>6. b = [last EXCEPT !.chunks = last.chunks \cup batch.chunks,
                           !.size = last.size + (batch.size - BatchBytes)]
        BY <2>3 DEF Merge, QuarantinedSize, Batches
    <3> QED
        BY <3>4, <3>5, <3>6 DEF Batches
  <2>5. PICK wide : LastBecomes(wide, kept, b)
      BY DEF LastBecomes
  <2>6. /\ wide \in Seq(Batches) /\ DOMAIN wide = DOMAIN kept /\ wide[n] = b
        /\ \A i \in DOMAIN kept \ {n} : wide[i] = kept[i]
      BY <2>0, <2>1, <2>4, <2>5, ReplaceLast
  <2>7. /\ Tidy(wide) /\ AtsOf(wide) = AtsOf(kept)
        /\ ChunksOf(wide) = ChunksOf(kept) \cup batch.chunks
    <3>1. batch.chunks \cap ChunksOf(kept) = {} /\ wide[n].at = kept[n].at
          /\ wide[n].chunks = kept[n].chunks \cup batch.chunks /\ Tidy(kept)
        BY <1>1, <2>0, <2>2, <2>4, <2>6
    <3> QED
        BY <1>2, <2>1, <2>6, <3>1, WidenList
  <2>8. PICK gone : gone = Emptied(batch)
      OBVIOUS
  <2>9. gone \in Batches /\ gone.at = batch.at /\ gone.chunks = {}
    <3>1. PICK none \in FiniteParts : none = {}
        BY EmptyPart
    <3>2. gone = [batch EXCEPT !.chunks = none, !.size = BatchBytes]
        BY <2>8, <3>1 DEF Emptied
    <3>3. BatchBytes \in Int
        BY <1>3
    <3>4. gone \in Batches /\ gone.at = batch.at /\ gone.chunks = none
        BY <3>2, <3>3 DEF Batches
    <3> QED
        BY <3>1, <3>4
  <2>10. PICK out : out = Append(v.out, gone)
      OBVIOUS
  <2>11. /\ Tidy(out) /\ ChunksOf(out) = {} /\ AtsOf(out) = AtsOf(v.out) \cup {batch.at}
    <3>1. gone.at \notin AtsOf(v.out) /\ gone.chunks \cap ChunksOf(v.out) = {}
        BY <1>1, <2>9
    <3>2. Foreign(gone, v.out)
        BY <2>9, <3>1 DEF Foreign
    <3> QED
        BY <1>1, <2>9, <2>10, <3>2, AppendList
  <2>12. PICK w : w = Visited(v, batch)
      OBVIOUS
  <2>13. w = [kept |-> wide, out |-> out]
    <3>1. Last(v.kept) = last
        BY <2>0, <2>1, <2>2 DEF Last
    <3> QED
        BY <1>4, <2>0, <2>3, <2>5, <2>8, <2>10, <2>12, <3>1 DEF Visited, LastBecomes
  <2>14. w \in Merging /\ w.kept = wide /\ w.out = out
      BY <2>6, <2>11, <2>13 DEF Merging, Tidy
  <2> QED
      BY <1>1, <2>0, <2>7, <2>11, <2>12, <2>14 DEF Merges
<1>5. CASE ~ (v.kept # <<>> /\ CanMerge(Last(v.kept), batch))
  <2>1. PICK more : more = Append(v.kept, batch)
      OBVIOUS
  <2>2. /\ Tidy(more) /\ ChunksOf(more) = ChunksOf(v.kept) \cup batch.chunks
        /\ AtsOf(more) = AtsOf(v.kept) \cup {batch.at}
    <3>1. Foreign(batch, v.kept)
        BY <1>1 DEF Foreign
    <3> QED
        BY <1>1, <2>1, <3>1, AppendList
  <2>3. PICK w : w = Visited(v, batch)
      OBVIOUS
  <2>4. w = [v EXCEPT !.kept = more]
      BY <1>5, <2>1, <2>3 DEF Visited, Merging
  <2>5. w \in Merging /\ w.kept = more /\ w.out = v.out
      BY <2>2, <2>4 DEF Merging, Tidy
  <2> QED
      BY <1>1, <2>2, <2>3, <2>5 DEF Merges
<1> QED
    BY <1>4, <1>5

LEMMA MergeBatchesFold ==
    ASSUME NEW c, NEW merged,
           merged = (CHOOSE f : f = [s \in SUBSET DOMAIN c.list |->
                       IF s = {} THEN [kept |-> <<>>, out |-> <<>>]
                       ELSE Visited(f[s \ {Max(s)}], c.list[Max(s)])])[DOMAIN c.list]
    PROVE  MergeBatches(c) =
             [kept |-> [list |-> merged.kept, size |-> c.size - Len(merged.out) * BatchBytes],
              out |-> merged.out]
BY DEF MergeBatches, FoldLeft, MapThenFoldSet, Visited

\* Merging loses no chunk and no batch.
LEMMA MergeFacts ==
    ASSUME NEW c, IsCache(c)
    PROVE  LET r == MergeBatches(c)
           IN  /\ IsCache(r.kept) /\ Tidy(r.out)
               /\ ChunksOf(r.kept.list) = ChunksOf(c.list) /\ ChunksOf(r.out) = {}
               /\ AtsOf(r.kept.list) \cup AtsOf(r.out) = AtsOf(c.list)
               /\ AtsOf(r.kept.list) \cap AtsOf(r.out) = {}
<1>1. PICK list \in Seq(Batches) : list = c.list /\ Tidy(list)
    BY DEF IsCache, Tidy
<1>2. PICK n \in Nat : n = Len(list) /\ DOMAIN list = 1 .. n
    OBVIOUS
<1>3. PICK S : S = 1 .. n
    OBVIOUS
<1>4. IsFiniteSet(S) /\ DOMAIN list = S
    BY <1>2, <1>3, FS_Interval
<1>5. PICK start : start = [kept |-> <<>>, out |-> <<>>]
    OBVIOUS
<1> DEFINE ch          == [s \in SUBSET S |-> Max(s)]
           Chunks(s)   == UNION {list[i].chunks : i \in s}
           Ats(s)      == {list[i].at : i \in s}
           Right(s, v) == Merges(v, Chunks(s), Ats(s))
           D           == [s \in SUBSET S |-> {v \in Merging : Right(s, v)}]
           h           == [p \in S \X Merging |-> Visited(p[2], list[p[1]])]
           Eq(f)       == f = [s \in SUBSET S |-> IF s = {} THEN start
                                                 ELSE Visited(f[s \ {Max(s)}], list[Max(s)])]
<1>6. \A s \in SUBSET S : s # {} => ch[s] = Max(s) /\ ch[s] \in s
  <2> SUFFICES ASSUME NEW s \in SUBSET S, s # {} PROVE Max(s) \in s
      OBVIOUS
  <2>1. s \in SUBSET (0 .. n)
      BY <1>3
  <2> QED
      BY <2>1, MaxIn
<1>7. \A s \in SUBSET S : D[s] = {v \in Merging : Right(s, v)}
    OBVIOUS
<1>8. \A i \in S, v \in Merging : h[<<i, v>>] = Visited(v, list[i])
    OBVIOUS
<1>9. start \in D[{}]
  <2>1. start \in Merging /\ start.kept = <<>> /\ start.out = <<>>
      BY <1>5 DEF Merging
  <2>2. Chunks({}) = {} /\ Ats({}) = {}
      OBVIOUS
  <2>3. Right({}, start)
      BY <2>1, <2>2, EmptyList DEF Merges
  <2> HIDE DEF D, Right
  <2> QED
      BY <1>7, <2>1, <2>3
<1>10. ASSUME NEW s \in SUBSET S, s # {}, NEW v \in D[s \ {ch[s]}]
       PROVE  Visited(v, list[ch[s]]) \in D[s]
  <2>1. PICK x \in S : x = ch[s] /\ x \in s
      BY <1>6, <1>10
  <2>2. PICK less \in SUBSET S : less = s \ {x}
      OBVIOUS
  <2>3. v \in Merging /\ Merges(v, Chunks(less), Ats(less))
    <3> HIDE DEF D, ch, Chunks, Ats
    <3> QED
        BY <1>7, <1>10, <2>1, <2>2
  <2>4. PICK batch \in Batches : batch = list[x]
      BY <1>4, <2>1
  <2>5. \A i \in less : list[i].at # batch.at /\ list[i].chunks \cap batch.chunks = {}
      BY <1>1, <1>4, <2>2, <2>4 DEF Tidy
  <2>6. batch.at \notin Ats(less) /\ batch.chunks \cap Chunks(less) = {}
      BY <2>5
  <2>7. Chunks(s) = Chunks(less) \cup batch.chunks /\ Ats(s) = Ats(less) \cup {batch.at}
      BY <2>1, <2>2, <2>4
  <2> HIDE DEF Chunks, Ats
  <2>8. PICK w : w = Visited(v, batch)
      OBVIOUS
  <2>9. w \in Merging /\ Merges(w, Chunks(less) \cup batch.chunks, Ats(less) \cup {batch.at})
      BY <2>3, <2>4, <2>6, <2>8, VisitFacts
  <2>10. Right(s, w)
      BY <2>7, <2>9
  <2> HIDE DEF D, Right, ch
  <2> QED
      BY <1>7, <2>1, <2>4, <2>8, <2>9, <2>10
<1>11. \A s \in SUBSET S : D[s] \in SUBSET Merging
    OBVIOUS
<1> HIDE DEF ch, D, h, Right, Chunks, Ats
<1>12. \E f : Eq(f)
  <2>1. ASSUME NEW s \in SUBSET S, s # {}
        PROVE  ch[s] \in s /\ \A v \in D[s \ {ch[s]}] : h[<<ch[s], v>>] \in D[s]
    <3>1. ch[s] \in S /\ s \ {ch[s]} \in SUBSET S /\ ch[s] \in s
        BY <1>6, <2>1
    <3>2. ASSUME NEW v \in D[s \ {ch[s]}]
          PROVE  h[<<ch[s], v>>] \in D[s]
      <4>1. v \in Merging
          BY <1>11, <3>1
      <4>2. h[<<ch[s], v>>] = Visited(v, list[ch[s]])
          BY <1>8, <3>1, <4>1
      <4> QED
          BY <1>10, <2>1, <4>2
    <3> QED
        BY <3>1, <3>2
  <2>2. PICK f : IsFold(f, S, ch, start, h) /\ \A s \in SUBSET S : f[s] \in D[s]
      BY <1>4, <1>9, <2>1, FoldWithin
  <2>3. ASSUME NEW s \in SUBSET S, s # {}
        PROVE  h[<<ch[s], f[s \ {ch[s]}]>>] = Visited(f[s \ {Max(s)}], list[Max(s)])
    <3>1. ch[s] \in S /\ s \ {ch[s]} \in SUBSET S
        BY <1>6, <2>3
    <3>2. f[s \ {ch[s]}] \in Merging
        BY <1>11, <2>2, <3>1
    <3>3. h[<<ch[s], f[s \ {ch[s]}]>>] = Visited(f[s \ {ch[s]}], list[ch[s]])
        BY <1>8, <3>1, <3>2
    <3> QED
        BY <1>6, <2>3, <3>3
  <2>4. Eq(f)
      BY <2>2, <2>3 DEF IsFold
  <2> QED
      BY <2>4
<1>13. PICK f : f = (CHOOSE g : Eq(g))
    OBVIOUS
<1>14. Eq(f)
  <2> HIDE DEF Eq
  <2> QED
      BY <1>12, <1>13
<1>15. f[{}] = start
    BY <1>14
<1>16. \A s \in SUBSET S : s # {} => f[s] = Visited(f[s \ {ch[s]}], list[ch[s]])
    BY <1>6, <1>14
<1>17. PICK merged : merged = f[S]
    OBVIOUS
<1>18. MergeBatches(c) =
         [kept |-> [list |-> merged.kept, size |-> c.size - Len(merged.out) * BatchBytes],
          out |-> merged.out]
    BY <1>1, <1>4, <1>5, <1>13, <1>17, MergeBatchesFold
<1> HIDE DEF Eq
<1>19. \A s \in SUBSET S : f[s] \in D[s]
  <2>1. \A s \in SUBSET S : s # {} =>
              ch[s] \in s /\ (f[s \ {ch[s]}] \in D[s \ {ch[s]}] => f[s] \in D[s])
      BY <1>6, <1>10, <1>16
  <2>2. f[{}] \in D[{}]
      BY <1>9, <1>15
  <2> QED
      BY <1>4, <2>1, <2>2, SubsetInduction
<1>20. merged \in Merging /\ Merges(merged, Chunks(S), Ats(S))
    BY <1>7, <1>17, <1>19 DEF Right
<1>21. Chunks(S) = ChunksOf(c.list) /\ Ats(S) = AtsOf(c.list)
    BY <1>1, <1>4 DEF Chunks, Ats, ChunksOf, AtsOf
<1>22. PICK r : r = MergeBatches(c)
    OBVIOUS
<1>23. PICK size : size = c.size - Len(merged.out) * BatchBytes
    OBVIOUS
<1>24. /\ r.kept.list = merged.kept /\ r.out = merged.out /\ r.kept \in CacheOver({size})
    BY <1>18, <1>20, <1>22, <1>23 DEF CacheOver, Merging
<1>25. IsCache(r.kept)
    BY <1>20, <1>24 DEF IsCache, Merges
<1> QED
    BY <1>20, <1>21, <1>22, <1>24, <1>25 DEF Merges

\* extract takes batches away, the emptied ones first.
LEMMA ExtractFacts ==
    ASSUME NEW c, IsCache(c), NEW min
    PROVE  LET r == Extract(c, min) IN Splits(c, r.kept, r.out)
<1>1. PICK m : m = IF c.size > OverheadSize(c) /\ 2 * OverheadSize(c) > c.size
                   THEN MergeBatches(c) ELSE [kept |-> c, out |-> <<>>]
    OBVIOUS
<1>2. /\ IsCache(m.kept) /\ Tidy(m.out)
      /\ ChunksOf(m.kept.list) = ChunksOf(c.list) /\ ChunksOf(m.out) = {}
      /\ AtsOf(m.kept.list) \cup AtsOf(m.out) = AtsOf(c.list)
      /\ AtsOf(m.kept.list) \cap AtsOf(m.out) = {}
  <2>1. CASE m = MergeBatches(c)
      BY <2>1, MergeFacts
  <2>2. CASE m = [kept |-> c, out |-> <<>>]
      BY <2>2, EmptyList
  <2> QED
      BY <1>1, <2>1, <2>2
<1>3. PICK d : d = DequeueDownTo(m.kept, min)
    OBVIOUS
<1>4. Splits(m.kept, d.kept, d.out)
    BY <1>2, <1>3, DequeueFacts
<1>5. PICK out : out = m.out \o d.out
    OBVIOUS
<1>6. /\ Tidy(out) /\ ChunksOf(out) = ChunksOf(d.out)
      /\ AtsOf(out) = AtsOf(m.out) \cup AtsOf(d.out)
  <2>1. PICK a : a = m.out
      OBVIOUS
  <2>2. PICK b : b = d.out
      OBVIOUS
  <2>3. /\ Tidy(a) /\ Tidy(b) /\ ChunksOf(a) \cap ChunksOf(b) = {}
        /\ AtsOf(a) \cap AtsOf(b) = {}
      BY <1>2, <1>4, <2>1, <2>2 DEF Splits
  <2>4. out = a \o b
      BY <1>5, <2>1, <2>2
  <2>5. /\ Tidy(a \o b) /\ ChunksOf(a \o b) = ChunksOf(a) \cup ChunksOf(b)
        /\ AtsOf(a \o b) = AtsOf(a) \cup AtsOf(b)
      BY <2>3, ConcatLists
  <2> QED
      BY <1>2, <2>1, <2>2, <2>4, <2>5
<1>7. PICK r : r = Extract(c, min)
    OBVIOUS
<1>8. r = [kept |-> d.kept, out |-> out]
    BY <1>1, <1>3, <1>5, <1>7 DEF Extract
<1>9. r.kept = d.kept /\ r.out = out
    BY <1>8
<1>10. Splits(c, d.kept, out)
    BY <1>2, <1>4, <1>6 DEF Splits
<1> QED
    BY <1>7, <1>9, <1>10

-----------------------------------------------------------------------------
(* Sums over finite sets.                                                  *)

\* g is the sum of w over each part of S, whichever element is taken last.
IsSum(g, S, w) ==
    /\ g[{}] = 0
    /\ \A s \in SUBSET S : g[s] \in Int /\ \A x \in s : g[s] = w[x] + g[s \ {x}]

\* A fold that adds the elements of S in the order of ch does not depend on the order.
LEMMA FoldSums ==
    ASSUME NEW S, IsFiniteSet(S), NEW w, \A x \in S : w[x] \in Int, NEW ch, NEW g,
           g[{}] = 0,
           \A s \in SUBSET S : s # {} => ch[s] \in s /\ g[s] = w[ch[s]] + g[s \ {ch[s]}]
    PROVE  IsSum(g, S, w)
<1> DEFINE Good(s) == g[s] \in Int /\ \A x \in s : g[s] = w[x] + g[s \ {x}]
           Bad     == {n \in Nat : \E s \in SUBSET S : Cardinality(s) = n /\ ~Good(s)}
<1>1. \A s \in SUBSET S : Cardinality(s) \in Nat
    BY PartSizes
<1>2. SUFFICES ASSUME Bad # {} PROVE FALSE
    BY <1>1 DEF IsSum
<1>3. PICK n \in Bad : \A m \in Bad : n <= m
    BY <1>2, LeastNumber
<1>4. PICK s \in SUBSET S : Cardinality(s) = n /\ ~Good(s)
    BY <1>3
<1>5. ASSUME NEW r \in SUBSET S, Cardinality(r) < n PROVE Good(r)
  <2>1. Cardinality(r) \in Nat /\ n \in Nat
      BY <1>1
  <2>2. Cardinality(r) \notin Bad
      BY <1>3, <1>5, <2>1
  <2> HIDE DEF Good
  <2> QED
      BY <2>1, <2>2
<1>6. s # {}
  <2>1. Good({})
      OBVIOUS
  <2> HIDE DEF Good
  <2> QED
      BY <1>4, <2>1
<1>7. PICK y \in s : y = ch[s] /\ g[s] = w[y] + g[s \ {y}]
    BY <1>6
<1>8. \A x \in s : Cardinality(s \ {x}) < n /\ s \ {x} \in SUBSET S
    BY <1>4, PartSizes
<1>9. \A x \in s : Good(s \ {x})
  <2> HIDE DEF Good
  <2> QED
      BY <1>5, <1>8
<1>10. g[s] \in Int
  <2>1. PICK r : r = s \ {y}
      OBVIOUS
  <2>2. Good(r)
    <3> HIDE DEF Good
    <3> QED
        BY <1>9, <2>1
  <2>3. g[r] \in Int /\ w[y] \in Int /\ g[s] = w[y] + g[r]
      BY <1>7, <2>1, <2>2
  <2> HIDE DEF Good
  <2> QED
      BY <2>3
<1>11. ASSUME NEW x \in s PROVE g[s] = w[x] + g[s \ {x}]
  <2>1. CASE x = y
      BY <1>7, <2>1
  <2>2. CASE x # y
    <3>1. PICK u, v, r : u = s \ {y} /\ v = s \ {x} /\ r = s \ {x, y}
        OBVIOUS
    <3>2. /\ u \ {x} = r /\ v \ {y} = r /\ x \in u /\ y \in v
          /\ u \in SUBSET S /\ v \in SUBSET S /\ r \in SUBSET S
        BY <2>2, <3>1
    <3>3. Good(u) /\ Good(v) /\ Cardinality(u) < n
      <4> HIDE DEF Good
      <4> QED
          BY <1>8, <1>9, <3>1
    <3>4. Good(r)
      <4> HIDE DEF Good
      <4>1. Cardinality(r) = Cardinality(u) - 1
          BY <3>2, PartSizes
      <4>2. Cardinality(r) \in Nat /\ Cardinality(u) \in Nat /\ n \in Nat
          BY <1>1, <3>2
      <4>3. Cardinality(r) < n
          BY <3>3, <4>1, <4>2
      <4> QED
          BY <1>5, <3>2, <4>3
    <3>5. g[u] = w[x] + g[r] /\ g[v] = w[y] + g[r] /\ g[r] \in Int
        BY <3>2, <3>3, <3>4
    <3>6. w[x] \in Int /\ w[y] \in Int /\ g[s] = w[y] + g[u]
        BY <1>7, <3>1
    <3> HIDE DEF Good
    <3>7. w[y] + (w[x] + g[r]) = w[x] + (w[y] + g[r])
        BY <3>5, <3>6
    <3> QED
        BY <3>1, <3>5, <3>6, <3>7
  <2> QED
      BY <2>1, <2>2
<1> QED
    BY <1>4, <1>10, <1>11

\* There is only one sum.
LEMMA OneSum ==
    ASSUME NEW S, IsFiniteSet(S), NEW w, NEW v, \A x \in S : w[x] = v[x],
           NEW g, IsSum(g, S, w), NEW T, S \subseteq T, NEW f, IsSum(f, T, v)
    PROVE  \A s \in SUBSET S : g[s] = f[s]
<1> DEFINE ch == [s \in SUBSET S |-> CHOOSE x \in s : TRUE]
           D  == [s \in SUBSET S |-> {f[s]}]
<1>1. \A s \in SUBSET S : D[s] = {f[s]}
    OBVIOUS
<1>2. \A s \in SUBSET S : s # {} => ch[s] \in s
    OBVIOUS
<1> HIDE DEF ch, D
<1>3. g[{}] \in D[{}]
    BY <1>1 DEF IsSum
<1>4. ASSUME NEW s \in SUBSET S, s # {}, g[s \ {ch[s]}] \in D[s \ {ch[s]}]
      PROVE  g[s] \in D[s]
  <2>1. PICK x \in s : x = ch[s]
      BY <1>2, <1>4
  <2>2. s \ {x} \in SUBSET S
      OBVIOUS
  <2>3. g[s \ {x}] = f[s \ {x}]
      BY <1>1, <1>4, <2>1, <2>2
  <2>4. g[s] = w[x] + g[s \ {x}] /\ f[s] = v[x] + f[s \ {x}]
      BY DEF IsSum
  <2> QED
      BY <1>1, <2>3, <2>4
<1>5. \A s \in SUBSET S : g[s] \in D[s]
  <2>1. \A s \in SUBSET S : s # {} =>
            ch[s] \in s /\ (g[s \ {ch[s]}] \in D[s \ {ch[s]}] => g[s] \in D[s])
      BY <1>2, <1>4
  <2> QED
      BY <1>3, <2>1, SubsetInduction
<1> QED
    BY <1>1, <1>5

\* Any element of a set, as the folds choose it.
AnyOf(s) == CHOOSE p \in s : TRUE

\* What MapThenSumSet computes, as the function it is defined by.
Total(w, S) == MapThenSumSet(LAMBDA x : w[x], S)

\* As a fold along some order of its elements.
LEMMA TotalFold ==
    ASSUME NEW w, NEW S
    PROVE  Total(w, S) =
             (CHOOSE f : f = [s \in SUBSET S |->
                IF s = {} THEN 0 ELSE w[AnyOf(s)] + f[s \ {AnyOf(s)}]])[S]
BY DEF Total, MapThenSumSet, MapThenFoldSet, AnyOf

\* The equation of a sum has a solution, which is one.
LEMMA SumChosen ==
    ASSUME NEW S, IsFiniteSet(S), NEW w, \A x \in S : w[x] \in Int, NEW ch,
           \A s \in SUBSET S : s # {} => ch[s] \in s,
           NEW g, g = (CHOOSE f : f = [s \in SUBSET S |->
                         IF s = {} THEN 0 ELSE w[ch[s]] + f[s \ {ch[s]}]])
    PROVE  IsSum(g, S, w)
<1> DEFINE D     == [s \in SUBSET S |-> Int]
           h     == [q \in S \X Int |-> w[q[1]] + q[2]]
           Eq(f) == f = [s \in SUBSET S |-> IF s = {} THEN 0 ELSE w[ch[s]] + f[s \ {ch[s]}]]
<1>1. \A s \in SUBSET S : D[s] = Int
    OBVIOUS
<1>2. \A x \in S, v \in Int : h[<<x, v>>] = w[x] + v
    OBVIOUS
<1> HIDE DEF D, h
<1>3. \E f : Eq(f)
  <2>1. ASSUME NEW s \in SUBSET S, s # {}
        PROVE  ch[s] \in s /\ \A v \in D[s \ {ch[s]}] : h[<<ch[s], v>>] \in D[s]
    <3>1. ch[s] \in S /\ s \ {ch[s]} \in SUBSET S /\ ch[s] \in s
        BY <2>1
    <3> QED
        BY <1>1, <1>2, <3>1
  <2>2. 0 \in D[{}]
      BY <1>1
  <2>3. PICK f : IsFold(f, S, ch, 0, h) /\ \A s \in SUBSET S : f[s] \in D[s]
      BY <2>1, <2>2, FoldWithin
  <2>4. ASSUME NEW s \in SUBSET S, s # {}
        PROVE  h[<<ch[s], f[s \ {ch[s]}]>>] = w[ch[s]] + f[s \ {ch[s]}]
    <3>1. ch[s] \in S /\ s \ {ch[s]} \in SUBSET S
        BY <2>4
    <3> QED
        BY <1>1, <1>2, <2>3, <3>1
  <2>5. Eq(f)
      BY <2>3, <2>4 DEF IsFold
  <2> QED
      BY <2>5
<1>4. Eq(g)
  <2>1. g = (CHOOSE f : Eq(f))
      OBVIOUS
  <2> HIDE DEF Eq
  <2> QED
      BY <1>3, <2>1
<1>5. g[{}] = 0
    BY <1>4
<1>6. \A s \in SUBSET S : s # {} => ch[s] \in s /\ g[s] = w[ch[s]] + g[s \ {ch[s]}]
    BY <1>4
<1> HIDE DEF Eq
<1> QED
    BY <1>5, <1>6, FoldSums

\* The total of a finite set is its sum.
LEMMA TotalIsSum ==
    ASSUME NEW S, IsFiniteSet(S), NEW w, \A x \in S : w[x] \in Int
    PROVE  \E g : IsSum(g, S, w) /\ g[S] = Total(w, S)
<1> DEFINE ch == [s \in SUBSET S |-> AnyOf(s)]
<1>1. \A s \in SUBSET S : ch[s] = AnyOf(s) /\ (s # {} => ch[s] \in s)
    BY DEF AnyOf
<1>2. PICK g : g = (CHOOSE f : f = [s \in SUBSET S |->
                     IF s = {} THEN 0 ELSE w[ch[s]] + f[s \ {ch[s]}]])
    OBVIOUS
<1>3. g = (CHOOSE f : f = [s \in SUBSET S |->
             IF s = {} THEN 0 ELSE w[AnyOf(s)] + f[s \ {AnyOf(s)}]])
  <2>1. ASSUME NEW f
        PROVE  [s \in SUBSET S |-> IF s = {} THEN 0 ELSE w[ch[s]] + f[s \ {ch[s]}]]
               = [s \in SUBSET S |-> IF s = {} THEN 0 ELSE w[AnyOf(s)] + f[s \ {AnyOf(s)}]]
      BY <1>1
  <2> QED
      BY <1>2, <2>1
<1> HIDE DEF ch
<1>4. IsSum(g, S, w)
  <2>1. \A s \in SUBSET S : s # {} => ch[s] \in s
      BY <1>1
  <2> QED
      BY <1>2, <2>1, SumChosen
<1> QED
    BY <1>3, <1>4, TotalFold

\* What w adds up to over no element, and over one more.
LEMMA TotalAdds ==
    ASSUME NEW w
    PROVE  /\ Total(w, {}) = 0
           /\ \A S, x : IsFiniteSet(S) /\ x \notin S /\ (\A y \in S \cup {x} : w[y] \in Int)
                => Total(w, S) \in Int /\ Total(w, S \cup {x}) = w[x] + Total(w, S)
<1>1. Total(w, {}) = 0
  <2>1. IsFiniteSet({})
      BY FS_EmptySet
  <2>2. PICK g : IsSum(g, {}, w) /\ g[{}] = Total(w, {})
      BY <2>1, TotalIsSum
  <2> QED
      BY <2>2 DEF IsSum
<1>2. ASSUME NEW S, NEW x, IsFiniteSet(S), x \notin S, \A y \in S \cup {x} : w[y] \in Int
      PROVE  Total(w, S) \in Int /\ Total(w, S \cup {x}) = w[x] + Total(w, S)
  <2>1. PICK T : T = S \cup {x}
      OBVIOUS
  <2>2. IsFiniteSet(T)
      BY <1>2, <2>1, FS_AddElement
  <2>3. PICK g : IsSum(g, S, w) /\ g[S] = Total(w, S)
      BY <1>2, TotalIsSum
  <2>4. \A y \in T : w[y] \in Int
      BY <1>2, <2>1
  <2>5. PICK f : IsSum(f, T, w) /\ f[T] = Total(w, T)
      BY <2>2, <2>4, TotalIsSum
  <2>6. g[S] = f[S]
    <3>1. S \subseteq T /\ \A y \in S : w[y] = w[y]
        BY <2>1
    <3>2. \A s \in SUBSET S : g[s] = f[s]
        BY <1>2, <2>3, <2>5, <3>1, OneSum
    <3> QED
        BY <3>2
  <2>7. T \ {x} = S /\ x \in T /\ T \in SUBSET T /\ S \in SUBSET S
      BY <1>2, <2>1
  <2>8. f[T] = w[x] + f[T \ {x}]
      BY <2>5, <2>7 DEF IsSum
  <2>9. g[S] \in Int
      BY <2>3, <2>7 DEF IsSum
  <2> QED
      BY <2>1, <2>3, <2>5, <2>6, <2>7, <2>8, <2>9
<1> QED
    BY <1>1, <1>2

\* Weights that agree add up to the same.
LEMMA TotalSame ==
    ASSUME NEW S, IsFiniteSet(S), NEW w, NEW v, \A x \in S : w[x] \in Int /\ w[x] = v[x]
    PROVE  Total(w, S) = Total(v, S) /\ Total(w, S) \in Int
<1>1. \A x \in S : w[x] \in Int
    OBVIOUS
<1>2. \A x \in S : v[x] \in Int
    OBVIOUS
<1>3. \A x \in S : w[x] = v[x]
    OBVIOUS
<1>4. PICK g : IsSum(g, S, w) /\ g[S] = Total(w, S)
    BY <1>1, TotalIsSum
<1>5. PICK f : IsSum(f, S, v) /\ f[S] = Total(v, S)
    BY <1>2, TotalIsSum
<1>6. \A s \in SUBSET S : g[s] = f[s]
    BY <1>3, <1>4, <1>5, OneSum
<1> QED
    BY <1>4, <1>5, <1>6 DEF IsSum

\* The elements of two sets that have none in common.
LEMMA TotalUnion ==
    ASSUME NEW A, NEW B, IsFiniteSet(A), IsFiniteSet(B), A \cap B = {}, NEW w,
           \A x \in A \cup B : w[x] \in Int
    PROVE  Total(w, A \cup B) = Total(w, A) + Total(w, B)
<1> DEFINE ch == [s \in SUBSET B |-> AnyOf(s)]
           f  == [s \in SUBSET B |-> Total(w, A \cup s) - Total(w, s)]
           D  == [s \in SUBSET B |-> {Total(w, A)}]
<1>1. \A s \in SUBSET B : s # {} => ch[s] \in s
    BY DEF AnyOf
<1>2. \A s \in SUBSET B : f[s] = Total(w, A \cup s) - Total(w, s)
    OBVIOUS
<1>3. \A s \in SUBSET B : D[s] = {Total(w, A)}
    OBVIOUS
<1> HIDE DEF ch, f, D
<1>4. \A s \in SUBSET B : IsFiniteSet(s) /\ IsFiniteSet(A \cup s)
    BY FS_Subset, FS_Union
<1>5. \A s \in SUBSET B : Total(w, s) \in Int /\ Total(w, A \cup s) \in Int
  <2> SUFFICES ASSUME NEW s \in SUBSET B
               PROVE  Total(w, s) \in Int /\ Total(w, A \cup s) \in Int
      OBVIOUS
  <2>1. \A x \in s : w[x] \in Int /\ w[x] = w[x]
      OBVIOUS
  <2>2. Total(w, s) \in Int
      BY <1>4, <2>1, TotalSame
  <2>3. PICK u : u = A \cup s
      OBVIOUS
  <2>4. IsFiniteSet(u) /\ \A x \in u : w[x] \in Int /\ w[x] = w[x]
      BY <1>4, <2>3
  <2>5. Total(w, u) \in Int
      BY <2>4, TotalSame
  <2> QED
      BY <2>2, <2>3, <2>5
<1>6. f[{}] \in D[{}]
  <2>1. A \cup {} = A /\ {} \in SUBSET B
      OBVIOUS
  <2>2. Total(w, {}) = 0
      BY TotalAdds
  <2>3. f[{}] = Total(w, A) - 0 /\ Total(w, A) \in Int
      BY <1>2, <1>5, <2>1, <2>2
  <2> QED
      BY <1>3, <2>1, <2>3
<1>7. ASSUME NEW s \in SUBSET B, s # {}, f[s \ {ch[s]}] \in D[s \ {ch[s]}]
      PROVE  f[s] \in D[s]
  <2>1. PICK x \in B : x = ch[s] /\ x \in s
      BY <1>1, <1>7
  <2>2. PICK r \in SUBSET B : r = s \ {x}
      OBVIOUS
  <2>3. PICK u : u = A \cup r
      OBVIOUS
  <2>4. /\ x \notin r /\ s = r \cup {x} /\ x \notin u /\ A \cup s = u \cup {x}
      BY <2>1, <2>2, <2>3
  <2>5. IsFiniteSet(r) /\ IsFiniteSet(u)
      BY <1>4, <2>3
  <2>6. (\A y \in r \cup {x} : w[y] \in Int) /\ \A y \in u \cup {x} : w[y] \in Int
      BY <2>3
  <2>7. Total(w, r \cup {x}) = w[x] + Total(w, r)
      BY <2>4, <2>5, <2>6, TotalAdds
  <2>8. Total(w, u \cup {x}) = w[x] + Total(w, u)
      BY <2>4, <2>5, <2>6, TotalAdds
  <2>9. w[x] \in Int /\ Total(w, r) \in Int /\ Total(w, u) \in Int
      BY <1>5, <2>3
  <2>10. f[s] = Total(w, u \cup {x}) - Total(w, r \cup {x})
      BY <1>2, <2>4
  <2>11. f[r] = Total(w, u) - Total(w, r)
      BY <1>2, <2>3
  <2>12. f[s] = f[r]
      BY <2>7, <2>8, <2>9, <2>10, <2>11
  <2> QED
      BY <1>3, <1>7, <2>1, <2>2, <2>12
<1>8. \A s \in SUBSET B : f[s] \in D[s]
  <2>1. \A s \in SUBSET B : s # {} =>
              ch[s] \in s /\ (f[s \ {ch[s]}] \in D[s \ {ch[s]}] => f[s] \in D[s])
      BY <1>1, <1>7
  <2> QED
      BY <1>6, <2>1, SubsetInduction
<1>9. Total(w, A \cup B) - Total(w, B) = Total(w, A)
    BY <1>2, <1>3, <1>8
<1>10. A \cup {} = A /\ {} \in SUBSET B /\ B \in SUBSET B
    OBVIOUS
<1>11. Total(w, A) \in Int /\ Total(w, B) \in Int /\ Total(w, A \cup B) \in Int
    BY <1>5, <1>10
<1> QED
    BY <1>9, <1>11

\* The sizes of the batches of a list add up to total.
Runs(list, run) ==
    /\ run[0] = 0
    /\ \A i \in 1 .. Len(list) : run[i - 1] \in Int /\ run[i] = run[i - 1] + list[i].size

Adds(list, total) == \E run : Runs(list, run) /\ run[Len(list)] = total

\* What a list is, and its running sums.
LEMMA RunFacts ==
    ASSUME NEW list \in Seq(Batches), NEW run, Runs(list, run)
    PROVE  /\ Len(list) \in Nat /\ DOMAIN list = 1 .. Len(list)
           /\ \A i \in 1 .. Len(list) : list[i].size \in Int
           /\ \A i \in 0 .. Len(list) : run[i] \in Int
<1>1. Len(list) \in Nat /\ DOMAIN list = 1 .. Len(list)
    OBVIOUS
<1>2. \A i \in 1 .. Len(list) : list[i].size \in Int
  <2>1. \A i \in 1 .. Len(list) : list[i] \in Batches
      BY <1>1
  <2>2. \A b \in Batches : b.size \in Int
      BY DEF Batches
  <2> QED
      BY <2>1, <2>2
<1>3. ASSUME NEW i \in 0 .. Len(list) PROVE run[i] \in Int
  <2>1. CASE i = 0
      BY <2>1 DEF Runs
  <2>2. CASE i \in 1 .. Len(list)
      BY <1>2, <2>2 DEF Runs
  <2> QED
      BY <1>1, <2>1, <2>2
<1> QED
    BY <1>1, <1>2, <1>3

\* No batches have no bytes.
LEMMA AddsNothing == Adds(<<>>, 0)
<1> DEFINE run == [i \in {0} |-> 0]
<1>1. Runs(<<>>, run) /\ run[Len(<<>>)] = 0
    BY DEF Runs
<1> QED
    BY <1>1 DEF Adds

\* Two lists, one behind the other.
LEMMA AddsConcat ==
    ASSUME NEW list \in Seq(Batches), NEW more \in Seq(Batches), NEW a, NEW b,
           Adds(list, a), Adds(more, b)
    PROVE  Adds(list \o more, a + b)
<1>1. PICK run : Runs(list, run) /\ run[Len(list)] = a
    BY DEF Adds
<1>2. PICK run2 : Runs(more, run2) /\ run2[Len(more)] = b
    BY DEF Adds
<1>3. PICK n \in Nat, m \in Nat : n = Len(list) /\ m = Len(more)
    OBVIOUS
<1>4. PICK both : both = list \o more
    OBVIOUS
<1>5. Len(both) = n + m /\ \A i \in 1 .. n + m : both[i] = IF i <= n THEN list[i] ELSE more[i - n]
    BY <1>3, <1>4, ConcatProperties
<1>6. \A i \in 0 .. n : run[i] \in Int
    BY <1>1, <1>3, RunFacts
<1>7. \A i \in 0 .. m : run2[i] \in Int
    BY <1>2, <1>3, RunFacts
<1>8. run2[0] = 0 /\ \A i \in 1 .. m : run2[i] = run2[i - 1] + more[i].size
    BY <1>2, <1>3 DEF Runs
<1>9. run[0] = 0 /\ \A i \in 1 .. n : run[i] = run[i - 1] + list[i].size
    BY <1>1, <1>3 DEF Runs
<1>10. \A i \in 1 .. m : more[i].size \in Int
    BY <1>2, <1>3, RunFacts
<1> DEFINE glue == [i \in 0 .. n + m |-> IF i <= n THEN run[i] ELSE run[n] + run2[i - n]]
<1>11. \A i \in 0 .. n + m : glue[i] = IF i <= n THEN run[i] ELSE run[n] + run2[i - n]
    OBVIOUS
<1> HIDE DEF glue
<1>12. \A i \in 0 .. n : glue[i] = run[i]
    BY <1>11
<1>13. \A i \in 0 .. m : glue[n + i] = run[n] + run2[i]
  <2> SUFFICES ASSUME NEW i \in 0 .. m PROVE glue[n + i] = run[n] + run2[i]
      OBVIOUS
  <2>1. CASE i = 0
      BY <1>6, <1>8, <1>12, <2>1
  <2>2. CASE i # 0
    <3>1. n + i \in 0 .. n + m /\ ~ (n + i <= n) /\ (n + i) - n = i
        BY <2>2
    <3> QED
        BY <1>11, <3>1
  <2> QED
      BY <2>1, <2>2
<1>14. ASSUME NEW i \in 1 .. n + m
       PROVE  glue[i - 1] \in Int /\ glue[i] = glue[i - 1] + both[i].size
  <2>1. CASE i <= n
    <3>1. i \in 0 .. n /\ i - 1 \in 0 .. n /\ i \in 1 .. n
        BY <2>1
    <3> QED
        BY <1>5, <1>6, <1>9, <1>12, <2>1, <3>1
  <2>2. CASE ~ (i <= n)
    <3>1. PICK j \in 1 .. m : j = i - n /\ i = n + j /\ i - 1 = n + (j - 1)
      <4>1. i - n \in 1 .. m /\ i = n + (i - n) /\ i - 1 = n + ((i - n) - 1)
          BY <2>2
      <4> QED
          BY <4>1
    <3>2. j \in 0 .. m /\ j - 1 \in 0 .. m /\ n \in 0 .. n
        OBVIOUS
    <3>3. glue[i] = run[n] + run2[j] /\ glue[i - 1] = run[n] + run2[j - 1]
        BY <1>13, <3>1, <3>2
    <3>4. run2[j] = run2[j - 1] + more[j].size /\ both[i] = more[j]
        BY <1>5, <1>8, <2>2, <3>1
    <3>5. run[n] \in Int /\ run2[j] \in Int /\ run2[j - 1] \in Int /\ more[j].size \in Int
        BY <1>6, <1>7, <1>10, <3>2
    <3>6. PICK u \in Int, v \in Int, w \in Int :
            u = run[n] /\ v = run2[j - 1] /\ w = both[i].size /\ run2[j] = v + w
        BY <3>4, <3>5
    <3>7. u + (v + w) = (u + v) + w /\ u + v \in Int
        OBVIOUS
    <3> QED
        BY <3>3, <3>6, <3>7
  <2> QED
      BY <2>1, <2>2
<1>15. glue[0] = 0 /\ glue[n + m] = a + b
  <2>1. 0 \in 0 .. n /\ m \in 0 .. m
      OBVIOUS
  <2> QED
      BY <1>1, <1>2, <1>3, <1>9, <1>12, <1>13, <2>1
<1>16. Runs(both, glue)
    BY <1>5, <1>14, <1>15 DEF Runs
<1> QED
    BY <1>4, <1>5, <1>15, <1>16 DEF Adds

\* One more batch.
LEMMA AddsAppend ==
    ASSUME NEW list \in Seq(Batches), NEW batch \in Batches, NEW a, Adds(list, a)
    PROVE  Adds(Append(list, batch), a + batch.size)
<1>1. PICK one : one = <<batch>>
    OBVIOUS
<1>2. one \in Seq(Batches) /\ Len(one) = 1 /\ one[1] = batch /\ batch.size \in Int
    BY <1>1 DEF Batches
<1>3. Adds(one, batch.size)
  <2> DEFINE run == [i \in 0 .. 1 |-> IF i = 0 THEN 0 ELSE batch.size]
  <2>1. run[0] = 0 /\ run[1] = batch.size
      OBVIOUS
  <2> HIDE DEF run
  <2>2. \A i \in 1 .. 1 : i = 1 /\ i - 1 = 0
      OBVIOUS
  <2>3. Runs(one, run)
      BY <1>2, <2>1, <2>2 DEF Runs
  <2> QED
      BY <1>2, <2>1, <2>3 DEF Adds
<1>4. Adds(list \o one, a + batch.size)
    BY <1>2, <1>3, AddsConcat
<1>5. Append(list, batch) = list \o one
    BY <1>1, AppendIsConcat
<1> QED
    BY <1>4, <1>5

\* The last batch grows.
LEMMA AddsLast ==
    ASSUME NEW list \in Seq(Batches), NEW wide \in Seq(Batches), NEW n, n = Len(list), n # 0,
           DOMAIN wide = DOMAIN list, \A i \in DOMAIN list \ {n} : wide[i] = list[i],
           NEW d \in Int, wide[n].size = list[n].size + d, NEW a, Adds(list, a)
    PROVE  Adds(wide, a + d)
<1>1. PICK run : Runs(list, run) /\ run[n] = a
    BY DEF Adds
<1>2. /\ n \in Nat /\ DOMAIN list = 1 .. n /\ Len(wide) = n
      /\ \A i \in 0 .. n : run[i] \in Int
      /\ \A i \in 1 .. n : list[i].size \in Int
    BY <1>1, RunFacts
<1>3. run[0] = 0 /\ \A i \in 1 .. n : run[i] = run[i - 1] + list[i].size
    BY <1>1 DEF Runs
<1> DEFINE run2 == [i \in 0 .. n |-> IF i = n THEN run[n] + d ELSE run[i]]
<1>4. run2[n] = run[n] + d /\ \A i \in 0 .. n : i # n => run2[i] = run[i]
    BY <1>2
<1> HIDE DEF run2
<1>5. ASSUME NEW i \in 1 .. n
      PROVE  run2[i - 1] \in Int /\ run2[i] = run2[i - 1] + wide[i].size
  <2>1. i - 1 \in 0 .. n /\ i - 1 # n /\ i \in 0 .. n
      BY <1>2
  <2>2. run2[i - 1] = run[i - 1] /\ run[i - 1] \in Int /\ list[i].size \in Int
      BY <1>2, <1>4, <2>1
  <2>3. CASE i = n
      BY <1>3, <1>4, <2>2, <2>3
  <2>4. CASE i # n
      BY <1>2, <1>3, <1>4, <2>1, <2>2, <2>4
  <2> QED
      BY <2>2, <2>3, <2>4
<1>6. run2[0] = 0
    BY <1>2, <1>3, <1>4
<1>7. Runs(wide, run2)
    BY <1>2, <1>5, <1>6 DEF Runs
<1> QED
    BY <1>1, <1>2, <1>4, <1>7 DEF Adds

\* A list has one sum.
LEMMA AddsOnce ==
    ASSUME NEW list \in Seq(Batches), NEW a, NEW b, Adds(list, a), Adds(list, b)
    PROVE  a = b
<1>1. PICK f : Runs(list, f) /\ f[Len(list)] = a
    BY DEF Adds
<1>2. PICK g : Runs(list, g) /\ g[Len(list)] = b
    BY DEF Adds
<1>3. PICK n \in Nat : n = Len(list)
    OBVIOUS
<1> DEFINE Bad == {i \in Nat : i <= n /\ f[i] # g[i]}
<1>4. SUFFICES ASSUME Bad # {} PROVE FALSE
    BY <1>1, <1>2, <1>3
<1>5. PICK i \in Bad : \A j \in Bad : i <= j
    BY <1>4, LeastNumber
<1>6. f[0] = g[0]
    BY <1>1, <1>2 DEF Runs
<1>7. i \in 1 .. n /\ i - 1 \in Nat /\ i - 1 <= n /\ ~ (i <= i - 1)
    BY <1>5, <1>6
<1>8. f[i - 1] = g[i - 1]
    BY <1>5, <1>7
<1>9. f[i] = f[i - 1] + list[i].size /\ g[i] = g[i - 1] + list[i].size
    BY <1>1, <1>2, <1>3, <1>7 DEF Runs
<1> QED
    BY <1>5, <1>8, <1>9

\* The front of a list and the rest of it.
LEMMA AddsSplit ==
    ASSUME NEW list \in Seq(Batches), NEW a, Adds(list, a), NEW k \in 0 .. Len(list),
           NEW front, front = SubSeq(list, 1, k),
           NEW left, left = SubSeq(list, k + 1, Len(list))
    PROVE  \E b : Adds(front, b) /\ Adds(left, a - b)
<1>1. PICK run : Runs(list, run) /\ run[Len(list)] = a
    BY DEF Adds
<1>2. PICK n \in Nat : n = Len(list) /\ k \in 0 .. n /\ k \in Nat
    OBVIOUS
<1>3. Len(front) = k /\ \A i \in 1 .. k : front[i] = list[i]
    BY <1>2
<1>4. Len(left) = n - k /\ \A i \in 1 .. n - k : left[i] = list[i + k]
  <2>1. \A i \in k + 1 .. n : i \in 1 .. Len(list)
      BY <1>2
  <2>2. left \in Seq(Batches) /\ Len(left) = n - k
      BY <1>2, <2>1
  <2>3. \A i \in 1 .. n - k : left[i] = list[(k + 1) + i - 1]
      BY <1>2, <2>1
  <2>4. \A i \in 1 .. n - k : (k + 1) + i - 1 = i + k
      BY <1>2
  <2> QED
      BY <2>2, <2>3, <2>4
<1>5. \A i \in 0 .. n : run[i] \in Int
    BY <1>1, <1>2, RunFacts
<1>6. \A i \in 1 .. n : list[i].size \in Int
    BY <1>1, <1>2, RunFacts
<1>7. run[0] = 0 /\ \A i \in 1 .. n : run[i] = run[i - 1] + list[i].size
    BY <1>1, <1>2 DEF Runs
<1>8. Runs(front, run)
  <2>1. \A i \in 1 .. k : i \in 1 .. n /\ i - 1 \in 0 .. n
      BY <1>2
  <2> QED
      BY <1>3, <1>5, <1>7, <2>1 DEF Runs
<1> DEFINE run2 == [i \in 0 .. n - k |-> run[i + k] - run[k]]
<1>9. \A i \in 0 .. n - k : run2[i] = run[i + k] - run[k]
    OBVIOUS
<1> HIDE DEF run2
<1>10. ASSUME NEW i \in 1 .. n - k
       PROVE  run2[i - 1] \in Int /\ run2[i] = run2[i - 1] + left[i].size
  <2>1. /\ i \in 0 .. n - k /\ i - 1 \in 0 .. n - k
        /\ i + k \in 1 .. n /\ (i - 1) + k = (i + k) - 1 /\ (i + k) - 1 \in 0 .. n
        /\ i + k \in 0 .. n /\ k \in 0 .. n
      BY <1>2
  <2>2. run2[i] = run[i + k] - run[k] /\ run2[i - 1] = run[(i + k) - 1] - run[k]
      BY <1>9, <2>1
  <2>3. run[i + k] = run[(i + k) - 1] + left[i].size
      BY <1>4, <1>7, <2>1
  <2>4. left[i].size \in Int
      BY <1>4, <1>6, <2>1
  <2>5. run[i + k] \in Int /\ run[(i + k) - 1] \in Int /\ run[k] \in Int
      BY <1>5, <2>1
  <2>6. PICK u \in Int, v \in Int, w \in Int :
          u = run[k] /\ v = run[(i + k) - 1] /\ w = left[i].size
      BY <2>4, <2>5
  <2>7. v - u \in Int /\ (v + w) - u = (v - u) + w
      OBVIOUS
  <2> QED
      BY <2>2, <2>3, <2>6, <2>7
<1>11. run2[0] = 0 /\ run2[n - k] = a - run[k]
  <2>1. 0 \in 0 .. n - k /\ n - k \in 0 .. n - k /\ 0 + k = k /\ (n - k) + k = n /\ k \in 0 .. n
      BY <1>2
  <2> QED
      BY <1>1, <1>2, <1>5, <1>9, <2>1
<1>12. Runs(left, run2)
    BY <1>4, <1>10, <1>11 DEF Runs
<1>13. Adds(front, run[k]) /\ Adds(left, a - run[k])
    BY <1>3, <1>4, <1>8, <1>11, <1>12 DEF Adds
<1> QED
    BY <1>13

-----------------------------------------------------------------------------
(* SizeOfBatches.                                                          *)

\* SizeOfBatches adds up from the last batch to the first.
LEMMA SizeFold ==
    ASSUME NEW list
    PROVE  SizeOfBatches(list) =
             (CHOOSE f : f = [s \in SUBSET DOMAIN list |->
                IF s = {} THEN 0 ELSE f[s \ {Max(s)}] + list[Max(s)].size])[DOMAIN list]
BY DEF SizeOfBatches, FoldLeft, MapThenFoldSet

\* A fold that adds what it takes behind the sum.
LEMMA SumBehind ==
    ASSUME NEW S, IsFiniteSet(S), NEW w, \A x \in S : w[x] \in Int, NEW ch,
           \A s \in SUBSET S : s # {} => ch[s] \in s,
           NEW g, g = (CHOOSE f : f = [s \in SUBSET S |->
                         IF s = {} THEN 0 ELSE f[s \ {ch[s]}] + w[ch[s]]])
    PROVE  IsSum(g, S, w)
<1> DEFINE D     == [s \in SUBSET S |-> Int]
           h     == [q \in S \X Int |-> q[2] + w[q[1]]]
           Eq(f) == f = [s \in SUBSET S |-> IF s = {} THEN 0 ELSE f[s \ {ch[s]}] + w[ch[s]]]
<1>1. \A s \in SUBSET S : D[s] = Int
    OBVIOUS
<1>2. \A x \in S, v \in Int : h[<<x, v>>] = v + w[x]
    OBVIOUS
<1> HIDE DEF D, h
<1>3. \E f : Eq(f)
  <2>1. ASSUME NEW s \in SUBSET S, s # {}
        PROVE  ch[s] \in s /\ \A v \in D[s \ {ch[s]}] : h[<<ch[s], v>>] \in D[s]
    <3>1. ch[s] \in S /\ s \ {ch[s]} \in SUBSET S /\ ch[s] \in s
        BY <2>1
    <3> QED
        BY <1>1, <1>2, <3>1
  <2>2. 0 \in D[{}]
      BY <1>1
  <2>3. PICK f : IsFold(f, S, ch, 0, h) /\ \A s \in SUBSET S : f[s] \in D[s]
      BY <2>1, <2>2, FoldWithin
  <2>4. ASSUME NEW s \in SUBSET S, s # {}
        PROVE  h[<<ch[s], f[s \ {ch[s]}]>>] = f[s \ {ch[s]}] + w[ch[s]]
    <3>1. PICK x \in S, r \in SUBSET S : x = ch[s] /\ r = s \ {x}
        BY <2>4
    <3>2. f[r] \in Int
        BY <1>1, <2>3
    <3>3. h[<<x, f[r]>>] = f[r] + w[x]
        BY <1>2, <3>2
    <3> QED
        BY <3>1, <3>3
  <2>5. Eq(f)
      BY <2>3, <2>4 DEF IsFold
  <2> QED
      BY <2>5
<1>4. Eq(g)
  <2>1. g = (CHOOSE f : Eq(f))
      OBVIOUS
  <2> HIDE DEF Eq
  <2> QED
      BY <1>3, <2>1
<1>5. g[{}] = 0
    BY <1>4
<1>6. \A s \in SUBSET S : s # {} => ch[s] \in s /\ g[s] = g[s \ {ch[s]}] + w[ch[s]]
    BY <1>4
<1> HIDE DEF Eq
<1>7. \A s \in SUBSET S : g[s] \in D[s]
  <2>1. \A s \in SUBSET S : s # {} =>
            ch[s] \in s /\ (g[s \ {ch[s]}] \in D[s \ {ch[s]}] => g[s] \in D[s])
    <3> SUFFICES ASSUME NEW s \in SUBSET S, s # {}
                 PROVE  ch[s] \in s /\ (g[s \ {ch[s]}] \in D[s \ {ch[s]}] => g[s] \in D[s])
        OBVIOUS
    <3>1. PICK x \in S, r \in SUBSET S : x = ch[s] /\ x \in s /\ r = s \ {x}
        OBVIOUS
    <3>2. w[x] \in Int /\ g[s] = g[r] + w[x]
        BY <1>6, <3>1
    <3>3. g[r] \in Int => g[s] \in Int
        BY <3>2
    <3> QED
        BY <1>1, <3>1, <3>3
  <2>2. g[{}] \in D[{}]
      BY <1>1, <1>5
  <2> QED
      BY <2>1, <2>2, SubsetInduction
<1>8. \A s \in SUBSET S : s # {} => ch[s] \in s /\ g[s] = w[ch[s]] + g[s \ {ch[s]}]
  <2> SUFFICES ASSUME NEW s \in SUBSET S, s # {}
               PROVE  ch[s] \in s /\ g[s] = w[ch[s]] + g[s \ {ch[s]}]
      OBVIOUS
  <2>1. PICK x \in S, r \in SUBSET S : x = ch[s] /\ x \in s /\ r = s \ {x}
      OBVIOUS
  <2>2. w[x] \in Int /\ g[s] = g[r] + w[x]
      BY <1>6, <2>1
  <2>3. g[r] \in Int
      BY <1>1, <1>7
  <2>4. g[s] = w[x] + g[r]
      BY <2>2, <2>3
  <2> QED
      BY <2>1, <2>4
<1> QED
    BY <1>5, <1>8, FoldSums

\* What the sizes add up to index by index is what the list adds up to.
LEMMA IndexSum ==
    ASSUME NEW list \in Seq(Batches), NEW S, S = DOMAIN list, NEW w,
           \A i \in S : w[i] = list[i].size /\ w[i] \in Int, NEW g, IsSum(g, S, w)
    PROVE  Adds(list, g[S])
<1>1. PICK n \in Nat : n = Len(list) /\ S = 1 .. n
    OBVIOUS
<1> DEFINE run == [i \in 0 .. n |-> g[1 .. i]]
<1>2. \A i \in 0 .. n : run[i] = g[1 .. i]
    OBVIOUS
<1> HIDE DEF run
<1>3. ASSUME NEW i \in 1 .. n
      PROVE  run[i - 1] \in Int /\ run[i] = run[i - 1] + list[i].size
  <2>1. PICK s \in SUBSET S : s = 1 .. i
      BY <1>1
  <2>2. PICK r \in SUBSET S : r = 1 .. i - 1
      BY <1>1
  <2>3. i \in s /\ s \ {i} = r /\ i \in 0 .. n /\ i - 1 \in 0 .. n /\ i \in S
      BY <1>1, <2>1, <2>2
  <2>4. g[r] \in Int /\ g[s] = w[i] + g[r] /\ w[i] = list[i].size /\ w[i] \in Int
      BY <2>3 DEF IsSum
  <2>5. run[i] = g[s] /\ run[i - 1] = g[r]
      BY <1>2, <2>1, <2>2, <2>3
  <2> QED
      BY <2>4, <2>5
<1>4. run[0] = 0 /\ run[n] = g[S]
  <2>1. 1 .. 0 = {} /\ 0 \in 0 .. n /\ n \in 0 .. n
      OBVIOUS
  <2>2. g[{}] = 0
      BY DEF IsSum
  <2> QED
      BY <1>1, <1>2, <2>1, <2>2
<1>5. Runs(list, run)
    BY <1>1, <1>3, <1>4 DEF Runs
<1> QED
    BY <1>1, <1>4, <1>5 DEF Adds

\* It is the sum of the sizes.
LEMMA SizeAdds ==
    ASSUME NEW list \in Seq(Batches) PROVE Adds(list, SizeOfBatches(list))
<1>1. PICK n \in Nat : n = Len(list) /\ DOMAIN list = 1 .. n
    OBVIOUS
<1>2. PICK S : S = 1 .. n
    OBVIOUS
<1>3. IsFiniteSet(S)
    BY <1>2, FS_Interval
<1> DEFINE ch == [s \in SUBSET S |-> Max(s)]
           w  == [i \in S |-> list[i].size]
<1>4. \A i \in S : w[i] = list[i].size /\ w[i] \in Int
  <2>1. \A i \in S : list[i] \in Batches
      BY <1>1, <1>2
  <2>2. \A b \in Batches : b.size \in Int
      BY DEF Batches
  <2> QED
      BY <2>1, <2>2
<1>5. \A s \in SUBSET S : s # {} => ch[s] \in s /\ ch[s] = Max(s) /\ \A y \in s : ch[s] >= y
  <2> SUFFICES ASSUME NEW s \in SUBSET S, s # {} PROVE Max(s) \in s /\ \A y \in s : Max(s) >= y
      OBVIOUS
  <2>1. s \in SUBSET (0 .. n)
      BY <1>2
  <2> QED
      BY <2>1, MaxIn
<1>6. PICK g : g = (CHOOSE f : f = [s \in SUBSET S |->
                      IF s = {} THEN 0 ELSE f[s \ {Max(s)}] + list[Max(s)].size])
    OBVIOUS
<1>7. g = (CHOOSE f : f = [s \in SUBSET S |->
             IF s = {} THEN 0 ELSE f[s \ {ch[s]}] + w[ch[s]]])
  <2> HIDE DEF ch, w
  <2>1. ASSUME NEW f
        PROVE  [s \in SUBSET S |-> IF s = {} THEN 0 ELSE f[s \ {Max(s)}] + list[Max(s)].size]
               = [s \in SUBSET S |-> IF s = {} THEN 0 ELSE f[s \ {ch[s]}] + w[ch[s]]]
    <3>1. \A s \in SUBSET S : s # {} =>
            f[s \ {Max(s)}] + list[Max(s)].size = f[s \ {ch[s]}] + w[ch[s]]
        BY <1>4, <1>5
    <3> QED
        BY <3>1
  <2> QED
      BY <1>6, <2>1
<1> HIDE DEF ch, w
<1>8. IsSum(g, S, w)
  <2>1. \A s \in SUBSET S : s # {} => ch[s] \in s
      BY <1>5
  <2>2. \A i \in S : w[i] \in Int
      BY <1>4
  <2> QED
      BY <1>3, <1>7, <2>1, <2>2, SumBehind
<1>9. SizeOfBatches(list) = g[S]
    BY <1>1, <1>2, <1>6, SizeFold
<1>10. Adds(list, g[S])
    BY <1>1, <1>2, <1>4, <1>8, IndexSum
<1> QED
    BY <1>9, <1>10

-----------------------------------------------------------------------------
(* What the operations of QuarantineCache do to the counters.              *)

\* The sizes of chunks.
Weights == [Ptrs -> Int]

\* A batch with the size of its chunks, and a cache with that of its batches.
Weighed(b, f) ==
    b.size = BatchBytes + Total(f, b.chunks) /\ Cardinality(b.chunks) \in 1 .. BatchCount

CountedBy(c, f) == Adds(c.list, c.size) /\ \A i \in DOMAIN c.list : Weighed(c.list[i], f)

\* The chunks of a batch are finitely many and have sizes.
LEMMA BatchParts ==
    ASSUME NEW b \in Batches, NEW f \in Weights
    PROVE  /\ IsFiniteSet(b.chunks) /\ b.chunks \subseteq Ptrs
           /\ \A x \in b.chunks : f[x] \in Int
           /\ Total(f, b.chunks) \in Int /\ b.size \in Int /\ Cardinality(b.chunks) \in Nat
<1>1. b.chunks \in FiniteParts /\ b.size \in Int
    BY DEF Batches
<1>2. IsFiniteSet(b.chunks) /\ b.chunks \subseteq Ptrs
    BY <1>1 DEF FiniteParts
<1>3. \A x \in b.chunks : f[x] \in Int
    BY <1>2 DEF Weights
<1>4. \A x \in b.chunks : f[x] \in Int /\ f[x] = f[x]
    BY <1>3
<1> QED
    BY <1>1, <1>2, <1>3, <1>4, TotalSame, FS_CardinalityType

\* A batch takes in more chunks.
LEMMA WeighedMore ==
    ASSUME NEW b \in Batches, NEW f \in Weights, Weighed(b, f),
           NEW S \in FiniteParts, S \cap b.chunks = {},
           Cardinality(b.chunks) + Cardinality(S) <= BatchCount,
           NEW more \in Batches, more.chunks = b.chunks \cup S,
           more.size = b.size + Total(f, S)
    PROVE  Weighed(more, f)
<1>1. IsFiniteSet(b.chunks) /\ Total(f, b.chunks) \in Int /\ b.chunks \subseteq Ptrs
    BY BatchParts
<1>2. IsFiniteSet(S) /\ S \subseteq Ptrs
    BY DEF FiniteParts
<1>3. \A x \in b.chunks \cup S : f[x] \in Int
    BY <1>1, <1>2 DEF Weights
<1>4. Total(f, b.chunks \cup S) = Total(f, b.chunks) + Total(f, S)
    BY <1>1, <1>2, <1>3, TotalUnion
<1>5. \A x \in S : f[x] \in Int /\ f[x] = f[x]
    BY <1>3
<1>6. Total(f, S) \in Int
    BY <1>2, <1>5, TotalSame
<1>7. BatchBytes \in Int /\ BatchCount \in Nat
    BY QuarantineAssumption DEF QuarantineAssumption
<1>8. more.size = BatchBytes + Total(f, more.chunks)
  <2>1. b.size = BatchBytes + Total(f, b.chunks)
      BY DEF Weighed
  <2> QED
      BY <1>1, <1>4, <1>6, <1>7, <2>1
<1>9. Cardinality(more.chunks) \in 1 .. BatchCount
  <2>1. S \cap b.chunks = {} => Cardinality(b.chunks \cap S) = 0
    <3>1. S \cap b.chunks = {} => b.chunks \cap S = {}
        OBVIOUS
    <3> QED
        BY <3>1, FS_EmptySet
  <2>2. Cardinality(b.chunks \cup S)
          = Cardinality(b.chunks) + Cardinality(S) - Cardinality(b.chunks \cap S)
      BY <1>1, <1>2, FS_Union
  <2>3. Cardinality(b.chunks) \in Nat /\ Cardinality(S) \in Nat
      BY <1>1, <1>2, FS_CardinalityType
  <2>4. Cardinality(b.chunks) >= 1
      BY DEF Weighed
  <2> QED
      BY <1>7, <2>1, <2>2, <2>3, <2>4
<1> QED
    BY <1>8, <1>9 DEF Weighed

\* A batch with one chunk.
LEMMA WeighedFirst ==
    ASSUME NEW f \in Weights, NEW p \in Ptrs, NEW at, NEW b, b = NewBatch(at, p, f[p])
    PROVE  Weighed(b, f)
<1>1. b.chunks = {p} /\ b.size = f[p] + BatchBytes
    BY DEF NewBatch
<1>2. BatchBytes \in Int /\ BatchCount \in Nat \ {0}
    BY QuarantineAssumption DEF QuarantineAssumption
<1>3. Total(f, {p}) = f[p]
  <2>1. PICK none : none = {}
      OBVIOUS
  <2>2. IsFiniteSet(none) /\ p \notin none
      BY <2>1, FS_EmptySet
  <2>6. \A y \in none \cup {p} : f[y] \in Int
      BY <2>1 DEF Weights
  <2>3. Total(f, none \cup {p}) = f[p] + Total(f, none)
      BY <2>2, <2>6, TotalAdds
  <2>4. Total(f, none) = 0 /\ none \cup {p} = {p}
      BY <2>1, TotalAdds
  <2>5. f[p] \in Int
      BY DEF Weights
  <2>7. Total(f, {p}) = f[p] + 0
      BY ONLY <2>3, <2>4
  <2> QED
      BY <2>5, <2>7
<1>4. Cardinality({p}) = 1
    BY FS_Singleton
<1>5. f[p] \in Int
    BY DEF Weights
<1> QED
    BY <1>1, <1>2, <1>3, <1>4, <1>5 DEF Weighed

\* An empty cache counts nothing.
LEMMA CountedEmpty == ASSUME NEW f PROVE CountedBy(EmptyCache, f)
<1>1. EmptyCache.list = <<>> /\ EmptyCache.size = 0
    BY DEF EmptyCache
<1> QED
    BY <1>1, AddsNothing DEF CountedBy

\* Only the sizes of its chunks count.
LEMMA CountedSame ==
    ASSUME NEW c, IsCache(c), NEW f \in Weights, NEW g, CountedBy(c, f),
           \A x \in ChunksOf(c.list) : g[x] = f[x]
    PROVE  CountedBy(c, g)
<1>1. c.list \in Seq(Batches)
    BY DEF IsCache, Tidy
<1>2. ASSUME NEW i \in DOMAIN c.list PROVE Weighed(c.list[i], g)
  <2>1. PICK b \in Batches : b = c.list[i] /\ Weighed(b, f)
      BY <1>1 DEF CountedBy
  <2>2. IsFiniteSet(b.chunks) /\ \A x \in b.chunks : f[x] \in Int
      BY BatchParts
  <2>3. b.chunks \subseteq ChunksOf(c.list)
      BY <2>1 DEF ChunksOf
  <2>4. \A x \in b.chunks : f[x] \in Int /\ f[x] = g[x]
      BY <2>2, <2>3
  <2>5. Total(f, b.chunks) = Total(g, b.chunks)
      BY <2>2, <2>4, TotalSame
  <2> QED
      BY <2>1, <2>5 DEF Weighed
<1> QED
    BY <1>2 DEF CountedBy

\* enqueue.
LEMMA EnqueueCounts ==
    ASSUME NEW c, IsCache(c), NEW f \in Weights, CountedBy(c, f),
           NEW p \in Ptrs, p \notin ChunksOf(c.list), NEW at, NeedsBatch(c) => at \in Ptrs
    PROVE  CountedBy(Enqueue(c, p, f[p], at), f)
<1>1. PICK S : c \in CacheOver(S)
    BY DEF IsCache
<1>2. PICK list \in Seq(Batches) : list = c.list
    BY DEF IsCache, Tidy
<1>3. f[p] \in Int /\ BatchBytes \in Int /\ {p} \in FiniteParts
  <2>1. f[p] \in Int
      BY DEF Weights
  <2>2. IsFiniteSet({p})
      BY FS_Singleton
  <2> QED
      BY <2>1, <2>2, QuarantineAssumption DEF QuarantineAssumption, FiniteParts
<1>4. PICK e : e = Enqueue(c, p, f[p], at)
    OBVIOUS
<1>5. Adds(list, c.size) /\ \A i \in DOMAIN list : Weighed(list[i], f)
    BY <1>2 DEF CountedBy
<1>6. CASE NeedsBatch(c)
  <2>1. PICK b : b = NewBatch(at, p, f[p])
      OBVIOUS
  <2>2. b \in Batches /\ Weighed(b, f)
    <3>1. b.size = f[p] + BatchBytes /\ b.size \in Int
        BY <1>3, <2>1 DEF NewBatch
    <3>2. b \in Batches
        BY <1>3, <1>6, <2>1, <3>1 DEF NewBatch, Batches
    <3> QED
        BY <2>1, <3>2, WeighedFirst
  <2>3. PICK more : more = Append(list, b)
      OBVIOUS
  <2>4. e.list = more /\ e.size = c.size + b.size
      BY <1>2, <1>4, <1>6, <2>1, <2>3 DEF Enqueue, EnqueueBatch
  <2>5. Adds(more, c.size + b.size)
      BY <1>5, <2>2, <2>3, AddsAppend
  <2>6. \A i \in DOMAIN more : Weighed(more[i], f)
    <3>1. PICK n \in Nat : n = Len(list) /\ DOMAIN list = 1 .. n
        OBVIOUS
    <3>2. DOMAIN more = 1 .. n + 1 /\ more[n + 1] = b /\ \A i \in 1 .. n : more[i] = list[i]
        BY <2>2, <2>3, <3>1
    <3>3. \A i \in 1 .. n + 1 : i \in 1 .. n \/ i = n + 1
        BY <3>1
    <3> QED
        BY <1>5, <2>2, <3>1, <3>2, <3>3
  <2> QED
      BY <1>4, <2>4, <2>5, <2>6 DEF CountedBy
<1>7. CASE ~ NeedsBatch(c)
  <2>1. list # <<>> /\ Cardinality(Last(list).chunks) # BatchCount
      BY <1>2, <1>7 DEF NeedsBatch
  <2>2. PICK n \in DOMAIN list : n = Len(list) /\ n # 0 /\ Last(list) = list[n]
      BY <2>1 DEF Last
  <2>3. PICK last \in Batches : last = list[n] /\ Weighed(last, f)
      BY <1>5
  <2>4. PICK b : b = [last EXCEPT !.chunks = @ \cup {p}, !.size = @ + f[p]]
      OBVIOUS
  <2>5. PICK wide : wide = [list EXCEPT ![n] = b]
      OBVIOUS
  <2>6. e = [c EXCEPT !.list = wide, !.size = @ + f[p]]
    <3>1. e = [c EXCEPT !.list[n].chunks = @ \cup {p}, !.list[n].size = @ + f[p],
                        !.size = @ + f[p]]
        BY <1>2, <1>4, <1>7, <2>2 DEF Enqueue
    <3> QED
        BY <1>1, <1>2, <2>2, <2>3, <2>4, <2>5, <3>1 DEF CacheOver, Batches
  <2>7. b \in Batches /\ b.chunks = last.chunks \cup {p} /\ b.size = last.size + f[p]
    <3>1. last.chunks \in FiniteParts /\ last.size \in Int
        BY DEF Batches
    <3>2. IsFiniteSet(last.chunks) /\ IsFiniteSet({p})
        BY <1>3, <3>1 DEF FiniteParts
    <3>3. IsFiniteSet(last.chunks \cup {p})
        BY <3>2, FS_Union
    <3>4. last.chunks \cup {p} \in FiniteParts /\ last.size + f[p] \in Int
        BY <1>3, <3>1, <3>3 DEF FiniteParts
    <3> QED
        BY <2>4, <3>4 DEF Batches
  <2>8. /\ wide \in Seq(Batches) /\ DOMAIN wide = DOMAIN list /\ wide[n] = b
        /\ \A i \in DOMAIN list \ {n} : wide[i] = list[i]
      BY <2>5, <2>7
  <2>9. Adds(wide, c.size + f[p])
    <3>1. wide[n].size = list[n].size + f[p]
        BY <2>3, <2>7, <2>8
    <3> QED
        BY <1>3, <1>5, <2>2, <2>8, <3>1, AddsLast
  <2>10. Weighed(b, f)
    <3>1. Total(f, {p}) = f[p] /\ Cardinality({p}) = 1
      <4>1. PICK one : one = NewBatch(at, p, f[p])
          OBVIOUS
      <4>2. one.chunks = {p} /\ one.size = f[p] + BatchBytes /\ Weighed(one, f)
          BY <4>1, WeighedFirst DEF NewBatch
      <4>3. IsFiniteSet({p}) /\ \A x \in {p} : f[x] \in Int /\ f[x] = f[x]
          BY <1>3 DEF FiniteParts
      <4>4. Total(f, {p}) \in Int
          BY <4>3, TotalSame
      <4>5. one.size = BatchBytes + Total(f, {p})
          BY <4>2 DEF Weighed
      <4>6. Total(f, {p}) = f[p]
          BY <1>3, <4>2, <4>4, <4>5
      <4> QED
          BY <4>6, FS_Singleton
    <3>2. {p} \cap last.chunks = {}
        BY <1>2, <2>3 DEF ChunksOf
    <3>3. Cardinality(last.chunks) + Cardinality({p}) <= BatchCount
      <4>1. Cardinality(last.chunks) \in 1 .. BatchCount /\ BatchCount \in Nat
          BY <2>3, QuarantineAssumption DEF Weighed, QuarantineAssumption
      <4>2. Cardinality(last.chunks) # BatchCount
          BY <2>1, <2>2, <2>3
      <4> QED
          BY <3>1, <4>1, <4>2
    <3>4. b.size = last.size + Total(f, {p})
        BY <2>7, <3>1
    <3> QED
        BY <1>3, <2>3, <2>7, <3>2, <3>3, <3>4, WeighedMore
  <2>11. \A i \in DOMAIN wide : Weighed(wide[i], f)
      BY <1>5, <2>8, <2>10
  <2>12. e.list = wide /\ e.size = c.size + f[p]
      BY <1>1, <2>6 DEF CacheOver
  <2> QED
      BY <1>4, <2>9, <2>11, <2>12 DEF CountedBy
<1> QED
    BY <1>6, <1>7

\* transfer.
LEMMA TransferCounts ==
    ASSUME NEW c, NEW d, IsCache(c), IsCache(d), NEW f, CountedBy(c, f), CountedBy(d, f)
    PROVE  CountedBy(Transfer(c, d), f)
<1>1. PICK a \in Seq(Batches), b \in Seq(Batches) : a = c.list /\ b = d.list
    BY DEF IsCache, Tidy
<1>2. PICK both : both = a \o b
    OBVIOUS
<1>3. PICK e : e = Transfer(c, d)
    OBVIOUS
<1>4. e.list = both /\ e.size = c.size + d.size
    BY <1>1, <1>2, <1>3 DEF Transfer
<1>5. Adds(both, c.size + d.size)
    BY <1>1, <1>2, AddsConcat DEF CountedBy
<1>6. \A i \in DOMAIN both : Weighed(both[i], f)
  <2>1. PICK n \in Nat, m \in Nat : n = Len(a) /\ m = Len(b)
      OBVIOUS
  <2>2. /\ DOMAIN both = 1 .. n + m
        /\ \A i \in 1 .. n + m : both[i] = IF i <= n THEN a[i] ELSE b[i - n]
      BY <1>2, <2>1, ConcatProperties
  <2>3. \A i \in 1 .. n : Weighed(a[i], f)
      BY <1>1, <2>1 DEF CountedBy
  <2>4. \A i \in 1 .. m : Weighed(b[i], f)
      BY <1>1, <2>1 DEF CountedBy
  <2>5. \A i \in 1 .. n + m : (i <= n /\ i \in 1 .. n) \/ (~ (i <= n) /\ i - n \in 1 .. m)
      BY <2>1
  <2> QED
      BY <2>2, <2>3, <2>4, <2>5
<1> QED
    BY <1>3, <1>4, <1>5, <1>6 DEF CountedBy

\* A property of what has been visited that every step of mergeBatches keeps holds for
\* what it returns.
LEMMA MergeInduction ==
    ASSUME NEW c, c.list \in Seq(Batches), NEW S, S = DOMAIN c.list, NEW D,
           \A s \in SUBSET S : D[s] \in SUBSET Merging,
           [kept |-> <<>>, out |-> <<>>] \in D[{}],
           \A s \in SUBSET S : \A x \in s :
              \A v \in D[s \ {x}] : Visited(v, c.list[x]) \in D[s]
    PROVE  \E merged \in D[S] :
             MergeBatches(c) =
               [kept |-> [list |-> merged.kept, size |-> c.size - Len(merged.out) * BatchBytes],
                out |-> merged.out]
<1>1. PICK list \in Seq(Batches) : list = c.list
    OBVIOUS
<1>2. PICK n \in Nat : n = Len(list) /\ DOMAIN list = 1 .. n
    OBVIOUS
<1>3. S = 1 .. n
    BY <1>1, <1>2
<1>4. IsFiniteSet(S) /\ DOMAIN list = S
    BY <1>2, <1>3, FS_Interval
<1>5. PICK start : start = [kept |-> <<>>, out |-> <<>>]
    OBVIOUS
<1> DEFINE ch    == [s \in SUBSET S |-> Max(s)]
           h     == [p \in S \X Merging |-> Visited(p[2], list[p[1]])]
           Eq(f) == f = [s \in SUBSET S |-> IF s = {} THEN start
                                           ELSE Visited(f[s \ {Max(s)}], list[Max(s)])]
<1>6. \A s \in SUBSET S : s # {} => ch[s] = Max(s) /\ ch[s] \in s
  <2> SUFFICES ASSUME NEW s \in SUBSET S, s # {} PROVE Max(s) \in s
      OBVIOUS
  <2>1. s \in SUBSET (0 .. n)
      BY <1>3
  <2> QED
      BY <2>1, MaxIn
<1>8. \A i \in S, v \in Merging : h[<<i, v>>] = Visited(v, list[i])
    OBVIOUS
<1>9. start \in D[{}]
    BY <1>5
<1> HIDE DEF ch, h
<1>10. ASSUME NEW s \in SUBSET S, s # {}, NEW v \in D[s \ {ch[s]}]
       PROVE  Visited(v, list[ch[s]]) \in D[s]
    BY <1>1, <1>6, <1>10
<1>11. \A s \in SUBSET S : D[s] \in SUBSET Merging
    OBVIOUS
<1>12. \E f : Eq(f)
  <2>1. ASSUME NEW s \in SUBSET S, s # {}
        PROVE  ch[s] \in s /\ \A v \in D[s \ {ch[s]}] : h[<<ch[s], v>>] \in D[s]
    <3>1. ch[s] \in S /\ s \ {ch[s]} \in SUBSET S /\ ch[s] \in s
        BY <1>6, <2>1
    <3>2. ASSUME NEW v \in D[s \ {ch[s]}]
          PROVE  h[<<ch[s], v>>] \in D[s]
      <4>1. v \in Merging
          BY <1>11, <3>1
      <4>2. h[<<ch[s], v>>] = Visited(v, list[ch[s]])
          BY <1>8, <3>1, <4>1
      <4> QED
          BY <1>10, <2>1, <4>2
    <3> QED
        BY <3>1, <3>2
  <2>2. PICK f : IsFold(f, S, ch, start, h) /\ \A s \in SUBSET S : f[s] \in D[s]
      BY <1>4, <1>9, <2>1, FoldWithin
  <2>3. ASSUME NEW s \in SUBSET S, s # {}
        PROVE  h[<<ch[s], f[s \ {ch[s]}]>>] = Visited(f[s \ {Max(s)}], list[Max(s)])
    <3>1. ch[s] \in S /\ s \ {ch[s]} \in SUBSET S
        BY <1>6, <2>3
    <3>2. f[s \ {ch[s]}] \in Merging
        BY <1>11, <2>2, <3>1
    <3>3. h[<<ch[s], f[s \ {ch[s]}]>>] = Visited(f[s \ {ch[s]}], list[ch[s]])
        BY <1>8, <3>1, <3>2
    <3> QED
        BY <1>6, <2>3, <3>3
  <2>4. Eq(f)
      BY <2>2, <2>3 DEF IsFold
  <2> QED
      BY <2>4
<1>13. PICK f : f = (CHOOSE g : Eq(g))
    OBVIOUS
<1>14. Eq(f)
  <2> HIDE DEF Eq
  <2> QED
      BY <1>12, <1>13
<1>15. f[{}] = start
    BY <1>14
<1>16. \A s \in SUBSET S : s # {} => f[s] = Visited(f[s \ {ch[s]}], list[ch[s]])
    BY <1>6, <1>14
<1>17. PICK merged : merged = f[S]
    OBVIOUS
<1>18. MergeBatches(c) =
         [kept |-> [list |-> merged.kept, size |-> c.size - Len(merged.out) * BatchBytes],
          out |-> merged.out]
    BY <1>1, <1>4, <1>5, <1>13, <1>17, MergeBatchesFold
<1> HIDE DEF Eq
<1>19. \A s \in SUBSET S : f[s] \in D[s]
  <2>1. \A s \in SUBSET S : s # {} =>
              ch[s] \in s /\ (f[s \ {ch[s]}] \in D[s \ {ch[s]}] => f[s] \in D[s])
    <3>1. \A s \in SUBSET S : s # {} => \A v \in D[s \ {ch[s]}] : Visited(v, list[ch[s]]) \in D[s]
        BY <1>10
    <3> QED
        BY ONLY <1>6, <1>16, <3>1
  <2>2. f[{}] \in D[{}]
      BY <1>9, <1>15
  <2> QED
      BY <1>4, <2>1, <2>2, SubsetInduction
<1> QED
    BY <1>17, <1>18, <1>19

\* One step of mergeBatches: a batch is kept, or its chunks go into the last one.
LEMMA VisitCounts ==
    ASSUME NEW v \in Merging, NEW batch \in Batches, NEW f \in Weights, Weighed(batch, f),
           batch.chunks \cap ChunksOf(v.kept) = {},
           \A i \in DOMAIN v.kept : Weighed(v.kept[i], f), NEW a, Adds(v.kept, a)
    PROVE  LET w == Visited(v, batch)
           IN  /\ \A i \in DOMAIN w.kept : Weighed(w.kept[i], f)
               /\ \/ Len(w.out) = Len(v.out) /\ Adds(w.kept, a + batch.size)
                  \/ Len(w.out) = Len(v.out) + 1 /\ Adds(w.kept, a + (batch.size - BatchBytes))
<1>1. PICK kept \in Seq(Batches) : kept = v.kept /\ v.out \in Seq(Batches)
    BY DEF Merging
<1>2. BatchBytes \in Int
    BY QuarantineAssumption DEF QuarantineAssumption
<1>3. batch.chunks \in FiniteParts /\ batch.size \in Int
    BY DEF Batches
<1>4. PICK w : w = Visited(v, batch)
    OBVIOUS
<1>5. CASE kept # <<>> /\ CanMerge(Last(kept), batch)
  <2>1. PICK n \in Nat : n = Len(kept) /\ n \in DOMAIN kept /\ n # 0 /\ Last(kept) = kept[n]
      BY <1>5 DEF Last
  <2>2. PICK last \in Batches : last = kept[n] /\ Weighed(last, f)
      BY <1>1, <2>1
  <2>3. PICK b : b = Merge(last, batch)
      OBVIOUS
  <2>4. PICK d \in Int : d = batch.size - BatchBytes
      BY <1>2, <1>3
  <2>5. /\ b \in Batches /\ b.chunks = last.chunks \cup batch.chunks /\ b.size = last.size + d
    <3>1. last.chunks \in FiniteParts /\ last.size \in Int
        BY DEF Batches
    <3>2. IsFiniteSet(last.chunks) /\ IsFiniteSet(batch.chunks)
        BY <1>3, <3>1 DEF FiniteParts
    <3>3. IsFiniteSet(last.chunks \cup batch.chunks)
        BY <3>2, FS_Union
    <3>4. last.chunks \cup batch.chunks \in FiniteParts /\ last.size + d \in Int
        BY <1>3, <3>1, <3>3 DEF FiniteParts
    <3>5. b = [last EXCEPT !.chunks = last.chunks \cup batch.chunks, !.size = last.size + d]
        BY <2>3, <2>4 DEF Merge, QuarantinedSize, Batches
    <3> QED
        BY <3>4, <3>5 DEF Batches
  <2>6. PICK wide : LastBecomes(wide, kept, b)
      BY DEF LastBecomes
  <2>7. /\ wide \in Seq(Batches) /\ DOMAIN wide = DOMAIN kept /\ wide[n] = b
        /\ \A i \in DOMAIN kept \ {n} : wide[i] = kept[i]
      BY <1>5, <2>1, <2>5, <2>6, ReplaceLast
  <2>8. PICK out : out = Append(v.out, Emptied(batch))
      OBVIOUS
  <2>9. w = [kept |-> wide, out |-> out]
      BY <1>1, <1>4, <1>5, <2>1, <2>2, <2>3, <2>6, <2>8 DEF Visited, LastBecomes
  <2>10. Len(out) = Len(v.out) + 1
      BY <1>1, <2>8
  <2>11. Adds(wide, a + d)
    <3>1. wide[n].size = kept[n].size + d
        BY <2>2, <2>5, <2>7
    <3> QED
        BY <1>1, <2>1, <2>7, <3>1, AddsLast
  <2>12. Weighed(b, f)
    <3>1. last.chunks \subseteq ChunksOf(kept)
        BY <2>1, <2>2 DEF ChunksOf
    <3>2. batch.chunks \cap last.chunks = {}
        BY <1>1, <3>1
    <3>3. Cardinality(last.chunks) + Cardinality(batch.chunks) <= BatchCount
        BY <1>5, <2>1, <2>2 DEF CanMerge
    <3>4. d = Total(f, batch.chunks)
      <4>1. Total(f, batch.chunks) \in Int
          BY BatchParts
      <4>2. batch.size = BatchBytes + Total(f, batch.chunks)
          BY DEF Weighed
      <4> QED
          BY <1>2, <2>4, <4>1, <4>2
    <3>5. b.size = last.size + Total(f, batch.chunks)
        BY <2>5, <3>4
    <3> QED
        BY <1>3, <2>2, <2>5, <3>2, <3>3, <3>5, WeighedMore
  <2>13. \A i \in DOMAIN wide : Weighed(wide[i], f)
      BY <1>1, <2>7, <2>12
  <2>14. w.kept = wide /\ w.out = out
      BY <2>9
  <2> QED
      BY <1>4, <2>4, <2>10, <2>11, <2>13, <2>14
<1>6. CASE ~ (kept # <<>> /\ CanMerge(Last(kept), batch))
  <2>1. PICK more : more = Append(kept, batch)
      OBVIOUS
  <2>2. w = [v EXCEPT !.kept = more]
      BY <1>1, <1>4, <1>6, <2>1 DEF Visited, Merging
  <2>3. w.kept = more /\ w.out = v.out
      BY <2>2 DEF Merging
  <2>4. Adds(more, a + batch.size)
      BY <1>1, <2>1, AddsAppend
  <2>5. \A i \in DOMAIN more : Weighed(more[i], f)
    <3>1. PICK n \in Nat : n = Len(kept) /\ DOMAIN kept = 1 .. n
        OBVIOUS
    <3>2. DOMAIN more = 1 .. n + 1 /\ more[n + 1] = batch /\ \A i \in 1 .. n : more[i] = kept[i]
        BY <2>1, <3>1
    <3>3. \A i \in 1 .. n + 1 : i \in 1 .. n \/ i = n + 1
        BY <3>1
    <3> QED
        BY <1>1, <3>1, <3>2, <3>3
  <2> QED
      BY <1>4, <2>3, <2>4, <2>5
<1> QED
    BY <1>5, <1>6

\* mergeBatches gives back the bytes of the batches it empties, and no others.
LEMMA MergeCounts ==
    ASSUME NEW c, IsCache(c), NEW f \in Weights, CountedBy(c, f)
    PROVE  CountedBy(MergeBatches(c).kept, f)
<1>1. PICK list \in Seq(Batches) : list = c.list /\ Tidy(list)
    BY DEF IsCache, Tidy
<1>2. PICK S : S = DOMAIN list
    OBVIOUS
<1>3. S = 1 .. Len(list) /\ Len(list) \in Nat /\ IsFiniteSet(S)
    BY <1>2, FS_Interval
<1>4. \A i \in S : list[i] \in Batches /\ Weighed(list[i], f)
    BY <1>1, <1>2 DEF CountedBy
<1> DEFINE w == [i \in S |-> list[i].size]
<1>5. \A i \in S : w[i] = list[i].size /\ w[i] \in Int
  <2>1. \A b \in Batches : b.size \in Int
      BY DEF Batches
  <2> QED
      BY <1>4, <2>1
<1> HIDE DEF w
<1>6. PICK g : IsSum(g, S, w)
  <2>1. \A i \in S : w[i] \in Int
      BY <1>5
  <2> QED
      BY <1>3, <2>1, TotalIsSum
<1> DEFINE Chunks(s)   == UNION {list[i].chunks : i \in s}
           Ats(s)      == {list[i].at : i \in s}
           Right(s, v) ==
             /\ Merges(v, Chunks(s), Ats(s))
             /\ \A i \in DOMAIN v.kept : Weighed(v.kept[i], f)
             /\ Adds(v.kept, g[s] - Len(v.out) * BatchBytes)
           D           == [s \in SUBSET S |-> {v \in Merging : Right(s, v)}]
<1>7. \A s \in SUBSET S : D[s] = {v \in Merging : Right(s, v)}
    OBVIOUS
<1>8. \A s \in SUBSET S : D[s] \in SUBSET Merging
    OBVIOUS
<1>9. PICK start : start = [kept |-> <<>>, out |-> <<>>]
    OBVIOUS
<1>10. BatchBytes \in Int
    BY QuarantineAssumption DEF QuarantineAssumption
<1>11. start \in D[{}]
  <2>1. start \in Merging /\ start.kept = <<>> /\ start.out = <<>>
      BY <1>9 DEF Merging
  <2>2. Chunks({}) = {} /\ Ats({}) = {}
      OBVIOUS
  <2>3. Merges(start, Chunks({}), Ats({}))
      BY <2>1, <2>2, EmptyList DEF Merges
  <2>4. g[{}] - Len(start.out) * BatchBytes = 0
    <3>1. g[{}] = 0 /\ Len(start.out) = 0
        BY <1>6, <2>1 DEF IsSum
    <3> QED
        BY <1>10, <3>1
  <2>5. Adds(start.kept, g[{}] - Len(start.out) * BatchBytes)
      BY <2>1, <2>4, AddsNothing
  <2>6. \A i \in DOMAIN start.kept : Weighed(start.kept[i], f)
      BY <2>1
  <2> HIDE DEF Chunks, Ats
  <2>7. Right({}, start)
      BY <2>3, <2>5, <2>6
  <2> HIDE DEF D, Right
  <2> QED
      BY <1>7, <2>1, <2>7
<1> HIDE DEF D
<1>12. ASSUME NEW s \in SUBSET S, NEW x \in s, NEW v \in D[s \ {x}]
       PROVE  Visited(v, list[x]) \in D[s]
  <2>1. PICK less \in SUBSET S : less = s \ {x}
      OBVIOUS
  <2>2. /\ v \in Merging /\ Merges(v, Chunks(less), Ats(less))
        /\ \A i \in DOMAIN v.kept : Weighed(v.kept[i], f)
        /\ Adds(v.kept, g[less] - Len(v.out) * BatchBytes)
    <3> HIDE DEF Chunks, Ats
    <3> QED
        BY <1>7, <2>1
  <2>3. PICK batch \in Batches : batch = list[x] /\ Weighed(batch, f)
      BY <1>4
  <2>4. \A i \in less : list[i].at # batch.at /\ list[i].chunks \cap batch.chunks = {}
      BY <1>1, <1>2, <2>1, <2>3 DEF Tidy
  <2>5. batch.at \notin Ats(less) /\ batch.chunks \cap Chunks(less) = {}
      BY <2>4
  <2>6. Chunks(s) = Chunks(less) \cup batch.chunks /\ Ats(s) = Ats(less) \cup {batch.at}
      BY <2>1, <2>3
  <2> HIDE DEF Chunks, Ats
  <2>7. PICK z : z = Visited(v, batch)
      OBVIOUS
  <2>8. z \in Merging /\ Merges(z, Chunks(s), Ats(s))
    <3>1. PICK chunks, ats : chunks = Chunks(less) /\ ats = Ats(less)
        OBVIOUS
    <3>2. /\ Merges(v, chunks, ats) /\ batch.at \notin ats /\ batch.chunks \cap chunks = {}
          /\ v \in Merging
        BY <2>2, <2>5, <3>1
    <3>3. z \in Merging /\ Merges(z, chunks \cup batch.chunks, ats \cup {batch.at})
        BY <2>7, <3>2, VisitFacts
    <3> QED
        BY <2>6, <3>1, <3>3
  <2>9. PICK a : a = g[less] - Len(v.out) * BatchBytes
      OBVIOUS
  <2>10. batch.chunks \cap ChunksOf(v.kept) = {}
      BY <2>2, <2>5 DEF Merges
  <2>11. /\ \A i \in DOMAIN z.kept : Weighed(z.kept[i], f)
         /\ \/ Len(z.out) = Len(v.out) /\ Adds(z.kept, a + batch.size)
            \/ Len(z.out) = Len(v.out) + 1 /\ Adds(z.kept, a + (batch.size - BatchBytes))
      BY <2>2, <2>3, <2>7, <2>9, <2>10, VisitCounts
  <2>12. g[s] = batch.size + g[less] /\ g[less] \in Int /\ batch.size \in Int
    <3>1. g[s] = w[x] + g[less] /\ g[less] \in Int
        BY <1>6, <2>1 DEF IsSum
    <3> QED
        BY <1>5, <2>3, <3>1
  <2>13. PICK k \in Nat : k = Len(v.out)
      BY <2>2 DEF Merging
  <2>14. PICK e \in Int : e = k * BatchBytes /\ (k + 1) * BatchBytes = e + BatchBytes
      BY <1>10
  <2>15. Adds(z.kept, g[s] - Len(z.out) * BatchBytes)
    <3>1. a = g[less] - e
        BY <2>9, <2>13, <2>14
    <3>2. CASE Len(z.out) = Len(v.out) /\ Adds(z.kept, a + batch.size)
      <4>1. a + batch.size = g[s] - e
          BY <2>12, <2>14, <3>1
      <4> QED
          BY <2>13, <2>14, <3>2, <4>1
    <3>3. CASE Len(z.out) = Len(v.out) + 1 /\ Adds(z.kept, a + (batch.size - BatchBytes))
      <4>1. a + (batch.size - BatchBytes) = g[s] - (e + BatchBytes)
          BY <1>10, <2>12, <2>14, <3>1
      <4> QED
          BY <2>13, <2>14, <3>3, <4>1
    <3> QED
        BY <2>11, <3>2, <3>3
  <2>16. Right(s, z)
      BY <2>8, <2>11, <2>15
  <2> HIDE DEF Right
  <2> QED
      BY <1>7, <2>3, <2>7, <2>8, <2>16
<1> HIDE DEF Right, Chunks, Ats
<1>13. PICK merged \in D[S] :
         MergeBatches(c) =
           [kept |-> [list |-> merged.kept, size |-> c.size - Len(merged.out) * BatchBytes],
            out |-> merged.out]
  <2>1. \A s \in SUBSET S : \A x \in s : \A v \in D[s \ {x}] : Visited(v, c.list[x]) \in D[s]
      BY <1>1, <1>12
  <2>2. [kept |-> <<>>, out |-> <<>>] \in D[{}]
      BY <1>9, <1>11
  <2>3. c.list \in Seq(Batches) /\ S = DOMAIN c.list
      BY <1>1, <1>2
  <2> QED
      BY <1>8, <2>1, <2>2, <2>3, MergeInduction
<1>14. Right(S, merged)
    BY <1>7
<1>15. Adds(list, g[S])
    BY <1>2, <1>5, <1>6, IndexSum
<1>16. g[S] = c.size
    BY <1>1, <1>15, AddsOnce DEF CountedBy
<1>17. PICK kept : kept = MergeBatches(c).kept
    OBVIOUS
<1>18. kept.list = merged.kept /\ kept.size = g[S] - Len(merged.out) * BatchBytes
    BY <1>13, <1>16, <1>17
<1> QED
    BY <1>14, <1>17, <1>18 DEF CountedBy, Right

\* dequeueBatch takes the bytes of the batches it takes.
LEMMA DequeueCounts ==
    ASSUME NEW c, IsCache(c), NEW f, CountedBy(c, f), NEW min
    PROVE  CountedBy(DequeueDownTo(c, min).kept, f)
<1>1. PICK list \in Seq(Batches) : list = c.list /\ Len(list) \in Nat
    BY DEF IsCache, Tidy
<1> DEFINE left(k) == c.size - SizeOfBatches(SubSeq(list, 1, k))
           enough  == {k \in 0 .. Len(list) : left(k) <= min}
<1>2. PICK k : k = IF enough = {} THEN Len(list) ELSE Min(enough)
    OBVIOUS
<1>3. k \in 0 .. Len(list)
  <2>1. enough \in SUBSET Nat /\ enough \in SUBSET (0 .. Len(list))
      BY <1>1
  <2>2. PICK E : E = enough
      OBVIOUS
  <2> HIDE DEF enough
  <2>3. CASE E = {}
      BY <1>1, <1>2, <2>2, <2>3
  <2>4. CASE E # {}
    <3>1. k = Min(E)
        BY <1>2, <2>2, <2>4
    <3>2. Min(E) \in E
        BY <2>1, <2>2, <2>4, MinIn
    <3> QED
        BY <2>1, <2>2, <3>1, <3>2
  <2> QED
      BY <2>3, <2>4
<1>4. PICK out : out = SubSeq(list, 1, k)
    OBVIOUS
<1>5. PICK rest : rest = SubSeq(list, k + 1, Len(list))
    OBVIOUS
<1>6. PICK kept : kept = DequeueDownTo(c, min).kept
    OBVIOUS
<1>7. kept.list = rest /\ kept.size = c.size - SizeOfBatches(out)
    BY <1>1, <1>2, <1>4, <1>5, <1>6 DEF DequeueDownTo
<1>8. Adds(list, c.size)
    BY <1>1 DEF CountedBy
<1>9. PICK b : Adds(out, b) /\ Adds(rest, c.size - b)
    BY <1>3, <1>4, <1>5, <1>8, AddsSplit
<1>10. out \in Seq(Batches)
    BY <1>1, <1>3, <1>4
<1>11. b = SizeOfBatches(out)
    BY <1>9, <1>10, SizeAdds, AddsOnce
<1>12. \A i \in DOMAIN rest : \E j \in DOMAIN list : rest[i] = list[j]
  <2>1. PICK n \in Nat : n = Len(list) /\ k \in 0 .. n /\ k \in Nat
      BY <1>1, <1>3
  <2>2. \A i \in k + 1 .. n : i \in 1 .. Len(list)
      BY <2>1
  <2>3. DOMAIN rest = 1 .. n - k
      BY <1>5, <2>1, <2>2
  <2>4. \A i \in 1 .. n - k : rest[i] = list[(k + 1) + i - 1]
      BY <1>5, <2>1, <2>2
  <2>5. \A i \in 1 .. n - k : (k + 1) + i - 1 \in 1 .. n
      BY <2>1
  <2> QED
      BY <2>1, <2>3, <2>4, <2>5
<1> QED
    BY <1>1, <1>6, <1>7, <1>9, <1>11, <1>12 DEF CountedBy

\* extract.
LEMMA ExtractCounts ==
    ASSUME NEW c, IsCache(c), NEW f \in Weights, CountedBy(c, f), NEW min
    PROVE  CountedBy(Extract(c, min).kept, f)
<1>1. PICK m : /\ m = MergeBatches(c) \/ m = [kept |-> c, out |-> <<>>]
               /\ Extract(c, min).kept = DequeueDownTo(m.kept, min).kept
  <2> DEFINE overhead == OverheadSize(c)
             m == IF c.size > overhead /\ 2 * overhead > c.size
                  THEN MergeBatches(c) ELSE [kept |-> c, out |-> <<>>]
  <2>1. Extract(c, min).kept = DequeueDownTo(m.kept, min).kept
      BY DEF Extract
  <2>2. m = MergeBatches(c) \/ m = [kept |-> c, out |-> <<>>]
      OBVIOUS
  <2> HIDE DEF m
  <2> QED
      BY <2>1, <2>2
<1>2. PICK kept : kept = m.kept
    OBVIOUS
<1>3. IsCache(kept) /\ CountedBy(kept, f)
  <2>1. CASE m = MergeBatches(c)
      BY <1>2, <2>1, MergeFacts, MergeCounts
  <2>2. CASE m = [kept |-> c, out |-> <<>>]
      BY <1>2, <2>2
  <2> QED
      BY <1>1, <2>1, <2>2
<1> QED
    BY <1>1, <1>2, <1>3, DequeueCounts
=============================================================================
