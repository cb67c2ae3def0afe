--------------------------- MODULE LogRing_proofs ---------------------------
(***************************************************************************)
(* The log ring implements a bounded queue, for every capacity, every      *)
(* width of the counters that the capacity divides, and every entry.       *)
(***************************************************************************)
EXTENDS LogRing, Integers, SequenceTheorems, TLAPS

-----------------------------------------------------------------------------
(* Counters that wrap.                                                     *)

Counters == 0 .. (Width - 1)

\* What % and \div say of each other.
LEMMA Division ==
    ASSUME NEW x \in Nat
    PROVE  /\ x = Capacity * (x \div Capacity) + (x % Capacity)
           /\ x \div Capacity \in Nat
           /\ x % Capacity \in Slots
BY LogRingAssumption DEF LogRingAssumption, Slots

\* The remainder is unique.
LEMMA OneRemainder ==
    ASSUME NEW p \in Int, NEW q \in Int, NEW r \in Slots, NEW s \in Slots,
           Capacity * p + r = Capacity * q + s
    PROVE  r = s
<1> USE LogRingAssumption DEF LogRingAssumption, Slots
<1>1. Capacity * (p - q) = s - r /\ s - r < Capacity /\ r - s < Capacity
    OBVIOUS
<1>2. CASE p - q >= 1
  <2>1. Capacity * (p - q) >= Capacity
      BY <1>2
  <2> QED
      BY <1>1, <2>1
<1>3. CASE p - q <= -1
  <2>1. Capacity * (p - q) <= -Capacity
      BY <1>3
  <2> QED
      BY <1>1, <2>1
<1>4. CASE p = q
    BY <1>1, <1>4
<1> QED
    BY <1>2, <1>3, <1>4

\* A counter after it was advanced once, and the distance of two counters.
LEMMA Wraps ==
    /\ \A c \in Counters : (c + 1) % Width = IF c + 1 = Width THEN 0 ELSE c + 1
    /\ \A c, d \in Counters : Distance(c, d) = IF c <= d THEN d - c ELSE d + Width - c
BY LogRingAssumption DEF LogRingAssumption, Counters, Distance

\* The mask and the wrap-around agree, since the capacity divides the width: the slot
\* of a counter is that of the number it would be without a limit.
LEMMA MaskOfWrapped ==
    ASSUME NEW c \in Nat, c < 2 * Width
    PROVE  SlotOf(c % Width) = c % Capacity
<1> USE LogRingAssumption DEF LogRingAssumption, SlotOf
<1>1. CASE c < Width
    BY <1>1
<1>2. CASE c >= Width
  <2>1. c % Width = c - Width /\ c - Width \in Nat
      BY <1>2
  <2>2. Width = Capacity * (Width \div Capacity) /\ Width \div Capacity \in Nat
      BY Division
  <2>3. /\ c = Capacity * (c \div Capacity) + (c % Capacity)
        /\ c \div Capacity \in Nat /\ c % Capacity \in Slots
      BY Division
  <2>4. /\ c - Width = Capacity * ((c - Width) \div Capacity) + ((c - Width) % Capacity)
        /\ (c - Width) \div Capacity \in Nat /\ (c - Width) % Capacity \in Slots
      BY <2>1, Division
  <2>5. Capacity * (c \div Capacity) + (c % Capacity)
            = Capacity * ((c - Width) \div Capacity + Width \div Capacity)
                  + ((c - Width) % Capacity)
      BY <2>2, <2>3, <2>4
  <2>6. c % Capacity = (c - Width) % Capacity
    <3> DEFINE p == c \div Capacity
               q == (c - Width) \div Capacity + Width \div Capacity
               r == c % Capacity
               s == (c - Width) % Capacity
    <3>1. p \in Int /\ q \in Int /\ r \in Slots /\ s \in Slots
        BY <2>2, <2>3, <2>4
    <3>2. Capacity * p + r = Capacity * q + s
        BY <2>5
    <3> HIDE DEF p, q, r, s
    <3>3. r = s
        BY <3>1, <3>2, OneRemainder
    <3> QED
        BY <3>3 DEF r, s
  <2> QED
      BY <2>1, <2>6
<1> QED
    BY <1>1, <1>2

\* Counters less than a capacity apart have slots of their own.
LEMMA SlotsApart ==
    ASSUME NEW c \in Nat, NEW d \in Nat, c < d, d - c < Capacity
    PROVE  c % Capacity # d % Capacity
<1> USE LogRingAssumption DEF LogRingAssumption, Slots
<1> SUFFICES ASSUME c % Capacity = d % Capacity
             PROVE  FALSE
    OBVIOUS
<1> DEFINE apart == (d \div Capacity) - (c \div Capacity)
<1>1. Capacity * apart = d - c /\ apart \in Int
  <2>1. c = Capacity * (c \div Capacity) + (c % Capacity) /\ c \div Capacity \in Nat
      BY Division
  <2>2. d = Capacity * (d \div Capacity) + (d % Capacity) /\ d \div Capacity \in Nat
      BY Division
  <2> QED
      BY <2>1, <2>2
<1>2. CASE apart >= 1
  <2>1. Capacity * apart >= Capacity
      BY <1>1, <1>2
  <2> QED
      BY <1>1, <2>1
<1>3. CASE apart <= 0
  <2>1. Capacity * apart <= 0
      BY <1>1, <1>3
  <2> QED
      BY <1>1, <2>1
<1> QED
    BY <1>1, <1>2, <1>3

-----------------------------------------------------------------------------
(* The invariant.                                                          *)

RingTypes ==
    /\ head \in Counters /\ tail \in Counters /\ headCache \in Counters
    /\ slot \in [Slots -> Entries \cup {None}]
    /\ dropped \in {0, 1}
    /\ pc \in {"idle", "check", "reread", "yielded", "write", "publish"}
    /\ entry \in Entries \cup {None}
    /\ kernel \in {"idle", "copied"}

\* Past the check for room there is room, by the cache and so by the ring itself.
RoomToWrite ==
    pc \in {"write", "publish"} => Distance(headCache, tail) < Capacity

\* An entry is complete before Tail tells of it.
WrittenFirst ==
    /\ pc # "idle" => entry \in Entries
    /\ pc = "publish" => slot[SlotOf(tail)] = entry

\* What the kernel copied is still there, and still the oldest.
CopyIsOldest ==
    kernel = "copied" => head # tail /\ copy = slot[SlotOf(head)]

RingInv ==
    RingTypes /\ CacheNeverOverstates /\ RoomToWrite /\ WrittenFirst /\ CopyIsOldest

\* An empty ring, whose cached position is the reader's.
LEMMA RingInvInit == Init => RingInv
BY LogRingAssumption DEF LogRingAssumption, Init, RingInv, RingTypes, CacheNeverOverstates,
   RoomToWrite, WrittenFirst, CopyIsOldest, Counters, Slots, Distance

\* A wrapped counter moves away from those behind it and towards those before it.
LEMMA Advances ==
    ASSUME NEW c \in Counters, NEW d \in Counters
    PROVE  /\ (c + 1) % Width \in Counters
           /\ Distance(c, d) \in Counters
           /\ Distance(c, d) = 0 <=> c = d
           /\ Distance(c, d) < Capacity =>
                Distance(c, (d + 1) % Width) = Distance(c, d) + 1
           /\ c # d => Distance((c + 1) % Width, d) = Distance(c, d) - 1
<1> DEFINE c1 == (c + 1) % Width
           d1 == (d + 1) % Width
<1>1. /\ Width \in Nat /\ Capacity \in Nat /\ 0 < Capacity /\ Capacity < Width
      /\ c \in Nat /\ c < Width /\ d \in Nat /\ d < Width
    BY LogRingAssumption DEF LogRingAssumption, Counters
<1>2. /\ c1 = IF c + 1 = Width THEN 0 ELSE c + 1
      /\ d1 = IF d + 1 = Width THEN 0 ELSE d + 1
    BY Wraps
<1>3. c1 \in Counters /\ d1 \in Counters
    BY <1>1, <1>2 DEF Counters
<1> HIDE DEF c1, d1
<1>4. /\ Distance(c, d) = IF c <= d THEN d - c ELSE d + Width - c
      /\ Distance(c, d1) = IF c <= d1 THEN d1 - c ELSE d1 + Width - c
      /\ Distance(c1, d) = IF c1 <= d THEN d - c1 ELSE d + Width - c1
    BY <1>3, Wraps
<1>5. Distance(c, d) \in Counters /\ (Distance(c, d) = 0 <=> c = d)
    BY <1>1, <1>4 DEF Counters
<1>6. Distance(c, d) < Capacity => Distance(c, d1) = Distance(c, d) + 1
    BY <1>1, <1>2, <1>4
<1>7. c # d => Distance(c1, d) = Distance(c, d) - 1
    BY <1>1, <1>2, <1>4
<1> QED
    BY <1>3, <1>5, <1>6, <1>7 DEF c1, d1

\* A counter advanced by its distance to another reaches it.
LEMMA DistanceCloses ==
    ASSUME NEW c \in Counters, NEW d \in Counters
    PROVE  /\ Distance(c, d) \in Nat
           /\ c + Distance(c, d) = d \/ c + Distance(c, d) = d + Width
           /\ (c + Distance(c, d)) % Width = d
<1>1. /\ Width \in Nat /\ c \in Nat /\ c < Width /\ d \in Nat /\ d < Width
    BY LogRingAssumption DEF LogRingAssumption, Counters
<1>2. Distance(c, d) = IF c <= d THEN d - c ELSE d + Width - c
    BY Wraps
<1>3. c + Distance(c, d) = d \/ c + Distance(c, d) = d + Width
    BY <1>1, <1>2
<1>4. d % Width = d /\ (d + Width) % Width = d
    BY <1>1
<1> QED
    BY <1>1, <1>2, <1>3, <1>4

\* The slot that the producer writes holds none of the entries that are unread.
LEMMA WritesBehind ==
    ASSUME NEW c \in Counters, NEW d \in Counters, NEW i \in Nat,
           i < Distance(c, d), Distance(c, d) < Capacity
    PROVE  SlotOf((c + i) % Width) # SlotOf(d)
<1> DEFINE n == Distance(c, d)
<1>1. n \in Nat /\ (c + n = d \/ c + n = d + Width) /\ (c + n) % Width = d
    BY DistanceCloses
<1>2. c + i \in Nat /\ c + i < c + n /\ (c + n) - (c + i) < Capacity
    BY <1>1, LogRingAssumption DEF LogRingAssumption, Counters
<1>4. SlotOf((c + n) % Width) = (c + n) % Capacity
    BY <1>1, MaskOfWrapped, LogRingAssumption DEF LogRingAssumption, Counters
<1>5. SlotOf((c + i) % Width) = (c + i) % Capacity
    BY <1>1, <1>2, MaskOfWrapped, LogRingAssumption DEF LogRingAssumption, Counters
<1>6. (c + i) % Capacity # (c + n) % Capacity
    BY <1>1, <1>2, SlotsApart, LogRingAssumption DEF LogRingAssumption, Counters
<1> QED
    BY <1>1, <1>4, <1>5, <1>6

\* The mask of a counter is a slot.
LEMMA SlotOfCounter == \A c \in Counters : SlotOf(c) \in Slots
BY LogRingAssumption DEF LogRingAssumption, SlotOf, Slots, Counters

\* appendLogPagesLocked and the kernel's two steps keep the invariant.
LEMMA RingInvStep == RingInv /\ [Next]_vars => RingInv'
<1> SUFFICES ASSUME RingInv, [Next]_vars
             PROVE  RingInv'
    OBVIOUS
<1> USE DEF RingInv, RingTypes, CacheNeverOverstates, RoomToWrite, WrittenFirst, CopyIsOldest
<1>1. ASSUME NEW e \in Entries, A_Call(e)
      PROVE  RingInv'
    BY <1>1 DEF A_Call, kernelVars, Distance, SlotOf
<1>0. /\ Capacity \in Nat
      /\ Distance(head, tail) \in Nat /\ Distance(headCache, tail) \in Nat
  <2>1. Distance(head, tail) \in Counters /\ Distance(headCache, tail) \in Counters
      BY Advances
  <2> QED
      BY <2>1, LogRingAssumption DEF LogRingAssumption, Counters
<1>2. CASE A_Check
  <2>1. FullFor(headCache) <=> ~(Distance(headCache, tail) < Capacity)
      BY <1>0 DEF FullFor
  <2> QED
      BY <1>2, <2>1 DEF A_Check, kernelVars, SlotOf, Distance
<1>3. CASE A_Reread
  <2>1. FullFor(head) <=> ~(Distance(head, tail) < Capacity)
      BY <1>0 DEF FullFor
  <2>2. Distance(head, tail) <= Capacity /\ Distance(head, tail) <= Distance(head, tail)
      BY <1>0
  <2> QED
      BY <1>3, <2>1, <2>2 DEF A_Reread, SeenHead, kernelVars, SlotOf, Distance
<1>4. CASE A_LastLook
  <2>1. FullFor(head) <=> ~(Distance(head, tail) < Capacity)
      BY <1>0 DEF FullFor
  <2>2. Distance(head, tail) <= Capacity /\ Distance(head, tail) <= Distance(head, tail)
      BY <1>0
  <2> QED
      BY <1>4, <2>1, <2>2 DEF A_LastLook, LastHead, kernelVars, SlotOf, Distance
<1>5. CASE A_Refuse
  <2>1. Distance(head, tail) <= Capacity /\ Distance(head, tail) <= Distance(head, tail)
      BY <1>0
  <2> QED
      BY <1>5, <2>1 DEF A_Refuse, LastHead, kernelVars, SlotOf, Distance
<1>6. CASE A_Write
  <2>1. SlotOf(tail) \in Slots /\ SlotOf(head) \in Slots
      BY SlotOfCounter
  <2>2. head # tail => SlotOf(head) # SlotOf(tail)
    <3>1. (head + 0) % Width = head
        BY LogRingAssumption DEF LogRingAssumption, Counters
    <3>2. head # tail => 0 < Distance(head, tail) /\ Distance(head, tail) < Capacity
      <4>1. /\ Distance(head, tail) \in Counters
            /\ Distance(head, tail) = 0 <=> head = tail
          BY Advances
      <4> QED
          BY <1>0, <1>6, <4>1 DEF A_Write
    <3> QED
        BY <3>1, <3>2, WritesBehind
  <2>3. /\ slot' \in [Slots -> Entries \cup {None}]
        /\ slot'[SlotOf(tail)] = entry
        /\ head # tail => slot'[SlotOf(head)] = slot[SlotOf(head)]
      BY <1>6, <2>1, <2>2 DEF A_Write
  <2>4. RingTypes' /\ CacheNeverOverstates' /\ RoomToWrite'
      BY <1>6, <2>3 DEF A_Write, kernelVars, Distance
  <2>5. WrittenFirst' /\ CopyIsOldest'
    <3>1. UNCHANGED <<head, tail, entry, kernel, copy>> /\ entry \in Entries
        BY <1>6 DEF A_Write, kernelVars
    <3> QED
        BY <2>3, <3>1 DEF SlotOf
  <2> QED
      BY <2>4, <2>5
<1>7. CASE A_Publish
  <2>1. /\ tail' = (tail + 1) % Width /\ pc' = "idle" /\ entry' = None
        /\ UNCHANGED <<head, kernel, copy, slot, dropped, headCache>>
      BY <1>7 DEF A_Publish, kernelVars
  <2>2. Distance(headCache, tail) < Capacity /\ Distance(head, tail) < Capacity
    <3>1. Distance(headCache, tail) \in Counters /\ Distance(head, tail) \in Counters
        BY Advances
    <3> QED
        BY <1>7, <3>1, LogRingAssumption DEF A_Publish, LogRingAssumption, Counters
  <2>3. /\ tail' \in Counters
        /\ Distance(headCache, tail') = Distance(headCache, tail) + 1
        /\ Distance(head, tail') = Distance(head, tail) + 1
        /\ Distance(headCache, tail) \in Counters /\ Distance(head, tail) \in Counters
      BY <2>1, <2>2, Advances
  <2>4. head # tail'
    <3>1. Distance(head, tail') # 0
        BY <2>3, LogRingAssumption DEF LogRingAssumption, Counters
    <3> QED
        BY <3>1, <2>3, Advances
  <2>5. RingTypes' /\ RoomToWrite' /\ WrittenFirst'
      BY <2>1, <2>3
  <2>6. CacheNeverOverstates'
    <3>1. /\ Distance(headCache, tail') <= Capacity
          /\ Distance(head, tail') <= Distance(headCache, tail')
        BY <2>2, <2>3, LogRingAssumption DEF LogRingAssumption, Counters
    <3> QED
        BY <2>1, <3>1 DEF Distance
  <2>7. CopyIsOldest'
      BY <2>1, <2>4 DEF SlotOf
  <2> QED
      BY <2>5, <2>6, <2>7
<1>8. CASE K_Copy
    BY <1>8 DEF K_Copy, producerVars, Distance, SlotOf
<1>9. CASE K_Advance
  <2>1. /\ head' = (head + 1) % Width /\ kernel' = "idle" /\ head # tail
        /\ UNCHANGED <<tail, slot, dropped, headCache, pc, entry>>
      BY <1>9 DEF K_Advance, producerVars
  <2>2. /\ head' \in Counters
        /\ Distance(head', tail) = Distance(head, tail) - 1
        /\ Distance(headCache, tail) \in Counters /\ Distance(head, tail) \in Counters
      BY <2>1, Advances
  <2>3. CacheNeverOverstates'
    <3>1. /\ Distance(headCache, tail) <= Capacity
          /\ Distance(head', tail) <= Distance(headCache, tail)
        BY <2>2, LogRingAssumption DEF LogRingAssumption, Counters
    <3> QED
        BY <2>1, <3>1 DEF Distance
  <2> QED
      BY <2>1, <2>2, <2>3 DEF Distance, SlotOf
<1>10. CASE UNCHANGED vars
    BY <1>10 DEF vars, Distance, SlotOf
<1> QED
    BY <1>1, <1>2, <1>3, <1>4, <1>5, <1>6, <1>7, <1>8, <1>9, <1>10 DEF Next

\* The invariant holds throughout.
THEOREM RingInvariant == Spec => []RingInv
<1> QED
    BY RingInvInit, RingInvStep, PTL DEF Spec

\* LogHeadCache never makes appendLogPagesLocked see room that is not there.
THEOREM CacheErrsTowardsFull == Spec => []CacheNeverOverstates
<1>1. RingInv => CacheNeverOverstates
    BY DEF RingInv
<1> QED
    BY <1>1, RingInvariant, PTL

-----------------------------------------------------------------------------
(* The ring as a queue.                                                    *)

\* The entries between two counters, as ImplementsLog takes them to be the queue.
Unread(h, t, s) == [i \in 1 .. Distance(h, t) |-> s[SlotOf((h + i - 1) % Width)]]

\* A sequence q of the entries between two counters.
IsUnread(q, S, h, t, s) ==
    /\ q \in Seq(S)
    /\ Len(q) = Distance(h, t)
    /\ \A i \in 1 .. Distance(h, t) : q[i] = s[SlotOf((h + i - 1) % Width)]

\* They are a sequence as long as the counters are apart.
LEMMA UnreadIsSequence ==
    ASSUME NEW S, NEW h \in Counters, NEW t \in Counters, NEW s \in [Slots -> S]
    PROVE  Distance(h, t) \in Nat /\ IsUnread(Unread(h, t, s), S, h, t, s)
<1>1. Distance(h, t) \in Nat
    BY Advances DEF Counters
<1>2. \A i \in 1 .. Distance(h, t) : SlotOf((h + i - 1) % Width) \in Slots
  <2>1. \A i \in 1 .. Distance(h, t) : (h + i - 1) % Width \in Counters
      BY <1>1, LogRingAssumption DEF LogRingAssumption, Counters
  <2> QED
      BY <2>1, SlotOfCounter
<1>3. Unread(h, t, s) \in [1 .. Distance(h, t) -> S]
    BY <1>2 DEF Unread
<1>4. Unread(h, t, s) \in Seq(S) /\ Len(Unread(h, t, s)) = Distance(h, t)
    BY <1>1, <1>3
<1> QED
    BY <1>1, <1>4 DEF Unread, IsUnread

\* The producer's write changes nothing the kernel can read: what it writes is not told of.
LEMMA WriteIsUnseen ==
    ASSUME NEW S, NEW h \in Counters, NEW t \in Counters, NEW s \in [Slots -> S], NEW w \in [Slots -> S],
           \A x \in Slots : x # SlotOf(t) => w[x] = s[x],
           Distance(h, t) < Capacity
    PROVE  Unread(h, t, w) = Unread(h, t, s)
<1>1. \A i \in 1 .. Distance(h, t) :
          w[SlotOf((h + i - 1) % Width)] = s[SlotOf((h + i - 1) % Width)]
  <2> TAKE i \in 1 .. Distance(h, t)
  <2>1. i - 1 \in Nat /\ i - 1 < Distance(h, t) /\ h + (i - 1) = h + i - 1
      BY Advances DEF Counters
  <2>2. SlotOf((h + i - 1) % Width) # SlotOf(t)
      BY <2>1, WritesBehind
  <2>3. (h + i - 1) % Width \in Counters
      BY LogRingAssumption DEF LogRingAssumption, Counters
  <2>4. SlotOf((h + i - 1) % Width) \in Slots
      BY <2>3, SlotOfCounter
  <2> QED
      BY <2>2, <2>4
<1> QED
    BY <1>1 DEF Unread

\* Tail's step appends the entry in the slot it passes.
LEMMA PublishAppends ==
    ASSUME NEW S, NEW h \in Counters, NEW t \in Counters, NEW s \in [Slots -> S],
           Distance(h, t) < Capacity
    PROVE  Unread(h, (t + 1) % Width, s) = Append(Unread(h, t, s), s[SlotOf(t)])
<1> DEFINE t1 == (t + 1) % Width
           n == Distance(h, t)
           q == Unread(h, t, s)
           q1 == Unread(h, t1, s)
           e == s[SlotOf(t)]
<1>1. t1 \in Counters /\ Distance(h, t1) = n + 1
    BY Advances
<1>2. e \in S
    BY SlotOfCounter
<1> HIDE DEF t1
<1>3. /\ n \in Nat /\ q \in Seq(S) /\ Len(q) = n
      /\ \A i \in 1 .. n : q[i] = s[SlotOf((h + i - 1) % Width)]
    BY UnreadIsSequence DEF IsUnread
<1>4. /\ q1 \in Seq(S) /\ Len(q1) = n + 1
      /\ \A i \in 1 .. n + 1 : q1[i] = s[SlotOf((h + i - 1) % Width)]
  <2>1. /\ q1 \in Seq(S) /\ Len(q1) = Distance(h, t1)
        /\ \A i \in 1 .. Distance(h, t1) : q1[i] = s[SlotOf((h + i - 1) % Width)]
    <3>1. IsUnread(q1, S, h, t1, s)
        BY <1>1, UnreadIsSequence
    <3> QED
        BY <3>1 DEF IsUnread
  <2> QED
      BY <1>1, <2>1
<1>5. (h + (n + 1) - 1) % Width = t
  <2>1. h + (n + 1) - 1 = h + n
      BY <1>3 DEF Counters
  <2> QED
      BY <2>1, DistanceCloses
<1> HIDE DEF n, q, q1, e
<1>6. /\ Append(q, e) \in Seq(S) /\ Len(Append(q, e)) = n + 1
      /\ \A i \in 1 .. n : Append(q, e)[i] = q[i]
      /\ Append(q, e)[n + 1] = e
    BY <1>2, <1>3, AppendProperties
<1>7. q1[n + 1] = e
    BY <1>3, <1>4, <1>5 DEF e
<1>8. \A i \in 1 .. n + 1 : q1[i] = Append(q, e)[i]
  <2> TAKE i \in 1 .. n + 1
  <2>1. CASE i = n + 1
      BY <1>6, <1>7, <2>1
  <2>2. CASE i # n + 1
    <3>1. i \in 1 .. n
        BY <1>3, <2>2
    <3> QED
        BY <1>3, <1>4, <1>6, <3>1
  <2> QED
      BY <2>1, <2>2
<1>9. q1 = Append(q, e)
    BY <1>4, <1>6, <1>8, SeqEqual
<1> QED
    BY <1>9 DEF t1, q, q1, e

\* Head's step removes the entry in the slot it passes.
LEMMA AdvanceRemoves ==
    ASSUME NEW S, NEW h \in Counters, NEW t \in Counters, NEW s \in [Slots -> S], h # t
    PROVE  /\ Unread(h, t, s) # <<>>
           /\ Head(Unread(h, t, s)) = s[SlotOf(h)]
           /\ Unread((h + 1) % Width, t, s) = Tail(Unread(h, t, s))
<1> DEFINE h1 == (h + 1) % Width
           n == Distance(h, t)
           q == Unread(h, t, s)
           q1 == Unread(h1, t, s)
<1>1. h1 \in Counters /\ Distance(h1, t) = n - 1 /\ n # 0
    BY Advances
<1>2. \A i \in Counters : (h1 + i) % Width = (h + i + 1) % Width
  <2> TAKE i \in Counters
  <2>1. /\ Width \in Nat /\ h \in Nat /\ h < Width /\ i \in Nat /\ i < Width
      BY LogRingAssumption DEF LogRingAssumption, Counters
  <2>2. h1 = IF h + 1 = Width THEN 0 ELSE h + 1
      BY Wraps
  <2>3. CASE h + 1 = Width
    <3>1. h1 + i = i /\ h + i + 1 = i + Width /\ i % Width = i /\ (i + Width) % Width = i
        BY <2>1, <2>2, <2>3
    <3> QED
        BY <3>1
  <2>4. CASE h + 1 # Width
    <3>1. h1 + i = h + i + 1
        BY <2>1, <2>2, <2>4
    <3> QED
        BY <3>1
  <2> QED
      BY <2>3, <2>4
<1> HIDE DEF h1
<1>3. /\ n \in Counters /\ n \in Nat /\ n < Width /\ q \in Seq(S) /\ Len(q) = n
      /\ \A i \in 1 .. n : q[i] = s[SlotOf((h + i - 1) % Width)]
  <2>1. n \in Counters
      BY Advances
  <2>2. n \in Nat /\ n < Width
      BY <2>1, LogRingAssumption DEF Counters, LogRingAssumption
  <2>3. /\ q \in Seq(S) /\ Len(q) = n
        /\ \A i \in 1 .. n : q[i] = s[SlotOf((h + i - 1) % Width)]
      BY UnreadIsSequence DEF IsUnread
  <2> QED
      BY <2>1, <2>2, <2>3
<1>4. /\ q1 \in Seq(S) /\ Len(q1) = n - 1
      /\ \A i \in 1 .. n - 1 : q1[i] = s[SlotOf((h1 + i - 1) % Width)]
  <2>1. /\ q1 \in Seq(S) /\ Len(q1) = Distance(h1, t)
        /\ \A i \in 1 .. Distance(h1, t) : q1[i] = s[SlotOf((h1 + i - 1) % Width)]
    <3>1. IsUnread(q1, S, h1, t, s)
        BY <1>1, UnreadIsSequence
    <3> QED
        BY <3>1 DEF IsUnread
  <2> QED
      BY <1>1, <2>1
<1>5. (h + 1 - 1) % Width = h
    BY LogRingAssumption DEF LogRingAssumption, Counters
<1> HIDE DEF n, q, q1
<1>6. q # <<>>
    BY <1>1, <1>3
<1>7. Head(q) = s[SlotOf(h)]
    BY <1>1, <1>3, <1>5, <1>6
<1>8. /\ Tail(q) \in Seq(S) /\ Len(Tail(q)) = n - 1
      /\ \A i \in 1 .. n - 1 : Tail(q)[i] = q[i + 1]
    BY <1>3, <1>6, HeadTailProperties
<1>9. \A i \in 1 .. n - 1 : q1[i] = Tail(q)[i]
  <2> TAKE i \in 1 .. n - 1
  <2>1. i \in Nat /\ i - 1 \in Counters /\ i + 1 \in 1 .. n
      BY <1>3, LogRingAssumption DEF Counters, LogRingAssumption
  <2>2. h + (i + 1) - 1 = h + (i - 1) + 1 /\ h1 + i - 1 = h1 + (i - 1)
      BY <1>1, <2>1 DEF Counters
  <2>3. (h1 + i - 1) % Width = (h + (i + 1) - 1) % Width
      BY <1>2, <2>1, <2>2
  <2> QED
      BY <1>3, <1>4, <1>8, <2>1, <2>3
<1>10. q1 = Tail(q)
    BY <1>4, <1>8, <1>9, SeqEqual
<1> QED
    BY <1>6, <1>7, <1>10 DEF h1, q, q1

-----------------------------------------------------------------------------
(* The ring implements the queue.                                          *)

\* The queue that BoundedLog is instantiated with.
Queue == Unread(head, tail, slot)

\* The actions of BoundedLog under the refinement mapping.
LEMMA LogActions ==
    /\ Log!Init <=> Queue = <<>> /\ got = None /\ dropped = 0
    /\ \A e : Log!Put(e) <=> /\ Len(Queue) < Capacity
                             /\ Queue' = Append(Queue, e)
                             /\ UNCHANGED <<got, dropped>>
    /\ Log!Get <=> /\ Queue # <<>>
                   /\ got' = Head(Queue)
                   /\ Queue' = Tail(Queue)
                   /\ UNCHANGED dropped
    /\ Log!Refuse <=> /\ Len(Queue) = Capacity
                      /\ dropped' = 1 - dropped
                      /\ UNCHANGED <<Queue, got>>
    /\ UNCHANGED Log!vars <=> UNCHANGED <<Queue, got, dropped>>
BY DEF Queue, Unread, Log!Init, Log!Put, Log!Get, Log!Refuse, Log!vars

\* The empty ring is the empty queue.
LEMMA QueueInit == Init => Log!Init
<1> SUFFICES ASSUME Init PROVE Log!Init
    OBVIOUS
<1>1. head \in Counters /\ tail \in Counters /\ slot \in [Slots -> Entries \cup {None}]
    BY RingInvInit DEF RingInv, RingTypes
<1>2. Distance(head, tail) = 0
    BY <1>1, Advances DEF Init
<1>3. Queue \in Seq(Entries \cup {None}) /\ Len(Queue) = 0
    BY <1>1, <1>2, UnreadIsSequence DEF IsUnread, Queue
<1>4. Queue = <<>>
    BY <1>3, EmptySeq
<1> QED
    BY <1>4, LogActions DEF Init

\* Tail's store puts the entry, Head's gets the oldest, a full ring refuses, and nothing
\* else that appendLogPagesLocked or the kernel does shows.
LEMMA QueueStep == RingInv /\ [Next]_vars => [Log!Next]_(Log!vars)
<1> SUFFICES ASSUME RingInv, [Next]_vars
             PROVE  Log!Next \/ UNCHANGED Log!vars
    OBVIOUS
<1> USE DEF RingInv, RingTypes
<1> DEFINE All == Entries \cup {None}
<1>1. /\ head \in Counters /\ tail \in Counters /\ slot \in [Slots -> All]
      /\ Distance(head, tail) \in Nat /\ Distance(headCache, tail) \in Nat
      /\ Capacity \in Nat
  <2>1. Distance(head, tail) \in Counters /\ Distance(headCache, tail) \in Counters
      BY Advances
  <2> QED
      BY <2>1, LogRingAssumption DEF LogRingAssumption, Counters
<1> HIDE DEF All, RingInv, RingTypes
<1>2. Len(Queue) = Distance(head, tail)
    BY <1>1, UnreadIsSequence DEF Queue, IsUnread
<1>3. ASSUME UNCHANGED <<head, tail, slot>>
      PROVE  Queue' = Queue
    BY <1>3 DEF Queue, Unread, Distance, SlotOf
<1>4. ASSUME NEW e \in Entries, A_Call(e)
      PROVE  UNCHANGED Log!vars
    BY <1>3, <1>4, LogActions DEF A_Call, kernelVars
<1>5. CASE A_Check
    BY <1>3, <1>5, LogActions DEF A_Check, kernelVars
<1>6. CASE A_Reread
    BY <1>3, <1>6, LogActions DEF A_Reread, kernelVars
<1>7. CASE A_LastLook
    BY <1>3, <1>7, LogActions DEF A_LastLook, kernelVars
<1>8. CASE A_Refuse
  <2>1. Distance(head, tail) = Capacity
      BY <1>1, <1>8 DEF RingInv, A_Refuse, FullFor, LastHead, CacheNeverOverstates
  <2>2. Queue' = Queue /\ got' = got /\ dropped' = 1 - dropped
      BY <1>3, <1>8 DEF A_Refuse, kernelVars
  <2>3. Log!Refuse
      BY <1>2, <2>1, <2>2, LogActions
  <2> QED
      BY <2>3 DEF Log!Next
<1>9. CASE A_Write
  <2>1. Distance(head, tail) < Capacity
      BY <1>1, <1>9 DEF RingInv, A_Write, RoomToWrite, CacheNeverOverstates
  <2>2. /\ slot' = [slot EXCEPT ![SlotOf(tail)] = entry]
        /\ entry \in Entries
        /\ UNCHANGED <<head, tail, got, dropped>>
      BY <1>9 DEF RingInv, WrittenFirst, A_Write, kernelVars
  <2>3. /\ slot' \in [Slots -> All]
        /\ \A x \in Slots : x # SlotOf(tail) => slot'[x] = slot[x]
      BY <1>1, <2>2 DEF All
  <2>4. Queue' = Unread(head, tail, slot')
      BY <2>2 DEF Queue, Unread, Distance, SlotOf
  <2>5. Unread(head, tail, slot') = Unread(head, tail, slot)
      BY <1>1, <2>1, <2>3, WriteIsUnseen
  <2> QED
      BY <2>2, <2>4, <2>5, LogActions DEF Queue
<1>10. CASE A_Publish
  <2>1. Distance(head, tail) < Capacity
      BY <1>1, <1>10 DEF RingInv, A_Publish, RoomToWrite, CacheNeverOverstates
  <2>2. slot[SlotOf(tail)] = entry /\ entry \in Entries
      BY <1>10 DEF RingInv, A_Publish, WrittenFirst
  <2>3. tail' = (tail + 1) % Width /\ UNCHANGED <<head, slot, got, dropped>>
      BY <1>10 DEF A_Publish, kernelVars
  <2>4. Queue' = Unread(head, tail', slot)
      BY <2>3 DEF Queue, Unread, Distance, SlotOf
  <2>5. Queue' = Append(Queue, entry)
      BY <1>1, <2>1, <2>2, <2>3, <2>4, PublishAppends DEF Queue
  <2>6. Log!Put(entry)
      BY <1>2, <2>1, <2>3, <2>5, LogActions
  <2> QED
      BY <2>2, <2>6 DEF Log!Next
<1>11. CASE K_Copy
    BY <1>3, <1>11, LogActions DEF K_Copy, producerVars
<1>12. CASE K_Advance
  <2>1. head # tail /\ copy = slot[SlotOf(head)]
      BY <1>12 DEF RingInv, K_Advance, CopyIsOldest
  <2>2. head' = (head + 1) % Width /\ got' = copy /\ UNCHANGED <<tail, slot, dropped>>
      BY <1>12 DEF K_Advance, producerVars
  <2>3. Queue' = Unread(head', tail, slot)
      BY <2>2 DEF Queue, Unread, Distance, SlotOf
  <2>4. Queue # <<>> /\ Head(Queue) = copy /\ Queue' = Tail(Queue)
    <3>1. /\ Unread(head, tail, slot) # <<>>
          /\ Head(Unread(head, tail, slot)) = slot[SlotOf(head)]
          /\ Unread((head + 1) % Width, tail, slot) = Tail(Unread(head, tail, slot))
        BY <1>1, <2>1, AdvanceRemoves
    <3> QED
        BY <2>1, <2>2, <2>3, <3>1 DEF Queue
  <2>5. Log!Get
      BY <2>2, <2>4, LogActions
  <2> QED
      BY <2>5 DEF Log!Next
<1>13. CASE UNCHANGED vars
    BY <1>3, <1>13, LogActions DEF vars
<1> QED
    BY <1>4, <1>5, <1>6, <1>7, <1>8, <1>9, <1>10, <1>11, <1>12, <1>13 DEF Next

\* What appendLogPagesLocked and the kernel make of the ring is a first-in first-out queue
\* of Capacity entries, whatever the width of the counters and wherever they wrap.
THEOREM RingImplementsQueue == Spec => ImplementsLog
<1>1. Init => Log!Init
    BY QueueInit
<1>2. RingInv /\ [Next]_vars => [Log!Next]_(Log!vars)
    BY QueueStep
<1> QED
    BY <1>1, <1>2, RingInvariant, PTL DEF Spec, ImplementsLog, Log!Spec
=============================================================================
